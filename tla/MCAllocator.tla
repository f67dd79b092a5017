---------------------------- MODULE MCAllocator -----------------------------
(***************************************************************************)
(* Instances of Allocator for TLC.                                         *)
(***************************************************************************)
EXTENDS Allocator, TLC

MCMetadataSize == 1104

\* 2^16 stands for 2^64.
MCWord64 == 65536

\* Descriptors: two the service can allocate, and one for each way it has of
\* turning a descriptor down.
Texture ==
  [width |-> 640, height |-> 480, layerCount |-> 1, format |-> "RGBA_8888",
   usage |-> {8, 9}, reservedSize |-> 0, additionalOptions |-> {}]

Video ==
  [Texture EXCEPT !.format = "YV12", !.usage = {0, 1, 22}, !.reservedSize = 64,
     !.additionalOptions =
        {[name |-> STANDARD_METADATA_DATASPACE, value |-> "BT709"]}]

UnknownOption ==
  [Texture EXCEPT !.additionalOptions = {[name |-> "Vendor", value |-> "any"]}]

Layered == [Texture EXCEPT !.layerCount = 2]

Tiled == [Texture EXCEPT !.format = "NV12_TILED"]

ReservedBit == [Texture EXCEPT !.usage = {8, 10}]

FrontBuffer == [Texture EXCEPT !.usage = FRONT_BUFFER]

Call(api, decodes, desc, count) ==
  [api |-> api, decodes |-> decodes, desc |-> desc, count |-> count]

\* Two batches, single buffers of both APIs, an empty call, and a refusal of
\* every kind.
MCRequests ==
  {Call("allocate", TRUE, Texture, 2), Call("allocate2", TRUE, Video, 2),
   Call("allocate2", TRUE, Texture, 0), Call("allocate", FALSE, Texture, 1),
   Call("allocate2", TRUE, UnknownOption, 1), Call("allocate", TRUE, Layered, 1)}

\* The rest of the refusals.
MCRefusals ==
  MCRequests \cup
  {Call("allocate2", TRUE, Tiled, 1), Call("allocate2", TRUE, ReservedBit, 1),
   Call("allocate2", TRUE, FrontBuffer, 1)}

\* Fewer calls, for the runs with a temporal property.
MCLiveRequests ==
  {Call("allocate", TRUE, Texture, 2), Call("allocate2", TRUE, Video, 1),
   Call("allocate2", TRUE, Tiled, 1)}

ThreadAndBufferSymmetry == Permutations(Threads) \cup Permutations(Buffers)

=============================================================================
