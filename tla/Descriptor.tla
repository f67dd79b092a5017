----------------------------- MODULE Descriptor -----------------------------
(***************************************************************************)
(* How the allocator service judges a buffer descriptor                    *)
(* (allocator/aidl/allocator.cpp, allocator/aidl/allocator.h).             *)
(*                                                                         *)
(* A 64-bit usage word is the set of its bit positions.  A descriptor is a *)
(* record with the fields the code looks at; its additional options are a  *)
(* set of [name, value] records.                                           *)
(***************************************************************************)
EXTENDS PixelFormats

CONSTANTS MetadataSize,  \* sizeof(gralloc_metadata)
          Word64         \* the number of values of a uint64_t, scaled down

ASSUME MetadataSizeAssumption ==
  MetadataSize \in Nat \ {0} /\ Word64 \in Nat /\ MetadataSize < Word64

-----------------------------------------------------------------------------
(* Usage words.  The masks of allocator.h, as sets of bits.                *)

FRONT_BUFFER == {32}

enum_values ==
  {{}, {1}, {0, 1}, {5}, {4, 5}}            \* CPU_{READ,WRITE}_{NEVER,RARELY,OFTEN}
    \cup {{b} : b \in {8, 9, 11, 12} \cup (14..18) \cup {20} \cup (22..27)}
    \cup {FRONT_BUFFER}

wrong_enum_values == {{10}, {13}, {19}, {21}}

usageTest(a, b) == a \cap b # {}

\* At least one named bit (or none at all), no reserved bit, nothing above
\* bit 32, and no front buffer.
usageTestLoop(a) ==
  /\ a = {} \/ \E value \in enum_values : usageTest(a, value)
  /\ ~ \E value \in wrong_enum_values : usageTest(a, value)
  /\ ~ usageTest(a, 33..63)
  /\ ~ usageTest(a, FRONT_BUFFER)

-----------------------------------------------------------------------------
(* Descriptors.                                                            *)

STANDARD_METADATA_DATASPACE == "Dataspace"

\* toInternalDescriptor: does it reach its "return false"?
Convertible(info) ==
  /\ info.width # 0 /\ info.height # 0 /\ info.layerCount # 0
  /\ info.layerCount = 1
  /\ gralloc_convert_format(info.format) # DRM_FORMAT_NONE
  /\ usageTestLoop(info.usage)

\* The buffer_descriptor_t it fills in.  layer_count, use_flags and dataspace
\* keep what "bufferDescriptor = {}" gave them; the size is a uint64_t sum.
toInternalDescriptor(info) ==
  [width |-> info.width, height |-> info.height, hal_format |-> info.format,
   layer_count |-> 0, buffer_usage |-> info.usage, use_flags |-> {},
   reserved_region_size |-> (info.reservedSize + MetadataSize) % Word64,
   dataspace |-> "UNKNOWN"]

\* allocate2: its loop over descriptor.additionalOptions comes to an end.
OptionsAccepted(info) ==
  \A option \in info.additionalOptions :
    option.name = STANDARD_METADATA_DATASPACE

\* isSupported, with a loop of its own: the result starts out true, and the
\* conversion and every option may set it to false.
isSupported(info) ==
  /\ Convertible(info)
  /\ ~ \E option \in info.additionalOptions :
       option.name # STANDARD_METADATA_DATASPACE

=============================================================================
