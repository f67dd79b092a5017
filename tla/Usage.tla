------------------------------- MODULE Usage --------------------------------
(***************************************************************************)
(* From the usage a client asks for to what the driver works with          *)
(* (utils/gralloc_helpers.cpp): gralloc_convert_usage, call by call of     *)
(* handle_usage, and gralloc_convert_map_usage.  One behaviour converts    *)
(* one usage word.                                                         *)
(*                                                                         *)
(* A word is the set of its bits; BO_USE_* and BO_MAP_* flags go without   *)
(* their prefix.  The table is that of ANDROID_SDK_VERSION >= 29.          *)
(***************************************************************************)
EXTENDS Descriptor

CONSTANT Usages   \* the usage words that are converted

ASSUME UsagesAssumption == Usages \subseteq SUBSET (0 .. 63)

Row(mask, flags) == [mask |-> mask, flags |-> flags]

\* The calls of handle_usage, in order.
UsageTable ==
  <<Row({0, 1}, {"SW_READ_OFTEN"}),          \* SW_READ_OFTEN
    Row({1}, {"SW_READ_RARELY"}),            \* SW_READ_RARELY
    Row({4, 5}, {"SW_WRITE_OFTEN"}),         \* SW_WRITE_OFTEN
    Row({5}, {"SW_WRITE_RARELY"}),           \* SW_WRITE_RARELY
    Row({8}, {"TEXTURE"}),                   \* HW_TEXTURE
    Row({9}, {"RENDERING"}),                 \* HW_RENDER
    Row({10}, {"RENDERING"}),                \* HW_2D
    Row({11}, {"SCANOUT", "TEXTURE"}),       \* HW_COMPOSER
    Row({12}, {}),                           \* HW_FB
    Row({13}, {}),                           \* EXTERNAL_DISP
    Row({14}, {"LINEAR"}),                   \* PROTECTED
    Row({15}, {}),                           \* CURSOR
    Row({16}, {"HW_VIDEO_ENCODER", "SW_READ_OFTEN"}),
    Row({17}, {"CAMERA_WRITE"}),
    Row({18}, {"CAMERA_READ"}),
    Row({20}, {"RENDERSCRIPT"}),
    Row({22}, {"HW_VIDEO_DECODER"}),
    Row({23}, {"SENSOR_DIRECT_DATA"}),
    Row({24}, {"GPU_DATA_BUFFER"}),
    Row({28, 32}, {"FRONT_RENDERING"}),      \* FRONT_RENDERING_MASK
    Row({28}, {"GPU_TILED_VIV"}),            \* PRIVATE_0
    Row({29}, {"GPU_TS_VIV"}),               \* PRIVATE_1
    Row({31}, {"GPU_NO_CLEAR_VIV"})>>        \* PRIVATE_3

READ_RATES == {"SW_READ_OFTEN", "SW_READ_RARELY"}
WRITE_RATES == {"SW_WRITE_OFTEN", "SW_WRITE_RARELY"}

UseFlags == UNION {UsageTable[k].flags : k \in 1 .. Len(UsageTable)}

VARIABLES asked,      \* the usage of the descriptor
          pc,         \* "convert", "converted" or "mapped"
          n,          \* handle_usage calls made
          usage,      \* the bits of the local usage not handled yet
          use_flags,  \* the local use_flags
          result,     \* what gralloc_convert_usage returned
          map_flags   \* what gralloc_convert_map_usage returned

vars == <<asked, pc, n, usage, use_flags, result, map_flags>>

Init ==
  /\ asked \in Usages
  /\ pc = "convert"
  /\ n = 0
  /\ usage = asked
  /\ use_flags = {}
  /\ result = {}
  /\ map_flags = {}

\* Slip: the bits stay in the usage.
handle_usage_KeepsBits(row) ==
  \/ /\ usageTest(usage, row.mask)
     /\ use_flags' = use_flags \cup row.flags
     /\ UNCHANGED usage
  \/ /\ ~usageTest(usage, row.mask)
     /\ UNCHANGED <<usage, use_flags>>

\* Slip: all bits of the mask are wanted.
handle_usage_WholeMask(row) ==
  \/ /\ row.mask \subseteq usage
     /\ usage' = usage \ row.mask
     /\ use_flags' = use_flags \cup row.flags
  \/ /\ ~(row.mask \subseteq usage)
     /\ UNCHANGED <<usage, use_flags>>

handle_usage(row) ==
  \/ /\ usageTest(usage, row.mask)
     /\ usage' = usage \ row.mask
     /\ use_flags' = use_flags \cup row.flags
  \/ /\ ~usageTest(usage, row.mask)
     /\ UNCHANGED <<usage, use_flags>>

HandleUsage ==
  /\ pc = "convert" /\ n < Len(UsageTable)
  /\ n' = n + 1
  /\ handle_usage(UsageTable[n + 1])
  /\ UNCHANGED <<asked, pc, result, map_flags>>

\* All bits handled, or "Unhandled gralloc usage": BO_USE_NONE.
ReturnUseFlags ==
  /\ pc = "convert" /\ n = Len(UsageTable)
  /\ \/ usage = {} /\ result' = use_flags
     \/ usage # {} /\ result' = {}
  /\ pc' = "converted"
  /\ UNCHANGED <<asked, n, usage, use_flags, map_flags>>

\* Slip: only the RARELY bits count.
gralloc_convert_map_usage_Rarely(word) ==
  {flag \in {"READ", "WRITE"} :
     usageTest(word, IF flag = "READ" THEN {1} ELSE {5})}

\* SW_READ_MASK and SW_WRITE_MASK are four bits each.
gralloc_convert_map_usage(word) ==
  {flag \in {"READ", "WRITE"} :
     usageTest(word, IF flag = "READ" THEN 0 .. 3 ELSE 4 .. 7)}

MapUsage ==
  /\ pc = "converted"
  /\ map_flags' = gralloc_convert_map_usage(asked)
  /\ pc' = "mapped"
  /\ UNCHANGED <<asked, n, usage, use_flags, result>>

Next == HandleUsage \/ ReturnUseFlags \/ MapUsage

Spec == Init /\ [][Next]_vars

-----------------------------------------------------------------------------
(* Properties.                                                             *)

\* The bits the first k calls of handle_usage look for.
Masks(k) == UNION {UsageTable[j].mask : j \in 1 .. k}

\* Call k finds one of its bits, left over by the calls before it.
Takes(k) == usageTest(asked \ Masks(k - 1), UsageTable[k].mask)

\* At every moment of gralloc_convert_usage the local usage is what no call so
\* far looked for, and use_flags holds the flags of exactly the calls whose
\* bits no earlier call had consumed; what it returns is all of these flags or,
\* with a bit nobody looks for, none.
ConvertsInOrder ==
  /\ usage = asked \ Masks(n)
  /\ use_flags = UNION {UsageTable[k].flags : k \in {k \in 1 .. n : Takes(k)}}
  /\ pc # "convert" =>
       /\ n = Len(UsageTable)
       /\ result = IF asked \subseteq Masks(n) THEN use_flags ELSE {}

\* The driver is never told two rates of CPU access of one kind: OFTEN contains
\* the RARELY bit and is handled first, whatever order other bits come in.
OneRate ==
  /\ ~(READ_RATES \subseteq use_flags)
  /\ ~(WRITE_RATES \subseteq use_flags)

\* A buffer that converts is allocated for CPU access exactly if the same
\* usage given to lock would map it for such access; only an encoder's buffer
\* is also allocated for reads nobody asked for.
MapAgreesWithUse ==
  (pc = "mapped" /\ asked \subseteq Masks(Len(UsageTable))) =>
    /\ (result \cap WRITE_RATES # {}) <=> ("WRITE" \in map_flags)
    /\ ("READ" \in map_flags) => (result \cap READ_RATES # {})
    /\ (result \cap READ_RATES # {}) =>
         ("READ" \in map_flags \/ "HW_VIDEO_ENCODER" \in result)

=============================================================================
