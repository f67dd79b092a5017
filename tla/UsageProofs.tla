---------------------------- MODULE UsageProofs -----------------------------
(***************************************************************************)
(* Theorems about Usage: what gralloc_convert_usage computes for every     *)
(* usage word, not only for the words TLC enumerates.                      *)
(***************************************************************************)
EXTENDS Usage, TLAPS

-----------------------------------------------------------------------------
(* The table.                                                              *)

\* The table has 23 rows.
LEMMA TableLength == Len(UsageTable) = 23
  BY DEF UsageTable, Row

Rates == READ_RATES \cup WRITE_RATES

\* The first four calls and that of the video encoder give rates of CPU access,
\* each its own.
LEMMA RateRows ==
  ASSUME NEW k \in 1 .. Len(UsageTable)
  PROVE  UsageTable[k].flags \cap Rates =
           IF k = 1 \/ k = 13 THEN {"SW_READ_OFTEN"}
           ELSE IF k = 2 THEN {"SW_READ_RARELY"}
           ELSE IF k = 3 THEN {"SW_WRITE_OFTEN"}
           ELSE IF k = 4 THEN {"SW_WRITE_RARELY"} ELSE {}
<1>1. /\ UsageTable[1].flags \cap Rates = {"SW_READ_OFTEN"}
      /\ UsageTable[2].flags \cap Rates = {"SW_READ_RARELY"}
      /\ UsageTable[3].flags \cap Rates = {"SW_WRITE_OFTEN"}
      /\ UsageTable[4].flags \cap Rates = {"SW_WRITE_RARELY"}
      /\ UsageTable[13].flags \cap Rates = {"SW_READ_OFTEN"}
  BY DEF UsageTable, Row, Rates, READ_RATES, WRITE_RATES
<1>2. /\ UsageTable[5].flags \cap Rates = {}
      /\ UsageTable[6].flags \cap Rates = {}
      /\ UsageTable[7].flags \cap Rates = {}
      /\ UsageTable[8].flags \cap Rates = {}
      /\ UsageTable[9].flags \cap Rates = {}
      /\ UsageTable[10].flags \cap Rates = {}
      /\ UsageTable[11].flags \cap Rates = {}
      /\ UsageTable[12].flags \cap Rates = {}
      /\ UsageTable[14].flags \cap Rates = {}
      /\ UsageTable[15].flags \cap Rates = {}
      /\ UsageTable[16].flags \cap Rates = {}
      /\ UsageTable[17].flags \cap Rates = {}
      /\ UsageTable[18].flags \cap Rates = {}
      /\ UsageTable[19].flags \cap Rates = {}
      /\ UsageTable[20].flags \cap Rates = {}
      /\ UsageTable[21].flags \cap Rates = {}
      /\ UsageTable[22].flags \cap Rates = {}
      /\ UsageTable[23].flags \cap Rates = {}
  BY DEF UsageTable, Row, Rates, READ_RATES, WRITE_RATES
<1>3. \/ k \in {1, 2, 3, 4, 13}
      \/ k = 5 \/ k = 6 \/ k = 7 \/ k = 8 \/ k = 9 \/ k = 10
      \/ k = 11 \/ k = 12 \/ k = 14 \/ k = 15 \/ k = 16 \/ k = 17
      \/ k = 18 \/ k = 19 \/ k = 20 \/ k = 21 \/ k = 22 \/ k = 23
  BY TableLength
<1>4. QED BY <1>1, <1>2, <1>3

\* The bits any call looks for.
Known == {0, 1, 4, 5, 8, 9, 10, 11, 12, 13, 14, 15, 16, 17, 18, 20, 22, 23, 24, 28, 29, 31, 32}

LEMMA AllMasks == Masks(Len(UsageTable)) = Known
<1>1. /\ UsageTable[1].mask = {0, 1} /\ UsageTable[2].mask = {1} /\ UsageTable[3].mask = {4, 5}
      /\ UsageTable[4].mask = {5} /\ UsageTable[5].mask = {8} /\ UsageTable[6].mask = {9}
      /\ UsageTable[7].mask = {10} /\ UsageTable[8].mask = {11} /\ UsageTable[9].mask = {12}
      /\ UsageTable[10].mask = {13} /\ UsageTable[11].mask = {14} /\ UsageTable[12].mask = {15}
      /\ UsageTable[13].mask = {16} /\ UsageTable[14].mask = {17} /\ UsageTable[15].mask = {18}
      /\ UsageTable[16].mask = {20} /\ UsageTable[17].mask = {22} /\ UsageTable[18].mask = {23}
      /\ UsageTable[19].mask = {24} /\ UsageTable[20].mask = {28, 32} /\ UsageTable[21].mask = {28}
      /\ UsageTable[22].mask = {29} /\ UsageTable[23].mask = {31}
  BY DEF UsageTable, Row
<1>2. ASSUME NEW k \in 1 .. Len(UsageTable) PROVE UsageTable[k].mask \subseteq Known
  <2>1. \/ k = 1 \/ k = 2 \/ k = 3 \/ k = 4 \/ k = 5 \/ k = 6 \/ k = 7 \/ k = 8
        \/ k = 9 \/ k = 10 \/ k = 11 \/ k = 12 \/ k = 13 \/ k = 14 \/ k = 15 \/ k = 16
        \/ k = 17 \/ k = 18 \/ k = 19 \/ k = 20 \/ k = 21 \/ k = 22 \/ k = 23
    BY TableLength
  <2>2. /\ {0, 1} \subseteq Known /\ {1} \subseteq Known /\ {4, 5} \subseteq Known
        /\ {5} \subseteq Known /\ {28, 32} \subseteq Known
        /\ \A b \in Known : {b} \subseteq Known
    BY DEF Known
  <2>3. /\ 8 \in Known /\ 9 \in Known /\ 10 \in Known /\ 11 \in Known /\ 12 \in Known /\ 13 \in Known
        /\ 14 \in Known /\ 15 \in Known /\ 16 \in Known /\ 17 \in Known /\ 18 \in Known /\ 20 \in Known
        /\ 22 \in Known /\ 23 \in Known /\ 24 \in Known /\ 28 \in Known /\ 29 \in Known /\ 31 \in Known
    BY DEF Known
  <2>4. /\ UsageTable[1].mask \subseteq Known
        /\ UsageTable[2].mask \subseteq Known
        /\ UsageTable[3].mask \subseteq Known
        /\ UsageTable[4].mask \subseteq Known
        /\ UsageTable[5].mask \subseteq Known
        /\ UsageTable[6].mask \subseteq Known
        /\ UsageTable[7].mask \subseteq Known
        /\ UsageTable[8].mask \subseteq Known
        /\ UsageTable[9].mask \subseteq Known
        /\ UsageTable[10].mask \subseteq Known
        /\ UsageTable[11].mask \subseteq Known
        /\ UsageTable[12].mask \subseteq Known
    BY <1>1, <2>2, <2>3
  <2>5. /\ UsageTable[13].mask \subseteq Known
        /\ UsageTable[14].mask \subseteq Known
        /\ UsageTable[15].mask \subseteq Known
        /\ UsageTable[16].mask \subseteq Known
        /\ UsageTable[17].mask \subseteq Known
        /\ UsageTable[18].mask \subseteq Known
        /\ UsageTable[19].mask \subseteq Known
        /\ UsageTable[20].mask \subseteq Known
        /\ UsageTable[21].mask \subseteq Known
        /\ UsageTable[22].mask \subseteq Known
        /\ UsageTable[23].mask \subseteq Known
    BY <1>1, <2>2, <2>3
  <2>6. QED BY <2>1, <2>4, <2>5
<1>3. ASSUME NEW b \in Known PROVE \E k \in 1 .. 23 : b \in UsageTable[k].mask
  <2>1. \/ b = 0 \/ b = 1 \/ b = 4 \/ b = 5 \/ b = 8 \/ b = 9 \/ b = 10 \/ b = 11
        \/ b = 12 \/ b = 13 \/ b = 14 \/ b = 15 \/ b = 16 \/ b = 17 \/ b = 18 \/ b = 20
        \/ b = 22 \/ b = 23 \/ b = 24 \/ b = 28 \/ b = 29 \/ b = 31 \/ b = 32
    BY DEF Known
  <2>2. \A k \in {1, 3, 5, 6, 7, 8, 9, 10, 11, 12, 13, 14, 15, 16, 17, 18, 19, 20, 22, 23} : k \in 1 .. 23
    OBVIOUS
  <2>3. QED BY <1>1, <2>1, <2>2
<1>4. QED BY <1>2, <1>3, TableLength DEF Masks

\* The bits looked for so far grow by the next call's mask.
LEMMA MasksStep ==
  ASSUME NEW k \in Nat
  PROVE  Masks(k + 1) = Masks(k) \cup UsageTable[k + 1].mask
<1>1. 1 .. (k + 1) = (1 .. k) \cup {k + 1}
  OBVIOUS
<1>2. QED BY <1>1 DEF Masks

\* The first call finds bit 0 and 1, the third 4 and 5: they leave nothing to
\* the RARELY calls.
LEMMA OftenConsumesRarely == ~Takes(2) /\ ~Takes(4)
<1>1. /\ UsageTable[1].mask = {0, 1} /\ UsageTable[2].mask = {1}
      /\ UsageTable[3].mask = {4, 5} /\ UsageTable[4].mask = {5}
  BY DEF UsageTable, Row
<1>2. {0, 1} \subseteq Masks(1) /\ {4, 5} \subseteq Masks(3)
  BY <1>1 DEF Masks
<1>3. 2 - 1 = 1 /\ 4 - 1 = 3
  OBVIOUS
<1>4. QED BY <1>1, <1>2, <1>3 DEF Takes, usageTest

-----------------------------------------------------------------------------
(* gralloc_convert_usage.                                                  *)

\* The inductive invariant: where the conversion is, and what lock would make
\* of the same usage once that is computed.
Inv ==
  /\ asked \in Usages
  /\ pc \in {"convert", "converted", "mapped"}
  /\ n \in 0 .. Len(UsageTable)
  /\ pc = "mapped" => map_flags = gralloc_convert_map_usage(asked)
  /\ ConvertsInOrder

\* Nothing is looked for before the first call.
LEMMA InvInit == Init => Inv
<1> SUFFICES ASSUME Init PROVE Inv
  OBVIOUS
<1>1. Masks(0) = {} /\ {k \in 1 .. 0 : Takes(k)} = {}
  BY DEF Masks
<1>2. usage = asked \ Masks(n)
  BY <1>1 DEF Init
<1>3. use_flags = UNION {UsageTable[k].flags : k \in {k \in 1 .. n : Takes(k)}}
  BY <1>1 DEF Init
<1>4. n \in 0 .. Len(UsageTable)
  BY TableLength DEF Init
<1>5. QED BY <1>2, <1>3, <1>4 DEF Inv, ConvertsInOrder, Init

\* A call of handle_usage extends both closed forms by its row.
LEMMA HandleStep ==
  ASSUME Inv, HandleUsage
  PROVE  Inv'
<1> USE DEF Inv
<1>1. /\ n \in Nat /\ n' = n + 1 /\ n + 1 \in 0 .. Len(UsageTable)
      /\ pc = "convert" /\ UNCHANGED <<asked, pc>>
  BY TableLength DEF HandleUsage
<1> DEFINE row == UsageTable[n + 1]
           taken(m) == {k \in 1 .. m : Takes(k)}
<1>2. Masks(n + 1) = Masks(n) \cup row.mask
  BY <1>1, MasksStep
<1>3. usage' = usage \ row.mask
  BY DEF HandleUsage, handle_usage, usageTest
<1>4. usage' = asked' \ Masks(n + 1)
  BY <1>1, <1>2, <1>3 DEF ConvertsInOrder
<1>5. Takes(n + 1) <=> usageTest(usage, row.mask)
  <2>1. (n + 1) - 1 = n
    BY <1>1
  <2>2. QED BY <2>1 DEF Takes, ConvertsInOrder
<1>6. 1 .. (n + 1) = (1 .. n) \cup {n + 1}
  BY <1>1
<1>7. CASE usageTest(usage, row.mask)
  <2>1. taken(n + 1) = taken(n) \cup {n + 1}
    BY <1>5, <1>6, <1>7
  <2>2. use_flags' = use_flags \cup row.flags
    BY <1>7 DEF HandleUsage, handle_usage
  <2>3. use_flags' = UNION {UsageTable[k].flags : k \in taken(n + 1)}
    BY <2>1, <2>2 DEF ConvertsInOrder
  <2>4. QED BY <1>1, <1>4, <2>3 DEF ConvertsInOrder, Takes, Masks
<1>8. CASE ~usageTest(usage, row.mask)
  <2>1. taken(n + 1) = taken(n)
    BY <1>5, <1>6, <1>8
  <2>2. use_flags' = use_flags
    BY <1>8 DEF HandleUsage, handle_usage
  <2>3. use_flags' = UNION {UsageTable[k].flags : k \in taken(n + 1)}
    BY <2>1, <2>2 DEF ConvertsInOrder
  <2>4. QED BY <1>1, <1>4, <2>3 DEF ConvertsInOrder, Takes, Masks
<1>9. QED BY <1>7, <1>8

\* Every step keeps the closed form.
LEMMA InvStep == Inv /\ [Next]_vars => Inv'
<1> SUFFICES ASSUME Inv, [Next]_vars PROVE Inv'
  OBVIOUS
<1>1. CASE HandleUsage
  BY <1>1, HandleStep
<1>2. CASE ReturnUseFlags
  <2>1. (usage = {}) <=> (asked \subseteq Masks(n))
    BY DEF Inv, ConvertsInOrder
  <2>2. QED
    BY <1>2, <2>1 DEF ReturnUseFlags, Inv, ConvertsInOrder, Takes, Masks
<1>3. CASE MapUsage
  BY <1>3 DEF MapUsage, Inv, ConvertsInOrder, Takes, Masks
<1>4. CASE UNCHANGED vars
  BY <1>4 DEF vars, Inv, ConvertsInOrder, Takes, Masks
<1>5. QED BY <1>1, <1>2, <1>3, <1>4 DEF Next

\* What gralloc_convert_usage computes, for every usage word: the flags of the
\* calls whose bits no earlier call consumed, and none at all if a bit is left.
THEOREM ConvertsInOrderAlways == Spec => []ConvertsInOrder
<1>1. Inv => ConvertsInOrder
  BY DEF Inv
<1>2. QED BY InvInit, InvStep, <1>1, PTL DEF Spec

\* No usage word gives a buffer two rates of CPU access: the RARELY calls never
\* find a bit, since the OFTEN call before them consumes it.
THEOREM OneRateAlways == Spec => []OneRate
<1>1. Inv => OneRate
  <2> SUFFICES ASSUME Inv PROVE OneRate
    OBVIOUS
  <2>1. ASSUME NEW k \in 1 .. n, Takes(k)
        PROVE  /\ "SW_READ_RARELY" \notin UsageTable[k].flags
               /\ "SW_WRITE_RARELY" \notin UsageTable[k].flags
    <3>1. k \in 1 .. Len(UsageTable) /\ k # 2 /\ k # 4
      BY <2>1, OftenConsumesRarely, TableLength DEF Inv
    <3>2. {"SW_READ_RARELY", "SW_WRITE_RARELY"} \subseteq Rates
      BY DEF Rates, READ_RATES, WRITE_RATES
    <3>3. QED BY <3>1, <3>2, RateRows
  <2>2. "SW_READ_RARELY" \notin use_flags /\ "SW_WRITE_RARELY" \notin use_flags
    BY <2>1 DEF Inv, ConvertsInOrder
  <2>3. QED BY <2>2 DEF OneRate, READ_RATES, WRITE_RATES
<1>2. QED BY InvInit, InvStep, <1>1, PTL DEF Spec

\* A usage that converts is for CPU writes, or reads, exactly if lock would map
\* it for them: bits 4 and 5 make the third call, bits 0 and 1 the first, and no
\* call gives these rates for another bit but the video encoder's.
LEMMA ConvertedRates ==
  ASSUME asked \subseteq Masks(Len(UsageTable)), NEW r,
         r = UNION {UsageTable[k].flags : k \in {k \in 1 .. Len(UsageTable) : Takes(k)}}
  PROVE  /\ (r \cap WRITE_RATES # {}) <=> usageTest(asked, 4 .. 7)
         /\ usageTest(asked, 0 .. 3) => r \cap READ_RATES # {}
         /\ r \cap READ_RATES # {} => usageTest(asked, 0 .. 3) \/ "HW_VIDEO_ENCODER" \in r
<1> DEFINE called == {k \in 1 .. Len(UsageTable) : Takes(k)}
<1>1. asked \cap {2, 3, 6, 7} = {}
  <2>1. 2 \notin Known /\ 3 \notin Known /\ 6 \notin Known /\ 7 \notin Known
    BY DEF Known
  <2>2. QED BY <2>1, AllMasks
<1>2. usageTest(asked, 0 .. 3) <=> 0 \in asked \/ 1 \in asked
  BY <1>1 DEF usageTest
<1>3. usageTest(asked, 4 .. 7) <=> 4 \in asked \/ 5 \in asked
  BY <1>1 DEF usageTest
<1>4. Takes(1) <=> 0 \in asked \/ 1 \in asked
  <2>1. Masks(0) = {} /\ 1 - 1 = 0
    BY DEF Masks
  <2>2. UsageTable[1].mask = {0, 1}
    BY DEF UsageTable, Row
  <2>3. QED BY <2>1, <2>2 DEF Takes, usageTest
<1>5. Takes(3) <=> 4 \in asked \/ 5 \in asked
  <2>1. UsageTable[1].mask = {0, 1} /\ UsageTable[2].mask = {1} /\ UsageTable[3].mask = {4, 5}
    BY DEF UsageTable, Row
  <2>2. Masks(2) = {0, 1} /\ 3 - 1 = 2
    <3>1. 1 .. 2 = {1, 2} /\ 3 - 1 = 2
      OBVIOUS
    <3>2. QED BY <2>1, <3>1 DEF Masks
  <2>3. QED BY <2>1, <2>2 DEF Takes, usageTest
<1>6. \A flag \in Rates : flag \in r <=> \E k \in called : flag \in UsageTable[k].flags \cap Rates
  OBVIOUS
<1>7. ~Takes(2) /\ ~Takes(4)
  BY OftenConsumesRarely
<1>8. 1 \in 1 .. Len(UsageTable) /\ 3 \in 1 .. Len(UsageTable) /\ 13 \in 1 .. Len(UsageTable)
  BY TableLength
<1>9. r \cap WRITE_RATES # {} <=> Takes(3)
  <2>1. WRITE_RATES \subseteq Rates /\ WRITE_RATES = {"SW_WRITE_OFTEN", "SW_WRITE_RARELY"}
    BY DEF Rates, WRITE_RATES
  <2>2. ASSUME Takes(3) PROVE "SW_WRITE_OFTEN" \in r
    BY <1>6, <1>8, <2>1, <2>2, RateRows
  <2>3. ASSUME NEW flag \in WRITE_RATES, NEW k \in called, flag \in UsageTable[k].flags \cap Rates
        PROVE  k = 3
    BY <1>7, <2>1, <2>3, RateRows
  <2>4. QED BY <1>6, <2>1, <2>2, <2>3
<1>10. Takes(1) => r \cap READ_RATES # {}
  <2>1. "SW_READ_OFTEN" \in READ_RATES /\ "SW_READ_OFTEN" \in Rates
    BY DEF Rates, READ_RATES
  <2>2. QED BY <1>6, <1>8, <2>1, RateRows
<1>11. r \cap READ_RATES # {} => Takes(1) \/ "HW_VIDEO_ENCODER" \in r
  <2>1. READ_RATES \subseteq Rates /\ READ_RATES = {"SW_READ_OFTEN", "SW_READ_RARELY"}
    BY DEF Rates, READ_RATES
  <2>2. ASSUME NEW flag \in READ_RATES, NEW k \in called, flag \in UsageTable[k].flags \cap Rates
        PROVE  k = 1 \/ k = 13
    BY <1>7, <2>1, <2>2, RateRows
  <2>3. "HW_VIDEO_ENCODER" \in UsageTable[13].flags
    BY DEF UsageTable, Row
  <2>4. QED BY <1>6, <2>1, <2>2, <2>3
<1>12. QED BY <1>2, <1>3, <1>4, <1>5, <1>9, <1>10, <1>11

\* A buffer is allocated for CPU access exactly if lock would map its usage for
\* such access, for every usage word that converts; only an encoder's buffer is
\* also allocated for reads nobody asked for.
THEOREM AllocatedAsMapped == Spec => []MapAgreesWithUse
<1>1. Inv => MapAgreesWithUse
  <2> SUFFICES ASSUME Inv, pc = "mapped", asked \subseteq Masks(Len(UsageTable))
               PROVE  /\ (result \cap WRITE_RATES # {}) <=> ("WRITE" \in map_flags)
                      /\ ("READ" \in map_flags) => (result \cap READ_RATES # {})
                      /\ (result \cap READ_RATES # {}) =>
                           ("READ" \in map_flags \/ "HW_VIDEO_ENCODER" \in result)
    BY DEF MapAgreesWithUse
  <2>1. result = UNION {UsageTable[k].flags : k \in {k \in 1 .. Len(UsageTable) : Takes(k)}}
    BY DEF Inv, ConvertsInOrder
  <2>2. /\ "READ" \in map_flags <=> usageTest(asked, 0 .. 3)
        /\ "WRITE" \in map_flags <=> usageTest(asked, 4 .. 7)
    BY DEF Inv, gralloc_convert_map_usage
  <2>3. QED BY <2>1, <2>2, ConvertedRates
<1>2. QED BY InvInit, InvStep, <1>1, PTL DEF Spec

\* The bits that usageTestLoop lets pass and no call of handle_usage looks for.
Unhandled == {2, 3, 6, 7, 25, 26, 27, 30}

\* A word the allocator accepts has only bits the table knows, but for these.
LEMMA AcceptedBits ==
  ASSUME Inv, usageTestLoop(asked)
  PROVE  asked \subseteq Known <=> asked \cap Unhandled = {}
<1>1. asked \subseteq 0 .. 63
  BY UsagesAssumption DEF Inv
<1>2. /\ ~usageTest(asked, {19}) /\ ~usageTest(asked, {21})
      /\ ~usageTest(asked, 33 .. 63)
  BY DEF usageTestLoop, wrong_enum_values
<1>3. 19 \notin asked /\ 21 \notin asked /\ \A b \in 33 .. 63 : b \notin asked
  BY <1>2 DEF usageTest
<1>4. ASSUME NEW b \in asked, b \notin Known PROVE b \in Unhandled
  BY <1>1, <1>3, <1>4 DEF Known, Unhandled
<1>5. ASSUME NEW b \in Unhandled PROVE b \notin Known
  BY DEF Known, Unhandled
<1>6. QED BY <1>4, <1>5

\* usageTestLoop and gralloc_convert_usage disagree on eight bits and on no
\* other: a usage word the allocator accepts converts to all flags it asks for
\* unless it has one of them, and then to none at all.
AcceptedConverts ==
  pc # "convert" /\ usageTestLoop(asked) =>
    result = IF asked \cap Unhandled = {} THEN use_flags ELSE {}

THEOREM AcceptedWordsConvert == Spec => []AcceptedConverts
<1>1. Inv => AcceptedConverts
  <2> SUFFICES ASSUME Inv, pc # "convert", usageTestLoop(asked)
               PROVE  result = IF asked \cap Unhandled = {} THEN use_flags ELSE {}
    BY DEF AcceptedConverts
  <2>1. result = IF asked \subseteq Known THEN use_flags ELSE {}
    BY AllMasks DEF Inv, ConvertsInOrder
  <2>2. QED BY <2>1, AcceptedBits
<1>2. QED BY InvInit, InvStep, <1>1, PTL DEF Spec

=============================================================================
