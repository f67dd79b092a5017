---------------------------- MODULE MapperProofs ----------------------------
(***************************************************************************)
(* Proofs about Mapper, for every number of threads, buffers and addresses *)
(* and any choice of faults.                                               *)
(***************************************************************************)
EXTENDS Mapper, TLAPS

\* Everything but the answers.
state == <<mManager, memory, registered, regions, owned, pc, at, todo>>

Quiet ==
  UNCHANGED state /\ answer' \in [Threads -> {"NONE", "BAD_BUFFER", "NO_RESOURCES"}]

LEMMA IInvInit == Init => IInv
BY MapperAssumption
   DEF Init, IInv, TypeOK, ImportsFresh, FreesOwned, HandleExclusive, KnownHandlesAlive,
       NoHandleLost, DumpsExclude, Dumping, RegionOfOwnBuffer, OwnedRegistered, Mapped

\* A call turned down at once changes nothing but the thread's answer.
LEMMA RefusedStep ==
  ASSUME TypeOK, NEW t \in Threads, pc[t] = "idle", NEW s, Return(t, s)
  PROVE  pc' = pc /\ at' = at
BY DEF TypeOK, Return

\* The kinds of steps that the lemmas below go through one by one.
LEMMA StepKinds ==
  ASSUME TypeOK, [Next]_vars
  PROVE  \/ Quiet
         \/ \E t \in Threads :
              \/ Register(t) \/ RegisterFails(t)
              \/ Unregister(t) \/ UnregisterFails(t)
              \/ Release(t) \/ ReleaseFails(t) \/ CloseHandle(t)
              \/ DumpAllBuffers(t) \/ DumpNext(t) \/ DumpBuffer(t) \/ DumpDone(t)
              \/ \E raw \in Buffers : Clone(t, raw)
              \/ \E a \in Addrs : FreeBuffer(t, a) \/ GetReservedRegion(t, a)
<1>1. CASE UNCHANGED vars
  BY <1>1 DEF vars, state, Quiet, TypeOK
<1>2. ASSUME NEW t \in Threads, NEW raw \in Buffers \cup {NoFds}, Clone(t, raw)
      PROVE  raw \in Buffers
  BY <1>2 DEF Clone
<1>3. ASSUME NEW t \in Threads,
             \/ \E raw \in Buffers \cup {NoFds} : ImportRefused(t, raw) \/ CloneFails(t, raw)
             \/ \E a \in Addrs : GetReservedRegionFails(t, a)
             \/ \E a \in Addrs \cup {None} : FreeRefused(t, a) \/ RegionRefused(t, a)
             \/ DumpRefused(t)
      PROVE  Quiet
  BY <1>3, RefusedStep
     DEF ImportRefused, CloneFails, GetReservedRegionFails, FreeRefused, RegionRefused,
         DumpRefused, MayCall, Return, TypeOK, Quiet, state
<1>4. (owned \ Freeing) \cup {None} \subseteq Addrs \cup {None}
  BY DEF TypeOK
<1> QED
  BY <1>1, <1>2, <1>3, <1>4 DEF Next, Step

\* What becomes of the iterators: a dump has addresses ahead of it, and the
\* same as before where the map has the same entries.
LEMMA IteratorsStep ==
  ASSUME TypeOK, Iterators
  PROVE  /\ todo' \in [Threads -> SUBSET Addrs]
         /\ Mapped' = Mapped => todo' = todo
BY DEF TypeOK, Iterators, Dumping

\* Types.
LEMMA TypeStep ==
  ASSUME TypeOK, [Next]_vars
  PROVE  TypeOK'
<1>1. ASSUME NEW t \in Threads, NEW raw \in Buffers, Clone(t, raw) PROVE TypeOK'
  BY <1>1, MapperAssumption DEF Clone, Go, MayCall, TypeOK
<1>2. ASSUME NEW t \in Threads, Register(t) PROVE TypeOK'
  BY <1>2, MapperAssumption DEF Register, Return, TypeOK
<1>3. ASSUME NEW t \in Threads, RegisterFails(t) PROVE TypeOK'
  BY <1>3, MapperAssumption DEF RegisterFails, Return, TypeOK
<1>4. ASSUME NEW t \in Threads, NEW a \in Addrs, FreeBuffer(t, a) PROVE TypeOK'
  BY <1>4, MapperAssumption DEF FreeBuffer, Go, MayCall, TypeOK
<1>5. ASSUME NEW t \in Threads, Unregister(t) PROVE TypeOK'
  BY <1>5, MapperAssumption DEF Unregister, Go, TypeOK
<1>6. ASSUME NEW t \in Threads, UnregisterFails(t) PROVE TypeOK'
  BY <1>6, MapperAssumption DEF UnregisterFails, Return, TypeOK
<1>7. ASSUME NEW t \in Threads, Release(t) PROVE TypeOK'
  BY <1>7, IteratorsStep, MapperAssumption DEF Release, Go, TypeOK
<1>8. ASSUME NEW t \in Threads, ReleaseFails(t) PROVE TypeOK'
  BY <1>8, MapperAssumption DEF ReleaseFails, Return, TypeOK
<1>9. ASSUME NEW t \in Threads, CloseHandle(t) PROVE TypeOK'
  BY <1>9, MapperAssumption DEF CloseHandle, Return, TypeOK
<1>10. ASSUME NEW t \in Threads, NEW a \in Addrs, GetReservedRegion(t, a) PROVE TypeOK'
  BY <1>10, IteratorsStep, MapperAssumption DEF GetReservedRegion, Return, MayCall,
     get_reserved_region, TypeOK
<1>11. ASSUME NEW t \in Threads, DumpAllBuffers(t) PROVE TypeOK'
  BY <1>11, MapperAssumption DEF DumpAllBuffers, Go, MayCall, TypeOK, Mapped
<1>12. ASSUME NEW t \in Threads, DumpNext(t) PROVE TypeOK'
  BY <1>12, MapperAssumption DEF DumpNext, Go, TypeOK
<1>13. ASSUME NEW t \in Threads, DumpBuffer(t) PROVE TypeOK'
  BY <1>13, IteratorsStep, MapperAssumption DEF DumpBuffer, Go, get_reserved_region, TypeOK
<1>14. ASSUME NEW t \in Threads, DumpDone(t) PROVE TypeOK'
  BY <1>14, MapperAssumption DEF DumpDone, Return, TypeOK
<1>15. ASSUME Quiet PROVE TypeOK'
  BY <1>15 DEF Quiet, state, TypeOK
<1> QED
  BY StepKinds, <1>1, <1>2, <1>3, <1>4, <1>5, <1>6, <1>7, <1>8, <1>9, <1>10, <1>11,
     <1>12, <1>13, <1>14, <1>15

\* Who registers, owns and works on a handle.
LEMMA HandlesStep ==
  ASSUME IInv, TypeOK', [Next]_vars
  PROVE  (HandleExclusive /\ KnownHandlesAlive /\ registered \subseteq owned)'
<1> DEFINE Goal == (HandleExclusive /\ KnownHandlesAlive /\ registered \subseteq owned)'
<1> SUFFICES Goal
  OBVIOUS
<1>1. ASSUME NEW t \in Threads, NEW raw \in Buffers, Clone(t, raw) PROVE Goal
  BY <1>1, MapperAssumption DEF Clone, Go, MayCall, TypeOK, ImportsFresh, FreesOwned,
     HandleExclusive, KnownHandlesAlive, IInv
<1>2. ASSUME NEW t \in Threads, Register(t) PROVE Goal
  BY <1>2, MapperAssumption DEF Register, Return, TypeOK, ImportsFresh, FreesOwned,
     HandleExclusive, KnownHandlesAlive, IInv
<1>3. ASSUME NEW t \in Threads, RegisterFails(t) PROVE Goal
  BY <1>3, MapperAssumption DEF RegisterFails, Return, TypeOK, ImportsFresh, FreesOwned,
     HandleExclusive, KnownHandlesAlive, IInv
<1>4. ASSUME NEW t \in Threads, NEW a \in Addrs, FreeBuffer(t, a) PROVE Goal
  BY <1>4, MapperAssumption DEF FreeBuffer, Go, MayCall, TypeOK, ImportsFresh,
     FreesOwned, HandleExclusive, KnownHandlesAlive, IInv, Freeing
<1>5. ASSUME NEW t \in Threads, Unregister(t) PROVE Goal
  BY <1>5, MapperAssumption DEF Unregister, Go, TypeOK, ImportsFresh, FreesOwned,
     HandleExclusive, KnownHandlesAlive, IInv
<1>6. ASSUME NEW t \in Threads, UnregisterFails(t) PROVE Goal
  BY <1>6, MapperAssumption DEF UnregisterFails, Return, TypeOK, ImportsFresh,
     FreesOwned, HandleExclusive, KnownHandlesAlive, IInv
<1>7. ASSUME NEW t \in Threads, Release(t) PROVE Goal
  BY <1>7, MapperAssumption DEF Release, Go, TypeOK, ImportsFresh, FreesOwned,
     HandleExclusive, KnownHandlesAlive, IInv
<1>8. ASSUME NEW t \in Threads, ReleaseFails(t) PROVE Goal
  BY <1>8, MapperAssumption DEF ReleaseFails, Return, TypeOK, ImportsFresh, FreesOwned,
     HandleExclusive, KnownHandlesAlive, IInv
<1>9. ASSUME NEW t \in Threads, CloseHandle(t) PROVE Goal
  BY <1>9, MapperAssumption DEF CloseHandle, Return, TypeOK, ImportsFresh, FreesOwned,
     HandleExclusive, KnownHandlesAlive, IInv
<1>10. ASSUME NEW t \in Threads, NEW a \in Addrs, GetReservedRegion(t, a) PROVE Goal
  BY <1>10, MapperAssumption DEF GetReservedRegion, Return, MayCall,
     get_reserved_region, TypeOK, ImportsFresh, FreesOwned, HandleExclusive,
     KnownHandlesAlive, IInv
<1>11. ASSUME NEW t \in Threads, DumpAllBuffers(t) PROVE Goal
  BY <1>11, MapperAssumption DEF DumpAllBuffers, Go, MayCall, TypeOK, ImportsFresh,
     FreesOwned, HandleExclusive, KnownHandlesAlive, IInv
<1>12. ASSUME NEW t \in Threads, DumpNext(t) PROVE Goal
  BY <1>12, MapperAssumption DEF DumpNext, Go, TypeOK, ImportsFresh, FreesOwned,
     HandleExclusive, KnownHandlesAlive, IInv
<1>13. ASSUME NEW t \in Threads, DumpBuffer(t) PROVE Goal
  BY <1>13, MapperAssumption DEF DumpBuffer, Go, get_reserved_region, TypeOK,
     ImportsFresh, FreesOwned, HandleExclusive, KnownHandlesAlive, IInv
<1>14. ASSUME NEW t \in Threads, DumpDone(t) PROVE Goal
  BY <1>14, MapperAssumption DEF DumpDone, Return, TypeOK, ImportsFresh, FreesOwned,
     HandleExclusive, KnownHandlesAlive, IInv
<1>15. ASSUME Quiet PROVE Goal
  BY <1>15 DEF Quiet, state, TypeOK, ImportsFresh, FreesOwned, HandleExclusive,
     KnownHandlesAlive, IInv
<1> HIDE DEF Goal
<1> QED
  BY StepKinds, <1>1, <1>2, <1>3, <1>4, <1>5, <1>6, <1>7, <1>8, <1>9, <1>10, <1>11,
     <1>12, <1>13, <1>14, <1>15 DEF IInv

\* What a call may rely on between two of its steps.
LEMMA CallsStep ==
  ASSUME IInv, TypeOK', [Next]_vars
  PROVE  (ImportsFresh /\ FreesOwned)'
<1> USE DEF Dumping
<1>1. ASSUME NEW t \in Threads, NEW raw \in Buffers, Clone(t, raw) PROVE (ImportsFresh /\ FreesOwned)'
  BY <1>1, MapperAssumption DEF Clone, Go, MayCall, TypeOK, ImportsFresh, FreesOwned,
     HandleExclusive, KnownHandlesAlive, IInv, Mapped, DumpsExclude, RegionOfOwnBuffer
<1>2. ASSUME NEW t \in Threads, Register(t) PROVE (ImportsFresh /\ FreesOwned)'
  BY <1>2, MapperAssumption DEF Register, Return, TypeOK, ImportsFresh, FreesOwned,
     HandleExclusive, KnownHandlesAlive, IInv, Mapped, DumpsExclude, RegionOfOwnBuffer
<1>3. ASSUME NEW t \in Threads, RegisterFails(t) PROVE (ImportsFresh /\ FreesOwned)'
  BY <1>3, MapperAssumption DEF RegisterFails, Return, TypeOK, ImportsFresh, FreesOwned,
     HandleExclusive, KnownHandlesAlive, IInv, Mapped, DumpsExclude, RegionOfOwnBuffer
<1>4. ASSUME NEW t \in Threads, NEW a \in Addrs, FreeBuffer(t, a) PROVE (ImportsFresh /\ FreesOwned)'
  BY <1>4, MapperAssumption DEF FreeBuffer, Go, MayCall, TypeOK, ImportsFresh,
     FreesOwned, HandleExclusive, KnownHandlesAlive, IInv, Mapped, DumpsExclude,
     RegionOfOwnBuffer, OwnedRegistered
<1>5. ASSUME NEW t \in Threads, Unregister(t) PROVE (ImportsFresh /\ FreesOwned)'
  BY <1>5, MapperAssumption DEF Unregister, Go, TypeOK, ImportsFresh, FreesOwned,
     HandleExclusive, KnownHandlesAlive, IInv, Mapped, DumpsExclude, RegionOfOwnBuffer
<1>6. ASSUME NEW t \in Threads, UnregisterFails(t) PROVE (ImportsFresh /\ FreesOwned)'
  BY <1>6, MapperAssumption DEF UnregisterFails, Return, TypeOK, ImportsFresh,
     FreesOwned, HandleExclusive, KnownHandlesAlive, IInv, Mapped, DumpsExclude,
     RegionOfOwnBuffer
<1>7. ASSUME NEW t \in Threads, Release(t) PROVE (ImportsFresh /\ FreesOwned)'
  BY <1>7, MapperAssumption DEF Release, Go, TypeOK, ImportsFresh, FreesOwned,
     HandleExclusive, KnownHandlesAlive, IInv, Mapped, DumpsExclude, RegionOfOwnBuffer
<1>8. ASSUME NEW t \in Threads, ReleaseFails(t) PROVE (ImportsFresh /\ FreesOwned)'
  BY <1>8, MapperAssumption DEF ReleaseFails, Return, TypeOK, ImportsFresh, FreesOwned,
     HandleExclusive, KnownHandlesAlive, IInv, Mapped, DumpsExclude, RegionOfOwnBuffer
<1>9. ASSUME NEW t \in Threads, CloseHandle(t) PROVE (ImportsFresh /\ FreesOwned)'
  BY <1>9, MapperAssumption DEF CloseHandle, Return, TypeOK, ImportsFresh, FreesOwned,
     HandleExclusive, KnownHandlesAlive, IInv, Mapped, DumpsExclude, RegionOfOwnBuffer
<1>10. ASSUME NEW t \in Threads, NEW a \in Addrs, GetReservedRegion(t, a) PROVE (ImportsFresh /\ FreesOwned)'
  BY <1>10, MapperAssumption DEF GetReservedRegion, Return, MayCall,
     get_reserved_region, TypeOK, ImportsFresh, FreesOwned, HandleExclusive,
     KnownHandlesAlive, IInv, Mapped, DumpsExclude, RegionOfOwnBuffer, Freeing
<1>11. ASSUME NEW t \in Threads, DumpAllBuffers(t) PROVE (ImportsFresh /\ FreesOwned)'
  BY <1>11, MapperAssumption DEF DumpAllBuffers, Go, MayCall, TypeOK, ImportsFresh,
     FreesOwned, HandleExclusive, KnownHandlesAlive, IInv, Mapped, DumpsExclude,
     RegionOfOwnBuffer
<1>12. ASSUME NEW t \in Threads, DumpNext(t) PROVE (ImportsFresh /\ FreesOwned)'
  BY <1>12, MapperAssumption DEF DumpNext, Go, TypeOK, ImportsFresh, FreesOwned,
     HandleExclusive, KnownHandlesAlive, IInv, Mapped, DumpsExclude, RegionOfOwnBuffer
<1>13. ASSUME NEW t \in Threads, DumpBuffer(t) PROVE (ImportsFresh /\ FreesOwned)'
  BY <1>13, MapperAssumption DEF DumpBuffer, Go, get_reserved_region, TypeOK,
     ImportsFresh, FreesOwned, HandleExclusive, KnownHandlesAlive, IInv, Mapped,
     DumpsExclude, RegionOfOwnBuffer
<1>14. ASSUME NEW t \in Threads, DumpDone(t) PROVE (ImportsFresh /\ FreesOwned)'
  BY <1>14, MapperAssumption DEF DumpDone, Return, TypeOK, ImportsFresh, FreesOwned,
     HandleExclusive, KnownHandlesAlive, IInv, Mapped, DumpsExclude, RegionOfOwnBuffer
<1>15. ASSUME Quiet PROVE (ImportsFresh /\ FreesOwned)'
  BY <1>15 DEF Quiet, state, TypeOK, ImportsFresh, FreesOwned, HandleExclusive,
     KnownHandlesAlive, IInv, Mapped, DumpsExclude, RegionOfOwnBuffer
<1> QED
  BY StepKinds, <1>1, <1>2, <1>3, <1>4, <1>5, <1>6, <1>7, <1>8, <1>9, <1>10, <1>11,
     <1>12, <1>13, <1>14, <1>15 DEF IInv

\* A handle that nobody frees stays registered.
LEMMA RegisteredStep ==
  ASSUME IInv, TypeOK', [Next]_vars
  PROVE  OwnedRegistered'
<1>1. ASSUME NEW t \in Threads, NEW raw \in Buffers, Clone(t, raw) PROVE OwnedRegistered'
  BY <1>1, MapperAssumption DEF Clone, Go, MayCall, TypeOK, FreesOwned, HandleExclusive,
     ImportsFresh, OwnedRegistered, Freeing, IInv
<1>2. ASSUME NEW t \in Threads, Register(t) PROVE OwnedRegistered'
  BY <1>2, MapperAssumption DEF Register, Return, TypeOK, FreesOwned, HandleExclusive,
     ImportsFresh, OwnedRegistered, Freeing, IInv
<1>3. ASSUME NEW t \in Threads, RegisterFails(t) PROVE OwnedRegistered'
  BY <1>3, MapperAssumption DEF RegisterFails, Return, TypeOK, FreesOwned,
     HandleExclusive, ImportsFresh, OwnedRegistered, Freeing, IInv
<1>4. ASSUME NEW t \in Threads, NEW a \in Addrs, FreeBuffer(t, a) PROVE OwnedRegistered'
  BY <1>4, MapperAssumption DEF FreeBuffer, Go, MayCall, TypeOK, FreesOwned,
     HandleExclusive, ImportsFresh, OwnedRegistered, Freeing, IInv
<1>5. ASSUME NEW t \in Threads, Unregister(t) PROVE OwnedRegistered'
  BY <1>5, MapperAssumption DEF Unregister, Go, TypeOK, FreesOwned, HandleExclusive,
     ImportsFresh, OwnedRegistered, Freeing, IInv
<1>6. ASSUME NEW t \in Threads, UnregisterFails(t) PROVE OwnedRegistered'
  BY <1>6, MapperAssumption DEF UnregisterFails, Return, TypeOK, FreesOwned,
     HandleExclusive, ImportsFresh, OwnedRegistered, Freeing, IInv
<1>7. ASSUME NEW t \in Threads, Release(t) PROVE OwnedRegistered'
  BY <1>7, MapperAssumption DEF Release, Go, TypeOK, FreesOwned, HandleExclusive,
     ImportsFresh, OwnedRegistered, Freeing, IInv
<1>8. ASSUME NEW t \in Threads, ReleaseFails(t) PROVE OwnedRegistered'
  BY <1>8, MapperAssumption DEF ReleaseFails, Return, TypeOK, FreesOwned,
     HandleExclusive, ImportsFresh, OwnedRegistered, Freeing, IInv
<1>9. ASSUME NEW t \in Threads, CloseHandle(t) PROVE OwnedRegistered'
  BY <1>9, MapperAssumption DEF CloseHandle, Return, TypeOK, FreesOwned,
     HandleExclusive, ImportsFresh, OwnedRegistered, Freeing, IInv
<1>10. ASSUME NEW t \in Threads, NEW a \in Addrs, GetReservedRegion(t, a) PROVE OwnedRegistered'
  BY <1>10, MapperAssumption DEF GetReservedRegion, Return, MayCall,
     get_reserved_region, TypeOK, FreesOwned, HandleExclusive, ImportsFresh,
     OwnedRegistered, Freeing, IInv
<1>11. ASSUME NEW t \in Threads, DumpAllBuffers(t) PROVE OwnedRegistered'
  BY <1>11, MapperAssumption DEF DumpAllBuffers, Go, MayCall, TypeOK, FreesOwned,
     HandleExclusive, ImportsFresh, OwnedRegistered, Freeing, IInv
<1>12. ASSUME NEW t \in Threads, DumpNext(t) PROVE OwnedRegistered'
  BY <1>12, MapperAssumption DEF DumpNext, Go, TypeOK, FreesOwned, HandleExclusive,
     ImportsFresh, OwnedRegistered, Freeing, IInv
<1>13. ASSUME NEW t \in Threads, DumpBuffer(t) PROVE OwnedRegistered'
  BY <1>13, MapperAssumption DEF DumpBuffer, Go, get_reserved_region, TypeOK,
     FreesOwned, HandleExclusive, ImportsFresh, OwnedRegistered, Freeing, IInv
<1>14. ASSUME NEW t \in Threads, DumpDone(t) PROVE OwnedRegistered'
  BY <1>14, MapperAssumption DEF DumpDone, Return, TypeOK, FreesOwned, HandleExclusive,
     ImportsFresh, OwnedRegistered, Freeing, IInv
<1>15. ASSUME Quiet PROVE OwnedRegistered'
  BY <1>15 DEF Quiet, state, TypeOK, FreesOwned, HandleExclusive, ImportsFresh,
     OwnedRegistered, Freeing, IInv
<1> QED
  BY StepKinds, <1>1, <1>2, <1>3, <1>4, <1>5, <1>6, <1>7, <1>8, <1>9, <1>10, <1>11,
     <1>12, <1>13, <1>14, <1>15 DEF IInv

\* No clone is lost.
LEMMA LostStep ==
  ASSUME IInv, TypeOK', [Next]_vars
  PROVE  NoHandleLost'
<1>1. ASSUME NEW t \in Threads, NEW raw \in Buffers, Clone(t, raw) PROVE NoHandleLost'
  BY <1>1, MapperAssumption DEF Clone, Go, MayCall, TypeOK, ImportsFresh, FreesOwned,
     HandleExclusive, KnownHandlesAlive, IInv, NoHandleLost
<1>2. ASSUME NEW t \in Threads, Register(t) PROVE NoHandleLost'
  BY <1>2, MapperAssumption DEF Register, Return, TypeOK, ImportsFresh, FreesOwned,
     HandleExclusive, KnownHandlesAlive, IInv, NoHandleLost
<1>3. ASSUME NEW t \in Threads, RegisterFails(t) PROVE NoHandleLost'
  BY <1>3, MapperAssumption DEF RegisterFails, Return, TypeOK, ImportsFresh, FreesOwned,
     HandleExclusive, KnownHandlesAlive, IInv, NoHandleLost
<1>4. ASSUME NEW t \in Threads, NEW a \in Addrs, FreeBuffer(t, a) PROVE NoHandleLost'
  BY <1>4, MapperAssumption DEF FreeBuffer, Go, MayCall, TypeOK, ImportsFresh,
     FreesOwned, HandleExclusive, KnownHandlesAlive, IInv, NoHandleLost
<1>5. ASSUME NEW t \in Threads, Unregister(t) PROVE NoHandleLost'
  BY <1>5, MapperAssumption DEF Unregister, Go, TypeOK, ImportsFresh, FreesOwned,
     HandleExclusive, KnownHandlesAlive, IInv, NoHandleLost
<1>6. ASSUME NEW t \in Threads, UnregisterFails(t) PROVE NoHandleLost'
  BY <1>6, MapperAssumption DEF UnregisterFails, Return, TypeOK, ImportsFresh,
     FreesOwned, HandleExclusive, KnownHandlesAlive, IInv, NoHandleLost
<1>7. ASSUME NEW t \in Threads, Release(t) PROVE NoHandleLost'
  BY <1>7, MapperAssumption DEF Release, Go, TypeOK, ImportsFresh, FreesOwned,
     HandleExclusive, KnownHandlesAlive, IInv, NoHandleLost
<1>8. ASSUME NEW t \in Threads, ReleaseFails(t) PROVE NoHandleLost'
  BY <1>8, MapperAssumption DEF ReleaseFails, Return, TypeOK, ImportsFresh, FreesOwned,
     HandleExclusive, KnownHandlesAlive, IInv, NoHandleLost
<1>9. ASSUME NEW t \in Threads, CloseHandle(t) PROVE NoHandleLost'
  BY <1>9, MapperAssumption DEF CloseHandle, Return, TypeOK, ImportsFresh, FreesOwned,
     HandleExclusive, KnownHandlesAlive, IInv, NoHandleLost
<1>10. ASSUME NEW t \in Threads, NEW a \in Addrs, GetReservedRegion(t, a) PROVE NoHandleLost'
  BY <1>10, MapperAssumption DEF GetReservedRegion, Return, MayCall,
     get_reserved_region, TypeOK, ImportsFresh, FreesOwned, HandleExclusive,
     KnownHandlesAlive, IInv, NoHandleLost
<1>11. ASSUME NEW t \in Threads, DumpAllBuffers(t) PROVE NoHandleLost'
  BY <1>11, MapperAssumption DEF DumpAllBuffers, Go, MayCall, TypeOK, ImportsFresh,
     FreesOwned, HandleExclusive, KnownHandlesAlive, IInv, NoHandleLost
<1>12. ASSUME NEW t \in Threads, DumpNext(t) PROVE NoHandleLost'
  BY <1>12, MapperAssumption DEF DumpNext, Go, TypeOK, ImportsFresh, FreesOwned,
     HandleExclusive, KnownHandlesAlive, IInv, NoHandleLost
<1>13. ASSUME NEW t \in Threads, DumpBuffer(t) PROVE NoHandleLost'
  BY <1>13, MapperAssumption DEF DumpBuffer, Go, get_reserved_region, TypeOK,
     ImportsFresh, FreesOwned, HandleExclusive, KnownHandlesAlive, IInv, NoHandleLost
<1>14. ASSUME NEW t \in Threads, DumpDone(t) PROVE NoHandleLost'
  BY <1>14, MapperAssumption DEF DumpDone, Return, TypeOK, ImportsFresh, FreesOwned,
     HandleExclusive, KnownHandlesAlive, IInv, NoHandleLost
<1>15. ASSUME Quiet PROVE NoHandleLost'
  BY <1>15 DEF Quiet, state, TypeOK, ImportsFresh, FreesOwned, HandleExclusive,
     KnownHandlesAlive, IInv, NoHandleLost
<1> QED
  BY StepKinds, <1>1, <1>2, <1>3, <1>4, <1>5, <1>6, <1>7, <1>8, <1>9, <1>10, <1>11,
     <1>12, <1>13, <1>14, <1>15 DEF IInv

\* The map of regions, and the dumps that read it.
LEMMA RegionStep ==
  ASSUME IInv, TypeOK', [Next]_vars
  PROVE  (RegionOfOwnBuffer /\ DumpsExclude)'
<1> DEFINE Goal == (RegionOfOwnBuffer /\ DumpsExclude)'
<1> USE DEF Dumping
<1> SUFFICES Goal
  OBVIOUS
<1>1. ASSUME NEW t \in Threads, NEW raw \in Buffers, Clone(t, raw) PROVE Goal
  BY <1>1, MapperAssumption DEF Clone, Go, MayCall, TypeOK, ImportsFresh, FreesOwned,
     HandleExclusive, KnownHandlesAlive, IInv, Mapped, DumpsExclude, RegionOfOwnBuffer
<1>2. ASSUME NEW t \in Threads, Register(t) PROVE Goal
  BY <1>2, MapperAssumption DEF Register, Return, TypeOK, ImportsFresh, FreesOwned,
     HandleExclusive, KnownHandlesAlive, IInv, Mapped, DumpsExclude, RegionOfOwnBuffer
<1>3. ASSUME NEW t \in Threads, RegisterFails(t) PROVE Goal
  BY <1>3, MapperAssumption DEF RegisterFails, Return, TypeOK, ImportsFresh, FreesOwned,
     HandleExclusive, KnownHandlesAlive, IInv, Mapped, DumpsExclude, RegionOfOwnBuffer
<1>4. ASSUME NEW t \in Threads, NEW a \in Addrs, FreeBuffer(t, a) PROVE Goal
  BY <1>4, MapperAssumption DEF FreeBuffer, Go, MayCall, TypeOK, ImportsFresh,
     FreesOwned, HandleExclusive, KnownHandlesAlive, IInv, Mapped, DumpsExclude,
     RegionOfOwnBuffer
<1>5. ASSUME NEW t \in Threads, Unregister(t) PROVE Goal
  BY <1>5, MapperAssumption DEF Unregister, Go, TypeOK, ImportsFresh, FreesOwned,
     HandleExclusive, KnownHandlesAlive, IInv, Mapped, DumpsExclude, RegionOfOwnBuffer
<1>6. ASSUME NEW t \in Threads, UnregisterFails(t) PROVE Goal
  BY <1>6, MapperAssumption DEF UnregisterFails, Return, TypeOK, ImportsFresh,
     FreesOwned, HandleExclusive, KnownHandlesAlive, IInv, Mapped, DumpsExclude,
     RegionOfOwnBuffer
<1>7. ASSUME NEW t \in Threads, Release(t) PROVE Goal
  BY <1>7, IteratorsStep, MapperAssumption DEF Release, Go, TypeOK, ImportsFresh, FreesOwned,
     HandleExclusive, KnownHandlesAlive, IInv, Mapped, DumpsExclude, RegionOfOwnBuffer
<1>8. ASSUME NEW t \in Threads, ReleaseFails(t) PROVE Goal
  BY <1>8, MapperAssumption DEF ReleaseFails, Return, TypeOK, ImportsFresh, FreesOwned,
     HandleExclusive, KnownHandlesAlive, IInv, Mapped, DumpsExclude, RegionOfOwnBuffer
<1>9. ASSUME NEW t \in Threads, CloseHandle(t) PROVE Goal
  BY <1>9, MapperAssumption DEF CloseHandle, Return, TypeOK, ImportsFresh, FreesOwned,
     HandleExclusive, KnownHandlesAlive, IInv, Mapped, DumpsExclude, RegionOfOwnBuffer
<1>10. ASSUME NEW t \in Threads, NEW a \in Addrs, GetReservedRegion(t, a) PROVE Goal
  BY <1>10, IteratorsStep, MapperAssumption DEF GetReservedRegion, Return, MayCall,
     get_reserved_region, TypeOK, ImportsFresh, FreesOwned, HandleExclusive,
     KnownHandlesAlive, IInv, Mapped, DumpsExclude, RegionOfOwnBuffer, Freeing
<1>11. ASSUME NEW t \in Threads, DumpAllBuffers(t) PROVE Goal
  BY <1>11, MapperAssumption DEF DumpAllBuffers, Go, MayCall, TypeOK, ImportsFresh,
     FreesOwned, HandleExclusive, KnownHandlesAlive, IInv, Mapped, DumpsExclude,
     RegionOfOwnBuffer
<1>12. ASSUME NEW t \in Threads, DumpNext(t) PROVE Goal
  BY <1>12, MapperAssumption DEF DumpNext, Go, TypeOK, ImportsFresh, FreesOwned,
     HandleExclusive, KnownHandlesAlive, IInv, Mapped, DumpsExclude, RegionOfOwnBuffer
<1>13. ASSUME NEW t \in Threads, DumpBuffer(t) PROVE Goal
  BY <1>13, IteratorsStep, MapperAssumption DEF DumpBuffer, Go, get_reserved_region, TypeOK,
     ImportsFresh, FreesOwned, HandleExclusive, KnownHandlesAlive, IInv, Mapped,
     DumpsExclude, RegionOfOwnBuffer
<1>14. ASSUME NEW t \in Threads, DumpDone(t) PROVE Goal
  BY <1>14, MapperAssumption DEF DumpDone, Return, TypeOK, ImportsFresh, FreesOwned,
     HandleExclusive, KnownHandlesAlive, IInv, Mapped, DumpsExclude, RegionOfOwnBuffer
<1>15. ASSUME Quiet PROVE Goal
  BY <1>15 DEF Quiet, state, TypeOK, ImportsFresh, FreesOwned, HandleExclusive,
     KnownHandlesAlive, IInv, Mapped, DumpsExclude, RegionOfOwnBuffer
<1> HIDE DEF Goal
<1> QED
  BY StepKinds, <1>1, <1>2, <1>3, <1>4, <1>5, <1>6, <1>7, <1>8, <1>9, <1>10, <1>11,
     <1>12, <1>13, <1>14, <1>15 DEF IInv

LEMMA IInvStep == IInv /\ [Next]_vars => IInv'
BY TypeStep, HandlesStep, CallsStep, RegisteredStep, LostStep, RegionStep DEF IInv

\* The inductive invariant holds of every reachable state.
THEOREM Invariance == Spec => []IInv
BY IInvInit, IInvStep, PTL DEF Spec

-----------------------------------------------------------------------------

\* Every variable of the mapper's state stays within its type.
THEOREM TypeCorrect == Spec => []TypeOK
<1>1. IInv => TypeOK
  BY DEF IInv
<1> QED
  BY <1>1, Invariance, PTL

\* Whatever fails, and however calls interleave, importBuffer and freeBuffer
\* lose no handle,
THEOREM NothingLost == Spec => []NoHandleLost
<1>1. IInv => NoHandleLost
  BY DEF IInv
<1> QED
  BY <1>1, Invariance, PTL

\* they leave the driver and the client no deleted one,
THEOREM DeletedUnknown == Spec => []KnownHandlesAlive
<1>1. IInv => KnownHandlesAlive
  BY DEF IInv
<1> QED
  BY <1>1, Invariance, PTL

\* no two of them work on the same handle,
THEOREM CallsExclusive == Spec => []HandleExclusive
<1>1. IInv => HandleExclusive
  BY DEF IInv
<1> QED
  BY <1>1, Invariance, PTL

\* and unless release() fails a handle in the client's hands stays registered.
THEOREM StaysRegistered == Spec => []OwnedRegistered
<1>1. IInv => OwnedRegistered
  BY DEF IInv
<1> QED
  BY <1>1, Invariance, PTL

\* No address ever yields the region of a buffer that a handle deleted earlier
\* had, if dumps run alone.
THEOREM RegionsSound == Spec => []RegionOfOwnBuffer
<1>1. IInv => RegionOfOwnBuffer
  BY DEF IInv
<1> QED
  BY <1>1, Invariance, PTL

\* A dump that runs alone reads no deleted handle.
THEOREM DumpsSafe == Spec => []DumpReadsLive
<1>1. IInv => DumpReadsLive
  BY MapperAssumption DEF IInv, TypeOK, RegionOfOwnBuffer, DumpsExclude, DumpReadsLive,
     Dumping, Mapped
<1> QED
  BY <1>1, Invariance, PTL

\* A freeBuffer that answers success has removed the handle from the driver,
\* from the client, from the heap and from the map of regions.
THEOREM FreedIsGone == Spec => FreeComplete
<1>1. IInv /\ [Next]_vars => [FreeLeavesNothing]_vars
  <2> SUFFICES ASSUME IInv, Next, NEW t \in Threads,
                      pc[t] \in {"unregister", "release", "close"},
                      pc'[t] = "idle", answer'[t] = "NONE"
               PROVE  /\ at[t] \notin registered' \cup owned'
                      /\ memory'[at[t]] = None
                      /\ DumpsAlone => regions'[at[t]] = None
    BY DEF FreeLeavesNothing
  <2>1. CloseHandle(t)
    <3>1. PICK u \in Threads :
            \/ Step(u)
            \/ \E raw \in Buffers \cup {NoFds} :
                 ImportRefused(u, raw) \/ Clone(u, raw) \/ CloneFails(u, raw)
            \/ \E a \in Addrs :
                 FreeBuffer(u, a) \/ GetReservedRegion(u, a) \/ GetReservedRegionFails(u, a)
            \/ \E a \in Addrs \cup {None} : FreeRefused(u, a) \/ RegionRefused(u, a)
            \/ DumpAllBuffers(u) \/ DumpRefused(u)
      BY DEF Next, IInv, TypeOK
    <3>2. u = t
      BY <3>1 DEF IInv, TypeOK, Step, Return, Go, Register, RegisterFails, Unregister,
         UnregisterFails, Release, ReleaseFails, CloseHandle, DumpNext, DumpBuffer,
         DumpDone, ImportRefused, Clone, CloneFails, FreeBuffer, GetReservedRegion,
         GetReservedRegionFails, FreeRefused, RegionRefused, DumpAllBuffers, DumpRefused
    <3> QED
      BY <3>1, <3>2 DEF IInv, TypeOK, Step, Return, Go, MayCall, Register, RegisterFails,
         Unregister, UnregisterFails, Release, ReleaseFails, DumpNext, DumpBuffer,
         DumpDone, ImportRefused, Clone, CloneFails, FreeBuffer, GetReservedRegion,
         GetReservedRegionFails, FreeRefused, RegionRefused, DumpAllBuffers, DumpRefused
  <2> QED
    BY <2>1 DEF CloseHandle, Return, IInv, TypeOK, FreesOwned, Mapped
<1> QED
  BY <1>1, Invariance, PTL DEF Spec, FreeComplete

-----------------------------------------------------------------------------
(* The mapper implements HandleTable.                                      *)

\* What the client of the table sees.
view == <<Held, Importing, FreeingAt, answer>>

LEMMA TableInit == Init => Table!Init
BY DEF Init, Table!Init, Held, Importing, FreeingAt

\* A thread at rest, or in a dump, has nothing under way in the table.
LEMMA AtRest ==
  ASSUME TypeOK, NEW t \in Threads, pc[t] \in {"idle", "dump", "dumpBuffer"}
  PROVE  Importing[t] = None /\ FreeingAt[t] = None
BY DEF Importing, FreeingAt

\* Where only the answer changes, the table's client has made some other call.
LEMMA OtherStep ==
  ASSUME TypeOK, NEW t \in Threads, pc[t] \in {"idle", "dump"},
         NEW s \in {"NONE", "BAD_BUFFER", "NO_RESOURCES"}, Return(t, s),
         UNCHANGED <<memory, owned>>
  PROVE  Table!Other(t)
<1>1. pc' = [pc EXCEPT ![t] = "idle"] /\ at' = [at EXCEPT ![t] = None]
  BY DEF Return
<1>2. UNCHANGED <<Held, Importing, FreeingAt>>
  BY <1>1 DEF Held, Importing, FreeingAt, TypeOK
<1>3. Table!Idle(t)
  BY AtRest DEF Table!Idle
<1> QED
  BY <1>2, <1>3 DEF Return, Table!Other, Table!Answer

\* importBuffer: the clone is not the client's yet, but already of the buffer
\* that the client asked for.
LEMMA ImportSteps ==
  ASSUME IInv, NEW t \in Threads
  PROVE  /\ \A raw \in Buffers : Clone(t, raw) => Table!ImportBuffer(t, raw)
         /\ Register(t) => Table!Imported(t)
         /\ RegisterFails(t) => Table!ImportFails(t)
<1> USE DEF IInv
<1>1. ASSUME NEW raw \in Buffers, Clone(t, raw)
      PROVE  Table!ImportBuffer(t, raw)
  <2>1. PICK a \in Addrs : memory[a] = None /\ memory' = [memory EXCEPT ![a] = raw]
                           /\ Go(t, "register", a)
    BY <1>1 DEF Clone
  <2>2. /\ pc[t] = "idle" /\ owned' = owned
        /\ pc' = [pc EXCEPT ![t] = "register"] /\ at' = [at EXCEPT ![t] = a]
        /\ answer' = answer
    BY <1>1, <2>1 DEF Clone, MayCall, Go
  <2>3. Held' = Held
    BY <2>1, <2>2 DEF Held, TypeOK, KnownHandlesAlive
  <2>4. Importing' = [Importing EXCEPT ![t] = raw]
    <3>1. \A u \in Threads \ {t} : pc[u] = "register" => at[u] # a
      BY <2>1 DEF ImportsFresh
    <3>2. memory'[a] = raw /\ \A c \in Addrs : c # a => memory'[c] = memory[c]
      BY <2>1 DEF TypeOK
    <3>3. /\ pc'[t] = "register" /\ at'[t] = a
          /\ \A u \in Threads \ {t} : pc'[u] = pc[u] /\ at'[u] = at[u]
      BY <2>2 DEF TypeOK
    <3>4. \A u \in Threads : pc[u] = "register" => at[u] \in Addrs
      BY DEF TypeOK
    <3>5. \A u \in Threads : Importing'[u] = IF u = t THEN raw ELSE Importing[u]
      BY <3>1, <3>2, <3>3, <3>4 DEF Importing
    <3> QED
      BY <3>5 DEF Importing
  <2>5. FreeingAt' = FreeingAt
    BY <2>2 DEF FreeingAt, TypeOK
  <2>6. Table!Idle(t)
    BY <2>2, AtRest DEF Table!Idle
  <2> QED
    BY <2>2, <2>3, <2>4, <2>5, <2>6 DEF Table!ImportBuffer
<1>2. ASSUME Register(t) PROVE Table!Imported(t)
  <2>1. /\ pc[t] = "register" /\ memory' = memory /\ owned' = owned \cup {at[t]}
        /\ pc' = [pc EXCEPT ![t] = "idle"] /\ at' = [at EXCEPT ![t] = None]
        /\ answer' = [answer EXCEPT ![t] = "NONE"]
    BY <1>2 DEF Register, Return
  <2>2. at[t] \in Addrs /\ at[t] \notin owned /\ memory[at[t]] # None
    BY <2>1 DEF TypeOK, ImportsFresh
  <2>3. Importing[t] = memory[at[t]]
    BY <2>1 DEF Importing
  <2>4. Held[at[t]] = None /\ Held' = [Held EXCEPT ![at[t]] = memory[at[t]]]
    BY <2>1, <2>2 DEF Held, TypeOK
  <2>5. Importing' = [Importing EXCEPT ![t] = None] /\ FreeingAt' = FreeingAt
    BY <2>1 DEF Importing, FreeingAt, TypeOK
  <2> QED
    BY <2>1, <2>2, <2>3, <2>4, <2>5 DEF Table!Imported, Table!Answer
<1>3. ASSUME RegisterFails(t) PROVE Table!ImportFails(t)
  <2>1. /\ pc[t] = "register" /\ memory' = [memory EXCEPT ![at[t]] = None]
        /\ owned' = owned
        /\ pc' = [pc EXCEPT ![t] = "idle"] /\ at' = [at EXCEPT ![t] = None]
        /\ answer' = [answer EXCEPT ![t] = "NO_RESOURCES"]
    BY <1>3 DEF RegisterFails, Return
  <2>2. at[t] \in Addrs /\ at[t] \notin owned /\ memory[at[t]] # None
    BY <2>1 DEF TypeOK, ImportsFresh
  <2>3. Importing[t] # None
    BY <2>1, <2>2 DEF Importing
  <2>4. Held' = Held
    BY <2>1, <2>2 DEF Held, TypeOK
  <2>5. Importing' = [Importing EXCEPT ![t] = None]
    <3>1. \A u \in Threads \ {t} : pc[u] = "register" => at[u] # at[t]
      BY <2>1 DEF HandleExclusive
    <3>2. \A u \in Threads : Importing'[u] = IF u = t THEN None ELSE Importing[u]
      BY <2>1, <2>2, <3>1 DEF Importing, TypeOK
    <3> QED
      BY <3>2 DEF Importing
  <2>6. FreeingAt' = FreeingAt
    BY <2>1 DEF FreeingAt, TypeOK
  <2> QED
    BY <2>1, <2>3, <2>4, <2>5, <2>6 DEF Table!ImportFails, Table!Answer
<1> QED
  BY <1>1, <1>2, <1>3

\* freeBuffer: the client has the handle until it is deleted, or keeps it.
LEMMA FreeSteps ==
  ASSUME IInv, NEW t \in Threads
  PROVE  /\ \A a \in Addrs : FreeBuffer(t, a) => Table!FreeBuffer(t, a)
         /\ Unregister(t) \/ Release(t) => UNCHANGED view
         /\ UnregisterFails(t) \/ ReleaseFails(t) => Table!FreeFails(t)
         /\ CloseHandle(t) => Table!Freed(t)
<1> USE DEF IInv
<1>1. ASSUME NEW a \in Addrs, FreeBuffer(t, a) PROVE Table!FreeBuffer(t, a)
  <2>1. /\ pc[t] = "idle" /\ a \in owned /\ a \notin Freeing
        /\ memory' = memory /\ owned' = owned
        /\ pc' = [pc EXCEPT ![t] = "unregister"] /\ at' = [at EXCEPT ![t] = a]
        /\ answer' = answer
    BY <1>1 DEF FreeBuffer, MayCall, Go
  <2>2. Held[a] # None
    BY <2>1 DEF Held, KnownHandlesAlive
  <2>3. \A u \in Threads : FreeingAt[u] # a
    BY <2>1, MapperAssumption DEF FreeingAt, Freeing
  <2>4. Held' = Held /\ Importing' = Importing
    BY <2>1 DEF Held, Importing, TypeOK
  <2>5. FreeingAt' = [FreeingAt EXCEPT ![t] = a]
    BY <2>1 DEF FreeingAt, TypeOK
  <2>6. Table!Idle(t)
    BY <2>1, AtRest DEF Table!Idle
  <2> QED
    BY <2>1, <2>2, <2>3, <2>4, <2>5, <2>6 DEF Table!FreeBuffer
<1>2. ASSUME Unregister(t) \/ Release(t) PROVE UNCHANGED view
  <2>1. /\ pc[t] \in {"unregister", "release"} /\ memory' = memory /\ owned' = owned
        /\ pc' = [pc EXCEPT ![t] = pc'[t]] /\ pc'[t] \in {"release", "close"}
        /\ at' = [at EXCEPT ![t] = at[t]] /\ answer' = answer
    BY <1>2 DEF Unregister, Release, Go, TypeOK
  <2>2. Held' = Held /\ Importing' = Importing /\ FreeingAt' = FreeingAt
    BY <2>1 DEF Held, Importing, FreeingAt, TypeOK
  <2> QED
    BY <2>1, <2>2 DEF view
<1>3. ASSUME UnregisterFails(t) \/ ReleaseFails(t) PROVE Table!FreeFails(t)
  <2>1. /\ pc[t] \in {"unregister", "release"} /\ memory' = memory /\ owned' = owned
        /\ pc' = [pc EXCEPT ![t] = "idle"] /\ at' = [at EXCEPT ![t] = None]
        /\ answer' = [answer EXCEPT ![t] = "BAD_BUFFER"]
    BY <1>3 DEF UnregisterFails, ReleaseFails, Return
  <2>2. FreeingAt[t] # None
    BY <2>1 DEF FreeingAt, TypeOK
  <2>3. /\ Held' = Held /\ Importing' = Importing
        /\ FreeingAt' = [FreeingAt EXCEPT ![t] = None]
    BY <2>1 DEF Held, Importing, FreeingAt, TypeOK
  <2> QED
    BY <2>1, <2>2, <2>3 DEF Table!FreeFails, Table!Answer
<1>4. ASSUME CloseHandle(t) PROVE Table!Freed(t)
  <2>1. /\ pc[t] = "close" /\ memory' = [memory EXCEPT ![at[t]] = None]
        /\ owned' = owned \ {at[t]}
        /\ pc' = [pc EXCEPT ![t] = "idle"] /\ at' = [at EXCEPT ![t] = None]
        /\ answer' = [answer EXCEPT ![t] = "NONE"]
    BY <1>4 DEF CloseHandle, Return
  <2>2. at[t] \in Addrs /\ FreeingAt[t] = at[t] /\ FreeingAt[t] # None
    BY <2>1 DEF FreeingAt, TypeOK
  <2>3. Held' = [Held EXCEPT ![at[t]] = None]
    BY <2>1, <2>2 DEF Held, TypeOK
  <2>4. Importing' = Importing
    <3>1. \A u \in Threads : pc[u] = "register" => at[u] # at[t]
      BY <2>1 DEF HandleExclusive
    <3> QED
      BY <2>1, <2>2, <3>1 DEF Importing, TypeOK
  <2>5. FreeingAt' = [FreeingAt EXCEPT ![t] = None]
    BY <2>1 DEF FreeingAt, TypeOK
  <2> QED
    BY <2>1, <2>2, <2>3, <2>4, <2>5 DEF Table!Freed, Table!Answer
<1> QED
  BY <1>1, <1>2, <1>3, <1>4

\* The calls that go on without the table's client noticing.
LEMMA DumpSteps ==
  ASSUME TypeOK, NEW t \in Threads, DumpAllBuffers(t) \/ DumpNext(t) \/ DumpBuffer(t)
  PROVE  UNCHANGED view
<1>1. /\ memory' = memory /\ owned' = owned /\ answer' = answer
      /\ pc[t] \in {"idle", "dump", "dumpBuffer"}
      /\ \E label \in {"dump", "dumpBuffer"}, a \in Addrs \cup {None} :
           pc' = [pc EXCEPT ![t] = label] /\ at' = [at EXCEPT ![t] = a]
  BY DEF DumpAllBuffers, DumpNext, DumpBuffer, MayCall, Go, TypeOK
<1>2. Held' = Held /\ Importing' = Importing /\ FreeingAt' = FreeingAt
  BY <1>1 DEF Held, Importing, FreeingAt, TypeOK
<1> QED
  BY <1>1, <1>2 DEF view

LEMMA TableStep ==
  ASSUME IInv, [Next]_vars
  PROVE  [Table!Next]_(Table!tableVars)
<1>1. UNCHANGED view => UNCHANGED Table!tableVars
  BY DEF view, Table!tableVars
<1>2. CASE UNCHANGED vars
  BY <1>1, <1>2 DEF vars, view, Held, Importing, FreeingAt
<1>3. ASSUME NEW t \in Threads,
             \/ \E raw \in Buffers \cup {NoFds} : ImportRefused(t, raw) \/ CloneFails(t, raw)
             \/ \E a \in Addrs : GetReservedRegion(t, a) \/ GetReservedRegionFails(t, a)
             \/ \E a \in Addrs \cup {None} : FreeRefused(t, a) \/ RegionRefused(t, a)
             \/ DumpRefused(t) \/ DumpDone(t)
      PROVE  Table!Other(t)
  <2>1. /\ pc[t] \in {"idle", "dump"} /\ UNCHANGED <<memory, owned>>
        /\ \E s \in {"NONE", "BAD_BUFFER", "NO_RESOURCES"} : Return(t, s)
    BY <1>3 DEF ImportRefused, CloneFails, GetReservedRegion, GetReservedRegionFails,
       FreeRefused, RegionRefused, DumpRefused, DumpDone, MayCall
  <2> QED
    BY <2>1, OtherStep DEF IInv
<1>4. ASSUME NEW t \in Threads, NEW raw \in Buffers \cup {NoFds}, Clone(t, raw)
      PROVE  \E b \in Buffers : Table!ImportBuffer(t, b)
  <2>1. raw \in Buffers
    BY <1>4 DEF Clone
  <2> QED
    BY <1>4, <2>1, ImportSteps
<1>5. ASSUME NEW t \in Threads, Step(t) PROVE Table!Next \/ UNCHANGED view
  BY <1>3, <1>5, ImportSteps, FreeSteps, DumpSteps DEF Step, Table!Next, IInv
<1>6. ASSUME NEW t \in Threads, DumpAllBuffers(t) PROVE UNCHANGED view
  BY <1>6, DumpSteps DEF IInv
<1>7. (owned \ Freeing) \cup {None} \subseteq Addrs \cup {None}
  BY DEF IInv, TypeOK
<1> QED
  BY <1>1, <1>2, <1>3, <1>4, <1>5, <1>6, <1>7, FreeSteps DEF Next, Table!Next

\* Every step of the mapper is a step of the table, or invisible to its client:
\* a handle the client holds keeps its buffer until the client's own freeBuffer
\* answers success, no import takes an address the client holds, and no failure
\* changes what the client holds.
THEOREM MapperImplementsTable == Spec => Table!Safety
<1>1. IInv /\ [Next]_vars => [Table!Next]_(Table!tableVars)
  BY TableStep
<1> QED
  BY <1>1, TableInit, Invariance, PTL DEF Spec, Table!Safety

=============================================================================
