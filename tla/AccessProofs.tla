---------------------------- MODULE AccessProofs ----------------------------
(***************************************************************************)
(* Theorems about Access: who owns a descriptor, what the driver's lock    *)
(* waits for and what it locks, for any number of threads, descriptors,    *)
(* fences and handles.                                                     *)
(***************************************************************************)
EXTENDS Access, FiniteSetTheorems, TLAPS

-----------------------------------------------------------------------------
(* The inductive invariant: OneOwner said descriptor by descriptor, with    *)
(* the types it rests on, and what the theorems state.                      *)

Has(t, d) == Active(t) /\ call[t].fd = d

Owners ==
  /\ \A d \in client : file[d] # NoFence
  /\ \A t \in Threads, d \in Fds : Has(t, d) => d \notin client /\ file[d] # NoFence
  /\ \A t, u \in Threads, d \in Fds : Has(t, d) /\ Has(u, d) => t = u
  /\ \A d \in Fds : file[d] # NoFence => d \in client \/ \E t \in Threads : Has(t, d)

FdInv == TypeOK /\ Owners /\ WaitsForOwnFence /\ NoEarlyAccess

\* -1 is no descriptor.
LEMMA NoFdIsNone == NoFd \notin Fds
  BY AccessAssumption DEF AccessAssumption, NoFd

\* Owners says what OneOwner says.
LEMMA OwnersSound == TypeOK /\ Owners => OneOwner
<1> SUFFICES ASSUME TypeOK, Owners PROVE OneOwner
  OBVIOUS
<1> USE DEF TypeOK, Owners, Has
<1>1. \A d : d \in Taken <=> d \in Fds /\ \E t \in Threads : Has(t, d)
  BY NoFdIsNone DEF Taken
<1>2. client \cup Taken = {d \in Fds : file[d] # NoFence}
  BY <1>1
<1>3. client \cap Taken = {}
  BY <1>1
<1>4. QED BY <1>2, <1>3 DEF OneOwner

-----------------------------------------------------------------------------
(* Steps that leave the descriptors alone.                                  *)

\* Thread t stays in its call and goes to label l.
Within(t, l) ==
  /\ pc[t] # "idle" /\ l \in Labels \ {"idle"}
  /\ pc' = [pc EXCEPT ![t] = l]
  /\ UNCHANGED <<file, signaled, client, call>>
  /\ failed' \in [Threads -> BOOLEAN]
  /\ \A u \in Threads : u # t => failed'[u] = failed[u]
  /\ l = "driver" /\ call[t].fd # NoFd /\ ~failed'[t] => file[call[t].fd] \in signaled

\* The steps between the entry and the return of a call are of this kind: a
\* wait leads to the driver only after the fence signalled or sync_wait failed.
LEMMA StepsWithin ==
  ASSUME FdInv, NEW t \in Threads,
         RefuseLock(t) \/ PassChecks(t) \/ waitFenceFd(t) \/ DriverLock(t) \/ SyncWait(t)
  PROVE  \E l \in Labels : Within(t, l)
<1> USE DEF FdInv, TypeOK, Go, Labels
<1>1. CASE RefuseLock(t)
  <2>1. Within(t, "close")
    BY <1>1 DEF RefuseLock, Within
  <2>2. QED BY <2>1
<1>2. CASE PassChecks(t) /\ call[t].fd < 0
  <2>1. call[t].fd \in Fds \cup {NoFd}
    BY <1>2 DEF PassChecks, Active
  <2>2. call[t].fd = NoFd
    <3>1. ASSUME call[t].fd \in Nat PROVE FALSE
      BY <1>2, <3>1
    <3>2. QED BY <2>1, <3>1, AccessAssumption DEF AccessAssumption
  <2>3. Within(t, "driver")
    BY <1>2, <2>2 DEF PassChecks, Within
  <2>4. QED BY <2>3
<1>3. CASE PassChecks(t) /\ ~(call[t].fd < 0)
  <2>1. Within(t, "wait")
    BY <1>3 DEF PassChecks, Within
  <2>2. QED BY <2>1
<1>4. CASE waitFenceFd(t)
  <2>1. PICK outcome \in SyncOutcomes(t, pc[t] = "wait") :
          /\ pc' = [pc EXCEPT ![t] = IF outcome = "ETIME" THEN "waitOn" ELSE "driver"]
          /\ failed' = [failed EXCEPT ![t] = (outcome = "error")]
    BY <1>4 DEF waitFenceFd
  <2>2. outcome \in {"signaled", "ETIME", "error"}
        /\ (outcome = "signaled" => file[call[t].fd] \in signaled)
    BY DEF SyncOutcomes
  <2>3. failed' \in [Threads -> BOOLEAN] /\ (failed'[t] <=> outcome = "error")
    BY <2>1
  <2>4. CASE outcome = "ETIME"
    <3>1. Within(t, "waitOn")
      BY <1>4, <2>1, <2>3, <2>4 DEF waitFenceFd, Within
    <3>2. QED BY <3>1
  <2>5. CASE outcome # "ETIME"
    <3>1. Within(t, "driver")
      BY <1>4, <2>1, <2>2, <2>3, <2>5 DEF waitFenceFd, Within
    <3>2. QED BY <3>1
  <2>6. QED BY <2>4, <2>5
<1>5. CASE DriverLock(t)
  <2>1. Within(t, "close")
    BY <1>5 DEF DriverLock, Within
  <2>2. QED BY <2>1
<1>6. CASE SyncWait(t)
  <2>1. PICK outcome \in SyncOutcomes(t, pc[t] = "sync") :
          /\ pc' = [pc EXCEPT ![t] = IF outcome # "signaled" /\ pc[t] = "sync"
                                     THEN "syncOn" ELSE "close"]
          /\ failed' = [failed EXCEPT ![t] = (outcome = "error")]
    BY <1>6 DEF SyncWait
  <2>2. failed' \in [Threads -> BOOLEAN]
    BY <2>1
  <2>3. \A u \in Threads : u # t => failed'[u] = failed[u]
    BY <2>1
  <2>4. Within(t, "syncOn") \/ Within(t, "close")
    BY <1>6, <2>1, <2>2, <2>3 DEF SyncWait, Within
  <2>5. QED BY <2>4
<1>7. QED BY <1>1, <1>2, <1>3, <1>4, <1>5, <1>6

\* Such a step keeps the invariant.
LEMMA WithinKeeps ==
  ASSUME FdInv, NEW t \in Threads, NEW l \in Labels, Within(t, l)
  PROVE  FdInv'
<1> USE DEF FdInv, TypeOK, Within
<1>1. \A u \in Threads : Active(u)' <=> Active(u)
  BY DEF Active
<1>2. TypeOK'
  BY <1>1
<1>3. Owners'
  BY <1>1 DEF Owners, Has
<1>4. WaitsForOwnFence'
  BY <1>1 DEF WaitsForOwnFence
<1>5. NoEarlyAccess'
  <2> SUFFICES ASSUME NEW u \in Threads,
                      (pc[u] = "driver" /\ call[u].fd # NoFd /\ ~failed[u])'
               PROVE  call[u].fence \in signaled
    BY DEF NoEarlyAccess
  <2>1. CASE u = t
    BY <2>1 DEF WaitsForOwnFence, Active
  <2>2. CASE u # t
    BY <2>2 DEF NoEarlyAccess
  <2>3. QED BY <2>1, <2>2
<1>6. QED BY <1>2, <1>3, <1>4, <1>5

\* So do steps that change none of its variables.
LEMMA OtherKeeps ==
  ASSUME FdInv, UNCHANGED <<file, signaled, client, pc, call, failed>>
  PROVE  FdInv'
  BY DEF FdInv, TypeOK, Owners, Has, Active, WaitsForOwnFence, NoEarlyAccess

-----------------------------------------------------------------------------
(* Steps that hand descriptors on.                                          *)

\* A call takes over a descriptor of the client's, or none.
LEMMA EnterKeeps ==
  ASSUME FdInv, NEW t \in Threads, NEW d \in client \cup {NoFd}, NEW args,
         NEW l \in Labels \ {"idle", "driver"},
         args.fd = d, args.fence = IF d = NoFd THEN NoFence ELSE file[d],
         Enter(t, l, args)
  PROVE  FdInv'
<1> USE DEF FdInv, TypeOK, Enter, Go
<1>1. /\ pc[t] = "idle" /\ pc'[t] = l /\ call'[t] = args
      /\ \A u \in Threads : u # t => pc'[u] = pc[u] /\ call'[u] = call[u]
      /\ client' = client \ {d}
      /\ UNCHANGED <<file, signaled, failed>>
  OBVIOUS
<1>2. \A u \in Threads : Active(u)' <=> (u = t \/ Active(u))
  BY <1>1 DEF Active
<1>3. TypeOK'
  BY <1>1, <1>2
<1>4. Owners'
  <2>1. \A u \in Threads, e \in Fds :
          Has(u, e)' <=> IF u = t THEN e = d ELSE Has(u, e)
    BY <1>1, <1>2 DEF Has
  <2>2. \A e \in Fds : e = d => e \in client
    BY NoFdIsNone
  <2>3. \A e \in client' : file[e] # NoFence
    BY <1>1 DEF Owners
  <2>4. ASSUME NEW u \in Threads, NEW e \in Fds, Has(u, e)'
        PROVE  e \notin client' /\ file[e] # NoFence
    BY <1>1, <2>1, <2>2, <2>4 DEF Owners
  <2>5. ASSUME NEW u \in Threads, NEW v \in Threads, NEW e \in Fds, Has(u, e)', Has(v, e)'
        PROVE  u = v
    BY <2>1, <2>2, <2>5 DEF Owners
  <2>6. ASSUME NEW e \in Fds, file[e] # NoFence
        PROVE  e \in client' \/ \E u \in Threads : Has(u, e)'
    <3>1. CASE e = d
      BY <2>1, <3>1
    <3>2. CASE e # d
      <4>1. ~Has(t, e)
        BY <1>1 DEF Has, Active
      <4>2. QED BY <1>1, <2>1, <2>6, <3>2, <4>1 DEF Owners
    <3>3. QED BY <3>1, <3>2
  <2>7. QED BY <1>1, <2>3, <2>4, <2>5, <2>6 DEF Owners
<1>5. WaitsForOwnFence'
  BY <1>1, <1>2 DEF WaitsForOwnFence
<1>6. NoEarlyAccess'
  BY <1>1 DEF NoEarlyAccess
<1>7. QED BY <1>3, <1>4, <1>5, <1>6

\* A call returns: its descriptor is closed, or the client's again.
LEMMA ReturnKeeps ==
  ASSUME FdInv, NEW t \in Threads, pc[t] = "close", Leave(t), UNCHANGED signaled,
         \/ /\ file' = [d \in Fds |-> IF d = call[t].fd THEN NoFence ELSE file[d]]
            /\ UNCHANGED client
         \/ /\ UNCHANGED file
            /\ client' = client \cup {d \in Fds : d = call[t].fd}
  PROVE  FdInv'
<1> USE DEF FdInv, TypeOK, Leave, Go
<1>1. /\ pc'[t] = "idle"
      /\ \A u \in Threads : u # t => /\ pc'[u] = pc[u] /\ call'[u] = call[u]
                                     /\ failed'[u] = failed[u]
  OBVIOUS
<1>2. \A u \in Threads : Active(u)' <=> (u # t /\ Active(u))
  BY <1>1 DEF Active
<1>3. Active(t)
  BY DEF Active
<1>4. TypeOK'
  BY <1>1, <1>2 DEF Labels
<1>5. \A u \in Threads, d \in Fds : Has(u, d)' <=> (u # t /\ Has(u, d))
  BY <1>1, <1>2 DEF Has
<1>6. \A d \in Fds : d = call[t].fd => Has(t, d)
  BY <1>3 DEF Has
<1>7. Owners'
  <2>1. CASE /\ file' = [d \in Fds |-> IF d = call[t].fd THEN NoFence ELSE file[d]]
             /\ client' = client
    <3>1. \A d \in Fds : Has(t, d) <=> d = call[t].fd
      BY <1>6 DEF Has
    <3>2. \A d \in client : d # call[t].fd
      BY <3>1 DEF Owners
    <3>3. \A d \in client' : file'[d] # NoFence
      BY <2>1, <3>2 DEF Owners
    <3>4. \A u \in Threads, d \in Fds : Has(u, d)' => d # call[t].fd
      BY <1>5, <3>1 DEF Owners
    <3>5. \A u \in Threads, d \in Fds : Has(u, d)' => d \notin client' /\ file'[d] # NoFence
      BY <1>5, <2>1, <3>4 DEF Owners
    <3>6. \A d \in Fds : file'[d] # NoFence => d \in client' \/ \E u \in Threads : Has(u, d)'
      BY <1>5, <2>1, <3>1 DEF Owners
    <3>7. QED BY <1>5, <3>3, <3>5, <3>6 DEF Owners
  <2>2. CASE /\ file' = file
             /\ client' = client \cup {d \in Fds : d = call[t].fd}
    <3>1. \A d \in Fds : Has(t, d) <=> d = call[t].fd
      BY <1>6 DEF Has
    <3>2. \A d \in client' : file'[d] # NoFence
      BY <2>2, <3>1 DEF Owners
    <3>3. \A u \in Threads, d \in Fds : Has(u, d)' => d # call[t].fd
      BY <1>5, <3>1 DEF Owners
    <3>4. \A u \in Threads, d \in Fds : Has(u, d)' => d \notin client' /\ file'[d] # NoFence
      BY <1>5, <2>2, <3>3 DEF Owners
    <3>5. \A d \in Fds : file'[d] # NoFence => d \in client' \/ \E u \in Threads : Has(u, d)'
      BY <1>5, <2>2, <3>1 DEF Owners
    <3>6. QED BY <1>5, <3>2, <3>4, <3>5 DEF Owners
  <2>3. QED BY <2>1, <2>2
<1>8. \A u \in Threads : Active(u)' /\ call'[u].fd # NoFd => file'[call'[u].fd] = file[call[u].fd]
  BY <1>1, <1>2, <1>3 DEF Owners, Has
<1>9. WaitsForOwnFence'
  BY <1>1, <1>2, <1>8 DEF WaitsForOwnFence
<1>10. NoEarlyAccess'
  BY <1>1 DEF NoEarlyAccess
<1>11. QED BY <1>4, <1>7, <1>9, <1>10

\* A descriptor is opened for the client; a fence that is received anew and
\* may be pending again is one that no call waits for.
LEMMA OpenKeeps ==
  ASSUME FdInv, NEW d \in Fds, NEW f \in Fences, OpenFence(d, f)
  PROVE  FdInv'
<1> USE DEF FdInv, TypeOK, OpenFence
<1>1. \A u \in Threads : Active(u)' <=> Active(u)
  BY DEF Active
<1>2. TypeOK'
  BY <1>1
<1>3. Owners'
  BY <1>1, AccessAssumption DEF AccessAssumption, Owners, Has
<1>4. WaitsForOwnFence'
  BY <1>1 DEF WaitsForOwnFence, Owners, Has
<1>5. NoEarlyAccess'
  <2> SUFFICES ASSUME NEW u \in Threads,
                      pc[u] = "driver" /\ call[u].fd # NoFd /\ ~failed[u]
               PROVE  call[u].fence \in signaled'
    BY DEF NoEarlyAccess
  <2>1. call[u].fence \in signaled
    BY DEF NoEarlyAccess
  <2>2. call[u].fd \in Fds /\ file[call[u].fd] = call[u].fence
    BY DEF WaitsForOwnFence, Active
  <2>3. QED BY <2>1, <2>2
<1>6. QED BY <1>2, <1>3, <1>4, <1>5

\* The client closes only what no call has taken over.
LEMMA CloseKeeps ==
  ASSUME FdInv, NEW d \in Fds, CloseFence(d)
  PROVE  FdInv'
<1> USE DEF FdInv, TypeOK, CloseFence
<1>1. \A u \in Threads : Active(u)' <=> Active(u)
  BY DEF Active
<1>2. TypeOK'
  BY <1>1
<1>3. Owners'
  BY <1>1 DEF Owners, Has
<1>4. WaitsForOwnFence'
  BY <1>1 DEF WaitsForOwnFence, Owners, Has
<1>5. NoEarlyAccess'
  BY DEF NoEarlyAccess
<1>6. QED BY <1>2, <1>3, <1>4, <1>5

\* A signalled fence stays signalled.
LEMMA SignalKeeps ==
  ASSUME FdInv, NEW f \in Fences, Signal(f)
  PROVE  FdInv'
<1> USE DEF FdInv, TypeOK, Signal
<1>1. \A u \in Threads : Active(u)' <=> Active(u)
  BY DEF Active
<1>2. TypeOK' /\ Owners'
  BY <1>1 DEF Owners, Has
<1>3. WaitsForOwnFence' /\ NoEarlyAccess'
  BY <1>1 DEF WaitsForOwnFence, NoEarlyAccess
<1>4. QED BY <1>2, <1>3

-----------------------------------------------------------------------------

\* Nothing is open at first.
LEMMA FdInvInit == Init => FdInv
  BY DEF Init, FdInv, TypeOK, Owners, Has, Active, WaitsForOwnFence, NoEarlyAccess, Labels

\* Every step keeps the invariant.
LEMMA FdInvStep == FdInv /\ [Next]_vars => FdInv'
<1> SUFFICES ASSUME FdInv, [Next]_vars PROVE FdInv'
  OBVIOUS
<1>1. ASSUME NEW t \in Threads, Step(t) PROVE FdInv'
  <2>1. CASE RefuseLock(t) \/ PassChecks(t) \/ waitFenceFd(t) \/ DriverLock(t) \/ SyncWait(t)
    BY <2>1, StepsWithin, WithinKeeps
  <2>2. CASE ReturnFromLock(t)
    BY <2>2, ReturnKeeps DEF ReturnFromLock
  <2>3. CASE ReturnFromSyncWait(t)
    <3>1. CASE call[t].close /\ ~failed[t]
      <4>1. /\ file' = [d \in Fds |-> IF d = call[t].fd THEN NoFence ELSE file[d]]
            /\ client' = client
        BY <2>3, <3>1 DEF ReturnFromSyncWait
      <4>2. QED BY <2>3, <4>1, ReturnKeeps DEF ReturnFromSyncWait
    <3>2. CASE ~(call[t].close /\ ~failed[t])
      <4>1. /\ file' = file
            /\ client' = client \cup {d \in Fds : d = call[t].fd}
        BY <2>3, <3>2 DEF ReturnFromSyncWait, FdInv, TypeOK
      <4>2. QED BY <2>3, <4>1, ReturnKeeps DEF ReturnFromSyncWait
    <3>3. QED BY <3>1, <3>2
  <2>4. QED BY <1>1, <2>1, <2>2, <2>3 DEF Step
<1>2. ASSUME NEW t \in Threads, Calls(t) PROVE FdInv'
  <2>1. ASSUME NEW h \in Handles \cup {NoHandle}, NEW args \in LockCalls,
               NEW d \in client \cup {NoFd}, CallLock(t, h, args, d)
        PROVE  FdInv'
    <3> DEFINE rec == [op |-> "lock", handle |-> h, usage |-> args.usage,
                       region |-> args.region, fd |-> d,
                       fence |-> IF d = NoFd THEN NoFence ELSE file[d]]
    <3>1. /\ rec.fd = d /\ rec.fence = IF d = NoFd THEN NoFence ELSE file[d]
          /\ "check" \in Labels \ {"idle", "driver"}
      BY DEF Labels
    <3>2. Enter(t, "check", rec)
      BY <2>1 DEF CallLock
    <3> HIDE DEF rec
    <3>3. QED BY <3>1, <3>2, EnterKeeps
  <2>2. ASSUME NEW d \in client \cup {NoFd}, NEW close \in BOOLEAN,
               CallSyncWait(t, d, close)
        PROVE  FdInv'
    <3> DEFINE rec == [op |-> "gralloc_sync_wait", close |-> close, fd |-> d,
                       fence |-> IF d = NoFd THEN NoFence ELSE file[d]]
               l == IF d < 0 THEN "close" ELSE "sync"
    <3>1. /\ rec.fd = d /\ rec.fence = IF d = NoFd THEN NoFence ELSE file[d]
          /\ l \in Labels \ {"idle", "driver"}
      BY DEF Labels
    <3>2. Enter(t, l, rec)
      BY <2>2 DEF CallSyncWait
    <3> HIDE DEF rec, l
    <3>3. QED BY <3>1, <3>2, EnterKeeps
  <2>3. ASSUME NEW h \in Handles \cup {NoHandle}, unlock(t, h) PROVE FdInv'
    BY <2>3, OtherKeeps DEF unlock
  <2>4. ASSUME NEW h \in Handles \cup {NoHandle}, NEW op, Query(t, h, op) PROVE FdInv'
    BY <2>4, OtherKeeps DEF Query
  <2>5. ASSUME NEW h \in Handles \cup {NoHandle}, getTransportSize(t, h) PROVE FdInv'
    BY <2>5, OtherKeeps DEF getTransportSize
  <2>6. QED BY <1>2, <2>1, <2>2, <2>3, <2>4, <2>5 DEF Calls
<1>3. ASSUME NEW d \in Fds, CloseFence(d) PROVE FdInv'
  BY <1>3, CloseKeeps
<1>4. ASSUME NEW d \in Fds, NEW f \in Fences, OpenFence(d, f) PROVE FdInv'
  BY <1>4, OpenKeeps
<1>5. ASSUME NEW f \in Fences, Signal(f) PROVE FdInv'
  BY <1>5, SignalKeeps
<1>6. CASE UNCHANGED vars
  BY <1>6, OtherKeeps DEF vars
<1>7. QED BY <1>1, <1>2, <1>3, <1>4, <1>5, <1>6 DEF Next

\* The table, the threads' positions and their descriptors are of their types.
THEOREM TypeCorrect == Spec => []TypeOK
<1>1. FdInv => TypeOK
  BY DEF FdInv
<1>2. QED BY FdInvInit, FdInvStep, <1>1, PTL DEF Spec

\* Every open descriptor has one owner, at any moment and after any history of
\* calls, refusals, timeouts and errors: none is leaked, none closed twice.
THEOREM DescriptorsOwned == Spec => []OneOwner
<1>1. FdInv => OneOwner
  BY OwnersSound DEF FdInv
<1>2. QED BY FdInvInit, FdInvStep, <1>1, PTL DEF Spec

\* A call's descriptor means the fence it was given until the call closes it.
THEOREM OwnFence == Spec => []WaitsForOwnFence
<1>1. FdInv => WaitsForOwnFence
  BY DEF FdInv
<1>2. QED BY FdInvInit, FdInvStep, <1>1, PTL DEF Spec

\* The driver's lock comes after the acquire fence's signal, unless sync_wait
\* failed.
THEOREM AccessAfterFence == Spec => []NoEarlyAccess
<1>1. FdInv => NoEarlyAccess
  BY DEF FdInv
<1>2. QED BY FdInvInit, FdInvStep, <1>1, PTL DEF Spec

-----------------------------------------------------------------------------
(* What is locked, and how often.                                           *)

Regions == [left : Int, top : Int, right : Int, bottom : Int]

\* t's lock of h has worked, and its client does not know of it yet.
Answered(t, h) ==
  pc[t] = "close" /\ call[t].op = "lock" /\ call[t].handle = h /\ answer[t] = "NONE"

LockTypes ==
  /\ locks \in [Handles -> Int] /\ holds \in [Handles -> Int]
  /\ DOMAIN area = Threads /\ DOMAIN answer = Threads

\* The calls at work are those of lock with a region in the buffer, from the
\* checks to the driver, or those of gralloc_sync_wait.
Locking ==
  \A t \in Threads :
    /\ pc[t] \in {"check", "wait", "waitOn", "driver"} => call[t].op = "lock"
    /\ pc[t] \in {"sync", "syncOn"} => call[t].op = "gralloc_sync_wait"
    /\ Active(t) /\ call[t].op = "lock" =>
         call[t].region \in Regions /\ call[t].handle \in Handles \cup {NoHandle}
    /\ pc[t] \in {"wait", "waitOn", "driver"} =>
         RegionAccepted(call[t].region) /\ call[t].handle \in Handles

\* The rectangle the driver got is that of the call.
AreaOfCall ==
  \A t \in Threads :
    area[t] # NoArea =>
      /\ pc[t] = "close" /\ call[t].op = "lock"
      /\ RegionAccepted(call[t].region)
      /\ area[t] = DriverArea(call[t].region)

LockInv == LockTypes /\ Locking /\ AreaOfCall /\ LocksBalanced

\* The locks of h that have worked and are not told of yet.
Untold(h) == {t \in Threads : Answered(t, h)}

LEMMA UntoldFinite ==
  ASSUME NEW h
  PROVE  IsFiniteSet(Untold(h)) /\ Cardinality(Untold(h)) \in Nat
<1>1. IsFiniteSet(Untold(h))
  BY AccessAssumption, FS_Subset DEF AccessAssumption, Untold
<1>2. QED BY <1>1, FS_CardinalityType

\* LocksBalanced in terms of Untold.
LEMMA BalanceIs ==
  LocksBalanced <=> \A h \in Handles : locks[h] = holds[h] + Cardinality(Untold(h))
  BY DEF LocksBalanced, Untold, Answered

\* Steps that change neither count, nor the calls that are to answer.
LEMMA BalanceKept ==
  ASSUME LocksBalanced, UNCHANGED <<locks, holds>>,
         \A t \in Threads, h \in Handles : Answered(t, h)' <=> Answered(t, h)
  PROVE  LocksBalanced'
<1>1. \A h \in Handles : Untold(h)' = Untold(h)
  BY DEF Untold
<1>2. \A h \in Handles : locks'[h] = holds'[h] + Cardinality(Untold(h)')
  BY <1>1, BalanceIs
<1>3. QED BY <1>2 DEF LocksBalanced, Untold, Answered

LEMMA LockInit == Init => LockInv
<1> SUFFICES ASSUME Init PROVE LockInv
  OBVIOUS
<1>1. LockTypes
  BY DEF Init, LockTypes
<1>2. Locking /\ AreaOfCall
  BY DEF Init, Locking, AreaOfCall, Active
<1>3. \A h \in Handles : Untold(h) = {}
  BY DEF Init, Untold, Answered
<1>4. LocksBalanced
  BY <1>3, BalanceIs, FS_EmptySet DEF Init
<1>5. QED BY <1>1, <1>2, <1>4 DEF LockInv

\* The driver's lock: one more lock, and one more call to answer.
LEMMA DriverStep ==
  ASSUME FdInv, LockInv, NEW t \in Threads, DriverLock(t)
  PROVE  LockInv'
<1> USE DEF LockInv, FdInv, TypeOK, DriverLock, Go, Answer
<1>1. /\ pc[t] = "driver" /\ pc'[t] = "close" /\ call' = call
      /\ area'[t] = DriverArea(call[t].region)
      /\ \A u \in Threads : u # t => pc'[u] = pc[u] /\ area'[u] = area[u]
                                     /\ answer'[u] = answer[u]
      /\ call[t].op = "lock" /\ call[t].handle \in Handles /\ UNCHANGED holds
  BY DEF LockTypes, Locking
<1>2. LockTypes'
  BY DEF LockTypes
<1>3. Locking'
  BY <1>1 DEF Locking, Active
<1>4. AreaOfCall'
  BY <1>1 DEF AreaOfCall, Locking
<1>5. LocksBalanced'
  <2>1. CASE locks' = [locks EXCEPT ![call[t].handle] = @ + 1] /\ answer'[t] = "NONE"
    <3> SUFFICES ASSUME NEW h \in Handles
                 PROVE  locks'[h] = holds'[h] + Cardinality(Untold(h)')
      BY DEF LocksBalanced, Untold, Answered
    <3>1. locks[h] = holds[h] + Cardinality(Untold(h))
      BY BalanceIs
    <3>2. t \notin Untold(h)
      BY <1>1 DEF Untold, Answered
    <3>3. CASE h = call[t].handle
      <4>1. Untold(h)' = Untold(h) \cup {t}
        BY <1>1, <2>1, <3>3 DEF Untold, Answered
      <4>2. Cardinality(Untold(h)') = Cardinality(Untold(h)) + 1
        BY <3>2, <4>1, UntoldFinite, FS_AddElement
      <4>3. locks'[h] = locks[h] + 1
        BY <2>1, <3>3 DEF LockTypes
      <4>4. QED BY <1>1, <3>1, <4>2, <4>3, UntoldFinite DEF LockTypes
    <3>4. CASE h # call[t].handle
      <4>1. Untold(h)' = Untold(h)
        BY <1>1, <3>4 DEF Untold, Answered
      <4>2. QED BY <1>1, <2>1, <3>1, <3>4, <4>1 DEF LockTypes
    <3>5. QED BY <3>3, <3>4
  <2>2. CASE UNCHANGED locks /\ answer'[t] = "BAD_VALUE"
    <3>1. \A u \in Threads, h \in Handles : Answered(u, h)' <=> Answered(u, h)
      BY <1>1, <2>2 DEF Answered
    <3>2. QED BY <1>1, <2>2, <3>1, BalanceKept DEF Answered
  <2>3. QED BY <2>1, <2>2 DEF LockTypes
<1>6. QED BY <1>2, <1>3, <1>4, <1>5

\* The return from lock: the client knows of the lock that worked.
LEMMA LockReturns ==
  ASSUME FdInv, LockInv, NEW t \in Threads, ReturnFromLock(t)
  PROVE  LockInv'
<1> USE DEF LockInv, FdInv, TypeOK, ReturnFromLock, Go, Leave
<1>1. /\ pc[t] = "close" /\ pc'[t] = "idle" /\ area'[t] = NoArea
      /\ \A u \in Threads : u # t => pc'[u] = pc[u] /\ area'[u] = area[u]
                                     /\ call'[u] = call[u]
      /\ UNCHANGED <<locks, answer>>
  BY DEF LockTypes
<1>2. LockTypes'
  BY DEF LockTypes
<1>3. Locking'
  BY <1>1 DEF Locking, Active
<1>4. AreaOfCall'
  BY <1>1 DEF AreaOfCall
<1>5. LocksBalanced'
  <2> SUFFICES ASSUME NEW h \in Handles
               PROVE  locks'[h] = holds'[h] + Cardinality(Untold(h)')
    BY DEF LocksBalanced, Untold, Answered
  <2>1. locks[h] = holds[h] + Cardinality(Untold(h))
    BY BalanceIs
  <2>2. CASE Answered(t, h)
    <3>1. Untold(h)' = Untold(h) \ {t} /\ t \in Untold(h)
      BY <1>1, <2>2 DEF Untold, Answered
    <3>2. Cardinality(Untold(h)') = Cardinality(Untold(h)) - 1
      BY <3>1, UntoldFinite, FS_RemoveElement
    <3>3. holds'[h] = holds[h] + 1
      BY <2>2 DEF Answered
    <3>4. QED BY <1>1, <2>1, <3>2, <3>3, UntoldFinite DEF LockTypes
  <2>3. CASE ~Answered(t, h)
    <3>1. Untold(h)' = Untold(h)
      BY <1>1, <2>3 DEF Untold, Answered
    <3>2. holds'[h] = holds[h]
      BY <2>3 DEF Answered
    <3>3. QED BY <1>1, <2>1, <3>1, <3>2
  <2>4. QED BY <2>2, <2>3
<1>6. QED BY <1>2, <1>3, <1>4, <1>5

\* The other steps inside a call.
LEMMA InnerKeeps ==
  ASSUME FdInv, LockInv, NEW t \in Threads,
         RefuseLock(t) \/ PassChecks(t) \/ waitFenceFd(t) \/ SyncWait(t)
  PROVE  LockInv'
<1> USE DEF LockInv, FdInv, TypeOK, Go, Answer
<1>1. PICK l \in Labels \ {"idle"} : pc' = [pc EXCEPT ![t] = l]
  BY DEF RefuseLock, PassChecks, waitFenceFd, SyncWait, Labels
<1>2. /\ UNCHANGED <<locks, holds, call, area>> /\ pc[t] \notin {"idle", "close"}
      /\ DOMAIN answer' = Threads
      /\ \A u \in Threads : u # t => answer'[u] = answer[u]
  BY DEF RefuseLock, PassChecks, waitFenceFd, SyncWait, LockTypes
<1>3. LockTypes'
  BY <1>2 DEF LockTypes
<1>4. Locking'
  <2>1. pc'[t] \in {"check", "wait", "waitOn", "driver"} => call[t].op = "lock"
    BY DEF RefuseLock, PassChecks, waitFenceFd, SyncWait, Locking
  <2>2. pc'[t] \in {"sync", "syncOn"} => call[t].op = "gralloc_sync_wait"
    BY DEF RefuseLock, PassChecks, waitFenceFd, SyncWait, Locking
  <2>3. pc'[t] \in {"wait", "waitOn", "driver"} =>
          RegionAccepted(call[t].region) /\ call[t].handle \in Handles
    <3>1. CASE RefuseLock(t) \/ SyncWait(t)
      BY <3>1 DEF RefuseLock, SyncWait
    <3>2. CASE PassChecks(t)
      <4>1. Active(t) /\ call[t].op = "lock"
        BY <3>2 DEF PassChecks, Locking, Active
      <4>2. QED BY <3>2, <4>1 DEF PassChecks, Locking, Refusal
    <3>3. CASE waitFenceFd(t)
      BY <3>3 DEF waitFenceFd, Locking
    <3>4. QED BY <3>1, <3>2, <3>3
  <2>4. QED BY <1>1, <1>2, <2>1, <2>2, <2>3 DEF Locking, Active
<1>5. AreaOfCall'
  BY <1>1, <1>2 DEF AreaOfCall
<1>6. LocksBalanced'
  <2>1. ASSUME NEW h PROVE ~Answered(t, h)
    BY <1>2 DEF Answered
  <2>2. ASSUME NEW h \in Handles PROVE ~Answered(t, h)'
    <3>1. CASE RefuseLock(t)
      <4>1. answer'[t] = Refusal(call[t]) /\ Refusal(call[t]) # "NONE"
        BY <3>1 DEF RefuseLock, LockTypes
      <4>2. QED BY <4>1 DEF Answered
    <3>2. CASE PassChecks(t) \/ waitFenceFd(t)
      <4>1. pc'[t] # "close"
        BY <3>2 DEF PassChecks, waitFenceFd
      <4>2. QED BY <4>1 DEF Answered
    <3>3. CASE SyncWait(t)
      <4>1. call'[t].op = "gralloc_sync_wait"
        BY <3>3 DEF SyncWait, Locking
      <4>2. QED BY <4>1 DEF Answered
    <3>4. QED BY <3>1, <3>2, <3>3
  <2>3. ASSUME NEW u \in Threads, u # t, NEW h
        PROVE  Answered(u, h)' <=> Answered(u, h)
    BY <1>1, <1>2, <2>3 DEF Answered
  <2>4. QED BY <1>2, <2>1, <2>2, <2>3, BalanceKept DEF Answered
<1>7. QED BY <1>3, <1>4, <1>5, <1>6

\* Entering a call locks nothing.
LEMMA EnterLocks ==
  ASSUME FdInv, LockInv, NEW t \in Threads, NEW l \in Labels \ {"idle"}, NEW args,
         args.op = "lock" =>
           /\ l = "check"
           /\ args.region \in Regions /\ args.handle \in Handles \cup {NoHandle},
         args.op # "lock" => args.op = "gralloc_sync_wait" /\ l \in {"sync", "close"},
         Enter(t, l, args)
  PROVE  LockInv'
<1> USE DEF LockInv, FdInv, TypeOK, Go, Enter, Answer
<1>1. /\ UNCHANGED <<locks, holds, area>> /\ pc[t] = "idle" /\ pc'[t] = l /\ call'[t] = args
      /\ DOMAIN answer' = Threads
      /\ \A u \in Threads : u # t => pc'[u] = pc[u] /\ call'[u] = call[u]
                                     /\ answer'[u] = answer[u]
  BY DEF LockTypes
<1>2. LockTypes'
  BY <1>1 DEF LockTypes
<1>3. Locking'
  BY <1>1 DEF Locking, Active
<1>4. AreaOfCall'
  BY <1>1 DEF AreaOfCall
<1>5. LocksBalanced'
  <2>1. \A u \in Threads, h \in Handles : Answered(u, h)' <=> Answered(u, h)
    BY <1>1 DEF Answered
  <2>2. QED BY <1>1, <2>1, BalanceKept
<1>6. QED BY <1>2, <1>3, <1>4, <1>5

\* The return from gralloc_sync_wait.
LEMMA SyncReturns ==
  ASSUME FdInv, LockInv, NEW t \in Threads, ReturnFromSyncWait(t)
  PROVE  LockInv'
<1> USE DEF LockInv, FdInv, TypeOK, ReturnFromSyncWait, Go, Leave, Answer
<1>1. /\ UNCHANGED <<locks, holds>> /\ pc'[t] = "idle" /\ area'[t] = NoArea
      /\ DOMAIN area' = Threads /\ DOMAIN answer' = Threads
      /\ \A u \in Threads : u # t => pc'[u] = pc[u] /\ call'[u] = call[u]
                                     /\ area'[u] = area[u] /\ answer'[u] = answer[u]
  BY DEF LockTypes
<1>2. LockTypes'
  BY <1>1 DEF LockTypes
<1>3. Locking'
  BY <1>1 DEF Locking, Active
<1>4. AreaOfCall'
  BY <1>1 DEF AreaOfCall
<1>5. LocksBalanced'
  <2>1. \A u \in Threads, h \in Handles : Answered(u, h)' <=> Answered(u, h)
    BY <1>1 DEF Answered
  <2>2. QED BY <1>1, <2>1, BalanceKept
<1>6. QED BY <1>2, <1>3, <1>4, <1>5

\* The calls of an idle thread that return at once.
LEMMA IdleKeeps ==
  ASSUME FdInv, LockInv, NEW t \in Threads, NEW h \in Handles \cup {NoHandle}, NEW op,
         unlock(t, h) \/ Query(t, h, op) \/ getTransportSize(t, h)
  PROVE  LockInv'
<1> USE DEF LockInv, FdInv, TypeOK, unlock, Query, getTransportSize, Answer
<1>1. /\ pc[t] = "idle" /\ UNCHANGED <<pc, call, area>>
      /\ DOMAIN answer' = Threads
      /\ \A u \in Threads : u # t => answer'[u] = answer[u]
  BY DEF LockTypes
<1>2. LockTypes'
  BY <1>1 DEF LockTypes
<1>3. Locking' /\ AreaOfCall'
  BY <1>1 DEF Locking, AreaOfCall, Active
<1>4. LocksBalanced'
  <2>1. \A u \in Threads, g \in Handles : Answered(u, g)' <=> Answered(u, g)
    BY <1>1 DEF Answered
  <2>2. CASE UNCHANGED <<locks, holds>>
    BY <2>1, <2>2, BalanceKept
  <2>3. CASE /\ h \in Handles
             /\ locks' = [locks EXCEPT ![h] = @ - 1] /\ holds' = [holds EXCEPT ![h] = @ - 1]
    <3> SUFFICES ASSUME NEW g \in Handles
                 PROVE  locks'[g] = holds'[g] + Cardinality(Untold(g)')
      BY DEF LocksBalanced, Untold, Answered
    <3>1. Untold(g)' = Untold(g) /\ Cardinality(Untold(g)) \in Nat
      BY <2>1, UntoldFinite DEF Untold
    <3>2. locks[g] = holds[g] + Cardinality(Untold(g))
      BY BalanceIs
    <3>3. locks'[g] - locks[g] = holds'[g] - holds[g]
      BY <2>3 DEF LockTypes
    <3>4. locks'[g] \in Int /\ holds'[g] \in Int /\ locks[g] \in Int /\ holds[g] \in Int
      BY <1>2 DEF LockTypes
    <3>5. QED BY <3>1, <3>2, <3>3, <3>4
  <2>4. QED BY <2>2, <2>3
<1>5. QED BY <1>2, <1>3, <1>4

\* Steps that change none of its variables.
LEMMA ApartKeeps ==
  ASSUME LockInv, UNCHANGED <<locks, holds, pc, call, area, answer>>
  PROVE  LockInv'
<1>1. LocksBalanced'
  BY BalanceKept DEF Answered, LockInv
<1>2. QED BY <1>1 DEF LockInv, LockTypes, Locking, AreaOfCall, Active

LEMMA LockStep == FdInv /\ LockInv /\ [Next]_vars => LockInv'
<1> SUFFICES ASSUME FdInv, LockInv, [Next]_vars PROVE LockInv'
  OBVIOUS
<1>1. ASSUME NEW t \in Threads, Step(t) PROVE LockInv'
  BY <1>1, InnerKeeps, DriverStep, LockReturns, SyncReturns DEF Step
<1>2. ASSUME NEW t \in Threads, Calls(t) PROVE LockInv'
  <2>1. ASSUME NEW h \in Handles \cup {NoHandle}, NEW args \in LockCalls,
               NEW d \in client \cup {NoFd}, CallLock(t, h, args, d)
        PROVE  LockInv'
    <3> DEFINE rec == [op |-> "lock", handle |-> h, usage |-> args.usage,
                       region |-> args.region, fd |-> d,
                       fence |-> IF d = NoFd THEN NoFence ELSE file[d]]
    <3>1. /\ rec.op = "lock" /\ rec.handle = h /\ rec.region \in Regions
          /\ "check" \in Labels \ {"idle"}
      BY AccessAssumption DEF AccessAssumption, Regions, Labels
    <3>2. Enter(t, "check", rec)
      BY <2>1 DEF CallLock
    <3> HIDE DEF rec
    <3>3. QED BY <3>1, <3>2, EnterLocks
  <2>2. ASSUME NEW d \in client \cup {NoFd}, NEW close \in BOOLEAN,
               CallSyncWait(t, d, close)
        PROVE  LockInv'
    <3> DEFINE rec == [op |-> "gralloc_sync_wait", close |-> close, fd |-> d,
                       fence |-> IF d = NoFd THEN NoFence ELSE file[d]]
               l == IF d < 0 THEN "close" ELSE "sync"
    <3>1. rec.op = "gralloc_sync_wait" /\ l \in {"sync", "close"} /\ l \in Labels \ {"idle"}
      BY DEF Labels
    <3>2. Enter(t, l, rec)
      BY <2>2 DEF CallSyncWait
    <3> HIDE DEF rec, l
    <3>3. QED BY <3>1, <3>2, EnterLocks
  <2>3. ASSUME NEW h \in Handles \cup {NoHandle}, NEW op,
               unlock(t, h) \/ Query(t, h, op) \/ getTransportSize(t, h)
        PROVE  LockInv'
    BY <2>3, IdleKeeps
  <2>4. QED BY <1>2, <2>1, <2>2, <2>3 DEF Calls
<1>3. CASE \/ UNCHANGED vars
           \/ \E d \in Fds : CloseFence(d) \/ \E f \in Fences : OpenFence(d, f)
           \/ \E f \in Fences : Signal(f)
  BY <1>3, ApartKeeps DEF vars, CloseFence, OpenFence, Signal
<1>4. QED BY <1>1, <1>2, <1>3 DEF Next

\* Both invariants together.
LEMMA LockInvariance == Spec => []LockInv
<1>1. Init => FdInv /\ LockInv
  BY FdInvInit, LockInit
<1>2. FdInv /\ LockInv /\ [Next]_vars => (FdInv /\ LockInv)'
  BY FdInvStep, LockStep
<1>3. QED BY <1>1, <1>2, PTL DEF Spec

\* What the driver counts is what the clients know of, whatever fails.
THEOREM CountsAgree == Spec => []LocksBalanced
<1>1. LockInv => LocksBalanced
  BY DEF LockInv
<1>2. QED BY LockInvariance, <1>1, PTL

\* The driver's rectangle holds the region the client named.
THEOREM AreaHoldsRegion == Spec => []RegionCovered
<1>1. ASSUME LockInv PROVE RegionCovered
  <2> SUFFICES ASSUME NEW t \in Threads, area[t] # NoArea
               PROVE  /\ Covers(area[t], call[t].region)
                      /\ Covers([left |-> 0, top |-> 0, width |-> Width, height |-> Height],
                                call[t].region)
    BY DEF RegionCovered
  <2>1. /\ call[t].region \in Regions /\ RegionAccepted(call[t].region)
        /\ area[t] = DriverArea(call[t].region)
    BY <1>1 DEF LockInv, AreaOfCall, Locking, Active
  <2>2. Width \in Nat /\ Height \in Nat
    BY AccessAssumption DEF AccessAssumption
  <2>3. PICK l, t0, r, b \in Int : call[t].region = [left |-> l, top |-> t0, right |-> r, bottom |-> b]
    BY <2>1 DEF Regions
  <2>4. QED BY <2>1, <2>2, <2>3 DEF RegionAccepted, DriverArea, Everything, Covers
<1>2. QED BY LockInvariance, <1>1, PTL

-----------------------------------------------------------------------------
(* When gralloc_sync_wait closes its fence.                                 *)

\* Only its own thread's steps move a call.
LEMMA OwnSteps ==
  ASSUME FdInv, [Next]_vars, NEW t \in Threads, Active(t)
  PROVE  Step(t) \/ (pc'[t] = pc[t] /\ call'[t] = call[t])
<1> USE DEF FdInv, TypeOK, Go, Active
<1>1. ASSUME NEW u \in Threads, Step(u), u # t
      PROVE  pc'[t] = pc[t] /\ call'[t] = call[t]
  BY <1>1 DEF Step, RefuseLock, PassChecks, waitFenceFd, DriverLock, ReturnFromLock,
              SyncWait, ReturnFromSyncWait, Leave
<1>2. ASSUME NEW u \in Threads, Calls(u)
      PROVE  pc'[t] = pc[t] /\ call'[t] = call[t]
  <2>1. \/ \E l, args : Enter(u, l, args)
        \/ UNCHANGED <<pc, call>>
    BY <1>2 DEF Calls, CallLock, CallSyncWait, unlock, Query, getTransportSize
  <2>2. ASSUME NEW l, NEW args, Enter(u, l, args)
        PROVE  pc'[t] = pc[t] /\ call'[t] = call[t]
    BY <2>2 DEF Enter
  <2>3. QED BY <2>1, <2>2
<1>3. CASE \/ UNCHANGED vars
           \/ \E d \in Fds : CloseFence(d) \/ \E f \in Fences : OpenFence(d, f)
           \/ \E f \in Fences : Signal(f)
  BY <1>3 DEF vars, CloseFence, OpenFence, Signal
<1>4. QED BY <1>1, <1>2, <1>3 DEF Next

\* Only its own return ends a call of gralloc_sync_wait.
LEMMA SyncWaitEnds ==
  ASSUME FdInv, Next, NEW t \in Threads,
         pc[t] = "close", call[t].op = "gralloc_sync_wait", pc'[t] = "idle"
  PROVE  ReturnFromSyncWait(t)
<1>1. Step(t)
  BY OwnSteps DEF Active
<1>2. QED BY <1>1 DEF Step, RefuseLock, PassChecks, waitFenceFd, DriverLock, ReturnFromLock,
                      SyncWait

\* A fence is closed exactly by the calls that were asked to and succeed.
THEOREM ClosesAsAsked == Spec => SyncWaitCloses
<1>1. ASSUME FdInv, LockInv, [Next]_vars
      PROVE  [\A t \in Threads :
                pc[t] = "close" /\ call[t].op = "gralloc_sync_wait" /\ pc'[t] = "idle"
                  /\ call[t].fd # NoFd
                => ((file'[call[t].fd] = NoFence)
                      <=> (call[t].close /\ answer'[t] = "NONE"))]_vars
  <2>1. CASE UNCHANGED vars
    BY <2>1
  <2>2. CASE Next
    <3> SUFFICES ASSUME NEW t \in Threads, pc[t] = "close", pc'[t] = "idle",
                        call[t].op = "gralloc_sync_wait", call[t].fd # NoFd
                 PROVE  (file'[call[t].fd] = NoFence)
                          <=> (call[t].close /\ answer'[t] = "NONE")
      OBVIOUS
    <3>1. ReturnFromSyncWait(t)
      BY <1>1, <2>2, SyncWaitEnds
    <3>2. call[t].fd \in Fds /\ file[call[t].fd] # NoFence
      BY <1>1 DEF FdInv, TypeOK, Owners, Has, Active
    <3>3. (file'[call[t].fd] = NoFence) <=> (call[t].close /\ ~failed[t])
      BY <3>1, <3>2 DEF ReturnFromSyncWait
    <3>4. answer'[t] = IF failed[t] THEN "-errno" ELSE "NONE"
      BY <1>1, <3>1 DEF ReturnFromSyncWait, Answer, LockInv, LockTypes
    <3>5. QED BY <3>3, <3>4
  <2>3. QED BY <1>1, <2>1, <2>2
<1>2. Spec => []FdInv
  BY FdInvInit, FdInvStep, PTL DEF Spec
<1>3. QED BY LockInvariance, <1>1, <1>2, PTL DEF Spec, SyncWaitCloses

-----------------------------------------------------------------------------
(* How a call ends.                                                         *)

\* Steps a call has still to take, at most.
StepsLeft(t) ==
  CASE pc[t] = "idle"                 -> 0
    [] pc[t] = "close"                -> 1
    [] pc[t] \in {"driver", "syncOn"} -> 2
    [] pc[t] \in {"waitOn", "sync"}   -> 3
    [] pc[t] = "wait"                 -> 4
    [] pc[t] = "check"                -> 5

\* Each step of its thread brings a call nearer to its end, and nothing others
\* do takes it back: no error and no timeout starts the waiting over.
CallsAdvance ==
  /\ \A t \in Threads : Step(t) => StepsLeft(t)' < StepsLeft(t)
  /\ \A t \in Threads : Active(t) => StepsLeft(t)' <= StepsLeft(t)

\* The one place where a call cannot go on is the second wait, for a fence it
\* holds open itself, that is the one it was given, and that has not signalled.
OnlyFencesBlock ==
  \A t \in Threads :
    /\ pc[t] \in {"wait", "sync"} => SyncOutcomes(t, TRUE) # {}
    /\ pc[t] \in {"waitOn", "syncOn"} /\ SyncOutcomes(t, FALSE) = {} =>
         /\ call[t].fd \in Fds /\ file[call[t].fd] = call[t].fence
         /\ call[t].fence \in Fences \ signaled

\* And once it has signalled it stays so for as long as the call holds it.
SignalsStay ==
  \A t \in Threads :
    Active(t) /\ Active(t)' /\ call[t].fd # NoFd /\ call[t].fence \in signaled
    => call'[t].fence \in signaled'

LEMMA StepsLeftIs ==
  ASSUME NEW t \in Threads
  PROVE  /\ pc[t] = "idle" => StepsLeft(t) = 0
         /\ pc[t] = "close" => StepsLeft(t) = 1
         /\ pc[t] = "driver" => StepsLeft(t) = 2
         /\ pc[t] = "syncOn" => StepsLeft(t) = 2
         /\ pc[t] = "waitOn" => StepsLeft(t) = 3
         /\ pc[t] = "sync" => StepsLeft(t) = 3
         /\ pc[t] = "wait" => StepsLeft(t) = 4
         /\ pc[t] = "check" => StepsLeft(t) = 5
  BY Zenon DEF StepsLeft

LEMMA StepsLeftIsNext ==
  ASSUME NEW t \in Threads
  PROVE  /\ pc'[t] = "idle" => StepsLeft(t)' = 0
         /\ pc'[t] = "close" => StepsLeft(t)' = 1
         /\ pc'[t] = "driver" => StepsLeft(t)' = 2
         /\ pc'[t] = "syncOn" => StepsLeft(t)' = 2
         /\ pc'[t] = "waitOn" => StepsLeft(t)' = 3
         /\ pc'[t] = "wait" => StepsLeft(t)' = 4
  BY Zenon DEF StepsLeft

\* Where a step of a call's thread leads.
LEMMA StepLeads ==
  ASSUME TypeOK, NEW t \in Threads, Step(t)
  PROVE  \/ pc[t] = "check" /\ pc'[t] \in {"close", "driver", "wait"}
         \/ pc[t] = "wait" /\ pc'[t] \in {"waitOn", "driver"}
         \/ pc[t] = "waitOn" /\ pc'[t] = "driver"
         \/ pc[t] = "driver" /\ pc'[t] = "close"
         \/ pc[t] = "sync" /\ pc'[t] \in {"syncOn", "close"}
         \/ pc[t] = "syncOn" /\ pc'[t] = "close"
         \/ pc[t] = "close" /\ pc'[t] = "idle"
<1> USE DEF TypeOK, Go
<1>1. CASE RefuseLock(t) \/ PassChecks(t) \/ DriverLock(t)
  BY <1>1 DEF RefuseLock, PassChecks, DriverLock
<1>2. CASE waitFenceFd(t)
  <2>1. PICK outcome \in SyncOutcomes(t, pc[t] = "wait") :
          pc' = [pc EXCEPT ![t] = IF outcome = "ETIME" THEN "waitOn" ELSE "driver"]
    BY <1>2 DEF waitFenceFd
  <2>2. pc[t] = "waitOn" => outcome # "ETIME"
    BY DEF SyncOutcomes
  <2>3. QED BY <1>2, <2>1, <2>2 DEF waitFenceFd
<1>3. CASE SyncWait(t)
  BY <1>3 DEF SyncWait
<1>4. CASE ReturnFromLock(t) \/ ReturnFromSyncWait(t)
  BY <1>4 DEF ReturnFromLock, ReturnFromSyncWait, Leave
<1>5. QED BY <1>1, <1>2, <1>3, <1>4 DEF Step

LEMMA Advance ==
  ASSUME FdInv, [Next]_vars
  PROVE  CallsAdvance
<1>1. ASSUME NEW t \in Threads, Step(t)
      PROVE  StepsLeft(t) \in 0 .. 5 /\ StepsLeft(t)' \in 0 .. 5
             /\ StepsLeft(t)' < StepsLeft(t)
  BY <1>1, StepLeads, StepsLeftIs, StepsLeftIsNext DEF FdInv
<1>2. ASSUME NEW t \in Threads, Active(t), ~Step(t)
      PROVE  StepsLeft(t) \in 0 .. 5 /\ StepsLeft(t)' = StepsLeft(t)
  <2>1. pc'[t] = pc[t]
    BY <1>2, OwnSteps
  <2>2. StepsLeft(t)' = StepsLeft(t)
    BY <2>1 DEF StepsLeft
  <2>3. StepsLeft(t) \in 0 .. 5
    BY StepsLeftIs DEF FdInv, TypeOK, Labels
  <2>4. QED BY <2>2, <2>3
<1>3. ASSUME NEW t \in Threads, Active(t) PROVE StepsLeft(t)' <= StepsLeft(t)
  BY <1>1, <1>2, <1>3
<1>4. QED BY <1>1, <1>3 DEF CallsAdvance

\* A call is one of the two that take steps, and waits only if it has a fence.
CallsProper ==
  \A t \in Threads :
    /\ Active(t) => call[t].op \in {"lock", "gralloc_sync_wait"}
    /\ pc[t] \in {"wait", "waitOn", "sync", "syncOn"} => call[t].fd # NoFd

LEMMA EnterProper ==
  ASSUME FdInv, CallsProper, NEW t \in Threads, NEW args, NEW l,
         args.op \in {"lock", "gralloc_sync_wait"}, Enter(t, l, args),
         l \in {"wait", "waitOn", "sync", "syncOn"} => args.fd # NoFd
  PROVE  CallsProper'
  BY DEF FdInv, TypeOK, Enter, Go, Active, CallsProper

LEMMA ProperStep ==
  ASSUME FdInv, CallsProper, [Next]_vars
  PROVE  CallsProper'
<1>1. ASSUME NEW t \in Threads, NEW h \in Handles \cup {NoHandle}, NEW args \in LockCalls,
             NEW d \in client \cup {NoFd}, CallLock(t, h, args, d)
      PROVE  CallsProper'
  <2> DEFINE rec == [op |-> "lock", handle |-> h, usage |-> args.usage,
                     region |-> args.region, fd |-> d,
                     fence |-> IF d = NoFd THEN NoFence ELSE file[d]]
  <2>1. Enter(t, "check", rec) /\ rec.op = "lock"
    BY <1>1 DEF CallLock
  <2> HIDE DEF rec
  <2>2. QED BY <2>1, EnterProper
<1>2. ASSUME NEW t \in Threads, NEW d \in client \cup {NoFd}, NEW close \in BOOLEAN,
             CallSyncWait(t, d, close)
      PROVE  CallsProper'
  <2> DEFINE rec == [op |-> "gralloc_sync_wait", close |-> close, fd |-> d,
                     fence |-> IF d = NoFd THEN NoFence ELSE file[d]]
             l == IF d < 0 THEN "close" ELSE "sync"
  <2>1. Enter(t, l, rec) /\ rec.op = "gralloc_sync_wait" /\ rec.fd = d
    BY <1>2 DEF CallSyncWait
  <2>2. l = "close" \/ (l = "sync" /\ d # NoFd)
    BY DEF NoFd
  <2> HIDE DEF rec, l
  <2>3. QED BY <2>1, <2>2, EnterProper
<1>3. ASSUME NEW t \in Threads, Calls(t) PROVE CallsProper'
  <2>1. ASSUME UNCHANGED <<pc, call>> PROVE CallsProper'
    BY <2>1 DEF CallsProper, Active
  <2>2. QED BY <1>1, <1>2, <1>3, <2>1 DEF Calls, unlock, Query, getTransportSize
<1>4. ASSUME NEW t \in Threads, Step(t) PROVE CallsProper'
  <2>1. /\ pc[t] # "idle"
        /\ \A u \in Threads : u # t => pc'[u] = pc[u] /\ call'[u] = call[u]
        /\ pc'[t] # "idle" => call'[t] = call[t]
    <3>1. CASE RefuseLock(t) \/ PassChecks(t) \/ waitFenceFd(t) \/ DriverLock(t) \/ SyncWait(t)
      BY <3>1 DEF RefuseLock, PassChecks, waitFenceFd, DriverLock, SyncWait, Go, FdInv, TypeOK
    <3>2. CASE ReturnFromLock(t) \/ ReturnFromSyncWait(t)
      BY <3>2 DEF ReturnFromLock, ReturnFromSyncWait, Leave, Go, FdInv, TypeOK
    <3>3. QED BY <1>4, <3>1, <3>2 DEF Step
  <2>2. pc'[t] = "wait" => call[t].fd # NoFd
    <3>1. pc'[t] = "wait" => PassChecks(t)
      <4>1. pc'[t] = "wait" => pc[t] = "check"
        BY <1>4, StepLeads DEF FdInv
      <4>2. RefuseLock(t) => pc'[t] = "close"
        BY DEF RefuseLock, Go, FdInv, TypeOK
      <4>3. QED BY <1>4, <4>1, <4>2 DEF Step, waitFenceFd, DriverLock, ReturnFromLock,
                                        SyncWait, ReturnFromSyncWait
    <3>2. PassChecks(t) /\ pc'[t] = "wait" => ~(call[t].fd < 0)
      BY DEF PassChecks, Go, FdInv, TypeOK
    <3>3. QED BY <3>1, <3>2 DEF NoFd
  <2>3. pc'[t] \in {"waitOn", "syncOn"} => pc[t] \in {"wait", "sync"}
    BY <1>4, StepLeads DEF FdInv
  <2>4. pc'[t] # "sync"
    BY <1>4, StepLeads DEF FdInv
  <2>5. QED BY <2>1, <2>2, <2>3, <2>4 DEF CallsProper, Active
<1>5. CASE \/ UNCHANGED vars
           \/ \E d \in Fds : CloseFence(d) \/ \E f \in Fences : OpenFence(d, f)
           \/ \E f \in Fences : Signal(f)
  <2>1. UNCHANGED <<pc, call>>
    BY <1>5 DEF vars, CloseFence, OpenFence, Signal
  <2>2. QED BY <2>1 DEF CallsProper, Active
<1>6. QED BY <1>3, <1>4, <1>5 DEF Next

LEMMA SignalsKept ==
  ASSUME FdInv, [Next]_vars
  PROVE  SignalsStay
<1> SUFFICES ASSUME NEW t \in Threads, Active(t), Active(t)', call[t].fd # NoFd,
                    call[t].fence \in signaled
             PROVE  call'[t].fence \in signaled'
  BY DEF SignalsStay
<1>1. call'[t] = call[t]
  <2>1. ASSUME Step(t) PROVE call'[t] = call[t]
    BY <2>1 DEF Step, RefuseLock, PassChecks, waitFenceFd, DriverLock, ReturnFromLock,
                SyncWait, ReturnFromSyncWait, Leave, Go, Active, FdInv, TypeOK
  <2>2. QED BY <2>1, OwnSteps
<1>2. call[t].fd \in Fds /\ file[call[t].fd] = call[t].fence
  BY DEF FdInv, TypeOK, WaitsForOwnFence
<1>3. ASSUME NEW d \in Fds, NEW f \in Fences, OpenFence(d, f)
      PROVE  call[t].fence \in signaled'
  BY <1>2, <1>3 DEF OpenFence
<1>4. ASSUME NEW f \in Fences, Signal(f) PROVE call[t].fence \in signaled'
  BY <1>4 DEF Signal
<1>5. CASE \/ UNCHANGED vars
           \/ \E d \in Fds : CloseFence(d)
           \/ \E u \in Threads : Step(u) \/ Calls(u)
  <2>1. ASSUME NEW u \in Threads, Step(u) PROVE signaled' = signaled
    BY <2>1 DEF Step, RefuseLock, PassChecks, waitFenceFd, DriverLock, ReturnFromLock,
                SyncWait, ReturnFromSyncWait
  <2>2. ASSUME NEW u \in Threads, Calls(u) PROVE signaled' = signaled
    BY <2>2 DEF Calls, CallLock, CallSyncWait, Enter, unlock, Query, getTransportSize
  <2>3. signaled' = signaled
    BY <1>5, <2>1, <2>2 DEF vars, CloseFence
  <2>4. QED BY <1>1, <2>3
<1>6. QED BY <1>1, <1>3, <1>4, <1>5 DEF Next

LEMMA Blocked ==
  ASSUME FdInv, CallsProper
  PROVE  OnlyFencesBlock
<1> SUFFICES ASSUME NEW t \in Threads
             PROVE  /\ pc[t] \in {"wait", "sync"} => SyncOutcomes(t, TRUE) # {}
                    /\ pc[t] \in {"waitOn", "syncOn"} /\ SyncOutcomes(t, FALSE) = {} =>
                         /\ call[t].fd \in Fds /\ file[call[t].fd] = call[t].fence
                         /\ call[t].fence \in Fences \ signaled
  BY DEF OnlyFencesBlock
<1>1. SyncOutcomes(t, TRUE) # {}
  BY DEF SyncOutcomes
<1>2. ASSUME pc[t] \in {"waitOn", "syncOn"}, SyncOutcomes(t, FALSE) = {}
      PROVE  /\ call[t].fd \in Fds /\ file[call[t].fd] = call[t].fence
             /\ call[t].fence \in Fences \ signaled
  <2>1. Active(t) /\ call[t].fd \in Fds
    BY <1>2 DEF Active, FdInv, TypeOK, CallsProper
  <2>2. file[call[t].fd] = call[t].fence /\ file[call[t].fd] \in Fences
    BY <2>1, NoFdIsNone DEF FdInv, TypeOK, Owners, Has, WaitsForOwnFence
  <2>3. file[call[t].fd] \notin signaled
    BY <1>2 DEF SyncOutcomes
  <2>4. QED BY <2>1, <2>2, <2>3
<1>3. QED BY <1>1, <1>2

\* lock and gralloc_sync_wait take at most five steps, wait for their fence at
\* most twice, and are held up by nothing but a fence of their own that has not
\* signalled: what CallsReturn needs besides fairness.
THEOREM CallsBounded ==
  Spec => /\ [][CallsAdvance /\ SignalsStay]_vars
          /\ [](OnlyFencesBlock /\ CallsProper)
<1>1. Init => FdInv /\ CallsProper
  BY FdInvInit DEF Init, CallsProper, Active
<1>2. FdInv /\ CallsProper /\ [Next]_vars => (FdInv /\ CallsProper)'
  BY FdInvStep, ProperStep
<1>3. FdInv /\ CallsProper /\ [Next]_vars => [CallsAdvance /\ SignalsStay]_vars
  BY Advance, SignalsKept
<1>4. FdInv /\ CallsProper => OnlyFencesBlock
  BY Blocked
<1>5. QED BY <1>1, <1>2, <1>3, <1>4, PTL DEF Spec

-----------------------------------------------------------------------------
(* The calls implement FencedLocks.                                         *)

\* The fence of t's call has signalled, if it has one.
Past(t) == call[t].fd = NoFd \/ call[t].fence \in signaled

\* A call that is about to return answers success only after its fence and, if
\* it is lock, for a handle.
AnswersRight(t) ==
  /\ pc[t] = "idle" => call[t] = NoCall
  /\ failed[t] => "sync" \in Faults
  /\ pc[t] = "close" /\ call[t].op = "lock" =>
       /\ answer[t] \in {"NONE", "BAD_BUFFER", "BAD_VALUE"}
       /\ answer[t] = "NONE" => call[t].handle \in Handles /\ (Past(t) \/ failed[t])
  /\ pc[t] = "close" /\ call[t].op = "gralloc_sync_wait" => Past(t) \/ failed[t]

\* All that the steps below rely on.
CallInv == FdInv /\ LockInv /\ CallsProper /\ \A t \in Threads : AnswersRight(t)

LEMMA RightAsBefore ==
  ASSUME CallInv, [Next]_vars, NEW t \in Threads,
         pc'[t] = pc[t], call'[t] = call[t], answer'[t] = answer[t], failed'[t] = failed[t]
  PROVE  AnswersRight(t)'
<1>1. Active(t) /\ Past(t) => Past(t)'
  <2>1. SignalsStay
    BY SignalsKept DEF CallInv
  <2>2. QED BY <2>1 DEF SignalsStay, Active, Past
<1>2. QED BY <1>1 DEF CallInv, AnswersRight, Active

\* Whose answer a step may change.
LEMMA AnswerSteps ==
  ASSUME CallInv, [Next]_vars, NEW t \in Threads
  PROVE  \/ Step(t) \/ Calls(t)
         \/ /\ pc'[t] = pc[t] /\ call'[t] = call[t]
            /\ answer'[t] = answer[t] /\ failed'[t] = failed[t]
<1> USE DEF CallInv, FdInv, TypeOK, LockInv, LockTypes, Go, Answer
<1>1. ASSUME NEW u \in Threads, Step(u), u # t
      PROVE  /\ pc'[t] = pc[t] /\ call'[t] = call[t]
             /\ answer'[t] = answer[t] /\ failed'[t] = failed[t]
  <2>1. CASE RefuseLock(u) \/ PassChecks(u) \/ DriverLock(u)
    BY <1>1, <2>1 DEF RefuseLock, PassChecks, DriverLock
  <2>2. CASE waitFenceFd(u) \/ SyncWait(u)
    BY <1>1, <2>2 DEF waitFenceFd, SyncWait
  <2>3. CASE ReturnFromLock(u) \/ ReturnFromSyncWait(u)
    BY <1>1, <2>3 DEF ReturnFromLock, ReturnFromSyncWait, Leave
  <2>4. QED BY <1>1, <2>1, <2>2, <2>3 DEF Step
<1>2. ASSUME NEW u \in Threads, Calls(u), u # t
      PROVE  /\ pc'[t] = pc[t] /\ call'[t] = call[t]
             /\ answer'[t] = answer[t] /\ failed'[t] = failed[t]
  <2>1. \/ \E l, args : Enter(u, l, args)
        \/ (\E status : Answer(u, status)) /\ UNCHANGED <<pc, call, failed>>
    BY <1>2 DEF Calls, CallLock, CallSyncWait, unlock, Query, getTransportSize
  <2>2. ASSUME NEW l, NEW args, Enter(u, l, args)
        PROVE  /\ pc'[t] = pc[t] /\ call'[t] = call[t]
               /\ answer'[t] = answer[t] /\ failed'[t] = failed[t]
    BY <1>2, <2>2 DEF Enter
  <2>3. QED BY <1>2, <2>1, <2>2
<1>3. CASE \/ UNCHANGED vars
           \/ \E d \in Fds : CloseFence(d) \/ \E f \in Fences : OpenFence(d, f)
           \/ \E f \in Fences : Signal(f)
  BY <1>3 DEF vars, CloseFence, OpenFence, Signal
<1>4. QED BY <1>1, <1>2, <1>3 DEF Next

LEMMA RightOnEntry ==
  ASSUME CallInv, NEW t \in Threads, Calls(t), [Next]_vars
  PROVE  AnswersRight(t)'
<1> USE DEF CallInv, FdInv, TypeOK, LockInv, LockTypes, Go
<1>1. ASSUME NEW l, NEW args, Enter(t, l, args), l \in {"check", "sync"}
      PROVE  AnswersRight(t)'
  BY <1>1 DEF Enter, AnswersRight
<1>2. ASSUME NEW args, Enter(t, "close", args), args.op = "gralloc_sync_wait",
             args.fd = NoFd
      PROVE  AnswersRight(t)'
  BY <1>2 DEF Enter, AnswersRight, Past
<1>3. ASSUME NEW d \in client \cup {NoFd}, NEW close, CallSyncWait(t, d, close)
      PROVE  AnswersRight(t)'
  <2> DEFINE rec == [op |-> "gralloc_sync_wait", close |-> close, fd |-> d,
                     fence |-> IF d = NoFd THEN NoFence ELSE file[d]]
  <2>1. Enter(t, IF d < 0 THEN "close" ELSE "sync", rec)
    BY <1>3 DEF CallSyncWait
  <2>2. rec.op = "gralloc_sync_wait" /\ rec.fd = d
    OBVIOUS
  <2>3. d < 0 => d = NoFd
    BY AccessAssumption DEF AccessAssumption
  <2> HIDE DEF rec
  <2>4. QED BY <2>1, <2>2, <2>3, <1>1, <1>2
<1>4. ASSUME pc[t] = "idle", UNCHANGED <<pc, call, failed>> PROVE AnswersRight(t)'
  BY <1>4 DEF AnswersRight
<1>5. QED BY <1>1, <1>3, <1>4 DEF Calls, CallLock, unlock, Query, getTransportSize

LEMMA RightInside ==
  ASSUME CallInv, NEW t \in Threads, Step(t), [Next]_vars
  PROVE  AnswersRight(t)'
<1> USE DEF CallInv, FdInv, TypeOK, LockInv, LockTypes, Go, Answer
<1>1. CASE RefuseLock(t)
  <2>1. call[t].op = "lock"
    BY <1>1 DEF RefuseLock, Locking
  <2>2. answer'[t] \in {"BAD_BUFFER", "BAD_VALUE"}
    BY <1>1 DEF RefuseLock, Refusal
  <2>3. QED BY <1>1, <2>1, <2>2 DEF RefuseLock, AnswersRight
<1>2. CASE PassChecks(t)
  BY <1>2 DEF PassChecks, AnswersRight
<1>3. CASE waitFenceFd(t)
  <2>1. PICK outcome \in SyncOutcomes(t, pc[t] = "wait") :
          /\ pc' = [pc EXCEPT ![t] = IF outcome = "ETIME" THEN "waitOn" ELSE "driver"]
          /\ failed' = [failed EXCEPT ![t] = (outcome = "error")]
    BY <1>3 DEF waitFenceFd
  <2>2. outcome = "error" => "sync" \in Faults
    BY DEF SyncOutcomes
  <2>3. failed'[t] => "sync" \in Faults
    BY <2>1, <2>2
  <2>4. pc'[t] \in {"waitOn", "driver"}
    BY <2>1
  <2>5. QED BY <2>3, <2>4 DEF AnswersRight
<1>4. CASE DriverLock(t)
  <2>1. call[t].op = "lock" /\ call[t].handle \in Handles
    BY <1>4 DEF DriverLock, Locking
  <2>2. Past(t) \/ failed[t]
    BY <1>4 DEF DriverLock, NoEarlyAccess, Past
  <2>3. answer'[t] \in {"NONE", "BAD_VALUE"}
    BY <1>4 DEF DriverLock
  <2>4. UNCHANGED <<signaled, call, failed>> /\ pc'[t] = "close"
    BY <1>4 DEF DriverLock
  <2>5. QED BY <2>1, <2>2, <2>3, <2>4 DEF AnswersRight, Past
<1>5. CASE SyncWait(t)
  <2>1. PICK outcome \in SyncOutcomes(t, pc[t] = "sync") :
          /\ pc' = [pc EXCEPT ![t] = IF outcome # "signaled" /\ pc[t] = "sync"
                                     THEN "syncOn" ELSE "close"]
          /\ failed' = [failed EXCEPT ![t] = (outcome = "error")]
    BY <1>5 DEF SyncWait
  <2>2. /\ outcome = "error" => "sync" \in Faults
        /\ outcome = "signaled" => file[call[t].fd] \in signaled
        /\ outcome \in {"signaled", "ETIME", "error"}
        /\ pc[t] # "sync" => outcome # "ETIME"
    BY DEF SyncOutcomes
  <2>3. file[call[t].fd] = call[t].fence
    BY <1>5 DEF SyncWait, WaitsForOwnFence, Active, CallsProper
  <2>4. (failed'[t] <=> outcome = "error") /\ UNCHANGED <<call, signaled>>
    BY <1>5, <2>1 DEF SyncWait
  <2>5. call[t].op = "gralloc_sync_wait"
    BY <1>5 DEF SyncWait, Locking
  <2>6. pc'[t] \in {"syncOn", "close"}
        /\ (pc'[t] = "close" => outcome = "signaled" \/ outcome = "error")
    BY <2>1, <2>2
  <2>7. QED BY <2>2, <2>3, <2>4, <2>5, <2>6 DEF AnswersRight, Past
<1>6. CASE ReturnFromLock(t) \/ ReturnFromSyncWait(t)
  BY <1>6 DEF ReturnFromLock, ReturnFromSyncWait, Leave, AnswersRight
<1>7. QED BY <1>1, <1>2, <1>3, <1>4, <1>5, <1>6 DEF Step

LEMMA CallInvariance == Spec => []CallInv
<1>1. Init => CallInv
  BY FdInvInit, LockInit DEF CallInv, Init, CallsProper, Active, AnswersRight
<1>2. CallInv /\ [Next]_vars => CallInv'
  <2> SUFFICES ASSUME CallInv, [Next]_vars PROVE CallInv'
    OBVIOUS
  <2>1. \A t \in Threads : AnswersRight(t)'
    BY AnswerSteps, RightAsBefore, RightOnEntry, RightInside
  <2>2. (FdInv /\ LockInv /\ CallsProper)'
    BY FdInvStep, LockStep, ProperStep DEF CallInv
  <2>3. QED BY <2>1, <2>2 DEF CallInv
<1>3. QED BY <1>1, <1>2, PTL DEF Spec

LEMMA LocksInit == Init => Locks!Init
  BY DEF Init, Locks!Init, Told

\* What the surroundings do to descriptors leaves those of calls alone.
LEMMA SurroundingSteps ==
  ASSUME CallInv, [Next]_vars,
         \/ \E d \in Fds : CloseFence(d) \/ \E f \in Fences : OpenFence(d, f)
         \/ \E f \in Fences : Signal(f)
  PROVE  Locks!Surroundings
<1>1. UNCHANGED <<holds, pc, call, answer>> /\ UNCHANGED Told
  BY DEF CloseFence, OpenFence, Signal, Told
<1>2. ASSUME NEW t \in Threads, ~Locks!Idle(t), call[t].fd # NoFd
      PROVE  /\ file'[call[t].fd] = file[call[t].fd]
             /\ call[t].fd \notin client'
             /\ call[t].fence \in signaled => call[t].fence \in signaled'
  <2>1. Active(t) /\ call[t].fd \in Fds
    BY <1>2 DEF Locks!Idle, CallInv, AnswersRight, Active, FdInv, TypeOK
  <2>2. call[t].fd \notin client /\ file[call[t].fd] # NoFence
    BY <2>1 DEF CallInv, FdInv, Owners, Has
  <2>3. call[t].fence \in signaled => call[t].fence \in signaled'
    BY <1>1, <1>2, <2>1, SignalsKept DEF SignalsStay, Active, CallInv
  <2>4. /\ file'[call[t].fd] = file[call[t].fd]
        /\ call[t].fd \notin client'
    BY <2>1, <2>2 DEF CloseFence, OpenFence, Signal, CallInv, FdInv, TypeOK
  <2>5. QED BY <2>3, <2>4
<1>3. QED BY <1>1, <1>2 DEF Locks!Surroundings

\* A call begins in both.
LEMMA BeginSteps ==
  ASSUME CallInv, NEW t \in Threads, NEW l \in Labels \ {"idle"}, NEW args, Enter(t, l, args),
         args.op \in {"lock", "gralloc_sync_wait"}, args.fd \in client \cup {NoFd},
         args.fence = IF args.fd = NoFd THEN NoFence ELSE file[args.fd]
  PROVE  Locks!Begin(t)
<1> USE DEF CallInv, FdInv, TypeOK, LockInv, LockTypes, Go, Answer, Enter
<1>1. pc[t] = "idle" /\ Locks!Idle(t)
  BY DEF AnswersRight, Locks!Idle
<1>2. call'[t] = args /\ call' = [call EXCEPT ![t] = call'[t]]
  BY DEF Enter
<1>3. Told' = [Told EXCEPT ![t] = "none"]
  BY <1>1 DEF Told
<1>4. args.fd \in client => args.fd # NoFd
  BY NoFdIsNone
<1>5. QED BY <1>1, <1>2, <1>3, <1>4 DEF Locks!Begin, Locks!Answer

\* Between its entry and its return a call cannot be seen.
LEMMA HiddenSteps ==
  ASSUME CallInv, NEW t \in Threads,
         RefuseLock(t) \/ PassChecks(t) \/ waitFenceFd(t) \/ DriverLock(t) \/ SyncWait(t)
  PROVE  UNCHANGED Locks!lockVars
<1> USE DEF CallInv, FdInv, TypeOK, LockInv, LockTypes, Go, Answer
<1>1. UNCHANGED <<file, signaled, client, holds, call>>
  BY DEF RefuseLock, PassChecks, waitFenceFd, DriverLock, SyncWait
<1>2. /\ pc[t] # "idle" /\ pc'[t] # "idle"
      /\ \A u \in Threads : u # t => pc'[u] = pc[u] /\ answer'[u] = answer[u]
  <2>1. CASE RefuseLock(t) \/ PassChecks(t) \/ DriverLock(t)
    BY <2>1 DEF RefuseLock, PassChecks, DriverLock
  <2>2. CASE waitFenceFd(t) \/ SyncWait(t)
    BY <2>2 DEF waitFenceFd, SyncWait
  <2>3. QED BY <2>1, <2>2
<1>3. Told' = Told
  BY <1>2 DEF Told
<1>4. QED BY <1>1, <1>3 DEF Locks!lockVars

\* A return ends the call in both, with the answer told now.
LEMMA EndSteps ==
  ASSUME CallInv, NEW t \in Threads, NEW status, pc[t] = "close", Leave(t),
         answer'[t] = status, \A u \in Threads : u # t => answer'[u] = answer[u],
         UNCHANGED signaled
  PROVE  Locks!End(t, status)
<1> USE DEF CallInv, FdInv, TypeOK, LockInv, LockTypes, Go
<1>1. Told' = [Told EXCEPT ![t] = status]
  <2>1. pc' = [pc EXCEPT ![t] = "idle"]
    BY DEF Leave
  <2>2. QED BY <2>1 DEF Told
<1>2. QED BY <1>1 DEF Locks!End, Locks!Answer, Leave

LEMMA LockReturnSteps ==
  ASSUME CallInv, NEW t \in Threads, ReturnFromLock(t)
  PROVE  Locks!Locked(t) \/ Locks!LockFails(t)
<1> USE DEF CallInv, FdInv, TypeOK, LockInv, LockTypes
<1>1. /\ pc[t] = "close" /\ call[t].op = "lock" /\ Leave(t) /\ UNCHANGED <<signaled, client>>
      /\ answer' = answer /\ Locks!Closes(call[t].fd)
  BY DEF ReturnFromLock, Locks!Closes
<1>2. Locks!End(t, answer[t])
  BY <1>1, EndSteps
<1>3. AnswersRight(t)
  OBVIOUS
<1>4. CASE answer[t] = "NONE"
  <2>1. call[t].handle \in Handles /\ (Past(t) \/ "sync" \in Faults)
    BY <1>1, <1>3, <1>4 DEF AnswersRight
  <2>2. holds' = [holds EXCEPT ![call[t].handle] = @ + 1]
    BY <1>4, <2>1 DEF ReturnFromLock
  <2>3. QED BY <1>1, <1>2, <1>4, <2>1, <2>2 DEF Locks!Locked, Locks!FenceIsPast, Past
<1>5. CASE answer[t] # "NONE"
  <2>1. answer[t] \in {"BAD_BUFFER", "BAD_VALUE"}
    BY <1>1, <1>3, <1>5 DEF AnswersRight
  <2>2. holds' = holds
    BY <1>5 DEF ReturnFromLock
  <2>3. QED BY <1>1, <1>2, <2>1, <2>2 DEF Locks!LockFails
<1>6. QED BY <1>4, <1>5

LEMMA WaitReturnSteps ==
  ASSUME CallInv, NEW t \in Threads, ReturnFromSyncWait(t)
  PROVE  Locks!Waited(t) \/ Locks!WaitFails(t)
<1> USE DEF CallInv, FdInv, TypeOK, LockInv, LockTypes
<1>1. /\ pc[t] = "close" /\ call[t].op = "gralloc_sync_wait" /\ Leave(t)
      /\ UNCHANGED <<signaled, holds>>
      /\ answer' = [answer EXCEPT ![t] = IF failed[t] THEN "-errno" ELSE "NONE"]
  BY DEF ReturnFromSyncWait, Answer
<1>2. Locks!End(t, IF failed[t] THEN "-errno" ELSE "NONE")
  BY <1>1, EndSteps
<1>3. AnswersRight(t)
  OBVIOUS
<1>4. call[t].close /\ ~failed[t] => Locks!Closes(call[t].fd) /\ UNCHANGED client
  BY DEF ReturnFromSyncWait, Locks!Closes
<1>5. ~(call[t].close /\ ~failed[t]) => Locks!GivesBack(call[t].fd)
  <2> SUFFICES ASSUME ~(call[t].close /\ ~failed[t]) PROVE Locks!GivesBack(call[t].fd)
    OBVIOUS
  <2>1. client' = client \cup {d \in Fds : d = call[t].fd}
        /\ file' = [d \in Fds |-> file[d]]
    BY DEF ReturnFromSyncWait
  <2>2. QED BY <2>1 DEF Locks!GivesBack
<1>6. CASE failed[t]
  BY <1>1, <1>2, <1>3, <1>5, <1>6 DEF Locks!WaitFails, AnswersRight
<1>7. CASE ~failed[t]
  BY <1>1, <1>2, <1>3, <1>4, <1>5, <1>7 DEF Locks!Waited, Locks!FenceIsPast, AnswersRight, Past
<1>8. QED BY <1>6, <1>7

\* The calls of a single step.
LEMMA IdleSteps ==
  ASSUME CallInv, NEW t \in Threads, NEW h \in Handles \cup {NoHandle},
         \/ unlock(t, h) \/ getTransportSize(t, h)
         \/ \E op \in {"unlock", "flushLockedBuffer", "rereadLockedBuffer"} : Query(t, h, op)
  PROVE  Locks!Other(t) \/ \E g \in Handles : Locks!Unlocked(t, g)
<1> USE DEF CallInv, FdInv, TypeOK, LockInv, LockTypes
<1>1. pc[t] = "idle" /\ Locks!Idle(t) /\ UNCHANGED <<file, signaled, client, pc, call>>
  BY DEF unlock, Query, getTransportSize, AnswersRight, Locks!Idle
<1>2. ASSUME NEW status, Answer(t, status) PROVE Locks!Answer(t, status)
  <2>1. Told' = [Told EXCEPT ![t] = status]
    BY <1>1, <1>2 DEF Answer, Told
  <2>2. QED BY <2>1 DEF Locks!Answer
<1>3. CASE /\ h \in Handles /\ holds[h] > 0 /\ holds' = [holds EXCEPT ![h] = @ - 1]
           /\ Answer(t, "NONE")
  BY <1>1, <1>2, <1>3 DEF Locks!Unlocked
<1>4. CASE holds' = holds /\ (Answer(t, "NONE") \/ Answer(t, "BAD_BUFFER"))
  BY <1>1, <1>2, <1>4 DEF Locks!Other
<1>5. QED BY <1>3, <1>4 DEF unlock, Query, getTransportSize

LEMMA LocksStep ==
  ASSUME CallInv, [Next]_vars
  PROVE  [Locks!Next]_(Locks!lockVars)
<1>1. CASE UNCHANGED vars
  BY <1>1 DEF vars, Locks!lockVars, Told
<1>2. ASSUME NEW t \in Threads, Step(t) PROVE [Locks!Next]_(Locks!lockVars)
  BY <1>2, HiddenSteps, LockReturnSteps, WaitReturnSteps DEF Step, Locks!Next
<1>3. ASSUME NEW t \in Threads, NEW h \in Handles \cup {NoHandle}, NEW args \in LockCalls,
             NEW d \in client \cup {NoFd}, CallLock(t, h, args, d)
      PROVE  Locks!Begin(t)
  <2> DEFINE rec == [op |-> "lock", handle |-> h, usage |-> args.usage,
                     region |-> args.region, fd |-> d,
                     fence |-> IF d = NoFd THEN NoFence ELSE file[d]]
  <2>1. Enter(t, "check", rec)
    BY <1>3 DEF CallLock
  <2>2. /\ rec.op = "lock" /\ rec.fd = d
        /\ rec.fence = IF d = NoFd THEN NoFence ELSE file[d]
        /\ "check" \in Labels \ {"idle"}
    BY DEF Labels
  <2> HIDE DEF rec
  <2>3. QED BY <2>1, <2>2, BeginSteps
<1>4. ASSUME NEW t \in Threads, NEW d \in client \cup {NoFd}, NEW close \in BOOLEAN,
             CallSyncWait(t, d, close)
      PROVE  Locks!Begin(t)
  <2> DEFINE rec == [op |-> "gralloc_sync_wait", close |-> close, fd |-> d,
                     fence |-> IF d = NoFd THEN NoFence ELSE file[d]]
             l == IF d < 0 THEN "close" ELSE "sync"
  <2>1. Enter(t, l, rec)
    BY <1>4 DEF CallSyncWait
  <2>2. /\ rec.op = "gralloc_sync_wait" /\ rec.fd = d
        /\ rec.fence = IF d = NoFd THEN NoFence ELSE file[d]
        /\ l \in Labels \ {"idle"}
    BY DEF Labels
  <2> HIDE DEF rec, l
  <2>3. QED BY <2>1, <2>2, BeginSteps
<1>5. ASSUME NEW t \in Threads, Calls(t) PROVE Locks!Next
  BY <1>3, <1>4, <1>5, IdleSteps DEF Calls, Locks!Next
<1>6. CASE \/ \E d \in Fds : CloseFence(d) \/ \E f \in Fences : OpenFence(d, f)
           \/ \E f \in Fences : Signal(f)
  BY <1>6, SurroundingSteps DEF Locks!Next
<1>7. QED BY <1>1, <1>2, <1>5, <1>6 DEF Next

\* Waits, timeouts and the driver's lock are invisible: every call is answered
\* at one instant, after its fence, with the fence closed or given back just
\* then; no call of another thread can reach that fence before.
THEOREM AccessImplementsLocks == Spec => Locks!Safety
<1>1. CallInv /\ [Next]_vars => [Locks!Next]_(Locks!lockVars)
  BY LocksStep
<1>2. QED BY <1>1, LocksInit, CallInvariance, PTL DEF Spec, Locks!Safety

=============================================================================
