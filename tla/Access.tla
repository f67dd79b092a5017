------------------------------- MODULE Access -------------------------------
(***************************************************************************)
(* CPU access to buffers and the fences that gate it, in one client        *)
(* process: lock, unlock, flushLockedBuffer, rereadLockedBuffer and        *)
(* getTransportSize of VivanteMapper (mapper/mapper.cpp), and              *)
(* gralloc_sync_wait (utils/gralloc_helpers.cpp), which the driver calls.  *)
(*                                                                         *)
(* The process's descriptor table matters: lock takes over the acquire     *)
(* fence's descriptor and closes it when it returns, a closed number is    *)
(* given out again at once, and threads share the table.  A step reaches   *)
(* from one system or driver call to the next.                             *)
(***************************************************************************)
EXTENDS Integers, FiniteSets

CONSTANTS Threads,    \* threads of the process
          Handles,    \* the buffers' handles, imported
          NoHandle,   \* nullptr
          Width,      \* what gralloc_handle_width says of them
          Height,     \* and gralloc_handle_height
          LockCalls,  \* arguments of lock: [usage, region] records
          Fds,        \* numbers of the descriptor table
          Fences,     \* sync fences
          NoFence,    \* a number that is not open
          MaxLocks,   \* bound on the locks of one handle
          Faults      \* calls that may fail: "sync", "lock", "unlock", "size"

NoFd == -1
Everything == [left |-> 0, top |-> 0, right |-> 0, bottom |-> 0]
NoCall == [op |-> "none"]
NoArea == [left |-> 0, top |-> 0, width |-> 0, height |-> 0]

ASSUME AccessAssumption ==
  /\ IsFiniteSet(Threads)
  /\ Fds \subseteq Nat /\ NoFence \notin Fences /\ NoHandle \notin Handles
  /\ Width \in Nat \ {0} /\ Height \in Nat \ {0} /\ MaxLocks \in Nat
  /\ \A args \in LockCalls :
       args.region \in [left : Int, top : Int, right : Int, bottom : Int]

VARIABLES
  mManager,   \* the constructor's gralloc_manager::init() succeeded
  file,       \* descriptor -> the fence it refers to
  signaled,   \* the fences that have signalled
  client,     \* descriptors the client code owns
  locks,      \* handle -> locks the driver counts
  holds,      \* handle -> locks the client was told of
  pc,         \* thread -> where it is
  call,       \* thread -> the arguments of its call
  area,       \* thread -> the rectangle its lock gave the driver
  failed,     \* thread -> sync_wait failed, other than by timing out
  answer      \* thread -> the status of its last call, until the next

vars == <<mManager, file, signaled, client, locks, holds, pc, call, area, failed, answer>>

Init ==
  /\ mManager \in BOOLEAN
  /\ file = [d \in Fds |-> NoFence]
  /\ signaled = {}
  /\ client = {}
  /\ locks = [h \in Handles |-> 0]
  /\ holds = [h \in Handles |-> 0]
  /\ pc = [t \in Threads |-> "idle"]
  /\ call = [t \in Threads |-> NoCall]
  /\ area = [t \in Threads |-> NoArea]
  /\ failed = [t \in Threads |-> FALSE]
  /\ answer = [t \in Threads |-> "none"]

Go(t, label) == pc' = [pc EXCEPT ![t] = label]

Answer(t, status) == answer' = [answer EXCEPT ![t] = status]

(* The surroundings: the client receives fences, from other processes or by *)
(* dup, and closes what it owns; fences signal.                             *)

\* A fence that is received anew is one nobody here refers to.
OpenFence(d, f) ==
  /\ file[d] = NoFence
  /\ file' = [file EXCEPT ![d] = f]
  /\ client' = client \cup {d}
  /\ \/ (\E e \in Fds : file[e] = f) /\ UNCHANGED signaled
     \/ (\A e \in Fds : file[e] # f) /\ signaled' \in {signaled \cup {f}, signaled \ {f}}
  /\ UNCHANGED <<mManager, locks, holds, pc, call, area, failed, answer>>

CloseFence(d) ==
  /\ d \in client
  /\ file' = [file EXCEPT ![d] = NoFence]
  /\ client' = client \ {d}
  /\ UNCHANGED <<mManager, signaled, locks, holds, pc, call, area, failed, answer>>

Signal(f) ==
  /\ f \notin signaled
  /\ \E d \in Fds : file[d] = f
  /\ signaled' = signaled \cup {f}
  /\ UNCHANGED <<mManager, file, client, locks, holds, pc, call, area, failed, answer>>

\* A call that takes descriptor d over: it is no longer the client's.
Enter(t, label, args) ==
  /\ pc[t] = "idle"
  /\ Go(t, label)
  /\ call' = [call EXCEPT ![t] = args]
  /\ client' = client \ {args.fd}
  /\ Answer(t, "none")
  /\ UNCHANGED <<mManager, file, signaled, locks, holds, area, failed>>

\* The call returns; its arguments and locals are gone.
Leave(t) ==
  /\ Go(t, "idle")
  /\ call' = [call EXCEPT ![t] = NoCall]
  /\ area' = [area EXCEPT ![t] = NoArea]
  /\ failed' = [failed EXCEPT ![t] = FALSE]

\* sync_wait(fd, timeout): its outcomes, given the fence's state.
SyncOutcomes(t, timeout) ==
  (IF file[call[t].fd] \in signaled THEN {"signaled"}
   ELSE IF timeout THEN {"ETIME"} ELSE {})
    \cup (IF "sync" \in Faults THEN {"error"} ELSE {})

(* lock *)

LockedOrWaiting(h) ==
  locks[h] + Cardinality({t \in Threads :
                            pc[t] \notin {"idle", "close"} /\ call[t].op = "lock"
                              /\ call[t].handle = h})

CallLock(t, h, args, d) ==
  /\ h # NoHandle => LockedOrWaiting(h) < MaxLocks
  /\ Enter(t, "check", [op |-> "lock", handle |-> h, usage |-> args.usage,
                        region |-> args.region, fd |-> d,
                        fence |-> IF d = NoFd THEN NoFence ELSE file[d]])

\* Slip: the right edge may lie outside the buffer.
RegionAccepted_NoWidth(r) ==
  \/ r = Everything
  \/ /\ 0 <= r.left /\ r.left < r.right
     /\ 0 <= r.top  /\ r.top < r.bottom /\ r.bottom <= Height

RegionAccepted(r) ==
  \/ r = Everything
  \/ /\ 0 <= r.left /\ r.left < r.right  /\ r.right <= Width
     /\ 0 <= r.top  /\ r.top < r.bottom  /\ r.bottom <= Height

\* The refusals, in the order of the checks; "NONE" if there is none.
Refusal(args) ==
  IF args.handle = NoHandle \/ ~mManager THEN "BAD_BUFFER"
  ELSE IF args.usage = 0 \/ ~RegionAccepted(args.region) THEN "BAD_VALUE"
  ELSE "NONE"

\* An early return: acquireFence's destructor is still to run.
RefuseLock(t) ==
  /\ pc[t] = "check"
  /\ Refusal(call[t]) # "NONE"
  /\ Answer(t, Refusal(call[t]))
  /\ Go(t, "close")
  /\ UNCHANGED <<mManager, file, signaled, client, locks, holds, call, area, failed>>

\* Up to waitFenceFd's sync_wait, if there is a fence.
PassChecks(t) ==
  /\ pc[t] = "check"
  /\ Refusal(call[t]) = "NONE"
  /\ Go(t, IF call[t].fd < 0 THEN "driver" ELSE "wait")
  /\ UNCHANGED <<mManager, file, signaled, client, locks, holds, call, area, failed, answer>>

\* Slip: a timeout is only logged.
waitFenceFd_TimesOut(t) ==
  /\ pc[t] \in {"wait", "waitOn"}
  /\ \E outcome \in SyncOutcomes(t, pc[t] = "wait") :
       /\ Go(t, "driver")
       /\ failed' = [failed EXCEPT ![t] = (outcome = "error")]
  /\ UNCHANGED <<mManager, file, signaled, client, locks, holds, call, area, answer>>

\* waitFenceFd: 3500 ms, and without end if these were not enough.  No other
\* error is looked at, nor is any of the second wait.
waitFenceFd(t) ==
  /\ pc[t] \in {"wait", "waitOn"}
  /\ \E outcome \in SyncOutcomes(t, pc[t] = "wait") :
       /\ Go(t, IF outcome = "ETIME" THEN "waitOn" ELSE "driver")
       /\ failed' = [failed EXCEPT ![t] = (outcome = "error")]
  /\ UNCHANGED <<mManager, file, signaled, client, locks, holds, call, area, answer>>

DriverArea(region) ==
  [left |-> region.left, top |-> region.top, width |-> Width, height |-> Height]

\* The driver's lock, for the region's corner and the buffer's size.
DriverLock(t) ==
  /\ pc[t] = "driver"
  /\ area' = [area EXCEPT ![t] = DriverArea(call[t].region)]
  /\ \/ /\ locks' = [locks EXCEPT ![call[t].handle] = @ + 1]
        /\ Answer(t, "NONE")
     \/ /\ "lock" \in Faults
        /\ Answer(t, "BAD_VALUE")
        /\ UNCHANGED locks
  /\ Go(t, "close")
  /\ UNCHANGED <<mManager, file, signaled, client, holds, call, failed>>

\* Slip: only a lock that worked closes the fence.
ReturnFromLock_KeepsFence(t) ==
  /\ pc[t] = "close" /\ call[t].op = "lock"
  /\ file' = [d \in Fds |-> IF d = call[t].fd /\ answer[t] = "NONE"
                            THEN NoFence ELSE file[d]]
  /\ holds' = [h \in Handles |-> IF h = call[t].handle /\ answer[t] = "NONE"
                                 THEN holds[h] + 1 ELSE holds[h]]
  /\ Leave(t)
  /\ UNCHANGED <<mManager, signaled, client, locks, answer>>

\* ~unique_fd, and the client has its answer.
ReturnFromLock(t) ==
  /\ pc[t] = "close" /\ call[t].op = "lock"
  /\ file' = [d \in Fds |-> IF d = call[t].fd THEN NoFence ELSE file[d]]
  /\ holds' = [h \in Handles |-> IF h = call[t].handle /\ answer[t] = "NONE"
                                 THEN holds[h] + 1 ELSE holds[h]]
  /\ Leave(t)
  /\ UNCHANGED <<mManager, signaled, client, locks, answer>>

(* unlock, and the calls that leave everything as it is.                    *)

\* Slip: a failed unlock answers success.
unlock_Ignores(t, h) ==
  /\ pc[t] = "idle" /\ h \in Handles /\ holds[h] > 0 /\ mManager
  /\ \/ locks' = [locks EXCEPT ![h] = @ - 1]
     \/ "unlock" \in Faults /\ UNCHANGED locks
  /\ holds' = [holds EXCEPT ![h] = @ - 1]
  /\ Answer(t, "NONE")
  /\ UNCHANGED <<mManager, file, signaled, client, pc, call, area, failed>>

\* Clients unlock what they hold; the release fence is always -1.
unlock(t, h) ==
  /\ pc[t] = "idle"
  /\ h \in Handles /\ holds[h] > 0 /\ mManager
  /\ \/ /\ locks' = [locks EXCEPT ![h] = @ - 1]
        /\ holds' = [holds EXCEPT ![h] = @ - 1]
        /\ Answer(t, "NONE")
     \/ /\ "unlock" \in Faults
        /\ Answer(t, "BAD_BUFFER")
        /\ UNCHANGED <<locks, holds>>
  /\ UNCHANGED <<mManager, file, signaled, client, pc, call, area, failed>>

\* unlock is refused as the calls below are; flushLockedBuffer and
\* rereadLockedBuffer do nothing yet.
Query(t, h, op) ==
  /\ pc[t] = "idle"
  /\ \/ (h = NoHandle \/ ~mManager) /\ Answer(t, "BAD_BUFFER")
     \/ (h # NoHandle /\ mManager /\ op # "unlock") /\ Answer(t, "NONE")
  /\ UNCHANGED <<mManager, file, signaled, client, locks, holds, pc, call, area, failed>>

\* getTransportSize asks the driver.
getTransportSize(t, h) ==
  /\ pc[t] = "idle"
  /\ \/ h # NoHandle /\ mManager /\ Answer(t, "NONE")
     \/ (h = NoHandle \/ ~mManager \/ "size" \in Faults) /\ Answer(t, "BAD_BUFFER")
  /\ UNCHANGED <<mManager, file, signaled, client, locks, holds, pc, call, area, failed>>

(* gralloc_sync_wait(fence, close_fence)                                    *)

CallSyncWait(t, d, close) ==
  Enter(t, IF d < 0 THEN "close" ELSE "sync",
        [op |-> "gralloc_sync_wait", close |-> close, fd |-> d,
         fence |-> IF d = NoFd THEN NoFence ELSE file[d]])

\* Slip: an error of the second wait starts the waiting over.
SyncWait_StartsOver(t) ==
  /\ pc[t] \in {"sync", "syncOn"}
  /\ \E outcome \in SyncOutcomes(t, pc[t] = "sync") :
       Go(t, IF outcome = "signaled" THEN "close"
             ELSE IF pc[t] = "sync" THEN "syncOn" ELSE "sync")
  /\ UNCHANGED <<mManager, file, signaled, client, locks, holds, call, area, failed, answer>>

\* Slip: an error of the second wait is taken for success.
SyncWait_Succeeds(t) ==
  /\ pc[t] \in {"sync", "syncOn"}
  /\ \E outcome \in SyncOutcomes(t, pc[t] = "sync") :
       Go(t, IF outcome # "signaled" /\ pc[t] = "sync" THEN "syncOn" ELSE "close")
  /\ UNCHANGED <<mManager, file, signaled, client, locks, holds, call, area, failed, answer>>

\* 1000 ms, and without end after any error of the first wait.
SyncWait(t) ==
  /\ pc[t] \in {"sync", "syncOn"}
  /\ \E outcome \in SyncOutcomes(t, pc[t] = "sync") :
       /\ Go(t, IF outcome # "signaled" /\ pc[t] = "sync" THEN "syncOn" ELSE "close")
       /\ failed' = [failed EXCEPT ![t] = (outcome = "error")]
  /\ UNCHANGED <<mManager, file, signaled, client, locks, holds, call, area, answer>>

\* Slip: the fence is closed before the error is returned, too.
ReturnFromSyncWait_ClosesAlways(t) ==
  /\ pc[t] = "close" /\ call[t].op = "gralloc_sync_wait"
  /\ file' = [d \in Fds |-> IF d = call[t].fd /\ call[t].close THEN NoFence ELSE file[d]]
  /\ client' = client \cup ({call[t].fd} \cap {d \in Fds : ~call[t].close \/ failed[t]})
  /\ Answer(t, IF failed[t] THEN "-errno" ELSE "NONE")
  /\ Leave(t)
  /\ UNCHANGED <<mManager, signaled, locks, holds>>

\* An error returns at once; success closes the fence if that was asked.  What
\* is not closed is the caller's again.
ReturnFromSyncWait(t) ==
  /\ pc[t] = "close" /\ call[t].op = "gralloc_sync_wait"
  /\ LET closes == call[t].close /\ ~failed[t]
     IN  /\ file' = [d \in Fds |-> IF d = call[t].fd /\ closes THEN NoFence ELSE file[d]]
         /\ client' = client \cup {d \in Fds : d = call[t].fd /\ ~closes}
  /\ Answer(t, IF failed[t] THEN "-errno" ELSE "NONE")
  /\ Leave(t)
  /\ UNCHANGED <<mManager, signaled, locks, holds>>

-----------------------------------------------------------------------------

Step(t) ==
  \/ RefuseLock(t) \/ PassChecks(t) \/ waitFenceFd(t) \/ DriverLock(t)
  \/ ReturnFromLock(t) \/ SyncWait(t) \/ ReturnFromSyncWait(t)

Calls(t) ==
  \/ \E h \in Handles \cup {NoHandle} :
       \/ \E args \in LockCalls, d \in client \cup {NoFd} : CallLock(t, h, args, d)
       \/ unlock(t, h)
       \/ \E op \in {"unlock", "flushLockedBuffer", "rereadLockedBuffer"} : Query(t, h, op)
       \/ getTransportSize(t, h)
  \/ \E d \in client \cup {NoFd}, close \in BOOLEAN : CallSyncWait(t, d, close)

Next ==
  \/ \E t \in Threads : Step(t) \/ Calls(t)
  \/ \E d \in Fds : CloseFence(d) \/ \E f \in Fences : OpenFence(d, f)
  \/ \E f \in Fences : Signal(f)

\* A thread inside a call runs on, and a fence signals in the end.
Fairness ==
  /\ \A t \in Threads : WF_vars(Step(t))
  /\ \A f \in Fences : WF_vars(Signal(f))

Spec == Init /\ [][Next]_vars

FairSpec == Spec /\ Fairness

-----------------------------------------------------------------------------
(* Properties.                                                             *)

Labels == {"idle", "check", "wait", "waitOn", "driver", "sync", "syncOn", "close"}

Active(t) == pc[t] # "idle"

\* The descriptors calls have taken over.
Taken == {call[t].fd : t \in {u \in Threads : Active(u)}} \ {NoFd}

\* The type invariant.
TypeOK ==
  /\ file \in [Fds -> Fences \cup {NoFence}]
  /\ client \subseteq Fds
  /\ pc \in [Threads -> Labels]
  /\ DOMAIN call = Threads
  /\ failed \in [Threads -> BOOLEAN]
  /\ \A t \in Threads : Active(t) => call[t].fd \in Fds \cup {NoFd}

\* Every open descriptor has one owner, the client or one call: none is leaked
\* by any return of lock or gralloc_sync_wait, and none can be closed twice.
OneOwner ==
  /\ client \cup Taken = {d \in Fds : file[d] # NoFence}
  /\ client \cap Taken = {}
  /\ \A t, u \in Threads :
       Active(t) /\ Active(u) /\ call[t].fd = call[u].fd /\ call[t].fd # NoFd => t = u

\* A call waits for, and closes, the fence it was given, though numbers of
\* closed descriptors are reused while it waits.
WaitsForOwnFence ==
  \A t \in Threads :
    Active(t) /\ call[t].fd # NoFd => file[call[t].fd] = call[t].fence

\* The driver is not asked for access before the acquire fence has signalled,
\* whatever times out, unless sync_wait itself failed.
NoEarlyAccess ==
  \A t \in Threads :
    pc[t] = "driver" /\ call[t].fd # NoFd /\ ~failed[t] => call[t].fence \in signaled

\* What the client may unlock is what the driver has locked: no lock or unlock
\* that fails changes the count on one side only.
LocksBalanced ==
  \A h \in Handles :
    locks[h] = holds[h]
      + Cardinality({t \in Threads : pc[t] = "close" /\ call[t].op = "lock"
                                       /\ call[t].handle = h /\ answer[t] = "NONE"})

Covers(a, r) ==
  /\ a.left <= r.left /\ r.right <= a.left + a.width
  /\ a.top <= r.top /\ r.bottom <= a.top + a.height

\* The rectangle the driver locks holds the whole region the client named, and
\* that lies in the buffer.
RegionCovered ==
  \A t \in Threads :
    area[t] # NoArea =>
      /\ Covers(area[t], call[t].region)
      /\ Covers([left |-> 0, top |-> 0, width |-> Width, height |-> Height],
                call[t].region)

\* "An access region of all zeros means the entire buffer", and one that
\* reaches past the buffer is refused: what the driver locks is in the buffer.
AreaInBuffer ==
  \A t \in Threads :
    /\ area[t].left + area[t].width <= Width
    /\ area[t].top + area[t].height <= Height

\* gralloc_sync_wait closes the fence exactly if it was asked to and succeeds.
SyncWaitCloses ==
  [][\A t \in Threads :
       pc[t] = "close" /\ call[t].op = "gralloc_sync_wait" /\ pc'[t] = "idle"
         /\ call[t].fd # NoFd
       => ((file'[call[t].fd] = NoFence) <=> (call[t].close /\ answer'[t] = "NONE"))]_vars

\* lock and gralloc_sync_wait return, if fences signal.
CallsReturn == \A t \in Threads : Active(t) ~> ~Active(t)

-----------------------------------------------------------------------------
(* The calls keep the promise of FencedLocks: one takes effect when it      *)
(* returns, and how often it waited cannot be seen.                         *)

Told == [t \in Threads |-> IF pc[t] = "idle" THEN answer[t] ELSE "none"]

Locks == INSTANCE FencedLocks WITH answer <- Told, SyncFails <- "sync" \in Faults

ImplementsLocks == Locks!Safety

=============================================================================
