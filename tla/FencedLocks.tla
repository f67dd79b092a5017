----------------------------- MODULE FencedLocks ----------------------------
(***************************************************************************)
(* What lock, unlock and gralloc_sync_wait promise a client process.  A    *)
(* call takes its fence's descriptor over when it is made and is answered  *)
(* at one instant: lock succeeds after the fence has signalled, and closes *)
(* it whether it succeeds or not; gralloc_sync_wait succeeds after the     *)
(* fence has signalled, and closes it if it was to, or else gives it back, *)
(* as it does when it fails.  Meanwhile the descriptor is out of everybody *)
(* else's reach.  How the calls wait, and what they ask of the driver, is  *)
(* the business of module Access.                                          *)
(***************************************************************************)
EXTENDS Integers

CONSTANTS Threads,   \* threads of the process
          Handles,   \* the buffers' handles
          Fds,       \* numbers of the descriptor table
          NoFd,      \* the number that stands for no fence
          NoFence,   \* a number that is not open
          NoCall,    \* a thread that is in neither call
          SyncFails  \* TRUE: sync_wait may fail, other than by timing out

VARIABLES file,      \* descriptor -> the fence it refers to
          signaled,  \* the fences that have signalled
          client,    \* descriptors the client code owns
          holds,     \* handle -> locks the client holds
          call,      \* thread -> its call
          answer     \* thread -> the status of its last call

lockVars == <<file, signaled, client, holds, call, answer>>

Init ==
  /\ file = [d \in Fds |-> NoFence]
  /\ signaled = {}
  /\ client = {}
  /\ holds = [h \in Handles |-> 0]
  /\ call = [t \in Threads |-> NoCall]
  /\ answer = [t \in Threads |-> "none"]

Idle(t) == call[t] = NoCall

Answer(t, status) == answer' = [answer EXCEPT ![t] = status]

\* The surroundings open, close and signal fences, but the fence a call has
\* taken over stays open where it is, nobody else's, and, once it has, signalled.
Surroundings ==
  /\ \A t \in Threads : ~Idle(t) /\ call[t].fd # NoFd =>
       /\ file'[call[t].fd] = file[call[t].fd]
       /\ call[t].fd \notin client'
       /\ call[t].fence \in signaled => call[t].fence \in signaled'
  /\ UNCHANGED <<holds, call, answer>>

\* A call of lock or gralloc_sync_wait.
Begin(t) ==
  /\ Idle(t)
  /\ call' = [call EXCEPT ![t] = call'[t]]
  /\ call'[t].op \in {"lock", "gralloc_sync_wait"}
  /\ \/ call'[t].fd = NoFd
     \/ call'[t].fd \in client /\ call'[t].fence = file[call'[t].fd]
  /\ client' = client \ {call'[t].fd}
  /\ Answer(t, "none")
  /\ UNCHANGED <<file, signaled, holds>>

End(t, status) ==
  /\ call' = [call EXCEPT ![t] = NoCall]
  /\ Answer(t, status)
  /\ UNCHANGED signaled

Closes(fd) == file' = [d \in Fds |-> IF d = fd THEN NoFence ELSE file[d]]

\* There was nothing to wait for, or it has happened.
FenceIsPast(t) == call[t].fd = NoFd \/ call[t].fence \in signaled

Locked(t) ==
  /\ call[t].op = "lock" /\ call[t].handle \in Handles
  /\ FenceIsPast(t) \/ SyncFails
  /\ holds' = [holds EXCEPT ![call[t].handle] = @ + 1]
  /\ Closes(call[t].fd)
  /\ End(t, "NONE")
  /\ UNCHANGED client

LockFails(t) ==
  /\ call[t].op = "lock"
  /\ Closes(call[t].fd)
  /\ \E status \in {"BAD_BUFFER", "BAD_VALUE"} : End(t, status)
  /\ UNCHANGED <<client, holds>>

GivesBack(fd) == client' = client \cup (Fds \cap {fd}) /\ UNCHANGED file

Waited(t) ==
  /\ call[t].op = "gralloc_sync_wait"
  /\ FenceIsPast(t)
  /\ IF call[t].close THEN Closes(call[t].fd) /\ UNCHANGED client
                      ELSE GivesBack(call[t].fd)
  /\ End(t, "NONE")
  /\ UNCHANGED holds

WaitFails(t) ==
  /\ call[t].op = "gralloc_sync_wait"
  /\ SyncFails
  /\ GivesBack(call[t].fd)
  /\ End(t, "-errno")
  /\ UNCHANGED holds

Unlocked(t, h) ==
  /\ Idle(t)
  /\ holds[h] > 0
  /\ holds' = [holds EXCEPT ![h] = @ - 1]
  /\ Answer(t, "NONE")
  /\ UNCHANGED <<file, signaled, client, call>>

\* An unlock that fails, and every other call.
Other(t) ==
  /\ Idle(t)
  /\ \E status \in {"NONE", "BAD_BUFFER"} : Answer(t, status)
  /\ UNCHANGED <<file, signaled, client, holds, call>>

Next ==
  \/ Surroundings
  \/ \E t \in Threads :
       \/ Begin(t)
       \/ Locked(t) \/ LockFails(t)
       \/ Waited(t) \/ WaitFails(t)
       \/ \E h \in Handles : Unlocked(t, h)
       \/ Other(t)

Safety == Init /\ [][Next]_lockVars

=============================================================================
