---------------------------- MODULE AllocService ----------------------------
(***************************************************************************)
(* What the allocator service promises its clients                         *)
(* (IAllocator as implemented by allocator/aidl/allocator.cpp): each call  *)
(* is answered, as if at one instant, either with exactly the number of    *)
(* buffers asked for, every one of them new and granted to this caller     *)
(* alone, or with one error and nothing granted.  How the service gets     *)
(* there - slot by slot, with undo - is the business of module Allocator.  *)
(***************************************************************************)
EXTENDS Descriptor

CONSTANTS Threads,    \* binder threads serving calls
          Buffers,    \* graphics buffers the device can hold
          NoHandle,   \* nullptr: a slot without a buffer
          Requests,   \* the calls clients make
          NoRequest,  \* no call
          MaxCount    \* bound on the count of one call

Slots == 0 .. (MaxCount - 1)

NoBuffers == [k \in Slots |-> NoHandle]

\* A call the service may grant.
Grantable(r) ==
  /\ Convertible(r.desc)
  /\ r.api = "allocate"  => r.decodes
  /\ r.api = "allocate2" => OptionsAccepted(r.desc)

\* The errors a call may be answered with.  NO_RESOURCES is always possible.
PermittedErrors(r) ==
  {"NO_RESOURCES"}
    \cup (IF r.api = "allocate" /\ ~r.decodes THEN {"BAD_DESCRIPTOR"} ELSE {})
    \cup (IF r.api = "allocate2" \/ ~Convertible(r.desc) THEN {"UNSUPPORTED"} ELSE {})

VARIABLES phase,      \* thread -> "idle", "pending" or "done"
          req,        \* thread -> the call it serves
          status,     \* thread -> the status of its answer
          granted,    \* thread -> the buffers of its answer, by slot
          held        \* the buffers clients own

serviceVars == <<phase, req, status, granted, held>>

\* Every buffer already spoken for.
Taken == held \cup {granted[t][k] : t \in Threads, k \in Slots}

Init ==
  /\ phase = [t \in Threads |-> "idle"]
  /\ req = [t \in Threads |-> NoRequest]
  /\ status = [t \in Threads |-> "OK"]
  /\ granted = [t \in Threads |-> NoBuffers]
  /\ held = {}

Receive(t, r) ==
  /\ phase[t] = "idle"
  /\ phase' = [phase EXCEPT ![t] = "pending"]
  /\ req' = [req EXCEPT ![t] = r]
  /\ UNCHANGED <<status, granted, held>>

Grant(t) ==
  /\ phase[t] = "pending"
  /\ Grantable(req[t])
  /\ \E g \in [Slots -> Buffers \cup {NoHandle}] :
       /\ \A k \in Slots : IF k < req[t].count THEN g[k] \in Buffers \ Taken
                                               ELSE g[k] = NoHandle
       /\ \A k, l \in Slots : k # l /\ g[k] = g[l] => g[k] = NoHandle
       /\ granted' = [granted EXCEPT ![t] = g]
  /\ phase' = [phase EXCEPT ![t] = "done"]
  /\ status' = [status EXCEPT ![t] = "OK"]
  /\ UNCHANGED <<req, held>>

Refuse(t) ==
  /\ phase[t] = "pending"
  /\ \E e \in PermittedErrors(req[t]) : status' = [status EXCEPT ![t] = e]
  /\ phase' = [phase EXCEPT ![t] = "done"]
  /\ UNCHANGED <<req, granted, held>>

\* The answer reaches the client.
Deliver(t) ==
  /\ phase[t] = "done"
  /\ phase' = [phase EXCEPT ![t] = "idle"]
  /\ held' = held \cup ({granted[t][k] : k \in Slots} \ {NoHandle})
  /\ granted' = [granted EXCEPT ![t] = NoBuffers]
  /\ status' = [status EXCEPT ![t] = "OK"]
  /\ req' = [req EXCEPT ![t] = NoRequest]

\* A client drops a buffer.
Close(b) ==
  /\ b \in held
  /\ held' = held \ {b}
  /\ UNCHANGED <<phase, req, status, granted>>

Next ==
  \/ \E t \in Threads :
       \/ \E r \in Requests : Receive(t, r)
       \/ Grant(t)
       \/ Refuse(t)
       \/ Deliver(t)
  \/ \E b \in Buffers : Close(b)

Answering(t) == Grant(t) \/ Refuse(t) \/ Deliver(t)

Safety == Init /\ [][Next]_serviceVars

Spec == Safety /\ \A t \in Threads : WF_serviceVars(Answering(t))

=============================================================================
