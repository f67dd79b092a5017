----------------------------- MODULE HandleTable ----------------------------
(***************************************************************************)
(* What the mapper promises a client process of its handles: they form a   *)
(* table from addresses to buffers.  importBuffer adds a handle on the     *)
(* buffer it was called with, at an address that holds none; freeBuffer    *)
(* removes the handle; each does so at one instant or fails and changes    *)
(* nothing, and no other call of the mapper adds, removes or changes a     *)
(* handle.  Clones, the driver's registrations and the map of reserved     *)
(* regions are the business of module Mapper.                              *)
(***************************************************************************)

CONSTANTS Threads,   \* threads of the process
          Buffers,   \* buffers it imports
          Addrs,     \* addresses of its heap
          None       \* no buffer, no address

VARIABLES held,       \* address -> buffer of the client's handle there
          importing,  \* thread -> the buffer it imports
          freeing,    \* thread -> the handle it frees
          answer      \* thread -> the status of its last call

tableVars == <<held, importing, freeing, answer>>

Init ==
  /\ held = [a \in Addrs |-> None]
  /\ importing = [t \in Threads |-> None]
  /\ freeing = [t \in Threads |-> None]
  /\ answer = [t \in Threads |-> "NONE"]

Idle(t) == importing[t] = None /\ freeing[t] = None

Answer(t, status) == answer' = [answer EXCEPT ![t] = status]

ImportBuffer(t, b) ==
  /\ Idle(t)
  /\ importing' = [importing EXCEPT ![t] = b]
  /\ UNCHANGED <<held, freeing, answer>>

Imported(t) ==
  /\ importing[t] # None
  /\ \E a \in Addrs : held[a] = None /\ held' = [held EXCEPT ![a] = importing[t]]
  /\ importing' = [importing EXCEPT ![t] = None]
  /\ Answer(t, "NONE")
  /\ UNCHANGED freeing

ImportFails(t) ==
  /\ importing[t] # None
  /\ importing' = [importing EXCEPT ![t] = None]
  /\ Answer(t, "NO_RESOURCES")
  /\ UNCHANGED <<held, freeing>>

FreeBuffer(t, a) ==
  /\ Idle(t)
  /\ held[a] # None /\ \A u \in Threads : freeing[u] # a
  /\ freeing' = [freeing EXCEPT ![t] = a]
  /\ UNCHANGED <<held, importing, answer>>

Freed(t) ==
  /\ freeing[t] # None
  /\ held' = [held EXCEPT ![freeing[t]] = None]
  /\ freeing' = [freeing EXCEPT ![t] = None]
  /\ Answer(t, "NONE")
  /\ UNCHANGED importing

FreeFails(t) ==
  /\ freeing[t] # None
  /\ freeing' = [freeing EXCEPT ![t] = None]
  /\ Answer(t, "BAD_BUFFER")
  /\ UNCHANGED <<held, importing>>

\* A call refused at once, and every other call.
Other(t) ==
  /\ Idle(t)
  /\ \E status \in {"NONE", "BAD_BUFFER", "NO_RESOURCES"} : Answer(t, status)
  /\ UNCHANGED <<held, importing, freeing>>

Next ==
  \E t \in Threads :
    \/ \E b \in Buffers : ImportBuffer(t, b)
    \/ \E a \in Addrs : FreeBuffer(t, a)
    \/ Imported(t) \/ ImportFails(t) \/ Freed(t) \/ FreeFails(t) \/ Other(t)

Safety == Init /\ [][Next]_tableVars

=============================================================================
