--------------------------- MODULE AllocatorProofs --------------------------
(***************************************************************************)
(* Proofs about Allocator, for every number of binder threads, buffers and *)
(* calls, and with or without the faults.                                  *)
(***************************************************************************)
EXTENDS Allocator, TLAPS

\* What the assumptions say of a call that is being served.
LEMMA RequestFacts ==
  ASSUME NEW r \in Requests
  PROVE  /\ r.count \in 0 .. MaxCount
         /\ MaxCount \in Nat
         /\ NoHandle \notin Buffers
         /\ NoRequest \notin Requests
         /\ r # NoRequest
BY AllocatorAssumption

\* The slot a loop works on is one of the slots of the vectors.
LEMMA CurrentSlot ==
  ASSUME TypeOK, Counters, NEW t \in Threads
  PROVE  /\ pc[t] # "idle" => req[t].count \in 0 .. MaxCount
         /\ pc[t] \in {"alloc", "share"} /\ i[t] < req[t].count => i[t] \in Slots
         /\ pc[t] = "drop" => i[t] \in Slots
         /\ pc[t] = "undo" /\ j[t] < i[t] => j[t] \in Slots
         /\ MaxCount \in Nat
BY RequestFacts, AllocatorAssumption DEF TypeOK, Counters, Slots

LEMMA TypeInit == Init => TypeOK
BY AllocatorAssumption DEF Init, TypeOK, NoBuffers, Slots

\* The type invariant and the ranges of the loop counters, step by step.
LEMMA TypeStep ==
  ASSUME TypeOK, Counters, [Next]_vars
  PROVE  TypeOK' /\ Counters'
<1>0. NoBuffers \in [Slots -> Buffers \cup {NoHandle}]
  BY DEF NoBuffers
<1>1. ASSUME NEW t \in Threads, NEW r \in Requests, Receive(t, r)
      PROVE  TypeOK' /\ Counters'
  BY <1>1, RequestFacts DEF Receive, TypeOK, Counters
<1>2. ASSUME NEW t \in Threads, Refuse(t)
      PROVE  TypeOK' /\ Counters'
  BY <1>2, RequestFacts DEF Refuse, Refusal, TypeOK, Counters
<1>3. ASSUME NEW t \in Threads, Accept(t)
      PROVE  TypeOK' /\ Counters'
  BY <1>3, RequestFacts DEF Accept, TypeOK, Counters
<1>4. ASSUME NEW t \in Threads, Allocate(t)
      PROVE  TypeOK' /\ Counters'
  BY <1>4, RequestFacts, CurrentSlot DEF Allocate, TypeOK, Counters, Descriptors
<1>5. ASSUME NEW t \in Threads, AllocateFails(t)
      PROVE  TypeOK' /\ Counters'
  BY <1>5, RequestFacts, CurrentSlot DEF AllocateFails, TypeOK, Counters
<1>6. ASSUME NEW t \in Threads, Undo(t)
      PROVE  TypeOK' /\ Counters'
  BY <1>6, RequestFacts, CurrentSlot
     DEF Undo, releaseBufferAndHandle, TypeOK, Counters
<1>7. ASSUME NEW t \in Threads, UndoDone(t)
      PROVE  TypeOK' /\ Counters'
  BY <1>7, RequestFacts DEF UndoDone, CommonError, TypeOK, Counters
<1>8. ASSUME NEW t \in Threads, AllocateDone(t)
      PROVE  TypeOK' /\ Counters'
  BY <1>8, RequestFacts DEF AllocateDone, TypeOK, Counters
<1>9. ASSUME NEW t \in Threads, Share(t)
      PROVE  TypeOK' /\ Counters'
  BY <1>9, RequestFacts, CurrentSlot DEF Share, dupToAidl, TypeOK, Counters
<1>10. ASSUME NEW t \in Threads, Drop(t)
      PROVE  TypeOK' /\ Counters'
  <2>1. req[t] \in Requests /\ i[t] < req[t].count /\ i[t] \in Nat
    BY <1>10 DEF Drop, TypeOK, Counters
  <2>2. i[t] + 1 \in 0 .. MaxCount /\ i[t] + 1 <= req[t].count
    BY <2>1, RequestFacts
  <2>3. TypeOK'
    BY <1>10, <2>2 DEF Drop, releaseBufferAndHandle, TypeOK
  <2>4. Counters'
    BY <1>10, <2>1, <2>2 DEF Drop, TypeOK, Counters
  <2> QED
    BY <2>3, <2>4
<1>11. ASSUME NEW t \in Threads, ShareDone(t)
      PROVE  TypeOK' /\ Counters'
  BY <1>11, RequestFacts DEF ShareDone, TypeOK, Counters
<1>12. ASSUME NEW t \in Threads, Deliver(t)
      PROVE  TypeOK' /\ Counters'
  BY <1>12, <1>0, RequestFacts, AllocatorAssumption DEF Deliver, TypeOK, Counters
<1>13. ASSUME NEW b \in Buffers, Close(b)
      PROVE  TypeOK' /\ Counters'
  BY <1>13 DEF Close, TypeOK, Counters
<1>14. CASE UNCHANGED vars
  BY <1>14 DEF vars, TypeOK, Counters
<1> QED
  BY <1>1, <1>2, <1>3, <1>4, <1>5, <1>6, <1>7, <1>8, <1>9, <1>10, <1>11,
     <1>12, <1>13, <1>14 DEF Next, Serve

-----------------------------------------------------------------------------
(* Steps of one thread leave the others alone.                             *)

\* The locals of the other threads.
Apart(t) ==
  \A u \in Threads \ {t} :
    /\ pc'[u] = pc[u] /\ req'[u] = req[u] /\ i'[u] = i[u] /\ j'[u] = j[u]
    /\ handles'[u] = handles[u] /\ buffers'[u] = buffers[u]
    /\ status'[u] = status[u]

LEMMA StepsApart ==
  ASSUME TypeOK, NEW t \in Threads,
         Serve(t) \/ \E r \in Requests : Receive(t, r)
  PROVE  /\ Apart(t)
         /\ \A u \in Threads \ {t} : Owned(u)' = Owned(u) /\ Shared(u)' = Shared(u)
<1>1. Apart(t)
  BY DEF Apart, TypeOK, Serve, Receive, Refuse, Accept, Allocate, AllocateFails,
         Undo, UndoDone, AllocateDone, Share, Drop, ShareDone, Deliver
<1> QED
  BY <1>1 DEF Apart, Owned, Shared

\* What each step does to the slots its thread must still release, and to the
\* slots of its reply.
LEMMA OwnedSteps ==
  ASSUME TypeOK, Counters, NEW t \in Threads
  PROVE  /\ (\E r \in Requests : Receive(t, r)) \/ Refuse(t) \/ Accept(t)
              => Owned(t) = {} /\ Owned(t)' = {} /\ Shared(t) = {} /\ Shared(t)' = {}
         /\ Allocate(t) => /\ Owned(t)' = Owned(t) \cup {i[t]}
                           /\ i[t] \notin Owned(t) /\ i[t] \in Slots
                           /\ Shared(t) = {} /\ Shared(t)' = {}
         /\ AllocateFails(t) => /\ Owned(t)' = Owned(t)
                                /\ i[t] \notin Owned(t) /\ i[t] \in Slots
                                /\ Shared(t) = {} /\ Shared(t)' = {}
         /\ Undo(t) => /\ Owned(t)' = Owned(t) \ {j[t]} /\ j[t] \in Owned(t)
                       /\ Shared(t) = {} /\ Shared(t)' = {}
         /\ UndoDone(t) => /\ Owned(t) = {} /\ Owned(t)' = {}
                           /\ Shared(t) = {} /\ Shared(t)' = {}
         /\ AllocateDone(t) => /\ Owned(t)' = Owned(t)
                               /\ Shared(t) = {} /\ Shared(t)' = {}
         /\ Share(t) => /\ Owned(t)' = Owned(t) /\ i[t] \in Owned(t)
                        /\ Shared(t)' = Shared(t) \cup {i[t]}
                        /\ i[t] \notin Shared(t)
         /\ Drop(t) => /\ Owned(t)' = Owned(t) \ {i[t]} /\ i[t] \in Owned(t)
                       /\ Shared(t)' = Shared(t)
         /\ ShareDone(t) => /\ Owned(t) = {} /\ Owned(t)' = {}
                            /\ Shared(t)' = Shared(t)
         /\ Deliver(t) => Owned(t) = {} /\ Owned(t)' = {} /\ Shared(t)' = {}
<1> USE CurrentSlot, RequestFacts DEF TypeOK, Counters, Owned, Shared, Slots
<1>1. (\E r \in Requests : Receive(t, r)) \/ Refuse(t) \/ Accept(t)
        => Owned(t) = {} /\ Owned(t)' = {} /\ Shared(t) = {} /\ Shared(t)' = {}
  BY DEF Receive, Refuse, Refusal, Accept
<1>2. Allocate(t) => /\ Owned(t)' = Owned(t) \cup {i[t]}
                     /\ i[t] \notin Owned(t) /\ i[t] \in Slots
                     /\ Shared(t) = {} /\ Shared(t)' = {}
  BY DEF Allocate
<1>3. AllocateFails(t) => /\ Owned(t)' = Owned(t)
                          /\ i[t] \notin Owned(t) /\ i[t] \in Slots
                          /\ Shared(t) = {} /\ Shared(t)' = {}
  BY DEF AllocateFails
<1>4. Undo(t) => /\ Owned(t)' = Owned(t) \ {j[t]} /\ j[t] \in Owned(t)
                 /\ Shared(t) = {} /\ Shared(t)' = {}
  BY DEF Undo
<1>5. UndoDone(t) => /\ Owned(t) = {} /\ Owned(t)' = {}
                     /\ Shared(t) = {} /\ Shared(t)' = {}
  BY DEF UndoDone, CommonError
<1>6. AllocateDone(t) => /\ Owned(t)' = Owned(t)
                         /\ Shared(t) = {} /\ Shared(t)' = {}
  BY DEF AllocateDone
<1>7. Share(t) => /\ Owned(t)' = Owned(t) /\ i[t] \in Owned(t)
                  /\ Shared(t)' = Shared(t) \cup {i[t]}
                  /\ i[t] \notin Shared(t)
  BY DEF Share
<1>8. Drop(t) => /\ Owned(t)' = Owned(t) \ {i[t]} /\ i[t] \in Owned(t)
                 /\ Shared(t)' = Shared(t)
  BY DEF Drop
<1>9. ShareDone(t) => /\ Owned(t) = {} /\ Owned(t)' = {}
                      /\ Shared(t)' = Shared(t)
  BY DEF ShareDone
<1>10. Deliver(t) => Owned(t) = {} /\ Owned(t)' = {} /\ Shared(t)' = {}
  BY DEF Deliver
<1> QED
  BY <1>1, <1>2, <1>3, <1>4, <1>5, <1>6, <1>7, <1>8, <1>9, <1>10

\* A batch in work belongs to a call that passed the checks.
LEMMA AcceptedStep ==
  ASSUME TypeOK, Accepted, [Next]_vars
  PROVE  Accepted'
<1>1. ASSUME NEW t \in Threads, Serve(t) \/ \E r \in Requests : Receive(t, r)
      PROVE  Accepted'
  <2>1. Apart(t)
    BY <1>1, StepsApart
  <2>2. pc'[t] \in {"alloc", "undo", "share", "drop"}
          => Decodes(req'[t]) /\ Accepts(req'[t])
    BY <1>1 DEF Accepted, TypeOK, Serve, Receive, Refuse, Accept, Allocate,
         AllocateFails, Undo, UndoDone, AllocateDone, Share, Drop, ShareDone, Deliver
  <2>3. \A u \in Threads \ {t} : pc'[u] = pc[u] /\ req'[u] = req[u]
    BY <2>1 DEF Apart
  <2> QED
    BY <2>2, <2>3 DEF Accepted, Decodes, Accepts
<1>2. ASSUME NEW b \in Buffers, Close(b)
      PROVE  Accepted'
  BY <1>2 DEF Accepted, Close
<1>3. CASE UNCHANGED vars
  BY <1>3 DEF Accepted, vars
<1> QED
  BY <1>1, <1>2, <1>3 DEF Next

-----------------------------------------------------------------------------
(* Ownership of handles and of granted buffers.                            *)

Ownership == SharedSlots /\ HandlesOpen /\ OneOwner /\ OwnedPrivate /\ GrantedOnce

\* A step that hands out nothing, and closes only handles no longer owned,
\* keeps ownership.
LEMMA QuietStep ==
  ASSUME Ownership,
         \A t \in Threads : Owned(t)' \subseteq Owned(t) /\ Shared(t)' = Shared(t),
         \A t \in Threads : \A k \in Owned(t)' :
            handles'[t][k] = handles[t][k] /\ handles[t][k] \in open',
         buffers' = buffers, held' = held
  PROVE  Ownership'
<1>1. SharedSlots' /\ HandlesOpen' /\ GrantedOnce'
  BY DEF Ownership, SharedSlots, HandlesOpen, GrantedOnce
<1>2. OneOwner'
  BY DEF Ownership, OneOwner
<1>3. OwnedPrivate'
  BY DEF Ownership, OwnedPrivate
<1> QED
  BY <1>1, <1>2, <1>3 DEF Ownership

LEMMA OwnershipStep ==
  ASSUME TypeOK, Counters, Ownership, [Next]_vars
  PROVE  Ownership'
<1>a. ASSUME NEW t \in Threads, (\E r \in Requests : Receive(t, r)) \/ Refuse(t) \/ Accept(t)
      PROVE  Ownership'
  <2>1. \A u \in Threads : Owned(u)' \subseteq Owned(u) /\ Shared(u)' = Shared(u)
    BY <1>a, StepsApart, OwnedSteps DEF Serve
  <2>2. buffers' = buffers /\ held' = held /\ handles' = handles /\ open' = open
    BY <1>a DEF Receive, Refuse, Accept
  <2> QED
    BY <2>1, <2>2, QuietStep DEF Ownership, HandlesOpen
<1>b. ASSUME NEW t \in Threads,
             AllocateFails(t) \/ UndoDone(t) \/ AllocateDone(t) \/ ShareDone(t)
      PROVE  Ownership'
  <2>1. \A u \in Threads : Owned(u)' \subseteq Owned(u) /\ Shared(u)' = Shared(u)
    BY <1>b, StepsApart, OwnedSteps DEF Serve
  <2>2. buffers' = buffers /\ held' = held /\ open' = open
    BY <1>b DEF AllocateFails, UndoDone, AllocateDone, ShareDone
  <2>3. \A u \in Threads : \A k \in Owned(u)' : handles'[u][k] = handles[u][k]
    <3>1. CASE AllocateFails(t)
      <4>1. i[t] \notin Owned(t) /\ i[t] \in Slots
        BY <3>1, OwnedSteps
      <4>2. handles' = [handles EXCEPT ![t][i[t]] = NoHandle]
        BY <3>1 DEF AllocateFails
      <4> QED
        BY <4>1, <4>2, <2>1 DEF TypeOK
    <3>2. CASE UndoDone(t) \/ AllocateDone(t) \/ ShareDone(t)
      BY <3>2 DEF UndoDone, AllocateDone, ShareDone
    <3> QED
      BY <1>b, <3>1, <3>2
  <2> QED
    BY <2>1, <2>2, <2>3, QuietStep DEF Ownership, HandlesOpen
<1>c. ASSUME NEW t \in Threads, Undo(t)
      PROVE  Ownership'
  <2>1. \A u \in Threads : Owned(u)' \subseteq Owned(u) /\ Shared(u)' = Shared(u)
    BY <1>c, StepsApart, OwnedSteps DEF Serve
  <2>2. buffers' = buffers /\ held' = held /\ handles' = handles
        /\ open \ {handles[t][j[t]]} \subseteq open'
    BY <1>c DEF Undo, releaseBufferAndHandle
  <2>3. \A u \in Threads : \A k \in Owned(u)' : handles[u][k] \in open'
    <3> SUFFICES ASSUME NEW u \in Threads, NEW k \in Owned(u)'
                 PROVE  handles[u][k] \in open'
      OBVIOUS
    <3>1. k \in Owned(u) /\ ~(u = t /\ k = j[t]) /\ j[t] \in Owned(t)
      BY <1>c, <2>1, OwnedSteps
    <3> QED
      BY <3>1, <2>2 DEF Ownership, HandlesOpen, OneOwner
  <2> QED
    BY <2>1, <2>2, <2>3, QuietStep
<1>d. ASSUME NEW t \in Threads, Drop(t)
      PROVE  Ownership'
  <2>1. \A u \in Threads : Owned(u)' \subseteq Owned(u) /\ Shared(u)' = Shared(u)
    BY <1>d, StepsApart, OwnedSteps DEF Serve
  <2>2. buffers' = buffers /\ held' = held /\ handles' = handles
        /\ open \ {handles[t][i[t]]} \subseteq open'
    BY <1>d DEF Drop, releaseBufferAndHandle
  <2>3. \A u \in Threads : \A k \in Owned(u)' : handles[u][k] \in open'
    <3> SUFFICES ASSUME NEW u \in Threads, NEW k \in Owned(u)'
                 PROVE  handles[u][k] \in open'
      OBVIOUS
    <3>1. k \in Owned(u) /\ ~(u = t /\ k = i[t]) /\ i[t] \in Owned(t)
      BY <1>d, <2>1, OwnedSteps
    <3> QED
      BY <3>1, <2>2 DEF Ownership, HandlesOpen, OneOwner
  <2> QED
    BY <2>1, <2>2, <2>3, QuietStep
<1>e. ASSUME NEW t \in Threads, Allocate(t)
      PROVE  Ownership'
  <2>1. PICK b \in Buffers \ Live :
          /\ handles' = [handles EXCEPT ![t][i[t]] = b]
          /\ open' = open \cup {b}
    BY <1>e DEF Allocate
  <2>2. buffers' = buffers /\ held' = held
    BY <1>e DEF Allocate
  <2>3. /\ \A u \in Threads : Shared(u)' = Shared(u)
        /\ \A u \in Threads \ {t} : Owned(u)' = Owned(u) /\ handles'[u] = handles[u]
        /\ Owned(t)' = Owned(t) \cup {i[t]}
        /\ i[t] \notin Owned(t)
        /\ handles'[t][i[t]] = b
        /\ \A k \in Owned(t) : handles'[t][k] = handles[t][k]
    <3>1. /\ \A u \in Threads : Shared(u)' = Shared(u)
          /\ \A u \in Threads \ {t} : Owned(u)' = Owned(u)
          /\ Apart(t)
          /\ Owned(t)' = Owned(t) \cup {i[t]}
          /\ i[t] \notin Owned(t) /\ i[t] \in Slots
      BY <1>e, StepsApart, OwnedSteps DEF Serve
    <3>2. Owned(t) \subseteq Slots
      BY DEF Owned
    <3>3. /\ handles'[t][i[t]] = b
          /\ \A k \in Owned(t) : handles'[t][k] = handles[t][k]
      BY <2>1, <3>1, <3>2 DEF TypeOK
    <3> QED
      BY <3>1, <3>3 DEF Apart
  <2>4. b \notin open /\ b \notin held
        /\ \A u \in Threads, k \in Slots : buffers[u][k] # b
    BY <2>1 DEF Live
  <2>5. HandlesOpen'
    BY <2>1, <2>3 DEF Ownership, HandlesOpen
  <2>6. OneOwner'
    BY <2>3, <2>4 DEF Ownership, HandlesOpen, OneOwner
  <2>7. OwnedPrivate'
    BY <2>2, <2>3, <2>4 DEF Ownership, OwnedPrivate
  <2>8. SharedSlots' /\ GrantedOnce'
    BY <2>2, <2>3 DEF Ownership, SharedSlots, GrantedOnce
  <2> QED
    BY <2>5, <2>6, <2>7, <2>8 DEF Ownership
<1>f. ASSUME NEW t \in Threads, Share(t)
      PROVE  Ownership'
  <2>1. PICK b \in {handles[t][i[t]], NoHandle} :
          /\ buffers' = [buffers EXCEPT ![t][i[t]] = b]
          /\ "dup" \notin Faults => b = handles[t][i[t]]
    BY <1>f DEF Share, dupToAidl
  <2>2. open' = open /\ held' = held /\ handles' = handles
    BY <1>f DEF Share
  <2>3. /\ \A u \in Threads : Owned(u)' = Owned(u)
        /\ \A u \in Threads \ {t} : Shared(u)' = Shared(u) /\ buffers'[u] = buffers[u]
        /\ Shared(t)' = Shared(t) \cup {i[t]}
        /\ i[t] \notin Shared(t) /\ i[t] \in Owned(t) /\ i[t] \in Slots
        /\ buffers'[t][i[t]] = b
        /\ \A k \in Slots \ {i[t]} : buffers'[t][k] = buffers[t][k]
    <3>1. /\ \A u \in Threads \ {t} : Owned(u)' = Owned(u) /\ Shared(u)' = Shared(u)
          /\ Apart(t)
          /\ Owned(t)' = Owned(t) /\ i[t] \in Owned(t)
          /\ Shared(t)' = Shared(t) \cup {i[t]} /\ i[t] \notin Shared(t)
      BY <1>f, StepsApart, OwnedSteps DEF Serve
    <3>2. i[t] \in Slots
      BY <3>1 DEF Owned
    <3>3. /\ buffers'[t][i[t]] = b
          /\ \A k \in Slots \ {i[t]} : buffers'[t][k] = buffers[t][k]
      BY <2>1, <3>2 DEF TypeOK
    <3> QED
      BY <3>1, <3>2, <3>3 DEF Apart
  <2>4. /\ handles[t][i[t]] \in open /\ handles[t][i[t]] \notin held
        /\ handles[t][i[t]] # NoHandle
        /\ \A u \in Threads, k \in Slots : buffers[u][k] # handles[t][i[t]]
    <3>1. handles[t][i[t]] \in open /\ handles[t][i[t]] \notin held
      BY <2>3 DEF Ownership, HandlesOpen, OwnedPrivate
    <3>2. handles[t][i[t]] # NoHandle
      BY <3>1, AllocatorAssumption DEF TypeOK
    <3>3. buffers[t][i[t]] = NoHandle
      BY <2>3 DEF Ownership, SharedSlots
    <3>4. \A u \in Threads, k \in Slots : buffers[u][k] # handles[t][i[t]]
      BY <2>3, <3>2, <3>3 DEF Ownership, OwnedPrivate
    <3> QED
      BY <3>1, <3>2, <3>4
  <2>5. HandlesOpen' /\ OneOwner'
    BY <2>2, <2>3 DEF Ownership, HandlesOpen, OneOwner
  <2>6. OwnedPrivate'
    <3> SUFFICES ASSUME NEW u \in Threads, NEW k \in Owned(u)
                 PROVE  /\ handles[u][k] \notin held
                        /\ \A v \in Threads, l \in Slots :
                             buffers'[v][l] = handles[u][k] => v = u /\ l = k
      BY <2>2, <2>3 DEF OwnedPrivate
    <3>1. handles[u][k] # NoHandle
      BY AllocatorAssumption DEF Ownership, HandlesOpen, TypeOK
    <3>2. handles[u][k] \notin held
      BY DEF Ownership, OwnedPrivate
    <3>3. ASSUME NEW v \in Threads, NEW l \in Slots, buffers'[v][l] = handles[u][k]
          PROVE  v = u /\ l = k
      <4>1. CASE v = t /\ l = i[t]
        BY <4>1, <2>1, <2>3, <3>1, <3>3 DEF Ownership, OneOwner
      <4>2. CASE ~(v = t /\ l = i[t])
        BY <4>2, <2>3, <3>3 DEF Ownership, OwnedPrivate
      <4> QED
        BY <4>1, <4>2
    <3> QED
      BY <3>2, <3>3
  <2>7. SharedSlots'
    BY <2>1, <2>3, <2>4 DEF Ownership, SharedSlots
  <2>8. GrantedOnce'
    BY <2>1, <2>2, <2>3, <2>4 DEF Ownership, GrantedOnce
  <2> QED
    BY <2>5, <2>6, <2>7, <2>8 DEF Ownership
<1>g. ASSUME NEW t \in Threads, Deliver(t)
      PROVE  Ownership'
  <2>1. /\ open' = open
        /\ held' = held \cup ({buffers[t][k] : k \in Slots} \ {NoHandle})
    BY <1>g DEF Deliver
  <2>2. /\ \A u \in Threads \ {t} : /\ Owned(u)' = Owned(u) /\ Shared(u)' = Shared(u)
                                    /\ handles'[u] = handles[u]
                                    /\ buffers'[u] = buffers[u]
        /\ Owned(t)' = {} /\ Shared(t)' = {}
        /\ \A k \in Slots : buffers'[t][k] = NoHandle
    BY <1>g, StepsApart, OwnedSteps DEF Serve, Apart, Deliver, TypeOK, NoBuffers
  <2>3. HandlesOpen' /\ OneOwner'
    BY <2>1, <2>2 DEF Ownership, HandlesOpen, OneOwner
  <2>4. OwnedPrivate'
    <3> SUFFICES ASSUME NEW u \in Threads \ {t}, NEW k \in Owned(u)
                 PROVE  /\ handles[u][k] \notin held'
                        /\ \A v \in Threads, l \in Slots :
                             buffers'[v][l] = handles[u][k] => v = u /\ l = k
      BY <2>2 DEF OwnedPrivate
    <3>1. handles[u][k] # NoHandle
      BY AllocatorAssumption DEF Ownership, HandlesOpen, TypeOK
    <3> QED
      BY <2>1, <2>2, <3>1 DEF Ownership, OwnedPrivate
  <2>5. SharedSlots' /\ GrantedOnce'
    BY <2>1, <2>2 DEF Ownership, SharedSlots, GrantedOnce
  <2> QED
    BY <2>3, <2>4, <2>5 DEF Ownership
<1>h. ASSUME NEW b \in Buffers, Close(b)
      PROVE  Ownership'
  <2>1. /\ open' = open /\ held' \subseteq held /\ handles' = handles
        /\ buffers' = buffers
        /\ \A u \in Threads : Owned(u)' = Owned(u) /\ Shared(u)' = Shared(u)
    BY <1>h DEF Close, Owned, Shared
  <2> QED
    BY <2>1 DEF Ownership, SharedSlots, HandlesOpen, OneOwner, OwnedPrivate, GrantedOnce
<1>i. CASE UNCHANGED vars
  BY <1>i DEF vars, Ownership, SharedSlots, HandlesOpen, OneOwner, OwnedPrivate,
              GrantedOnce, Owned, Shared
<1> QED
  BY <1>a, <1>b, <1>c, <1>d, <1>e, <1>f, <1>g, <1>h, <1>i DEF Next, Serve

\* No handle is left behind: whatever is open is owned by a call under way.
LEMMA NoLeakStep ==
  ASSUME TypeOK, Counters, Ownership, NoLeak, [Next]_vars
  PROVE  NoLeak'
<1> SUFFICES ASSUME "free" \notin Faults, NEW b \in open'
             PROVE  \E u \in Threads : \E k \in Owned(u)' : handles'[u][k] = b
  BY DEF NoLeak
<1>1. b \in open => \E u \in Threads : \E k \in Owned(u) : handles[u][k] = b
  BY DEF NoLeak
<1>2. ASSUME NEW t \in Threads,
             \/ \E r \in Requests : Receive(t, r)
             \/ Refuse(t) \/ Accept(t) \/ UndoDone(t) \/ AllocateDone(t) \/ ShareDone(t)
             \/ Share(t) \/ Deliver(t)
      PROVE  \E u \in Threads : \E k \in Owned(u)' : handles'[u][k] = b
  <2>1. open' = open /\ \A u \in Threads : Owned(u) \subseteq Owned(u)'
    BY <1>2, StepsApart, OwnedSteps
       DEF Serve, Receive, Refuse, Accept, UndoDone, AllocateDone, Share,
           ShareDone, Deliver
  <2>2. \A u \in Threads : \A k \in Owned(u) : handles'[u][k] = handles[u][k]
    <3>1. CASE Deliver(t)
      BY <3>1, StepsApart, OwnedSteps DEF Serve, Apart
    <3>2. CASE ~Deliver(t)
      BY <1>2, <3>2 DEF Receive, Refuse, Accept, UndoDone, AllocateDone, Share, ShareDone
    <3> QED
      BY <3>1, <3>2
  <2> QED
    BY <1>1, <2>1, <2>2
<1>3. ASSUME NEW t \in Threads, Allocate(t) \/ AllocateFails(t)
      PROVE  \E u \in Threads : \E k \in Owned(u)' : handles'[u][k] = b
  <2>1. PICK c : handles' = [handles EXCEPT ![t][i[t]] = c]
                 /\ (open' = open \/ (Allocate(t) /\ open' = open \cup {c}))
    BY <1>3 DEF Allocate, AllocateFails
  <2>2. /\ \A u \in Threads : Owned(u) \subseteq Owned(u)'
        /\ Allocate(t) => i[t] \in Owned(t)'
        /\ i[t] \notin Owned(t) /\ i[t] \in Slots
    BY <1>3, StepsApart, OwnedSteps DEF Serve
  <2>3. /\ handles'[t][i[t]] = c
        /\ \A u \in Threads : \A k \in Owned(u) : handles'[u][k] = handles[u][k]
    BY <2>1, <2>2 DEF TypeOK
  <2> QED
    BY <1>1, <2>1, <2>2, <2>3
<1>4. ASSUME NEW t \in Threads, Undo(t)
      PROVE  \E u \in Threads : \E k \in Owned(u)' : handles'[u][k] = b
  <2>1. open' = open \ {handles[t][j[t]]} /\ handles' = handles
    BY <1>4 DEF Undo, releaseBufferAndHandle
  <2>2. /\ \A u \in Threads \ {t} : Owned(u)' = Owned(u)
        /\ Owned(t)' = Owned(t) \ {j[t]}
    BY <1>4, StepsApart, OwnedSteps DEF Serve
  <2> QED
    BY <1>1, <2>1, <2>2
<1>5. ASSUME NEW t \in Threads, Drop(t)
      PROVE  \E u \in Threads : \E k \in Owned(u)' : handles'[u][k] = b
  <2>1. open' = open \ {handles[t][i[t]]} /\ handles' = handles
    BY <1>5 DEF Drop, releaseBufferAndHandle
  <2>2. /\ \A u \in Threads \ {t} : Owned(u)' = Owned(u)
        /\ Owned(t)' = Owned(t) \ {i[t]}
    BY <1>5, StepsApart, OwnedSteps DEF Serve
  <2> QED
    BY <1>1, <2>1, <2>2
<1>6. ASSUME NEW c \in Buffers, Close(c)
      PROVE  \E u \in Threads : \E k \in Owned(u)' : handles'[u][k] = b
  BY <1>1, <1>6 DEF Close, Owned
<1>7. CASE UNCHANGED vars
  BY <1>1, <1>7 DEF vars, Owned
<1> QED
  BY <1>2, <1>3, <1>4, <1>5, <1>6, <1>7 DEF Next, Serve

\* Memory keeps the descriptor it was allocated for while it is on its way to
\* the caller.
AsAsked == OwnedAsAsked /\ GrantedAsAsked

LEMMA AsAskedStep ==
  ASSUME TypeOK, Counters, Ownership, AsAsked, [Next]_vars
  PROVE  AsAsked'
<1>1. ASSUME NEW t \in Threads,
             (\E r \in Requests : Receive(t, r)) \/ Refuse(t) \/ Accept(t)
      PROVE  AsAsked'
  <2>1. /\ \A u \in Threads \ {t} : req'[u] = req[u] /\ Owned(u)' = Owned(u)
        /\ Owned(t)' = {} /\ Shared(t) = {}
    BY <1>1, StepsApart, OwnedSteps DEF Serve, Apart
  <2>2. handles' = handles /\ buffers' = buffers /\ attr' = attr
    BY <1>1 DEF Receive, Refuse, Accept
  <2>3. \A k \in Slots : buffers[t][k] = NoHandle
    BY <2>1 DEF Ownership, SharedSlots
  <2> QED
    BY <2>1, <2>2, <2>3 DEF AsAsked, OwnedAsAsked, GrantedAsAsked
<1>2. ASSUME NEW t \in Threads,
             \/ AllocateFails(t) \/ Undo(t) \/ UndoDone(t) \/ AllocateDone(t)
             \/ Drop(t) \/ ShareDone(t)
      PROVE  AsAsked'
  <2>1. req' = req /\ buffers' = buffers /\ attr' = attr
    BY <1>2 DEF AllocateFails, Undo, UndoDone, AllocateDone, Drop, ShareDone
  <2>2. \A u \in Threads : Owned(u)' \subseteq Owned(u)
    BY <1>2, StepsApart, OwnedSteps DEF Serve
  <2>3. \A u \in Threads : \A k \in Owned(u)' : handles'[u][k] = handles[u][k]
    <3>1. CASE AllocateFails(t)
      <4>1. i[t] \notin Owned(t) /\ i[t] \in Slots
        BY <3>1, OwnedSteps
      <4>2. handles' = [handles EXCEPT ![t][i[t]] = NoHandle]
        BY <3>1 DEF AllocateFails
      <4> QED
        BY <4>1, <4>2, <2>2 DEF TypeOK
    <3>2. CASE ~AllocateFails(t)
      BY <1>2, <3>2 DEF Undo, UndoDone, AllocateDone, Drop, ShareDone
    <3> QED
      BY <3>1, <3>2
  <2> QED
    BY <2>1, <2>2, <2>3 DEF AsAsked, OwnedAsAsked, GrantedAsAsked
<1>3. ASSUME NEW t \in Threads, Allocate(t)
      PROVE  AsAsked'
  <2>1. PICK b \in Buffers \ Live :
          /\ handles' = [handles EXCEPT ![t][i[t]] = b]
          /\ attr' = [attr EXCEPT ![b] = toInternalDescriptor(req[t].desc)]
    BY <1>3 DEF Allocate
  <2>2. req' = req /\ buffers' = buffers
    BY <1>3 DEF Allocate
  <2>3. /\ \A u \in Threads \ {t} : Owned(u)' = Owned(u)
        /\ Owned(t)' = Owned(t) \cup {i[t]}
        /\ i[t] \notin Owned(t) /\ i[t] \in Slots
    BY <1>3, StepsApart, OwnedSteps DEF Serve
  <2>4. /\ attr'[b] = toInternalDescriptor(req[t].desc)
        /\ \A c : c \in open \/ (c \in Buffers /\ \E u \in Threads, k \in Slots : c = buffers[u][k])
               => attr'[c] = attr[c]
    BY <2>1 DEF Live, TypeOK
  <2>5. /\ handles'[t][i[t]] = b
        /\ \A u \in Threads : \A k \in Owned(u) : handles'[u][k] = handles[u][k]
    BY <2>1, <2>3 DEF TypeOK
  <2>6. OwnedAsAsked'
    BY <2>2, <2>3, <2>4, <2>5 DEF AsAsked, OwnedAsAsked, Ownership, HandlesOpen
  <2>7. GrantedAsAsked'
    BY <2>2, <2>4 DEF AsAsked, GrantedAsAsked, TypeOK
  <2> QED
    BY <2>6, <2>7 DEF AsAsked
<1>4. ASSUME NEW t \in Threads, Share(t)
      PROVE  AsAsked'
  <2>1. PICK b \in {handles[t][i[t]], NoHandle} :
          buffers' = [buffers EXCEPT ![t][i[t]] = b]
    BY <1>4 DEF Share, dupToAidl
  <2>2. req' = req /\ handles' = handles /\ attr' = attr
    BY <1>4 DEF Share
  <2>3. /\ \A u \in Threads : Owned(u)' = Owned(u)
        /\ i[t] \in Owned(t)
    BY <1>4, StepsApart, OwnedSteps DEF Serve
  <2>4. i[t] \in Slots
    BY <2>3 DEF Owned
  <2>5. \A u \in Threads, k \in Slots :
          buffers'[u][k] = IF u = t /\ k = i[t] THEN b ELSE buffers[u][k]
    BY <2>1, <2>4 DEF TypeOK
  <2> QED
    BY <2>1, <2>2, <2>3, <2>5 DEF AsAsked, OwnedAsAsked, GrantedAsAsked
<1>5. ASSUME NEW t \in Threads, Deliver(t)
      PROVE  AsAsked'
  <2>1. /\ \A u \in Threads \ {t} : /\ req'[u] = req[u] /\ Owned(u)' = Owned(u)
                                    /\ handles'[u] = handles[u]
                                    /\ buffers'[u] = buffers[u]
        /\ Owned(t)' = {}
        /\ \A k \in Slots : buffers'[t][k] = NoHandle
        /\ attr' = attr
    BY <1>5, StepsApart, OwnedSteps DEF Serve, Apart, Deliver, TypeOK, NoBuffers
  <2> QED
    BY <2>1 DEF AsAsked, OwnedAsAsked, GrantedAsAsked
<1>6. ASSUME NEW b \in Buffers, Close(b)
      PROVE  AsAsked'
  BY <1>6 DEF Close, Owned, AsAsked, OwnedAsAsked, GrantedAsAsked
<1>7. CASE UNCHANGED vars
  BY <1>7 DEF vars, Owned, AsAsked, OwnedAsAsked, GrantedAsAsked
<1> QED
  BY <1>1, <1>2, <1>3, <1>4, <1>5, <1>6, <1>7 DEF Next, Serve

-----------------------------------------------------------------------------
(* The theorems.                                                           *)

LEMMA IInvInit == Init => IInv
<1> SUFFICES ASSUME Init
             PROVE  IInv
  OBVIOUS
<1>1. \A t \in Threads : Owned(t) = {} /\ Shared(t) = {}
  BY DEF Init, Owned, Shared
<1>2. \A t \in Threads, k \in Slots : buffers[t][k] = NoHandle
  BY DEF Init, NoBuffers
<1> QED
  BY <1>1, <1>2, TypeInit
     DEF Init, IInv, Counters, Accepted, SharedSlots, HandlesOpen, OneOwner, OwnedPrivate,
         GrantedOnce, NoLeak, OwnedAsAsked, GrantedAsAsked

LEMMA IInvStep == IInv /\ [Next]_vars => IInv'
BY TypeStep, AcceptedStep, OwnershipStep, NoLeakStep, AsAskedStep DEF IInv, Ownership, AsAsked

\* The inductive invariant holds of every reachable state.
THEOREM Invariance == Spec => []IInv
BY IInvInit, IInvStep, PTL DEF Spec

\* Every variable of the service stays within its type, whatever the number of
\* threads, buffers and calls.
THEOREM TypeCorrect == Spec => []TypeOK
<1>1. IInv => TypeOK
  BY DEF IInv
<1> QED
  BY <1>1, Invariance, PTL

\* allocate_common never duplicates or frees a handle it has released.
THEOREM NoUseAfterRelease == Spec => []HandlesOpen
<1>1. IInv => HandlesOpen
  BY DEF IInv
<1> QED
  BY <1>1, Invariance, PTL

\* No two slots, of one call or of two, are ever to release the same handle.
THEOREM ReleasedOnce == Spec => []OneOwner
<1>1. IInv => OneOwner
  BY DEF IInv
<1> QED
  BY <1>1, Invariance, PTL

\* No buffer is ever granted twice.
THEOREM ExclusiveGrant == Spec => []NoDoubleGrant
<1>1. IInv => NoDoubleGrant
  BY DEF IInv, NoDoubleGrant, GrantedOnce, OwnedPrivate
<1> QED
  BY <1>1, Invariance, PTL

\* As long as free() works the service keeps no handle but those its calls
\* under way still have to release: failed batches are given back whole.
THEOREM NothingLeaks == Spec => []NoLeak
<1>1. IInv => NoLeak
  BY DEF IInv
<1> QED
  BY <1>1, Invariance, PTL

\* An answer carries the whole batch or nothing.
THEOREM AnswersWhole == Spec => []AllOrNothing
<1>1. IInv => AllOrNothing
  BY DEF IInv, SharedSlots, Shared, AllOrNothing
<1> QED
  BY <1>1, Invariance, PTL

\* The buffers of an answer were allocated for the descriptor of the call.
THEOREM AnswersMatch == Spec => []GrantedAsAsked
<1>1. IInv => GrantedAsAsked
  BY DEF IInv
<1> QED
  BY <1>1, Invariance, PTL

-----------------------------------------------------------------------------
(* What a step may do.                                                     *)

\* The steps a call has still to take, at most: its allocations, then the longer
\* of what the two other loops need, then the answer.
Remaining(t) ==
  CASE pc[t] = "idle"   -> 0
    [] pc[t] = "reply"  -> 1
    [] pc[t] = "undo"   -> 2 + (i[t] - j[t])
    [] pc[t] = "share"  -> 2 + 2 * (req[t].count - i[t])
    [] pc[t] = "drop"   -> 1 + 2 * (req[t].count - i[t])
    [] pc[t] = "alloc"  -> 3 + 2 * req[t].count + (req[t].count - i[t])
    [] pc[t] = "called" -> 4 + 3 * req[t].count

\* Each step of its thread brings a call nearer to its end, by one of at most
\* 4 + 3 * count steps, and no step of others takes it back: neither the loops
\* of allocate_common nor the threads between them can go round for ever.
CallsEnd ==
  /\ \A t \in Threads : Serve(t) => Remaining(t)' < Remaining(t)
  /\ \A t \in Threads : pc[t] # "idle" => Remaining(t)' <= Remaining(t)

LEMMA RemainingFacts ==
  ASSUME TypeOK, Counters, NEW t \in Threads
  PROVE  /\ Remaining(t) \in Nat
         /\ pc[t] # "idle" => Remaining(t) \in 1 .. (4 + 3 * req[t].count)
<1>1. pc[t] # "idle" => req[t].count \in Nat /\ i[t] \in Nat /\ j[t] \in Nat
  BY RequestFacts DEF TypeOK, Counters
<1>2. /\ pc[t] = "idle" => Remaining(t) = 0
      /\ pc[t] = "reply" => Remaining(t) = 1
      /\ pc[t] = "undo" => Remaining(t) = 2 + (i[t] - j[t])
      /\ pc[t] = "share" => Remaining(t) = 2 + 2 * (req[t].count - i[t])
      /\ pc[t] = "drop" => Remaining(t) = 1 + 2 * (req[t].count - i[t])
      /\ pc[t] = "alloc"
           => Remaining(t) = 3 + 2 * req[t].count + (req[t].count - i[t])
      /\ pc[t] = "called" => Remaining(t) = 4 + 3 * req[t].count
  BY Zenon DEF Remaining
<1>3. CASE pc[t] \in {"idle", "reply", "called"}
  BY <1>1, <1>2, <1>3
<1>4. CASE pc[t] \in {"undo", "drop"}
  BY <1>1, <1>2, <1>4 DEF Counters
<1>5. CASE pc[t] \in {"share", "alloc"}
  BY <1>1, <1>2, <1>5 DEF Counters
<1> QED
  BY <1>3, <1>4, <1>5 DEF TypeOK

LEMMA ServeAdvances ==
  ASSUME TypeOK, Counters, NEW t \in Threads, Serve(t)
  PROVE  Remaining(t)' \in Nat /\ Remaining(t)' < Remaining(t)
<1>1. /\ pc[t] # "idle" => req[t].count \in Nat
      /\ i[t] \in Nat /\ j[t] \in Nat
  BY RequestFacts DEF TypeOK, Counters
<1>2. CASE Refuse(t) \/ Accept(t)
  BY <1>1, <1>2 DEF TypeOK, Counters, Remaining, Refuse, Accept
<1>3. CASE Allocate(t) \/ AllocateFails(t) \/ AllocateDone(t)
  BY <1>1, <1>3 DEF TypeOK, Counters, Remaining, Allocate, AllocateFails, AllocateDone
<1>4. CASE Undo(t) \/ UndoDone(t)
  BY <1>1, <1>4 DEF TypeOK, Counters, Remaining, Undo, UndoDone
<1>5. CASE Share(t) \/ ShareDone(t)
  BY <1>1, <1>5 DEF TypeOK, Counters, Remaining, Share, ShareDone
<1>6. CASE Drop(t)
  BY <1>1, <1>6 DEF TypeOK, Counters, Remaining, Drop
<1>7. CASE Deliver(t)
  <2>1. pc[t] = "reply" /\ pc'[t] = "idle"
    BY <1>7 DEF Deliver, TypeOK
  <2>2. Remaining(t) = 1 /\ Remaining(t)' = 0
    BY <2>1, Zenon DEF Remaining
  <2> QED
    BY <2>2
<1> QED
  BY <1>2, <1>3, <1>4, <1>5, <1>6, <1>7 DEF Serve

THEOREM CallsBounded ==
  Spec => /\ [][CallsEnd]_vars
          /\ [](\A t \in Threads : pc[t] # "idle" =>
                  Remaining(t) \in 1 .. (4 + 3 * req[t].count))
<1>1. IInv /\ [Next]_vars => [CallsEnd]_vars
  <2> SUFFICES ASSUME IInv, Next PROVE CallsEnd
    OBVIOUS
  <2>1. ASSUME NEW t \in Threads, Serve(t) PROVE Remaining(t)' < Remaining(t)
    BY <2>1, ServeAdvances DEF IInv
  <2>2. ASSUME NEW t \in Threads, pc[t] # "idle" PROVE Remaining(t)' <= Remaining(t)
    <3>1. CASE Serve(t)
      <4>1. Remaining(t) \in Nat /\ Remaining(t)' \in Nat
        BY <3>1, ServeAdvances, RemainingFacts DEF IInv
      <4> QED
        BY <3>1, <2>1, <4>1
    <3>2. CASE ~Serve(t)
      <4>1. Remaining(t) \in Nat
        BY RemainingFacts DEF IInv
      <4>2. /\ pc'[t] = pc[t] /\ req'[t] = req[t] /\ i'[t] = i[t] /\ j'[t] = j[t]
        <5>1. CASE \E u \in Threads : Serve(u) \/ \E r \in Requests : Receive(u, r)
          <6>1. PICK u \in Threads : Serve(u) \/ \E r \in Requests : Receive(u, r)
            BY <5>1
          <6>2. u # t
            BY <2>2, <3>2, <6>1 DEF Receive
          <6> QED
            BY <6>1, <6>2, StepsApart DEF Apart, IInv
        <5>2. CASE \E b \in Buffers : Close(b)
          BY <5>2 DEF Close
        <5> QED
          BY <5>1, <5>2 DEF Next
      <4>3. Remaining(t)' = Remaining(t)
        BY <4>2 DEF Remaining
      <4> QED
        BY <4>1, <4>3
    <3> QED
      BY <3>1, <3>2
  <2> QED
    BY <2>1, <2>2 DEF CallsEnd
<1>2. IInv => \A t \in Threads : pc[t] # "idle" =>
                 Remaining(t) \in 1 .. (4 + 3 * req[t].count)
  BY RemainingFacts DEF IInv
<1> QED
  BY <1>1, <1>2, Invariance, PTL DEF Spec

-----------------------------------------------------------------------------
(* The service implements AllocService.                                    *)

LEMMA PhaseValues ==
  ASSUME NEW t \in Threads
  PROVE  /\ pc[t] = "idle" => Phase(t) = "idle"
         /\ pc[t] = "reply" => Phase(t) = "done"
         /\ pc[t] # "idle" /\ pc[t] # "reply" => Phase(t) = "pending"
         /\ pc'[t] = "idle" => Phase(t)' = "idle"
         /\ pc'[t] = "reply" => Phase(t)' = "done"
         /\ pc'[t] # "idle" /\ pc'[t] # "reply" => Phase(t)' = "pending"
BY DEF Phase

\* A step that neither starts nor ends a call, nor touches the clients' buffers.
LEMMA InnerStep ==
  ASSUME TypeOK, NEW t \in Threads, Apart(t),
         pc[t] # "idle", pc[t] # "reply", pc'[t] # "idle", pc'[t] # "reply",
         DOMAIN pc' = Threads, req' = req, status' = status, held' = held
  PROVE  UNCHANGED Service!serviceVars
<1>1. \A u \in Threads : Phase(u)' = Phase(u) /\ Granted(u)' = Granted(u)
  BY PhaseValues DEF Apart, Phase, Granted
<1>2. [u \in Threads |-> Phase(u)]' = [u \in Threads |-> Phase(u)]
  BY <1>1
<1>3. [u \in Threads |-> Granted(u)]' = [u \in Threads |-> Granted(u)]
  BY <1>1
<1> QED
  BY <1>2, <1>3 DEF Service!serviceVars

\* How one thread's step shows in the abstract state.
LEMMA MappedStep ==
  ASSUME NEW t \in Threads, Apart(t)
  PROVE  /\ [u \in Threads |-> Phase(u)]' =
              [[u \in Threads |-> Phase(u)] EXCEPT ![t] = Phase(t)']
         /\ [u \in Threads |-> Granted(u)]' =
              [[u \in Threads |-> Granted(u)] EXCEPT ![t] = Granted(t)']
<1>1. \A u \in Threads \ {t} : Phase(u)' = Phase(u) /\ Granted(u)' = Granted(u)
  BY DEF Apart, Phase, Granted
<1> QED
  BY <1>1

\* Nothing to hand over: the thread's reply holds no buffer.
LEMMA EmptyReply ==
  ASSUME TypeOK, SharedSlots, NEW t \in Threads, Shared(t) = {}
  PROVE  buffers[t] = NoBuffers
BY DEF TypeOK, SharedSlots, NoBuffers

\* Both modules judge descriptors by the same definitions.
LEMMA SameJudgement ==
  ASSUME NEW info
  PROVE  /\ Service!Convertible(info) <=> Convertible(info)
         /\ Service!OptionsAccepted(info) <=> OptionsAccepted(info)
<1>1. Service!HalFourcc = HalFourcc /\ Service!DirectFourcc = DirectFourcc
      /\ Service!DRM_FORMAT_NONE = DRM_FORMAT_NONE
  BY Zenon DEF Service!HalFourcc, HalFourcc, Service!DirectFourcc, DirectFourcc,
               Service!DRM_FORMAT_NONE, DRM_FORMAT_NONE
<1>2. Service!gralloc_convert_format(info.format) = gralloc_convert_format(info.format)
  BY <1>1, Zenon DEF Service!gralloc_convert_format, gralloc_convert_format,
     Service!drv_convert_gralloc_format_to_drm_format,
     drv_convert_gralloc_format_to_drm_format
<1>3. Service!enum_values = enum_values /\ Service!wrong_enum_values = wrong_enum_values
      /\ Service!FRONT_BUFFER = FRONT_BUFFER
  BY Zenon DEF Service!enum_values, enum_values, Service!wrong_enum_values,
               wrong_enum_values, Service!FRONT_BUFFER, FRONT_BUFFER
<1>4. Service!usageTestLoop(info.usage) <=> usageTestLoop(info.usage)
  BY <1>3, Zenon DEF Service!usageTestLoop, usageTestLoop, Service!usageTest, usageTest
<1>5. Service!Convertible(info) <=> Convertible(info)
  BY <1>1, <1>2, <1>4, Zenon DEF Service!Convertible, Convertible
<1>6. Service!OptionsAccepted(info) <=> OptionsAccepted(info)
  BY Zenon DEF Service!OptionsAccepted, OptionsAccepted,
     Service!STANDARD_METADATA_DATASPACE, STANDARD_METADATA_DATASPACE
<1> QED
  BY <1>5, <1>6

\* Every error the code answers with is one the promise permits.
LEMMA ErrorsPermitted ==
  ASSUME NEW r \in Requests
  PROVE  /\ ~(mManager /\ Decodes(r) /\ Accepts(r)) /\ mManager \in BOOLEAN
              => Refusal(r) \in Service!PermittedErrors(r)
         /\ CommonError(r) \in Service!PermittedErrors(r)
<1>1. r.api \in {"allocate", "allocate2"}
  BY AllocatorAssumption
<1>2. CommonError(r) \in Service!PermittedErrors(r)
  BY <1>1 DEF CommonError, Service!PermittedErrors
<1>3. ASSUME mManager \in BOOLEAN, ~(mManager /\ Decodes(r) /\ Accepts(r))
      PROVE  Refusal(r) \in Service!PermittedErrors(r)
  <2>1. CASE ~mManager
    <3>1. Refusal(r) = "NO_RESOURCES"
      BY <2>1 DEF Refusal
    <3> QED
      BY <3>1 DEF Service!PermittedErrors
  <2>2. CASE mManager /\ ~Decodes(r)
    <3>1. Refusal(r) = "BAD_DESCRIPTOR"
      BY <2>2 DEF Refusal
    <3>2. r.api = "allocate" /\ r.decodes = FALSE
      BY <2>2, AllocatorAssumption DEF Decodes
    <3> QED
      BY <3>1, <3>2 DEF Service!PermittedErrors
  <2>3. CASE mManager /\ Decodes(r) /\ ~Accepts(r)
    <3>1. Refusal(r) = "UNSUPPORTED"
      BY <2>3 DEF Refusal
    <3> QED
      BY <3>1, <2>3, <1>1, SameJudgement DEF Service!PermittedErrors, Accepts
  <2> QED
    BY <1>3, <2>1, <2>2, <2>3
<1> QED
  BY <1>2, <1>3

LEMMA AbstractInit == Init => Service!Init
<1> SUFFICES ASSUME Init
             PROVE  Service!Init
  OBVIOUS
<1>1. \A t \in Threads : Phase(t) = "idle" /\ Granted(t) = NoBuffers
  BY PhaseValues DEF Init, Granted
<1> QED
  BY <1>1 DEF Init, Service!Init, Service!NoBuffers, NoBuffers, Service!Slots, Slots

LEMMA AbstractStep ==
  ASSUME "dup" \notin Faults, IInv, [Next]_vars
  PROVE  [Service!Next]_(Service!serviceVars)
<1> USE DEF IInv
<1>1. ASSUME NEW t \in Threads, NEW r \in Requests, Receive(t, r)
      PROVE  Service!Receive(t, r)
  <2>1. Apart(t) /\ pc[t] = "idle" /\ pc'[t] = "called"
    BY <1>1, StepsApart DEF Receive, TypeOK
  <2>2. Phase(t) = "idle" /\ Phase(t)' = "pending"
        /\ Granted(t) = NoBuffers /\ Granted(t)' = NoBuffers
    BY <2>1, PhaseValues DEF Granted, NoBuffers
  <2>3. [u \in Threads |-> Granted(u)]' = [u \in Threads |-> Granted(u)]
    BY <2>1, <2>2, MappedStep
  <2> QED
    BY <1>1, <2>1, <2>2, <2>3, MappedStep DEF Receive, Service!Receive
<1>2. ASSUME NEW t \in Threads, Refuse(t) \/ UndoDone(t)
      PROVE  Service!Refuse(t)
  <2>1. Apart(t) /\ pc[t] \notin {"idle", "reply"} /\ pc'[t] = "reply"
    BY <1>2, StepsApart DEF Refuse, UndoDone, Serve, TypeOK
  <2>2. buffers' = buffers /\ buffers[t] = NoBuffers
    BY <1>2, EmptyReply, OwnedSteps DEF Refuse, UndoDone
  <2>3. Phase(t) = "pending" /\ Phase(t)' = "done"
        /\ Granted(t) = NoBuffers /\ Granted(t)' = NoBuffers
    BY <2>1, <2>2, PhaseValues DEF Granted
  <2>4. [u \in Threads |-> Granted(u)]' = [u \in Threads |-> Granted(u)]
    BY <2>1, <2>3, MappedStep
  <2>5. req[t] \in Requests
    BY <2>1 DEF Counters
  <2>6. \E e \in Service!PermittedErrors(req[t]) : status' = [status EXCEPT ![t] = e]
    BY <1>2, <2>5, ErrorsPermitted DEF Refuse, UndoDone, TypeOK
  <2>7. req' = req /\ held' = held
    BY <1>2 DEF Refuse, UndoDone
  <2> QED
    BY <2>1, <2>3, <2>4, <2>6, <2>7, MappedStep DEF Service!Refuse
<1>3. ASSUME NEW t \in Threads,
             \/ Accept(t) \/ Allocate(t) \/ AllocateFails(t) \/ Undo(t)
             \/ AllocateDone(t) \/ Share(t) \/ Drop(t)
      PROVE  UNCHANGED Service!serviceVars
  <2>1. Apart(t)
    BY <1>3, StepsApart DEF Serve
  <2>2. pc[t] \notin {"idle", "reply"} /\ pc'[t] \notin {"idle", "reply"}
        /\ DOMAIN pc' = Threads
    BY <1>3 DEF Accept, Allocate, AllocateFails, Undo, AllocateDone, Share, Drop, TypeOK
  <2>3. req' = req /\ status' = status /\ held' = held
    BY <1>3 DEF Accept, Allocate, AllocateFails, Undo, AllocateDone, Share, Drop
  <2> QED
    BY <2>1, <2>2, <2>3, InnerStep
<1>4. ASSUME NEW t \in Threads, ShareDone(t)
      PROVE  Service!Grant(t)
  <2>1. Apart(t) /\ pc[t] = "share" /\ pc'[t] = "reply" /\ i[t] = req[t].count
        /\ buffers' = buffers /\ req' = req /\ held' = held
        /\ status' = [status EXCEPT ![t] = "OK"]
    BY <1>4, StepsApart DEF ShareDone, Serve, TypeOK
  <2>2. Phase(t) = "pending" /\ Phase(t)' = "done"
        /\ Granted(t) = NoBuffers /\ Granted(t)' = buffers[t]
    BY <2>1, PhaseValues DEF Granted
  <2>3. Service!Grantable(req[t])
    BY <2>1, SameJudgement DEF Accepted, Service!Grantable, Decodes, Accepts
  <2>4. \A k \in Slots : IF k < req[t].count THEN buffers[t][k] \in Buffers \ Service!Taken
                                            ELSE buffers[t][k] = NoHandle
    <3> TAKE k \in Slots
    <3>1. CASE k < req[t].count
      <4>1. k \in Shared(t)
        BY <3>1, <2>1 DEF Shared
      <4>2. buffers[t][k] \in Buffers
        BY <4>1 DEF SharedSlots, TypeOK
      <4>3. buffers[t][k] # NoHandle /\ buffers[t][k] \notin held
            /\ \A u \in Threads, l \in Slots : buffers[u][l] = buffers[t][k] => u = t
        BY <4>1 DEF SharedSlots, GrantedOnce
      <4>4. \A u \in Threads, l \in Slots : Granted(u)[l] # buffers[t][k]
        BY <4>3, <2>1 DEF Granted, NoBuffers
      <4> QED
        BY <3>1, <4>2, <4>3, <4>4 DEF Service!Taken, Service!Slots, Slots
    <3>2. CASE ~(k < req[t].count)
      <4>1. k \notin Shared(t)
        BY <3>2, <2>1 DEF Shared
      <4> QED
        BY <3>2, <4>1 DEF SharedSlots
    <3> QED
      BY <3>1, <3>2
  <2>5. \A k, l \in Slots : k # l /\ buffers[t][k] = buffers[t][l]
           => buffers[t][k] = NoHandle
    BY DEF GrantedOnce
  <2>6. buffers[t] \in [Slots -> Buffers \cup {NoHandle}]
    BY DEF TypeOK
  <2> QED
    BY <2>1, <2>2, <2>3, <2>4, <2>5, <2>6, MappedStep
       DEF Service!Grant, Service!Slots, Slots
<1>5. ASSUME NEW t \in Threads, Deliver(t)
      PROVE  Service!Deliver(t)
  <2>1. Apart(t) /\ pc[t] = "reply" /\ pc'[t] = "idle"
    BY <1>5, StepsApart DEF Deliver, Serve, TypeOK
  <2>2. Phase(t) = "done" /\ Phase(t)' = "idle"
        /\ Granted(t) = buffers[t] /\ Granted(t)' = NoBuffers
    BY <2>1, PhaseValues DEF Granted
  <2>3. /\ [u \in Threads |-> Phase(u)][t] = "done"
        /\ [u \in Threads |-> Phase(u)]' =
              [[u \in Threads |-> Phase(u)] EXCEPT ![t] = "idle"]
        /\ [u \in Threads |-> Granted(u)]' =
              [[u \in Threads |-> Granted(u)] EXCEPT ![t] = Service!NoBuffers]
    BY <2>1, <2>2, MappedStep DEF Service!NoBuffers, NoBuffers, Service!Slots, Slots
  <2>4. held' = held \cup ({[u \in Threads |-> Granted(u)][t][k] : k \in Service!Slots}
                            \ {NoHandle})
    BY <1>5, <2>2 DEF Deliver, Service!Slots, Slots
  <2>5. req' = [req EXCEPT ![t] = NoRequest] /\ status' = [status EXCEPT ![t] = "OK"]
    BY <1>5 DEF Deliver
  <2> QED
    BY <2>3, <2>4, <2>5 DEF Service!Deliver
<1>6. ASSUME NEW b \in Buffers, Close(b)
      PROVE  Service!Close(b)
  <2>1. pc' = pc /\ buffers' = buffers
    BY <1>6 DEF Close
  <2>2. \A t \in Threads : Phase(t)' = Phase(t) /\ Granted(t)' = Granted(t)
    BY <2>1 DEF Phase, Granted
  <2> QED
    BY <1>6, <2>2 DEF Close, Service!Close
<1>7. CASE UNCHANGED vars
  <2>1. \A t \in Threads : Phase(t)' = Phase(t) /\ Granted(t)' = Granted(t)
    BY <1>7 DEF vars, Phase, Granted
  <2> QED
    BY <1>7, <2>1 DEF vars, Service!serviceVars
<1> QED
  BY <1>1, <1>2, <1>3, <1>4, <1>5, <1>6, <1>7 DEF Next, Serve, Service!Next

\* With a dup that works, every behaviour of the service - however its threads
\* interleave, and wherever allocation or free() fails - is one AllocService
\* allows: whole batches of new buffers, or a permitted error.
THEOREM ServiceImplemented ==
  ASSUME "dup" \notin Faults
  PROVE  Spec => Service!Safety
<1>1. IInv /\ [Next]_vars => [Service!Next]_(Service!serviceVars)
  BY AbstractStep
<1> QED
  BY <1>1, AbstractInit, Invariance, PTL DEF Spec, Service!Safety

=============================================================================
