------------------------------ MODULE Allocator -----------------------------
(***************************************************************************)
(* The allocator service, VivanteAllocator                                 *)
(* (allocator/aidl/allocator.cpp), as its binder threads run it.           *)
(*                                                                         *)
(* A buffer stands for its memory and for every handle on it: a native     *)
(* handle in the service ("open"), a duplicate travelling in a reply       *)
(* ("buffers" of the thread) or one a client owns ("held").  The memory    *)
(* lives as long as one of them does.  The device allocator behind         *)
(* gralloc_manager is external: allocate() hands out memory nobody uses or *)
(* fails, free() closes the service's handle.  Each of its calls is one    *)
(* step, everything between two of them is local to the thread.            *)
(***************************************************************************)
EXTENDS Descriptor

CONSTANTS Threads,    \* binder threads serving calls
          Buffers,    \* graphics buffers the device can hold
          NoHandle,   \* nullptr
          Requests,   \* the calls clients make
          NoRequest,  \* no call
          MaxCount,   \* bound on the count of one call
          Faults      \* "free": gralloc_manager::free may fail;
                      \* "dup": dupToAidl may yield a handle without fds

Slots == 0 .. (MaxCount - 1)

NoBuffers == [k \in Slots |-> NoHandle]

ASSUME AllocatorAssumption ==
  /\ MaxCount \in Nat
  /\ NoHandle \notin Buffers
  /\ NoRequest \notin Requests
  /\ \A r \in Requests :
       /\ r.api \in {"allocate", "allocate2"}
       /\ r.decodes \in BOOLEAN
       /\ r.count \in 0 .. MaxCount

VARIABLES
  mManager,  \* the constructor's gralloc_manager::init() succeeded
  pc,        \* thread -> where it is in allocate/allocate2/allocate_common
  req,       \* thread -> the call it serves
  i,         \* thread -> the loop counter of allocate_common
  j,         \* thread -> the loop counter of its undo
  handles,   \* thread -> the vector "handles"
  buffers,   \* thread -> outResult->buffers
  status,    \* thread -> the status of its answer
  open,      \* buffers the service has a native handle on
  held,      \* buffers clients own
  attr       \* buffer -> the descriptor it was last allocated for

locals == <<pc, req, i, j, handles, buffers, status>>
vars == <<mManager, pc, req, i, j, handles, buffers, status, open, held, attr>>

-----------------------------------------------------------------------------
(* The external world.                                                     *)

\* The memory of these buffers is referenced by somebody.
Live == open \cup held \cup {buffers[t][k] : t \in Threads, k \in Slots}

\* gralloc_manager::free.  A failure is only logged; the handle stays open.
releaseBufferAndHandle(b) ==
  \/ open' = open \ {b}
  \/ "free" \in Faults /\ open' = open

\* dupToAidl: what arrives in the reply for a service handle b.
dupToAidl(b) == {b} \cup (IF "dup" \in Faults THEN {NoHandle} ELSE {})

-----------------------------------------------------------------------------
(* The handlers.                                                           *)

Init ==
  /\ mManager \in BOOLEAN
  /\ pc = [t \in Threads |-> "idle"]
  /\ req = [t \in Threads |-> NoRequest]
  /\ i = [t \in Threads |-> 0]
  /\ j = [t \in Threads |-> 0]
  /\ handles = [t \in Threads |-> NoBuffers]
  /\ buffers = [t \in Threads |-> NoBuffers]
  /\ status = [t \in Threads |-> "OK"]
  /\ open = {}
  /\ held = {}
  /\ attr = [b \in Buffers |-> NoRequest]

\* A client's call reaches a binder thread.
Receive(t, r) ==
  /\ pc[t] = "idle"
  /\ pc' = [pc EXCEPT ![t] = "called"]
  /\ req' = [req EXCEPT ![t] = r]
  /\ UNCHANGED <<mManager, i, j, handles, buffers, status, open, held, attr>>

\* decodeBufferDescriptorInfo succeeds; allocate2 has nothing to decode.
Decodes(r) == r.api = "allocate" => r.decodes

\* toInternalDescriptor and the checks on additionalOptions let the call pass.
Accepts(r) ==
  /\ Convertible(r.desc)
  /\ r.api = "allocate2" => OptionsAccepted(r.desc)

\* The status of a refused call, in the order of the code's checks.
Refusal(r) ==
  CASE ~mManager                            -> "NO_RESOURCES"
    [] mManager /\ ~Decodes(r)              -> "BAD_DESCRIPTOR"
    [] mManager /\ Decodes(r) /\ ~Accepts(r) -> "UNSUPPORTED"

Refuse(t) ==
  /\ pc[t] = "called"
  /\ ~(mManager /\ Decodes(req[t]) /\ Accepts(req[t]))
  /\ pc' = [pc EXCEPT ![t] = "reply"]
  /\ status' = [status EXCEPT ![t] = Refusal(req[t])]
  /\ UNCHANGED <<mManager, req, i, j, handles, buffers, open, held, attr>>

\* Slip: the result of toInternalDescriptor is ignored.
Accept_Anything(t) ==
  /\ pc[t] = "called"
  /\ mManager /\ Decodes(req[t])
  /\ pc' = [pc EXCEPT ![t] = "alloc"]
  /\ i' = [i EXCEPT ![t] = 0]
  /\ UNCHANGED <<mManager, req, j, handles, buffers, status, open, held, attr>>

\* Into allocate_common: handles.resize(count, nullptr), and the first slot.
Accept(t) ==
  /\ pc[t] = "called"
  /\ mManager /\ Decodes(req[t]) /\ Accepts(req[t])
  /\ pc' = [pc EXCEPT ![t] = "alloc"]
  /\ i' = [i EXCEPT ![t] = 0]
  /\ UNCHANGED <<mManager, req, j, handles, buffers, status, open, held, attr>>

\* Slip: no room for the metadata in the reserved region.
Allocate_NoMetadata(t) ==
  /\ pc[t] = "alloc" /\ i[t] < req[t].count
  /\ \E b \in Buffers \ Live :
       /\ handles' = [handles EXCEPT ![t][i[t]] = b]
       /\ open' = open \cup {b}
       /\ attr' = [attr EXCEPT ![b] = [toInternalDescriptor(req[t].desc) EXCEPT
                                          !.reserved_region_size = req[t].desc.reservedSize]]
  /\ i' = [i EXCEPT ![t] = i[t] + 1]
  /\ UNCHANGED <<mManager, pc, req, j, buffers, status, held>>

\* allocate_internal succeeds for slot i.
Allocate(t) ==
  /\ pc[t] = "alloc"
  /\ i[t] < req[t].count
  /\ \E b \in Buffers \ Live :
       /\ handles' = [handles EXCEPT ![t][i[t]] = b]
       /\ open' = open \cup {b}
       /\ attr' = [attr EXCEPT ![b] = toInternalDescriptor(req[t].desc)]
  /\ i' = [i EXCEPT ![t] = i[t] + 1]
  /\ UNCHANGED <<mManager, pc, req, j, buffers, status, held>>

\* Slip: the undo starts at the second slot.
AllocateFails_SkipsFirst(t) ==
  /\ pc[t] = "alloc" /\ i[t] < req[t].count
  /\ handles' = [handles EXCEPT ![t][i[t]] = NoHandle]
  /\ pc' = [pc EXCEPT ![t] = "undo"]
  /\ j' = [j EXCEPT ![t] = 1]
  /\ UNCHANGED <<mManager, req, i, buffers, status, open, held, attr>>

\* allocate_internal fails for slot i: the slot is nulled, the undo starts.
AllocateFails(t) ==
  /\ pc[t] = "alloc"
  /\ i[t] < req[t].count
  /\ handles' = [handles EXCEPT ![t][i[t]] = NoHandle]
  /\ pc' = [pc EXCEPT ![t] = "undo"]
  /\ j' = [j EXCEPT ![t] = 0]
  /\ UNCHANGED <<mManager, req, i, buffers, status, open, held, attr>>

\* Slip: the undo loop does not advance.
Undo_Stays(t) ==
  /\ pc[t] = "undo" /\ j[t] < i[t]
  /\ releaseBufferAndHandle(handles[t][j[t]])
  /\ UNCHANGED <<mManager, pc, req, i, j, handles, buffers, status, held, attr>>

\* One round of the undo loop.
Undo(t) ==
  /\ pc[t] = "undo"
  /\ j[t] < i[t]
  /\ releaseBufferAndHandle(handles[t][j[t]])
  /\ j' = [j EXCEPT ![t] = j[t] + 1]
  /\ UNCHANGED <<mManager, pc, req, i, handles, buffers, status, held, attr>>

\* allocate_common has returned false; each API has an error of its own.
CommonError(r) ==
  IF r.api = "allocate" THEN "NO_RESOURCES" ELSE "UNSUPPORTED"

\* Slip: the result of allocate_common is ignored.
UndoDone_Ok(t) ==
  /\ pc[t] = "undo" /\ j[t] = i[t]
  /\ pc' = [pc EXCEPT ![t] = "reply"]
  /\ UNCHANGED <<mManager, req, i, j, handles, buffers, status, open, held, attr>>

UndoDone(t) ==
  /\ pc[t] = "undo"
  /\ j[t] = i[t]
  /\ pc' = [pc EXCEPT ![t] = "reply"]
  /\ status' = [status EXCEPT ![t] = CommonError(req[t])]
  /\ UNCHANGED <<mManager, req, i, j, handles, buffers, open, held, attr>>

\* All slots allocated: outResult->buffers.resize(count).
AllocateDone(t) ==
  /\ pc[t] = "alloc"
  /\ i[t] = req[t].count
  /\ pc' = [pc EXCEPT ![t] = "share"]
  /\ i' = [i EXCEPT ![t] = 0]
  /\ UNCHANGED <<mManager, req, j, handles, buffers, status, open, held, attr>>

\* Slip: every slot gets the first handle.
Share_First(t) ==
  /\ pc[t] = "share" /\ i[t] < req[t].count
  /\ \E b \in dupToAidl(handles[t][0]) : buffers' = [buffers EXCEPT ![t][i[t]] = b]
  /\ pc' = [pc EXCEPT ![t] = "drop"]
  /\ UNCHANGED <<mManager, req, i, j, handles, status, open, held, attr>>

\* Slip: sharing releases the handle, which is released once more later.
Share_Releases(t) ==
  /\ pc[t] = "share" /\ i[t] < req[t].count
  /\ \E b \in dupToAidl(handles[t][i[t]]) : buffers' = [buffers EXCEPT ![t][i[t]] = b]
  /\ releaseBufferAndHandle(handles[t][i[t]])
  /\ pc' = [pc EXCEPT ![t] = "drop"]
  /\ UNCHANGED <<mManager, req, i, j, handles, status, held, attr>>

\* outResult->buffers[i] = dupToAidl(handle).
Share(t) ==
  /\ pc[t] = "share"
  /\ i[t] < req[t].count
  /\ \E b \in dupToAidl(handles[t][i[t]]) :
       buffers' = [buffers EXCEPT ![t][i[t]] = b]
  /\ pc' = [pc EXCEPT ![t] = "drop"]
  /\ UNCHANGED <<mManager, req, i, j, handles, status, open, held, attr>>

\* Slip: the service keeps its handle on a buffer it has shared.
Drop_Keeps(t) ==
  /\ pc[t] = "drop"
  /\ i' = [i EXCEPT ![t] = i[t] + 1]
  /\ pc' = [pc EXCEPT ![t] = "share"]
  /\ UNCHANGED <<mManager, req, j, handles, buffers, status, open, held, attr>>

\* releaseBufferAndHandle(handle), and on to the next slot.
Drop(t) ==
  /\ pc[t] = "drop"
  /\ releaseBufferAndHandle(handles[t][i[t]])
  /\ i' = [i EXCEPT ![t] = i[t] + 1]
  /\ pc' = [pc EXCEPT ![t] = "share"]
  /\ UNCHANGED <<mManager, req, j, handles, buffers, status, held, attr>>

ShareDone(t) ==
  /\ pc[t] = "share"
  /\ i[t] = req[t].count
  /\ pc' = [pc EXCEPT ![t] = "reply"]
  /\ status' = [status EXCEPT ![t] = "OK"]
  /\ UNCHANGED <<mManager, req, i, j, handles, buffers, open, held, attr>>

\* The answer reaches the client; the call's locals are gone.
Deliver(t) ==
  /\ pc[t] = "reply"
  /\ held' = held \cup ({buffers[t][k] : k \in Slots} \ {NoHandle})
  /\ pc' = [pc EXCEPT ![t] = "idle"]
  /\ req' = [req EXCEPT ![t] = NoRequest]
  /\ i' = [i EXCEPT ![t] = 0]
  /\ j' = [j EXCEPT ![t] = 0]
  /\ handles' = [handles EXCEPT ![t] = NoBuffers]
  /\ buffers' = [buffers EXCEPT ![t] = NoBuffers]
  /\ status' = [status EXCEPT ![t] = "OK"]
  /\ UNCHANGED <<mManager, open, attr>>

\* A client drops a buffer.
Close(b) ==
  /\ b \in held
  /\ held' = held \ {b}
  /\ UNCHANGED <<mManager, pc, req, i, j, handles, buffers, status, open, attr>>

\* The steps a binder thread takes on its own once it has a call.
Serve(t) ==
  \/ Refuse(t) \/ Accept(t)
  \/ Allocate(t) \/ AllocateFails(t) \/ Undo(t) \/ UndoDone(t)
  \/ AllocateDone(t) \/ Share(t) \/ Drop(t) \/ ShareDone(t)
  \/ Deliver(t)

Next ==
  \/ \E t \in Threads : Serve(t) \/ \E r \in Requests : Receive(t, r)
  \/ \E b \in Buffers : Close(b)

Spec == Init /\ [][Next]_vars

FairSpec == Spec /\ \A t \in Threads : WF_vars(Serve(t))

-----------------------------------------------------------------------------
(* Properties.                                                             *)

Descriptors == {toInternalDescriptor(r.desc) : r \in Requests}

\* The type invariant of the service's state.
TypeOK ==
  /\ mManager \in BOOLEAN
  /\ pc \in [Threads ->
              {"idle", "called", "alloc", "undo", "share", "drop", "reply"}]
  /\ req \in [Threads -> Requests \cup {NoRequest}]
  /\ i \in [Threads -> 0 .. MaxCount]
  /\ j \in [Threads -> 0 .. MaxCount]
  /\ handles \in [Threads -> [Slots -> Buffers \cup {NoHandle}]]
  /\ buffers \in [Threads -> [Slots -> Buffers \cup {NoHandle}]]
  /\ status \in [Threads ->
                  {"OK", "NO_RESOURCES", "BAD_DESCRIPTOR", "UNSUPPORTED"}]
  /\ open \subseteq Buffers
  /\ held \subseteq Buffers
  /\ attr \in [Buffers -> Descriptors \cup {NoRequest}]

\* The slots of "handles" that hold a handle the thread must still release.
Owned(t) ==
  {k \in Slots :
     \/ pc[t] = "alloc" /\ k < i[t]
     \/ pc[t] = "undo" /\ j[t] <= k /\ k < i[t]
     \/ pc[t] \in {"share", "drop"} /\ i[t] <= k /\ k < req[t].count}

\* No handle is duplicated or released after its release, and no slot a
\* thread still has to release is empty: whatever a thread of allocate_common
\* is yet to pass to dupToAidl or free is open.
HandlesOpen ==
  \A t \in Threads : \A k \in Owned(t) : handles[t][k] \in open

\* No two slots, of one call or of two, are to release the same handle: there
\* is no double free, however the calls of the pool's threads interleave.
OneOwner ==
  \A t, u \in Threads : \A k \in Owned(t), l \in Owned(u) :
    handles[t][k] = handles[u][l] => t = u /\ k = l

\* A buffer is granted once: replies under way never share a buffer, nor name
\* one a client owns or one another call still works on.
NoDoubleGrant ==
  \A t \in Threads, k \in Slots :
    LET b == buffers[t][k] IN
    b # NoHandle =>
      /\ b \notin held
      /\ \A u \in Threads, l \in Slots : buffers[u][l] = b => u = t /\ l = k
      /\ \A u \in Threads : \A l \in Owned(u) : handles[u][l] = b => u = t /\ l = k

\* The undo loop and the loop that shares the batch leave nothing behind: when
\* free() does not fail, the service keeps no handle but those that calls
\* under way are still to release.
NoLeak ==
  "free" \notin Faults =>
    \A b \in open : \E t \in Threads : \E k \in Owned(t) : handles[t][k] = b

\* An answer is all or nothing: OK comes with a buffer in each slot asked for
\* (its fds may be missing when dup fails) and in no other, an error with none.
AllOrNothing ==
  \A t \in Threads : pc[t] = "reply" =>
    \A k \in Slots :
      /\ buffers[t][k] # NoHandle => status[t] = "OK" /\ k < req[t].count
      /\ status[t] = "OK" /\ k < req[t].count /\ "dup" \notin Faults
           => buffers[t][k] # NoHandle

\* The memory a reply grants was allocated for the descriptor of that very
\* call, and for no other call since.
GrantedAsAsked ==
  \A t \in Threads, k \in Slots : buffers[t][k] # NoHandle =>
    attr[buffers[t][k]] = toInternalDescriptor(req[t].desc)

\* The inductive strengthening of the invariants above.  Loop counters stay in
\* their ranges; the slots of a reply are filled in order, and only while the
\* batch is shared; a batch is only worked on for a call that passed the checks; a
\* handle still to be released is in nobody else's hands, and in the thread's
\* own reply only at its own slot.
Counters ==
  \A t \in Threads :
    /\ pc[t] # "idle" => req[t] \in Requests
    /\ pc[t] \in {"alloc", "share"} => i[t] <= req[t].count
    /\ pc[t] \in {"undo", "drop"} => i[t] < req[t].count
    /\ pc[t] = "undo" => j[t] <= i[t]

Shared(t) ==
  {k \in Slots :
     \/ pc[t] = "share" /\ k < i[t]
     \/ pc[t] = "drop" /\ k <= i[t]
     \/ pc[t] = "reply" /\ status[t] = "OK" /\ k < req[t].count}

SharedSlots ==
  \A t \in Threads, k \in Slots :
    /\ k \notin Shared(t) => buffers[t][k] = NoHandle
    /\ k \in Shared(t) /\ "dup" \notin Faults => buffers[t][k] # NoHandle

Accepted ==
  \A t \in Threads :
    pc[t] \in {"alloc", "undo", "share", "drop"} => Decodes(req[t]) /\ Accepts(req[t])

OwnedPrivate ==
  \A t \in Threads : \A k \in Owned(t) :
    /\ handles[t][k] \notin held
    /\ \A u \in Threads, l \in Slots : buffers[u][l] = handles[t][k] =>
         u = t /\ l = k

GrantedOnce ==
  \A t \in Threads, k \in Slots : buffers[t][k] # NoHandle =>
    /\ buffers[t][k] \notin held
    /\ \A u \in Threads, l \in Slots :
         buffers[u][l] = buffers[t][k] => u = t /\ l = k

OwnedAsAsked ==
  \A t \in Threads : \A k \in Owned(t) :
    attr[handles[t][k]] = toInternalDescriptor(req[t].desc)

IInv ==
  /\ TypeOK /\ Counters /\ Accepted /\ SharedSlots
  /\ HandlesOpen /\ OneOwner /\ OwnedPrivate /\ GrantedOnce
  /\ NoLeak
  /\ OwnedAsAsked /\ GrantedAsAsked

\* Every call a thread takes up is answered, through the undo loop or not.
CallsAnswered ==
  \A t \in Threads : pc[t] = "called" ~> pc[t] = "reply"

\* The service's own handle on a buffer is closed sooner or later: a failed
\* batch gives its memory back and a granted one belongs to the client alone.
HandlesReclaimed == \A b \in Buffers : b \in open ~> b \notin open

\* The service keeps the promise of AllocService.  Slot-by-slot allocation,
\* undo and sharing are invisible: an answer takes effect when it is complete.
Phase(t) == CASE pc[t] = "idle"  -> "idle"
              [] pc[t] = "reply" -> "done"
              [] OTHER           -> "pending"

Granted(t) == IF pc[t] = "reply" THEN buffers[t] ELSE NoBuffers

Service == INSTANCE AllocService WITH
  phase   <- [t \in Threads |-> Phase(t)],
  granted <- [t \in Threads |-> Granted(t)]

ImplementsService == Service!Spec

-----------------------------------------------------------------------------
(* What comments of the repository say, and the code does not do.          *)

\* "UNSUPPORTED = 7, /* permanent failure */" (gralloc_vivante.h:42): a
\* descriptor answered UNSUPPORTED is one isSupported rejects.
UnsupportedIsPermanent ==
  \A t \in Threads : pc[t] = "reply" /\ status[t] = "UNSUPPORTED" =>
    ~isSupported(req[t].desc)

=============================================================================
