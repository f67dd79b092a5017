------------------------------- MODULE Mapper -------------------------------
(***************************************************************************)
(* The handles of one client process, VivanteMapper (mapper/mapper.cpp):   *)
(* importBuffer, freeBuffer, getReservedRegion and dumpAllBuffers, called  *)
(* by the process's threads.                                               *)
(*                                                                         *)
(* A handle is its address: native_handle_clone takes an address nobody    *)
(* uses, perhaps one just deleted.  gralloc_manager, behind the mapper, is *)
(* external: it maps a handle's reserved region at the first request and   *)
(* remembers it under the handle's address in reserved_region_addrs, until *)
(* release().  So is the driver that handles are registered with.  Each of *)
(* their calls is one step.                                                *)
(*                                                                         *)
(* dumpAllBuffers iterates over reserved_region_addrs itself, an           *)
(* unordered_map that nobody locks.  Once another call adds or erases an   *)
(* entry, the iteration may go on anywhere: its iterator dangles, or the   *)
(* table was hashed anew.  Only a crash of the process is left out.        *)
(***************************************************************************)
EXTENDS Integers, FiniteSets

CONSTANTS Threads,     \* threads of the process
          Buffers,     \* buffers it is sent raw handles of
          NoFds,       \* a raw handle that carries no file descriptor
          Addrs,       \* addresses of its heap
          None,        \* no buffer, no address, nothing mapped
          Faults,      \* calls that may fail: "clone", "register",
                       \* "unregister", "release", "region"
          DumpsAlone   \* TRUE: nobody else calls while dumpAllBuffers runs

ASSUME MapperAssumption ==
  /\ NoFds \notin Buffers /\ None \notin Buffers /\ None \notin Addrs
  /\ DumpsAlone \in BOOLEAN

VARIABLES
  mManager,    \* the constructor's gralloc_manager::init() succeeded
  memory,      \* address -> buffer whose cloned handle lives there
  registered,  \* addresses of the handles the driver knows
  regions,     \* reserved_region_addrs: address -> buffer whose region it is
  owned,       \* addresses importBuffer returned and freeBuffer has not freed
  pc,          \* thread -> where it is
  at,          \* thread -> the handle it works on
  todo,        \* thread -> the entries its dump's iterator has ahead of it
  answer       \* thread -> the status of its last call

vars == <<mManager, memory, registered, regions, owned, pc, at, todo, answer>>

Mapped == {a \in Addrs : regions[a] # None}

\* The handles a freeBuffer works on.
Freeing ==
  {at[t] : t \in {u \in Threads : pc[u] \in {"unregister", "release", "close"}}}

Dumping == {t \in Threads : pc[t] \in {"dump", "dumpBuffer"}}

-----------------------------------------------------------------------------

Init ==
  /\ mManager \in BOOLEAN
  /\ memory = [a \in Addrs |-> None]
  /\ registered = {}
  /\ regions = [a \in Addrs |-> None]
  /\ owned = {}
  /\ pc = [t \in Threads |-> "idle"]
  /\ at = [t \in Threads |-> None]
  /\ todo = [t \in Threads |-> {}]
  /\ answer = [t \in Threads |-> "NONE"]

\* Clients may start a call: thread t is idle and no dump forbids it.
MayCall(t) ==
  /\ pc[t] = "idle"
  /\ DumpsAlone => Dumping = {}

Return(t, status) ==
  /\ pc' = [pc EXCEPT ![t] = "idle"]
  /\ at' = [at EXCEPT ![t] = None]
  /\ answer' = [answer EXCEPT ![t] = status]

Go(t, label, a) ==
  /\ pc' = [pc EXCEPT ![t] = label]
  /\ at' = [at EXCEPT ![t] = a]
  /\ UNCHANGED answer

\* Where the iterators over reserved_region_addrs go from here: whoever adds
\* or erases an entry leaves every dump under way with any entries ahead.
Iterators ==
  IF Mapped' = Mapped
  THEN UNCHANGED todo
  ELSE \E ahead \in [Dumping -> SUBSET Addrs] :
         todo' = [t \in Threads |-> IF t \in Dumping THEN ahead[t] ELSE todo[t]]

(* importBuffer *)

ImportRefused(t, raw) ==
  /\ MayCall(t)
  /\ ~mManager \/ raw = NoFds
  /\ Return(t, "BAD_BUFFER")
  /\ UNCHANGED <<mManager, memory, registered, regions, owned, todo>>

\* Slip: the clone is returned without being registered.
Clone_NotRegistered(t, raw) ==
  /\ MayCall(t) /\ mManager /\ raw # NoFds
  /\ \E a \in Addrs :
       /\ memory[a] = None /\ memory' = [memory EXCEPT ![a] = raw]
       /\ owned' = owned \cup {a}
  /\ Return(t, "NONE")
  /\ UNCHANGED <<mManager, registered, regions, todo>>

\* native_handle_clone.
Clone(t, raw) ==
  /\ MayCall(t)
  /\ mManager /\ raw # NoFds
  /\ \E a \in Addrs :
       /\ memory[a] = None
       /\ memory' = [memory EXCEPT ![a] = raw]
       /\ Go(t, "register", a)
  /\ UNCHANGED <<mManager, registered, regions, owned, todo>>

CloneFails(t, raw) ==
  /\ MayCall(t)
  /\ mManager /\ raw # NoFds
  /\ "clone" \in Faults
  /\ Return(t, "NO_RESOURCES")
  /\ UNCHANGED <<mManager, memory, registered, regions, owned, todo>>

\* registerBuffer, and the handle is the client's.
Register(t) ==
  /\ pc[t] = "register"
  /\ registered' = registered \cup {at[t]}
  /\ owned' = owned \cup {at[t]}
  /\ Return(t, "NONE")
  /\ UNCHANGED <<mManager, memory, regions, todo>>

\* Slip: the undo of a failed registration forgets the clone.
RegisterFails_Lost(t) ==
  /\ pc[t] = "register" /\ "register" \in Faults
  /\ Return(t, "NO_RESOURCES")
  /\ UNCHANGED <<mManager, memory, registered, regions, owned, todo>>

\* registerBuffer fails: the clone is closed and deleted.
RegisterFails(t) ==
  /\ pc[t] = "register"
  /\ "register" \in Faults
  /\ memory' = [memory EXCEPT ![at[t]] = None]
  /\ Return(t, "NO_RESOURCES")
  /\ UNCHANGED <<mManager, registered, regions, owned, todo>>

(* freeBuffer.  A client frees a handle it owns and has no other call on;  *)
(* it may try again when freeBuffer fails.                                 *)

\* No handle, or no driver to free it with.
FreeRefused(t, a) ==
  /\ MayCall(t)
  /\ a = None \/ ~mManager
  /\ Return(t, "BAD_BUFFER")
  /\ UNCHANGED <<mManager, memory, registered, regions, owned, todo>>

FreeBuffer(t, a) ==
  /\ MayCall(t)
  /\ mManager
  /\ a \in owned \ Freeing
  /\ Go(t, "unregister", a)
  /\ UNCHANGED <<mManager, memory, registered, regions, owned, todo>>

\* Slip: the handle is deleted too early, before its region is released.
Unregister_Deletes(t) ==
  /\ pc[t] = "unregister"
  /\ registered' = registered \ {at[t]}
  /\ memory' = [memory EXCEPT ![at[t]] = None]
  /\ Go(t, "release", at[t])
  /\ UNCHANGED <<mManager, regions, owned, todo>>

Unregister(t) ==
  /\ pc[t] = "unregister"
  /\ registered' = registered \ {at[t]}
  /\ Go(t, "release", at[t])
  /\ UNCHANGED <<mManager, memory, regions, owned, todo>>

\* Slip: the result of unregisterBuffer is ignored.
UnregisterFails_Ignored(t) ==
  /\ pc[t] = "unregister"
  /\ "unregister" \in Faults \/ at[t] \notin registered
  /\ Go(t, "release", at[t])
  /\ UNCHANGED <<mManager, memory, registered, regions, owned, todo>>

\* The driver may also turn down a handle that is not registered any more.
UnregisterFails(t) ==
  /\ pc[t] = "unregister"
  /\ "unregister" \in Faults \/ at[t] \notin registered
  /\ Return(t, "BAD_BUFFER")
  /\ UNCHANGED <<mManager, memory, registered, regions, owned, todo>>

\* Slip: the region is not released.
Release_Skipped(t) ==
  /\ pc[t] = "release"
  /\ Go(t, "close", at[t])
  /\ UNCHANGED <<mManager, memory, registered, regions, owned, todo>>

\* gralloc_manager::release: the region is unmapped and its entry erased.
Release(t) ==
  /\ pc[t] = "release"
  /\ regions' = [regions EXCEPT ![at[t]] = None]
  /\ Iterators
  /\ Go(t, "close", at[t])
  /\ UNCHANGED <<mManager, memory, registered, owned>>

\* Slip: the result of release is ignored.
ReleaseFails_Ignored(t) ==
  /\ pc[t] = "release" /\ "release" \in Faults
  /\ Go(t, "close", at[t])
  /\ UNCHANGED <<mManager, memory, registered, regions, owned, todo>>

\* Slip: the handle is deleted although its region could not be released.
ReleaseFails_Deletes(t) ==
  /\ pc[t] = "release" /\ "release" \in Faults
  /\ memory' = [memory EXCEPT ![at[t]] = None] /\ owned' = owned \ {at[t]}
  /\ Return(t, "BAD_BUFFER")
  /\ UNCHANGED <<mManager, registered, regions, todo>>

ReleaseFails(t) ==
  /\ pc[t] = "release"
  /\ "release" \in Faults
  /\ Return(t, "BAD_BUFFER")
  /\ UNCHANGED <<mManager, memory, registered, regions, owned, todo>>

\* native_handle_close and native_handle_delete.
CloseHandle(t) ==
  /\ pc[t] = "close"
  /\ memory' = [memory EXCEPT ![at[t]] = None]
  /\ owned' = owned \ {at[t]}
  /\ Return(t, "NONE")
  /\ UNCHANGED <<mManager, registered, regions, todo>>

(* getReservedRegion, and get_metadata below every metadata operation.     *)

\* get_reserved_region: found under the address, or mapped for the handle.
get_reserved_region(a) ==
  regions' = [regions EXCEPT ![a] = IF @ = None THEN memory[a] ELSE @]

RegionRefused(t, a) ==
  /\ MayCall(t)
  /\ ~mManager \/ a = None
  /\ Return(t, "BAD_BUFFER")
  /\ UNCHANGED <<mManager, memory, registered, regions, owned, todo>>

GetReservedRegion(t, a) ==
  /\ MayCall(t)
  /\ mManager
  /\ a \in owned \ Freeing
  /\ get_reserved_region(a)
  /\ Iterators
  /\ Return(t, "NONE")
  /\ UNCHANGED <<mManager, memory, registered, owned>>

GetReservedRegionFails(t, a) ==
  /\ MayCall(t)
  /\ mManager
  /\ a \in owned \ Freeing
  /\ "region" \in Faults
  /\ Return(t, "BAD_BUFFER")
  /\ UNCHANGED <<mManager, memory, registered, regions, owned, todo>>

(* dumpAllBuffers *)

DumpAllBuffers(t) ==
  /\ MayCall(t)
  /\ mManager
  /\ DumpsAlone => \A u \in Threads : pc[u] = "idle"
  /\ Go(t, "dump", None)
  /\ todo' = [todo EXCEPT ![t] = Mapped]
  /\ UNCHANGED <<mManager, memory, registered, regions, owned>>

DumpRefused(t) ==
  /\ MayCall(t)
  /\ ~mManager
  /\ Return(t, "NO_RESOURCES")
  /\ UNCHANGED <<mManager, memory, registered, regions, owned, todo>>

\* Slip: the loop does not advance.
DumpNext_Stays(t) ==
  /\ pc[t] = "dump"
  /\ \E a \in todo[t] : Go(t, "dumpBuffer", a)
  /\ UNCHANGED <<mManager, memory, registered, regions, owned, todo>>

\* The loop takes the next entry, which may be erased by now.
DumpNext(t) ==
  /\ pc[t] = "dump"
  /\ \E a \in todo[t] :
       /\ Go(t, "dumpBuffer", a)
       /\ todo' = [todo EXCEPT ![t] = @ \ {a}]
  /\ UNCHANGED <<mManager, memory, registered, regions, owned>>

\* dumpBuffer reads the handle, and its region for dataspace and blend mode.
\* If the handle is deleted and its region unmapped by now, the read is
\* undefined: any region the bytes found there lead to is mapped, or none.
DumpBuffer(t) ==
  /\ pc[t] = "dumpBuffer"
  /\ \/ memory[at[t]] # None /\ get_reserved_region(at[t])
     \/ "region" \in Faults /\ UNCHANGED regions
     \/ memory[at[t]] = None /\ at[t] \in Mapped /\ UNCHANGED regions
     \/ /\ memory[at[t]] = None /\ at[t] \notin Mapped
        /\ \E b \in Buffers \cup {None} : regions' = [regions EXCEPT ![at[t]] = b]
  /\ Iterators
  /\ Go(t, "dump", None)
  /\ UNCHANGED <<mManager, memory, registered, owned>>

DumpDone(t) ==
  /\ pc[t] = "dump"
  /\ todo[t] = {}
  /\ Return(t, "NONE")
  /\ UNCHANGED <<mManager, memory, registered, regions, owned, todo>>

-----------------------------------------------------------------------------

\* The steps a thread takes inside a call.
Step(t) ==
  \/ Register(t) \/ RegisterFails(t)
  \/ Unregister(t) \/ UnregisterFails(t)
  \/ Release(t) \/ ReleaseFails(t) \/ CloseHandle(t)
  \/ DumpNext(t) \/ DumpBuffer(t) \/ DumpDone(t)

Next ==
  \E t \in Threads :
    \/ Step(t)
    \/ \E raw \in Buffers \cup {NoFds} :
         ImportRefused(t, raw) \/ Clone(t, raw) \/ CloneFails(t, raw)
    \/ \E a \in Addrs :
         FreeBuffer(t, a) \/ GetReservedRegion(t, a) \/ GetReservedRegionFails(t, a)
    \/ \E a \in (owned \ Freeing) \cup {None} : FreeRefused(t, a) \/ RegionRefused(t, a)
    \/ DumpAllBuffers(t) \/ DumpRefused(t)

Spec == Init /\ [][Next]_vars

FairSpec == Spec /\ \A t \in Threads : WF_vars(Step(t))

-----------------------------------------------------------------------------
(* Properties.                                                             *)

\* The type invariant of the process's state.
TypeOK ==
  /\ mManager \in BOOLEAN
  /\ memory \in [Addrs -> Buffers \cup {None}]
  /\ regions \in [Addrs -> Buffers \cup {None}]
  /\ registered \subseteq Addrs /\ owned \subseteq Addrs
  /\ pc \in [Threads -> {"idle", "register", "unregister", "release", "close",
                         "dump", "dumpBuffer"}]
  /\ at \in [Threads -> Addrs \cup {None}]
  /\ \A t \in Threads : at[t] = None <=> pc[t] \in {"idle", "dump"}
  /\ todo \in [Threads -> SUBSET Addrs]
  /\ answer \in [Threads -> {"NONE", "BAD_BUFFER", "NO_RESOURCES"}]

\* A handle's reserved region is always that of its own buffer, however often
\* its address was used before: freeBuffer and the undo of importBuffer leave
\* no entry behind, and a new handle finds none of an old one (if no dump
\* interferes).
RegionOfOwnBuffer == DumpsAlone => \A a \in Mapped : memory[a] = regions[a]

\* The driver never knows a handle that is deleted, and the client owns none:
\* freeBuffer deletes last, importBuffer registers only what it will return.
KnownHandlesAlive == \A a \in registered \cup owned : memory[a] # None

\* No clone is lost: each handle that exists is the client's, or importBuffer
\* is about to return or to undo it.  A freeBuffer that fails half way leaves
\* the handle with the client, who may try again.
NoHandleLost ==
  \A a \in Addrs : memory[a] # None =>
    a \in owned \/ \E t \in Threads : pc[t] = "register" /\ at[t] = a

\* No two threads import into, or free, the same handle: whatever address a
\* call holds between two of its steps is still its own.
HandleExclusive ==
  \A t, u \in Threads :
    {pc[t], pc[u]} \subseteq {"register", "unregister", "release", "close"}
      /\ at[t] = at[u] => t = u

\* A handle the client owns is registered, or a freeBuffer is under way, or
\* one failed in release after it had unregistered the handle.
OwnedRegistered ==
  "release" \notin Faults => owned \subseteq registered \cup Freeing

\* dumpAllBuffers dereferences no deleted handle, after any history of failed
\* imports, failed frees and reused addresses, if nobody calls meanwhile.
DumpReadsLive ==
  DumpsAlone =>
    \A t \in Threads : pc[t] = "dumpBuffer" => memory[at[t]] # None

\* The inductive strengthening of the invariants above.  A clone that is not
\* registered yet is new to everybody; a handle being freed is still owned, and
\* drops out of the driver and the map in the order of freeBuffer's calls; a
\* dump on its own reads a handle it found in the map.
ImportsFresh ==
  \A t \in Threads : pc[t] = "register" =>
    /\ at[t] \notin owned \cup registered
    /\ memory[at[t]] # None
    /\ DumpsAlone => at[t] \notin Mapped

FreesOwned ==
  \A t \in Threads :
    /\ pc[t] \in {"unregister", "release", "close"} => at[t] \in owned
    /\ pc[t] = "unregister" /\ "release" \notin Faults => at[t] \in registered
    /\ pc[t] \in {"release", "close"} => at[t] \notin registered
    /\ pc[t] = "close" /\ DumpsAlone => at[t] \notin Mapped

DumpsExclude ==
  DumpsAlone =>
    \A t \in Dumping :
      /\ \A u \in Threads : u # t => pc[u] = "idle"
      /\ todo[t] \subseteq Mapped
      /\ pc[t] = "dumpBuffer" => at[t] \in Mapped

IInv ==
  /\ TypeOK
  /\ ImportsFresh /\ FreesOwned /\ HandleExclusive
  /\ registered \subseteq owned /\ OwnedRegistered
  /\ KnownHandlesAlive /\ NoHandleLost
  /\ DumpsExclude /\ RegionOfOwnBuffer

\* A handle for which freeBuffer answers success is gone altogether: from the
\* driver, from reserved_region_addrs and from the heap.
FreeLeavesNothing ==
  \A t \in Threads :
    pc[t] \in {"unregister", "release", "close"} /\ pc'[t] = "idle" /\ answer'[t] = "NONE"
    => /\ at[t] \notin registered' \cup owned'
       /\ memory'[at[t]] = None
       /\ DumpsAlone => regions'[at[t]] = None

FreeComplete == [][FreeLeavesNothing]_vars

\* Every importBuffer and freeBuffer returns.  dumpAllBuffers returns if the
\* map of regions has the same entries from some moment on; others can keep
\* its loop going for ever.
Settles == <>[][Mapped' = Mapped]_vars

CallsReturn ==
  \A t \in Threads :
    /\ pc[t] # "idle" /\ t \notin Dumping ~> pc[t] = "idle"
    /\ Settles => (t \in Dumping ~> pc[t] = "idle")

-----------------------------------------------------------------------------
(* The mapper keeps the promise of HandleTable.  A handle is the client's  *)
(* when importBuffer returns it, not when it is cloned, and until it is    *)
(* deleted, not only until the driver or the map of regions forgets it.    *)

Held == [a \in Addrs |-> IF a \in owned THEN memory[a] ELSE None]

Importing == [t \in Threads |-> IF pc[t] = "register" THEN memory[at[t]] ELSE None]

FreeingAt ==
  [t \in Threads |-> IF pc[t] \in {"unregister", "release", "close"} THEN at[t] ELSE None]

Table == INSTANCE HandleTable WITH
  held <- Held, importing <- Importing, freeing <- FreeingAt

ImplementsTable == Table!Safety

=============================================================================
