------------------------------- MODULE Handle -------------------------------
(***************************************************************************)
(* private_handle_t (gralloc_priv.h): how gralloc_vivante_handle.h creates *)
(* a handle, how it travels to client processes and is cloned there by     *)
(* importBuffer, and what the getters tell the mapper's clients of it.     *)
(*                                                                         *)
(* A native handle's first numFds words are descriptors, duplicated when   *)
(* the handle is sent or cloned and closed with it (libcutils, libbinder); *)
(* the words after them are copied as they are.  The driver that fills the *)
(* handle in is external, as are the other files of a process.  Words are  *)
(* sets of bits.                                                           *)
(***************************************************************************)
EXTENDS Descriptor, FiniteSets

CONSTANTS Clients,     \* client processes
          Buffers,     \* buffers, each with its memory and its reserved region
          Fds,         \* descriptor numbers of a process
          Usages,      \* usage words asked for
          Modifiers,   \* format modifiers of the driver
          Ids,         \* buffer ids of the driver
          NoFile,      \* nothing open at a number
          OtherFile,   \* a file that is no part of a buffer
          NoHandle     \* nullptr

HandleRecords ==
  [fd : Fds, fd_region : Fds, id : SUBSET (0 .. 31), usage : SUBSET (0 .. 31),
   format_modifier : SUBSET (0 .. 63)]

ASSUME HandleAssumption ==
  /\ NoHandle \notin HandleRecords
  /\ "service" \notin Clients
  /\ \A u \in Usages : u \subseteq 0 .. 63 /\ usageTestLoop(u)
  /\ Modifiers \subseteq SUBSET (0 .. 63) /\ Ids \subseteq SUBSET (0 .. 31)
  /\ NoFile # OtherFile
  /\ \A b \in Buffers, part \in {"memory", "region"} :
       <<b, part>> \notin {NoFile, OtherFile}

Procs == {"service"} \cup Clients

\* A raw handle is the service's or came with a message; importBuffer clones it.
Places == {"raw", "imported"}

\* The members called "file descriptors": fd and fd_region.
FdMembers == {"fd", "fd_region"}

\* Slip: no word of the handle is a descriptor.
GRALLOC_PRIVATE_HANDLE_FDS_None == {}

\* The first GRALLOC_PRIVATE_HANDLE_NUM_FDS of them.
GRALLOC_PRIVATE_HANDLE_FDS == {"fd"}

\* What an int keeps of a word, and an int in 64 bits.
Int32(word) == word \cap (0 .. 31)
SignExtend(int) == IF 31 \in int THEN int \cup (32 .. 63) ELSE int

VARIABLES files,   \* process -> descriptor number -> the file open there
          handle,  \* process -> place -> buffer -> its handle
          asked    \* buffer -> usage, modifier and id it was allocated with

vars == <<files, handle, asked>>

Init ==
  /\ files = [p \in Procs |-> [n \in Fds |-> NoFile]]
  /\ handle = [p \in Procs |-> [l \in Places |-> [b \in Buffers |-> NoHandle]]]
  /\ asked = [b \in Buffers |-> NoHandle]

FreeFds(p) == {n \in Fds : files[p][n] = NoFile}

File(b, member) == <<b, IF member = "fd" THEN "memory" ELSE "region">>

\* Slip: the usage keeps the zeros of memset.
gralloc_handle_create_NoUsage(usage) ==
  [fd |-> -1, fd_region |-> 0, id |-> {}, usage |-> {}, format_modifier |-> {}]

gralloc_handle_create(usage) ==
  [fd |-> -1, fd_region |-> 0, id |-> {}, usage |-> Int32(usage), format_modifier |-> {}]

\* The memory of b is free: no process has a handle on it.
Gone(b) == \A p \in Procs, l \in Places : handle[p][l][b] = NoHandle

\* The driver allocates b and fills in the new handle.
Allocate(b) ==
  /\ Gone(b)
  /\ \E usage \in Usages, modifier \in Modifiers, id \in Ids :
     \E fd, region \in FreeFds("service") :
       /\ fd # region
       /\ files' = [files EXCEPT !["service"][fd] = File(b, "fd"),
                                 !["service"][region] = File(b, "fd_region")]
       /\ handle' = [handle EXCEPT !["service"]["raw"][b] =
                       [gralloc_handle_create(usage) EXCEPT
                          !.fd = fd, !.fd_region = region, !.id = id,
                          !.format_modifier = modifier]]
       /\ asked' = [asked EXCEPT ![b] = [usage |-> usage, modifier |-> modifier, id |-> id]]

\* A copy in p of a handle h of process q.
Copy(h, q, p, l, b) ==
  /\ h # NoHandle /\ handle[p][l][b] = NoHandle
  /\ \E new \in [GRALLOC_PRIVATE_HANDLE_FDS -> FreeFds(p)] :
       /\ \A m, k \in GRALLOC_PRIVATE_HANDLE_FDS : new[m] = new[k] => m = k
       /\ \A m \in GRALLOC_PRIVATE_HANDLE_FDS : h[m] \in Fds /\ files[q][h[m]] # NoFile
       /\ files' = [files EXCEPT ![p] =
                      [n \in Fds |->
                         IF \E m \in GRALLOC_PRIVATE_HANDLE_FDS : new[m] = n
                         THEN files[q][h[CHOOSE m \in GRALLOC_PRIVATE_HANDLE_FDS : new[m] = n]]
                         ELSE files[p][n]]]
       /\ handle' = [handle EXCEPT ![p][l][b] =
                       [x \in DOMAIN h |->
                          IF x \in GRALLOC_PRIVATE_HANDLE_FDS THEN new[x] ELSE h[x]]]
  /\ UNCHANGED asked

\* The handle reaches a client, and importBuffer clones it.
Send(p, b) == Copy(handle["service"]["raw"][b], "service", p, "raw", b)

importBuffer(p, b) ==
  /\ GRALLOC_PRIVATE_HANDLE_FDS # {}
  /\ Copy(handle[p]["raw"][b], p, p, "imported", b)

\* Slip: the descriptors stay open.
Close_Forgets(p, l, b) ==
  /\ handle[p][l][b] # NoHandle
  /\ handle' = [handle EXCEPT ![p][l][b] = NoHandle]
  /\ UNCHANGED <<files, asked>>

\* native_handle_close and _delete.  The service's gralloc_manager::free closes
\* the region as well.
Close(p, l, b) ==
  /\ handle[p][l][b] # NoHandle
  /\ LET h == handle[p][l][b]
         closed == {h[m] : m \in IF p = "service" THEN FdMembers
                                                  ELSE GRALLOC_PRIVATE_HANDLE_FDS}
     IN files' = [files EXCEPT ![p] = [n \in Fds |-> IF n \in closed THEN NoFile
                                                                     ELSE files[p][n]]]
  /\ handle' = [handle EXCEPT ![p][l][b] = NoHandle]
  /\ UNCHANGED asked

\* The process opens or closes files of its own.
UseOtherFile(p) ==
  /\ \E n \in Fds :
       \/ files[p][n] = NoFile /\ files' = [files EXCEPT ![p][n] = OtherFile]
       \/ files[p][n] = OtherFile /\ files' = [files EXCEPT ![p][n] = NoFile]
  /\ UNCHANGED <<handle, asked>>

Next ==
  \/ \E b \in Buffers :
       \/ Allocate(b)
       \/ \E p \in Clients : Send(p, b) \/ importBuffer(p, b)
       \/ \E p \in Procs, l \in Places : Close(p, l, b)
  \/ \E p \in Procs : UseOtherFile(p)

Spec == Init /\ [][Next]_vars

-----------------------------------------------------------------------------
(* What getStandardMetadata tells of a handle.                             *)

\* gralloc_handle_id and gralloc_handle_format_modifier return an int.
BUFFER_ID(h) == SignExtend(Int32(h.id))
PIXEL_FORMAT_MODIFIER(h) == SignExtend(Int32(h.format_modifier))

\* gralloc_handle_usage returns the int member as uint64_t.
USAGE(h) == SignExtend(h.usage)

PROTECTED_CONTENT(h) == 14 \in USAGE(h)

-----------------------------------------------------------------------------
(* Properties.                                                             *)

AllFiles == {NoFile, OtherFile} \cup (Buffers \X {"memory", "region"})

\* The type invariant.
TypeOK ==
  /\ files \in [Procs -> [Fds -> AllFiles]]
  /\ handle \in [Procs -> [Places -> [Buffers -> HandleRecords \cup {NoHandle}]]]
  /\ DOMAIN asked = Buffers

\* Wherever a handle has travelled, its fd is open on the memory of its own
\* buffer, also after the service and other holders closed theirs and numbers
\* were used again.
MemoryTravels ==
  \A p \in Procs, l \in Places, b \in Buffers :
    handle[p][l][b] # NoHandle => files[p][handle[p][l][b].fd] = <<b, "memory">>

\* A process has a descriptor of a buffer open for exactly the handles it has
\* on it: a handle's descriptor is closed once, with the handle, and no other
\* handle goes blind or keeps the memory alive.
FdsOwned ==
  \A p \in Procs, n \in Fds, b \in Buffers :
    files[p][n] = <<b, "memory">> =>
      \E l \in Places :
        /\ handle[p][l][b] # NoHandle /\ handle[p][l][b].fd = n
        /\ \A k \in Places \ {l} :
             handle[p][k][b] # NoHandle => handle[p][k][b].fd # n

\* The bits of a word that int and uint64_t have in common, but for the sign.
Low == 0 .. 30

\* In every process the mapper tells protected content of each usage that is
\* accepted, and the low words of usage, id and modifier as they were.  The
\* other bits are those of the int they went through.
WordsTold ==
  \A p \in Procs, l \in Places, b \in Buffers :
    LET h == handle[p][l][b] IN
    h # NoHandle =>
      /\ USAGE(h) \cap Low = asked[b].usage \cap Low
      /\ PROTECTED_CONTENT(h) <=> 14 \in asked[b].usage
      /\ BUFFER_ID(h) \cap Low = asked[b].id \cap Low
      /\ PIXEL_FORMAT_MODIFIER(h) \cap Low = asked[b].modifier \cap Low

=============================================================================
