---------------------------- MODULE HandleProofs ----------------------------
(***************************************************************************)
(* Theorems about Handle: whatever processes send, clone and close, a      *)
(* handle's descriptor is its own and open on the memory of its buffer,    *)
(* and the mapper's answers from the handle are those of the allocation.   *)
(***************************************************************************)
EXTENDS Handle, TLAPS

-----------------------------------------------------------------------------
(* The inductive invariant.                                                 *)

Held(p, l, b) == handle[p][l][b] # NoHandle

\* The service closes the region with its handle: it must be the region.
ServiceRegion ==
  \A l \in Places, b \in Buffers :
    Held("service", l, b) =>
      files["service"][handle["service"][l][b].fd_region] = <<b, "region">>

\* The service has one handle on a buffer.
ServiceRaw == \A b \in Buffers : ~Held("service", "imported", b)

\* Two handles of a process have descriptors of their own.
OwnFds ==
  \A p \in Procs, l, k \in Places, b \in Buffers :
    Held(p, l, b) /\ Held(p, k, b) /\ l # k =>
      handle[p][l][b].fd # handle[p][k][b].fd

\* Memory is kept open by handles alone.
OpenFds ==
  \A p \in Procs, n \in Fds, b \in Buffers :
    files[p][n] = <<b, "memory">> =>
      \E l \in Places : Held(p, l, b) /\ handle[p][l][b].fd = n

\* The words of a handle are those it was created with.
Words ==
  \A p \in Procs, l \in Places, b \in Buffers :
    Held(p, l, b) =>
      /\ asked[b].usage \in Usages /\ asked[b].id \in Ids
      /\ handle[p][l][b].usage = Int32(asked[b].usage)
      /\ handle[p][l][b].id = asked[b].id
      /\ handle[p][l][b].format_modifier = asked[b].modifier

Inv == TypeOK /\ MemoryTravels /\ ServiceRegion /\ ServiceRaw /\ OwnFds /\ OpenFds /\ Words

LEMMA InvInit == Init => Inv
<1> SUFFICES ASSUME Init PROVE Inv
  OBVIOUS
<1>1. TypeOK
  BY DEF Init, TypeOK, AllFiles
<1>2. \A p \in Procs, l \in Places, b \in Buffers : ~Held(p, l, b)
  BY DEF Init, Held
<1>3. \A p \in Procs, n \in Fds, b \in Buffers : files[p][n] # <<b, "memory">>
  BY HandleAssumption DEF Init, HandleAssumption
<1>4. "service" \in Procs
  BY DEF Procs
<1>5. QED
  BY <1>1, <1>2, <1>3, <1>4 DEF Inv, MemoryTravels, ServiceRegion, ServiceRaw, OwnFds, OpenFds,
     Words, Held, Places

\* The driver allocates a buffer nobody has a handle on.
LEMMA AllocateStep ==
  ASSUME Inv, NEW b \in Buffers, Allocate(b)
  PROVE  Inv'
<1> USE DEF Inv
<1> DEFINE s == "service"
<1>1. PICK usage \in Usages, modifier \in Modifiers, id \in Ids :
        \E fd, region \in FreeFds(s) :
          /\ fd # region
          /\ files' = [files EXCEPT ![s][fd] = File(b, "fd"),
                                    ![s][region] = File(b, "fd_region")]
          /\ handle' = [handle EXCEPT ![s]["raw"][b] =
                          [gralloc_handle_create(usage) EXCEPT
                             !.fd = fd, !.fd_region = region, !.id = id,
                             !.format_modifier = modifier]]
          /\ asked' = [asked EXCEPT ![b] =
                          [usage |-> usage, modifier |-> modifier, id |-> id]]
  BY DEF Allocate
<1>2. PICK fd \in FreeFds(s), region \in FreeFds(s) :
        /\ fd # region
        /\ files' = [files EXCEPT ![s][fd] = File(b, "fd"),
                                  ![s][region] = File(b, "fd_region")]
        /\ handle' = [handle EXCEPT ![s]["raw"][b] =
                        [gralloc_handle_create(usage) EXCEPT
                           !.fd = fd, !.fd_region = region, !.id = id,
                           !.format_modifier = modifier]]
  BY <1>1
<1> DEFINE new == [gralloc_handle_create(usage) EXCEPT
                     !.fd = fd, !.fd_region = region, !.id = id,
                     !.format_modifier = modifier]
<1>3. /\ fd \in Fds /\ region \in Fds /\ files[s][fd] = NoFile /\ files[s][region] = NoFile
      /\ s \in Procs /\ "raw" \in Places
  BY DEF FreeFds, Procs, Places
<1>4. new \in HandleRecords /\ new # NoHandle
  <2>1. /\ id \in SUBSET (0..31) /\ modifier \in SUBSET (0..63)
        /\ Int32(usage) \in SUBSET (0..31)
    BY HandleAssumption DEF HandleAssumption, Int32
  <2>2. new \in HandleRecords
    BY <1>3, <2>1 DEF HandleRecords, gralloc_handle_create
  <2>3. QED BY <2>2, HandleAssumption DEF HandleAssumption
<1>5. /\ new.fd = fd /\ new.fd_region = region /\ new.id = id
      /\ new.usage = Int32(usage) /\ new.format_modifier = modifier
  BY DEF gralloc_handle_create
<1>6. handle' = [handle EXCEPT ![s]["raw"][b] = new]
  BY <1>2
<1> HIDE DEF new
<1>7. /\ handle'[s]["raw"][b] = new
       /\ \A p \in Procs, l \in Places, c \in Buffers :
            ~(p = s /\ l = "raw" /\ c = b) => handle'[p][l][c] = handle[p][l][c]
  BY <1>3, <1>6 DEF TypeOK
<1>8. /\ files'[s][fd] = <<b, "memory">> /\ files'[s][region] = <<b, "region">>
      /\ \A p \in Procs, n \in Fds :
           ~(p = s /\ n \in {fd, region}) => files'[p][n] = files[p][n]
  BY <1>2, <1>3 DEF TypeOK, File
<1>9. \A p \in Procs, l \in Places : handle[p][l][b] = NoHandle
  BY DEF Allocate, Gone
<1>10. TypeOK'
  <2>1. files' \in [Procs -> [Fds -> AllFiles]]
    BY <1>2, <1>3 DEF TypeOK, AllFiles, File
  <2>2. handle' \in [Procs -> [Places -> [Buffers -> HandleRecords \cup {NoHandle}]]]
    BY <1>3, <1>4, <1>6 DEF TypeOK
  <2>3. QED BY <1>1, <2>1, <2>2 DEF TypeOK
<1>11. \A p \in Procs, l \in Places, c \in Buffers :
         handle[p][l][c] # NoHandle =>
           /\ c # b
           /\ handle[p][l][c].fd \in Fds /\ handle[p][l][c].fd_region \in Fds
  BY <1>9 DEF TypeOK, HandleRecords
<1>12. \A p \in Procs, l \in Places, c \in Buffers :
         handle[p][l][c] # NoHandle => ~(p = s /\ handle[p][l][c].fd \in {fd, region})
  <2>1. \A c \in Buffers : <<c, "memory">> # NoFile
    BY HandleAssumption DEF HandleAssumption
  <2>2. QED BY <1>3, <2>1 DEF MemoryTravels
<1>13. MemoryTravels'
  <2> SUFFICES ASSUME NEW p \in Procs, NEW l \in Places, NEW c \in Buffers,
                      handle'[p][l][c] # NoHandle
               PROVE  files'[p][handle'[p][l][c].fd] = <<c, "memory">>
    BY DEF MemoryTravels
  <2>1. CASE p = s /\ l = "raw" /\ c = b
    BY <1>5, <1>7, <1>8, <2>1
  <2>2. CASE ~(p = s /\ l = "raw" /\ c = b)
    <3>1. handle'[p][l][c] = handle[p][l][c] /\ handle[p][l][c] # NoHandle
      BY <1>7, <2>2
    <3>2. files'[p][handle[p][l][c].fd] = files[p][handle[p][l][c].fd]
      BY <1>8, <1>11, <1>12, <3>1
    <3>3. QED BY <3>1, <3>2 DEF MemoryTravels
  <2>3. QED BY <2>1, <2>2
<1>14. ServiceRegion'
  <2> SUFFICES ASSUME NEW l \in Places, NEW c \in Buffers, handle'[s][l][c] # NoHandle
               PROVE  files'[s][handle'[s][l][c].fd_region] = <<c, "region">>
    BY DEF ServiceRegion, Held
  <2>1. CASE l = "raw" /\ c = b
    BY <1>5, <1>7, <1>8, <2>1
  <2>2. CASE ~(l = "raw" /\ c = b)
    <3>1. handle'[s][l][c] = handle[s][l][c] /\ handle[s][l][c] # NoHandle
      BY <1>3, <1>7, <2>2
    <3>2. files[s][handle[s][l][c].fd_region] = <<c, "region">>
      BY <3>1 DEF ServiceRegion, Held
    <3>3. <<c, "region">> # NoFile
      BY HandleAssumption DEF HandleAssumption
    <3>4. files'[s][handle[s][l][c].fd_region] = files[s][handle[s][l][c].fd_region]
      BY <1>3, <1>8, <1>11, <3>1, <3>2, <3>3
    <3>5. QED BY <3>1, <3>2, <3>4
  <2>3. QED BY <2>1, <2>2
<1>15. OwnFds' /\ ServiceRaw'
  BY <1>3, <1>7, <1>9, <1>11 DEF OwnFds, ServiceRaw, Held, Places
<1>16. OpenFds'
  <2> SUFFICES ASSUME NEW p \in Procs, NEW n \in Fds, NEW c \in Buffers,
                      files'[p][n] = <<c, "memory">>
               PROVE  \E l \in Places : handle'[p][l][c] # NoHandle /\ handle'[p][l][c].fd = n
    BY DEF OpenFds, Held
  <2>1. CASE p = s /\ n = fd
    BY <1>3, <1>4, <1>5, <1>7, <1>8, <2>1
  <2>2. CASE p = s /\ n = region
    BY <1>8, <2>2
  <2>3. CASE ~(p = s /\ n \in {fd, region})
    <3>1. PICK l \in Places : handle[p][l][c] # NoHandle /\ handle[p][l][c].fd = n
      BY <1>8, <2>3 DEF OpenFds, Held
    <3>2. QED BY <1>7, <1>11, <3>1
  <2>4. QED BY <2>1, <2>2, <2>3
<1>17. Words'
  <2>1. asked'[b].usage = usage /\ asked'[b].id = id /\ asked'[b].modifier = modifier
    BY <1>1 DEF TypeOK
  <2>2. \A c \in Buffers : c # b => asked'[c] = asked[c]
    BY <1>1 DEF TypeOK
  <2>3. QED BY <1>4, <1>5, <1>7, <1>9, <2>1, <2>2 DEF Words, Held
<1>18. QED BY <1>10, <1>13, <1>14, <1>15, <1>16, <1>17

\* A handle is sent or cloned.
LEMMA CopyStep ==
  ASSUME Inv, NEW q \in Procs, NEW p \in Procs, NEW m \in Places, NEW l \in Places,
         NEW b \in Buffers, p # "service", Copy(handle[q][m][b], q, p, l, b)
  PROVE  Inv'
<1> USE DEF Inv
<1> DEFINE h == handle[q][m][b]
<1>1. PICK new \in [{"fd"} -> FreeFds(p)] :
        /\ h["fd"] \in Fds
        /\ files' = [files EXCEPT ![p] =
             [n \in Fds |->
                IF \E x \in {"fd"} : new[x] = n
                THEN files[q][h[CHOOSE x \in {"fd"} : new[x] = n]] ELSE files[p][n]]]
        /\ handle' = [handle EXCEPT ![p][l][b] =
             [x \in DOMAIN h |-> IF x \in {"fd"} THEN new[x] ELSE h[x]]]
  BY DEF Copy, GRALLOC_PRIVATE_HANDLE_FDS
<1>2. h # NoHandle /\ handle[p][l][b] = NoHandle /\ asked' = asked
  BY DEF Copy
<1> DEFINE fd == new["fd"]
           copy == [x \in DOMAIN h |-> IF x \in {"fd"} THEN new[x] ELSE h[x]]
<1>3. fd \in Fds /\ files[p][fd] = NoFile
  BY <1>1 DEF FreeFds
<1>4. h \in HandleRecords
  BY <1>2 DEF TypeOK
<1>5. /\ copy \in HandleRecords /\ copy # NoHandle
      /\ copy.fd = fd /\ copy.fd_region = h.fd_region
      /\ copy.usage = h.usage /\ copy.id = h.id
      /\ copy.format_modifier = h.format_modifier
  <2>1. /\ copy \in HandleRecords
        /\ copy.fd = fd /\ copy.fd_region = h.fd_region
        /\ copy.usage = h.usage /\ copy.id = h.id
        /\ copy.format_modifier = h.format_modifier
    BY <1>3, <1>4 DEF HandleRecords
  <2>2. QED BY <2>1, HandleAssumption DEF HandleAssumption
<1>6. handle' = [handle EXCEPT ![p][l][b] = copy]
  BY <1>1
<1> HIDE DEF copy
<1>7. /\ handle'[p][l][b] = copy
      /\ \A r \in Procs, k \in Places, c \in Buffers :
           ~(r = p /\ k = l /\ c = b) => handle'[r][k][c] = handle[r][k][c]
  BY <1>6 DEF TypeOK
<1>8. files[q][h.fd] = <<b, "memory">>
  BY <1>2 DEF MemoryTravels
<1>9. \A n \in Fds :
        [k \in Fds |->
           IF \E x \in {"fd"} : new[x] = k
           THEN files[q][h[CHOOSE x \in {"fd"} : new[x] = k]] ELSE files[p][k]][n]
        = IF n = fd THEN <<b, "memory">> ELSE files[p][n]
  <2> SUFFICES ASSUME NEW n \in Fds
               PROVE  (IF \E x \in {"fd"} : new[x] = n
                       THEN files[q][h[CHOOSE x \in {"fd"} : new[x] = n]] ELSE files[p][n])
                      = IF n = fd THEN <<b, "memory">> ELSE files[p][n]
    OBVIOUS
  <2>1. CASE n = fd
    <3>1. (CHOOSE x \in {"fd"} : new[x] = n) = "fd"
      BY <2>1
    <3>2. QED BY <1>8, <2>1, <3>1
  <2>2. CASE n # fd
    BY <2>2
  <2>3. QED BY <2>1, <2>2
<1>10. /\ files'[p][fd] = <<b, "memory">>
       /\ \A r \in Procs, n \in Fds :
            ~(r = p /\ n = fd) => files'[r][n] = files[r][n]
       /\ files' \in [Procs -> [Fds -> AllFiles]]
  <2>1. files'[p] \in [Fds -> AllFiles]
    BY <1>1, <1>9 DEF TypeOK, AllFiles
  <2>2. QED BY <1>1, <1>3, <1>9, <2>1 DEF TypeOK
<1>11. TypeOK'
  <2>1. handle' \in [Procs -> [Places -> [Buffers -> HandleRecords \cup {NoHandle}]]]
    BY <1>5, <1>6 DEF TypeOK
  <2>2. QED BY <1>2, <1>10, <2>1 DEF TypeOK
<1> HIDE DEF fd, h
<1>12. \A r \in Procs, k \in Places, c \in Buffers :
         handle[r][k][c] # NoHandle =>
           /\ handle[r][k][c].fd \in Fds
           /\ ~(r = p /\ handle[r][k][c].fd = fd)
           /\ ~(r = p /\ k = l /\ c = b)
  <2> SUFFICES ASSUME NEW r \in Procs, NEW k \in Places, NEW c \in Buffers,
                      handle[r][k][c] # NoHandle
               PROVE  /\ handle[r][k][c].fd \in Fds
                      /\ ~(r = p /\ handle[r][k][c].fd = fd)
                      /\ ~(r = p /\ k = l /\ c = b)
    OBVIOUS
  <2>1. handle[r][k][c].fd \in Fds
    BY DEF TypeOK, HandleRecords
  <2>2. files[r][handle[r][k][c].fd] = <<c, "memory">> /\ <<c, "memory">> # NoFile
    BY HandleAssumption DEF HandleAssumption, MemoryTravels
  <2>3. QED BY <1>2, <1>3, <2>1, <2>2
<1>13. MemoryTravels'
  <2> SUFFICES ASSUME NEW r \in Procs, NEW k \in Places, NEW c \in Buffers,
                      handle'[r][k][c] # NoHandle
               PROVE  files'[r][handle'[r][k][c].fd] = <<c, "memory">>
    BY DEF MemoryTravels
  <2>1. CASE r = p /\ k = l /\ c = b
    BY <1>5, <1>7, <1>10, <2>1
  <2>2. CASE ~(r = p /\ k = l /\ c = b)
    <3>1. handle'[r][k][c] = handle[r][k][c] /\ handle[r][k][c] # NoHandle
      BY <1>7, <2>2
    <3>2. files'[r][handle[r][k][c].fd] = files[r][handle[r][k][c].fd]
      BY <1>10, <1>12, <3>1
    <3>3. QED BY <3>1, <3>2 DEF MemoryTravels
  <2>3. QED BY <2>1, <2>2
<1>14. ServiceRegion'
  <2> SUFFICES ASSUME NEW k \in Places, NEW c \in Buffers,
                      handle'["service"][k][c] # NoHandle
               PROVE  files'["service"][handle'["service"][k][c].fd_region] = <<c, "region">>
    BY DEF ServiceRegion, Held
  <2>1. "service" \in Procs
    BY DEF Procs
  <2>2. handle'["service"][k][c] = handle["service"][k][c]
    BY <1>7, <2>1
  <2>3. handle["service"][k][c].fd_region \in Fds
    BY <2>1, <2>2 DEF TypeOK, HandleRecords
  <2>4. QED BY <1>10, <2>1, <2>2, <2>3 DEF ServiceRegion, Held
<1>15. OwnFds' /\ ServiceRaw'
  <2>1. OwnFds'
    <3> SUFFICES ASSUME NEW r \in Procs, NEW k \in Places, NEW j \in Places,
                        NEW c \in Buffers, k # j,
                        handle'[r][k][c] # NoHandle, handle'[r][j][c] # NoHandle
                 PROVE  handle'[r][k][c].fd # handle'[r][j][c].fd
      BY DEF OwnFds, Held
    <3>1. CASE r = p /\ c = b /\ k = l
      BY <1>5, <1>7, <1>12, <3>1
    <3>2. CASE r = p /\ c = b /\ j = l
      BY <1>5, <1>7, <1>12, <3>2
    <3>3. CASE ~(r = p /\ c = b /\ l \in {k, j})
      BY <1>7, <3>3 DEF OwnFds, Held
    <3>4. QED BY <3>1, <3>2, <3>3
  <2>2. ServiceRaw'
    BY <1>7 DEF ServiceRaw, Held, Places, Procs
  <2>3. QED BY <2>1, <2>2
<1>16. OpenFds'
  <2> SUFFICES ASSUME NEW r \in Procs, NEW n \in Fds, NEW c \in Buffers,
                      files'[r][n] = <<c, "memory">>
               PROVE  \E k \in Places : handle'[r][k][c] # NoHandle /\ handle'[r][k][c].fd = n
    BY DEF OpenFds, Held
  <2>1. CASE r = p /\ n = fd
    BY <1>5, <1>7, <1>10, <2>1
  <2>2. CASE ~(r = p /\ n = fd)
    <3>1. PICK k \in Places : handle[r][k][c] # NoHandle /\ handle[r][k][c].fd = n
      BY <1>10, <2>2 DEF OpenFds, Held
    <3>2. QED BY <1>7, <1>12, <3>1
  <2>3. QED BY <2>1, <2>2
<1>17. Words'
  BY <1>2, <1>5, <1>7 DEF Words, Held, h
<1>18. QED BY <1>11, <1>13, <1>14, <1>15, <1>16, <1>17

\* A handle is closed.
LEMMA CloseStep ==
  ASSUME Inv, NEW p \in Procs, NEW l \in Places, NEW b \in Buffers, Close(p, l, b)
  PROVE  Inv'
<1> USE DEF Inv
<1> DEFINE h == handle[p][l][b]
           closed == {h[m] : m \in IF p = "service" THEN {"fd", "fd_region"} ELSE {"fd"}}
<1>1. /\ h # NoHandle /\ asked' = asked
      /\ files' = [files EXCEPT ![p] = [n \in Fds |-> IF n \in closed THEN NoFile
                                                                      ELSE files[p][n]]]
      /\ handle' = [handle EXCEPT ![p][l][b] = NoHandle]
  BY DEF Close, GRALLOC_PRIVATE_HANDLE_FDS, FdMembers
<1>2. /\ h.fd \in closed
      /\ \A n \in closed : n = h.fd \/ (p = "service" /\ n = h.fd_region)
  OBVIOUS
<1> HIDE DEF closed
<1>3. /\ \A r \in Procs, n \in Fds : files'[r][n] =
           IF r = p /\ n \in closed THEN NoFile ELSE files[r][n]
      /\ files' \in [Procs -> [Fds -> AllFiles]]
  BY <1>1 DEF TypeOK, AllFiles
<1>4. \A r \in Procs, k \in Places, c \in Buffers : handle'[r][k][c] =
        IF r = p /\ k = l /\ c = b THEN NoHandle ELSE handle[r][k][c]
  BY <1>1 DEF TypeOK
<1>5. TypeOK'
  BY <1>1, <1>3 DEF TypeOK
<1>6. /\ files[p][h.fd] = <<b, "memory">>
      /\ p = "service" => files[p][h.fd_region] = <<b, "region">>
  BY <1>1 DEF MemoryTravels, ServiceRegion, Held
<1> HIDE DEF h
<1>7. \A k \in Places, c \in Buffers :
        handle'[p][k][c] # NoHandle =>
          /\ handle[p][k][c] # NoHandle /\ ~(k = l /\ c = b)
          /\ files[p][handle[p][k][c].fd] = <<c, "memory">>
          /\ handle[p][k][c].fd \in Fds /\ handle[p][k][c].fd_region \in Fds
  <2> SUFFICES ASSUME NEW k \in Places, NEW c \in Buffers, handle'[p][k][c] # NoHandle
               PROVE  /\ handle[p][k][c] # NoHandle /\ ~(k = l /\ c = b)
                      /\ files[p][handle[p][k][c].fd] = <<c, "memory">>
                      /\ handle[p][k][c].fd \in Fds /\ handle[p][k][c].fd_region \in Fds
    OBVIOUS
  <2>1. handle[p][k][c] # NoHandle /\ ~(k = l /\ c = b)
    BY <1>4
  <2>2. files[p][handle[p][k][c].fd] = <<c, "memory">>
    BY <2>1 DEF MemoryTravels
  <2>3. handle[p][k][c].fd \in Fds /\ handle[p][k][c].fd_region \in Fds
    BY <2>1 DEF TypeOK, HandleRecords
  <2>4. QED BY <2>1, <2>2, <2>3
<1>8. \A k \in Places, c \in Buffers :
        handle'[p][k][c] # NoHandle => handle[p][k][c].fd \notin closed
  <2> SUFFICES ASSUME NEW k \in Places, NEW c \in Buffers, handle'[p][k][c] # NoHandle
               PROVE  handle[p][k][c].fd \notin closed
    OBVIOUS
  <2>1. /\ handle[p][k][c] # NoHandle /\ ~(k = l /\ c = b)
        /\ files[p][handle[p][k][c].fd] = <<c, "memory">>
    BY <1>7
  <2>2. handle[p][k][c].fd # h.fd
    <3>1. CASE c = b
      BY <1>1, <2>1, <3>1 DEF OwnFds, Held, h
    <3>2. CASE c # b
      BY <1>6, <2>1, <3>2
    <3>3. QED BY <3>1, <3>2
  <2>3. p = "service" => handle[p][k][c].fd # h.fd_region
    BY <1>6, <2>1
  <2>4. QED BY <1>2, <2>2, <2>3
<1>9. MemoryTravels'
  <2> SUFFICES ASSUME NEW r \in Procs, NEW k \in Places, NEW c \in Buffers,
                      handle'[r][k][c] # NoHandle
               PROVE  files'[r][handle'[r][k][c].fd] = <<c, "memory">>
    BY DEF MemoryTravels
  <2>1. CASE r = p
    BY <1>3, <1>4, <1>7, <1>8, <2>1
  <2>2. CASE r # p
    BY <1>3, <1>4, <2>2 DEF MemoryTravels, TypeOK, HandleRecords
  <2>3. QED BY <2>1, <2>2
<1>10. ServiceRegion'
  <2> SUFFICES ASSUME NEW k \in Places, NEW c \in Buffers,
                      handle'["service"][k][c] # NoHandle
               PROVE  files'["service"][handle'["service"][k][c].fd_region] = <<c, "region">>
    BY DEF ServiceRegion, Held
  <2>1. "service" \in Procs
    BY DEF Procs
  <2>2. /\ handle["service"][k][c] # NoHandle
        /\ handle'["service"][k][c] = handle["service"][k][c]
        /\ handle["service"][k][c].fd_region \in Fds
        /\ files["service"][handle["service"][k][c].fd_region] = <<c, "region">>
    BY <1>4, <2>1 DEF ServiceRegion, Held, TypeOK, HandleRecords
  <2>3. CASE p = "service"
    <3>1. c # b
      BY <1>1, <1>4, <2>2, <2>3 DEF ServiceRaw, Held, Places, h
    <3>2. handle["service"][k][c].fd_region \notin closed
      BY <1>2, <1>6, <2>2, <2>3, <3>1
    <3>3. QED BY <1>3, <2>1, <2>2, <3>2
  <2>4. CASE p # "service"
    BY <1>3, <2>1, <2>2, <2>4
  <2>5. QED BY <2>3, <2>4
<1>11. OwnFds' /\ ServiceRaw'
  BY <1>4 DEF OwnFds, ServiceRaw, Held, Places, Procs
<1>12. OpenFds'
  <2> SUFFICES ASSUME NEW r \in Procs, NEW n \in Fds, NEW c \in Buffers,
                      files'[r][n] = <<c, "memory">>
               PROVE  \E k \in Places : handle'[r][k][c] # NoHandle /\ handle'[r][k][c].fd = n
    BY DEF OpenFds, Held
  <2>1. <<c, "memory">> # NoFile
    BY HandleAssumption DEF HandleAssumption
  <2>2. files[r][n] = <<c, "memory">> /\ ~(r = p /\ n \in closed)
    BY <1>3, <2>1
  <2>3. PICK k \in Places : handle[r][k][c] # NoHandle /\ handle[r][k][c].fd = n
    BY <2>2 DEF OpenFds, Held
  <2>4. ~(r = p /\ k = l /\ c = b)
    BY <1>2, <2>2, <2>3 DEF h
  <2>5. QED BY <1>4, <2>3, <2>4
<1>13. Words'
  BY <1>1, <1>4 DEF Words, Held
<1>14. QED BY <1>5, <1>9, <1>10, <1>11, <1>12, <1>13

\* A process uses a file of its own.
LEMMA OtherStep ==
  ASSUME Inv, NEW p \in Procs, UseOtherFile(p)
  PROVE  Inv'
<1> USE DEF Inv
<1>1. PICK n \in Fds :
        \/ files[p][n] = NoFile /\ files' = [files EXCEPT ![p][n] = OtherFile]
        \/ files[p][n] = OtherFile /\ files' = [files EXCEPT ![p][n] = NoFile]
  BY DEF UseOtherFile
<1>2. UNCHANGED <<handle, asked>>
  BY DEF UseOtherFile
<1>3. /\ files[p][n] \in {NoFile, OtherFile} /\ files'[p][n] \in {NoFile, OtherFile}
      /\ \A r \in Procs, k \in Fds : ~(r = p /\ k = n) => files'[r][k] = files[r][k]
      /\ files' \in [Procs -> [Fds -> AllFiles]]
  <2>1. {NoFile, OtherFile} \subseteq AllFiles
    BY DEF AllFiles
  <2>2. PICK f \in {NoFile, OtherFile} :
          files[p][n] \in {NoFile, OtherFile} /\ files' = [files EXCEPT ![p][n] = f]
    BY <1>1
  <2>3. files'[p] = [files[p] EXCEPT ![n] = f]
    BY <2>2 DEF TypeOK
  <2>4. \A r \in Procs : r # p => files'[r] = files[r]
    BY <2>2 DEF TypeOK
  <2>5. files[p] \in [Fds -> AllFiles]
    BY DEF TypeOK
  <2>6. files'[p][n] = f /\ \A k \in Fds : k # n => files'[p][k] = files[p][k]
    BY <2>3, <2>5
  <2>7. files' \in [Procs -> [Fds -> AllFiles]]
    BY <2>1, <2>2 DEF TypeOK
  <2>8. QED BY <2>2, <2>4, <2>6, <2>7
<1>4. \A c \in Buffers : <<c, "memory">> \notin {NoFile, OtherFile}
                       /\ <<c, "region">> \notin {NoFile, OtherFile}
  BY HandleAssumption DEF HandleAssumption
<1>5. \A r \in Procs, l \in Places, c \in Buffers :
        handle[r][l][c] # NoHandle =>
          handle[r][l][c].fd \in Fds /\ handle[r][l][c].fd_region \in Fds
  BY DEF TypeOK, HandleRecords
<1>6. TypeOK' /\ ServiceRaw' /\ OwnFds' /\ Words'
  BY <1>2, <1>3 DEF TypeOK, ServiceRaw, OwnFds, Words, Held
<1>7. MemoryTravels'
  <2> SUFFICES ASSUME NEW r \in Procs, NEW l \in Places, NEW c \in Buffers,
                      handle[r][l][c] # NoHandle
               PROVE  files'[r][handle[r][l][c].fd] = <<c, "memory">>
    BY <1>2 DEF MemoryTravels
  <2>1. files[r][handle[r][l][c].fd] = <<c, "memory">>
    BY DEF MemoryTravels
  <2>2. QED BY <1>3, <1>4, <1>5, <2>1
<1>8. ServiceRegion'
  <2> SUFFICES ASSUME NEW l \in Places, NEW c \in Buffers,
                      handle["service"][l][c] # NoHandle
               PROVE  files'["service"][handle["service"][l][c].fd_region] = <<c, "region">>
    BY <1>2 DEF ServiceRegion, Held
  <2>1. files["service"][handle["service"][l][c].fd_region] = <<c, "region">>
        /\ "service" \in Procs
    BY DEF ServiceRegion, Held, Procs
  <2>2. QED BY <1>3, <1>4, <1>5, <2>1
<1>9. OpenFds'
  <2> SUFFICES ASSUME NEW r \in Procs, NEW k \in Fds, NEW c \in Buffers,
                      files'[r][k] = <<c, "memory">>
               PROVE  files[r][k] = <<c, "memory">>
    BY <1>2 DEF OpenFds, Held
  <2>1. QED BY <1>3, <1>4
<1>10. QED BY <1>6, <1>7, <1>8, <1>9

LEMMA InvStep == Inv /\ [Next]_vars => Inv'
<1> SUFFICES ASSUME Inv, [Next]_vars PROVE Inv'
  OBVIOUS
<1>1. ASSUME NEW b \in Buffers, Allocate(b) PROVE Inv'
  BY <1>1, AllocateStep
<1>2. ASSUME NEW b \in Buffers, NEW p \in Clients, Send(p, b) PROVE Inv'
  <2>1. p \in Procs /\ "service" \in Procs /\ p # "service" /\ "raw" \in Places
    BY HandleAssumption DEF HandleAssumption, Procs, Places
  <2>2. Copy(handle["service"]["raw"][b], "service", p, "raw", b)
    BY <1>2 DEF Send
  <2>3. QED BY <2>1, <2>2, CopyStep
<1>3. ASSUME NEW b \in Buffers, NEW p \in Clients, importBuffer(p, b) PROVE Inv'
  <2>1. p \in Procs /\ p # "service" /\ "raw" \in Places /\ "imported" \in Places
    BY HandleAssumption DEF HandleAssumption, Procs, Places
  <2>2. Copy(handle[p]["raw"][b], p, p, "imported", b)
    BY <1>3 DEF importBuffer
  <2>3. QED BY <2>1, <2>2, CopyStep
<1>4. ASSUME NEW b \in Buffers, NEW p \in Procs, NEW l \in Places, Close(p, l, b)
      PROVE  Inv'
  BY <1>4, CloseStep
<1>5. ASSUME NEW p \in Procs, UseOtherFile(p) PROVE Inv'
  BY <1>5, OtherStep
<1>6. CASE UNCHANGED vars
  <2>1. files' = files /\ handle' = handle /\ asked' = asked
    BY <1>6 DEF vars
  <2>2. TypeOK' /\ MemoryTravels' /\ ServiceRegion' /\ ServiceRaw'
    BY <2>1 DEF Inv, TypeOK, MemoryTravels, ServiceRegion, ServiceRaw, Held
  <2>3. OwnFds' /\ OpenFds'
    BY <2>1 DEF Inv, OwnFds, OpenFds, Held
  <2>4. Words'
    BY <2>1 DEF Inv, Words, Held
  <2>5. QED BY <2>2, <2>3, <2>4 DEF Inv
<1>7. QED BY <1>1, <1>2, <1>3, <1>4, <1>5, <1>6 DEF Next

-----------------------------------------------------------------------------
(* The theorems.                                                            *)

\* The inductive invariant holds always.
THEOREM Invariance == Spec => []Inv
<1>1. QED BY InvInit, InvStep, PTL DEF Spec

\* Handles are records of the struct's members, wherever they are copied.
THEOREM TypeCorrect == Spec => []TypeOK
<1>1. Inv => TypeOK
  BY DEF Inv
<1>2. QED BY <1>1, Invariance, PTL

\* Wherever a handle has travelled, through messages and importBuffer, its
\* descriptor is open on the memory of its own buffer.
THEOREM HandlesSee == Spec => []MemoryTravels
<1>1. Inv => MemoryTravels
  BY DEF Inv
<1>2. QED BY <1>1, Invariance, PTL

\* A descriptor of a buffer's memory belongs to exactly one handle of its
\* process, so that it is closed once, with it.
THEOREM HandlesOwn == Spec => []FdsOwned
<1>1. Inv => FdsOwned
  <2> SUFFICES ASSUME Inv, NEW p \in Procs, NEW n \in Fds, NEW b \in Buffers,
                      files[p][n] = <<b, "memory">>
               PROVE  \E l \in Places :
                        /\ handle[p][l][b] # NoHandle /\ handle[p][l][b].fd = n
                        /\ \A k \in Places \ {l} :
                             handle[p][k][b] # NoHandle => handle[p][k][b].fd # n
    BY DEF FdsOwned
  <2>1. PICK l \in Places : handle[p][l][b] # NoHandle /\ handle[p][l][b].fd = n
    BY DEF Inv, OpenFds, Held
  <2>2. \A k \in Places \ {l} :
          handle[p][k][b] # NoHandle => handle[p][k][b].fd # n
    BY <2>1 DEF Inv, OwnFds, Held
  <2>3. QED BY <2>1, <2>2
<1>2. QED BY <1>1, Invariance, PTL

\* The low 31 bits of what was put into an int and comes out as an int or a
\* uint64_t are what they were.
LEMMA LowBits ==
  ASSUME NEW word
  PROVE  SignExtend(Int32(word)) \cap Low = word \cap Low
<1>1. \A n \in Low : n \in 0 .. 31 /\ n \notin 32 .. 63
  BY DEF Low
<1>2. \A n \in Low : n \in SignExtend(Int32(word)) <=> n \in word
  BY <1>1 DEF SignExtend, Int32
<1>3. QED BY <1>2

\* What the mapper tells of usage, protected content, buffer id and modifier
\* is, but for the upper words, what the buffer was allocated with.
THEOREM HandlesTell == Spec => []WordsTold
<1>1. Inv => WordsTold
  <2> SUFFICES ASSUME Inv, NEW p \in Procs, NEW l \in Places, NEW b \in Buffers,
                      handle[p][l][b] # NoHandle
               PROVE  /\ USAGE(handle[p][l][b]) \cap Low = asked[b].usage \cap Low
                      /\ PROTECTED_CONTENT(handle[p][l][b]) <=> 14 \in asked[b].usage
                      /\ BUFFER_ID(handle[p][l][b]) \cap Low = asked[b].id \cap Low
                      /\ PIXEL_FORMAT_MODIFIER(handle[p][l][b]) \cap Low
                           = asked[b].modifier \cap Low
    BY DEF WordsTold
  <2>1. /\ handle[p][l][b].usage = Int32(asked[b].usage)
        /\ handle[p][l][b].id = asked[b].id
        /\ handle[p][l][b].format_modifier = asked[b].modifier
    BY DEF Inv, Words, Held
  <2>2. USAGE(handle[p][l][b]) \cap Low = asked[b].usage \cap Low
    BY <2>1, LowBits DEF USAGE
  <2>3. PROTECTED_CONTENT(handle[p][l][b]) <=> 14 \in asked[b].usage
    BY <2>2 DEF PROTECTED_CONTENT, Low
  <2>4. /\ BUFFER_ID(handle[p][l][b]) \cap Low = asked[b].id \cap Low
        /\ PIXEL_FORMAT_MODIFIER(handle[p][l][b]) \cap Low = asked[b].modifier \cap Low
    BY <2>1, LowBits DEF BUFFER_ID, PIXEL_FORMAT_MODIFIER
  <2>5. QED BY <2>2, <2>3, <2>4
<1>2. QED BY <1>1, Invariance, PTL

=============================================================================
