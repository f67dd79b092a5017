# Verification of the STM32 hardware peripheral allocator (gralloc)

This directory holds TLA+ models of the Android graphics allocator service, of
the buffer mapper and of the libraries they share, the TLC configurations that
check them and TLAPS proofs about all of them. Paths below are those of the
repository.

## 1. Inventory

| Part | Source | State | Operations | Interacts with |
|---|---|---|---|---|
| Allocator service | `allocator/aidl/allocator.cpp`, `allocator.h`, `service.cpp` | `mManager`; per call: `handles`, the result's `buffers`, loop counters | `allocate`, `allocate2`, `isSupported`, `allocate_common` | called by clients over binder, on up to five threads at once (a pool of four and the main thread); calls `gralloc_manager::allocate` and `free`, and `dupToAidl` |
| Descriptor checks | `allocator.cpp` 54-140, `allocator.h` 39-89 | none | `toInternalDescriptor`, `usageTestLoop` | format conversion |
| Format conversion | `utils/gralloc_helpers.cpp`, `utils/helpers.cpp` | none | `gralloc_convert_format`, `drv_convert_gralloc_format_to_drm_format`, `convert_pix_format_to_viv_format` | descriptor checks, driver, mapper |
| Usage conversion | `gralloc_helpers.cpp` 105-177 | the local words of a call | `gralloc_convert_usage`, `gralloc_convert_map_usage` | driver |
| Plane layout | `utils/helpers.cpp` | a handle's `strides`, `sizes`, `offsets`, `total_size` | `drv_bo_from_format` and what it is made of | called by the driver |
| Plane layout reports | `utils/gralloc_utils.cpp`, `mapper/mapper.cpp` 473-494 | a constant map | `getPlaneLayouts`, the `PLANE_LAYOUTS` getter | mapper metadata |
| Buffer handle | `gralloc_priv.h`, `gralloc_vivante_handle.h` | `private_handle_t`, the descriptors it carries | creation, copies, closing, getters | made by the driver, sent by the service, cloned by the mapper |
| Mapper, handle life cycle | `mapper/mapper.cpp` 164-253, 749-798 | imported handles, the driver's registrations, `reserved_region_addrs` | `importBuffer`, `freeBuffer`, `getReservedRegion`, `dumpAllBuffers` | called by any thread of a client process; calls the driver and `gralloc_manager` |
| Mapper, access and fences | `mapper.cpp` 234-377, `gralloc_helpers.cpp` 237-264 | the process's descriptors, the driver's locks | `lock`, `unlock`, `flushLockedBuffer`, `rereadLockedBuffer`, `getTransportSize`, `waitFenceFd`, `gralloc_sync_wait` | driver, sync fences |
| Mapper, metadata | `mapper.cpp` 379-683, 800-981, `utils/gralloc_utils_metadata.h` | `gralloc_metadata` in a shared region | get and set of standard metadata, the list of types | shared by all importers of a buffer |
| `gralloc_manager`, Vivante driver | only headers in the repository | device memory, regions | `allocate`, `free`, `release`, `get_reserved_region`, `registerBuffer` ... | external |
| Service start | `service.cpp` | none | registration, thread pool | only the pool and the constructor's outcome are modelled, in `Allocator` |

What is hard here:

- **Interleaving.** Several binder threads work through batches in the service,
  and several threads of a client import, free, lock and dump. Buffers, addresses
  and descriptor numbers that one thread releases another may be handed at once.
- **Partial failure.** Every call to the manager, the driver, `dupToAidl`,
  `sync_wait` and `native_handle_clone` may fail in the middle of a batch, of a
  `freeBuffer` or of a wait.
- **Stale state.** `reserved_region_addrs` is keyed by the address of a handle,
  and addresses are reused. Four tables describe the same formats independently,
  three tables the same usage bits. Metadata is shared memory without a lock.
- **Timeouts.** Both waits for a fence time out once and then wait without end.
- **Numeric edges.** 32-bit sizes and strides, odd sizes of subsampled planes,
  getters that narrow.

What makes each part correct: the service grants a buffer to one client, for the
descriptor that client gave, all slots or none, keeps nothing, and answers every
call. The planes of a buffer are disjoint and large enough, and described to
clients as they are. A handle sees the memory of its own buffer wherever it is
copied, and its descriptor is closed once. A handle's region is that of its own
buffer, a deleted handle is unknown everywhere, no clone is lost. Access follows
the fence, fences are closed once, locks balance. Metadata is what was last set.
`PROJECT.json` lists the hazards one by one, at their lines.

## 2. Modules

| Module | Models | Notes |
|---|---|---|
| `PixelFormats` | the three format tables | a code is a name, one name per code |
| `Descriptor` | descriptor checks, `isSupported` | a usage word is the set of its bits |
| `AllocService` | what the service promises: an answer at one instant | abstract |
| `Allocator` | the service, step by step; extends `Descriptor` | implements `AllocService` |
| `Layout` | layout tables and 32-bit arithmetic of `helpers.cpp` | `Word` stands for 2^32 |
| `PlaneLayouts` | `GetPlaneLayoutsMap`, `getPlaneLayouts` | |
| `BufferLayout` | `drv_bo_from_format`, then `PLANE_LAYOUTS` | composes `Layout` and `PlaneLayouts` |
| `Usage` | `gralloc_convert_usage`, `gralloc_convert_map_usage` | extends `Descriptor` |
| `Handle` | `private_handle_t` between service and clients | composes the service's and the mapper's side of a handle; extends `Descriptor` |
| `HandleTable` | what the mapper promises of a client's handles: a table from addresses to buffers | abstract |
| `Mapper` | the handles of a client process | implements `HandleTable` |
| `FencedLocks` | what `lock`, `unlock` and `gralloc_sync_wait` promise: an answer at one instant, after the fence | abstract |
| `Access` | locks and fences in a client process | implements `FencedLocks` |
| `MetadataStore` | what the mapper promises of metadata | abstract |
| `Metadata` | sets and gets word by word in shared memory | implements `MetadataStore` |
| `AllocatorProofs`, `MapperProofs`, `LayoutProofs`, `UsageProofs`, `AccessProofs`, `MetadataProofs`, `HandleProofs` | theorems about the module of that name (`LayoutProofs`: about `BufferLayout`) | TLAPS |
| `MCAllocator`, `MCBufferLayout`, `MCMapper`, `MCUsage`, `MCAccess`, `MCMetadata`, `MCHandle` | instances for TLC | |

### Allocator

`pc[t]` is where thread `t` is: `called` (before the checks of `allocate` or
`allocate2`), `alloc`, `undo`, `share`/`drop` (the three loops of
`allocate_common`) and `reply`. `handles`, `buffers`, `i`, `j` and `status` are the
locals of those functions. An action reaches from one call of `gralloc_manager` or
`dupToAidl` to the next; everything in between is local to a thread and cannot be
seen by another. `open`, `held` and the `buffers` under way are the three kinds of
reference that keep memory alive; the external device allocator hands out any
memory no reference is left to, or fails. `attr` remembers, as a ghost, for which
descriptor memory was last allocated. `Faults` switches on a `free` that fails and
a `dupToAidl` that yields a handle without descriptors. The manager may have failed
to initialise (`mManager`).

### BufferLayout

One behaviour lays out one buffer and then reports it. `Codes` and `Buffer` are the
external driver: it may use either conversion of the library and aligns stride and
height as it likes within the assumption. Tiled formats do not occur: the
allocator accepts no descriptor that asks for one. `FillPlane` is one round of the
loop, `Report` the getter with the `int` the handle's getters return.

### Usage

One behaviour converts one word: `HandleUsage` is one call of `handle_usage`, in the
order of the source, and `usage` and `use_flags` are its locals; `MapUsage` is what
`lock` would make of the same word. The table is that of
`ANDROID_SDK_VERSION >= 29`.

### Handle

`files` is the descriptor table of each process, `handle` its handle on each buffer,
raw (the service's own, or as it came with a message) and imported (the clone). A
copy duplicates the first `GRALLOC_PRIVATE_HANDLE_NUM_FDS` members and copies the
others as words, as libcutils and libbinder do; a close closes those descriptors.
Numbers are free again as soon as they are closed, and processes open other files.
Words are sets of bits, so that truncation to `int` and sign extension are set
operations.

### Mapper

An address stands for the handle cloned to it. `importBuffer` is `Clone` and then
`Register` or `RegisterFails`; `freeBuffer` is `FreeBuffer`, `Unregister`, `Release`,
`CloseHandle`, with a failure after each external call, and `FreeRefused` if there is no
handle or no driver. `dumpAllBuffers` iterates over the map itself, which other calls
change meanwhile: `todo` are the entries ahead of its iterator, and a step of any call
that adds or erases an entry (`Iterators`) leaves any addresses ahead, those of erased
entries too, for the iterator may dangle and the table may be hashed anew. The handle a
dump took from an entry is read in a later step (`dumpBuffer`). A crash, the other outcome
of a dangling iterator, is left out. Clients
keep the mapper's contract: they pass handles they own and do not use one while
they free it. They may retry a `freeBuffer` that failed. To the client all this is
`HandleTable`: a handle is in the table from the return of `importBuffer` (`Register`) to
`native_handle_delete` (`CloseHandle`), and the steps between are stutters or calls that
fail and change nothing.

### Access

`file` is the descriptor table and `client` the descriptors the client code still
owns: `lock` and `gralloc_sync_wait` take one over on entry. `lock` is `CallLock`, then
`RefuseLock` (an early return) or `PassChecks`, then `waitFenceFd` (twice after a
timeout), `DriverLock`, and `ReturnFromLock`, the destructor of `acquireFence`; the
step from one system call to the next. `gralloc_sync_wait` is `CallSyncWait`, `SyncWait`
and `ReturnFromSyncWait`. The guard of a descriptor's reuse is the kernel's: any
number that is not open. `area` is the rectangle the driver was given, `locks` the
driver's count and `holds` the client's. `FencedLocks` sees a call begin, when it takes
the descriptor over, and end, when it returns; waits and the driver's lock are stutters.

### Metadata

The struct in the region is a function from types to words: one word for blend mode
and dataspace, a flag and two words for the optional types. A set or get is `Call`, a
refusal (of a null handle, too) or `get_metadata`, and one `WriteWord` or `ReadWord` per
word, in any order. `hasPlanes` says of the buffer's format whether `PLANE_LAYOUTS` can be
answered for it (`PlanesUnknown` if not); `layout_gettable` shows which formats cannot;
nothing in the mapper keeps threads or processes apart. `SetsAlone` are the types
whose callers do that themselves. `committed`, a history variable, is the value last
set. Values the mapper takes from the handle are one value, `"handle"`, here: modules
`Handle` and `BufferLayout` say which.

### Slips

An operator such as `Undo_Stays` or `C_Swapped` is a plausible mistake in the
definition that follows it. None is part of a specification; each is there to be
put in its definition's place, whereupon a property of the runs must fail.
`PROJECT.json` pairs them with the properties.

## 3. Runs

| Run | Instance | Shows |
|---|---|---|
| `alloc_safety` | 2 threads, 3 buffers, batches of up to 2, all refusals, `free` and `dupToAidl` may fail | safety of the service and `IInv` |
| `alloc_service` | the same, three kinds of call, only allocations fail, fair threads | `Allocator` implements `AllocService`; nothing leaks; calls are answered; handles are closed |
| `layout_planes` | all accepted formats, 7 widths, 5 heights, alignments 4/32 and 1/16 | planes disjoint, large enough, reported as they are, and the same under both codes of a format where heights are not rounded |
| `mapper_faults` | 3 threads, 2 buffers, 3 addresses, every fault, dumps alone | regions, registrations and handles stay consistent; `Mapper` implements `HandleTable` |
| `mapper_dump` | 2 threads, 2 buffers, 2 addresses, `release` works, dumps interleave | no handle left unregistered; imports and frees return, and dumps once the map's entries stay |
| `usage_conversion` | every pair of bits, every subset of {0, 1, 4, 5, 16, 28, 32} | the conversion is that of its table, one rate per kind of access, in accord with `lock` |
| `access_fences` | 2 threads, 2 descriptors, 2 fences, 1 handle locked at most twice, every fault | fences owned and waited for; locks balanced; `Access` implements `FencedLocks`; calls return |
| `metadata_shared` | 2 threads, 2 values, all types, failures; sets of `CTA861_3` kept apart, of `SMPTE2086` not; formats with and without planes | the region is what was last set; `Metadata` implements `MetadataStore` |
| `handle_travel` | the service and a client, 2 buffers, 4 descriptor numbers | handles see their memory, own their descriptors and tell their words |
| `alloc_permanent`, `layout_gettable`, `access_area` | as above, smaller | statements of the repository the code contradicts; see "Findings" |

**Bounds.** Two threads and batches of two are the least that lets one call's undo or
release overlap another's allocation; three buffers make a batch fail in its first
and in its second slot, and let memory be reused while an older grant is alive. In
the mapper two buffers and two addresses let a new handle take the address of a
deleted one for another buffer while a second handle lives; the third thread and
address of `mapper_faults` add a bystander to that. `Word` is 2^15 in the layout runs so
that TLC's own integers do not overflow: the large sizes reach the wrap, and the
small ones stay far below it. In `access_fences` two descriptors let a number be closed
and given to another fence while a call waits, and two fences let one signal without
the other; a third thread would add no new pair of owners. `MaxLocks` bounds the locks of
a handle and is the only bound on a counter there; `MaxCount` is the one of `Allocator`.
Two words of an optional value are enough for a torn one, two values for telling it.
The bits of `usage_conversion` are those whose masks overlap or whose flags coincide;
other rows do not meet. Four descriptor numbers are two handles of two descriptors in
the service, or both copies of both buffers in the client; with them every number is
reused. `MetadataSize` is the size of the struct and `Word64` stands for 2^64.

**Symmetry** (threads, buffers, addresses, clients) is used only in runs without liveness.

**Deadlock** is checked but in the layout and usage runs, whose behaviours end.

**Fairness.** `WF(Serve(t))` in `Allocator`: a binder thread that has a call goes on running
it; the functions block on nothing but the external calls, which return. `WF(Step(t))`
in `Mapper`, `Metadata` and `Access` says the same of a client's threads. In `Access` a
`waitFenceFd` or `SyncWait` without timeout is not enabled before the fence signals, so
`WF(Signal(f))` is needed for `CallsReturn`: a fence that is open signals in the end, as the
kernel's contract for sync fences has it. The code does nothing to ensure it: without that
assumption a call may wait for ever. Clients owe nothing: they need not call, nor close a
buffer, nor free or unlock a handle.

### Properties worth a word

- `HandlesOpen`, `OneOwner` (`Allocator`): what a thread still has to duplicate or release
  is open, and is nobody else's to release.
- `NoDoubleGrant`: a buffer in a reply is in no other slot, reply or hand.
- `NoLeak`, `HandlesReclaimed`: nothing stays with the service.
- `AllOrNothing`, `GrantedAsAsked`: the answer is whole, and for the right descriptor.
- `PlanesDisjoint`, `PlanesHoldSamples`, `ReportedPlanesFit`, `ComponentsDisjoint`,
  `SameLayoutEitherWay`: the four tables agree where a client could tell. The first three
  are promised of buffers whose sizes cannot wrap (`Below`): nothing in the code
  refuses larger ones. `SameLayoutEitherWay` compares strides, sizes, offsets and the total
  size of the handle with those under each code that the two conversions have for its
  format. They do not agree always: `drv_height_from_format` rounds heights up to 4 under
  `FORMAT_NV12` and its like and not under the DRM codes of the same formats
  (`helpers.cpp:337-348`), so the property leaves out the case of a buffer laid out under a
  DRM code, with a height that is no multiple of 4, and compared with the other code.
- `ConvertsInOrder`: what each call of `handle_usage` finds, in closed form. `MapAgreesWithUse`:
  a buffer that converts is allocated for CPU access exactly if `lock` maps it so.
- `RegionOfOwnBuffer`: address reuse never yields another buffer's region.
- `DumpReadsLive`: the map only holds handles that may be dereferenced. This property
  and the one before it assume that nobody calls during a dump (`DumpsAlone`). Without
  that assumption both fail: `freeBuffer` may delete the handle that `dumpAllBuffers`
  has just taken from the map, and the dump may put the entry of a handle being freed
  back into the map. The code takes no lock there; nothing in the repository says
  whether the calls may overlap.
- `CallsReturn` (`Mapper`): imports and frees return whatever dumps do. A dump returns if from
  some moment on no entry is added to the map or erased (`Settles`); else its loop may be
  kept going for ever.
- `OneOwner` (`Access`), `WaitsForOwnFence`: every open descriptor has one owner on every
  path, and a call closes the fence it was given and no other.
- `NoEarlyAccess`: no access before the fence, unless `sync_wait` failed: `waitFenceFd`
  ignores every error but the timeout, and `lock` goes on.
- `ImplementsLocks`: what a call answers, what it did to its fence and to the locks, and when.
  `gralloc_sync_wait` never answers success before the fence, and leaves it with its caller
  exactly if it answers an error or was told to (`SyncWaitCloses`, proved). `lock` may succeed
  before the fence, if `sync_wait` failed.
- `ImplementsTable`: a handle the client holds keeps its buffer until the client's own
  `freeBuffer` answers success; a new one never takes an address the client holds; failed
  imports and frees, dumps and accesses to regions change nothing of it.
- `MetadataIntact`, `ImplementsStore`: whole values for the one-word types however calls
  overlap, and for an optional type if callers keep its sets apart. A get of an optional
  type that races with a set may return a mix of two values; `MetadataStore` allows it.
- `MemoryTravels`, `FdsOwned`, `WordsTold`: bits 0 to 30 are promised of the words; see below.

### Findings

1. `allocate2` answers `UNSUPPORTED` for want of memory (`allocator.cpp:293`), which
   `gralloc_vivante.h:42` documents as a permanent failure (`alloc_permanent`).
2. `PLANE_LAYOUTS` is declared gettable (`mapper.cpp:671`) but unsupported for several
   formats the allocator accepts (`layout_gettable`).
3. `lock` computes the rectangle of the access region and does not use it: the driver gets
   the region's corner with the whole buffer's size, a rectangle that may leave the buffer
   (`mapper.cpp:317`; `access_area`). It does cover the region (`RegionCovered`).

Seen while modelling, and without a run, because no text promises otherwise or because
it is a matter of one line:

- The value of the accepted option Dataspace is dropped (`allocator.cpp:277`), although
  the internal descriptor is to contain the requested parameters (`gralloc_manager.h:28`).
- `FRONT_BUFFER` is refused (`allocator.cpp:86`), although `allocator.h:66` lists it as accepted.
- `reservedSize + sizeof(gralloc_metadata)` wraps near 2^64 (`allocator.cpp:137`), and
  `getReservedRegion` hands out the region in which the metadata lies.
- The 16-byte alignment of YV12 strides (`helpers.cpp:386`) depends on a fourcc that no
  conversion produces.
- In `gralloc_convert_usage` the calls for a lone `SW_READ_RARELY`, `SW_WRITE_RARELY` and
  `PRIVATE_0` never find a bit: the mask of an earlier call contains theirs. So a buffer is
  never allocated for rare access, nor marked `GPU_TILED_VIV`. Eight bits the allocator accepts
  (`Unhandled` in `UsageProofs`) it does not know at all: a word with any of them converts to
  `BO_USE_NONE`, whatever else it asks for. Every other accepted word converts to all of its
  flags (`AcceptedWordsConvert`).
- A handle keeps the usage in an `int`: bits above 31 are lost, bit 31 comes back as bits 31
  to 63. Modifier and id pass through an `int` as well.
- `fd_region` is beyond the descriptors that travel: in a client it is a number without meaning.

## 4. Proofs

Each theorem holds for every value of the constants the module's named assumption
admits: any sets of threads, buffers, addresses, descriptors, calls and values, any sizes,
and any `Faults`. None of the safety properties is inductive by itself; each proof rests on
an invariant that is.

**`AllocatorProofs`**, from `AllocatorAssumption` (calls ask for 0 to `MaxCount` buffers,
`NoHandle` is no buffer): `TypeCorrect`, `NoUseAfterRelease`, `ReleasedOnce`, `ExclusiveGrant`,
`NothingLeaks`, `AnswersWhole`, `AnswersMatch`, `CallsBounded`, and `ServiceImplemented` (`Spec => Service!Safety`,
if `dupToAidl` does not fail). `NoDoubleGrant` speaks of buffers in replies; that sharing a
handle keeps it needs that a handle still to be released is in no reply and no client's
hands (`OwnedPrivate`), that it was allocated for the call that shares it (`OwnedAsAsked`),
and that the counters delimit the slots that hold one (`Counters`, `SharedSlots`).
`Accepted` says that a call worked on passed the checks. `IInv` is their conjunction
(`Invariance`). There is a lemma per group of conjuncts, each with a step per action;
`OwnedSteps` says once how each action changes the slots a thread owns. The refinement
maps `alloc`, `undo`, `share` and `drop` to `pending`; the step into `reply` is the abstract
answer and everything before it a stutter. `CallsBounded` is the safety half of `CallsAnswered`:
a call is at most `4 + 3 * count` steps of its thread from its end, each step takes it nearer,
and no other thread's step takes it back (`Remaining`); what is left to liveness is that a
thread with a call goes on.

**`MapperProofs`**, from `MapperAssumption`: `TypeCorrect`, `NothingLost`, `DeletedUnknown`,
`CallsExclusive`, `StaysRegistered`, `RegionsSound` and `DumpsSafe` (their statements carry
`DumpsAlone` as a premise), `FreedIsGone` and `MapperImplementsTable` (`Spec => Table!Safety`,
dumps interfering or not). The strengthening follows a handle through
its calls: a clone not yet registered is unknown to everybody else (`ImportsFresh`), a
handle being freed is still owned and has left the driver and then the map (`FreesOwned`),
which is why a new clone's address is in neither; a dump on its own excludes every other
call, so that its iterator has only entries of the map ahead (`DumpsExclude`). The step simulation needs just this: that a clone being registered
is not in the table yet and nobody else's, and that a handle being freed is in it until the end.

**`LayoutProofs`**, from `WordAssumption` (`Word` is a multiple of 4, as 2^32 is) and `BufferLayoutAssumption`: `TypeCorrect`, `PlanesApart`,
`SamplesFit`, `OneLayout`, `ReportFits`, `ComponentsApart`, for every format, size, alignment and width of the word.
The loop's invariant is that the planes before `p` are those of closed forms `StrideOf` and
`SizeOf`, that they follow one another below `offset`, and that `offset` is at most `p` times a
bound `Room` on any plane. As `Small` keeps all planes' `Room` below the word, no sum
or product wraps; that is where arithmetic modulo `Word` becomes arithmetic. `OneLayout` needs
no such bound: codes of one format differ only in the rows they round up to (`CodesAlike`),
and rounding twice is rounding once (`RowsRoundedOnce`), modulo `Word` too. The report
then needs only that the mapper's table asks of no plane more than the driver's gives. That a
plane's components share no bit is a matter of that table alone, row by row
(`TablesSideBySide`).

**`UsageProofs`**: `ConvertsInOrderAlways`, `OneRateAlways`, `AllocatedAsMapped`,
`AcceptedWordsConvert`, for every set of usage words. `ConvertsInOrder` with the range of `n` and
the word itself is inductive; that there is one rate follows from the masks of OFTEN, which
contain those of RARELY and come first. At the end of the loop a word has converted exactly
if the masks cover it, and then its rates are those `gralloc_convert_map_usage` reads
(`ConvertedRates`), which is the agreement with `lock`; that the masks cover the accepted bits
but for eight is a comparison of the two tables (`AcceptedBits`).

**`HandleProofs`**, from `HandleAssumption`: `TypeCorrect`, `HandlesSee`, `HandlesOwn`, `HandlesTell`, for any
number of clients. That a close harms no other handle needs that two handles of a process
have descriptors of their own (`OwnFds`), that memory is open only for a handle (`OpenFds`),
and, as the service closes `fd_region` too, that this is the region there (`ServiceRegion`).

**`AccessProofs`**, from `AccessAssumption`: `TypeCorrect`, `DescriptorsOwned`, `OwnFence`,
`AccessAfterFence`, `CountsAgree`, `AreaHoldsRegion`, `ClosesAsAsked`, `CallsBounded`,
`AccessImplementsLocks` (`Spec => Locks!Safety`). `Owners` says `OneOwner`
descriptor by descriptor: a descriptor a call has taken over is open and nobody else's, so
that nobody closes it or finds its number free, which is why it still refers to the call's
fence. `LockInv` adds which calls are where, and that those past the checks have a region
in the buffer. The count of locks not yet told of is a cardinality, which is why
`Threads` is assumed finite. `CallsBounded` is the safety half of `CallsReturn`: a call is at most
five steps from its end and never goes back, it is held up nowhere but in its second wait,
there only by a fence of its own that has not signalled (`OnlyFencesBlock`), and one that has
stays so (`SignalsStay`). For the refinement `AnswersRight` carries what the waits found out to
the return: a success there comes after the fence, or after a failed `sync_wait`.

**`MetadataProofs`**, from `MetadataAssumption`: `TypeCorrect`, `RegionKeepsSets`, and
`MetadataImplementsStore` (`Spec => Store!Safety`). A set under way has written what it has not
left, and a get has read what is still there (`InStep`), if no set overlaps it (`Apart`); the value is
whole whenever no set of more than a word is half way (`Whole`). The last word's step is the
abstract set or get, the others are stutters. What the mapper refuses the store's list allows
it to refuse, and what it does not refuse the list offers (`RefusalsAreErrors`).

Only model-checked: liveness (`CallsAnswered`, `HandlesReclaimed`, `CallsReturn` of `Mapper` and of
`Access`) and the fairness of `ImplementsService` and `ImplementsStore`, which are out of the
prover's reach, as are `ENABLED` and induction over data. Of `CallsAnswered` and of `CallsReturn` in
`Access` the safety halves are proved (`CallsBounded`). Every other property of a passing run is a
theorem, or the safety part of one is.

## 5. Not modelled

- `gralloc_manager.cpp` and the driver are not in the repository: external, as are libsync,
  libcutils and binder, modelled from how the code uses them.
- Registration with the service manager, logging, names of buffers, the `stride` of an allocation
  result, the address `lock` returns.
- A negative `count`, on which `handles.resize` would end the process before any reply.
- `dumpBuffer`'s encoding: the encoders, and when they fail, are not in the repository. Two
  hazards are listed at `mapper.cpp:709` and `718` without a property for that reason.
- `close` that fails; a client that breaks the mapper's contract (a handle it does not own, a
  handle in use while it is freed); a crash from an iterator that a concurrent change
  invalidates.
- Getters and setters of `gralloc_vivante_handle.h` only the driver uses, and the validation
  of a handle's magic number.
- A crash of a process: nothing is persisted, and the kernel closes its descriptors.

## 6. Plan

Everything planned is done: the service, the mapper's handles, its locks and its metadata, each
with the abstract specification it implements, layout and reports, usage, and handles
between processes, each with its proofs. What could follow:

1. The safety halves of `CallsReturn` in `Mapper` and of the liveness of `ImplementsStore`, along
   the lines of `CallsBounded`; for dumps the measure is the number of entries ahead, while no
   entry is added or erased, and the heap must be assumed finite.
2. `ReportedPlanesFit` for drivers that hand `drv_bo_from_format_and_padding` a padding.
3. Should `gralloc_manager.cpp` be published: its map of regions with its locks, in place
   of the external one of `Mapper`, and dumps that are safe next to other calls.
