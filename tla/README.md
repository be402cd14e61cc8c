# MycelFT in TLA+

This directory holds a formal model of MycelFT: TLA+ modules translated from the
sources, TLC configurations that check them on small instances, and proofs that TLAPS
checks for every value of the constants.

    tlasany M.tla                            parse a module
    tlc -workers 2 -config X.cfg M           check one configuration
    tlapm M.tla                              check the proofs of a module ...Proofs

`PROJECT.json` lists the runs, for every definition the source lines it stands for, the
hazards of the code with the properties that watch them, the mutants that each property
was tried against, and the theorems.

A note on the sources.  Every file under `src/fastfat`, and `mycelia.h` and
`mycelia_core.c`, contain unresolved merge conflict markers: each file is there twice.
The models follow the first side (HEAD), which carries the MycelFT changes, and all line
numbers are those of the files as they are.

## 1. Inventory

MycelFT encrypts files with a keystream that a small "biological" simulation derives
from the name of the file and the serial number of its volume.  Three programs share the
idea and no code.

| Part | Source | State it keeps | Operations |
|---|---|---|---|
| Explorer: toggle, tags, audit | `mycelft_explorer/MycelFTExplorer.cpp` 100-678 | the files of a volume, their tags in the stream `mycelft.hmac` or in a sidecar file, the handles and locals of a toggle | `TransformFile`, `ReadAdsData`, `WriteAdsData`, `DeleteAdsData`, `ComputeHmacForFile`, `AuditMycelTagForPath` |
| Explorer: window and worker | the same, 680-1443 | `UiState`: busy flag, list, selection; the message queue; the worker's place in the directory | the handlers of `WindowProc`, `ProcessWorker`, `ProcessFolderRecursive` |
| fastfat: paging file I/O | `fastfat/deviosup.c` 399-1180, 3027-3240 | the master IRP and its count, the associated IRPs, the reserve MDL | `FatPagingFileIo` and its three completion routines |
| fastfat: MycelFT hook and keystream | `fastfat/deviosup.c` 66-388, `strucsup.c` 1453-1478 | the seed in the FCB | `FatMycelLowLevelReadWrite`, `FatMycelProcessBuffer` |
| fastfat: non-cached I/O | `fastfat/deviosup.c` 1174-3480 | IRPs, I/O context, event of the waiter | `FatNonCachedIo`, `FatMultipleAsync`, `FatSingleAsync`, `FatWaitSync` |
| fastfat: deferred close | `fastfat/close.c` 540-800 | two queues of closes, per driver and per volume, and their counts | `FatQueueClose`, `FatRemoveClose`, the close worker |
| fastfat: request queue | `fastfat/workque.c`, `fspdisp.c` | requests posted and waiting per volume | `FatAddToWorkque`, `FatRemoveOverflowEntry`, `FatFspDispatch` |
| fastfat: create, cleanup, volume life cycle | `create.c`, `cleanup.c`, `strucsup.c`, `fsctrl.c`, `pnp.c` | open counts, the condition of a volume | create, cleanup, close, lock, dismount, verify |
| fastfat: verify and dirty bit | `verfysup.c` | the dirty bit and its timer | `FatMarkVolume`, `FatCleanVolumeDpc` |
| fastfat: allocation | `allocsup.c` | the FAT, free clusters, run maps | allocate, extend, truncate |
| fastfat: the rest | directories, names, EAs, caching, locks, flush | on-disk layout; objects of the kernel's libraries | the vendor's sample code |
| mycelia_core: GPU slots | `mycelia_core.c` 15156-15615 | the table of OpenCL contexts and queues | discover, initialise, get, release |
| mycelia_core: MycelFS, noise | `mycelia_core.c` 5591-5760, 36991-37183, `CipherCore_NoiseCtrl.c` | initialised, desynced, noise factor and epoch | `mycelia_init_all`, map, `mycelia_cycle_update`, fail closed |
| mycelia_core: SDK | `mycelia_core.c` 37815-37970 | contexts over one SubQG state | `myc_set_seed`, `myc_process_buffer` |
| mycelia_core: kernels | the rest of it | buffers of numbers | SubQG, quantum, colony, ... |

How they interact.  The Explorer works above the file system only, through CreateFileW
and its siblings; what a thread may do is decided by the sharing modes of the handles
that the others hold.  Inside the Explorer the window's thread and the worker share
`UiState.isBusy` and posted messages.  In fastfat the thread of a request, the disk
driver's completion routines and the system's worker threads share IRPs, and all
requests share the reserve MDL and the queues of the driver.  mycelia_core is a library
whose callers share one process-wide table of devices and one simulation state.

What is hard, and what makes each part correct:

* Toggle: it XORs a file *in place*, block after block, next to other threads and
  programs, and writes or deletes the tag afterwards.  Any call may fail and the process
  may die between two of them.  Correct means: what a completed decryption leaves is
  what the encryption found (`RoundTrip`), a changed file is not decrypted
  (`TamperDetected`), success means sealed or restored (`SuccessIsComplete`), a toggle
  takes effect as a whole (`Atomic`), without a tag a file is plaintext
  (`UntaggedIsPlain`), and with one it is not (`TaggedIsCipher`).
* Window and worker: messages arrive inside the message box of another handler, the
  window's own toggle blocks its queue, the window may be closed during a pass.  Correct
  means: busy exactly during a pass (`BusyIsTrue`), no rename under the worker
  (`NoRenameDuringPass`), busy ends (`BusyEnds`).
* Paging file I/O: a request is cut into IRPs that come back in any order while the
  thread still sends others; when memory is short the master IRP itself is sent for a
  piece.  Correct means: completed once and only when it is over (`CompletedIsOver`),
  with the count right at every moment (`CountIsPieces`), one user of the reserve MDL
  (`OneReserve`), success only with every page moved (`Promise`), and that it goes
  forward (`EachCompletes`, `AlwaysGoesForward`).
* Non-cached I/O and the hook: the runs of a request complete on several processors,
  each counting itself out; the hook gets between the driver and the disk.  Correct
  means: nothing of a completed request is still out or locked (`CompletedIsSettled`),
  success only with every run transferred (`SuccessMeansAllRuns`), it ends
  (`TransferEnds`), and a write stays inside its file (`EveryWriteInsideFile`).
* Deferred close: every thread fills the queues; one worker, a thread that wants a
  volume for itself and the shutdown empty them.  Correct means: the lists agree with
  each other and with the counts (`ListsAgree`), what needs a worker has one
  (`NoneStranded`), there is only one (`OneWorker`), and each close is done
  (`AsyncDone`).
* Request queue: a volume may have a few worker threads, the rest of its requests wait.
  Correct means: the count is the workers (`CountIsWorkers`), nobody waits in a queue
  that no worker comes by (`NobodyStranded`), every request is handled
  (`PostedIsHandled`).
* Life of a volume: five counts, changed in different orders by create, cleanup and
  close, decide when the VCB may be deleted or locked.  Correct means: they count what
  they are for (`CountsMeanOpens`), nobody has a deleted VCB (`DeletedUnused`), a lock
  is exclusive (`LockExcludes`), an abandoned volume is deleted (`VolumeGoes`).
* Dirty bit: threads, a timer, its DPC, a work item and a flush write one flag and one
  sector without waiting for each other, the write of the sector may raise or fail
  silently, and a removal or a shutdown gets in between.  Correct means: a volume whose
  flag is set has somebody who will clear it (`CleanIsUnderWay`), and the mark on the
  disk goes in the end (`VolumeMarkedClean`), but for what the code itself gives up.
* Allocation: clusters are promised, found, chained and entered, and any step may raise.
  Correct means: promises can be kept (`PromisesKept`), a cluster has one owner
  (`OwnedOnce`), the FAT says what the MCB says (`ChainIsMcb`), but for the one place
  where an exception tears a file.
* mycelia_core: one field and one table of devices for all callers, and results that
  callers ignore.  Correct means: a context is released once (`ReleasedOnce`), after a
  failure MycelFS answers only once it is initialised again (`FailClosed`), kernels run
  over buffers that are large enough (`FieldFits`), a context of the SDK decrypts what
  it encrypted (`OneContextRestores`), and so does any other with the same seed
  (`SameSeedRestores`).

## 2. Modules

| Module | What it is |
|---|---|
| `MycelData` | blocks, keystream, seeds and tags, as far as properties tell them apart |
| `SealedStore` | abstract: contents are sealed and unsealed in one step |
| `TransformFile` | the toggle, the audits, renames and deletions on one volume; extends `MycelData`, implements `SealedStore` |
| `MycelExplorer` | composes the window's thread and the worker, both running the actions of `TransformFile`, with the message queue |
| `TransformFileProofs` | theorems about `TransformFile` |
| `SealedStoreProofs` | theorems about success and the refinement of `SealedStore`; extends `TransformFileProofs` |
| `ExplorerProofs` | theorems about `MycelExplorer`; extends `TransformFileProofs` |
| `PagedTransfer` | abstract: what the memory manager is promised about a paging request |
| `PagingFileIo` | `FatPagingFileIo`, its completion routines and the disk; implements `PagedTransfer` |
| `PagingFileIoProofs` | theorems about `PagingFileIo`, the refinement among them |
| `NonCachedIo` | `FatNonCachedIo`: one run, several runs, the hook; the disk |
| `Keystream` | `FatMycelProcessBuffer` as operators |
| `CloseQueue` | deferred closes and who does them |
| `OverflowQueue` | posted requests, worker threads and the overflow queue |
| `VolumeLife` | a volume from mount to deletion |
| `DirtyVolume` | the dirty mark and what takes it back |
| `DiskSpace` | FAT, bitmap, counts and run maps |
| `GpuSlots` | the OpenCL contexts of mycelia_core and its table of devices |
| `MyceliaCore` | the SubQG field, MycelFS and the SDK; extends `GpuSlots` |
| `TransferProofs` | theorems about `NonCachedIo` and `Keystream` |
| `QueueProofs` | theorems about `OverflowQueue` and `CloseQueue` |
| `VolumeProofs` | theorems about `VolumeLife`, `DirtyVolume` and `DiskSpace` |
| `CoreProofs` | theorems about `GpuSlots` and `MyceliaCore` |
| `MCFastFat` | instances of five modules about fastfat, in one run |
| `MCPagingAndDisk` | instances of `PagingFileIo` and `DiskSpace`, in one run |
| `MCUserMode` | one thread of the Explorer, `GpuSlots` and `MyceliaCore`, in one run |
| `MCTransformFile`, `MCMycelExplorer`, `MCPagingFileIo`, `MCNonCachedIo`, `MCMyceliaCore` | sets, symmetries and an assumption about `Keystream` for TLC |

`MCFastFat`, `MCPagingAndDisk` and `MCUserMode` are disjoint unions.  Their parts share
no variable that both change; `part` is chosen at the start, the chosen part moves as
its module says, and the others stay in their initial states, where their fair actions
are not enabled. Such a run has the states of its parts added up, not multiplied, and
says of each part what a run of its own would say.

### MycelData and TransformFile

A block is a record of the plaintext it came from and the set of the seeds it is XORed
with: `Xor` with a seed in the set removes it, with another one adds it, which is what
XOR with ideal keystreams does.  A tag is the seed and the blocks that were hashed, so
that two tags are equal exactly when an ideal HMAC would be; its field `from` is history
and no action reads it.  A seed is a name and whether the serial number of the volume
was known: `MycelSeedForPath` goes on with 0 when GetVolumeInformationW fails.

The state is the volume - `dir` (which file has which name), `data`, `ads` (tags in
streams, which move with the file) and `sidecar` (tags in files of their own, which stay
with the name) - and for each thread `op`, the locals of the function it is in.  An
action is the code between two system calls that another thread, a fault or a crash can
separate.  `op[a].pc` is where the thread stands:

    idle -Open-> open -ReadTag-> verify -Verify-> decrypt -XorBlock*-> DeleteTag -> idle
                             \-> encrypt -XorBlock*-> ComputeTag -> tag -CreateTag-> tagwrite -WriteTag-> idle

A handle is part of the state through `op`: `TransformFile` shares reading only (line
601), so `Open` needs that nobody else is inside a toggle of the file; `ReadAdsData`
shares reading, `WriteAdsData` nothing, which is what `AdsHeld` and `SidecarHeld` say.
Faults (`Faults`, at most `MaxFaults`) are the failures of single calls; those the code
does not look at (a short read in `ComputeHmacForFile`, a failed DeleteFileW in
`DeleteAdsData`, a missing serial number) are actions of the model like the others.
Other programs write, delete and create files that are not open; `Crash` forgets all
threads and keeps the volume.  `MaxEdits` bounds renames, deletions and foreign edits
together.

### MycelExplorer

`mode` is what the window's thread is in: its message loop, the audits that
`UpdateStatusBar` and `PopulateListView` run file by file, a toggle, a deletion, a
message box.  A message box runs a message loop of its own: `Pump` is enabled in it, so
WM_MYCEL_DONE may be handled inside another handler.  `queue` holds posted messages up
to `QueueLimit`; a message for a full queue is lost, as the result of PostMessageW is
not looked at.  The worker opens one file after the other and posts progress before
each.  `StartPass` sets `isBusy`, only the handling of "done" clears it.  `CloseWindow`
ends the process as WM_DESTROY does, whatever the worker is in, and starts it again.

### PagingFileIo

Each request has the locals of the `FatPagingFileIo` it is in (`io`), its master IRP
(`irp`), and the places of its associated IRPs and of the master.  `Begin` is lines
583-739 (the count of runs, IrpCount, IoStatus, the request in one run that is passed on
as it is).  The loop body ends in one of: an associated IRP is sent (`SendAssociated`),
the master is reused because IoMakeAssociatedIrp failed or may not be called
(`ReuseMaster`), or the MDL is missing and the reserve is waited for (`NeedReserve`,
`TakeReserve`).  A reused master first waits until no associated IRP is out
(`SendMaster`, the 30 ms polling of line 829), is sent and waited for (`PieceReturns`),
and `Advance` is the end of the body.  `Finish` is what follows the loop.  Completion is
in two steps: the disk's answer with the completion routine that copies a status
(`AssociatedDone`, `AssociatedFails`), then the IoCompleteRequest that decrements the
master's count (`AssociatedReturns`), which after an error may be done by the work item
that marks the volume dirty.

The disk moves all pages of an IRP or none; `moved` counts them per run.

### NonCachedIo and Keystream

`io` is the request with its FAT_IO_CONTEXT, `run` says of each of its runs where its
transfer is, `disk` whose bytes a sector holds.  `IssueSingle` and `IssueMultiple` are
FatNonCachedIo down to IoCallDriver, `IssueFails` the allocations that may fail on the
way. A run goes through the disk (`DiskRun`), its completion routine
(`CompletionRoutine`: for several runs the status goes to the master, then the decrement
of the context's count, the last one completing the request or setting the event), and
the I/O manager (`IoManager`, which counts associated IRPs off the master).  `WaitSync`
is the thread in FatWaitSync.  The hook is `HookTransfers`, in which the disk gets the
stack location that the hook made, and `HookReturns`, in which it gets nothing.  Then
the request is in the place "left": the completion routine that would set the event or
release the resource never runs for it.

`Keystream` has the loop over the buffer as a recursive function over its bytes; the
simulation behind a block's key is an ideal function of seed and block.  The run
`fastfat` evaluates `CutsDoNotMatterHere`: a buffer processed in two pieces is the
buffer processed at once, for every cut and position on blocks of three bytes, and
processed twice it is the original.  `CutsNeverMatter` proves it of every buffer.

### CloseQueue

`global` and `perVcb` are the two lists that each close is on, `count`, `high` and
`active` the fields of FatData, `owner` who holds a volume.  `QueueClose` is
FatQueueClose, whose IoQueueWorkItem after the mutex is the counter `posting`;
`StartWorker` is the work item.  The worker's loop is `WorkerRemoves` (FatRemoveClose,
all under the mutex), then for the volume of the close `WorkerHolds`, or
`WorkerReleases` and `WorkerAcquires`, or `WorkerDrops`, then `WorkerCloses`, and
`WorkerExits`.  `DrainBegins`, `Drain` and `DrainEnds` are FatFspClose for one volume in
the thread that holds it.  `CloseNow` is a close that was not deferred.

### OverflowQueue

`place` is where a request is, `criticalQueue` the system's queue, `posted` is
PostedRequestCount, `after` counts the workers between the end of a handler and
FatRemoveOverflowEntry.  What runs under OverflowQueueSpinLock is one action.  A handler
completes, waits for an oplock (FatOplockComplete posts the request again), or posts it
once more itself.

### VolumeLife

A file object goes none, creating, open, cleaned, closing, then either is counted out or
waits in "queued" and "taken" for the worker; "recheck" is the window at the end of
FatCommonClose in which the VCB is released to take the global resource.  `vcb` and
`vpb` have the counts and flags.  Operations that hold the VCB throughout are one
action; FatLockVolumeInternal releases it twice and is `LockWaits` twice and `LockEnds`.
Streams of the file system's own are closed when Cc and Mm let go of them, at once or
later, which is a choice.

### DirtyVolume

Each access to VCB_STATE_FLAG_VOLUME_DIRTY, to the timer and its DPC, and to the boot
sector is an action: `Change`, `CancelTimer`, `TestDirty`, `MarkDirty`, `FlagDirty`,
`SetCleanTimer` are FatSetDirtyBcb, `TimerExpires`, `CleanVolumeDpc`, `QueueClean` the
DPC, `DeferredClean`, `TestRace`, `FixRace` the work item, `Flush*` the flush.
FatMarkVolume is two operators.  `MarkReturns` writes the mark, or returns without
having written it (no IRP, or an error of the write, which is ignored); `MarkRaises` is
an exception, before the mark is written (CcPinRead) or after it (FatSetFatEntry).  Each
caller does with an exception what the code does: FatSetDirtyBcb goes up with the timer
cancelled, a flush goes up with the timer cancelled and the flag set, the work item
ignores it and leaves out the test for the race, a shutdown ignores it.

`RemoveVolume`, `RemoveCancels`, `VolumeGone` are FatPnpRemove and FatPnpSurpriseRemove:
FatFlushAndCleanVolume with NoFlush cancels timer and DPC of a volume whose flag is set
and leaves flag and mark, then FatCheckForDismount makes the volume bad.
`ShutdownVolume` is FatCommonShutdown on one volume.  Both hold FatData's resource,
which the work item shares, and after either the work item does nothing
(`vcbState.good`).  A volume was mounted clean, or dirty and then is left dirty:
`InitDirty` has what FatCheckDirtyBit finds.

Two things the code gives up are part of the state, as history in `lost`, until a thread
sets the timer again: the flag, when the DPC gets no pool or a flush's FatMarkVolume
raises, and the mark, when a FatMarkVolume that failed has left it.

### DiskSpace

`fat`, `bitmap`, `freeClusters` are the volume's, `fcb` has MCB, AllocationSize and
first cluster of a file, and what its directory entry names.  `op` is the operation on a
file: a request is promised clusters, tries one run behind the hint, else takes
ChangeBitMapResource exclusively and collects runs in a loop (`ReserveInLoop`,
`AllocateInLoop`), then merges what it got.  The actions named `...Raises` are the same
steps raising, with what the termination handlers undo, in their order; `GiveBack` is
the unwinding that returns clusters.

FatDeallocateDiskSpace frees the clusters in the FAT (`FreeClusters`), then clears their
bits under the mutex (`UnreserveClusters`); its caller corrects the MCB later, outside
the mutex, and after a move only when the device has been flushed (`SettleMcb`).  In
between the MCB names clusters that somebody else may take.  That nobody reads it then
is the code's doing: the FCB is held exclusively, and a move has armed MoveFileEvent
against the paths that do not take it.

FatMoveFile is `Move`, `SecondSplice`, `FirstSplice`.  An exception before the first
splice has changed anything is `MoveRaises`; one behind it, in FatFlushFatEntries,
FatSetDirtyBcb or FatFlushDirentForFile, is `FirstSpliceRaises`: DiskSpaceAllocated is
still TRUE, so the new cluster is deallocated although FAT or directory entry name it.
The field `torn` keeps (as history) which of the two was left behind.  A file with a
torn entry is worked on as before, since its FCB has its old first cluster; with a torn
chain no further operation is begun (`MayBegin`).

### GpuSlots and MyceliaCore

`context` is the driver's own OpenCL context, `slots` the table, `live` what OpenCL
holds. A lookup is cut where the code releases its lock: `CheckSlot`, then `CreateSlot`
or `CreateFails` without it, then `MarkSlot`.  `InitFirst` says that lookups happen only
while the driver is initialised.

`field` is what the globals `subqg_*` say.  The functions on it - initialise, initialise
if need be, step - are sets of outcomes, each with the field it leaves, its result and
the number of OpenCL calls that failed in it, so that a caller that ignores a result
goes on from any of them.  `fs` is MycelFS, `sdk` the contexts, `text` the keys XORed
into a block.  A key is named by what decides it: its first byte by the energy of the
one cell, which no seed enters, the others by the memory that the context got from
malloc.  `closed` and `odd` are history: MycelFS failed closed and was not initialised
since; a block was processed an odd number of times by a context with a seed.  Calls
follow one another, as from one thread.  The seed of the field's random numbers is not
part of the state: its callers here bring their own random numbers.

## 3. Runs

| Run | Configuration | Result |
|---|---|---|
| `transform_streams` | two threads, two files, two names, N = 2, streams, no faults, two edits | `TypeOK`, `UntaggedIsPlain` hold |
| `transform_torn` | two threads, two files, a sidecar left over, every fault but a read error that cuts the HMAC short, one of them | `RoundTrip`, `TamperDetected`, `Atomic` and the inductive invariant `IInv` hold |
| `audit_keeps_tag` | two threads, no faults | `TaggedIsCipher` is violated |
| `short_hmac` | one thread, a read error while hashing | `TamperDetected` is violated |
| `explorer_pass` | window and worker, two files, a folder of one name and a drive of two, one read fault | `BusyIsTrue`, `NoRenameDuringPass`, `BusyEnds` hold |
| `close_during_pass` | the same with one file | `UntaggedIsPlain` is violated |
| `paging_requests`, paging | two requests in one or two runs of one or two pages, a reserve of one page | `TypeOK`, `CompletedIsOver`, `CountIsPieces`, `OneReserve`, `Promise`, `EachCompletes` hold |
| `paging_requests`, allocation | two files, three clusters, one exception | `PromisesKept`, `OwnedOnce`, `ChainIsMcb` hold |
| `paging_reserve` | two requests in two runs | `AlwaysGoesForward` is violated |
| `fastfat`, closes | four closes on two volumes, one of them of a stream; a limit of one delayed close; one worker; drains and a shutdown at any time | `ListsAgree`, `NoneStranded`, `OneWorker`, `AsyncDone` hold |
| `fastfat`, volume | one file object, one handle, three streams; lock, dismount, exclusive open, medium changes | `CountsMeanOpens`, `DeletedUnused`, `LockExcludes`, `VolumeGoes` hold |
| `fastfat`, requests | three requests and a mount, a threshold of one, three threads | `CountIsWorkers`, `NobodyStranded`, `PostedIsHandled` hold |
| `fastfat`, transfers | one IRP after the other, a user's file of three sectors and a directory of two between them, every failure | `CompletedIsSettled`, `SuccessMeansAllRuns`, `TransferEnds` hold |
| `fastfat`, dirty bit | two threads, two changes, one flush or a removal or a shutdown, one failure of FatMarkVolume | `CleanIsUnderWay`, `VolumeMarkedClean` hold |
| `hook_offset` | one IRP, no failure | `EveryWriteInsideFile` is violated |
| `user_mode`, Explorer | one fair thread, one file, two names, every fault but the two the code swallows, two of them | `SuccessIsComplete`, `OperationEnds` hold |
| `user_mode`, slots | two devices, two threads that look slots up, three contexts | `ReleasedOnce` holds |
| `user_mode`, core | two devices, one context of the SDK, fields of one and of three cells from outside, two failures | `FailClosed`, `FieldFits`, `OneContextRestores`, `ReleasedOnce` hold |
| `sdk_seed` | two contexts of the SDK with one seed, no failure | `SameSeedRestores` is violated |

Bounds.  Two threads are what the Explorer has.  Two blocks are the least with a
"before" and an "after" of the position; two names and two files the least for a rename
onto a name that another file had, or whose sidecar is still there.  Two faults allow a
fault on top of a crash or of the failure that follows it.  Two paging requests are the
least that compete for the reserve MDL, runs of one and two pages the least of which one
fits in the reserve and one has to be cut; two runs are the least with one run out and
another to be sent.  The theorems below hold without these bounds.

With a limit of one delayed close, three closes are twice the limit and one more, so
that the high modes are entered and left, and the fourth close is on the volume that the
worker does not hold; one volume has another open left and one has none, so that the
worker holds the one from close to close and must let go of the other.  Three requests
over a threshold of one fill the workers (two) and the overflow queue; a mount has no
volume to be counted for.  Three sectors that are not neighbours are three runs, so one
is last, one first, one neither; addresses of the two files alternate, so that a wrong
address is somebody else's.  Two changes and a flush are enough for a thread, the DPC
and the flush to overlap in every order of their steps, and one failure of FatMarkVolume
falls into each of its calls; a volume that has been flushed is not also removed or shut
down, and nothing is asked of one that has been.  Three clusters make two files compete
for the last, fragment the volume, and need the loop of FatAllocateDiskSpace; one
exception is met in every step, and a file may be torn while the other takes the cluster
that it leads to.  Two devices are the least of which one is not MycelFS's; three
contexts are the driver's and one of each slot.  A field of one cell is what the SDK
makes, one of three is no grid of MycelFS; `FsGrid` (2 by 2, for 64 by 64) and
`DefaultGrid` (2 by 1, for 256 by 128) differ in width times height from each other and
from both.

Deadlock is not checked: when all bounded edits and faults are used up and the user does
nothing the Explorer really stands still, and a driver without requests does, or with
all of them waiting for a lost reserve; so do a deleted volume and a library that nobody
calls.

Symmetry is used for threads, files and names where they are interchangeable and no
liveness property is checked.

Fairness.  `FairSpec` of `TransformFile` and `FairExplorer` are weak fairness of each
thread: the scheduler runs them and their system calls return.  Nothing is assumed of
the user, who may leave a message box open for ever, since posted messages are handled
in it.  `FairSpec` of `PagingFileIo` is weak fairness of each thread and of the disk and
the completion routines, and strong fairness of `TakeReserve`: an event serves its
waiters in turn, so a thread that waits is not passed over for ever while others take
the reserve.  `FairClose`: a work item that was queued runs, who holds a volume goes on,
and strong fairness of the worker's waits for a volume, since a resource is granted in
turn.  `FairVolume`: every create is answered, a file object without references is
closed, and FatScanForDismountedVcb runs time and again, as it does before every mount
of any volume; users need not close anything.  `FairOverflow`: the system's threads
serve the queue, handlers return, oplocks are broken or given up.  `FairNonCached`: the
disk answers, and completion routines and a woken thread run.  `FairDirty`: threads,
timer, DPC, work item, flush, removal and lazy writer go on; nobody has to change
anything, and FatMarkVolume need not succeed.  In `user_mode` only the Explorer's thread
is fair.

## 4. Findings

1. `audit_keeps_tag`: while one thread audits a file the other's `DeleteAdsData` fails
   with a sharing violation that nobody looks at (line 365): the plaintext keeps its
   tag, `TransformFile` returns success and the next toggle refuses the file.
2. `short_hmac`: a read error ends the loop of `ComputeHmacForFile` like the end of the
   file (line 472); the HMAC of a prefix is stored, or found to match, and changes
   behind it go unnoticed, against the README's guarantee.
3. `close_during_pass`: closing the window ends the process while the worker encrypts
   (line 1399); the file is left in part encrypted without a tag and counts as
   plaintext.
4. `paging_reserve`: a request that has taken the reserve MDL and then sees that an
   associated IRP failed leaves the loop (deviosup.c 842) without setting
   `FatReserveEvent`.  Later requests that are short of memory wait for ever, where the
   reserve was to "guarantee paging file operations can always go forward".
5. `hook_offset`: `FatSingleAsync` stores the address on the disk in the next stack
   location, and the hook copies the current location over it (deviosup.c 335), whose
   offset is the one in the file.  A non-cached write of a user's file goes to an
   address that belongs to somebody else.
6. `sdk_seed`: `myc_process_buffer` reads one number of a field of one cell into a key
   cache of 65536 (mycelia_core.c 37946) and makes all of the cache the key.  What one
   context encrypted another with the same seed does not decrypt.

Met while reading or modelling, and without a run of their own:

* Explorer.  WM_MYCEL_DONE is posted once and lost if the queue is full (line 781), and
  the result of CreateThread is ignored (line 1358): both leave the window busy for ever
  (`QueueLimit`, `ThreadMayFail` of `MycelExplorer` show them).  A rename leaves the
  sidecar behind (line 1205), so that the ciphertext loses its tag where the volume has
  no streams.
* Paging.  A request whose master was reused succeeds with the `IoStatus.Information` of
  its last piece (deviosup.c 1043, against the comment at 717).
* Hook.  The hook takes the routine that would wake a waiting caller off the IRP, so
  that it waits for ever, and an asynchronous one keeps its resource; a request of
  several runs bypasses the hook and is stored in plaintext; when the pool is empty the
  hook returns without completing anything (line 315); when the floating point state
  cannot be saved the buffer is passed on as it is (line 219).
* Seed.  The seed of an open file is computed with its FCB (strucsup.c 1476): after a
  rename it is still that of the old name, and the next open decrypts with another one.
* Volume.  FSCTL_LOCK_VOLUME and FSCTL_UNLOCK_VOLUME on a handle that was opened
  exclusively clear VCB_STATE_FLAG_LOCKED although the handle is still open.  The closes
  of the worker and of FatFspClose never check for a dismount; a volume whose last close
  is one of them waits for the scan of the next mount.
* Request queue.  The worker reads the volume device after its request has been
  completed (fspdisp.c 197 and on), when another thread's close may have deleted it.
* Dirty bit.  KeRemoveQueueDpc does not wait for a DPC that runs, so that the comment
  "We have now synchronized with anybody clearing the dirty flag" (cachesup.c 1273) is
  not true; a flush between `TestRace` and `FixRace` leaves the mark with the flag
  clear; flush, lock and exclusive open mark the volume clean and leave
  LastFatMarkVolumeDirtyCall, so that a change within the next second does not mark it
  again.  A volume to be checked for bad sectors (VolumeDirtyWithSurfaceTest) is written
  FAT_CLEAN_VOLUME.  A FatMarkVolume that raises in a flush (flush.c 423) leaves the
  flag set with timer and DPC cancelled, so that nobody marks the volume clean until
  something is changed a second later; the work item that raises is not repeated; a
  shutdown leaves the flag set.
* Allocation.  A move whose flush raises behind the first splice (fsctrl.c 6332, 6345)
  frees the new cluster although the directory entry or the chain leads to it, since
  DiskSpaceAllocated is cleared only afterwards (line 6354, "This was successfully
  committed.  We no longer want to free this allocation on error."): the file is cut
  there, or runs into another one that takes the cluster, against "the file is still OK"
  (line 6284).  A failed allocation with an exact match never gives its clusters back to
  NumberOfFreeClusters; an exception inside the loop gives back the last run and what is
  in the MCB; a truncation that fails above zero restores AllocationSize although MCB
  and FAT are cut.  The counts then are too low, which `PromisesKept` allows.
* MycelFS.  A failed `mycelia_init_all` after a failure clears the desync with
  "initialised" still set, against "fail-closed": lookups answer again from mixed state;
  `FailClosed` is stated of all other calls.  `mycelia_cycle_update` fails closed unless
  the variance of the last kernel is between 0.5 and 1.5, so that it hardly ever "hält
  das Myzel am Leben". `mycelia_get_noise_epoch` returns bits of the noise factor
  (37178).  `initialize_gpu` succeeds for any device once the driver runs, so MycelFS
  cannot start while it runs on another (`InitAllElsewhere`).
* SubQG.  After an initialisation that failed, width and height are left over and the
  next one runs with them; buffers left over survive a shutdown in a context that was
  released.  `subqg_set_params` may report success without a state.  A block of the SDK
  shrinks the field of MycelFS to one cell and MycelFS goes on.
* Slots.  Two threads that find a slot empty both make a context, and the first leaks. A
  lookup before `initialize_gpu`, or after a shutdown, makes the slot's context the
  driver's too, and the next shutdown releases it twice (`InitFirst` FALSE shows it).
* SDK.  The first byte of each key is the same for all seeds and blocks.

## 5. Proofs

Every safety property that a passing run checks is also a theorem, for all values of the
constants.  Assumed are the facts about the constants that the modules state with ASSUME
(names and "no name" differ, bounds are numbers, shapes are nonempty sequences of
positive numbers, sets of which the code keeps a count are finite, and so on), which TLC
evaluates in the runs, and where a theorem has a hypothesis of its own, that hypothesis.
Each proof has the same form: an inductive invariant, a lemma for each action, and frame
lemmas that say what one thread's, request's or file's step leaves alone.

### TransformFileProofs

For any number of threads, names, files and blocks, and under every fault:

* `Invariant`: `Spec => []IInv`; `TypeCorrect`: `Spec => []TypeOK`.
* `RoundTripHolds`: `Spec => []RoundTrip`.
* `TamperDetectedHolds`: `Spec => []TamperDetected`, assuming that hashing meets no read
  error (`"mac" \notin Faults`).  Without the assumption it is false, see finding 2.
* `UntaggedIsPlainHolds`: `Spec => []UntaggedIsPlain`, on a volume with streams and
  without a sidecar left over, and if no read, write or crash stops a toggle half way
  (`Harmless` are the other faults).  A toggle stopped half way leaves a file in part
  encrypted without a tag, which is finding 3.

`RoundTrip` is not inductive: it speaks of the end of a decryption.  `IInv` says how
things stand on the way: a handle keeps its file under its name (`HandleHolds`), one
toggle at a time is at a file (`Exclusive`), the blocks before the position are
transformed and the others are not (`InPlace`), a decryption started from what its tag
covers (`Checked`), and every tag, on the volume or in a local, covers what an
encryption made of what it found (`Sound`).  `PlainInv` adds that what a tag covers was
plain before, that an encryption starts from plaintext, and that a thread which has a
tag open keeps it from being deleted.

### SealedStoreProofs

About `TransformFile`, for any number of threads, where hashing meets no read error:

* `AtomicHolds`: `Spec => Atomic`, the refinement of `SealedStore`.
* `SealingSucceeds`: an encryption that returns success leaves the file sealed under the
  tag that `ReadAdsData` will find.
* `SuccessUnaudited`: while no audit is under way any success means sealed or restored
  as a whole, if DeleteFileW of a tag does not fail and there is no sidecar next to
  streams.
* `SuccessAlone`: `Spec => SuccessIsComplete` with one thread, under the same
  hypotheses.  With two threads it is false, see finding 1.

`SealInv` says where tags come from: one on the volume was issued by a sealing, and one
on its way seals the file as it is.  `KeepInv` says what a thread may rely on while it
is not looking: nobody else creates the tag that it did not find or deletes the one that
it audits.  In the refinement a file under transformation has the contents that its
operation found, so that the blocks are stutters and `WriteTag` and `DeleteTag` seal and
unseal.

### ExplorerProofs

* `ExplorerInvariant`: `IInv` of `TransformFile` holds in the process as well, whose
  toggles are started by clicks and messages and cut off by `CloseWindow`; of a pass
  that is over nothing is left but its last message, which comes last.  Hence
  `ExplorerRoundTrip` and, without read errors while hashing, `ExplorerTamperDetected`.
* `NamesStayDuringPass`: `SpecExplorer => NoRenameDuringPass`, whatever is lost.
* `BusyTells`: `SpecExplorer => []BusyIsTrue`, if CreateThread does not fail and the
  queue holds a message for each name and one more.  Without either the window may stay
  busy for ever (section 4).  The strengthening is `ReportsFit`: what the pass has still
  to report fits in the queue.

### PagingFileIoProofs

For any number of requests, runs and pages, any size of the reserve, and however memory
and disks fail:

* `Invariant`, `TypeCorrect`, `CompletedOnce`, `CountHolds`, `ReserveExclusive`: the
  invariants of the run `paging_requests`.
* `PromiseKept`: `Spec => Promise`, the refinement of `PagedTransfer`.

The argument turns on the count.  While runs are still to be sent, the thread's own
`irpCount` exceeds the runs that follow (`CountKeepsMaster`), so that completion
routines cannot bring the master's count to 0; this is what the test `IrpCount != 1`
before IoMakeAssociatedIrp is for.  When the master is out, no associated IRP is
(`MasterAlone`).  The reserve is marked only in the request that holds it
(`ReserveMarked`).  `RunAtHand` and `RunsBehind` account for pages: without an error
every run behind the loop's is moved or at the disk, so that a request that succeeds has
all of them.  A step of one request leaves the others alone (`Frame`, `OneRequest`), so
each action needs a lemma about its own request only.

### TransferProofs

For any number of requests and runs, and whatever fails:

* `Settled`: `[]CompletedIsSettled`; `SuccessIsWhole`: `[]SuccessMeansAllRuns`.  Their
  invariant says that IrpCount is the number of runs which no completion routine has
  counted yet, that the event and the resource tell whether it is 0, and that the I/O
  manager's own count lags behind it by the runs that it has still to see.
* `OnlyHookMisplaces`: `EveryWriteInsideFile` is violated by the hook (finding 5) and by
  nothing else: every other step keeps it.
* `KeystreamByPosition` and `CutsNeverMatter`: the loop of FatMycelProcessBuffer gives
  every byte the key of its position, so a buffer in two pieces is the buffer at once,
  and twice is the original, for every buffer, seed, position, cut and size of the grid.
  The recursive function is shown to be the closed form by its least counterexample.

### QueueProofs

* `PostedCount`: `[]CountIsWorkers`; `OverflowServed`: `[]NobodyStranded`, for any
  finite set of requests and any threshold.  In the invariant PostedRequestCount is the
  requests of the volume that wait in the system's queue and the runs of FatFspDispatch,
  and is positive while the overflow queue is not empty; the queues have no request
  twice and no mount waits in the overflow queue.  Assumed is that the system has more
  threads than one volume can occupy.
* `CloseLists`: `[]ListsAgree`; `ClosesServed`: `[]NoneStranded`; `OneCloseWorker`:
  `[]OneWorker`, for any closes, volumes and threads that could be workers.  The three
  hold together or not at all: the flag AsyncCloseActive needs the lists to be empty
  when it is cleared, removal from two lists needs each close to be once on both, and
  `HoldsTaken` says that what the worker carries is on neither.

### VolumeProofs

* `CountsAreOpens`: `[]CountsMeanOpens`; `DeletedWhenUnused`: `[]DeletedUnused`;
  `LockIsExclusive`: `[]LockExcludes`, for any finite sets of file objects and handles.
  `VolumeInv` says what each of the five counts is the cardinality of in every state of
  create, cleanup and close, the recheck of FatCommonClose among them: there a file
  object that is gone is still counted, and only this keeps the VCB from being deleted
  under the thread that waits for the global resource.
* `DirtyIsBeingCleaned`: `[]CleanIsUnderWay`, which with the types is inductive, for any
  number of threads, changes, flushes and failures of FatMarkVolume.  It excepts a
  volume that is to stay dirty, is being removed or is no longer good, and, until the
  timer is set again, a flag that the code gave up (`lost.flag`).
* `PromisesAreKept`: `[]PromisesKept`; `ClustersOwnedOnce`: `[]OwnedOnce`;
  `ChainsAgree`: `[]ChainIsMcb`, for any number of clusters, any finite number of files,
  any length of requests, and any number of exceptions.  `ChainIsMcb` speaks of files
  that nobody works on; `DiskInv` says of each operation what it holds and how it is
  chained at every step (`Growing`, `Moving`, `Freeing`): a run that was found is still
  free in the FAT until it is linked, the chain got so far is apart from the file's, a
  cluster given back is free in the FAT before its bit is clear.  Between the clearing
  of the bits and the correction of the MCB a file is said to have what its MCB is about
  to say (`HeldBy`), which is what the chain already is (`Given`).  Of a file with a
  torn chain `Sound` asks only that its MCB and FCB agree; its clusters stay its own.
  From `PromisesKept` follows that the loop of FatAllocateDiskSpace finds a clear bit
  whenever it looks (`ClearBit`, `LongestRun`), so that it never reaches its bugcheck.

### CoreProofs

* `ContextsReleasedOnce`: `SpecGpu => []ReleasedOnce`, for any number of devices and
  threads, if lookups happen only while the driver is initialised (`InitFirst`); without
  it the property is false (section 4).  A slot that owns its context owns it alone, and
  a thread in a lookup keeps the driver initialised.
* `CoreReleasesOnce`, `StaysClosed`, `FieldAlwaysFits`, `EvenCallsRestore`: the
  invariants `ReleasedOnce`, `FailClosed`, `FieldFits`, `OneContextRestores` of
  `MyceliaCore`, for any number of devices, contexts of the SDK, seeds and blocks, and
  any number of failed OpenCL calls, except that `OneContextRestores`, and what
  `FieldFits` says of the grid, are about histories without failures.  `CoreInv` ties
  the field to the driver's context, the buffers of MycelFS to that of its slot, and the
  keys in a block to the parity of the calls that put them there.

### Only model-checked

Liveness (`OperationEnds`, `BusyEnds`, `EachCompletes`, `AsyncDone`, `VolumeGoes`,
`PostedIsHandled`, `TransferEnds`, `VolumeMarkedClean`): these need ENABLED for their
fairness, which the provers do not have.  The properties that findings show violated are
no theorems; where a hypothesis excludes the finding, the theorem has it.

## 6. What is left out

* The keystream and the HMAC are ideal, and names with equal hashes do not occur: the
  32-bit hash of the name is taken as injective.
* Names are case-sensitive in the model; Explorer sidecars are not themselves listed and
  toggled as files, although `PopulateListView` shows them.
* The Explorer's view changes (layout, opening a file, going up a folder) change nothing
  that a property is about.
* `FatPagingFileIo`: the detour over a thread with more stack is a call, the work item
  that marks the volume dirty a delay; on leaving the loop at line 842 an MDL is leaked
  besides the reserve, which the model does not count.
* Verification of removable media, disk errors that move part of the pages.
* `NonCachedIo`: the exception of the hook for a buffer that cannot be mapped, requests
  that are posted again with STATUS_VERIFY_REQUIRED, handles of the volume, transfers
  that are not aligned to sectors (FatNonCachedNonAlignedRead, FatSingleNonAlignedSync),
  the count of outstanding writes, and what read.c and write.c do through the cache.
* `VolumeLife`: an exclusive open that shares reading, the stream of the EA file, paths,
  access checks, sharing, plug and play.  That the reference to the VPB is given up
  before IRP_MJ_CLOSE is the I/O manager's doing.
* `DirtyVolume`: a DPC and a work item are taken to finish before the timer expires the
  next time, seconds later.  Marking by lock (fsctrl.c 3565, which cancels nothing) and
  exclusive open, what a verify does to VCB_STATE_FLAG_MOUNTED_DIRTY, write-protected
  media and FAT12 are not there.  `VolumeMarkedClean` says nothing of a volume that is
  flushed, since a flush between `TestRace` and `FixRace` leaves the mark.
* `DiskSpace`: FAT16 in one window; the windows of FAT32 and the unwinding of
  FatSetFatRun, zeroing on deallocation, EAs.  No operation on a torn chain is modelled,
  neither the STATUS_FILE_CORRUPT_ERROR that its lookup may raise nor what a truncation
  of it would free, nor the next open of a file with a torn entry: what `OwnedOnce` and
  `ChainIsMcb` say of such a file ends there.
* `GpuSlots`: the discovery of devices, and a shutdown during a lookup, as the
  repository does not say which exported calls may run at once.
* `MyceliaCore`: calls of several threads; the noise factor, which every writer clamps;
  the kernel of a lookup; the mapping of VRAM, which is done by a driver that is not in
  the repository.
* Directories, names, EAs, byte-range locks, oplocks, volume information, devices of
  fastfat: the vendor's sample code, sequential under the resources of FCB and VCB, or
  calls of libraries of the kernel.
* The numerical kernels, the quantum circuits and the colony of mycelia_core: launches
  that keep nothing but buffers of numbers; OpenCL itself and vendored headers.

## 7. Plan

1. `FcbSeed`: the seed of an open file against the name it has, with renames and
   reopening; the cached paths of read.c and write.c above `NonCachedIo`.
2. Theorems with weaker hypotheses: `SuccessIsComplete` for threads that never toggle
   and audit the same file; `TaggedIsCipher` where DeleteAdsData does not fail.
3. What a pass of the Explorer leaves behind: every file of the folder toggled once, or
   reported.
