----------------------------- MODULE MCFastFat -----------------------------
(* Small instances of the modules about fastfat for TLC, checked in one run (but for  *)
(* those of MCPagingAndDisk).  The five modules share no variable: "part" is chosen  *)
(* at the start and says which of them moves, and the others stay in their initial   *)
(* states, where none of their fair actions is enabled.                              *)
EXTENDS CloseQueue, VolumeLife, OverflowQueue, MCNonCachedIo, DirtyVolume

CONSTANTS c1, c2, c3, c4, v1, v2

VARIABLE part

vars == <<part, closeVars, volumeVars, overflowVars, nonCachedVars, dirtyVars>>

\* One file on a volume with something else open, three on one with nothing else.
VolumesOfCloses == (c1 :> v1) @@ [c \in {c2, c3, c4} |-> v2]
OpensLeft == (v1 :> 1) @@ (v2 :> 0)

\* Only the volume that moves may have been mounted dirty.
Init ==
    /\ part \in {"close", "volume", "overflow", "io", "dirty"}
    /\ InitClose /\ InitVolume /\ InitOverflow /\ InitNonCached /\ InitDirty
    /\ vcbState.mountedDirty => part = "dirty"

\* A step of the part that moves.
InClose(A) ==
    /\ part = "close" /\ A
    /\ UNCHANGED <<part, volumeVars, overflowVars, nonCachedVars, dirtyVars>>
InVolume(A) ==
    /\ part = "volume" /\ A
    /\ UNCHANGED <<part, closeVars, overflowVars, nonCachedVars, dirtyVars>>
InOverflow(A) ==
    /\ part = "overflow" /\ A
    /\ UNCHANGED <<part, closeVars, volumeVars, nonCachedVars, dirtyVars>>
InNonCached(A) ==
    /\ part = "io" /\ A
    /\ UNCHANGED <<part, closeVars, volumeVars, overflowVars, dirtyVars>>
InDirty(A) ==
    /\ part = "dirty" /\ A
    /\ UNCHANGED <<part, closeVars, volumeVars, overflowVars, nonCachedVars>>

\* The next-state relation of each module, with its actions one by one so that TLC
\* reports how often each is taken.
NextInClose ==
    \/ \E c \in Closes : InClose(CloseNow(c)) \/ \E q \in Queues : InClose(QueueClose(c, q))
    \/ \E w \in Workers :
          \/ InClose(StartWorker(w)) \/ InClose(WorkerRemoves(w))
          \/ InClose(WorkerReleases(w)) \/ InClose(WorkerAcquires(w))
          \/ InClose(WorkerHolds(w)) \/ InClose(WorkerDrops(w))
          \/ InClose(WorkerCloses(w)) \/ InClose(WorkerExits(w))
    \/ \E v \in Vcbs :
          InClose(DrainBegins(v)) \/ InClose(Drain(v)) \/ InClose(DrainEnds(v))
    \/ InClose(StartShutdown)

NextInVolume ==
    \/ \E f \in Files : InVolume(CreateFile(f)) \/ InVolume(CleanupFile(f))
    \/ \E h \in Handles :
          \/ InVolume(CreateHandle(h)) \/ InVolume(CreateExclusive(h))
          \/ InVolume(CleanupHandle(h)) \/ InVolume(LockWaits(h))
          \/ InVolume(LockEnds(h)) \/ InVolume(Unlock(h)) \/ InVolume(Dismount(h))
    \/ \E s \in Streams : InVolume(OpenDirectoryFile(s))
    \/ \E o \in Users : InVolume(IssueCreate(o))
    \/ \E o \in Users \cup Streams :
          \/ InVolume(SendClose(o)) \/ InVolume(DeferClose(o))
          \/ InVolume(WorkerTakesClose(o)) \/ InVolume(CommonClose(o))
          \/ InVolume(Recheck(o))
    \/ InVolume(Scan) \/ InVolume(MediumChanges)

NextInOverflow ==
    \/ \E r \in Requests :
          \/ InOverflow(PostRequest(r)) \/ InOverflow(OplockComplete(r))
          \/ InOverflow(HandlerCompletes(r)) \/ InOverflow(HandlerWaits(r))
          \/ InOverflow(HandlerPosts(r))
    \/ InOverflow(Dispatch) \/ InOverflow(RemoveOverflowEntry)
    \/ InOverflow(DispatchReturns)

NextInNonCached ==
    \E i \in Ios :
        \/ \E f \in NonCachedFiles, o \in {"read", "write"}, wait \in BOOLEAN :
              \/ \E p \in Positions : InNonCached(IssueSingle(i, f, o, wait, p))
              \/ \E p, q \in Positions : InNonCached(IssueMultiple(i, f, o, wait, p, q))
              \/ InNonCached(IssueFails(i, f, o, wait))
        \/ \E p \in Positions :
              \/ InNonCached(DiskRun(i, p)) \/ InNonCached(CompletionRoutine(i, p))
              \/ InNonCached(IoManager(i, p)) \/ InNonCached(HookTransfers(i, p))
        \/ InNonCached(WaitSync(i)) \/ InNonCached(HookReturns(i))
        \/ InNonCached(NextRequest(i))

\* Bounds: a volume that has been flushed is neither removed nor shut down, and nothing is
\* asked of one that has been.
NextInDirty ==
    \/ \E s \in Setters :
          \/ InDirty(vcbState.good /\ Change(s))
          \/ InDirty(CancelTimer(s)) \/ InDirty(TestDirty(s))
          \/ InDirty(MarkDirty(s)) \/ InDirty(FlagDirty(s)) \/ InDirty(SetCleanTimer(s))
    \/ InDirty(SecondPasses) \/ InDirty(LazyWriter) \/ InDirty(MarkForCheck)
    \/ InDirty(TimerExpires) \/ InDirty(CleanVolumeDpc) \/ InDirty(QueueClean)
    \/ InDirty(DeferredClean) \/ InDirty(TestRace) \/ InDirty(FixRace)
    \/ InDirty(vcbState.good /\ FlushVolume) \/ InDirty(FlushCancels) \/ InDirty(FlushMarks)
    \/ InDirty(FlushClears) \/ InDirty(flushes = 0 /\ RemoveVolume) \/ InDirty(RemoveCancels)
    \/ InDirty(VolumeGone) \/ InDirty(flushes = 0 /\ ShutdownVolume)

Next ==
    \/ NextInClose \/ NextInVolume \/ NextInOverflow
    \/ NextInNonCached \/ NextInDirty

FastFat ==
    /\ Init /\ [][Next]_vars
    /\ FairClose /\ FairVolume /\ FairOverflow /\ FairNonCached /\ FairDirty
=============================================================================
