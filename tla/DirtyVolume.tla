----------------------------- MODULE DirtyVolume -----------------------------
(***************************************************************************)
(* The dirty mark of a volume of fastfat: FatSetDirtyBcb writes it to the  *)
(* boot sector at the first change, a timer, its DPC and a work item take  *)
(* it back when changes have ceased, a flush of the volume and a shutdown  *)
(* do so at once, and a removal cancels it all (cachesup.c, verfysup.c,    *)
(* flush.c, fsctrl.c, pnp.c, shutdown.c).  None of them waits for another, *)
(* but for who holds the whole volume: each access to the dirty flag, the  *)
(* timer and the boot sector is an action; a test of                       *)
(* VCB_STATE_FLAG_MOUNTED_DIRTY goes with what it guards.  FatMarkVolume   *)
(* may raise, or return without having written.                            *)
(***************************************************************************)
EXTENDS Naturals, FiniteSets

CONSTANTS
    Setters,       \* threads that change structures of the volume
    MaxChanges,    \* bound: how often they do
    MaxFlushes,    \* bound: how often the volume is flushed
    MaxFailures    \* bound: how often FatMarkVolume fails

VARIABLES
    vcbState,      \* VCB_STATE_FLAG_VOLUME_DIRTY, VCB_STATE_FLAG_MOUNTED_DIRTY; VcbGood
                   \* and not shut down
    mark,          \* is FAT_BOOT_SECTOR_DIRTY set on the disk
    cleaning,      \* CleanVolumeTimer, CleanVolumeDpc and the clean volume packet
    setter,        \* thread |-> where it is in FatSetDirtyBcb
    flusher,       \* where the flush or the removal is, by whoever holds the volume
    cache,         \* CcIsThereDirtyData; LastFatMarkVolumeDirtyCall
    lost,          \* (history) since the timer was set last: has the flag been left with
                   \* nobody to clear it, and the mark because FatMarkVolume failed
    changes,
    flushes,
    failures

dirtyVars == <<vcbState, mark, cleaning, setter, flusher, cache, lost, changes, flushes,
               failures>>

\* A volume is mounted clean, or dirty and then left so: FatCheckDirtyBit.
InitDirty ==
    /\ vcbState \in [dirty : {FALSE}, mountedDirty : BOOLEAN, good : {TRUE}]
    /\ mark = vcbState.mountedDirty
    /\ cleaning = [timer |-> FALSE, dpc |-> "no", packet |-> "no"]
    /\ setter = [s \in Setters |-> "idle"]
    /\ flusher = "idle"
    /\ cache = [unwritten |-> FALSE, recent |-> FALSE]
    /\ lost = [flag |-> FALSE, mark |-> FALSE]
    /\ changes = 0
    /\ flushes = 0
    /\ failures = 0

-----------------------------------------------------------------------------
(* FatMarkVolume, called unless the volume was mounted dirty *)

\* It returns: the mark is written, or it is not (no IRP, an error that is ignored).
MarkReturns(m) ==
    \/ vcbState.mountedDirty /\ UNCHANGED <<mark, failures>>
    \/ ~ vcbState.mountedDirty /\ mark' = m /\ UNCHANGED failures
    \/ /\ ~ vcbState.mountedDirty /\ failures < MaxFailures
       /\ mark' = mark /\ failures' = failures + 1

\* CcPinRead raises before the boot sector is written, or FatSetFatEntry after.
MarkRaises(m) ==
    /\ ~ vcbState.mountedDirty /\ failures < MaxFailures
    /\ mark' \in {mark, m} /\ failures' = failures + 1

\* The mark has been left on the disk by a failure.
MarkLeft == lost' = [lost EXCEPT !.mark = @ \/ (failures' > failures /\ mark')]

-----------------------------------------------------------------------------
(* FatSetDirtyBcb *)

SetterAt(s, from, to) == setter[s] = from /\ setter' = [setter EXCEPT ![s] = to]

\* KeCancelTimer and KeRemoveQueueDpc: a DPC that runs is not waited for.
CancelClean == cleaning' = [cleaning EXCEPT !.timer = FALSE,
                                  !.dpc = IF @ = "queued" THEN "no" ELSE @]

\* CcSetDirtyPinnedData; nothing more within a second of the last time.
Change(s) ==
    /\ changes < MaxChanges
    /\ changes' = changes + 1
    /\ SetterAt(s, "idle", IF cache.recent THEN "idle" ELSE "cancel")
    /\ cache' = [cache EXCEPT !.unwritten = TRUE]
    /\ UNCHANGED <<vcbState, mark, cleaning, flusher, lost, flushes, failures>>

CancelTimer(s) ==
    /\ SetterAt(s, "cancel", "test")
    /\ CancelClean
    /\ UNCHANGED <<vcbState, mark, flusher, cache, lost, changes, flushes, failures>>

\* Mutant: a thread that finds the flag set leaves the timer that it has cancelled.
TestDirtyDone(s) ==
    /\ SetterAt(s, "test", IF vcbState.dirty THEN "idle" ELSE "mark")
    /\ UNCHANGED <<vcbState, mark, cleaning, flusher, cache, lost, changes, flushes, failures>>

\* Is the flag set already?
TestDirty(s) ==
    /\ SetterAt(s, "test", IF vcbState.dirty THEN "rearm" ELSE "mark")
    /\ UNCHANGED <<vcbState, mark, cleaning, flusher, cache, lost, changes, flushes, failures>>

\* If FatMarkVolume raises, so does FatSetDirtyBcb, with the timer cancelled.
MarkDirty(s) ==
    /\ \/ SetterAt(s, "mark", "flag") /\ MarkReturns(TRUE)
       \/ SetterAt(s, "mark", "idle") /\ MarkRaises(TRUE)
    /\ MarkLeft
    /\ UNCHANGED <<vcbState, cleaning, flusher, cache, changes, flushes>>

FlagDirty(s) ==
    /\ SetterAt(s, "flag", "rearm")
    /\ vcbState' = [vcbState EXCEPT !.dirty = TRUE]
    /\ UNCHANGED <<mark, cleaning, flusher, cache, lost, changes, flushes, failures>>

\* The time is noted and the timer set, for 8 seconds or 1.5.
SetCleanTimer(s) ==
    /\ SetterAt(s, "rearm", "idle")
    /\ cache' = [cache EXCEPT !.recent = TRUE]
    /\ cleaning' = [cleaning EXCEPT !.timer = TRUE]
    /\ lost' = [flag |-> FALSE, mark |-> FALSE]
    /\ UNCHANGED <<vcbState, mark, flusher, changes, flushes, failures>>

SetDirtyBcb(s) ==
    CancelTimer(s) \/ TestDirty(s) \/ MarkDirty(s) \/ FlagDirty(s) \/ SetCleanTimer(s)

-----------------------------------------------------------------------------
(* The clock, the cache manager and other requests *)

SecondPasses ==
    /\ cache.recent
    /\ cache' = [cache EXCEPT !.recent = FALSE]
    /\ UNCHANGED <<vcbState, mark, cleaning, setter, flusher, lost, changes, flushes, failures>>

LazyWriter ==
    /\ cache.unwritten
    /\ cache' = [cache EXCEPT !.unwritten = FALSE]
    /\ UNCHANGED <<vcbState, mark, cleaning, setter, flusher, lost, changes, flushes, failures>>

\* FatDirtyVolume, FatFspMarkVolumeDirtyWithRecover: the volume is to stay dirty, whether
\* FatMarkVolume fails or not.
MarkForCheck ==
    /\ ~ vcbState.mountedDirty
    /\ vcbState' = [vcbState EXCEPT !.mountedDirty = TRUE]
    /\ MarkReturns(TRUE) \/ MarkRaises(TRUE)
    /\ UNCHANGED <<cleaning, setter, flusher, cache, lost, changes, flushes>>

-----------------------------------------------------------------------------
(* The clean volume timer, its DPC and the work item *)

\* The timer runs for seconds: the DPC and the work item of its last expiry are done.
TimerExpires ==
    /\ cleaning.timer
    /\ cleaning.dpc = "no" /\ cleaning.packet = "no"
    /\ cleaning' = [cleaning EXCEPT !.timer = FALSE, !.dpc = "queued"]
    /\ UNCHANGED <<vcbState, mark, setter, flusher, cache, lost, changes, flushes, failures>>

\* Mutant: the DPC gives up while there is unwritten data.
CleanVolumeDpcGivesUp ==
    /\ cleaning.dpc = "queued"
    /\ cleaning' = [cleaning EXCEPT !.dpc = IF cache.unwritten THEN "no" ELSE "running"]
    /\ UNCHANGED <<vcbState, mark, setter, flusher, cache, lost, changes, flushes, failures>>

\* FatCleanVolumeDpc: with unwritten data, the timer is set again; without pool, that
\* was it.
CleanVolumeDpc ==
    /\ cleaning.dpc = "queued"
    /\ \/ /\ cache.unwritten
          /\ cleaning' = [cleaning EXCEPT !.dpc = "no", !.timer = TRUE]
          /\ UNCHANGED lost
       \/ /\ ~ cache.unwritten
          /\ cleaning' = [cleaning EXCEPT !.dpc = "running"]
          /\ UNCHANGED lost
       \/ /\ ~ cache.unwritten
          /\ cleaning' = [cleaning EXCEPT !.dpc = "no"]
          /\ lost' = [lost EXCEPT !.flag = TRUE]
    /\ UNCHANGED <<vcbState, mark, setter, flusher, cache, changes, flushes, failures>>

\* It clears the flag and queues the packet.
QueueClean ==
    /\ cleaning.dpc = "running"
    /\ vcbState' = [vcbState EXCEPT !.dirty = FALSE]
    /\ cleaning' = [cleaning EXCEPT !.dpc = "no", !.packet = "queued"]
    /\ UNCHANGED <<mark, setter, flusher, cache, lost, changes, flushes, failures>>

\* FatDeferredCleanVolume, under FatData's resource: nothing on a volume that is no longer
\* good; an exception ends it ("Ignore any problems."), the test below included.
DeferredClean ==
    /\ cleaning.packet = "queued"
    /\ flusher \notin {"drop", "bad"}
    /\ \/ /\ vcbState.good
          /\ MarkReturns(FALSE)
          /\ cleaning' = [cleaning EXCEPT !.packet = "marked"]
       \/ /\ vcbState.good
          /\ MarkRaises(FALSE)
          /\ cleaning' = [cleaning EXCEPT !.packet = "no"]
       \/ /\ ~ vcbState.good
          /\ cleaning' = [cleaning EXCEPT !.packet = "no"]
          /\ UNCHANGED <<mark, failures>>
    /\ MarkLeft
    /\ UNCHANGED <<vcbState, setter, flusher, cache, changes, flushes>>

\* "Check for a pathological race condition": is the flag set again?
TestRace ==
    /\ cleaning.packet = "marked"
    /\ cleaning' = [cleaning EXCEPT !.packet = IF vcbState.dirty THEN "redirty" ELSE "no"]
    /\ UNCHANGED <<vcbState, mark, setter, flusher, cache, lost, changes, flushes, failures>>

\* "... and fix it.", whether the volume was mounted dirty or not.
FixRace ==
    /\ cleaning.packet = "redirty"
    /\ \/ mark' = TRUE /\ UNCHANGED failures
       \/ failures < MaxFailures /\ failures' = failures + 1 /\ mark' \in {mark, TRUE}
    /\ cleaning' = [cleaning EXCEPT !.packet = "no"]
    /\ UNCHANGED <<vcbState, setter, flusher, cache, lost, changes, flushes>>

DeferredCleanVolume == DeferredClean \/ TestRace \/ FixRace

-----------------------------------------------------------------------------
(* FatCommonFlushBuffers on the volume; FatFlushAndCleanVolume where it may flush, and *)
(* FatCommonCreate for an exclusive open, do the same                               *)

\* Everything is written; then is the flag set?
FlushVolume ==
    /\ flusher = "idle" /\ flushes < MaxFlushes
    /\ flushes' = flushes + 1
    /\ cache' = [cache EXCEPT !.unwritten = FALSE]
    /\ flusher' = IF vcbState.dirty THEN "cancel" ELSE "idle"
    /\ UNCHANGED <<vcbState, mark, cleaning, setter, lost, changes, failures>>

FlushCancels ==
    /\ flusher = "cancel"
    /\ CancelClean
    /\ flusher' = "mark"
    /\ UNCHANGED <<vcbState, mark, setter, cache, lost, changes, flushes, failures>>

\* A volume that was mounted dirty keeps its flag, and so does one whose mark raises: the
\* timer is cancelled, and nobody is left to clear it.
FlushMarks ==
    /\ flusher = "mark"
    /\ \/ /\ MarkReturns(FALSE)
          /\ flusher' = IF vcbState.mountedDirty THEN "idle" ELSE "clear"
          /\ MarkLeft
       \/ /\ MarkRaises(FALSE)
          /\ flusher' = "idle"
          /\ lost' = [flag |-> TRUE, mark |-> lost.mark \/ mark']
    /\ UNCHANGED <<vcbState, cleaning, setter, cache, changes, flushes>>

FlushClears ==
    /\ flusher = "clear"
    /\ vcbState' = [vcbState EXCEPT !.dirty = FALSE]
    /\ flusher' = "idle"
    /\ UNCHANGED <<mark, cleaning, setter, cache, lost, changes, flushes, failures>>

-----------------------------------------------------------------------------
(* The end of the volume, under FatData's resource, which the work item shares *)

EndsAlone == flusher = "idle" /\ vcbState.good /\ cleaning.packet \in {"no", "queued"}

\* FatPnpRemove, FatPnpSurpriseRemove: FatFlushAndCleanVolume with NoFlush cancels the
\* timer of a volume whose flag is set, and leaves flag and mark ...
RemoveVolume ==
    /\ EndsAlone
    /\ flusher' = IF vcbState.dirty THEN "drop" ELSE "bad"
    /\ UNCHANGED <<vcbState, mark, cleaning, setter, cache, lost, changes, flushes, failures>>

RemoveCancels ==
    /\ flusher = "drop"
    /\ CancelClean
    /\ flusher' = "bad"
    /\ UNCHANGED <<vcbState, mark, setter, cache, lost, changes, flushes, failures>>

\* ... and FatCheckForDismount, forced, makes the volume bad if it does not delete it.
VolumeGone ==
    /\ flusher = "bad"
    /\ vcbState' = [vcbState EXCEPT !.good = FALSE]
    /\ flusher' = "idle"
    /\ UNCHANGED <<mark, cleaning, setter, cache, lost, changes, flushes, failures>>

\* FatCommonShutdown: flushed and marked clean, whatever raises; flag and timer are left.
ShutdownVolume ==
    /\ EndsAlone
    /\ MarkReturns(FALSE) \/ MarkRaises(FALSE)
    /\ vcbState' = [vcbState EXCEPT !.good = FALSE]
    /\ cache' = [cache EXCEPT !.unwritten = FALSE]
    /\ UNCHANGED <<cleaning, setter, flusher, lost, changes, flushes>>

FlushGoesOn == FlushCancels \/ FlushMarks \/ FlushClears \/ RemoveCancels \/ VolumeGone

-----------------------------------------------------------------------------
NextDirty ==
    \/ \E s \in Setters : Change(s) \/ SetDirtyBcb(s)
    \/ SecondPasses \/ LazyWriter \/ MarkForCheck
    \/ TimerExpires \/ CleanVolumeDpc \/ QueueClean \/ DeferredCleanVolume
    \/ FlushVolume \/ FlushGoesOn
    \/ RemoveVolume \/ ShutdownVolume

SpecDirty == InitDirty /\ [][NextDirty]_dirtyVars

\* Threads and worker are scheduled, timers expire, DPCs run, the lazy writer writes.
FairDirty ==
    /\ \A s \in Setters : WF_dirtyVars(SetDirtyBcb(s))
    /\ WF_dirtyVars(TimerExpires)
    /\ WF_dirtyVars(CleanVolumeDpc \/ QueueClean)
    /\ WF_dirtyVars(DeferredCleanVolume)
    /\ WF_dirtyVars(FlushGoesOn)
    /\ WF_dirtyVars(LazyWriter)

-----------------------------------------------------------------------------
\* A good volume whose flag is set has somebody on the way who will clear it or set the
\* timer, whatever overtakes what: a thread that has cancelled the timer and not yet gone
\* on, a flush that has, the timer, or its DPC.  Excepted is what the code gives up, until
\* a thread sets the timer again: the flag whose packet got no pool ("If we couldn't get
\* pool, oh well....", verfysup.c 697), or whose flush raised after it had cancelled the
\* timer (flush.c 414-424); and a volume that stays dirty, is being removed, or is gone.
CleanIsUnderWay ==
    \/ ~ vcbState.dirty
    \/ vcbState.mountedDirty \/ ~ vcbState.good \/ flusher = "bad"
    \/ lost.flag
    \/ \E s \in Setters : setter[s] \in {"test", "rearm"}
    \/ flusher \in {"mark", "clear"}
    \/ cleaning.timer \/ cleaning.dpc # "no"

\* A good volume that was marked dirty is marked clean in the end when changes cease, so
\* that it is not checked at its next mount, unless since the timer was set last the flag
\* was given up (above), or FatMarkVolume failed and so left the mark.  This is for volumes
\* that are not flushed: a flush between TestRace and FixRace leaves a mark that nobody
\* takes back.
VolumeMarkedClean ==
    mark ~> \/ ~ mark
            \/ vcbState.mountedDirty \/ ~ vcbState.good
            \/ lost.flag \/ lost.mark \/ flushes > 0
=============================================================================
