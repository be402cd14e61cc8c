----------------------------- MODULE VolumeLife -----------------------------
(***************************************************************************)
(* A volume of fastfat from its mount to the deletion of its VCB: who      *)
(* counts in OpenFileCount, InternalOpenCount, ResidualOpenCount and in    *)
(* the ReferenceCount of the VPB, and when FatCheckForDismount may tear    *)
(* the volume down (close.c, strucsup.c, create.c, cleanup.c, fsctrl.c).   *)
(* What holds the VCB exclusively from beginning to end is one action;     *)
(* operations that release it in between are several.                      *)
(***************************************************************************)
EXTENDS Integers, FiniteSets

CONSTANTS
    Files,       \* file objects of users, on files and directories
    Handles,     \* file objects of users, on the volume itself
    NoHandle

ASSUME FilesAssumption == IsFiniteSet(Files) /\ IsFiniteSet(Handles)
ASSUME DisjointAssumption ==
    /\ Files \cap Handles = {}
    /\ (Files \cup Handles) \cap {"volume", "root", "dir", NoHandle} = {}

VARIABLES
    object,      \* file object |-> where it is
    vcb,         \* the VCB
    vpb,         \* the VPB that the VCB was mounted with
    locking      \* handle |-> how far its FatLockVolumeInternal is

volumeVars == <<object, vcb, vpb, locking>>

Users == Files \cup Handles
\* The virtual volume file, the stream of the root directory and that of another
\* directory; the first two are opened by the VCB itself and never counted out
\* before it is torn down.
Residuals == {"volume", "root"}
Streams == Residuals \cup {"dir"}

\* No file object; create on the way to the file system; open; the last handle or
\* reference dropped; IRP_MJ_CLOSE sent; deferred; taken from the queue; between
\* FatReleaseVcb and FatAcquireExclusiveGlobal at the end of FatCommonClose.
ObjectPlaces == {"none", "creating", "open", "cleaned", "closing", "queued", "taken",
                 "recheck"}
\* Those that FatCommonClose has still to count out.
Counted(o) == object[o] \in {"open", "cleaned", "closing", "queued", "taken"}
At(place) == {o \in Users \cup Streams : object[o] = place}
HandleCountZero == Files \cap At("open") = {}

InitVolume ==
    /\ object = [o \in Users \cup Streams |-> IF o = "volume" THEN "open" ELSE "none"]
    /\ vcb = [exists |-> TRUE, condition |-> "good", openFileCount |-> 0,
              directAccessOpenCount |-> 0, internalOpenCount |-> 1,
              residualOpenCount |-> 1, closeInProgress |-> FALSE, locked |-> FALSE,
              fileObjectWithVcbLocked |-> NoHandle, dismountedBy |-> NoHandle]
    /\ vpb = [referenceCount |-> 1, ofDevice |-> TRUE, locked |-> FALSE]
    /\ locking = [h \in Handles |-> "no"]

\* The case of FatCommonClose on the type of open, for all file objects in S.
CountOut(V, S) ==
    [V EXCEPT !.openFileCount = @ - Cardinality(S \cap Users),
              !.directAccessOpenCount = @ - Cardinality(S \cap Handles),
              !.internalOpenCount = @ - Cardinality(S \cap Streams),
              !.residualOpenCount = @ - Cardinality(S \cap Residuals)]

Dereference(P, S) == [P EXCEPT !.referenceCount = @ - Cardinality(S)]

\* The stream of the directory is dropped with the last of its files that is closed.
Along(S) ==
    IF S \cap Files # {} /\ object["dir"] = "open" /\ \A f \in Files \ S : ~ Counted(f)
    THEN {"dir"} ELSE {}

\* Where file objects are when those of S have been closed, and of the streams dropped
\* those of now; Mm lets go of the others later.
Closed(S, now) ==
    [o \in Users \cup Streams |-> IF o \in S \cup now THEN "none"
                                 ELSE IF o \in Along(S) THEN "cleaned" ELSE object[o]]

-----------------------------------------------------------------------------
(* Create *)

\* The I/O manager references the VPB and sends the create to the file system.
IssueCreate(o) ==
    /\ object[o] = "none"
    /\ vcb.exists
    /\ vpb.ofDevice
    /\ object' = [object EXCEPT ![o] = "creating"]
    /\ vpb' = [vpb EXCEPT !.referenceCount = @ + 1]
    /\ UNCHANGED <<vcb, locking>>

Refuse(o) ==
    /\ object' = [object EXCEPT ![o] = "none"]
    /\ vpb' = Dereference(vpb, {o})
    /\ UNCHANGED vcb

\* FatVerifyVcb and the test for a locked volume.
Usable == vcb.condition = "good" /\ vcb.dismountedBy = NoHandle /\ ~ vcb.locked

\* FatCommonCreate on a file.
CreateFile(f) ==
    /\ object[f] = "creating"
    /\ \/ ~ Usable /\ Refuse(f)
       \/ /\ Usable
          /\ object' = [object EXCEPT ![f] = "open"]
          /\ vcb' = [vcb EXCEPT !.openFileCount = @ + 1]
          /\ UNCHANGED vpb
    /\ UNCHANGED locking

\* FatOpenVolume for a user who shares everything ...
CreateHandle(h) ==
    /\ object[h] = "creating"
    /\ \/ ~ Usable /\ Refuse(h)
       \/ /\ Usable
          /\ object' = [object EXCEPT ![h] = "open"]
          /\ vcb' = [vcb EXCEPT !.openFileCount = @ + 1, !.directAccessOpenCount = @ + 1]
          /\ UNCHANGED vpb
    /\ UNCHANGED locking

\* ... and for one who shares nothing: it closes what is deferred, must then find
\* no open at all, and locks the volume without a word to the VPB.
CreateExclusive(h) ==
    /\ object[h] = "creating"
    /\ Usable
    /\ \/ ~ HandleCountZero /\ Refuse(h)
       \/ /\ HandleCountZero
          /\ \E now \in SUBSET Along(At("queued")) :
                LET V == CountOut(vcb, At("queued") \cup now)
                    O == Closed(At("queued"), now)
                IN  IF V.openFileCount = 0
                    THEN /\ object' = [O EXCEPT ![h] = "open"]
                         /\ vcb' = [V EXCEPT !.openFileCount = @ + 1,
                                             !.directAccessOpenCount = @ + 1,
                                             !.locked = TRUE,
                                             !.fileObjectWithVcbLocked = h]
                         /\ vpb' = Dereference(vpb, now)
                    ELSE /\ object' = [O EXCEPT ![h] = "none"]
                         /\ vcb' = V
                         /\ vpb' = Dereference(vpb, now \cup {h})
    /\ UNCHANGED locking

\* FatOpenDirectoryFile, when an open file needs the stream of a directory.
OpenDirectoryFile(s) ==
    /\ s # "volume"
    /\ object[s] = "none"
    /\ Files \cap At("open") # {}
    /\ vcb.condition = "good"
    /\ object' = [object EXCEPT ![s] = "open"]
    /\ vcb' = [vcb EXCEPT !.internalOpenCount = @ + 1,
                          !.residualOpenCount = @ + Cardinality({s} \cap Residuals)]
    /\ vpb' = [vpb EXCEPT !.referenceCount = @ + 1]
    /\ UNCHANGED locking

-----------------------------------------------------------------------------
(* FatCheckForDismount *)

\* With no user on it the volume gets a new VPB and FatTearDownVcb drops its own
\* streams, some of which are closed at once (now), the others when Mm lets go of
\* them; FatFspClose does the deferred closes.
TornDown(V, O, now) ==
    LET gone == now \cup {o \in DOMAIN O : O[o] = "queued"}
    IN  [vcb |-> CountOut([V EXCEPT !.condition = "bad"], gone),
         vpb |-> Dereference([vpb EXCEPT !.ofDevice = FALSE, !.locked = FALSE], now),
         object |-> [o \in DOMAIN O |->
                        IF o \in gone THEN "none"
                        ELSE IF o \in Residuals /\ O[o] = "open" THEN "cleaned" ELSE O[o]]]

TearDowns(V, O) ==
    {TornDown(V, O, now) : now \in SUBSET {s \in Residuals : O[s] = "open"}}

Becomes(T, exists) ==
    /\ vcb' = [T.vcb EXCEPT !.exists = exists]
    /\ vpb' = T.vpb
    /\ object' = T.object

Unused(V) == vpb.referenceCount = V.residualOpenCount /\ V.openFileCount = 0
InUse(V) == V.condition = "good" \/ ~ Unused(V)
Kept(V, O) == Becomes([vcb |-> V, vpb |-> vpb, object |-> O], V.exists)

\* Mutant: the last test forgets the streams whose close is still to come.
CheckForDismountHasty(V, O) ==
    IF InUse(V) THEN Kept(V, O)
    ELSE \E T \in TearDowns(V, O) : Becomes(T, T.vpb.referenceCount # 0)

\* Mutant: the references that the VCB itself holds are not allowed for.
CheckForDismountStrict(V, O) ==
    IF V.condition = "good" \/ vpb.referenceCount # 0 \/ V.openFileCount # 0 THEN Kept(V, O)
    ELSE \E T \in TearDowns(V, O) :
            Becomes(T, T.vpb.referenceCount # 0 \/ T.vcb.internalOpenCount # 0)

\* The VCB is deleted if nothing is left.
CheckForDismount(V, O) ==
    IF InUse(V) THEN Kept(V, O)
    ELSE \E T \in TearDowns(V, O) :
            Becomes(T, T.vpb.referenceCount # 0 \/ T.vcb.internalOpenCount # 0)

\* FatScanForDismountedVcb, before each mount of a volume.
Scan ==
    /\ vcb.exists
    /\ CheckForDismount(vcb, object)
    /\ UNCHANGED locking

-----------------------------------------------------------------------------
(* Cleanup and close *)

\* FatCommonCleanup of a file; Mm or Cc may still reference the file object.
CleanupFile(f) ==
    /\ object[f] = "open"
    /\ object' = [object EXCEPT ![f] = "cleaned"]
    /\ UNCHANGED <<vcb, vpb, locking>>

\* FatCommonCleanup of a handle.  After FatDismountVolume the volume gets a new VPB
\* (FatCheckForDismount with Force: the handle itself still counts); a lock is undone.
CleanupHandle(h) ==
    /\ object[h] = "open"
    /\ locking[h] = "no"
    /\ object' = [object EXCEPT ![h] = "cleaned"]
    /\ LET swap == vcb.dismountedBy = h
           unlock == vcb.locked /\ vcb.fileObjectWithVcbLocked = h
       IN  /\ vcb' = [vcb EXCEPT !.condition = IF swap THEN "bad" ELSE @,
                                 !.locked = @ /\ ~ unlock,
                                 !.fileObjectWithVcbLocked = IF unlock THEN NoHandle ELSE @]
           /\ vpb' = [vpb EXCEPT !.ofDevice = @ /\ ~ swap, !.locked = @ /\ ~ unlock]
    /\ UNCHANGED locking

\* The I/O manager gives the reference to the VPB up and sends the close.
SendClose(o) ==
    /\ object[o] = "cleaned"
    /\ object' = [object EXCEPT ![o] = "closing"]
    /\ vpb' = Dereference(vpb, {o})
    /\ UNCHANGED <<vcb, locking>>

\* FatFsdClose defers the close: a user's by the mark of its FCB, any because the VCB
\* is held by someone else at the moment.
DeferClose(o) ==
    /\ object[o] = "closing"
    /\ object' = [object EXCEPT ![o] = "queued"]
    /\ UNCHANGED <<vcb, vpb, locking>>

\* FatRemoveClose of the worker, which has the close but not yet the VCB.
WorkerTakesClose(o) ==
    /\ object[o] = "queued"
    /\ object' = [object EXCEPT ![o] = "taken"]
    /\ UNCHANGED <<vcb, vpb, locking>>

\* Mutant: the bias is not given back when the volume is not checked.
CommonCloseBiased(o) ==
    /\ object[o] \in {"closing", "taken"}
    /\ object' = [object EXCEPT ![o] = "none"]
    /\ vcb' = [CountOut(vcb, {o}) EXCEPT !.openFileCount =
                   IF vcb.closeInProgress THEN @ ELSE @ + 1]
    /\ UNCHANGED <<vpb, locking>>

\* FatCommonClose.  A close that is not inside another one counts itself in
\* OpenFileCount meanwhile; if it was sent by the I/O manager and finds a volume out of
\* use with no open left, it lets go of the VCB, keeping its count, to take the global
\* resource first.
CommonClose(o) ==
    \E now \in SUBSET Along({o}) :
        LET V == CountOut(vcb, {o} \cup now)
            O == Closed({o}, now)
        IN  /\ object[o] \in {"closing", "taken"}
            /\ vpb' = Dereference(vpb, now)
            /\ \/ /\ ~ vcb.closeInProgress /\ object[o] = "closing"
                  /\ V.openFileCount = 0 /\ V.condition # "good"
                  /\ object' = [O EXCEPT ![o] = "recheck"]
                  /\ vcb' = [V EXCEPT !.openFileCount = 1, !.closeInProgress = TRUE]
               \/ /\ \/ vcb.closeInProgress \/ object[o] = "taken"
                     \/ V.openFileCount # 0 \/ V.condition = "good"
                  /\ object' = O
                  /\ vcb' = V
            /\ UNCHANGED locking

\* ... and checks the volume when it has both.
Recheck(o) ==
    /\ object[o] = "recheck"
    /\ CheckForDismount([vcb EXCEPT !.openFileCount = @ - 1, !.closeInProgress = FALSE],
                        [object EXCEPT ![o] = "none"])
    /\ UNCHANGED locking

-----------------------------------------------------------------------------
(* Lock, unlock, dismount *)

\* FatLockVolumeInternal: the deferred closes are done, and the VCB is released to
\* wait for the lazy writer, twice.
LockWaits(h) ==
    /\ object[h] = "open"
    /\ \/ locking[h] = "no" /\ HandleCountZero
       \/ locking[h] = "first"
    /\ \E now \in SUBSET Along(At("queued")) :
          /\ object' = Closed(At("queued"), now)
          /\ vcb' = CountOut(vcb, At("queued") \cup now)
          /\ vpb' = Dereference(vpb, now)
    /\ locking' = [locking EXCEPT ![h] = IF @ = "no" THEN "first" ELSE "second"]

\* The counts after the third round of closes.
OpensAtLock(now) == CountOut(vcb, At("queued") \cup now).openFileCount
ReferencesAtLock(now) == Dereference(vpb, now).referenceCount

LockIf(h, now, admitted) ==
    LET V == CountOut(vcb, At("queued") \cup now)
        P == Dereference(vpb, now)
    IN  /\ locking[h] = "second"
        /\ object' = Closed(At("queued"), now)
        /\ IF ~ P.locked /\ admitted
           THEN /\ vcb' = [V EXCEPT !.locked = TRUE, !.fileObjectWithVcbLocked = h]
                /\ vpb' = [P EXCEPT !.locked = TRUE]
           ELSE vcb' = V /\ vpb' = P
        /\ locking' = [locking EXCEPT ![h] = "no"]

\* Mutant: only the references to the VPB are looked at.
LockLooselyEnds(h) ==
    \E now \in SUBSET Along(At("queued")) : LockIf(h, now, ReferencesAtLock(now) <= 2 + 1)

\* The counts decide: other opens may have come in the meantime.
LockEnds(h) ==
    \E now \in SUBSET Along(At("queued")) :
        LockIf(h, now, ReferencesAtLock(now) <= 2 + 1 /\ OpensAtLock(now) = 1)

\* FatUnlockVolumeInternal.
Unlock(h) ==
    /\ object[h] = "open"
    /\ vpb.locked
    /\ vcb.fileObjectWithVcbLocked = h
    /\ vpb' = [vpb EXCEPT !.locked = FALSE]
    /\ vcb' = [vcb EXCEPT !.locked = FALSE, !.fileObjectWithVcbLocked = NoHandle]
    /\ UNCHANGED <<object, locking>>

\* FatDismountVolume.
Dismount(h) ==
    /\ object[h] = "open"
    /\ vcb.dismountedBy = NoHandle
    /\ vcb' = [vcb EXCEPT !.condition = "bad", !.dismountedBy = h]
    /\ UNCHANGED <<object, vpb, locking>>

\* The medium is taken out, and the volume found unfit when it is verified; or it is
\* found to be the same again.
MediumChanges ==
    /\ vcb.exists
    /\ vcb.condition # "bad"
    /\ \E c \in {"good", "notMounted"} \ {vcb.condition} : vcb' = [vcb EXCEPT !.condition = c]
    /\ UNCHANGED <<object, vpb, locking>>

-----------------------------------------------------------------------------
CloseGoesOn(o) ==
    DeferClose(o) \/ WorkerTakesClose(o) \/ CommonClose(o) \/ Recheck(o)

NextVolume ==
    \/ \E o \in Users : IssueCreate(o) \/ Recheck(o)
    \/ \E f \in Files : CreateFile(f) \/ CleanupFile(f)
    \/ \E h \in Handles : \/ CreateHandle(h) \/ CreateExclusive(h) \/ CleanupHandle(h)
                          \/ LockWaits(h) \/ LockEnds(h) \/ Unlock(h) \/ Dismount(h)
    \/ \E s \in Streams : OpenDirectoryFile(s) \/ Recheck(s)
    \/ \E o \in Users \cup Streams :
          SendClose(o) \/ DeferClose(o) \/ WorkerTakesClose(o) \/ CommonClose(o)
    \/ Scan
    \/ MediumChanges

SpecVolume == InitVolume /\ [][NextVolume]_volumeVars

\* A file object is in one place at a time: its create is answered, its close is sent,
\* deferred or done, and the worker runs.  Other volumes are mounted again and again.
ObjectGoesOn(o) ==
    \/ o \in Files /\ CreateFile(o)
    \/ o \in Handles /\ (CreateHandle(o) \/ CreateExclusive(o))
    \/ SendClose(o) \/ CloseGoesOn(o)

FairVolume ==
    /\ \A o \in Users \cup Streams : WF_volumeVars(ObjectGoesOn(o))
    /\ WF_volumeVars(Scan)

-----------------------------------------------------------------------------
(* Properties *)

Vcb == [exists : BOOLEAN, condition : {"good", "notMounted", "bad"},
        openFileCount : Nat, directAccessOpenCount : Nat, internalOpenCount : Nat,
        residualOpenCount : Nat, closeInProgress : BOOLEAN, locked : BOOLEAN,
        fileObjectWithVcbLocked : Handles \cup {NoHandle}, dismountedBy : Handles \cup {NoHandle}]

\* Every variable has its type; no count falls below 0.
TypeOKVolume ==
    /\ object \in [Users \cup Streams -> ObjectPlaces]
    /\ vcb \in Vcb
    /\ vpb \in [referenceCount : Nat, ofDevice : BOOLEAN, locked : BOOLEAN]
    /\ locking \in [Handles -> {"no", "first", "second"}]

\* Each count of the VCB and of the VPB is the number of the file objects that are
\* where it covers them, across deferred closes, failed creates and the window in
\* FatCommonClose; and every variable has its type.
CountsMeanOpens ==
    /\ TypeOKVolume
    /\ vcb.openFileCount = Cardinality({o \in Users : Counted(o)})
                               + Cardinality(At("recheck"))
    /\ vcb.directAccessOpenCount = Cardinality({h \in Handles : Counted(h)})
    /\ vcb.internalOpenCount = Cardinality({s \in Streams : Counted(s)})
    /\ vcb.residualOpenCount = Cardinality({s \in Residuals : Counted(s)})
    /\ vpb.referenceCount =
           Cardinality(At("creating") \cup At("open") \cup At("cleaned"))

\* The VCB is deleted only when nobody has it any more: no create on the way, no open,
\* no deferred close, no worker with a close in its hands, no close at its recheck.
DeletedUnused == ~ vcb.exists => \A o \in Users \cup Streams : object[o] = "none"

\* While the volume is locked, the file object that locked it is the only one on it,
\* although the lock was granted after the VCB had been released twice.
LockExcludes ==
    vcb.locked => \A o \in Users : Counted(o) => o = vcb.fileObjectWithVcbLocked

\* A volume that lost its VPB and its users is deleted in the end, however its last
\* closes were done.
VolumeGoes ==
    ~ vpb.ofDevice /\ (\A o \in Users : object[o] = "none") ~> ~ vcb.exists
=============================================================================
