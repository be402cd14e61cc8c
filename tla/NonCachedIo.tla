----------------------------- MODULE NonCachedIo -----------------------------
(***************************************************************************)
(* Non-cached reads and writes of fastfat (deviosup.c FatNonCachedIo): a   *)
(* request that is one run on the disk is passed on as it is, one of       *)
(* several runs is cut into associated IRPs that complete in any order,    *)
(* and the hook of MycelFT (FatMycelLowLevelReadWrite) stands in between   *)
(* for the files of users.  Positions in a file and addresses on the disk  *)
(* count in sectors; STATUS_VERIFY_REQUIRED is not modelled.               *)
(***************************************************************************)
EXTENDS Naturals, FiniteSets, Sequences

CONSTANTS
    Ios,            \* the IRPs
    UserFiles,      \* opened by users: UserFileOpen
    SystemFiles,    \* directories, and other streams of the file system's own
    Lbo,            \* file |-> sequence of the addresses of its sectors
    MayFail         \* the disk and the pool may fail

NonCachedFiles == UserFiles \cup SystemFiles
Addresses == UNION {{Lbo[f][p] : p \in DOMAIN Lbo[f]} : f \in NonCachedFiles}
Positions == UNION {DOMAIN Lbo[f] : f \in NonCachedFiles}
OwnerOf(a) == CHOOSE f \in NonCachedFiles : \E p \in DOMAIN Lbo[f] : Lbo[f][p] = a

\* No address belongs to two files, and a file has no two neighbours on the disk.
ASSUME LboAssumption ==
    /\ UserFiles \cap SystemFiles = {}
    /\ \A f \in NonCachedFiles : Lbo[f] \in Seq(Nat)
    /\ \A f, g \in NonCachedFiles : \A p \in DOMAIN Lbo[f], q \in DOMAIN Lbo[g] :
           /\ Lbo[f][p] = Lbo[g][q] => f = g /\ p = q
           /\ f = g => Lbo[f][q] # Lbo[f][p] + 1

VARIABLES
    io,             \* IRP |-> the request, its FAT_IO_CONTEXT and its IoStatus
    run,            \* IRP |-> position |-> where that sector's transfer is
    disk            \* address |-> the file whose sector was written there last

nonCachedVars == <<io, run, disk>>

\* Not issued; with the disk, as one IRP or several; at the hook of MycelFT; left by the
\* hook without the completion its caller waits for; completed.
IoPlaces == {"none", "single", "multiple", "hook", "left", "completed"}

\* failed: the runs whose own IoStatus is a failure; success: what the master's says.
NoIo == [at |-> "none", op |-> "read", wait |-> TRUE,
         file |-> CHOOSE f \in NonCachedFiles : TRUE,
         irpCount |-> 0, associated |-> 0, success |-> TRUE, failed |-> {},
         event |-> FALSE, resource |-> FALSE]

\* A position whose transfer has not begun or is not part of the request is "no".
Idle == [p \in Positions |-> "no"]

InitNonCached ==
    /\ io = [i \in Ios |-> NoIo]
    /\ run = [i \in Ios |-> Idle]
    /\ disk = [a \in Addresses |-> OwnerOf(a)]

Sectors(i, where) == {p \in Positions : run[i][p] = where}
WithDisk(span) == [p \in Positions |-> IF p \in span THEN "disk" ELSE "no"]

-----------------------------------------------------------------------------
(* Issuing a request *)

\* What FatCommonRead and FatCommonWrite pass down: users may not want to wait, and what
\* they have locked of the file is then released on completion.
Request(f, op, wait) ==
    [NoIo EXCEPT !.file = f, !.op = op, !.wait = wait, !.resource = ~ wait]

\* FatSingleAsync: one run.  The hook takes the IRP of a user's file, whose FCB is always
\* active; the others go to the disk.
IssueSingle(i, f, op, wait, p) ==
    /\ io[i].at = "none"
    /\ wait \/ f \in UserFiles
    /\ p \in DOMAIN Lbo[f]
    /\ io' = [io EXCEPT ![i] = [Request(f, op, wait) EXCEPT
           !.at = IF f \in UserFiles THEN "hook" ELSE "single", !.irpCount = 1]]
    /\ run' = [run EXCEPT ![i] = WithDisk({p})]
    /\ UNCHANGED disk

\* Mutant: the last associated IRP is not counted.
IssueMultipleLess(i, f, op, wait, first, last) ==
    /\ io[i].at = "none"
    /\ wait \/ f \in UserFiles
    /\ first < last /\ last \in DOMAIN Lbo[f]
    /\ io' = [io EXCEPT ![i] = [Request(f, op, wait) EXCEPT
           !.at = "multiple", !.irpCount = last - first, !.associated = last - first + 1]]
    /\ run' = [run EXCEPT ![i] = WithDisk(first..last)]
    /\ UNCHANGED disk

\* FatMultipleAsync: an associated IRP for each run.  They carry no file object, so the
\* hook passes them on, whosever file it is.
IssueMultiple(i, f, op, wait, first, last) ==
    /\ io[i].at = "none"
    /\ wait \/ f \in UserFiles
    /\ first < last /\ last \in DOMAIN Lbo[f]
    /\ io' = [io EXCEPT ![i] = [Request(f, op, wait) EXCEPT
           !.at = "multiple", !.irpCount = last - first + 1,
           !.associated = last - first + 1]]
    /\ run' = [run EXCEPT ![i] = WithDisk(first..last)]
    /\ UNCHANGED disk

\* FatMultipleAsync cannot allocate an IRP or an MDL: nothing has been sent, the exception
\* releases everything and fails the request.
IssueFails(i, f, op, wait) ==
    /\ MayFail
    /\ io[i].at = "none"
    /\ io' = [io EXCEPT ![i] = [Request(f, op, wait) EXCEPT
           !.at = "completed", !.success = FALSE, !.resource = FALSE]]
    /\ run' = [run EXCEPT ![i] = Idle]
    /\ UNCHANGED disk

-----------------------------------------------------------------------------
(* Completion *)

Written(i, address) ==
    disk' = IF io[i].op = "write" THEN [disk EXCEPT ![address] = io[i].file] ELSE disk

\* Mutant: the status of every associated IRP goes into the master, a success too.
DiskRunLast(i, p) ==
    /\ io[i].at \in {"single", "multiple"}
    /\ run[i][p] = "disk"
    /\ run' = [run EXCEPT ![i][p] = "status"]
    /\ \/ Written(i, Lbo[io[i].file][p]) /\ io' = [io EXCEPT ![i].success = TRUE]
       \/ /\ MayFail
          /\ io' = [io EXCEPT ![i].success = FALSE, ![i].failed = @ \cup {p}]
          /\ UNCHANGED disk

\* The disk transfers a run or fails, and the completion routine begins: a failure goes
\* into the master's IoStatus.
DiskRun(i, p) ==
    /\ io[i].at \in {"single", "multiple"}
    /\ run[i][p] = "disk"
    /\ run' = [run EXCEPT ![i][p] = "status"]
    /\ \/ Written(i, Lbo[io[i].file][p]) /\ UNCHANGED io
       \/ /\ MayFail
          /\ io' = [io EXCEPT ![i].success = FALSE, ![i].failed = @ \cup {p}]
          /\ UNCHANGED disk

\* Mutant: the routine looks for zero in the count that it found.
CompletionRoutineStale(i, p) ==
    /\ run[i][p] = "status"
    /\ run' = [run EXCEPT ![i][p] = "counted"]
    /\ io' = [io EXCEPT ![i].irpCount = @ - 1,
                        ![i].event = @ \/ (io[i].irpCount = 0 /\ io[i].wait),
                        ![i].resource = @ /\ io[i].irpCount # 0]
    /\ UNCHANGED disk

\* The rest of FatMultiSyncCompletionRoutine, FatMultiAsyncCompletionRoutine and their
\* FatSingle... counterparts: the last one wakes the waiter, or releases the resources.
CompletionRoutine(i, p) ==
    /\ run[i][p] = "status"
    /\ run' = [run EXCEPT ![i][p] = "counted"]
    /\ io' = [io EXCEPT ![i].irpCount = @ - 1,
                        ![i].event = @ \/ (io[i].irpCount = 1 /\ io[i].wait),
                        ![i].resource = @ /\ io[i].irpCount # 1]
    /\ UNCHANGED disk

\* FatWaitSync, and FatCommonRead or FatCommonWrite complete the request.
WaitSync(i) ==
    /\ io[i].at \in {"single", "multiple"}
    /\ io[i].event
    /\ io' = [io EXCEPT ![i].at = "completed"]
    /\ UNCHANGED <<run, disk>>

\* The I/O manager goes on with an asynchronous IRP whose completion routine returned;
\* with the last associated one it completes the master.
IoManager(i, p) ==
    /\ io[i].at = "multiple"
    /\ ~ io[i].wait
    /\ run[i][p] = "counted"
    /\ run' = [run EXCEPT ![i][p] = "freed"]
    /\ io' = [io EXCEPT ![i].associated = @ - 1,
                        ![i].at = IF io[i].associated = 1 THEN "completed" ELSE @]
    /\ UNCHANGED disk

-----------------------------------------------------------------------------
(* FatMycelLowLevelReadWrite *)

\* The next stack location becomes a copy of the current one: the disk gets the offset in
\* the file in place of the LBO, and FatHijackCompletionRoutine in place of the caller's
\* routine.  The hook waits and completes the IRP itself.
HookTransfers(i, p) ==
    /\ io[i].at = "hook"
    /\ run[i][p] = "disk"
    /\ io' = [io EXCEPT ![i].at = "left"]
    /\ run' = [run EXCEPT ![i][p] = "freed"]
    /\ \/ Written(i, p)
       \/ MayFail /\ UNCHANGED disk

\* The pool has no buffer or MDL: the hook returns a status that its caller drops.
HookReturns(i) ==
    /\ MayFail
    /\ io[i].at = "hook"
    /\ io[i].op = "write"
    /\ io' = [io EXCEPT ![i].at = "left"]
    /\ UNCHANGED <<run, disk>>

\* FatNonCachedIo has returned, and the IRP comes with another request.
NextRequest(i) ==
    /\ io[i].at = "completed"
    /\ io' = [io EXCEPT ![i] = NoIo]
    /\ run' = [run EXCEPT ![i] = Idle]
    /\ UNCHANGED disk

RunStep(i, p) ==
    DiskRun(i, p) \/ CompletionRoutine(i, p) \/ IoManager(i, p) \/ HookTransfers(i, p)

NextNonCached ==
    \E i \in Ios :
        \/ \E f \in NonCachedFiles, op \in {"read", "write"}, wait \in BOOLEAN :
              \/ \E p \in Positions : IssueSingle(i, f, op, wait, p)
              \/ \E p, q \in Positions : IssueMultiple(i, f, op, wait, p, q)
              \/ IssueFails(i, f, op, wait)
        \/ \E p \in Positions : RunStep(i, p)
        \/ WaitSync(i) \/ HookReturns(i) \/ NextRequest(i)

SpecNonCached == InitNonCached /\ [][NextNonCached]_nonCachedVars

\* The disk answers every request, and its interrupts and the woken threads run.
FairNonCached ==
    \A i \in Ios : /\ WF_nonCachedVars(\E p \in Positions : RunStep(i, p))
                   /\ WF_nonCachedVars(WaitSync(i))

-----------------------------------------------------------------------------
\* A request that has completed is over: none of its runs is with the disk or in a
\* completion routine that still reads its context, and nothing that the request had
\* locked is left locked (FatMultipleAsync counts, the completion routines and the I/O
\* manager count down concurrently).
CompletedIsSettled ==
    \A i \in Ios : io[i].at = "completed" =>
        /\ Sectors(i, "disk") \cup Sectors(i, "status") = {}
        /\ ~ io[i].resource

\* A request reports success only when the disk has transferred each of its runs: the
\* status of the last run to complete may not hide the failure of another.
SuccessMeansAllRuns ==
    \A i \in Ios : io[i].at = "completed" /\ io[i].success => io[i].failed = {}

\* Every request that the hook passes on completes, in whatever order its runs do.
TransferEnds ==
    \A i \in Ios : io[i].at \in {"single", "multiple"} ~> io[i].at = "completed"

\* A write changes sectors of its own file only: FatSingleAsync describes its argument
\* Lbo as the offset on the device that the transfer begins at.
EveryWriteInsideFile == \A a \in Addresses : disk[a] = OwnerOf(a)
=============================================================================
