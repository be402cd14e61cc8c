---------------------------- MODULE PagingFileIo ----------------------------
(***************************************************************************)
(* FatPagingFileIo (fastfat/deviosup.c): the reads and writes of a paging  *)
(* file.  A request that lies in one run of the file is passed to the disk *)
(* as it is.  Otherwise each run gets an associated IRP of its own, and    *)
(* the last of them to come back completes the request (the master IRP).   *)
(* Where memory is short the master itself is sent for a piece of the run  *)
(* and waited for, with the one reserve MDL of the driver if need be; the  *)
(* request is then completed by hand.  Requests of several threads run at  *)
(* the same time and share the reserve MDL and the disk.                   *)
(***************************************************************************)
EXTENDS Integers, Sequences, FiniteSets

CONSTANTS
    Requests,      \* requests that the memory manager may have open
    Shapes,        \* the pages that a request has in each run of the file
    ReserveSize    \* pages that the reserve MDL describes

ASSUME ShapeAssumption == Shapes \subseteq Seq(Nat \ {0}) \ {<<>>}
ASSUME ReserveAssumption == ReserveSize \in Nat \ {0}

VARIABLES
    io,        \* request |-> the locals of the FatPagingFileIo it is in
    irp,       \* request |-> the master IRP
    assoc,     \* request |-> run |-> where its associated IRP is
    master,    \* request |-> where the master is while a piece uses it
    moved,     \* request |-> run |-> pages that the disk has transferred
    reserve    \* FatReserveEvent: the reserve MDL is free

vars == <<io, irp, assoc, master, moved, reserve>>

\* The program counter: not begun; at the head of the loop; waiting for
\* FatReserveEvent; waiting until no associated IRP is out; waiting for the
\* piece that the master was sent for; behind the loop; returned.
Places == {"idle", "loop", "reserve", "drain", "piece", "end", "return"}
\* Where an IRP is: not sent, at the disk, in IoCompleteRequest.
IrpPlaces == {"none", "disk", "back"}

NoIo == [pc |-> "idle", shape |-> <<>>, run |-> 1, left |-> 0, next |-> 0,
         irpCount |-> 0, mdlIsReserve |-> FALSE]
NoIrp == [irpCount |-> 0, status |-> "ok", information |-> 0, completed |-> 0]

Runs(r) == DOMAIN io[r].shape
LastRun(r) == Len(io[r].shape)
InFlight(r) == {k \in Runs(r) : assoc[r][k] # "none"}
Pages(shape) ==
    LET sum[k \in 0..Len(shape)] == IF k = 0 THEN 0 ELSE sum[k - 1] + shape[k]
    IN  sum[Len(shape)]

Init ==
    /\ io = [r \in Requests |-> NoIo]
    /\ irp = [r \in Requests |-> NoIrp]
    /\ assoc = [r \in Requests |-> <<>>]
    /\ master = [r \in Requests |-> "none"]
    /\ moved = [r \in Requests |-> <<>>]
    /\ reserve = TRUE

-----------------------------------------------------------------------------
(* FatPagingFileIo *)

\* The memory manager issues a request; the one before it is completed and
\* FatPagingFileIo has returned.
Begin(r, shape) ==
    /\ io[r].pc \in {"idle", "return"}
    /\ io[r].pc = "return" => irp[r].completed > 0
    /\ LET single == Len(shape) = 1
           count == IF single THEN 0 ELSE Len(shape)
       IN  /\ io' = [io EXCEPT ![r] =
                  [NoIo EXCEPT !.pc = IF single THEN "return" ELSE "loop",
                      !.shape = shape, !.left = shape[1], !.irpCount = count]]
           /\ irp' = [irp EXCEPT ![r] =
                  [NoIrp EXCEPT !.irpCount = count, !.information = Pages(shape)]]
           /\ master' = [master EXCEPT ![r] = IF single THEN "disk" ELSE "none"]
    /\ assoc' = [assoc EXCEPT ![r] = [k \in DOMAIN shape |-> "none"]]
    /\ moved' = [moved EXCEPT ![r] = [k \in DOMAIN shape |-> 0]]
    /\ UNCHANGED reserve

\* The end of the loop body: the rest of the run, or the next run.
Advance(o) ==
    LET dropped == [o EXCEPT !.next = 0, !.mdlIsReserve = FALSE]
    IN  IF o.left > o.next
        THEN [dropped EXCEPT !.pc = "loop", !.left = o.left - o.next]
        ELSE IF o.run < Len(o.shape)
        THEN [dropped EXCEPT !.pc = "loop", !.run = o.run + 1,
                             !.left = o.shape[o.run + 1]]
        ELSE [dropped EXCEPT !.pc = "end"]

\* Mutant: an associated IRP is sent without being counted.
SendAssociatedUncounted(r) ==
    /\ io[r].pc = "loop"
    /\ assoc' = [assoc EXCEPT ![r][io[r].run] = "disk"]
    /\ io' = [io EXCEPT ![r] = Advance([io[r] EXCEPT !.next = io[r].left])]
    /\ UNCHANGED <<irp, master, moved, reserve>>

\* IoAllocateMdl and IoMakeAssociatedIrp have memory: the associated IRP takes
\* the rest of the run.  Unless it is the last, it must not be the one that
\* completes the master.
SendAssociated(r) ==
    /\ io[r].pc = "loop"
    /\ io[r].irpCount # 1 \/ io[r].run = LastRun(r)
    /\ assoc' = [assoc EXCEPT ![r][io[r].run] = "disk"]
    /\ io' = [io EXCEPT ![r] = Advance(
                 [io[r] EXCEPT !.next = io[r].left, !.irpCount = @ - 1])]
    /\ UNCHANGED <<irp, master, moved, reserve>>

\* IoMakeAssociatedIrp has no memory, or may not be called: the master is used.
ReuseMaster(r) ==
    /\ io[r].pc = "loop"
    /\ io' = [io EXCEPT ![r].pc = "drain", ![r].next = io[r].left]
    /\ UNCHANGED <<irp, assoc, master, moved, reserve>>

\* IoAllocateMdl has no memory ...
NeedReserve(r) ==
    /\ io[r].pc = "loop"
    /\ io' = [io EXCEPT ![r].pc = "reserve"]
    /\ UNCHANGED <<irp, assoc, master, moved, reserve>>

\* Mutant: the event is not waited for.
TakeReserveAtOnce(r) ==
    /\ io[r].pc = "reserve"
    /\ reserve' = FALSE
    /\ io' = [io EXCEPT ![r].pc = "drain", ![r].mdlIsReserve = TRUE,
                 ![r].next = IF io[r].left > ReserveSize THEN ReserveSize
                                                         ELSE io[r].left]
    /\ UNCHANGED <<irp, assoc, master, moved>>

\* ... and the reserve MDL takes what fits of the run.  The master is used.
TakeReserve(r) ==
    /\ io[r].pc = "reserve"
    /\ reserve
    /\ reserve' = FALSE
    /\ io' = [io EXCEPT ![r].pc = "drain", ![r].mdlIsReserve = TRUE,
                 ![r].next = IF io[r].left > ReserveSize THEN ReserveSize
                                                         ELSE io[r].left]
    /\ UNCHANGED <<irp, assoc, master, moved>>

\* No associated IRP is out any more: either one of them failed, and the loop
\* is left with all that it holds, or the master is sent for the piece.
SendMaster(r) ==
    /\ io[r].pc = "drain"
    /\ irp[r].irpCount = io[r].irpCount
    /\ IF irp[r].status = "error"
       THEN /\ io' = [io EXCEPT ![r].pc = "end"]
            /\ UNCHANGED master
       ELSE /\ io' = [io EXCEPT ![r].pc = "piece"]
            /\ master' = [master EXCEPT ![r] = "disk"]
    /\ UNCHANGED <<irp, assoc, moved, reserve>>

\* Context.Event is set: the master is the thread's again.
PieceReturns(r) ==
    /\ io[r].pc = "piece"
    /\ master[r] = "back"
    /\ io' = [io EXCEPT ![r] =
                 IF irp[r].status = "error"
                 THEN [io[r] EXCEPT !.pc = "end", !.mdlIsReserve = FALSE]
                 ELSE Advance(io[r])]
    /\ master' = [master EXCEPT ![r] = "none"]
    /\ UNCHANGED <<irp, assoc, moved, reserve>>

\* Mutant: the request is completed without waiting for its associated IRPs.
FinishUndrained(r) ==
    /\ io[r].pc = "end"
    /\ irp' = [irp EXCEPT ![r].completed = IF io[r].irpCount = 0 THEN @ ELSE @ + 1]
    /\ io' = [io EXCEPT ![r].pc = "return"]
    /\ UNCHANGED <<assoc, master, moved, reserve>>

\* Mutant: completion is always left to the associated IRPs.
FinishByAssociated(r) ==
    /\ io[r].pc = "end"
    /\ io' = [io EXCEPT ![r].pc = "return"]
    /\ UNCHANGED <<irp, assoc, master, moved, reserve>>

\* Behind the loop: with every run sent in an associated IRP the last of them
\* completes the master; otherwise it is completed here when all are back.
Finish(r) ==
    /\ io[r].pc = "end"
    /\ \/ io[r].irpCount = 0 /\ UNCHANGED irp
       \/ /\ io[r].irpCount # 0
          /\ irp[r].irpCount = io[r].irpCount
          /\ irp' = [irp EXCEPT ![r].completed = @ + 1]
    /\ io' = [io EXCEPT ![r].pc = "return"]
    /\ UNCHANGED <<assoc, master, moved, reserve>>

-----------------------------------------------------------------------------
(* The disk and the completion routines *)

\* The disk has transferred the rest of run k.
AssociatedDone(r, k) ==
    /\ assoc[r][k] = "disk"
    /\ assoc' = [assoc EXCEPT ![r][k] = "back"]
    /\ moved' = [moved EXCEPT ![r][k] = io[r].shape[k]]
    /\ UNCHANGED <<io, irp, master, reserve>>

\* Mutant: the completion routine keeps the error to itself.
AssociatedFailsSilently(r, k) ==
    /\ assoc[r][k] = "disk"
    /\ assoc' = [assoc EXCEPT ![r][k] = "back"]
    /\ UNCHANGED <<io, irp, master, moved, reserve>>

\* FatPagingFileCompletionRoutine copies the status into the master.
AssociatedFails(r, k) ==
    /\ assoc[r][k] = "disk"
    /\ assoc' = [assoc EXCEPT ![r][k] = "back"]
    /\ irp' = [irp EXCEPT ![r].status = "error", ![r].information = 0]
    /\ UNCHANGED <<io, master, moved, reserve>>

\* IoCompleteRequest of an associated IRP, after an error at once or from the
\* work item that marks the volume dirty: the last one completes the master.
AssociatedReturns(r, k) ==
    /\ assoc[r][k] = "back"
    /\ assoc' = [assoc EXCEPT ![r][k] = "none"]
    /\ irp' = [irp EXCEPT ![r].irpCount = @ - 1,
                          ![r].completed = IF irp[r].irpCount = 1 THEN @ + 1 ELSE @]
    /\ UNCHANGED <<io, master, moved, reserve>>

\* The piece that the master was sent for, or all of a request in one run, with
\* FatPagingFileCompletionRoutineCatch, which gives the reserve MDL back.
Caught(r) == reserve' = (reserve \/ io[r].mdlIsReserve)

MasterDone(r) ==
    /\ master[r] = "disk"
    /\ LET o == io[r]
           pages == IF o.pc = "piece" THEN o.next ELSE o.left
       IN  /\ moved' = [moved EXCEPT ![r][o.run] = @ + pages]
           /\ irp' = [irp EXCEPT ![r].status = "ok", ![r].information = pages]
    /\ master' = [master EXCEPT ![r] = "back"]
    /\ Caught(r)
    /\ UNCHANGED <<io, assoc>>

MasterFails(r) ==
    /\ master[r] = "disk"
    /\ irp' = [irp EXCEPT ![r].status = "error", ![r].information = 0]
    /\ master' = [master EXCEPT ![r] = "back"]
    /\ Caught(r)
    /\ UNCHANGED <<io, assoc, moved>>

\* A request in one run is completed like any IRP.
SingleReturns(r) ==
    /\ io[r].pc = "return"
    /\ master[r] = "back"
    /\ master' = [master EXCEPT ![r] = "none"]
    /\ irp' = [irp EXCEPT ![r].completed = @ + 1]
    /\ UNCHANGED <<io, assoc, moved, reserve>>

-----------------------------------------------------------------------------
Thread(r) ==
    \/ SendAssociated(r) \/ ReuseMaster(r) \/ NeedReserve(r) \/ TakeReserve(r)
    \/ SendMaster(r) \/ PieceReturns(r) \/ Finish(r)

Disk(r) ==
    \/ \E k \in Runs(r) :
          AssociatedDone(r, k) \/ AssociatedFails(r, k) \/ AssociatedReturns(r, k)
    \/ MasterDone(r) \/ MasterFails(r) \/ SingleReturns(r)

Next ==
    \E r \in Requests :
        \/ \E shape \in Shapes : Begin(r, shape)
        \/ Thread(r)
        \/ Disk(r)

Spec == Init /\ [][Next]_vars

\* Threads run, the disk and the worker threads answer; a thread that waits for
\* FatReserveEvent gets it if the event is set again and again, because an
\* event serves its waiters in turn.
FairSpec ==
    /\ Spec
    /\ \A r \in Requests : /\ WF_vars(Thread(r))
                           /\ SF_vars(TakeReserve(r))
                           /\ WF_vars(Disk(r))

-----------------------------------------------------------------------------
(* Properties *)

Locals ==
    [pc : Places, shape : Shapes \cup {<<>>}, run : Nat \ {0}, left : Nat,
     next : Nat, irpCount : Nat, mdlIsReserve : BOOLEAN]

MasterIrps ==
    [irpCount : Nat, status : {"ok", "error"}, completed : {0, 1},
     information : Nat \cup {Pages(shape) : shape \in Shapes}]

\* Every variable has its type; no request is completed twice.
TypeOK ==
    /\ io \in [Requests -> Locals]
    /\ irp \in [Requests -> MasterIrps]
    /\ DOMAIN assoc = Requests /\ DOMAIN moved = Requests
    /\ \A r \in Requests : /\ assoc[r] \in [Runs(r) -> IrpPlaces]
                           /\ moved[r] \in [Runs(r) -> Nat]
    /\ master \in [Requests -> IrpPlaces]
    /\ reserve \in BOOLEAN

\* The memory manager has its IRP back once, and only when no piece of the
\* request is at the disk or in a completion routine and FatPagingFileIo will
\* not look at the IRP again.
CompletedIsOver ==
    \A r \in Requests :
        irp[r].completed > 0 =>
            /\ irp[r].completed = 1
            /\ InFlight(r) = {}
            /\ master[r] = "none"
            /\ \/ io[r].pc = "return"
               \/ io[r].pc = "end" /\ io[r].irpCount = 0

\* The count in the master is the IRPs that are out and those still to be sent,
\* whoever decrements it first: it reaches 0 with the last piece only.
CountIsPieces ==
    \A r \in Requests :
        io[r].pc # "idle" =>
            irp[r].irpCount = io[r].irpCount + Cardinality(InFlight(r))

\* The master of r carries the reserve MDL, or is about to.
HoldsReserve(r) ==
    io[r].mdlIsReserve /\ io[r].pc \in {"drain", "piece"} /\ master[r] # "back"

\* The reserve MDL describes the pages of one request at a time, and of none
\* while FatReserveEvent is set.
OneReserve ==
    /\ \A r, s \in Requests : HoldsReserve(r) /\ HoldsReserve(s) => r = s
    /\ reserve => \A r \in Requests : ~ HoldsReserve(r)

\* "a reserve MDL to guarantee paging file operations can always go forward"
\* (create.c): FatPagingFileIo never waits for ever.
AlwaysGoesForward ==
    \A r \in Requests :
        io[r].pc \notin {"idle", "return"} ~> io[r].pc = "return"

\* The event is not set, and no request will set it.
ReserveLost == ~ reserve /\ \A r \in Requests : ~ HoldsReserve(r)

\* As long as the reserve MDL is not lost, every request is completed: short
\* memory and failing disks alone stop nobody.
EachCompletes ==
    \A r \in Requests :
        io[r].pc # "idle" /\ irp[r].completed = 0 ~>
            irp[r].completed > 0 \/ ReserveLost

-----------------------------------------------------------------------------
(* Why CompletedIsOver, OneReserve and Promise hold: the inductive invariant *)

Looping == {"loop", "reserve", "drain", "piece"}

\* While there are runs to be sent the count cannot reach 0.
CountKeepsMaster(r) ==
    io[r].pc \in Looping =>
        /\ io[r].run <= LastRun(r)
        /\ io[r].irpCount > LastRun(r) - io[r].run
        /\ \A k \in Runs(r) : k >= io[r].run => assoc[r][k] = "none"

\* The master is out alone.
MasterAlone(r) ==
    /\ io[r].pc = "piece" => master[r] # "none"
    /\ master[r] # "none" =>
          /\ \/ io[r].pc = "piece"
             \/ io[r].pc = "return" /\ LastRun(r) = 1 /\ io[r].run = 1
          /\ irp[r].completed = 0
          /\ InFlight(r) = {}
    /\ master[r] = "disk" => irp[r].status = "ok"

IdleIsNew(r) ==
    /\ io[r].pc = "idle" <=> io[r].shape = <<>>
    /\ io[r].pc = "idle" => irp[r].completed = 0

\* FatReserveEvent is set only by the request that holds the reserve MDL.
ReserveMarked(r) ==
    io[r].mdlIsReserve =>
        /\ io[r].pc \notin {"loop", "reserve"}
        /\ master[r] # "none" => io[r].pc = "piece"

\* The run at hand is transferred but for what is left of it, those that follow
\* are untouched.
RunAtHand(r) ==
    /\ io[r].pc \in Looping =>
          /\ io[r].next <= io[r].left
          /\ moved[r][io[r].run] + io[r].left =
                 IF master[r] = "back" /\ irp[r].status = "ok"
                 THEN io[r].shape[io[r].run] + io[r].next
                 ELSE io[r].shape[io[r].run]
          /\ \A k \in Runs(r) : k > io[r].run => moved[r][k] = 0
    /\ io[r].pc = "return" /\ master[r] = "disk" =>
          moved[r][io[r].run] + io[r].left = io[r].shape[io[r].run]

\* As long as nothing failed, the runs before it are transferred or at the disk.
RunsBehind(r) ==
    /\ \A k \in Runs(r) : moved[r][k] <= io[r].shape[k]
    /\ irp[r].status = "ok" /\ ~ (io[r].pc = "return" /\ master[r] = "disk") =>
          \A k \in Runs(r) :
              k < io[r].run \/ io[r].pc \in {"end", "return"} =>
                  assoc[r][k] = "disk" \/ moved[r][k] = io[r].shape[k]

RequestInv(r) ==
    /\ CountKeepsMaster(r)
    /\ MasterAlone(r)
    /\ IdleIsNew(r)
    /\ ReserveMarked(r)
    /\ RunAtHand(r)
    /\ RunsBehind(r)

IInv ==
    /\ TypeOK
    /\ CompletedIsOver
    /\ CountIsPieces
    /\ OneReserve
    /\ \A r \in Requests : RequestInv(r)

-----------------------------------------------------------------------------
\* What the memory manager sees of a request.
Phase(r) ==
    IF io[r].pc = "idle" THEN "free"
    ELSE IF irp[r].completed = 0 THEN "busy"
    ELSE IF irp[r].completed = 1 THEN irp[r].status
    ELSE "completed twice"

Transfer == INSTANCE PagedTransfer WITH
    state <- [r \in Requests |-> Phase(r)],
    need <- [r \in Requests |-> io[r].shape]

\* FatPagingFileIo keeps its promise: completed once, success only with every
\* page transferred, no page touched after completion.
Promise == Transfer!Spec
=============================================================================
