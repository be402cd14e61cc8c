--------------------------- MODULE MCPagingAndDisk ---------------------------
(* Small instances for TLC of the two modules about fastfat that share nothing with  *)
(* those of MCFastFat, PagingFileIo and DiskSpace, checked in one run: "part" is     *)
(* chosen at the start and says which of them moves, and the other stays in its      *)
(* initial state, where none of its fair actions is enabled.                         *)
EXTENDS MCPagingFileIo, DiskSpace

VARIABLE part

pagingDiskVars == <<part, vars, diskVars>>

InitPagingDisk == part \in {"paging", "disk"} /\ Init /\ InitDisk

\* A step of the part that moves.
InPaging(A) == part = "paging" /\ A /\ UNCHANGED <<part, diskVars>>
InDisk(A) == part = "disk" /\ A /\ UNCHANGED <<part, vars>>

\* The next-state relation of each module, with its actions one by one so that TLC
\* reports how often each is taken.
NextInPaging ==
    \E r \in Requests :
        \/ \E shape \in Shapes : InPaging(Begin(r, shape))
        \/ InPaging(SendAssociated(r)) \/ InPaging(ReuseMaster(r))
        \/ InPaging(NeedReserve(r)) \/ InPaging(TakeReserve(r))
        \/ InPaging(SendMaster(r)) \/ InPaging(PieceReturns(r)) \/ InPaging(Finish(r))
        \/ \E k \in Runs(r) :
              \/ InPaging(AssociatedDone(r, k)) \/ InPaging(AssociatedFails(r, k))
              \/ InPaging(AssociatedReturns(r, k))
        \/ InPaging(MasterDone(r)) \/ InPaging(MasterFails(r))
        \/ InPaging(SingleReturns(r))

NextInDisk ==
    \E f \in Chained :
        \/ \E n \in 1 .. MaxSize : InDisk(AddFileAllocation(f, n)) \/ InDisk(Truncate(f, n))
        \/ InDisk(AllocateClusters(f)) \/ InDisk(AllocateRaises(f))
        \/ InDisk(AcquireExclusive(f)) \/ InDisk(ReserveInLoop(f))
        \/ InDisk(AllocateInLoop(f)) \/ InDisk(LoopRaises(f)) \/ InDisk(GiveBack(f))
        \/ InDisk(MergeAllocation(f)) \/ InDisk(MergeRaises(f))
        \/ InDisk(FreeClusters(f)) \/ InDisk(FreeRaises(f)) \/ InDisk(UnreserveClusters(f))
        \/ InDisk(SettleMcb(f)) \/ InDisk(TruncateToZero(f))
        \/ \E i \in 1 .. MaxSize, c \in Clusters : InDisk(Move(f, i, c))
        \/ InDisk(SecondSplice(f)) \/ InDisk(FirstSplice(f))
        \/ InDisk(FirstSpliceRaises(f)) \/ InDisk(MoveRaises(f))

PagingAndDisk ==
    /\ InitPagingDisk /\ [][NextInPaging \/ NextInDisk]_pagingDiskVars
    /\ \A r \in Requests : /\ WF_vars(Thread(r))
                           /\ SF_vars(TakeReserve(r))
                           /\ WF_vars(Disk(r))
=============================================================================
