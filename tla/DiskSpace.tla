------------------------------ MODULE DiskSpace ------------------------------
(***************************************************************************)
(* The clusters of a FAT16 volume (allocsup.c, and FatMoveFile of          *)
(* fsctrl.c): the FAT, the bitmap of the clusters that are taken,          *)
(* NumberOfFreeClusters, from which a request is promised its clusters     *)
(* before it looks for them, and the MCB of each file.  Files are          *)
(* extended, truncated and moved at the same time, and what touches the    *)
(* FAT may raise; what is done under FreeClusterBitMapMutex is one action, *)
(* and so is each change of the FAT.  Sizes count in clusters; the volume  *)
(* has one window of the bitmap (NumberOfWindows = 1).                     *)
(***************************************************************************)
EXTENDS Naturals, Sequences, FiniteSets, SequencesExt

CONSTANTS
    Chained,           \* files and directories; an operation has the FCB to itself
    NumberOfClusters,
    MaxSize,           \* bound: the largest file
    MaxRaises          \* bound: how often an access to the FAT fails

ASSUME ChainedAssumption == IsFiniteSet(Chained)
ASSUME NumberOfClustersAssumption == NumberOfClusters \in Nat \ {0}
ASSUME MaxSizeAssumption == MaxSize \in Nat

VARIABLES
    fat,               \* cluster |-> its entry
    bitmap,            \* the set bits of FreeClusterBitMap
    freeClusters,      \* NumberOfFreeClusters
    fcb,               \* file |-> its Mcb, AllocationSize and FirstClusterOfFile; entry,
                       \* what its directory entry names; torn (history), is it the entry
                       \* or the chain that a move which failed has left leading to a
                       \* cluster that it gave back
    op,                \* file |-> the operation on it
    raises

diskVars == <<fat, bitmap, freeClusters, fcb, op, raises>>

Clusters == 2 .. NumberOfClusters + 1
Available == 0                          \* FAT_CLUSTER_AVAILABLE
EndOfChain == NumberOfClusters + 2      \* FAT_CLUSTER_LAST

\* got: the MCB that is built or is to be deallocated; run: the clusters reserved last;
\* promised: how many freeClusters was lowered by; at: what the operation is about, the
\* former size of a file that is truncated or the place of the cluster that is moved.
NoOp == [pc |-> "idle", kind |-> "none", promised |-> 0, got |-> <<>>, run |-> <<>>,
         at |-> 0]

InitDisk ==
    /\ fat = [c \in Clusters |-> Available]
    /\ bitmap = {}
    /\ freeClusters = NumberOfClusters
    /\ fcb = [f \in Chained |-> [mcb |-> <<>>, size |-> 0, first |-> 0, entry |-> 0,
                                 torn |-> "no"]]
    /\ op = [f \in Chained |-> NoOp]
    /\ raises = 0

\* ChangeBitMapResource may be had shared, or exclusively, by f.
Exclusive(f) == op[f].pc \in {"looping", "found"}
Shared(f) == op[f].pc \in {"reserved", "freed"}
MayShare(f) == \A g \in Chained \ {f} : ~ Exclusive(g)
MayExclude(f) == \A g \in Chained \ {f} : ~ Exclusive(g) /\ ~ Shared(g)

\* What is done with a torn chain is left out: its lookup raises STATUS_FILE_CORRUPT_ERROR,
\* or finds the clusters of another file.
MayBegin(f) == op[f].pc = "idle" /\ fcb[f].torn # "chain"

Raised == raises < MaxRaises /\ raises' = raises + 1
Step(f, o) == op' = [op EXCEPT ![f] = o]

Run(c, n) == [i \in 1 .. n |-> c + i - 1]
IsFree(r) == Range(r) \subseteq Clusters \ bitmap
FreeRuns(n) == {r \in {Run(c, n) : c \in Clusters} : IsFree(r)}

\* FatAllocateClusters chains a run together, FatFreeClusters frees it.
Allocated(table, r) ==
    [c \in Clusters |-> IF c \notin Range(r) THEN table[c]
                        ELSE IF c = Last(r) THEN EndOfChain ELSE c + 1]
Freed(S) == [c \in Clusters |-> IF c \in S THEN Available ELSE fat[c]]
\* The last cluster of mcb linked to c.
Linked(mcb, c) == IF mcb = <<>> THEN fat ELSE [fat EXCEPT ![Last(mcb)] = c]

-----------------------------------------------------------------------------
(* FatAllocateDiskSpace, called by FatAddFileAllocation *)

\* Where the search begins: behind the last cluster of the file, if there is a cluster;
\* otherwise at ClusterHint, which may be anywhere.
Hints(f) ==
    LET next == IF fcb[f].mcb = <<>> THEN 0 ELSE Last(fcb[f].mcb) + 1
    IN  IF next \in Clusters THEN {next} ELSE Clusters

\* A run at once: any for a file without clusters, only the one behind its last otherwise.
RunsAtOnce(f, n) == {r \in FreeRuns(n) : r[1] \in Hints(f)}

\* The count is lowered first, "so that nobody else takes them from us".
AddFileAllocation(f, n) ==
    /\ MayBegin(f)
    /\ fcb[f].size + n <= MaxSize
    /\ MayShare(f)
    /\ n <= freeClusters                        \* else STATUS_DISK_FULL
    /\ freeClusters' = freeClusters - n
    /\ LET grow == [NoOp EXCEPT !.kind = "grow", !.promised = n]
       IN  \/ \E r \in RunsAtOnce(f, n) :
                /\ bitmap' = bitmap \cup Range(r)
                /\ Step(f, [grow EXCEPT !.pc = "reserved", !.run = r])
           \/ /\ RunsAtOnce(f, n) = {}
              /\ bitmap' = bitmap
              /\ Step(f, [grow EXCEPT !.pc = "exclusive"])
    /\ UNCHANGED <<fat, fcb, raises>>

\* The run that was found at once is written to the FAT.
AllocateClusters(f) ==
    /\ op[f].pc = "reserved"
    /\ fat' = Allocated(fat, op[f].run)
    /\ Step(f, [op[f] EXCEPT !.pc = "got", !.got = op[f].run, !.run = <<>>])
    /\ UNCHANGED <<bitmap, freeClusters, fcb, raises>>

\* Or it cannot: bits and count are given back.  A move then throws the MCB away, which
\* is built again from the FAT.
AllocateRaises(f) ==
    /\ op[f].pc = "reserved"
    /\ Raised
    /\ bitmap' = bitmap \ Range(op[f].run)
    /\ freeClusters' = freeClusters + op[f].promised
    /\ Step(f, NoOp)
    /\ UNCHANGED <<fat, fcb>>

AcquireExclusive(f) ==
    /\ op[f].pc = "exclusive"
    /\ MayExclude(f)
    /\ Step(f, [op[f] EXCEPT !.pc = "looping"])
    /\ UNCHANGED <<fat, bitmap, freeClusters, fcb, raises>>

\* First what is free from the hint to the end of the volume, then a run that is large
\* enough, then one of the largest.
RunsInLoop(f) ==
    LET rest == op[f].promised - Len(op[f].got)
        tail(h) == Run(h, IF h + rest \in Clusters THEN rest ELSE NumberOfClusters + 2 - h)
        longest == {r \in UNION {FreeRuns(n) : n \in 1 .. rest} :
                       \A n \in Len(r) + 1 .. rest : FreeRuns(n) = {}}
    IN  IF op[f].got # <<>> THEN longest
        ELSE UNION {IF IsFree(tail(h)) THEN {tail(h)} ELSE longest : h \in Hints(f)}

\* Without a free cluster FatBugCheck( 0, 5, 0 ).
ReserveInLoop(f) ==
    /\ op[f].pc = "looping"
    /\ \/ \E r \in RunsInLoop(f) :
            /\ bitmap' = bitmap \cup Range(r)
            /\ Step(f, [op[f] EXCEPT !.pc = "found", !.run = r])
       \/ /\ RunsInLoop(f) = {}
          /\ Step(f, [op[f] EXCEPT !.pc = "bugcheck"])
          /\ UNCHANGED bitmap
    /\ UNCHANGED <<fat, freeClusters, fcb, raises>>

\* The run is linked to the one before it and written to the FAT.
AllocateInLoop(f) ==
    /\ op[f].pc = "found"
    /\ LET all == op[f].got \o op[f].run
       IN  /\ fat' = Allocated(Linked(op[f].got, op[f].run[1]), op[f].run)
           /\ Step(f, [op[f] EXCEPT !.pc = IF Len(all) = op[f].promised THEN "got"
                                           ELSE "looping",
                                    !.got = all, !.run = <<>>])
    /\ UNCHANGED <<bitmap, freeClusters, fcb, raises>>

\* Either fails; the resource is released before anything is undone.
LoopRaises(f) ==
    /\ op[f].pc = "found"
    /\ Raised
    /\ fat' \in {fat, Linked(op[f].got, op[f].run[1])}
    /\ Step(f, [op[f] EXCEPT !.pc = "unwinding"])
    /\ UNCHANGED <<bitmap, freeClusters, fcb>>

\* Mutant: everything that was promised is given back.
GiveBackTwice(f) ==
    /\ op[f].pc = "unwinding"
    /\ bitmap' = bitmap \ Range(op[f].run)
    /\ freeClusters' = freeClusters + op[f].promised
    /\ Step(f, IF op[f].got = <<>> THEN NoOp
               ELSE [op[f] EXCEPT !.pc = "freeing", !.kind = "undo", !.run = <<>>])
    /\ UNCHANGED <<fat, fcb, raises>>

\* The last run is given back; FatDeallocateDiskSpace gives back those before it, and
\* nobody what was promised and not yet found.
GiveBack(f) ==
    /\ op[f].pc = "unwinding"
    /\ bitmap' = bitmap \ Range(op[f].run)
    /\ freeClusters' = freeClusters + Len(op[f].run)
    /\ Step(f, IF op[f].got = <<>> THEN NoOp
               ELSE [op[f] EXCEPT !.pc = "freeing", !.kind = "undo", !.run = <<>>])
    /\ UNCHANGED <<fat, fcb, raises>>

\* FatAddFileAllocation: a first chain, or FatMergeAllocation.
MergeAllocation(f) ==
    /\ op[f].pc = "got" /\ op[f].kind = "grow"
    /\ LET F == fcb[f]
           grown == [F EXCEPT !.mcb = @ \o op[f].got, !.size = @ + op[f].promised]
       IN  /\ fat' = Linked(F.mcb, op[f].got[1])
           /\ fcb' = [fcb EXCEPT ![f] =
                         IF F.size = 0
                         THEN [grown EXCEPT !.first = op[f].got[1], !.entry = op[f].got[1]]
                         ELSE grown]
    /\ Step(f, NoOp)
    /\ UNCHANGED <<bitmap, freeClusters, raises>>

\* Mutant: the MCB keeps the clusters.
MergeRaisesLate(f) ==
    /\ op[f].pc = "got" /\ op[f].kind = "grow"
    /\ Raised
    /\ fcb' = [fcb EXCEPT ![f].mcb = @ \o op[f].got]
    /\ Step(f, [op[f] EXCEPT !.pc = "freeing", !.kind = "undo"])
    /\ UNCHANGED <<fat, bitmap, freeClusters>>

\* The cache manager or the link fails: size and MCB are as before.
MergeRaises(f) ==
    /\ op[f].pc = "got" /\ op[f].kind = "grow"
    /\ Raised
    /\ Step(f, [op[f] EXCEPT !.pc = "freeing", !.kind = "undo"])
    /\ UNCHANGED <<fat, bitmap, freeClusters, fcb>>

-----------------------------------------------------------------------------
(* FatDeallocateDiskSpace: first the FAT, then the bitmap *)

\* What its callers do at the end with the FCB F of the operation o: FatMoveFile replaces
\* the cluster in the MCB, or builds it again from the FAT; FatTruncateFileAllocation drops
\* the MCB of a file without size and, after a failure, gives the file its former size back.
Settled(F, o, failed) ==
    CASE o.kind = "move" -> [F EXCEPT !.mcb[o.at] = o.run[1]]
      [] o.kind = "truncate" /\ F.size = 0 -> [F EXCEPT !.mcb = <<>>]
      [] o.kind = "truncate" /\ F.size # 0 /\ failed -> [F EXCEPT !.size = o.at]
      [] OTHER -> F

FreeClusters(f) ==
    /\ op[f].pc = "freeing"
    /\ MayShare(f)
    /\ fat' = Freed(Range(op[f].got))
    /\ Step(f, [op[f] EXCEPT !.pc = "freed"])
    /\ UNCHANGED <<bitmap, freeClusters, fcb, raises>>

\* How much of the MCB has been freed when a run cannot be.
RunsBefore(mcb) ==
    {SubSeq(mcb, 1, n) : n \in {i \in 1 .. Len(mcb) - 1 : mcb[i + 1] # mcb[i] + 1}}

\* Mutant: the bits are cleared before the FAT is written.
FreeRaisesLate(f) ==
    /\ op[f].pc = "freeing"
    /\ MayShare(f)
    /\ Raised
    /\ bitmap' = bitmap \ Range(op[f].got)
    /\ fcb' = [fcb EXCEPT ![f] = Settled(@, op[f], TRUE)]
    /\ Step(f, NoOp)
    /\ UNCHANGED <<fat, freeClusters>>

\* It raises: the runs before are chained together again, or that fails too.  The
\* clusters are lost to files and to the free ones alike.
FreeRaises(f) ==
    /\ op[f].pc = "freeing"
    /\ MayShare(f)
    /\ Raised
    /\ fat' \in {fat} \cup {Freed(Range(r)) : r \in RunsBefore(op[f].got)}
    /\ fcb' = [fcb EXCEPT ![f] = Settled(@, op[f], TRUE)]
    /\ Step(f, NoOp)
    /\ UNCHANGED <<bitmap, freeClusters>>

\* Under the mutex; from here on another file may take the clusters.
UnreserveClusters(f) ==
    /\ op[f].pc = "freed"
    /\ bitmap' = bitmap \ Range(op[f].got)
    /\ freeClusters' = freeClusters + Len(op[f].got)
    /\ Step(f, [op[f] EXCEPT !.pc = "given"])
    /\ UNCHANGED <<fat, fcb, raises>>

\* The caller corrects the MCB, after a move only when the device is flushed (if that
\* fails, the MCB is emptied and built again from the FAT).
SettleMcb(f) ==
    /\ op[f].pc = "given"
    /\ fcb' = [fcb EXCEPT ![f] = Settled(@, op[f], FALSE)]
    /\ Step(f, NoOp)
    /\ UNCHANGED <<fat, bitmap, freeClusters, raises>>

-----------------------------------------------------------------------------
(* FatTruncateFileAllocation *)

\* To nothing: the first cluster is taken out of directory entry and FCB first.
TruncateToZero(f) ==
    /\ MayBegin(f) /\ fcb[f].size > 0
    /\ fcb' = [fcb EXCEPT ![f].size = 0, ![f].first = 0, ![f].entry = 0,
                          ![f].torn = "no"]
    /\ Step(f, [NoOp EXCEPT !.pc = "freeing", !.kind = "truncate", !.got = fcb[f].mcb,
                            !.at = fcb[f].size])
    /\ UNCHANGED <<fat, bitmap, freeClusters, raises>>

\* To n clusters: FatSplitAllocation ends the chain; what is behind is deallocated.  (If
\* the split raises, nothing has changed.)
Truncate(f, n) ==
    /\ MayBegin(f)
    /\ 0 < n /\ n < fcb[f].size
    /\ LET kept == SubSeq(fcb[f].mcb, 1, IF n < Len(fcb[f].mcb) THEN n ELSE Len(fcb[f].mcb))
       IN  /\ fat' = Linked(kept, EndOfChain)
           /\ fcb' = [fcb EXCEPT ![f].size = n, ![f].mcb = kept]
           /\ Step(f, IF kept = fcb[f].mcb THEN NoOp
                      ELSE [NoOp EXCEPT !.pc = "freeing", !.kind = "truncate",
                                !.got = SubSeq(fcb[f].mcb, n + 1, Len(fcb[f].mcb)),
                                !.at = fcb[f].size])
    /\ UNCHANGED <<bitmap, freeClusters, raises>>

-----------------------------------------------------------------------------
(* FatMoveFile, a cluster at a time: exactly the cluster c, or nothing *)

Move(f, i, c) ==
    /\ MayBegin(f)
    /\ i \in DOMAIN fcb[f].mcb
    /\ MayShare(f)
    /\ freeClusters > 0
    /\ freeClusters' = freeClusters - 1
    /\ IF c \notin bitmap
       THEN /\ bitmap' = bitmap \cup {c}
            /\ Step(f, [NoOp EXCEPT !.pc = "reserved", !.kind = "move", !.promised = 1,
                                    !.run = <<c>>, !.at = i])
       ELSE UNCHANGED <<bitmap, op>>            \* and the count stays lowered
    /\ UNCHANGED <<fat, fcb, raises>>

\* The data is copied, and the new cluster linked to the one behind the old.
SecondSplice(f) ==
    /\ op[f].pc = "got" /\ op[f].kind = "move"
    /\ LET i == op[f].at IN
       fat' = Linked(op[f].got, IF i = Len(fcb[f].mcb) THEN EndOfChain
                                ELSE fcb[f].mcb[i + 1])
    /\ Step(f, [op[f] EXCEPT !.pc = "spliced"])
    /\ UNCHANGED <<bitmap, freeClusters, fcb, raises>>

\* The one before the old cluster, or the directory entry, gets the new one, and the old
\* is deallocated.
FirstSplice(f) ==
    /\ op[f].pc = "spliced"
    /\ LET i == op[f].at
           c == op[f].got[1]
       IN  /\ fat' = IF i = 1 THEN fat ELSE [fat EXCEPT ![fcb[f].mcb[i - 1]] = c]
           /\ fcb' = IF i = 1 THEN [fcb EXCEPT ![f].first = c, ![f].entry = c,
                                                    ![f].torn = "no"]
                     ELSE fcb
           /\ Step(f, [op[f] EXCEPT !.pc = "freeing", !.run = <<c>>,
                                    !.got = <<fcb[f].mcb[i]>>])
    /\ UNCHANGED <<bitmap, freeClusters, raises>>

\* Its flush fails (or setting the BCB dirty does), with DiskSpaceAllocated still TRUE: the
\* new cluster is deallocated, and FAT or directory entry go on naming it.  The FCB keeps
\* its first cluster, from which the MCB is built again.
FirstSpliceRaises(f) ==
    /\ op[f].pc = "spliced"
    /\ Raised
    /\ LET i == op[f].at
           c == op[f].got[1]
       IN  /\ fat' = IF i = 1 THEN fat ELSE [fat EXCEPT ![fcb[f].mcb[i - 1]] = c]
           /\ fcb' = IF i = 1 THEN [fcb EXCEPT ![f].entry = c, ![f].torn = "entry"]
                     ELSE [fcb EXCEPT ![f].torn = "chain"]
    /\ Step(f, [op[f] EXCEPT !.pc = "freeing", !.kind = "undo"])
    /\ UNCHANGED <<bitmap, freeClusters>>

\* A read, a write, the second splice or its flush fails, or the first splice before it has
\* changed anything: the new cluster is deallocated.
MoveRaises(f) ==
    /\ op[f].pc \in {"got", "spliced"} /\ op[f].kind = "move"
    /\ Raised
    /\ Step(f, [op[f] EXCEPT !.pc = "freeing", !.kind = "undo"])
    /\ UNCHANGED <<fat, bitmap, freeClusters, fcb>>

-----------------------------------------------------------------------------
NextDisk ==
    \E f \in Chained :
        \/ \E n \in 1 .. MaxSize : AddFileAllocation(f, n) \/ Truncate(f, n)
        \/ AllocateClusters(f) \/ AllocateRaises(f) \/ AcquireExclusive(f)
        \/ ReserveInLoop(f) \/ AllocateInLoop(f) \/ LoopRaises(f) \/ GiveBack(f)
        \/ MergeAllocation(f) \/ MergeRaises(f)
        \/ FreeClusters(f) \/ FreeRaises(f) \/ UnreserveClusters(f) \/ SettleMcb(f)
        \/ TruncateToZero(f)
        \/ \E i \in 1 .. MaxSize, c \in Clusters : Move(f, i, c)
        \/ SecondSplice(f) \/ FirstSplice(f) \/ FirstSpliceRaises(f) \/ MoveRaises(f)

SpecDisk == InitDisk /\ [][NextDisk]_diskVars

-----------------------------------------------------------------------------
\* The clusters promised to f whose bits are still clear.
Outstanding(f) ==
    IF op[f].pc \in {"exclusive", "looping", "found"}
    THEN op[f].promised - Len(op[f].got) - Len(op[f].run) ELSE 0

\* One element for each of them, whosever it is.
Promises == UNION {{f} \X (1 .. Outstanding(f)) : f \in Chained}

\* A promise can be kept: as many bits are clear as clusters are counted free or promised
\* and not yet found, whoever else allocates, fails or gives back meanwhile, so that the
\* loop of FatAllocateDiskSpace never comes to its bugcheck.
PromisesKept ==
    /\ \A f \in Chained : op[f].pc # "bugcheck"
    /\ freeClusters + Cardinality(Promises) <= Cardinality(Clusters \ bitmap)

\* Between UnreserveClusters and SettleMcb a file has what its MCB is about to say: what it
\* still says, nobody reads, for the FCB is held, and a move has armed MoveFileEvent.
Held(f) ==
    IF op[f].pc = "given" THEN Range(Settled(fcb[f], op[f], FALSE).mcb)
    ELSE Range(fcb[f].mcb) \cup Range(op[f].got) \cup Range(op[f].run)

\* A cluster is had by one file at most, and one whose bit is clear by none, and is free in
\* the FAT too: whoever takes it takes nothing away, even from an operation that fails.  A
\* file whose chain is torn has the clusters of its MCB, not those that its chain leads to,
\* and this is so as long as nobody works with it again.
OwnedOnce ==
    /\ \A f, g \in Chained : f # g => Held(f) \cap Held(g) = {}
    /\ \A c \in Clusters \ bitmap :
           fat[c] = Available /\ \A f \in Chained : c \notin Held(f)

\* When nobody works on a file, its directory entry names its first cluster, and the chain
\* in the FAT from there is what its MCB says, whatever was allocated next to it and
\* wherever its operations raised, but for one place: a move that raises after its first
\* splice has torn the file, in its entry or in its chain.
ChainIsMcb ==
    \A f \in Chained : op[f].pc = "idle" =>
        LET F == fcb[f]
        IN  /\ F.torn = "no" => F.entry = F.first
            /\ (F.mcb = <<>>) = (F.first = 0)
            /\ F.mcb # <<>> => F.first = F.mcb[1]
            /\ F.torn # "chain" =>
                   \A i \in DOMAIN F.mcb :
                       fat[F.mcb[i]] = IF i = Len(F.mcb) THEN EndOfChain ELSE F.mcb[i + 1]
=============================================================================
