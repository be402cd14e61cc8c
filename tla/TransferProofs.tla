--------------------------- MODULE TransferProofs ---------------------------
(***************************************************************************)
(* Proofs about the transfers of fastfat: that a non-cached request is     *)
(* completed only when all of its runs are over and with a status that     *)
(* tells of each, that without the hook of MycelFT the disk is written     *)
(* inside the file only, and that the keystream of the hook does not       *)
(* depend on how a transfer is cut.                                        *)
(***************************************************************************)
EXTENDS NonCachedIo, Keystream, Integers, FiniteSetTheorems,
        SequenceTheorems, WellFoundedInduction, TLAPS

-----------------------------------------------------------------------------
(* The inductive invariant of NonCachedIo *)

RunPlaces == {"no", "disk", "status", "counted", "freed"}

AnyFile == NonCachedFiles \cup {CHOOSE f \in NonCachedFiles : TRUE}

IoRecords ==
    [at : IoPlaces, op : {"read", "write"}, wait : BOOLEAN,
     file : AnyFile,
     irpCount : Nat, associated : Nat, success : BOOLEAN, failed : SUBSET Positions,
     event : BOOLEAN, resource : BOOLEAN]

\* The runs that the completion routines have still to count, and those that the I/O
\* manager has still to see.
Uncounted(i) == {p \in Positions : run[i][p] \in {"disk", "status"}}
Outstanding(i) == {p \in Positions : run[i][p] \in {"disk", "status", "counted"}}

UnderWay(i) == io[i].at \in {"single", "multiple"}

RunsInFile(i) ==
    \A p \in Outstanding(i) :
        io[i].file \in NonCachedFiles /\ p \in DOMAIN Lbo[io[i].file]

\* IrpCount is the number of uncounted runs, and the event and the resources tell
\* whether it has come to zero.
CountIsRuns(i) ==
    UnderWay(i) =>
        /\ io[i].irpCount = Cardinality(Uncounted(i))
        /\ io[i].event <=> io[i].wait /\ io[i].irpCount = 0
        /\ io[i].resource <=> ~ io[i].wait /\ io[i].irpCount # 0

\* The I/O manager's own count of the associated IRPs of a request nobody waits for.
AssociatedIsRuns(i) ==
    /\ io[i].at = "single" => io[i].wait
    /\ io[i].at = "multiple" /\ ~ io[i].wait =>
           io[i].associated = Cardinality(Outstanding(i))

\* The completion routines run for requests under way only.
OverIsSettled(i) ==
    /\ ~ UnderWay(i) => Sectors(i, "status") = {}
    /\ io[i].at = "completed" => Uncounted(i) = {} /\ ~ io[i].resource

IoOK(i) ==
    /\ io[i] \in IoRecords
    /\ run[i] \in [Positions -> RunPlaces]
    /\ IsFiniteSet(Outstanding(i))
    /\ RunsInFile(i) /\ CountIsRuns(i) /\ AssociatedIsRuns(i) /\ OverIsSettled(i)
    /\ io[i].success => io[i].failed = {}

IInv ==
    /\ io \in [Ios -> IoRecords]
    /\ run \in [Ios -> [Positions -> RunPlaces]]
    /\ \A i \in Ios : IoOK(i)

-----------------------------------------------------------------------------
(* Counting the runs of a request *)

\* The runs of a request are finitely many.
LEMMA RunsFinite ==
    ASSUME NEW i \in Ios, IoOK(i)
    PROVE  /\ IsFiniteSet(Uncounted(i)) /\ IsFiniteSet(Outstanding(i))
           /\ Cardinality(Uncounted(i)) \in Nat /\ Cardinality(Outstanding(i)) \in Nat
           /\ Cardinality(Uncounted(i)) = 0 <=> Uncounted(i) = {}
           /\ Cardinality(Outstanding(i)) = 0 <=> Outstanding(i) = {}
<1>1. Uncounted(i) \subseteq Outstanding(i)
  BY DEF Uncounted, Outstanding
<1>2. IsFiniteSet(Outstanding(i)) /\ IsFiniteSet(Uncounted(i))
  BY <1>1, FS_Subset DEF IoOK
<1> QED
  BY <1>2, FS_CardinalityType, FS_EmptySet

\* One less.
LEMMA CountDown ==
    ASSUME NEW S, NEW p \in S, IsFiniteSet(S)
    PROVE  /\ IsFiniteSet(S \ {p})
           /\ Cardinality(S) \in Nat \ {0}
           /\ Cardinality(S \ {p}) = Cardinality(S) - 1
           /\ Cardinality(S) = 1 <=> S \ {p} = {}
<1>1. IsFiniteSet(S \ {p}) /\ Cardinality(S \ {p}) = Cardinality(S) - 1
  BY FS_RemoveElement
<1>2. Cardinality(S) \in Nat /\ Cardinality(S \ {p}) \in Nat
  BY <1>1, FS_CardinalityType
<1>3. Cardinality(S \ {p}) = 0 <=> S \ {p} = {}
  BY <1>1, FS_EmptySet
<1> QED
  BY <1>1, <1>2, <1>3

\* A step of one request keeps the invariant if it keeps what it says of that request.
LEMMA OneIo ==
    ASSUME IInv, NEW i \in Ios,
           io' = [io EXCEPT ![i] = io'[i]], run' = [run EXCEPT ![i] = run'[i]],
           IoOK(i)'
    PROVE  IInv'
<1>1. ASSUME NEW j \in Ios PROVE IoOK(j)'
  <2>1. CASE j = i
    BY <2>1
  <2>2. CASE j # i
    <3>1. io'[j] = io[j] /\ run'[j] = run[j]
      BY <2>2 DEF IInv
    <3>2. IoOK(j)
      BY DEF IInv
    <3> QED
      BY <3>1, <3>2
      DEF IoOK, RunsInFile, CountIsRuns, AssociatedIsRuns, OverIsSettled, UnderWay,
          Uncounted, Outstanding, Sectors
  <2> QED
    BY <2>1, <2>2
<1>2. io'[i] \in IoRecords /\ run'[i] \in [Positions -> RunPlaces]
  BY DEF IoOK
<1> QED
  BY <1>1, <1>2 DEF IInv

-----------------------------------------------------------------------------
(* Records *)

\* The changes that the actions make keep the record a request.
LEMMA Edited ==
    ASSUME NEW o \in IoRecords
    PROVE  /\ \A place \in IoPlaces : [o EXCEPT !.at = place] \in IoRecords
           /\ \A place \in IoPlaces, n \in Nat :
                  [o EXCEPT !.at = place, !.irpCount = n] \in IoRecords
           /\ \A place \in IoPlaces, n, k \in Nat :
                  [o EXCEPT !.at = place, !.irpCount = n, !.associated = k] \in IoRecords
           /\ \A place \in IoPlaces, r \in BOOLEAN :
                  [o EXCEPT !.at = place, !.success = FALSE, !.resource = r] \in IoRecords
           /\ \A failed \in SUBSET Positions :
                  [o EXCEPT !.success = FALSE, !.failed = failed] \in IoRecords
           /\ \A n \in Nat, e, r \in BOOLEAN :
                  [o EXCEPT !.irpCount = n, !.event = e, !.resource = r] \in IoRecords
           /\ \A place \in IoPlaces, k \in Nat :
                  [o EXCEPT !.associated = k, !.at = place] \in IoRecords
BY Zenon DEF IoRecords

-----------------------------------------------------------------------------
(* A request that has no runs yet, and one whose runs are all with the disk *)

LEMMA NoIoFacts ==
    /\ NoIo \in IoRecords
    /\ NoIo.at = "none" /\ NoIo.failed = {} /\ ~ NoIo.event /\ ~ NoIo.resource
BY DEF NoIo, IoRecords, IoPlaces, AnyFile

LEMMA RequestFacts ==
    ASSUME NEW f \in NonCachedFiles, NEW op \in {"read", "write"}, NEW wait \in BOOLEAN
    PROVE  /\ Request(f, op, wait) \in IoRecords
           /\ Request(f, op, wait).file = f
           /\ Request(f, op, wait).wait = wait
           /\ (Request(f, op, wait).resource <=> ~ wait)
           /\ ~ Request(f, op, wait).event
           /\ Request(f, op, wait).failed = {}
BY NoIoFacts DEF Request, NoIo, IoRecords, AnyFile

\* Nothing is outstanding of an idle request.
LEMMA IdleRuns ==
    ASSUME NEW i \in Ios, run'[i] = Idle
    PROVE  /\ run'[i] \in [Positions -> RunPlaces]
           /\ Uncounted(i)' = {} /\ Outstanding(i)' = {} /\ Sectors(i, "status")' = {}
BY DEF Idle, RunPlaces, Uncounted, Outstanding, Sectors

LEMMA IdleIsOK ==
    ASSUME NEW i \in Ios, io'[i] \in IoRecords, run'[i] = Idle,
           io'[i].at \in {"none", "completed"}, ~ io'[i].resource,
           io'[i].failed = {}
    PROVE  IoOK(i)'
BY IdleRuns, FS_EmptySet
DEF IoOK, RunsInFile, CountIsRuns, AssociatedIsRuns, OverIsSettled, UnderWay

LEMMA IssuedRuns ==
    ASSUME NEW i \in Ios, NEW span, run'[i] = WithDisk(span), span \subseteq Positions
    PROVE  /\ run'[i] \in [Positions -> RunPlaces]
           /\ Uncounted(i)' = span /\ Outstanding(i)' = span
           /\ Sectors(i, "status")' = {}
BY DEF WithDisk, RunPlaces, Uncounted, Outstanding, Sectors

\* Positions of a file that lie between two of its positions are positions of the file.
LEMMA SpanInFile ==
    ASSUME NEW f \in NonCachedFiles, NEW p \in Positions, NEW q \in DOMAIN Lbo[f]
    PROVE  /\ p \in Nat \ {0} /\ q \in Nat
           /\ p..q \subseteq DOMAIN Lbo[f] /\ DOMAIN Lbo[f] \subseteq Positions
<1>1. \A g \in NonCachedFiles : DOMAIN Lbo[g] = 1..Len(Lbo[g]) /\ Len(Lbo[g]) \in Nat
  BY LboAssumption
<1>2. PICK g \in NonCachedFiles : p \in DOMAIN Lbo[g]
  BY DEF Positions
<1>3. p \in Nat \ {0} /\ q \in 1..Len(Lbo[f]) /\ Len(Lbo[f]) \in Nat
  BY <1>1, <1>2
<1>4. p..q \subseteq DOMAIN Lbo[f]
  BY <1>1, <1>3
<1> QED
  BY <1>3, <1>4 DEF Positions

-----------------------------------------------------------------------------
(* Each action keeps the invariant *)

LEMMA IssueSingleStep ==
    ASSUME IInv, NEW i \in Ios, NEW f \in NonCachedFiles, NEW op \in {"read", "write"},
           NEW wait \in BOOLEAN, NEW p \in Positions, IssueSingle(i, f, op, wait, p)
    PROVE  IInv'
<1> DEFINE place == IF f \in UserFiles THEN "hook" ELSE "single"
           req == Request(f, op, wait)
<1>1. /\ io'[i] = [req EXCEPT !.at = place, !.irpCount = 1]
      /\ run'[i] = WithDisk({p}) /\ p \in DOMAIN Lbo[f]
      /\ wait \/ f \in UserFiles
      /\ io' = [io EXCEPT ![i] = io'[i]] /\ run' = [run EXCEPT ![i] = run'[i]]
  BY DEF IssueSingle, IInv
<1>2. /\ req \in IoRecords /\ req.wait = wait /\ req.file = f
      /\ (req.resource <=> ~ wait) /\ ~ req.event /\ req.failed = {}
  BY RequestFacts
<1>3. /\ place = "single" => wait
      /\ place \in {"hook", "single"} /\ place \in IoPlaces
  BY <1>1 DEF IoPlaces
<1> HIDE DEF place, req
<1>4. /\ [req EXCEPT !.at = place, !.irpCount = 1] \in IoRecords
      /\ io'[i].at = place /\ io'[i].irpCount = 1
      /\ io'[i].wait = wait /\ io'[i].file = f /\ (io'[i].resource <=> ~ wait)
      /\ ~ io'[i].event /\ io'[i].failed = {}
  <2>1. 1 \in Nat
    OBVIOUS
  <2>2. [req EXCEPT !.at = place, !.irpCount = 1] \in IoRecords
    BY <1>2, <1>3, <2>1, Edited, Zenon
  <2> QED
    BY <1>1, <1>2, <1>3, <2>2 DEF IoRecords
<1>5. /\ run'[i] \in [Positions -> RunPlaces]
      /\ Uncounted(i)' = {p} /\ Outstanding(i)' = {p} /\ Sectors(i, "status")' = {}
  <2> DEFINE span == {p}
  <2>1. run'[i] = WithDisk(span) /\ span \subseteq Positions
    BY <1>1
  <2> HIDE DEF span
  <2>2. /\ run'[i] \in [Positions -> RunPlaces]
        /\ Uncounted(i)' = span /\ Outstanding(i)' = span /\ Sectors(i, "status")' = {}
    BY <2>1, IssuedRuns
  <2> QED
    BY <2>2 DEF span
<1>6. IsFiniteSet({p}) /\ Cardinality({p}) = 1
  BY FS_Singleton
<1>7. io'[i] \in IoRecords
  BY <1>1, <1>4, Zenon
<1>8. RunsInFile(i)' /\ OverIsSettled(i)' /\ AssociatedIsRuns(i)'
  BY <1>1, <1>3, <1>4, <1>5
  DEF RunsInFile, AssociatedIsRuns, OverIsSettled, UnderWay
<1>9. CountIsRuns(i)'
  BY <1>4, <1>5, <1>6 DEF CountIsRuns, UnderWay
<1>10. IoOK(i)'
  BY <1>4, <1>5, <1>6, <1>7, <1>8, <1>9 DEF IoOK
<1> QED
  BY <1>1, <1>10, OneIo

LEMMA IssueMultipleStep ==
    ASSUME IInv, NEW i \in Ios, NEW f \in NonCachedFiles, NEW op \in {"read", "write"},
           NEW wait \in BOOLEAN, NEW first \in Positions, NEW last \in Positions,
           IssueMultiple(i, f, op, wait, first, last)
    PROVE  IInv'
<1> DEFINE n == last - first + 1
           req == Request(f, op, wait)
<1>1. /\ io'[i] = [req EXCEPT !.at = "multiple", !.irpCount = n, !.associated = n]
      /\ run'[i] = WithDisk(first..last) /\ first < last /\ last \in DOMAIN Lbo[f]
      /\ io' = [io EXCEPT ![i] = io'[i]] /\ run' = [run EXCEPT ![i] = run'[i]]
  BY DEF IssueMultiple, IInv
<1>2. /\ first \in Nat /\ last \in Nat
      /\ first..last \subseteq DOMAIN Lbo[f] /\ first..last \subseteq Positions
  BY <1>1, SpanInFile
<1>3. n \in Nat \ {0}
  BY <1>1, <1>2
<1>4. IsFiniteSet(first..last) /\ Cardinality(first..last) = n
  BY <1>1, <1>2, FS_Interval
<1>a. /\ req \in IoRecords /\ req.wait = wait /\ req.file = f
      /\ (req.resource <=> ~ wait) /\ ~ req.event /\ req.failed = {}
  BY RequestFacts
<1> HIDE DEF n, req
<1>b. "multiple" \in IoPlaces /\ n \in Nat
  BY <1>3 DEF IoPlaces
<1>c. [req EXCEPT !.at = "multiple", !.irpCount = n, !.associated = n] \in IoRecords
  BY <1>a, <1>b, Edited, Zenon
<1>d. io'[i] \in IoRecords
  BY <1>1, <1>c, Zenon
<1>5. /\ io'[i].at = "multiple"
      /\ io'[i].irpCount = n /\ io'[i].associated = n
      /\ io'[i].wait = wait /\ io'[i].file = f /\ (io'[i].resource <=> ~ wait)
      /\ ~ io'[i].event /\ io'[i].failed = {}
  BY <1>1, <1>a, <1>b, <1>c DEF IoRecords
<1>6. /\ run'[i] \in [Positions -> RunPlaces]
      /\ Uncounted(i)' = first..last /\ Outstanding(i)' = first..last
      /\ Sectors(i, "status")' = {}
  BY <1>1, <1>2, IssuedRuns
<1>7. IoOK(i)'
  BY <1>2, <1>3, <1>4, <1>5, <1>6, <1>d
  DEF IoOK, RunsInFile, CountIsRuns, AssociatedIsRuns, OverIsSettled, UnderWay
<1> QED
  BY <1>1, <1>7, OneIo

LEMMA IssueFailsStep ==
    ASSUME IInv, NEW i \in Ios, NEW f \in NonCachedFiles, NEW op \in {"read", "write"},
           NEW wait \in BOOLEAN, IssueFails(i, f, op, wait)
    PROVE  IInv'
<1> DEFINE req == Request(f, op, wait)
<1>1. /\ io'[i] = [req EXCEPT !.at = "completed", !.success = FALSE, !.resource = FALSE]
      /\ run'[i] = Idle
      /\ io' = [io EXCEPT ![i] = io'[i]] /\ run' = [run EXCEPT ![i] = run'[i]]
  BY DEF IssueFails, IInv
<1>2. req \in IoRecords /\ req.failed = {}
  BY RequestFacts
<1> HIDE DEF req
<1>3. [req EXCEPT !.at = "completed", !.success = FALSE, !.resource = FALSE] \in IoRecords
  <2>1. "completed" \in IoPlaces /\ FALSE \in BOOLEAN
    BY DEF IoPlaces
  <2> QED
    BY <1>2, <2>1, Edited, Zenon
<1>4. io'[i] \in IoRecords
  BY <1>1, <1>3, Zenon
<1>5. io'[i].at = "completed" /\ ~ io'[i].resource /\ io'[i].failed = {}
  BY <1>1, <1>2, <1>3 DEF IoRecords
<1> QED
  BY <1>1, <1>4, <1>5, IdleIsOK, OneIo

\* The run stays uncounted, and a failure is noted in both places.
LEMMA DiskRunStep ==
    ASSUME IInv, NEW i \in Ios, NEW p \in Positions, DiskRun(i, p)
    PROVE  IInv'
<1>1. /\ io[i] \in IoRecords /\ run[i] \in [Positions -> RunPlaces] /\ IoOK(i)
  BY DEF IInv
<1>2. /\ run[i][p] = "disk" /\ run'[i] = [run[i] EXCEPT ![p] = "status"] /\ UnderWay(i)
      /\ run' = [run EXCEPT ![i] = run'[i]]
  BY DEF DiskRun, IInv, UnderWay
<1>3. \/ io' = io
      \/ /\ io' = [io EXCEPT ![i] = io'[i]]
         /\ io'[i] = [io[i] EXCEPT !.success = FALSE, !.failed = @ \cup {p}]
  BY DEF DiskRun, IInv
<1>4. /\ io' = [io EXCEPT ![i] = io'[i]] /\ io'[i] \in IoRecords
      /\ io'[i].at = io[i].at /\ io'[i].wait = io[i].wait /\ io'[i].file = io[i].file
      /\ io'[i].irpCount = io[i].irpCount /\ io'[i].associated = io[i].associated
      /\ io'[i].event = io[i].event /\ io'[i].resource = io[i].resource
      /\ io'[i].success => io'[i].failed = {}
  <2>1. CASE io' = io
    BY <1>1, <2>1 DEF IInv, IoOK
  <2>2. CASE /\ io' = [io EXCEPT ![i] = io'[i]]
             /\ io'[i] = [io[i] EXCEPT !.success = FALSE, !.failed = @ \cup {p}]
    <3>1. io[i].failed \cup {p} \in SUBSET Positions
      BY <1>1 DEF IoRecords
    <3>2. [io[i] EXCEPT !.success = FALSE, !.failed = io[i].failed \cup {p}] \in IoRecords
      BY <1>1, <3>1, Edited, Zenon
    <3>3. io'[i] \in IoRecords
      BY <2>2, <3>2, Zenon
    <3> QED
      BY <1>1, <2>2, <3>3 DEF IoRecords
  <2> QED
    BY <1>3, <2>1, <2>2
<1>5. /\ run'[i] \in [Positions -> RunPlaces]
      /\ Uncounted(i)' = Uncounted(i) /\ Outstanding(i)' = Outstanding(i)
  BY <1>1, <1>2 DEF RunPlaces, Uncounted, Outstanding
<1>6. RunsInFile(i)' /\ CountIsRuns(i)' /\ AssociatedIsRuns(i)'
  BY <1>1, <1>4, <1>5
  DEF IoOK, RunsInFile, CountIsRuns, AssociatedIsRuns, UnderWay
<1>7. OverIsSettled(i)'
  BY <1>2, <1>4 DEF OverIsSettled, UnderWay
<1>8. IoOK(i)'
  BY <1>1, <1>4, <1>5, <1>6, <1>7 DEF IoOK
<1> QED
  BY <1>2, <1>4, <1>8, OneIo

\* The routine counts its run, and the last one tells the waiter or lets go.
LEMMA CompletionRoutineStep ==
    ASSUME IInv, NEW i \in Ios, NEW p \in Positions, CompletionRoutine(i, p)
    PROVE  IInv'
<1>1. /\ io[i] \in IoRecords /\ run[i] \in [Positions -> RunPlaces] /\ IoOK(i)
  BY DEF IInv
<1>2. /\ run[i][p] = "status" /\ run'[i] = [run[i] EXCEPT ![p] = "counted"]
      /\ run' = [run EXCEPT ![i] = run'[i]] /\ io' = [io EXCEPT ![i] = io'[i]]
      /\ io'[i] = [io[i] EXCEPT
              !.irpCount = io[i].irpCount - 1,
              !.event = io[i].event \/ (io[i].irpCount = 1 /\ io[i].wait),
              !.resource = io[i].resource /\ io[i].irpCount # 1]
  BY DEF CompletionRoutine, IInv
<1>3. UnderWay(i)
  BY <1>1, <1>2 DEF IoOK, OverIsSettled, Sectors
<1>4. p \in Uncounted(i)
  BY <1>2 DEF Uncounted
<1>5. /\ io[i].irpCount = Cardinality(Uncounted(i))
      /\ io[i].irpCount \in Nat \ {0}
      /\ Cardinality(Uncounted(i) \ {p}) = io[i].irpCount - 1
  <2>1. io[i].irpCount = Cardinality(Uncounted(i)) /\ IsFiniteSet(Uncounted(i))
    BY <1>1, <1>3, RunsFinite DEF IoOK, CountIsRuns
  <2> QED
    BY <1>4, <2>1, CountDown
<1>a. io'[i] \in IoRecords
  <2> DEFINE n == io[i].irpCount - 1
             e == io[i].event \/ (io[i].irpCount = 1 /\ io[i].wait)
             r == io[i].resource /\ io[i].irpCount # 1
  <2>1. n \in Nat /\ e \in BOOLEAN /\ r \in BOOLEAN
    BY <1>5
  <2>2. io'[i] = [io[i] EXCEPT !.irpCount = n, !.event = e, !.resource = r]
    BY <1>2
  <2> HIDE DEF n, e, r
  <2>3. [io[i] EXCEPT !.irpCount = n, !.event = e, !.resource = r] \in IoRecords
    BY <1>1, <2>1, Edited, Zenon
  <2> QED
    BY <2>2, <2>3, Zenon
<1>6. /\ io'[i].at = io[i].at /\ io'[i].wait = io[i].wait /\ io'[i].file = io[i].file
      /\ io'[i].irpCount = io[i].irpCount - 1
      /\ io'[i].associated = io[i].associated
      /\ io'[i].event <=> io[i].event \/ (io[i].irpCount = 1 /\ io[i].wait)
      /\ io'[i].resource <=> io[i].resource /\ io[i].irpCount # 1
      /\ io'[i].success = io[i].success /\ io'[i].failed = io[i].failed
  BY <1>1, <1>2 DEF IoRecords
<1>7. /\ run'[i] \in [Positions -> RunPlaces]
      /\ Uncounted(i)' = Uncounted(i) \ {p} /\ Outstanding(i)' = Outstanding(i)
  BY <1>1, <1>2 DEF RunPlaces, Uncounted, Outstanding
<1>8. CountIsRuns(i)'
  BY <1>1, <1>3, <1>5, <1>6, <1>7 DEF IoOK, CountIsRuns, UnderWay
<1>9. RunsInFile(i)' /\ AssociatedIsRuns(i)' /\ OverIsSettled(i)'
  BY <1>1, <1>3, <1>6, <1>7
  DEF IoOK, RunsInFile, AssociatedIsRuns, OverIsSettled, UnderWay
<1>10. IoOK(i)'
  BY <1>1, <1>a, <1>6, <1>7, <1>8, <1>9 DEF IoOK
<1> QED
  BY <1>2, <1>10, OneIo

\* The event was set when the last run was counted.
LEMMA WaitSyncStep ==
    ASSUME IInv, NEW i \in Ios, WaitSync(i)
    PROVE  IInv'
<1>1. /\ io[i] \in IoRecords /\ run[i] \in [Positions -> RunPlaces] /\ IoOK(i)
  BY DEF IInv
<1>2. /\ UnderWay(i) /\ io[i].event /\ run' = run
      /\ io' = [io EXCEPT ![i] = io'[i]] /\ io'[i] = [io[i] EXCEPT !.at = "completed"]
  BY DEF WaitSync, IInv, UnderWay
<1>3. /\ io'[i] \in IoRecords /\ io'[i].at = "completed"
      /\ io'[i].file = io[i].file /\ io'[i].resource = io[i].resource
      /\ io'[i].success = io[i].success /\ io'[i].failed = io[i].failed
  BY <1>1, <1>2 DEF IoRecords, IoPlaces
<1>4. Uncounted(i) = {} /\ ~ io[i].resource
  BY <1>1, <1>2, RunsFinite DEF IoOK, CountIsRuns
<1>5. Uncounted(i)' = Uncounted(i) /\ Outstanding(i)' = Outstanding(i)
  BY <1>2 DEF Uncounted, Outstanding
<1>6. Sectors(i, "status")' = {}
  BY <1>4, <1>5 DEF Sectors, Uncounted
<1>7. IoOK(i)'
  BY <1>1, <1>2, <1>3, <1>4, <1>5, <1>6
  DEF IoOK, RunsInFile, CountIsRuns, AssociatedIsRuns, OverIsSettled, UnderWay
<1>8. run' = [run EXCEPT ![i] = run'[i]]
  BY <1>2 DEF IInv
<1> QED
  BY <1>2, <1>7, <1>8, OneIo

\* With the last associated IRP the I/O manager completes the master.
LEMMA IoManagerStep ==
    ASSUME IInv, NEW i \in Ios, NEW p \in Positions, IoManager(i, p)
    PROVE  IInv'
<1> DEFINE place == IF io[i].associated = 1 THEN "completed" ELSE io[i].at
<1>1. /\ io[i] \in IoRecords /\ run[i] \in [Positions -> RunPlaces] /\ IoOK(i)
  BY DEF IInv
<1>2. /\ run[i][p] = "counted" /\ run'[i] = [run[i] EXCEPT ![p] = "freed"]
      /\ io[i].at = "multiple" /\ ~ io[i].wait
      /\ run' = [run EXCEPT ![i] = run'[i]] /\ io' = [io EXCEPT ![i] = io'[i]]
      /\ io'[i] = [io[i] EXCEPT !.associated = io[i].associated - 1, !.at = place]
  BY DEF IoManager, IInv
<1>3. p \in Outstanding(i) /\ p \notin Uncounted(i)
  BY <1>2 DEF Outstanding, Uncounted
<1>4. /\ io[i].associated = Cardinality(Outstanding(i))
      /\ io[i].associated \in Nat \ {0} /\ IsFiniteSet(Outstanding(i) \ {p})
      /\ Cardinality(Outstanding(i) \ {p}) = io[i].associated - 1
      /\ io[i].associated = 1 => Outstanding(i) \ {p} = {}
  BY <1>1, <1>2, <1>3, RunsFinite, CountDown DEF IoOK, AssociatedIsRuns
<1>5. place \in IoPlaces /\ place \in {"multiple", "completed"}
  BY <1>2 DEF IoPlaces
<1>6. place = "completed" => Outstanding(i) \ {p} = {}
  BY <1>2, <1>4
<1> HIDE DEF place
<1>a. io'[i] \in IoRecords
  <2> DEFINE k == io[i].associated - 1
  <2>1. k \in Nat /\ io'[i] = [io[i] EXCEPT !.associated = k, !.at = place]
    BY <1>2, <1>4
  <2> HIDE DEF k
  <2>2. [io[i] EXCEPT !.associated = k, !.at = place] \in IoRecords
    BY <1>1, <1>5, <2>1, Edited, Zenon
  <2> QED
    BY <2>1, <2>2, Zenon
<1>7. /\ io'[i].at = place /\ io'[i].wait = io[i].wait
      /\ io'[i].file = io[i].file /\ io'[i].irpCount = io[i].irpCount
      /\ io'[i].associated = io[i].associated - 1
      /\ io'[i].event = io[i].event /\ io'[i].resource = io[i].resource
      /\ io'[i].success = io[i].success /\ io'[i].failed = io[i].failed
  BY <1>1, <1>2 DEF IoRecords
<1>8. /\ run'[i] \in [Positions -> RunPlaces] /\ Uncounted(i)' = Uncounted(i)
      /\ Outstanding(i)' = Outstanding(i) \ {p}
      /\ Sectors(i, "status")' = Sectors(i, "status")
  BY <1>1, <1>2 DEF RunPlaces, Uncounted, Outstanding, Sectors
<1>9. CountIsRuns(i)' /\ AssociatedIsRuns(i)' /\ RunsInFile(i)'
  BY <1>1, <1>2, <1>4, <1>5, <1>7, <1>8
  DEF IoOK, CountIsRuns, AssociatedIsRuns, RunsInFile, UnderWay
<1>10. OverIsSettled(i)'
  <2>1. CASE place = "multiple"
    BY <1>7, <2>1 DEF OverIsSettled, UnderWay
  <2>2. CASE place = "completed"
    <3>1. Uncounted(i) = {}
      BY <1>3, <1>6, <2>2 DEF Uncounted, Outstanding
    <3>2. ~ io[i].resource
      BY <1>1, <1>2, <3>1, RunsFinite DEF IoOK, CountIsRuns, UnderWay
    <3>3. Sectors(i, "status") = {}
      BY <3>1 DEF Sectors, Uncounted
    <3> QED
      BY <1>7, <1>8, <3>1, <3>2, <3>3 DEF OverIsSettled
  <2> QED
    BY <1>5, <2>1, <2>2
<1>11. IoOK(i)'
  BY <1>1, <1>4, <1>a, <1>7, <1>8, <1>9, <1>10 DEF IoOK
<1> QED
  BY <1>2, <1>11, OneIo

LEMMA HookTransfersStep ==
    ASSUME IInv, NEW i \in Ios, NEW p \in Positions, HookTransfers(i, p)
    PROVE  IInv'
<1>1. /\ io[i] \in IoRecords /\ run[i] \in [Positions -> RunPlaces] /\ IoOK(i)
  BY DEF IInv
<1>2. /\ io[i].at = "hook" /\ run'[i] = [run[i] EXCEPT ![p] = "freed"]
      /\ run' = [run EXCEPT ![i] = run'[i]] /\ io' = [io EXCEPT ![i] = io'[i]]
      /\ io'[i] = [io[i] EXCEPT !.at = "left"]
  BY DEF HookTransfers, IInv
<1>3. /\ io'[i] \in IoRecords /\ io'[i].at = "left" /\ io'[i].file = io[i].file
      /\ io'[i].success = io[i].success /\ io'[i].failed = io[i].failed
  BY <1>1, <1>2 DEF IoRecords, IoPlaces
<1>4. /\ run'[i] \in [Positions -> RunPlaces]
      /\ Outstanding(i)' \subseteq Outstanding(i)
      /\ Sectors(i, "status")' \subseteq Sectors(i, "status")
  BY <1>1, <1>2 DEF RunPlaces, Outstanding, Sectors
<1>5. IsFiniteSet(Outstanding(i)')
  BY <1>1, <1>4, FS_Subset DEF IoOK
<1>6. IoOK(i)'
  BY <1>1, <1>2, <1>3, <1>4, <1>5
  DEF IoOK, RunsInFile, CountIsRuns, AssociatedIsRuns, OverIsSettled, UnderWay
<1> QED
  BY <1>2, <1>6, OneIo

LEMMA HookReturnsStep ==
    ASSUME IInv, NEW i \in Ios, HookReturns(i)
    PROVE  IInv'
<1>1. /\ io[i] \in IoRecords /\ run[i] \in [Positions -> RunPlaces] /\ IoOK(i)
  BY DEF IInv
<1>2. /\ io[i].at = "hook" /\ run' = run /\ run' = [run EXCEPT ![i] = run'[i]]
      /\ io' = [io EXCEPT ![i] = io'[i]] /\ io'[i] = [io[i] EXCEPT !.at = "left"]
  BY DEF HookReturns, IInv
<1>3. /\ io'[i] \in IoRecords /\ io'[i].at = "left" /\ io'[i].file = io[i].file
      /\ io'[i].success = io[i].success /\ io'[i].failed = io[i].failed
  BY <1>1, <1>2 DEF IoRecords, IoPlaces
<1>4. Outstanding(i)' = Outstanding(i) /\ Sectors(i, "status")' = Sectors(i, "status")
  BY <1>2 DEF Outstanding, Sectors
<1>5. IoOK(i)'
  BY <1>1, <1>2, <1>3, <1>4
  DEF IoOK, RunsInFile, CountIsRuns, AssociatedIsRuns, OverIsSettled, UnderWay
<1> QED
  BY <1>2, <1>5, OneIo

LEMMA NextRequestStep ==
    ASSUME IInv, NEW i \in Ios, NextRequest(i)
    PROVE  IInv'
<1>1. /\ io'[i] = NoIo /\ run'[i] = Idle
      /\ io' = [io EXCEPT ![i] = io'[i]] /\ run' = [run EXCEPT ![i] = run'[i]]
  BY DEF NextRequest, IInv
<1> QED
  BY <1>1, NoIoFacts, IdleIsOK, OneIo

-----------------------------------------------------------------------------
(* The theorems about requests *)

LEMMA InitIInv == InitNonCached => IInv
<1> SUFFICES ASSUME InitNonCached PROVE IInv
  OBVIOUS
<1>1. \A i \in Ios : io[i] = NoIo /\ run[i] = Idle
  BY DEF InitNonCached
<1>2. Idle \in [Positions -> RunPlaces]
  BY DEF Idle, RunPlaces
<1>3. io \in [Ios -> IoRecords] /\ run \in [Ios -> [Positions -> RunPlaces]]
  BY <1>2, NoIoFacts DEF InitNonCached
<1>4. ASSUME NEW i \in Ios PROVE IoOK(i)
  <2>1. Uncounted(i) = {} /\ Outstanding(i) = {} /\ Sectors(i, "status") = {}
    BY <1>1 DEF Idle, Uncounted, Outstanding, Sectors
  <2> QED
    BY <1>1, <1>2, <2>1, NoIoFacts, FS_EmptySet
    DEF IoOK, RunsInFile, CountIsRuns, AssociatedIsRuns, OverIsSettled, UnderWay
<1> QED
  BY <1>3, <1>4 DEF IInv

LEMMA StepIInv == IInv /\ [NextNonCached]_nonCachedVars => IInv'
<1> SUFFICES ASSUME IInv, [NextNonCached]_nonCachedVars PROVE IInv'
  OBVIOUS
<1>1. CASE UNCHANGED nonCachedVars
  BY <1>1
  DEF nonCachedVars, IInv, IoOK, RunsInFile, CountIsRuns, AssociatedIsRuns,
      OverIsSettled, UnderWay, Uncounted, Outstanding, Sectors
<1>2. ASSUME NEW i \in Ios, NEW f \in NonCachedFiles, NEW op \in {"read", "write"},
             NEW wait \in BOOLEAN,
             \/ \E p \in Positions : IssueSingle(i, f, op, wait, p)
             \/ \E p, q \in Positions : IssueMultiple(i, f, op, wait, p, q)
             \/ IssueFails(i, f, op, wait)
      PROVE  IInv'
  BY <1>2, IssueSingleStep, IssueMultipleStep, IssueFailsStep
<1>3. ASSUME NEW i \in Ios, NEW p \in Positions, RunStep(i, p)
      PROVE  IInv'
  BY <1>3, DiskRunStep, CompletionRoutineStep, IoManagerStep, HookTransfersStep
  DEF RunStep
<1>4. ASSUME NEW i \in Ios, WaitSync(i) \/ HookReturns(i) \/ NextRequest(i)
      PROVE  IInv'
  BY <1>4, WaitSyncStep, HookReturnsStep, NextRequestStep
<1> QED
  BY <1>1, <1>2, <1>3, <1>4 DEF NextNonCached

\* The count of FatMultipleAsync is, at every moment, the number of runs that no
\* completion routine has counted, for every layout of files and number of requests.
THEOREM TransferInvariant == SpecNonCached => []IInv
BY InitIInv, StepIInv, PTL DEF SpecNonCached

\* A completed request is over: no run of it is with the disk or in a completion routine,
\* and nothing that it had locked is still locked.
THEOREM Settled == SpecNonCached => []CompletedIsSettled
<1>1. IInv => CompletedIsSettled
  BY DEF IInv, IoOK, OverIsSettled, CompletedIsSettled, Uncounted, Sectors
<1> QED
  BY <1>1, TransferInvariant, PTL

\* The status of the master tells of the failure of any run.
THEOREM SuccessIsWhole == SpecNonCached => []SuccessMeansAllRuns
<1>1. IInv => SuccessMeansAllRuns
  BY DEF IInv, IoOK, SuccessMeansAllRuns
<1> QED
  BY <1>1, TransferInvariant, PTL

\* The addresses of a file are its own.
LEMMA OwnerOfSector ==
    ASSUME NEW f \in NonCachedFiles, NEW p \in DOMAIN Lbo[f]
    PROVE  OwnerOf(Lbo[f][p]) = f
<1> DEFINE Has(g) == \E q \in DOMAIN Lbo[g] : Lbo[g][q] = Lbo[f][p]
<1>1. f \in NonCachedFiles /\ Has(f)
  OBVIOUS
<1>2. \A g \in NonCachedFiles : Has(g) => g = f
  BY LboAssumption
<1>3. OwnerOf(Lbo[f][p]) = CHOOSE g \in NonCachedFiles : Has(g)
  BY DEF OwnerOf
<1> HIDE DEF Has
<1> QED
  BY <1>1, <1>2, <1>3

\* Only transfers change the disk, at an address that it has.
LEMMA DiskStep ==
    ASSUME [NextNonCached]_nonCachedVars
    PROVE  \/ disk' = disk
           \/ \E i \in Ios, p \in Positions : DiskRun(i, p) \/ HookTransfers(i, p)
<1>1. CASE UNCHANGED nonCachedVars
  BY <1>1 DEF nonCachedVars
<1>2. ASSUME NEW i \in Ios, NEW f, NEW op, NEW wait,
             \/ \E p \in Positions : IssueSingle(i, f, op, wait, p)
             \/ \E p, q \in Positions : IssueMultiple(i, f, op, wait, p, q)
             \/ IssueFails(i, f, op, wait)
      PROVE  disk' = disk
  <2>1. ASSUME NEW p, IssueSingle(i, f, op, wait, p) PROVE disk' = disk
    BY <2>1 DEF IssueSingle
  <2>2. ASSUME NEW p, NEW q, IssueMultiple(i, f, op, wait, p, q) PROVE disk' = disk
    BY <2>2 DEF IssueMultiple
  <2>3. ASSUME IssueFails(i, f, op, wait) PROVE disk' = disk
    BY <2>3 DEF IssueFails
  <2> QED
    BY <1>2, <2>1, <2>2, <2>3, Zenon
<1>3. ASSUME NEW i \in Ios, NEW p \in Positions, CompletionRoutine(i, p) \/ IoManager(i, p)
      PROVE  disk' = disk
  BY <1>3 DEF CompletionRoutine, IoManager
<1>4. ASSUME NEW i \in Ios, WaitSync(i) \/ HookReturns(i) \/ NextRequest(i)
      PROVE  disk' = disk
  BY <1>4 DEF WaitSync, HookReturns, NextRequest
<1> QED
  BY <1>1, <1>2, <1>3, <1>4, Zenon DEF NextNonCached, RunStep

DiskTyped == DOMAIN disk = Addresses

LEMMA DiskDomain == SpecNonCached => []DiskTyped
<1>1. InitNonCached => DiskTyped
  BY DEF InitNonCached, DiskTyped
<1>2. ASSUME DiskTyped, [NextNonCached]_nonCachedVars
      PROVE  DiskTyped'
  <2>1. ASSUME NEW i, NEW a, Written(i, a) PROVE DiskTyped'
    BY <1>2, <2>1 DEF Written, DiskTyped
  <2>2. ASSUME NEW i, NEW p, DiskRun(i, p) \/ HookTransfers(i, p)
        PROVE  DiskTyped'
    BY <1>2, <2>1, <2>2 DEF DiskRun, HookTransfers, DiskTyped
  <2> QED
    BY <1>2, <2>2, DiskStep DEF DiskTyped
<1> QED
  BY <1>1, <1>2, PTL DEF SpecNonCached

\* As long as the sectors hold what their own file wrote, any step but the transfer of
\* the hook leaves them so: the other ways to the disk use the address of the sector.
THEOREM OnlyHookMisplaces ==
    SpecNonCached =>
        [][EveryWriteInsideFile /\ (\A i \in Ios, p \in Positions : ~ HookTransfers(i, p))
               => EveryWriteInsideFile']_nonCachedVars
<1>1. ASSUME IInv, DiskTyped, EveryWriteInsideFile, NEW i \in Ios, NEW p \in Positions,
             DiskRun(i, p)
      PROVE  EveryWriteInsideFile'
  <2> DEFINE f == io[i].file
  <2>1. p \in Outstanding(i) /\ IoOK(i)
    BY <1>1 DEF DiskRun, Outstanding, IInv
  <2>2. f \in NonCachedFiles /\ p \in DOMAIN Lbo[f]
    BY <2>1 DEF IoOK, RunsInFile
  <2>3. OwnerOf(Lbo[f][p]) = f
    BY <2>2, OwnerOfSector
  <2>4. disk' = disk \/ disk' = [disk EXCEPT ![Lbo[f][p]] = f]
    BY <1>1 DEF DiskRun, Written
  <2> QED
    BY <1>1, <2>3, <2>4 DEF EveryWriteInsideFile, DiskTyped
<1>2. ASSUME IInv, DiskTyped, [NextNonCached]_nonCachedVars, EveryWriteInsideFile,
             \A i \in Ios, p \in Positions : ~ HookTransfers(i, p)
      PROVE  EveryWriteInsideFile'
  <2>1. CASE disk' = disk
    BY <1>2, <2>1 DEF EveryWriteInsideFile
  <2>2. CASE \E i \in Ios, p \in Positions : DiskRun(i, p)
    BY <1>1, <1>2, <2>2, Zenon
  <2> QED
    BY <1>2, <2>1, <2>2, DiskStep, Zenon
<1> QED
  BY <1>2, TransferInvariant, DiskDomain, PTL DEF SpecNonCached

-----------------------------------------------------------------------------
(* Numbers and sequences *)

\* Quotient and remainder.
LEMMA Division ==
    ASSUME NEW a \in Nat, NEW d \in Nat \ {0}
    PROVE  a % d \in 0 .. d - 1 /\ a \div d \in Nat /\ a = d * (a \div d) + (a % d)
OBVIOUS

LEMMA DivisionUnique ==
    ASSUME NEW d \in Nat \ {0}, NEW q \in Int, NEW s \in Int,
           NEW r \in 0 .. d - 1, NEW t \in 0 .. d - 1, d * q + r = d * s + t
    PROVE  q = s /\ r = t
<1>1. ASSUME NEW x \in Int, NEW y \in Int, x < y PROVE d * x + d <= d * y
  <2>1. y >= x + 1
    BY <1>1
  <2>2. d * y >= d * (x + 1)
    BY <2>1
  <2> QED
    BY <2>2
<1>2. ~ q < s /\ ~ s < q
  <2>1. d * q \in Int /\ d * s \in Int
    OBVIOUS
  <2> QED
    BY <1>1, <2>1
<1> QED
  BY <1>2

LEMMA DivisionInside ==
    ASSUME NEW a \in Nat, NEW d \in Nat \ {0}, NEW k \in Nat, (a % d) + k < d
    PROVE  (a + k) \div d = a \div d /\ (a + k) % d = (a % d) + k
<1> DEFINE q == a \div d
           r == a % d
           s == (a + k) \div d
           t == (a + k) % d
<1>1. q \in Int /\ r \in 0 .. d - 1 /\ a = d * q + r
  BY Division
<1>2. s \in Int /\ t \in 0 .. d - 1 /\ a + k = d * s + t
  <2>1. a + k \in Nat
    OBVIOUS
  <2> QED
    BY <2>1, Division
<1>3. r + k < d
  OBVIOUS
<1> HIDE DEF q, r, s, t
<1>4. r + k \in 0 .. d - 1
  BY <1>1, <1>3
<1>5. d * q \in Int /\ d * s \in Int
  BY <1>1, <1>2
<1>6. d * q + (r + k) = d * s + t
  BY <1>1, <1>2, <1>5
<1>7. q = s /\ r + k = t
  BY <1>1, <1>2, <1>4, <1>6, DivisionUnique
<1> QED
  BY <1>7 DEF q, r, s, t

LEMMA LeastElement ==
    ASSUME NEW T \in SUBSET Nat, T # {}
    PROVE  \E m \in T : \A k \in T : ~ (k < m)
<1>1. PICK m \in T : \A k \in T : ~ (<<k, m>> \in OpToRel(<, Nat))
  BY WFMin, NatLessThanWellFounded
<1> QED
  BY <1>1 DEF OpToRel

\* A sequence cut in two.
LEMMA CutInTwo ==
    ASSUME NEW n \in Nat, NEW cut \in 0 .. n, NEW byte,
           NEW head, head = [i \in 1 .. cut |-> byte[i]],
           NEW tail, tail = [i \in 1 .. n - cut |-> byte[cut + i]],
           NEW both, both = [i \in 1 .. n |-> byte[i]]
    PROVE  head \o tail = both
<1> DEFINE Bytes == {byte[i] : i \in 1 .. n}
<1>1. head \in Seq(Bytes) /\ tail \in Seq(Bytes) /\ both \in Seq(Bytes)
  <2>1. \A i \in 1 .. cut : byte[i] \in Bytes
    OBVIOUS
  <2>2. \A i \in 1 .. n - cut : byte[cut + i] \in Bytes
    OBVIOUS
  <2>3. \A i \in 1 .. n : byte[i] \in Bytes
    OBVIOUS
  <2>4. cut \in Nat /\ n - cut \in Nat
    OBVIOUS
  <2> HIDE DEF Bytes
  <2>5. head \in [1 .. cut -> Bytes]
    BY <2>1
  <2>6. tail \in [1 .. n - cut -> Bytes]
    BY <2>2
  <2>7. both \in [1 .. n -> Bytes]
    BY <2>3
  <2> QED
    BY <2>4, <2>5, <2>6, <2>7
<1>2. /\ Len(head) = cut /\ Len(tail) = n - cut /\ Len(both) = n
  <2>1. cut \in Nat /\ n - cut \in Nat
    OBVIOUS
  <2> QED
    BY <2>1
<1> HIDE DEF Bytes
<1>3. /\ head \o tail \in Seq(Bytes) /\ Len(head \o tail) = n
      /\ \A i \in 1 .. n : (head \o tail)[i] = IF i <= cut THEN head[i] ELSE tail[i - cut]
  BY <1>1, <1>2, ConcatProperties
<1>4. ASSUME NEW i \in 1 .. n PROVE (head \o tail)[i] = both[i]
  <2>1. CASE i <= cut
    BY <1>3, <2>1
  <2>2. CASE ~ (i <= cut)
    <3>1. i - cut \in 1 .. n - cut /\ cut + (i - cut) = i
      BY <2>2
    <3> QED
      BY <1>3, <2>2, <3>1
  <2> QED
    BY <2>1, <2>2
<1> QED
  BY <1>1, <1>2, <1>3, <1>4, SeqEqual

-----------------------------------------------------------------------------
(* The keystream *)

\* The key of the byte at a position of the file.
KeyAt(bioSeed, pos) == KeyBlock(bioSeed, pos \div GridSize)[pos % GridSize]

\* What is left of the buffer at an offset, every byte with the key of its position.
RestByPosition(buffer, bioSeed, streamOffset, offset) ==
    [i \in 1 .. Len(buffer) - offset |->
        Xor(buffer[offset + i], KeyAt(bioSeed, streamOffset + offset + i - 1))]

\* One pass of the loop.
Pass(buffer, bioSeed, streamOffset, offset) ==
    LET absPos == streamOffset + offset
        key == KeyBlock(bioSeed, absPos \div GridSize)
        n == BytesToProcess(Len(buffer), offset, streamOffset)
    IN  [k \in 1 .. n |-> Xor(buffer[offset + k], key[(absPos % GridSize) + k - 1])]

\* A pass takes at least a byte, and none that is not there.
LEMMA PassLength ==
    ASSUME NEW length \in Nat, NEW offset \in 0 .. length - 1, NEW streamOffset \in Nat
    PROVE  /\ BytesToProcess(length, offset, streamOffset) \in 1 .. length - offset
           /\ ((streamOffset + offset) % GridSize)
                  + BytesToProcess(length, offset, streamOffset) <= GridSize
<1> DEFINE a == streamOffset + offset
           r == a % GridSize
<1>1. r \in 0 .. GridSize - 1
  <2>1. a \in Nat
    OBVIOUS
  <2> QED
    BY <2>1, GridSizeAssumption, Division
<1>2. BytesToProcess(length, offset, streamOffset) =
          IF GridSize - r > length - offset THEN length - offset ELSE GridSize - r
  BY DEF BytesToProcess
<1> HIDE DEF r
<1>3. GridSize \in Nat \ {0} /\ length - offset \in Nat \ {0}
  BY GridSizeAssumption
<1>4. BytesToProcess(length, offset, streamOffset) \in 1 .. length - offset
  BY <1>1, <1>2, <1>3
<1>5. r + BytesToProcess(length, offset, streamOffset) <= GridSize
  BY <1>1, <1>2, <1>3
<1> QED
  BY <1>4, <1>5 DEF r

\* Within a pass the key block is the one of the position.
LEMMA PassByPosition ==
    ASSUME NEW buffer, NEW bioSeed, Len(buffer) \in Nat,
           NEW offset \in 0 .. Len(buffer) - 1, NEW streamOffset \in Nat
    PROVE  Pass(buffer, bioSeed, streamOffset, offset) =
               [k \in 1 .. BytesToProcess(Len(buffer), offset, streamOffset) |->
                   Xor(buffer[offset + k], KeyAt(bioSeed, streamOffset + offset + k - 1))]
<1> DEFINE n == BytesToProcess(Len(buffer), offset, streamOffset)
           a == streamOffset + offset
<1>1. /\ n \in 1 .. Len(buffer) - offset /\ (a % GridSize) + n <= GridSize
      /\ a \in Nat /\ a % GridSize \in Nat
  <2>1. n \in 1 .. Len(buffer) - offset /\ (a % GridSize) + n <= GridSize
    BY PassLength
  <2>2. a \in Nat
    OBVIOUS
  <2> HIDE DEF a, n
  <2>3. a % GridSize \in Nat
    BY <2>2, GridSizeAssumption, Division
  <2> QED
    BY <2>1, <2>2, <2>3
<1>2. ASSUME NEW k \in 1 .. n
      PROVE  KeyBlock(bioSeed, a \div GridSize)[(a % GridSize) + k - 1] =
                 KeyAt(bioSeed, a + k - 1)
  <2> DEFINE j == k - 1
  <2>1. j \in Nat /\ (a % GridSize) + j < GridSize
    BY <1>1, <1>2, GridSizeAssumption
  <2>2. (a + j) \div GridSize = a \div GridSize /\ (a + j) % GridSize = (a % GridSize) + j
    <3> HIDE DEF j, a
    <3> QED
      BY <1>1, <2>1, DivisionInside, GridSizeAssumption
  <2>3. a + k - 1 = a + j /\ (a % GridSize) + k - 1 = (a % GridSize) + j
    BY <1>1, <1>2
  <2> HIDE DEF j
  <2>4. KeyAt(bioSeed, a + j) = KeyBlock(bioSeed, a \div GridSize)[(a % GridSize) + j]
    BY <2>2 DEF KeyAt
  <2> HIDE DEF a
  <2> QED
    BY <2>3, <2>4
<1>3. Pass(buffer, bioSeed, streamOffset, offset) =
        [k \in 1 .. n |-> Xor(buffer[offset + k],
                              KeyBlock(bioSeed, a \div GridSize)[(a % GridSize) + k - 1])]
  BY DEF Pass
<1> HIDE DEF n
<1> QED
  BY <1>2, <1>3 DEF n

\* A pass and the rest after it are the rest before it.
LEMMA PassAndRest ==
    ASSUME NEW buffer, NEW bioSeed, Len(buffer) \in Nat,
           NEW offset \in 0 .. Len(buffer) - 1, NEW streamOffset \in Nat
    PROVE  LET n == BytesToProcess(Len(buffer), offset, streamOffset) IN
           RestByPosition(buffer, bioSeed, streamOffset, offset) =
               Pass(buffer, bioSeed, streamOffset, offset)
                   \o RestByPosition(buffer, bioSeed, streamOffset, offset + n)
<1> DEFINE n == BytesToProcess(Len(buffer), offset, streamOffset)
           left == Len(buffer) - offset
           byte == [i \in 1 .. left |->
               Xor(buffer[offset + i], KeyAt(bioSeed, streamOffset + offset + i - 1))]
           head == Pass(buffer, bioSeed, streamOffset, offset)
           tail == RestByPosition(buffer, bioSeed, streamOffset, offset + n)
<1>1. n \in 1 .. left /\ left \in Nat
  <2>1. n \in 1 .. Len(buffer) - offset
    BY PassLength
  <2> HIDE DEF n
  <2> QED
    BY <2>1
<1>2. head = [k \in 1 .. n |->
          Xor(buffer[offset + k], KeyAt(bioSeed, streamOffset + offset + k - 1))]
  BY PassByPosition
<1>3. tail = [i \in 1 .. left - n |->
          Xor(buffer[offset + (n + i)],
              KeyAt(bioSeed, streamOffset + offset + (n + i) - 1))]
  <2>1. Len(buffer) - (offset + n) = left - n
    BY <1>1
  <2>2. ASSUME NEW i \in 1 .. left - n
        PROVE  /\ (offset + n) + i = offset + (n + i)
               /\ streamOffset + (offset + n) + i - 1 = streamOffset + offset + (n + i) - 1
    BY <1>1, <2>2
  <2> HIDE DEF n, left
  <2> QED
    BY <2>1, <2>2 DEF RestByPosition
<1>4. RestByPosition(buffer, bioSeed, streamOffset, offset) = byte
  BY DEF RestByPosition
<1> HIDE DEF n, left, head, tail
<1>5. head = [i \in 1 .. n |-> byte[i]]
  <2>1. \A i \in 1 .. n : i \in 1 .. left
    BY <1>1
  <2> QED
    BY <1>2, <2>1
<1>6. tail = [i \in 1 .. left - n |-> byte[n + i]]
  <2>1. \A i \in 1 .. left - n : n + i \in 1 .. left
    BY <1>1
  <2> QED
    BY <1>3, <2>1
<1>7. byte = [i \in 1 .. left |-> byte[i]] /\ n \in 0 .. left
  BY <1>1
<1> HIDE DEF byte
<1>8. head \o tail = byte
  BY <1>1, <1>5, <1>6, <1>7, CutInTwo
<1> QED
  BY <1>4, <1>8 DEF head, tail, n

\* The loop of FatMycelProcessBuffer, one pass after the other from an offset.
Loop(buffer, bioSeed, streamOffset, rest) ==
    [offset \in 0 .. Len(buffer) |->
        IF offset = Len(buffer) THEN <<>>
        ELSE Pass(buffer, bioSeed, streamOffset, offset)
                 \o rest[offset + BytesToProcess(Len(buffer), offset, streamOffset)]]

LEMMA ProcessBufferLoops ==
    ASSUME NEW buffer, NEW bioSeed, NEW streamOffset
    PROVE  ProcessBuffer(buffer, bioSeed, streamOffset) =
               (CHOOSE rest : rest = Loop(buffer, bioSeed, streamOffset, rest))[0]
BY DEF ProcessBuffer, Loop, Pass

\* The one function that goes through the buffer as the loop does gives every byte the
\* key of its position: a buffer of whatever length, by the least counterexample.
THEOREM KeystreamByPosition ==
    ASSUME NEW Data, NEW buffer \in Seq(Data), NEW bioSeed, NEW streamOffset \in Nat
    PROVE  ProcessBuffer(buffer, bioSeed, streamOffset) =
               ByPosition(buffer, bioSeed, streamOffset)
<1> DEFINE length == Len(buffer)
           closed == [offset \in 0 .. length |->
                          RestByPosition(buffer, bioSeed, streamOffset, offset)]
           step(offset) == BytesToProcess(length, offset, streamOffset)
           rest == CHOOSE r : r = Loop(buffer, bioSeed, streamOffset, r)
<1>1. length \in Nat
  OBVIOUS
<1>2. closed[length] = <<>>
  <2>1. RestByPosition(buffer, bioSeed, streamOffset, length) = <<>>
    <3>1. length - length = 0
      BY <1>1
    <3>2. 1 .. 0 = {}
      OBVIOUS
    <3> QED
      BY <3>1, <3>2 DEF RestByPosition
  <2> QED
    BY <1>1, <2>1
<1>3. ASSUME NEW offset \in 0 .. length, offset # length
      PROVE  /\ offset \in 0 .. length - 1
             /\ offset + step(offset) \in 0 .. length
             /\ length - (offset + step(offset)) < length - offset
             /\ closed[offset] = Pass(buffer, bioSeed, streamOffset, offset)
                                     \o closed[offset + step(offset)]
  <2>1. offset \in 0 .. length - 1
    BY <1>1, <1>3
  <2>2. step(offset) \in 1 .. length - offset
    BY <1>1, <2>1, PassLength
  <2>3. offset + step(offset) \in 0 .. length
    BY <1>1, <2>1, <2>2
  <2>4. closed[offset] = Pass(buffer, bioSeed, streamOffset, offset)
            \o RestByPosition(buffer, bioSeed, streamOffset, offset + step(offset))
    BY <1>1, <2>1, PassAndRest
  <2> HIDE DEF length, step
  <2> QED
    BY <1>1, <2>1, <2>2, <2>3, <2>4
<1> HIDE DEF step
<1>4. closed = Loop(buffer, bioSeed, streamOffset, closed)
  <2> DEFINE looped == Loop(buffer, bioSeed, streamOffset, closed)
  <2>1. ASSUME NEW offset \in 0 .. length PROVE closed[offset] = looped[offset]
    <3>1. CASE offset = length
      BY <1>2, <3>1 DEF Loop
    <3>2. CASE offset # length
      <4> HIDE DEF closed
      <4> QED
        BY <1>3, <3>2 DEF Loop, step
    <3> QED
      BY <3>1, <3>2
  <2> QED
    BY <2>1 DEF Loop
<1>5. rest = Loop(buffer, bioSeed, streamOffset, rest)
  BY <1>4
<1> HIDE DEF closed, rest, length
<1>6. /\ rest[length] = <<>>
      /\ \A offset \in 0 .. length : offset # length =>
             rest[offset] = Pass(buffer, bioSeed, streamOffset, offset)
                                \o rest[offset + step(offset)]
  BY <1>1, <1>5 DEF Loop, length, step
<1>7. \A offset \in 0 .. length : rest[offset] = closed[offset]
  <2> DEFINE Wrong == {k \in 0 .. length : rest[length - k] # closed[length - k]}
  <2>1. SUFFICES Wrong = {}
    <3>1. ASSUME NEW offset \in 0 .. length
          PROVE  length - offset \in 0 .. length /\ length - (length - offset) = offset
      BY <1>1
    <3> QED
      BY <2>1, <3>1
  <2>2. SUFFICES ASSUME Wrong # {} PROVE FALSE
    OBVIOUS
  <2>3. PICK m \in Wrong : \A k \in Wrong : ~ (k < m)
    <3>1. Wrong \in SUBSET Nat
      BY <1>1
    <3> HIDE DEF Wrong
    <3> QED
      BY <2>2, <3>1, LeastElement
  <2> DEFINE offset == length - m
  <2>4. m \in 0 .. length /\ offset \in 0 .. length /\ rest[offset] # closed[offset]
    BY <1>1, <2>3
  <2>5. offset # length
    BY <1>2, <1>6, <2>4
  <2> DEFINE next == offset + step(offset)
  <2>6. next \in 0 .. length /\ length - next < length - offset
    BY <1>3, <2>4, <2>5
  <2>7. rest[next] # closed[next]
    <3>1. rest[offset] = Pass(buffer, bioSeed, streamOffset, offset) \o rest[next]
      BY <1>6, <2>4, <2>5
    <3>2. closed[offset] = Pass(buffer, bioSeed, streamOffset, offset) \o closed[next]
      BY <1>3, <2>4, <2>5
    <3> HIDE DEF next, offset
    <3> QED
      BY <2>4, <3>1, <3>2
  <2> HIDE DEF next
  <2>8. length - next \in Wrong /\ length - next < m
    BY <1>1, <2>4, <2>6, <2>7
  <2> QED
    BY <2>3, <2>8
<1>8. ProcessBuffer(buffer, bioSeed, streamOffset) = closed[0]
  BY <1>1, <1>7, ProcessBufferLoops DEF rest
<1>9. closed[0] = ByPosition(buffer, bioSeed, streamOffset)
  <2>1. closed[0] = RestByPosition(buffer, bioSeed, streamOffset, 0)
    BY <1>1 DEF closed
  <2>2. /\ Len(buffer) - 0 = Len(buffer)
        /\ \A i \in 1 .. Len(buffer) :
               0 + i = i /\ streamOffset + 0 + i - 1 = streamOffset + i - 1
    OBVIOUS
  <2> QED
    BY <2>1, <2>2 DEF RestByPosition, ByPosition, KeyAt
<1> QED
  BY <1>8, <1>9

LEMMA XorTwice == ASSUME NEW byte, NEW key PROVE Xor(Xor(byte, key), key) = byte
BY DEF Xor

\* FatMycelProcessBuffer reads and writes the same file however the transfers are cut, for
\* every size of the grid, every buffer, seed and position.
THEOREM CutsNeverMatter ==
    ASSUME NEW Data, NEW buffer \in Seq(Data), NEW bioSeed, NEW streamOffset \in Nat
    PROVE  CutsDoNotMatter(buffer, bioSeed, streamOffset)
<1> DEFINE length == Len(buffer)
           key(i) == KeyAt(bioSeed, streamOffset + i - 1)
           whole == [i \in 1 .. length |-> Xor(buffer[i], key(i))]
<1>1. /\ length \in Nat /\ \A i \in 1 .. length : buffer[i] \in Data
      /\ buffer = [i \in 1 .. length |-> buffer[i]]
  OBVIOUS
<1>2. ProcessBuffer(buffer, bioSeed, streamOffset) = whole
  BY KeystreamByPosition DEF ByPosition, KeyAt
<1>3. ASSUME NEW cut \in 0 .. length
      PROVE  whole = ProcessBuffer(SubSeq(buffer, 1, cut), bioSeed, streamOffset)
                        \o ProcessBuffer(SubSeq(buffer, cut + 1, length), bioSeed,
                                         streamOffset + cut)
  <2> DEFINE left == SubSeq(buffer, 1, cut)
             right == SubSeq(buffer, cut + 1, length)
             first == ProcessBuffer(left, bioSeed, streamOffset)
             second == ProcessBuffer(right, bioSeed, streamOffset + cut)
  <2>1. /\ left \in Seq(Data) /\ Len(left) = cut
        /\ \A i \in 1 .. cut : left[i] = buffer[i]
    BY <1>1, SubSeqProperties
  <2>2. /\ right \in Seq(Data) /\ Len(right) = length - cut
        /\ \A i \in 1 .. length - cut : right[i] = buffer[cut + i]
    <3>1. \A i \in cut + 1 .. length : buffer[i] \in Data
      BY <1>1
    <3>2. /\ right \in Seq(Data)
          /\ Len(right) = IF cut + 1 <= length THEN length - (cut + 1) + 1 ELSE 0
          /\ \A i \in 1 .. length - (cut + 1) + 1 : right[i] = buffer[(cut + 1) + i - 1]
      BY <1>1, <3>1, SubSeqProperties
    <3>3. \A i \in 1 .. length - cut : (cut + 1) + i - 1 = cut + i
      OBVIOUS
    <3>4. /\ length - (cut + 1) + 1 = length - cut
          /\ (IF cut + 1 <= length THEN length - (cut + 1) + 1 ELSE 0) = length - cut
      BY <1>1
    <3>5. Len(right) = length - cut
      BY <3>2, <3>4
    <3>6. \A i \in 1 .. length - cut : right[i] = buffer[(cut + 1) + i - 1]
      BY <3>2, <3>4
    <3> HIDE DEF right, length
    <3> QED
      BY <3>2, <3>3, <3>5, <3>6
  <2> HIDE DEF left, right
  <2>3. first = [i \in 1 .. cut |-> whole[i]]
    <3>1. first = ByPosition(left, bioSeed, streamOffset)
      BY <2>1, KeystreamByPosition
    <3>2. \A i \in 1 .. cut : whole[i] = Xor(left[i], key(i))
      BY <2>1
    <3> HIDE DEF first, whole
    <3> QED
      BY <2>1, <3>1, <3>2 DEF ByPosition, KeyAt
  <2>4. second = [i \in 1 .. length - cut |-> whole[cut + i]]
    <3>1. second = ByPosition(right, bioSeed, streamOffset + cut)
      <4>1. streamOffset + cut \in Nat
        BY <1>1
      <4> QED
        BY <2>2, <4>1, KeystreamByPosition
    <3>2. ASSUME NEW i \in 1 .. length - cut
          PROVE  whole[cut + i] = Xor(right[i], KeyAt(bioSeed, streamOffset + cut + i - 1))
      <4>1. /\ cut + i \in 1 .. length
            /\ streamOffset + (cut + i) - 1 = streamOffset + cut + i - 1
        BY <1>1, <3>2
      <4>2. right[i] = buffer[cut + i]
        BY <2>2
      <4> HIDE DEF length
      <4> QED
        BY <4>1, <4>2
    <3> HIDE DEF second, whole, length
    <3> QED
      BY <2>2, <3>1, <3>2 DEF ByPosition, KeyAt
  <2>5. whole = [i \in 1 .. length |-> whole[i]]
    OBVIOUS
  <2> HIDE DEF first, second, whole, length
  <2>6. first \o second = whole
    BY <1>1, <2>3, <2>4, <2>5, CutInTwo
  <2> QED
    BY <2>6 DEF first, second, left, right, length
<1>4. ProcessBuffer(whole, bioSeed, streamOffset) = buffer
  <2> DEFINE Bytes == {whole[i] : i \in 1 .. length}
  <2>1. \A i \in 1 .. length : whole[i] = Xor(buffer[i], key(i)) /\ whole[i] \in Bytes
    OBVIOUS
  <2>2. whole \in Seq(Bytes) /\ Len(whole) = length
    <3> HIDE DEF Bytes, length
    <3>1. whole \in [1 .. length -> Bytes]
      BY <2>1
    <3> QED
      BY <1>1, <3>1
  <2> HIDE DEF whole, Bytes
  <2>3. ProcessBuffer(whole, bioSeed, streamOffset) = ByPosition(whole, bioSeed, streamOffset)
    BY <2>2, KeystreamByPosition
  <2>4. ByPosition(whole, bioSeed, streamOffset) =
            [i \in 1 .. length |-> Xor(whole[i], key(i))]
    BY <2>2 DEF ByPosition, KeyAt
  <2>5. \A i \in 1 .. length : Xor(whole[i], key(i)) = buffer[i]
    BY <2>1, XorTwice
  <2> HIDE DEF length, key
  <2> QED
    BY <1>1, <2>3, <2>4, <2>5
<1>5. ProcessBuffer(buffer, bioSeed, streamOffset) =
          ByPosition(buffer, bioSeed, streamOffset)
  BY KeystreamByPosition
<1> HIDE DEF whole
<1> QED
  BY <1>2, <1>3, <1>4, <1>5 DEF CutsDoNotMatter
=============================================================================
