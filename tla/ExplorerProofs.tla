--------------------------- MODULE ExplorerProofs ---------------------------
(***************************************************************************)
(* Proofs about the Explorer as a process (MycelExplorer): the window is   *)
(* busy exactly during a pass, nothing is renamed meanwhile, and what      *)
(* TransformFile guarantees to its threads it guarantees here too.         *)
(***************************************************************************)
EXTENDS MycelExplorer, TransformFileProofs, FiniteSetTheorems

-----------------------------------------------------------------------------
(* The inductive invariant of MycelExplorer *)

\* What the window's thread holds; it toggles what is selected.
WindowOK ==
    /\ selected \in Names \cup {NoName}
    /\ mode \in Modes /\ then \in Modes
    /\ todo \subseteq Names
    /\ mode = "toggle" \/ then = "toggle" => selected \in Names

PassType ==
    /\ isBusy \in BOOLEAN
    /\ queue \in Seq({"progress", "done"}) /\ Len(queue) <= QueueLimit
    /\ worker \in [state : {"none", "next", "file"}, left : SUBSET Names]

\* Only the message that clears isBusy is left of a pass that is over, and it comes last.
PassOK ==
    /\ worker.state # "none" => isBusy
    /\ \A i \in 1 .. Len(queue) :
          queue[i] = "done" => isBusy /\ worker.state = "none" /\ i = Len(queue)

ExplorerInv == IInv /\ WindowOK /\ PassType /\ PassOK

\* What a pass has still to report fits in the queue, so that no report is lost.
ReportsFit ==
    /\ isBusy => worker.state # "none" \/ \E i \in 1 .. Len(queue) : queue[i] = "done"
    /\ worker.state # "none" => Len(queue) + Cardinality(worker.left) < QueueLimit

-----------------------------------------------------------------------------
(* What the two threads do to the volume *)

\* What they do is what the threads of TransformFile do, on names of the volume.
LEMMA VolumeSteps ==
    ASSUME ExplorerInv, NextExplorer, ~ CloseWindow
    PROVE  [Next]_vars
<1>1. UI \in Actors /\ Worker \in Actors
  BY ThreadAssumption
<1>2. Folder \subseteq Names
  BY WindowAssumption
<1>3. \A a \in Actors : InTransform(a) => Transform(a)
  BY DEF InTransform, Transform
<1>4. ASSUME NEW a \in Actors, Explorer(a) PROVE [Next]_vars
  BY <1>4 DEF Next
<1>5. CASE User
  <2>1. ASSUME NEW n \in Names, Select(n) PROVE [Next]_vars
    BY <2>1 DEF Select
  <2>2. CASE Refresh \/ ClickTransform \/ StartPass
    BY <2>2 DEF Refresh, ClickTransform, StartPass
  <2>3. CASE ClickDelete
    <3>1. DeleteSidecar(UI, selected) /\ selected \in Names
      BY <2>3 DEF ClickDelete, ExplorerInv, WindowOK
    <3> QED
      BY <1>1, <1>4, <3>1 DEF Explorer
  <2>4. ASSUME NEW m \in Names, NEW n \in Names, RenameFile(m, n) PROVE [Next]_vars
    <3>1. Rename(UI, m, n)
      BY <2>4 DEF RenameFile
    <3> QED
      BY <1>1, <1>4, <3>1 DEF Explorer
  <2> QED
    BY <1>5, <2>1, <2>2, <2>3, <2>4 DEF User
<1>6. CASE WindowThread
  <2>1. ASSUME NEW n \in Names, AuditNext(n) PROVE [Next]_vars
    <3>1. AuditOpen(UI, n) \/ UNCHANGED vars
      BY <2>1 DEF AuditNext
    <3> QED
      BY <1>1, <1>4, <3>1 DEF Explorer
  <2>2. CASE AuditReturns
    <3>1. AuditClose(UI)
      BY <2>2 DEF AuditReturns
    <3> QED
      BY <1>1, <1>4, <3>1 DEF Explorer
  <2>3. CASE AuditsDone
    <3>1. CASE then = "toggle"
      <4>1. selected \in Names
        BY <3>1 DEF ExplorerInv, WindowOK
      <4>2. Open(UI, selected) \/ OpenFails(UI, selected)
        BY <2>3, <3>1 DEF AuditsDone
      <4>3. Transform(UI)
        BY <4>1, <4>2 DEF Transform
      <4> QED
        BY <1>1, <1>4, <4>3 DEF Explorer
    <3>2. CASE then # "toggle"
      BY <2>3, <3>2 DEF AuditsDone
    <3> QED
      BY <3>1, <3>2
  <2>4. CASE ToggleStep
    <3>1. Transform(UI)
      BY <1>1, <1>3, <2>4 DEF ToggleStep
    <3> QED
      BY <1>1, <1>4, <3>1 DEF Explorer
  <2>5. CASE ToggleReturns \/ Pump
    BY <2>5 DEF ToggleReturns, Pump
  <2>6. CASE DeleteReturns
    <3>1. DeleteFile(UI)
      BY <2>6 DEF DeleteReturns
    <3> QED
      BY <1>1, <1>4, <3>1 DEF Explorer
  <2> QED
    BY <1>6, <2>1, <2>2, <2>3, <2>4, <2>5, <2>6 DEF WindowThread
<1>7. CASE WorkerThread
  <2>1. ASSUME NEW n \in Names, WorkerNext(n) PROVE [Next]_vars
    <3>1. Open(Worker, n) \/ OpenFails(Worker, n)
      BY <2>1 DEF WorkerNext
    <3>2. Transform(Worker)
      BY <3>1 DEF Transform
    <3> QED
      BY <1>1, <1>4, <3>2 DEF Explorer
  <2>2. CASE WorkerStep
    <3>1. Transform(Worker)
      BY <1>1, <1>3, <2>2 DEF WorkerStep
    <3> QED
      BY <1>1, <1>4, <3>1 DEF Explorer
  <2>3. CASE WorkerReturns \/ WorkerEnds
    BY <2>3 DEF WorkerReturns, WorkerEnds
  <2> QED
    BY <1>7, <2>1, <2>2, <2>3 DEF WorkerThread
<1>8. CASE Dismiss
  BY <1>8 DEF Dismiss
<1> QED
  BY <1>5, <1>6, <1>7, <1>8 DEF NextExplorer

\* The process ends in the middle of whatever its threads do.
LEMMA CloseWindowIInv ==
    ASSUME IInv, CloseWindow
    PROVE  IInv'
<1>1. /\ op' = [a \in Actors |-> Idle]
      /\ result' = [a \in Actors |-> "none"]
      /\ edits' \in 0..MaxEdits
      /\ UNCHANGED <<disk, issued, faults>>
  BY BoundStep DEF CloseWindow
<1>2. VolumeTypeOK' /\ TagsSound'
  BY <1>1 DEF IInv, TypeOK, VolumeTypeOK, TagsSound, Sound, disk
<1>3. \A a \in Actors : op'[a] = Idle /\ OpSound(op[a])' /\ op'[a].pc \notin Transforming
  BY <1>1, IdleType DEF OpSound, HandleHolds, InPlace, Checked, Sound, Transforming
<1>4. TypeOK'
  BY <1>1, <1>2, IdleType DEF TypeOK
<1> QED
  BY <1>2, <1>3, <1>4 DEF IInv, Exclusive

LEMMA StepExplorerIInv ==
    ASSUME ExplorerInv, [NextExplorer]_allVars
    PROVE  IInv'
<1>1. IInv
  BY DEF ExplorerInv
<1>2. CASE CloseWindow
  BY <1>1, <1>2, CloseWindowIInv
<1>3. CASE NextExplorer /\ ~ CloseWindow
  BY <1>1, <1>3, VolumeSteps, StepIInv
<1>4. CASE UNCHANGED allVars
  BY <1>1, <1>4, StutterStep DEF allVars
<1> QED
  BY <1>2, <1>3, <1>4

-----------------------------------------------------------------------------
(* What the window's thread holds *)

LEMMA PopulateStep ==
    ASSUME NEW S \in SUBSET Names, Populate(S)
    PROVE  WindowOK'
BY DEF Populate, WindowOK, Modes

LEMMA StepWindowOK ==
    ASSUME ExplorerInv, [NextExplorer]_allVars
    PROVE  WindowOK'
<1> USE DEF WindowOK
<1>1. WindowOK /\ Folder \subseteq Names
  BY WindowAssumption DEF ExplorerInv
<1>2. \A S \in SUBSET Names : Existing(S) \in SUBSET Names
  BY DEF Existing
<1>3. CASE UNCHANGED <<selected, mode, todo, then>>
  BY <1>1, <1>3
<1>4. CASE User
  <2>1. ASSUME NEW n \in Names, Select(n) PROVE WindowOK'
    BY <2>1 DEF Select, Modes
  <2>2. CASE Refresh \/ CloseWindow
    BY <1>1, <1>2, <2>2, PopulateStep DEF Refresh, CloseWindow
  <2>3. CASE ClickTransform
    BY <1>1, <2>3 DEF ClickTransform, Modes
  <2>4. CASE ClickDelete
    BY <1>1, <2>4 DEF ClickDelete, Modes
  <2>5. ASSUME NEW m \in Names, NEW n \in Names, RenameFile(m, n) PROVE WindowOK'
    <3>1. (Existing(Folder) \ {m}) \cup ({n} \cap Folder) \in SUBSET Names
      BY <1>1, <1>2
    <3> QED
      BY <2>5, <3>1, PopulateStep DEF RenameFile
  <2>6. CASE StartPass
    BY <1>3, <2>6 DEF StartPass
  <2> QED
    BY <1>4, <2>1, <2>2, <2>3, <2>4, <2>5, <2>6 DEF User
<1>5. CASE WindowThread
  <2>1. ASSUME NEW n \in Names, AuditNext(n) PROVE WindowOK'
    BY <1>1, <2>1 DEF AuditNext
  <2>2. CASE AuditReturns \/ ToggleStep
    BY <1>3, <2>2 DEF AuditReturns, ToggleStep, uiVars
  <2>3. CASE AuditsDone
    BY <1>1, <2>3 DEF AuditsDone
  <2>4. CASE ToggleReturns
    BY <1>1, <2>4 DEF ToggleReturns, Modes
  <2>5. CASE DeleteReturns
    <3>1. Existing(Folder) \ {selected} \in SUBSET Names
      BY <1>1, <1>2
    <3>2. CASE Populate(Existing(Folder) \ {selected})
      BY <3>1, <3>2, PopulateStep
    <3>3. CASE mode' = "message" /\ then' = "message" /\ UNCHANGED <<selected, todo>>
      BY <1>1, <3>3 DEF Modes
    <3> QED
      BY <2>5, <3>2, <3>3 DEF DeleteReturns
  <2>6. CASE Pump
    BY <1>1, <2>6 DEF Pump, Modes
  <2> QED
    BY <1>5, <2>1, <2>2, <2>3, <2>4, <2>5, <2>6 DEF WindowThread
<1>6. CASE WorkerThread
  BY <1>3, <1>6 DEF WorkerThread, WorkerNext, WorkerStep, WorkerReturns, WorkerEnds, uiVars
<1>7. CASE Dismiss
  BY <1>1, <1>2, <1>7, PopulateStep DEF Dismiss, Modes
<1>8. CASE UNCHANGED allVars
  BY <1>3, <1>8 DEF allVars, uiVars
<1> QED
  BY <1>4, <1>5, <1>6, <1>7, <1>8 DEF NextExplorer

-----------------------------------------------------------------------------
(* The pass and its reports *)

Reports == {"progress", "done"}

LEMMA PostFacts ==
    ASSUME queue \in Seq(Reports), Len(queue) <= QueueLimit, NEW m \in Reports, Post(m)
    PROVE  /\ queue' \in Seq(Reports) /\ Len(queue') <= QueueLimit
           /\ Len(queue') \in {Len(queue), Len(queue) + 1}
           /\ \A i \in 1 .. Len(queue') :
                 \/ i \in 1 .. Len(queue) /\ queue'[i] = queue[i]
                 \/ i = Len(queue') /\ queue'[i] = m
           /\ Len(queue) < QueueLimit => /\ Len(queue') = Len(queue) + 1
                                         /\ queue'[Len(queue) + 1] = m
<1>1. QueueLimit \in Nat /\ Len(queue) \in Nat
  BY WindowAssumption
<1>2. CASE Len(queue) < QueueLimit
  <2>1. queue' = Append(queue, m)
    BY <1>2 DEF Post
  <2>2. /\ queue' \in Seq(Reports) /\ Len(queue') = Len(queue) + 1
        /\ \A i \in 1 .. Len(queue) : queue'[i] = queue[i]
        /\ queue'[Len(queue) + 1] = m
    BY <2>1
  <2> QED
    BY <1>1, <1>2, <2>2
<1>3. CASE ~ (Len(queue) < QueueLimit)
  BY <1>1, <1>3 DEF Post
<1> QED
  BY <1>2, <1>3

LEMMA PumpFacts ==
    ASSUME queue \in Seq(Reports), queue # <<>>, queue' = Tail(queue)
    PROVE  /\ queue' \in Seq(Reports) /\ Len(queue') = Len(queue) - 1 /\ Len(queue) > 0
           /\ Head(queue) = queue[1] /\ 1 \in 1 .. Len(queue)
           /\ \A i \in 1 .. Len(queue') :
                 i + 1 \in 1 .. Len(queue) /\ queue'[i] = queue[i + 1]
OBVIOUS

LEMMA StepPass ==
    ASSUME ExplorerInv, [NextExplorer]_allVars
    PROVE  PassType' /\ PassOK'
<1>1. PassType /\ PassOK /\ Folder \subseteq Names
  BY WindowAssumption DEF ExplorerInv
<1>2. CASE UNCHANGED <<isBusy, queue, worker>>
  BY <1>1, <1>2 DEF PassType, PassOK
<1>3. CASE StartPass
  <2>1. /\ queue' = queue /\ Len(queue) = 0 /\ ~ isBusy /\ isBusy' = TRUE
        /\ \/ \E names \in {Folder, Names} :
                 worker' = [state |-> "next", left |-> Existing(names)]
           \/ worker' = worker
    BY <1>3 DEF StartPass, Input
  <2>2. PassType'
    BY <1>1, <2>1 DEF PassType, Existing
  <2> QED
    BY <2>1, <2>2 DEF PassOK
<1>4. CASE CloseWindow
  <2>1. queue' = queue /\ Len(queue) = 0 /\ isBusy' = FALSE /\ worker' = NoWorker
    BY <1>4 DEF CloseWindow, Input
  <2>2. PassType'
    BY <1>1, <2>1 DEF PassType, NoWorker
  <2> QED
    BY <2>1, <2>2 DEF PassOK, NoWorker
<1>5. CASE Pump
  <2>1. /\ queue # <<>> /\ queue' = Tail(queue) /\ worker' = worker
        /\ isBusy' = (isBusy /\ Head(queue) # "done")
    BY <1>1, <1>5 DEF Pump, PassType
  <2>2. queue \in Seq(Reports)
    BY <1>1 DEF PassType, Reports
  <2>3. /\ queue' \in Seq(Reports) /\ Len(queue') = Len(queue) - 1 /\ Len(queue) > 0
        /\ Head(queue) = queue[1] /\ 1 \in 1 .. Len(queue)
        /\ \A i \in 1 .. Len(queue') : i + 1 \in 1 .. Len(queue) /\ queue'[i] = queue[i + 1]
    BY <2>1, <2>2, PumpFacts
  <2>4. PassType'
    BY <1>1, <2>1, <2>3, WindowAssumption DEF PassType, Reports
  <2>5. PassOK'
    <3>1. worker.state # "none" => Head(queue) # "done"
      BY <1>1, <2>3 DEF PassOK
    <3>2. ASSUME NEW i \in 1 .. Len(queue'), queue'[i] = "done"
          PROVE  isBusy' /\ worker.state = "none" /\ i = Len(queue')
      <4>1. /\ i + 1 \in 1 .. Len(queue) /\ queue[i + 1] = "done"
        BY <2>3, <3>2
      <4>2. isBusy /\ worker.state = "none" /\ i + 1 = Len(queue)
        BY <1>1, <4>1 DEF PassOK
      <4>3. Head(queue) # "done"
        <5>1. 1 # Len(queue)
          BY <4>1, <4>2
        <5> QED
          BY <1>1, <2>3, <5>1 DEF PassOK
      <4>4. Len(queue) \in Nat /\ Len(queue') = Len(queue) - 1
        BY <2>2, <2>3
      <4>5. i = Len(queue')
        BY <4>2, <4>4
      <4>6. isBusy'
        BY <2>1, <4>2, <4>3
      <4> QED
        BY <4>2, <4>5, <4>6
    <3> QED
      BY <1>1, <2>1, <3>1, <3>2 DEF PassOK
  <2> QED
    BY <2>4, <2>5
<1>6. ASSUME NEW n \in Names, WorkerNext(n) PROVE PassType' /\ PassOK'
  <2>1. /\ worker.state = "next" /\ Post("progress") /\ isBusy' = isBusy
        /\ worker' = [state |-> "file", left |-> worker.left \ {n}]
    BY <1>6 DEF WorkerNext
  <2>2. queue \in Seq(Reports) /\ Len(queue) <= QueueLimit /\ "progress" \in Reports
    BY <1>1 DEF PassType, Reports
  <2>3. /\ queue' \in Seq(Reports) /\ Len(queue') <= QueueLimit
        /\ \A i \in 1 .. Len(queue') :
              \/ i \in 1 .. Len(queue) /\ queue'[i] = queue[i]
              \/ i = Len(queue') /\ queue'[i] = "progress"
    BY <2>1, <2>2, PostFacts
  <2>4. \A i \in 1 .. Len(queue') : queue'[i] # "done"
    BY <1>1, <2>1, <2>3 DEF PassOK
  <2> QED
    BY <1>1, <2>1, <2>3, <2>4 DEF PassType, PassOK, Reports
<1>7. CASE WorkerReturns
  BY <1>1, <1>7 DEF WorkerReturns, PassType, PassOK
<1>8. CASE WorkerEnds
  <2>1. /\ worker.state = "next" /\ Post("done") /\ isBusy' = isBusy
        /\ worker' = NoWorker
    BY <1>8 DEF WorkerEnds
  <2>2. queue \in Seq(Reports) /\ Len(queue) <= QueueLimit /\ "done" \in Reports
    BY <1>1 DEF PassType, Reports
  <2>3. /\ queue' \in Seq(Reports) /\ Len(queue') <= QueueLimit
        /\ \A i \in 1 .. Len(queue') :
              \/ i \in 1 .. Len(queue) /\ queue'[i] = queue[i]
              \/ i = Len(queue') /\ queue'[i] = "done"
    BY <2>1, <2>2, PostFacts
  <2>4. \A i \in 1 .. Len(queue') : queue'[i] = "done" => i = Len(queue')
    BY <1>1, <2>1, <2>3 DEF PassOK
  <2> QED
    BY <1>1, <2>1, <2>3, <2>4 DEF PassType, PassOK, Reports, NoWorker
<1>9. CASE NextExplorer /\ ~ UNCHANGED <<isBusy, queue, worker>>
  <2>1. CASE User
    BY <1>3, <1>4, <1>9, <2>1 DEF User, Select, Refresh, ClickTransform, ClickDelete,
       RenameFile
  <2>2. CASE WindowThread
    BY <1>5, <1>9, <2>2 DEF WindowThread, AuditNext, AuditReturns, AuditsDone, ToggleStep,
       ToggleReturns, DeleteReturns, uiVars
  <2>3. CASE WorkerThread
    BY <1>6, <1>7, <1>8, <1>9, <2>3 DEF WorkerThread, WorkerStep, uiVars
  <2>4. CASE Dismiss
    BY <1>9, <2>4 DEF Dismiss
  <2> QED
    BY <1>9, <2>1, <2>2, <2>3, <2>4 DEF NextExplorer
<1>10. CASE UNCHANGED allVars
  BY <1>2, <1>10 DEF allVars, uiVars
<1> QED
  BY <1>2, <1>9, <1>10

\* Each message of a pass stands for a file that is not left any more.
LEMMA StepReportsFit ==
    ASSUME ExplorerInv, ReportsFit, [NextExplorer]_allVars,
           ~ ThreadMayFail, IsFiniteSet(Names), Cardinality(Names) < QueueLimit
    PROVE  ReportsFit'
<1>1. /\ PassType /\ PassOK /\ queue \in Seq(Reports) /\ Len(queue) \in Nat
      /\ Folder \subseteq Names /\ QueueLimit \in Nat
  BY WindowAssumption DEF ExplorerInv, PassType, Reports
<1>2. ASSUME NEW S \in SUBSET Names
      PROVE  /\ IsFiniteSet(S) /\ Cardinality(S) \in Nat /\ Cardinality(S) < QueueLimit
             /\ \A n \in S : Cardinality(S \ {n}) = Cardinality(S) - 1
  <2>1. IsFiniteSet(S) /\ Cardinality(S) <= Cardinality(Names)
    BY FS_Subset
  <2>2. Cardinality(S) \in Nat /\ Cardinality(Names) \in Nat
    BY <2>1, FS_CardinalityType
  <2>3. \A n \in S : Cardinality(S \ {n}) = Cardinality(S) - 1
    BY <2>1, FS_RemoveElement
  <2> QED
    BY <1>1, <2>1, <2>2, <2>3
<1>3. CASE UNCHANGED <<isBusy, queue, worker>>
  BY <1>3 DEF ReportsFit
<1>4. CASE StartPass
  <2>1. /\ queue' = queue /\ Len(queue) = 0
        /\ \E names \in {Folder, Names} :
              worker' = [state |-> "next", left |-> Existing(names)]
    BY <1>4 DEF StartPass, Input
  <2>2. worker'.state # "none" /\ worker'.left \in SUBSET Names
    BY <1>1, <2>1 DEF Existing
  <2>3. Cardinality(worker'.left) \in Nat /\ Cardinality(worker'.left) < QueueLimit
    BY <1>2, <2>2
  <2> QED
    BY <2>1, <2>2, <2>3 DEF ReportsFit
<1>5. CASE CloseWindow
  BY <1>5 DEF CloseWindow, NoWorker, ReportsFit
<1>6. CASE Pump
  <2>1. /\ queue # <<>> /\ queue' = Tail(queue) /\ worker' = worker
        /\ isBusy' => isBusy /\ Head(queue) # "done"
    BY <1>1, <1>6 DEF Pump, PassType
  <2>2. /\ Len(queue') = Len(queue) - 1 /\ Head(queue) = queue[1]
        /\ \A i \in 1 .. Len(queue') : queue'[i] = queue[i + 1]
    BY <1>1, <2>1, PumpFacts
  <2>3. ASSUME isBusy', worker'.state = "none"
        PROVE  \E i \in 1 .. Len(queue') : queue'[i] = "done"
    <3>1. PICK j \in 1 .. Len(queue) : queue[j] = "done"
      BY <2>1, <2>3 DEF ReportsFit
    <3>2. j # 1
      BY <2>1, <2>2, <2>3, <3>1
    <3>3. j - 1 \in 1 .. Len(queue') /\ (j - 1) + 1 = j
      BY <1>1, <2>2, <3>2
    <3>4. queue'[j - 1] = "done"
      BY <2>2, <3>1, <3>3
    <3> QED
      BY <3>3, <3>4
  <2>4. worker'.state # "none" => Len(queue') + Cardinality(worker'.left) < QueueLimit
    <3>1. Cardinality(worker.left) \in Nat
      BY <1>1, <1>2 DEF PassType
    <3> QED
      BY <1>1, <2>1, <2>2, <3>1 DEF ReportsFit
  <2> QED
    BY <2>3, <2>4 DEF ReportsFit
<1>7. ASSUME NEW n \in Names, WorkerNext(n) PROVE ReportsFit'
  <2>1. /\ worker.state = "next" /\ n \in worker.left /\ Post("progress")
        /\ worker' = [state |-> "file", left |-> worker.left \ {n}]
    BY <1>7 DEF WorkerNext
  <2>2. Len(queue') \in {Len(queue), Len(queue) + 1}
    <3>1. "progress" \in Reports /\ Len(queue) <= QueueLimit
      BY <1>1 DEF Reports, PassType
    <3> QED
      BY <1>1, <2>1, <3>1, PostFacts
  <2>3. /\ Cardinality(worker.left) \in Nat
        /\ Cardinality(worker.left \ {n}) = Cardinality(worker.left) - 1
    BY <1>1, <1>2, <2>1 DEF PassType
  <2>4. Len(queue) + Cardinality(worker.left) < QueueLimit
    BY <2>1 DEF ReportsFit
  <2>5. worker'.state # "none" /\ worker'.left = worker.left \ {n}
    BY <2>1
  <2>6. Len(queue') + Cardinality(worker'.left) < QueueLimit
    BY <1>1, <2>2, <2>3, <2>4, <2>5
  <2> QED
    BY <2>5, <2>6 DEF ReportsFit
<1>8. CASE WorkerReturns
  <2>1. /\ worker.state = "file" /\ worker'.state = "next" /\ worker'.left = worker.left
        /\ queue' = queue
    BY <1>1, <1>8 DEF WorkerReturns, PassType
  <2> QED
    BY <2>1 DEF ReportsFit
<1>9. CASE WorkerEnds
  <2>1. /\ worker.state = "next" /\ Post("done") /\ worker'.state = "none"
    BY <1>9 DEF WorkerEnds, NoWorker
  <2>2. Len(queue) < QueueLimit
    <3>1. Cardinality(worker.left) \in Nat
      BY <1>1, <1>2 DEF PassType
    <3> QED
      BY <1>1, <2>1, <3>1 DEF ReportsFit
  <2>3. Len(queue') = Len(queue) + 1 /\ queue'[Len(queue) + 1] = "done"
    <3>1. "done" \in Reports
      BY DEF Reports
    <3> QED
      BY <1>1, <2>1, <2>2, <3>1, PostFacts
  <2>4. Len(queue) + 1 \in 1 .. Len(queue')
    BY <1>1, <2>3
  <2> QED
    BY <2>1, <2>3, <2>4 DEF ReportsFit
<1>10. CASE NextExplorer /\ ~ UNCHANGED <<isBusy, queue, worker>>
  <2>1. CASE User
    BY <1>4, <1>5, <1>10, <2>1 DEF User, Select, Refresh, ClickTransform, ClickDelete,
       RenameFile
  <2>2. CASE WindowThread
    BY <1>6, <1>10, <2>2 DEF WindowThread, AuditNext, AuditReturns, AuditsDone, ToggleStep,
       ToggleReturns, DeleteReturns, uiVars
  <2>3. CASE WorkerThread
    BY <1>7, <1>8, <1>9, <1>10, <2>3 DEF WorkerThread, WorkerStep, uiVars
  <2>4. CASE Dismiss
    BY <1>10, <2>4 DEF Dismiss
  <2> QED
    BY <1>10, <2>1, <2>2, <2>3, <2>4 DEF NextExplorer
<1>11. CASE UNCHANGED allVars
  BY <1>3, <1>11 DEF allVars, uiVars
<1> QED
  BY <1>3, <1>10, <1>11

-----------------------------------------------------------------------------
(* Theorems *)

LEMMA InitExplorerInv == InitExplorer => ExplorerInv /\ ReportsFit
<1> SUFFICES ASSUME InitExplorer PROVE ExplorerInv /\ ReportsFit
  OBVIOUS
<1>1. /\ isBusy = FALSE /\ selected = NoName /\ mode = "loop" /\ todo = {} /\ then = "loop"
      /\ queue = <<>> /\ worker = [state |-> "none", left |-> {}]
  BY DEF InitExplorer, StartWindow, NoWorker
<1>2. IInv
  BY InitIInv DEF InitExplorer
<1>3. WindowOK
  BY <1>1 DEF WindowOK, Modes
<1>4. Len(queue) = 0 /\ worker.state = "none" /\ ~ isBusy
  BY <1>1
<1>5. PassType
  <2>1. <<>> \in Seq({"progress", "done"})
    OBVIOUS
  <2>2. QueueLimit \in Nat
    BY WindowAssumption
  <2>3. Len(queue) <= QueueLimit
    BY <1>4, <2>2
  <2>4. worker \in [state : {"none", "next", "file"}, left : SUBSET Names]
    BY <1>1
  <2>5. queue \in Seq({"progress", "done"}) /\ isBusy \in BOOLEAN
    BY <1>1, <2>1, Zenon
  <2> QED
    BY <2>3, <2>4, <2>5 DEF PassType
<1>6. PassOK /\ ReportsFit
  BY <1>4 DEF PassOK, ReportsFit
<1> QED
  BY <1>2, <1>3, <1>5, <1>6 DEF ExplorerInv

\* What holds of the threads of TransformFile holds of those of the Explorer; the window
\* is busy while a pass runs, and the message that ends it is its last.
THEOREM ExplorerInvariant == SpecExplorer => []ExplorerInv
<1>1. ExplorerInv /\ [NextExplorer]_allVars => ExplorerInv'
  BY StepExplorerIInv, StepWindowOK, StepPass DEF ExplorerInv
<1> QED
  BY <1>1, InitExplorerInv, PTL DEF SpecExplorer

\* Once the thread exists and as long as the queue of the window holds a message for each
\* file, the window is busy exactly while a pass runs or its last message waits.
THEOREM BusyTells ==
    ASSUME ~ ThreadMayFail, IsFiniteSet(Names), Cardinality(Names) < QueueLimit
    PROVE  SpecExplorer => []BusyIsTrue
<1>1. ExplorerInv /\ ReportsFit /\ [NextExplorer]_allVars => ReportsFit'
  BY StepReportsFit
<1>2. ExplorerInv /\ ReportsFit => BusyIsTrue
  <2> SUFFICES ASSUME ExplorerInv, ReportsFit PROVE BusyIsTrue
    OBVIOUS
  <2>1. TypeOKExplorer
    BY DEF ExplorerInv, IInv, WindowOK, PassType, TypeOKExplorer
  <2>2. DOMAIN queue = 1 .. Len(queue)
    BY DEF ExplorerInv, PassType
  <2>3. isBusy <=> worker.state # "none" \/ \E i \in DOMAIN queue : queue[i] = "done"
    BY <2>2 DEF ExplorerInv, PassOK, ReportsFit
  <2> QED
    BY <2>1, <2>3 DEF BusyIsTrue
<1> QED
  BY <1>1, <1>2, InitExplorerInv, ExplorerInvariant, PTL DEF SpecExplorer

\* No operation of TransformFile changes a directory.
LEMMA TransformKeepsDir ==
    ASSUME NEW a, InTransform(a) \/ \E n \in Names \cup {NoName} : Open(a, n) \/ OpenFails(a, n)
    PROVE  dir' = dir
BY DEF InTransform, Open, OpenFails, ReadTag, Verify, XorBlock, XorBlockFails, DeleteTag,
   ComputeTag, CreateTag, WriteTag, disk

\* Whatever the user clicks, whether messages are lost or not: between two files of a pass
\* and during one, files keep their names or go.
THEOREM NamesStayDuringPass == SpecExplorer => NoRenameDuringPass
<1> DEFINE Stays == worker.state # "none" /\ worker'.state # "none" =>
                        \A n \in Names : dir'[n] \in {dir[n], NoFile}
<1>1. ASSUME ExplorerInv, [NextExplorer]_allVars, worker.state # "none",
             worker'.state # "none", NEW n \in Names
      PROVE  dir'[n] \in {dir[n], NoFile}
  <2>1. isBusy /\ dir \in [Names -> Files \cup {NoFile}]
    BY <1>1, VolumeFacts DEF ExplorerInv, PassOK
  <2>2. CASE dir' = dir
    BY <2>2
  <2>3. CASE User
    <3>1. ~ CloseWindow
      BY <1>1 DEF CloseWindow, NoWorker
    <3>2. \A m \in Names, k \in Names : ~ RenameFile(m, k)
      BY <2>1 DEF RenameFile
    <3> QED
      BY <2>2, <2>3, <3>1, <3>2 DEF User, Select, Refresh, ClickTransform, ClickDelete,
         DeleteSidecar, StartPass, vars
  <2>4. CASE WindowThread
    <3>1. CASE DeleteReturns
      BY <2>1, <3>1 DEF DeleteReturns, DeleteFile
    <3>2. CASE AuditsDone
      <4>1. selected \in Names \cup {NoName}
        BY <1>1 DEF ExplorerInv, WindowOK
      <4> QED
        BY <2>2, <3>2, <4>1, TransformKeepsDir DEF AuditsDone, vars
    <3>3. CASE ToggleStep
      BY <2>2, <3>3, TransformKeepsDir DEF ToggleStep
    <3> QED
      BY <2>2, <2>4, <3>1, <3>2, <3>3 DEF WindowThread, AuditNext, AuditOpen, AuditReturns,
         AuditClose, ToggleReturns, Pump, vars, disk
  <2>5. CASE WorkerThread
    BY <2>2, <2>5, TransformKeepsDir DEF WorkerThread, WorkerNext, WorkerStep,
       WorkerReturns, WorkerEnds, vars
  <2>6. CASE Dismiss \/ UNCHANGED allVars
    BY <2>2, <2>6 DEF Dismiss, allVars, vars
  <2> QED
    BY <1>1, <2>3, <2>4, <2>5, <2>6 DEF NextExplorer
<1>2. ExplorerInv /\ [NextExplorer]_allVars => [Stays]_allVars
  BY <1>1
<1> QED
  BY <1>2, ExplorerInvariant, PTL DEF SpecExplorer, NoRenameDuringPass

\* A decryption that the window or the worker completes restores what the encryption found,
\* also after a process that ended in the middle of a file.
THEOREM ExplorerRoundTrip == SpecExplorer => []RoundTrip
<1>1. ExplorerInv => RoundTrip
  BY RoundTripByIInv DEF ExplorerInv
<1> QED
  BY <1>1, ExplorerInvariant, PTL

\* Nor does one of them start on a file of which a block was changed since it was sealed,
\* where ComputeHmacForFile meets no read error.
THEOREM ExplorerTamperDetected ==
    ASSUME "mac" \notin Faults
    PROVE  SpecExplorer => []TamperDetected
<1>1. InitExplorer => WholeTags
  BY InitWholeTags DEF InitExplorer
<1>2. ExplorerInv /\ WholeTags /\ [NextExplorer]_allVars => WholeTags'
  <2> SUFFICES ASSUME ExplorerInv, WholeTags, [NextExplorer]_allVars PROVE WholeTags'
    OBVIOUS
  <2>1. CASE CloseWindow
    BY <2>1, WholeSources DEF CloseWindow, WholeTags, Whole, disk
  <2>2. CASE ~ CloseWindow
    <3>1. [Next]_vars
      BY <2>2, VolumeSteps DEF allVars
    <3> QED
      BY <3>1, StepWholeTags DEF ExplorerInv
  <2> QED
    BY <2>1, <2>2
<1>3. ExplorerInv /\ WholeTags => TamperDetected
  BY TamperByWholeTags DEF ExplorerInv
<1> QED
  BY <1>1, <1>2, <1>3, ExplorerInvariant, PTL DEF SpecExplorer
=============================================================================
