--------------------------- MODULE MycelExplorer ---------------------------
(***************************************************************************)
(* The MycelFT Explorer as a process: the window's thread, which handles   *)
(* one message at a time and runs the toggle of the selected file itself,  *)
(* and the worker thread of a folder or drive pass, which toggles file     *)
(* after file and reports with posted messages.  Both use the operations   *)
(* of TransformFile on the same volume.                                    *)
(***************************************************************************)
EXTENDS TransformFile

CONSTANTS
    UI, Worker,     \* the two threads
    Folder,         \* the names that the list shows
    QueueLimit,     \* messages that may wait for the window
    ThreadMayFail   \* whether CreateThread may return nothing

ASSUME ThreadAssumption == Actors = {UI, Worker} /\ UI # Worker
ASSUME WindowAssumption ==
    /\ Folder \subseteq Names
    /\ QueueLimit \in Nat
    /\ ThreadMayFail \in BOOLEAN

VARIABLES
    isBusy,     \* ui.isBusy; the list and the path are disabled while it holds
    selected,   \* the selected row of the list
    mode,       \* what the window's thread is doing
    todo,       \* the names that it still has to audit
    then,       \* what it does after the audits
    queue,      \* messages posted to the window
    worker      \* the state of the pass

uiVars == <<isBusy, selected, mode, todo, then, queue, worker>>
allVars == <<vars, uiVars>>

Modes == {"loop", "audit", "toggle", "delete", "message"}
NoWorker == [state |-> "none", left |-> {}]
Existing(S) == {n \in S : dir[n] # NoFile}

\* PostMessageW: a message for a full queue is lost, and nobody looks.
Post(m) == queue' = IF Len(queue) < QueueLimit THEN Append(queue, m) ELSE queue

\* PopulateListView: the rows, and with them the selection, are gone, and the
\* tag of every file is read again.
Populate(names) ==
    /\ selected' = NoName
    /\ mode' = "audit"
    /\ todo' = names
    /\ then' = "loop"

StartWindow ==
    /\ isBusy = FALSE
    /\ selected = NoName
    /\ mode = "loop"
    /\ todo = {}
    /\ then = "loop"
    /\ queue = <<>>
    /\ worker = NoWorker

InitExplorer == Init /\ StartWindow

-----------------------------------------------------------------------------
(* Input of the user.  GetMessageW hands out posted messages first. *)

Input == mode = "loop" /\ queue = <<>>

\* LVN_ITEMCHANGED of the enabled list: UpdateStatusBar audits the file.
Select(n) ==
    /\ Input
    /\ ~ isBusy
    /\ n \in Existing(Folder)
    /\ selected' = n
    /\ mode' = "audit" /\ todo' = {n} /\ then' = "loop"
    /\ UNCHANGED <<vars, isBusy, queue, worker>>

\* kRefreshId
Refresh ==
    /\ Input
    /\ Populate(Existing(Folder))
    /\ UNCHANGED <<vars, isBusy, queue, worker>>

\* kTransformId: no look at isBusy.  The file is audited, toggled and audited.
ClickTransform ==
    /\ Input
    /\ selected # NoName
    /\ mode' = "audit" /\ todo' = {selected} /\ then' = "toggle"
    /\ UNCHANGED <<vars, isBusy, selected, queue, worker>>

\* kDeleteId: no look at isBusy either.
ClickDelete ==
    /\ Input
    /\ selected # NoName
    /\ DeleteSidecar(UI, selected)
    /\ mode' = "delete"
    /\ UNCHANGED <<isBusy, selected, todo, then, queue, worker>>

\* Mutant: the list stays enabled during a pass.
RenameFileAnyTime(m, n) ==
    /\ Input
    /\ m \in Folder
    /\ Rename(UI, m, n)
    /\ Populate((Existing(Folder) \ {m}) \cup ({n} \cap Folder))
    /\ UNCHANGED <<isBusy, queue, worker>>

\* LVN_ENDLABELEDITW of the enabled list.
RenameFile(m, n) ==
    /\ Input
    /\ ~ isBusy
    /\ m \in Folder
    /\ Rename(UI, m, n)
    /\ Populate((Existing(Folder) \ {m}) \cup ({n} \cap Folder))
    /\ UNCHANGED <<isBusy, queue, worker>>

\* kTransformFolderId and kTransformDriveId: isBusy is set before the thread
\* exists, and only the thread's last message clears it.
StartPass ==
    /\ Input
    /\ ~ isBusy
    /\ isBusy' = TRUE
    /\ \/ \E names \in {Folder, Names} :
             worker' = [state |-> "next", left |-> Existing(names)]
       \/ ThreadMayFail /\ UNCHANGED worker
    /\ UNCHANGED <<vars, selected, mode, todo, then, queue>>

\* WM_DESTROY posts WM_QUIT and wWinMain returns: the process ends, whatever
\* the worker is doing.  Started again, it knows only what is on the volume.
CloseWindow ==
    /\ Input
    /\ Edit
    /\ op' = [a \in Actors |-> Idle]
    /\ result' = [a \in Actors |-> "none"]
    /\ isBusy' = FALSE
    /\ worker' = NoWorker
    /\ Populate(Existing(Folder))
    /\ UNCHANGED <<disk, issued, faults, queue>>

-----------------------------------------------------------------------------
(* The window's thread at work *)

\* The audit of one file: its tag is opened and closed, or cannot be opened.
AuditNext(n) ==
    /\ mode = "audit"
    /\ n \in todo
    /\ op[UI].pc = "idle"
    /\ \/ AuditOpen(UI, n)
       \/ ~ HasReadableTag(n) /\ UNCHANGED vars
    /\ todo' = todo \ {n}
    /\ UNCHANGED <<isBusy, selected, mode, then, queue, worker>>

AuditReturns ==
    /\ mode = "audit"
    /\ AuditClose(UI)
    /\ UNCHANGED uiVars

AuditsDone ==
    /\ mode = "audit"
    /\ todo = {}
    /\ op[UI].pc = "idle"
    /\ mode' = then
    /\ IF then = "toggle" THEN Open(UI, selected) \/ OpenFails(UI, selected)
                          ELSE UNCHANGED vars
    /\ UNCHANGED <<isBusy, selected, todo, then, queue, worker>>

InTransform(a) ==
    \/ ReadTag(a) \/ Verify(a) \/ XorBlock(a) \/ XorBlockFails(a)
    \/ DeleteTag(a) \/ ComputeTag(a) \/ CreateTag(a) \/ WriteTag(a)

ToggleStep ==
    /\ mode = "toggle"
    /\ InTransform(UI)
    /\ UNCHANGED uiVars

\* The result is shown in a message box; a toggled file is audited before, and
\* the list is filled again after.
ToggleReturns ==
    /\ mode = "toggle"
    /\ op[UI].pc = "idle"
    /\ IF result[UI] = "ok"
       THEN mode' = "audit" /\ todo' = {selected} /\ then' = "message"
       ELSE mode' = "message" /\ todo' = {} /\ then' = "loop"
    /\ UNCHANGED <<vars, isBusy, selected, queue, worker>>

\* The list is filled again whether or not the file could be deleted; if not,
\* a message box comes first.
DeleteReturns ==
    /\ mode = "delete"
    /\ DeleteFile(UI)
    /\ \/ dir' # dir /\ Populate(Existing(Folder) \ {selected})
       \/ /\ dir' = dir
          /\ mode' = "message" /\ then' = "message"
          /\ UNCHANGED <<selected, todo>>
    /\ UNCHANGED <<isBusy, queue, worker>>

\* The user closes the message box.
Dismiss ==
    /\ mode = "message"
    /\ IF then = "message" THEN Populate(Existing(Folder))
       ELSE mode' = "loop" /\ UNCHANGED <<selected, todo, then>>
    /\ UNCHANGED <<vars, isBusy, queue, worker>>

\* Mutant: WM_MYCEL_DONE stops the progress bar only.
PumpStaysBusy ==
    /\ mode \in {"loop", "message"}
    /\ queue # <<>>
    /\ queue' = Tail(queue)
    /\ IF Head(queue) = "done" THEN mode' = "message" /\ then' = "message"
                               ELSE UNCHANGED <<mode, then>>
    /\ UNCHANGED <<vars, isBusy, selected, todo, worker>>

\* Posted messages are handled in the main loop and in the loop of a message
\* box.  WM_MYCEL_DONE ends the pass and shows a message box of its own.
Pump ==
    /\ mode \in {"loop", "message"}
    /\ queue # <<>>
    /\ queue' = Tail(queue)
    /\ IF Head(queue) = "done"
       THEN isBusy' = FALSE /\ mode' = "message" /\ then' = "message"
       ELSE UNCHANGED <<isBusy, mode, then>>
    /\ UNCHANGED <<vars, selected, todo, worker>>

-----------------------------------------------------------------------------
(* ProcessWorker: one TransformFile after the other *)

WorkerNext(n) ==
    /\ worker.state = "next"
    /\ n \in worker.left
    /\ Open(Worker, n) \/ OpenFails(Worker, n)
    /\ Post("progress")
    /\ worker' = [state |-> "file", left |-> worker.left \ {n}]
    /\ UNCHANGED <<isBusy, selected, mode, todo, then>>

WorkerStep ==
    /\ worker.state = "file"
    /\ InTransform(Worker)
    /\ UNCHANGED uiVars

WorkerReturns ==
    /\ worker.state = "file"
    /\ op[Worker].pc = "idle"
    /\ worker' = [worker EXCEPT !.state = "next"]
    /\ UNCHANGED <<vars, isBusy, selected, mode, todo, then, queue>>

\* Mutant: the pass ends without a message.
WorkerEndsSilently ==
    /\ worker.state = "next"
    /\ worker.left = {}
    /\ worker' = NoWorker
    /\ UNCHANGED <<vars, isBusy, selected, mode, todo, then, queue>>

WorkerEnds ==
    /\ worker.state = "next"
    /\ worker.left = {}
    /\ Post("done")
    /\ worker' = NoWorker
    /\ UNCHANGED <<vars, isBusy, selected, mode, todo, then>>

-----------------------------------------------------------------------------
User ==
    \/ \E n \in Names : Select(n)
    \/ Refresh \/ ClickTransform \/ ClickDelete
    \/ \E m, n \in Names : RenameFile(m, n)
    \/ StartPass \/ CloseWindow

WindowThread ==
    \/ \E n \in Names : AuditNext(n)
    \/ AuditReturns \/ AuditsDone
    \/ ToggleStep \/ ToggleReturns \/ DeleteReturns
    \/ Pump

WorkerThread ==
    \/ \E n \in Names : WorkerNext(n)
    \/ WorkerStep \/ WorkerReturns \/ WorkerEnds

NextExplorer == User \/ WindowThread \/ WorkerThread \/ Dismiss

SpecExplorer == InitExplorer /\ [][NextExplorer]_allVars

\* Both threads are scheduled; nothing is assumed of the user.
FairExplorer ==
    SpecExplorer /\ WF_allVars(WindowThread) /\ WF_allVars(WorkerThread)

-----------------------------------------------------------------------------
(* Properties *)

TypeOKExplorer ==
    /\ TypeOK
    /\ isBusy \in BOOLEAN
    /\ selected \in Names \cup {NoName}
    /\ mode \in Modes
    /\ todo \subseteq Names
    /\ then \in Modes
    /\ queue \in Seq({"progress", "done"}) /\ Len(queue) <= QueueLimit
    /\ worker \in [state : {"none", "next", "file"}, left : SUBSET Names]

\* "Bitte warten, eine Aufgabe laeuft bereits" (kTransformFolderId): the window
\* is busy exactly while a pass runs or its last message waits; and every variable has
\* its type.
BusyIsTrue ==
    /\ TypeOKExplorer
    /\ isBusy <=> worker.state # "none" \/ \E i \in DOMAIN queue : queue[i] = "done"

\* The worker finds every file under the name that FindNextFileW gave it,
\* unless it was deleted: no file is renamed while a pass runs.
NoRenameDuringPass ==
    [][worker.state # "none" /\ worker'.state # "none" =>
          \A n \in Names : dir'[n] \in {dir[n], NoFile}]_allVars

\* A pass ends, and the window becomes usable again.
BusyEnds == isBusy ~> ~ isBusy
=============================================================================
