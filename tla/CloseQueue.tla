----------------------------- MODULE CloseQueue -----------------------------
(***************************************************************************)
(* The deferred closes of fastfat (fastfat/close.c).  A close that cannot  *)
(* or should not be done at once is put on one of two queues, each of them *)
(* a list of the driver and a list of the volume at the same time.  One    *)
(* worker thread empties them for all volumes; FatFspClose empties them    *)
(* for one volume, in the thread that holds it.  Only queues, worker and   *)
(* the ownership of the volume are modelled here: what a close does to the *)
(* counts of the volume is in VolumeLife.                                  *)
(***************************************************************************)
EXTENDS Integers, Sequences, FiniteSets, SequencesExt

CONSTANTS
    Vcbs,             \* mounted volumes
    Closes,           \* file objects that will be closed
    VcbOf,            \* close |-> the volume of its file object
    MetadataCloses,   \* those of streams: they do not count in OpenFileCount
    StaysOpen,        \* volume |-> opens on it that are not closed meanwhile
    Workers,          \* threads that may run FatCloseWorker
    MaxDelayedClose,  \* FatMaxDelayedCloseCount
    NoVcb,
    NoContext

ASSUME VcbOfAssumption == VcbOf \in [Closes -> Vcbs]
ASSUME MetadataAssumption == MetadataCloses \subseteq Closes
ASSUME StaysOpenAssumption == StaysOpen \in [Vcbs -> Nat]
ASSUME MaxDelayedAssumption == MaxDelayedClose \in Nat \ {0}
ASSUME NoVcbAssumption == NoVcb \notin Vcbs
ASSUME NoContextAssumption == NoContext \notin Closes

VARIABLES
    close,       \* close |-> where it is
    global,      \* FatData.AsyncCloseList and FatData.DelayedCloseList
    perVcb,      \* the lists of each volume
    count,       \* FatData.AsyncCloseCount, FatData.DelayedCloseCount
    high,        \* FatData.HighAsync, FatData.HighDelayed
    active,      \* FatData.AsyncCloseActive
    posting,     \* threads behind FatReleaseCloseMutex that will start the worker
    worker,      \* thread |-> the locals of the FatFspClose it is in
    owner,       \* volume |-> who holds its Resource exclusively
    shutdown     \* FatData.ShutdownStarted

closeVars == <<close, global, perVcb, count, high, active, posting, worker,
               owner, shutdown>>

Queues == {"async", "delayed"}

\* Open; on a queue; taken off it; done.
ClosePlaces == {"open", "done", "taken"} \cup Queues
Owners == {"nobody", "drain"} \cup Workers

NoWork == [pc |-> "idle", vcb |-> NoVcb, context |-> NoContext]

InitClose ==
    /\ close = [c \in Closes |-> "open"]
    /\ global = [q \in Queues |-> <<>>]
    /\ perVcb = [v \in Vcbs |-> [q \in Queues |-> <<>>]]
    /\ count = [q \in Queues |-> 0]
    /\ high = [q \in Queues |-> FALSE]
    /\ active = FALSE
    /\ posting = 0
    /\ worker = [w \in Workers |-> NoWork]
    /\ owner = [v \in Vcbs |-> "nobody"]
    /\ shutdown = FALSE

OpenFileCount(v) ==
    StaysOpen[v] +
    Cardinality({c \in Closes \ MetadataCloses : VcbOf[c] = v /\ close[c] # "done"})

-----------------------------------------------------------------------------
(* FatFsdClose and FatQueueClose *)

\* FatCommonClose has the volume at once.
CloseNow(c) ==
    /\ close[c] = "open"
    /\ owner[VcbOf[c]] = "nobody"
    /\ close' = [close EXCEPT ![c] = "done"]
    /\ UNCHANGED <<global, perVcb, count, high, active, posting, worker, owner,
                   shutdown>>

\* FatQueueClose: both lists and the count; the worker is started if there is none
\* and this queue calls for it.
QueueCloseStarting(c, q, starts) ==
    /\ close[c] = "open"
    /\ close' = [close EXCEPT ![c] = q]
    /\ global' = [global EXCEPT ![q] = Append(@, c)]
    /\ perVcb' = [perVcb EXCEPT ![VcbOf[c]][q] = Append(@, c)]
    /\ count' = [count EXCEPT ![q] = @ + 1]
    /\ IF starts[q]
       THEN active' = TRUE /\ posting' = posting + 1
       ELSE UNCHANGED <<active, posting>>
    /\ UNCHANGED <<high, worker, owner, shutdown>>

Starts == [async |-> ~ active,
           delayed |-> ~ active /\ count["delayed"] + 1 > MaxDelayedClose]

\* Mutant: a close over the limit starts a worker whether or not one runs.
QueueCloseAlways(c, q) ==
    QueueCloseStarting(c, q, [Starts EXCEPT !["delayed"] =
                                 count["delayed"] + 1 > MaxDelayedClose])

\* The FCB is marked for a delayed close, or FatCommonClose returned STATUS_PENDING
\* because the thread may not wait for the volume, which any operation may have, or
\* is itself in a create on it.  The mark selects the queue; it is also heeded after
\* STATUS_PENDING, so that a delayed close may come in during a shutdown.
QueueClose(c, q) == QueueCloseStarting(c, q, Starts)

\* IoQueueWorkItem, after the mutex: a thread runs FatCloseWorker.
StartWorker(w) ==
    /\ posting > 0
    /\ worker[w].pc = "idle"
    /\ posting' = posting - 1
    /\ worker' = [worker EXCEPT ![w].pc = "remove"]
    /\ UNCHANGED <<close, global, perVcb, count, high, active, owner, shutdown>>

-----------------------------------------------------------------------------
(* FatRemoveClose *)

\* RemoveEntryList: the list without the entry c.
Without(list, c) == RemoveAt(list, CHOOSE k \in DOMAIN list : list[k] = c)

\* Takes the close c off both lists of q.
TakeOff(c, q) ==
    /\ close' = [close EXCEPT ![c] = "taken"]
    /\ global' = [global EXCEPT ![q] = Without(@, c)]
    /\ perVcb' = [perVcb EXCEPT ![VcbOf[c]][q] = Without(@, c)]
    /\ count' = [count EXCEPT ![q] = @ - 1]

\* The first close of the volume, asynchronous ones before delayed ones.
FirstOf(lists) ==
    IF lists["async"] # <<>> THEN Head(lists["async"])
    ELSE IF lists["delayed"] # <<>> THEN Head(lists["delayed"]) ELSE NoContext

\* The first close of all: delayed ones over half the limit, or all at shutdown.
FirstOfAll ==
    IF count["delayed"] > MaxDelayedClose \div 2 \/ shutdown
    THEN FirstOf(global)
    ELSE FirstOf([global EXCEPT !["delayed"] = <<>>])

\* The modes are entered at twice the limit and left below it.
HighWith(hint) ==
    IF hint = NoVcb THEN high
    ELSE [q \in Queues |-> IF high[q] THEN count[q] >= MaxDelayedClose
                                      ELSE count[q] > 2 * MaxDelayedClose]

\* What the worker takes, when it holds the volume hint.
Selected(hint) ==
    LET here == IF hint # NoVcb /\ \E q \in Queues : HighWith(hint)[q]
                THEN FirstOf(perVcb[hint]) ELSE NoContext
    IN  IF here # NoContext THEN here ELSE FirstOfAll

\* Mutant: the worker that finds nothing leaves AsyncCloseActive set.
WorkerRemovesOnly(w) ==
    LET hint == worker[w].vcb
        c == Selected(hint)
    IN  /\ worker[w].pc = "remove"
        /\ high' = HighWith(hint)
        /\ IF c = NoContext
           THEN /\ worker' = [worker EXCEPT ![w].pc = "exit"]
                /\ UNCHANGED <<active, close, global, perVcb, count>>
           ELSE /\ TakeOff(c, close[c])
                /\ worker' = [worker EXCEPT ![w].pc = "vcb", ![w].context = c]
                /\ UNCHANGED active
        /\ UNCHANGED <<posting, owner, shutdown>>

\* Mutant: in the high mode only the volume at hand is looked at.
WorkerRemovesHere(w) ==
    LET hint == worker[w].vcb
        c == IF hint # NoVcb /\ \E q \in Queues : HighWith(hint)[q]
             THEN FirstOf(perVcb[hint]) ELSE FirstOfAll
    IN  /\ worker[w].pc = "remove"
        /\ high' = HighWith(hint)
        /\ IF c = NoContext
           THEN /\ active' = FALSE
                /\ worker' = [worker EXCEPT ![w].pc = "exit"]
                /\ UNCHANGED <<close, global, perVcb, count>>
           ELSE /\ TakeOff(c, close[c])
                /\ worker' = [worker EXCEPT ![w].pc = "vcb", ![w].context = c]
                /\ UNCHANGED active
        /\ UNCHANGED <<posting, owner, shutdown>>

\* FatRemoveClose of the worker; with nothing left it says that it is done.
WorkerRemoves(w) ==
    LET hint == worker[w].vcb
        c == Selected(hint)
    IN  /\ worker[w].pc = "remove"
        /\ high' = HighWith(hint)
        /\ IF c = NoContext
           THEN /\ active' = FALSE
                /\ worker' = [worker EXCEPT ![w].pc = "exit"]
                /\ UNCHANGED <<close, global, perVcb, count>>
           ELSE /\ TakeOff(c, close[c])
                /\ worker' = [worker EXCEPT ![w].pc = "vcb", ![w].context = c]
                /\ UNCHANGED active
        /\ UNCHANGED <<posting, owner, shutdown>>

-----------------------------------------------------------------------------
(* FatFspClose of the worker: several closes with one acquisition of a volume *)

Released(w) ==
    IF worker[w].vcb = NoVcb THEN owner
    ELSE [owner EXCEPT ![worker[w].vcb] = "nobody"]

\* The close is on another volume, or others wait for this one: the one held is
\* released before the next is waited for.
WorkerReleases(w) ==
    /\ worker[w].pc = "vcb"
    /\ ~ shutdown
    /\ owner' = Released(w)
    /\ worker' = [worker EXCEPT ![w].pc = "acquire", ![w].vcb = NoVcb]
    /\ UNCHANGED <<close, global, perVcb, count, high, active, posting, shutdown>>

\* The volume is not held across what may be its last close.
Keeps(w, v) ==
    IF OpenFileCount(v) <= 1
    THEN /\ owner' = [owner EXCEPT ![v] = "nobody"]
         /\ worker' = [worker EXCEPT ![w].pc = "close", ![w].vcb = NoVcb]
    ELSE /\ owner' = [owner EXCEPT ![v] = w]
         /\ worker' = [worker EXCEPT ![w].pc = "close", ![w].vcb = v]

WorkerAcquires(w) ==
    LET v == VcbOf[worker[w].context] IN
    /\ worker[w].pc = "acquire"
    /\ owner[v] = "nobody"
    /\ Keeps(w, v)
    /\ UNCHANGED <<close, global, perVcb, count, high, active, posting, shutdown>>

WorkerHolds(w) ==
    /\ worker[w].pc = "vcb"
    /\ ~ shutdown
    /\ worker[w].vcb = VcbOf[worker[w].context]
    /\ Keeps(w, worker[w].vcb)
    /\ UNCHANGED <<close, global, perVcb, count, high, active, posting, shutdown>>

\* At shutdown no volume is held between closes.
WorkerDrops(w) ==
    /\ worker[w].pc = "vcb"
    /\ shutdown
    /\ owner' = Released(w)
    /\ worker' = [worker EXCEPT ![w].pc = "close", ![w].vcb = NoVcb]
    /\ UNCHANGED <<close, global, perVcb, count, high, active, posting, shutdown>>

\* FatCommonClose, with Wait: it takes the volume unless the worker has it.
WorkerCloses(w) ==
    LET c == worker[w].context IN
    /\ worker[w].pc = "close"
    /\ owner[VcbOf[c]] \in {"nobody", w}
    /\ close' = [close EXCEPT ![c] = "done"]
    /\ worker' = [worker EXCEPT ![w].pc = "remove", ![w].context = NoContext]
    /\ UNCHANGED <<global, perVcb, count, high, active, posting, owner, shutdown>>

WorkerExits(w) ==
    /\ worker[w].pc = "exit"
    /\ owner' = Released(w)
    /\ worker' = [worker EXCEPT ![w] = NoWork]
    /\ UNCHANGED <<close, global, perVcb, count, high, active, posting, shutdown>>

-----------------------------------------------------------------------------
(* FatFspClose for one volume, and shutdown *)

DrainBegins(v) ==
    /\ owner[v] = "nobody"
    /\ owner' = [owner EXCEPT ![v] = "drain"]
    /\ UNCHANGED <<close, global, perVcb, count, high, active, posting, worker,
                   shutdown>>

\* Mutant: the entry stays on the list of the driver.
DrainForgetsGlobal(v) ==
    LET c == FirstOf(perVcb[v]) IN
    /\ owner[v] = "drain"
    /\ c # NoContext
    /\ close' = [close EXCEPT ![c] = "done"]
    /\ perVcb' = [perVcb EXCEPT ![v][close[c]] = Tail(@)]
    /\ count' = [count EXCEPT ![close[c]] = @ - 1]
    /\ UNCHANGED <<global, high, active, posting, worker, owner, shutdown>>

\* One round of the loop; the thread has the volume, so that FatCommonClose does
\* not wait.
Drain(v) ==
    LET c == FirstOf(perVcb[v]) IN
    /\ owner[v] = "drain"
    /\ c # NoContext
    /\ close' = [close EXCEPT ![c] = "done"]
    /\ global' = [global EXCEPT ![close[c]] = Without(@, c)]
    /\ perVcb' = [perVcb EXCEPT ![v][close[c]] = Tail(@)]
    /\ count' = [count EXCEPT ![close[c]] = @ - 1]
    /\ UNCHANGED <<high, active, posting, worker, owner, shutdown>>

DrainEnds(v) ==
    /\ owner[v] = "drain"
    /\ FirstOf(perVcb[v]) = NoContext
    /\ owner' = [owner EXCEPT ![v] = "nobody"]
    /\ UNCHANGED <<close, global, perVcb, count, high, active, posting, worker,
                   shutdown>>

\* FatCommonShutdown, which does not take the mutex.
StartShutdown ==
    /\ ~ shutdown
    /\ shutdown' = TRUE
    /\ UNCHANGED <<close, global, perVcb, count, high, active, posting, worker,
                   owner>>

-----------------------------------------------------------------------------
CloseWorker(w) ==
    \/ StartWorker(w) \/ WorkerRemoves(w) \/ WorkerReleases(w) \/ WorkerAcquires(w)
    \/ WorkerHolds(w) \/ WorkerDrops(w) \/ WorkerCloses(w) \/ WorkerExits(w)

NextClose ==
    \/ \E c \in Closes : CloseNow(c) \/ \E q \in Queues : QueueClose(c, q)
    \/ \E w \in Workers : CloseWorker(w)
    \/ \E v \in Vcbs : DrainBegins(v) \/ Drain(v) \/ DrainEnds(v)
    \/ StartShutdown

SpecClose == InitClose /\ [][NextClose]_closeVars

\* A work item is run, whoever has a volume releases it, and the resource is granted
\* to those who wait for it in turn.
FairClose ==
    /\ \A v \in Vcbs : WF_closeVars(Drain(v) \/ DrainEnds(v))
    /\ \A w \in Workers : /\ WF_closeVars(CloseWorker(w))
                          /\ SF_closeVars(WorkerAcquires(w))
                          /\ SF_closeVars(WorkerCloses(w))

-----------------------------------------------------------------------------
(* Properties *)

WorkerPlaces == {"idle", "remove", "vcb", "acquire", "close", "exit"}

\* Every variable has its type.
TypeOKClose ==
    /\ close \in [Closes -> ClosePlaces]
    /\ global \in [Queues -> Seq(Closes)]
    /\ perVcb \in [Vcbs -> [Queues -> Seq(Closes)]]
    /\ count \in [Queues -> Nat]
    /\ high \in [Queues -> BOOLEAN]
    /\ active \in BOOLEAN
    /\ posting \in Nat
    /\ worker \in [Workers -> [pc : WorkerPlaces, vcb : Vcbs \cup {NoVcb},
                               context : Closes \cup {NoContext}]]
    /\ owner \in [Vcbs -> Owners]
    /\ shutdown \in BOOLEAN

\* The entry c comes before the entry d.
Before(list, c, d) ==
    \E k, m \in DOMAIN list : k < m /\ list[k] = c /\ list[m] = d

\* For each queue and each volume.
ListsMatch ==
    \A q \in Queues :
        /\ count[q] = Len(global[q])
        /\ IsInjective(global[q])
        /\ ToSet(global[q]) = {c \in Closes : close[c] = q}
        /\ \A v \in Vcbs :
              /\ IsInjective(perVcb[v][q])
              /\ ToSet(perVcb[v][q]) = {c \in ToSet(global[q]) : VcbOf[c] = v}
              /\ \A c, d \in ToSet(perVcb[v][q]) :
                    Before(perVcb[v][q], c, d) => Before(global[q], c, d)

\* The list of a volume is the part of the driver's list that concerns it, in the
\* same order, whichever of the two an entry was taken from; the counts and the
\* places of the closes agree with them, and every variable has its type.
ListsAgree == TypeOKClose /\ ListsMatch

\* While no worker is active nothing waits that needs one: no asynchronous close,
\* and no more delayed closes than the limit.
NoneStranded ==
    ~ active => /\ global["async"] = <<>>
                /\ Len(global["delayed"]) <= MaxDelayedClose

InLoop == {w \in Workers : worker[w].pc \notin {"idle", "exit"}}

\* AsyncCloseActive stands for exactly one worker, started or about to be: the work
\* item is never queued twice and never forgotten.
OneWorker == posting + Cardinality(InLoop) = IF active THEN 1 ELSE 0

\* An asynchronous close is done in the end, also those that come in while the
\* worker keeps to the volume it holds.
AsyncDone == \A c \in Closes : close[c] = "async" ~> close[c] = "done"
=============================================================================
