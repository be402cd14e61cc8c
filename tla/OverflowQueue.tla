--------------------------- MODULE OverflowQueue ---------------------------
(***************************************************************************)
(* The requests that fastfat posts to the system's worker threads, and the *)
(* overflow queue that bounds how many of them a volume may occupy         *)
(* (workque.c FatAddToWorkque, fspdisp.c FatFspDispatch).  What runs under *)
(* the volume's OverflowQueueSpinLock is one action.                       *)
(***************************************************************************)
EXTENDS Integers, Sequences, FiniteSets

CONSTANTS
    Requests,        \* IRPs of one volume
    Unbound,         \* those without a file object: mounts, shutdown
    ExThreads,       \* how many threads serve CriticalWorkQueue
    Threshold        \* FSP_PER_DEVICE_THRESHOLD

\* The critical work queue has threads for more than one volume can occupy: a worker may
\* stay in its loop as long as the overflow queue is refilled.
ASSUME OverflowAssumption ==
    /\ Threshold \in Nat
    /\ ExThreads \in Nat /\ ExThreads > Threshold + 1
    /\ IsFiniteSet(Requests) /\ Unbound \subseteq Requests

VARIABLES
    place,           \* request |-> where it is
    again,           \* the requests that have come back to the queue once
    criticalQueue,   \* the work items of CriticalWorkQueue
    overflow,        \* OverflowQueue and OverflowQueueCount
    posted,          \* PostedRequestCount
    after            \* how many runs of FatFspDispatch are past their handler

overflowVars == <<place, again, criticalQueue, overflow, posted, after>>

\* Not sent; in one of the two queues; handled by a worker; waiting for an oplock.
RequestPlaces == {"new", "queued", "handled", "waits"}

\* Which thread serves a request does not matter: a run of FatFspDispatch is a request
\* that is handled, or one of those between its handler and the end of the loop, which
\* differ only in whether they have a VolDo.
HandledNow == {r \in Requests : place[r] = "handled"}
IdleThreads == ExThreads - Cardinality(HandledNow) - after.bound - after.unbound

InitOverflow ==
    /\ place = [r \in Requests |-> "new"]
    /\ again = {}
    /\ criticalQueue = <<>>
    /\ overflow = [queue |-> <<>>, count |-> 0]
    /\ posted = 0
    /\ after = [bound |-> 0, unbound |-> 0]

-----------------------------------------------------------------------------
\* Mutant: the request goes to a worker without being counted.
AddToWorkqueUncounted(r) ==
    IF r \notin Unbound /\ posted > Threshold
    THEN /\ overflow' = [queue |-> Append(overflow.queue, r), count |-> overflow.count + 1]
         /\ UNCHANGED <<criticalQueue, posted>>
    ELSE /\ criticalQueue' = Append(criticalQueue, r)
         /\ UNCHANGED <<overflow, posted>>

\* FatAddToWorkque: a request with a file object goes to a worker of its own as long as
\* the volume has no more than the threshold of them.
AddToWorkque(r) ==
    IF r \notin Unbound /\ posted > Threshold
    THEN /\ overflow' = [queue |-> Append(overflow.queue, r), count |-> overflow.count + 1]
         /\ UNCHANGED <<criticalQueue, posted>>
    ELSE /\ criticalQueue' = Append(criticalQueue, r)
         /\ posted' = IF r \in Unbound THEN posted ELSE posted + 1
         /\ UNCHANGED overflow

\* FatFsdPostRequest in the thread that brought the request.
PostRequest(r) ==
    /\ place[r] = "new"
    /\ AddToWorkque(r)
    /\ place' = [place EXCEPT ![r] = "queued"]
    /\ again' = again \ {r}
    /\ UNCHANGED after

\* A system thread enters FatFspDispatch with the next work item.
Dispatch ==
    /\ criticalQueue # <<>>
    /\ IdleThreads > 0
    /\ place' = [place EXCEPT ![Head(criticalQueue)] = "handled"]
    /\ criticalQueue' = Tail(criticalQueue)
    /\ UNCHANGED <<again, overflow, posted, after>>

\* The handler of r returns to FatFspDispatch.
Handled(r) ==
    /\ place[r] = "handled"
    /\ after' = IF r \in Unbound THEN [after EXCEPT !.unbound = @ + 1]
                ELSE [after EXCEPT !.bound = @ + 1]

\* The handler completes the request, with or without an exception.
HandlerCompletes(r) ==
    /\ Handled(r)
    /\ place' = [place EXCEPT ![r] = "new"]
    /\ UNCHANGED <<again, criticalQueue, overflow, posted>>

\* The handler leaves the request to an oplock break.
HandlerWaits(r) ==
    /\ r \notin Unbound \cup again
    /\ Handled(r)
    /\ place' = [place EXCEPT ![r] = "waits"]
    /\ UNCHANGED <<again, criticalQueue, overflow, posted>>

\* FatProcessException posts the request again: it cannot wait here.  (Once per request.)
HandlerPosts(r) ==
    /\ r \notin Unbound \cup again
    /\ Handled(r)
    /\ AddToWorkque(r)
    /\ place' = [place EXCEPT ![r] = "queued"]
    /\ again' = again \cup {r}

\* FatOplockComplete: the break has ended, or the request is cancelled.
OplockComplete(r) ==
    /\ place[r] = "waits"
    /\ \/ /\ AddToWorkque(r)
          /\ place' = [place EXCEPT ![r] = "queued"]
          /\ again' = again \cup {r}
       \/ /\ place' = [place EXCEPT ![r] = "new"]
          /\ UNCHANGED <<again, criticalQueue, overflow, posted>>
    /\ UNCHANGED after

\* A run of the volume's gives its worker up.
WorkerGivenUp ==
    /\ after.bound > 0
    /\ posted' = posted - 1
    /\ after' = [after EXCEPT !.bound = @ - 1]
    /\ UNCHANGED <<place, again, criticalQueue, overflow>>

\* Mutant: the worker gives itself up without a look at the queue.
RemoveOverflowEntryNever == WorkerGivenUp

\* Mutant: the request that was posted last goes first.
RemoveOverflowEntryLast ==
    \/ /\ after.bound > 0
       /\ overflow.count > 0
       /\ overflow' = [queue |-> SubSeq(overflow.queue, 1, overflow.count - 1),
                       count |-> overflow.count - 1]
       /\ place' = [place EXCEPT ![overflow.queue[overflow.count]] = "handled"]
       /\ after' = [after EXCEPT !.bound = @ - 1]
       /\ UNCHANGED <<again, criticalQueue, posted>>
    \/ overflow.count = 0 /\ WorkerGivenUp

\* FatRemoveOverflowEntry and the end of the loop: go on with the head of the queue, or
\* give the volume's worker up.
RemoveOverflowEntry ==
    \/ /\ after.bound > 0
       /\ overflow.count > 0
       /\ overflow' = [queue |-> Tail(overflow.queue), count |-> overflow.count - 1]
       /\ place' = [place EXCEPT ![Head(overflow.queue)] = "handled"]
       /\ after' = [after EXCEPT !.bound = @ - 1]
       /\ UNCHANGED <<again, criticalQueue, posted>>
    \/ overflow.count = 0 /\ WorkerGivenUp

\* Without a volume device object the run ends with its one request.
DispatchReturns ==
    /\ after.unbound > 0
    /\ after' = [after EXCEPT !.unbound = @ - 1]
    /\ UNCHANGED <<place, again, criticalQueue, overflow, posted>>

HandlerReturns(r) == HandlerCompletes(r) \/ HandlerWaits(r) \/ HandlerPosts(r)

NextOverflow ==
    \/ \E r \in Requests : PostRequest(r) \/ OplockComplete(r) \/ HandlerReturns(r)
    \/ Dispatch \/ RemoveOverflowEntry \/ DispatchReturns

SpecOverflow == InitOverflow /\ [][NextOverflow]_overflowVars

\* The system serves its critical queue, handlers return, and an oplock is broken or its
\* holder goes away.
FairOverflow ==
    /\ WF_overflowVars(Dispatch)
    /\ WF_overflowVars(RemoveOverflowEntry)
    /\ WF_overflowVars(DispatchReturns)
    /\ \A r \in Requests : WF_overflowVars(HandlerReturns(r) \/ OplockComplete(r))

-----------------------------------------------------------------------------
BoundItems == {k \in DOMAIN criticalQueue : criticalQueue[k] \notin Unbound}
BoundRuns == Cardinality(HandledNow \ Unbound) + after.bound

\* PostedRequestCount is the number of worker threads that the volume occupies or has
\* asked for, it never exceeds the threshold by more than one, and OverflowQueueCount is
\* the length of its queue: FatRemoveOverflowEntry trusts both.
CountIsWorkers ==
    /\ posted = Cardinality(BoundItems) + BoundRuns
    /\ posted <= Threshold + 1
    /\ overflow.count = Len(overflow.queue)

\* No request waits in the overflow queue of a volume that has no worker left to come by:
\* nobody else looks at the queue (FatAddToWorkque never starts a worker for it).
NobodyStranded == overflow.queue # <<>> => Cardinality(BoundItems) + BoundRuns > 0

\* Every request that is posted is handled in the end, however many more are posted,
\* wait for oplocks or come back (FatFspDispatch takes from the head of the queue).
PostedIsHandled == \A r \in Requests : place[r] = "queued" ~> place[r] = "handled"
=============================================================================
