------------------------------ MODULE GpuSlots ------------------------------
(* The OpenCL contexts of mycelia_core: the globals "context" and "queue" of the     *)
(* driver, the table g_gpu_slots, and the threads that look a slot up.  A context    *)
(* stands for itself, its queues and its buffers, which are made and released with   *)
(* it.                                                                               *)
EXTENDS FiniteSets, Integers

CONSTANTS Gpus,        \* the devices that cc_discover_devices_once finds
          SlotThreads, \* threads inside calls that look a slot up
          ClContexts,  \* OpenCL contexts, as many as may exist at once (a bound)
          NoClContext,
          InitFirst    \* slots are looked up only while the driver is initialised

ASSUME GpuAssumption == NoClContext \notin ClContexts /\ InitFirst \in BOOLEAN

VARIABLES context,  \* the globals context and queue
          slots,    \* g_gpu_slots
          live,     \* the contexts that OpenCL holds
          fetching  \* where each thread is in cc_ensure_slot_initialized

gpuVars == <<context, slots, live, fetching>>

EmptySlot == [context |-> NoClContext, owns |-> FALSE, initialized |-> FALSE, inError |-> FALSE]
Elsewhere == [pc |-> "out"]

InitGpu ==
    /\ context = NoClContext
    /\ slots = [g \in Gpus |-> EmptySlot]
    /\ live = {}
    /\ fetching = [t \in SlotThreads |-> Elsewhere]

\* A context that clCreateContext may return: one that nobody refers to.
Fresh == ClContexts \ (live \cup {context} \cup {slots[g].context : g \in Gpus})

\* cc_mark_slot_initialized: the slot refers to the driver's own context.
Marked(o) == [context |-> o, owns |-> FALSE, initialized |-> TRUE, inError |-> FALSE]

\* initialize_gpu that succeeds; nothing happens when the globals are set.  One that
\* fails ends in shutdown_driver and leaves the state it found.
GpuReady(g) ==
    IF context # NoClContext
    THEN UNCHANGED <<context, slots, live>>
    ELSE \E o \in Fresh :
            /\ context' = o
            /\ live' = live \cup {o}
            /\ slots' = [slots EXCEPT ![g] = Marked(o)]

InitializeGpu(g) ==
    /\ context = NoClContext
    /\ GpuReady(g)
    /\ UNCHANGED fetching

\* cc_ensure_slot_initialized, under the lock: the slot has to be initialised.
CheckSlot(t, g) ==
    /\ fetching[t] = Elsewhere
    /\ InitFirst => context # NoClContext
    /\ ~slots[g].initialized \/ slots[g].inError
    /\ fetching' = [fetching EXCEPT ![t] = [pc |-> "checked", gpu |-> g]]
    /\ UNCHANGED <<context, slots, live>>

\* cc_initialize_slot_resources, without the lock.
CreateSlot(t) ==
    /\ fetching[t].pc = "checked"
    /\ \E o \in Fresh :
          /\ live' = live \cup {o}
          /\ slots' = [slots EXCEPT ![fetching[t].gpu] =
                [context |-> o, owns |-> TRUE, initialized |-> TRUE, inError |-> FALSE]]
    /\ fetching' = [fetching EXCEPT ![t].pc = "created"]
    /\ UNCHANGED context

CreateFails(t) ==
    /\ fetching[t].pc = "checked"
    /\ slots' = [slots EXCEPT ![fetching[t].gpu].inError = TRUE]
    /\ fetching' = [fetching EXCEPT ![t] = Elsewhere]
    /\ UNCHANGED <<context, live>>

\* The rest of cc_ensure_slot_initialized: without a context of its own the driver
\* takes the slot's.
MarkSlot(t) ==
    LET g == fetching[t].gpu IN
    /\ fetching[t].pc = "created"
    /\ slots' = [slots EXCEPT ![g].initialized = TRUE, ![g].inError = FALSE]
    /\ context' = IF context = NoClContext THEN slots[g].context ELSE context
    /\ fetching' = [fetching EXCEPT ![t] = Elsewhere]
    /\ UNCHANGED live

\* cc_reset_slot releases what the slot owns.
OwnedBySlots == {slots[g].context : g \in {h \in Gpus : slots[h].owns}}

\* Mutant: the slots are not reset.
ShutdownForgetsSlots ==
    /\ \A t \in SlotThreads : fetching[t] = Elsewhere
    /\ live' = live \ {context}
    /\ context' = NoClContext
    /\ UNCHANGED <<slots, fetching>>

\* shutdown_driver, which nobody calls while a thread is inside a lookup: the globals
\* are released, then every slot.
ShutdownDriver ==
    /\ \A t \in SlotThreads : fetching[t] = Elsewhere
    /\ live' = live \ ({context} \cup OwnedBySlots)
    /\ context' = NoClContext
    /\ slots' = [g \in Gpus |-> EmptySlot]
    /\ UNCHANGED fetching

NextGpu ==
    \/ \E g \in Gpus : InitializeGpu(g) \/ \E t \in SlotThreads : CheckSlot(t, g)
    \/ \E t \in SlotThreads : CreateSlot(t) \/ CreateFails(t) \/ MarkSlot(t)
    \/ ShutdownDriver

SpecGpu == InitGpu /\ [][NextGpu]_gpuVars

-----------------------------------------------------------------------------
\* Who releases a context when the driver shuts down.
Releasers(o) ==
    (IF context = o THEN {"driver"} ELSE {}) \cup {g \in Gpus : slots[g].owns /\ slots[g].context = o}

(* A context is released by one place at most, and the driver and the slots refer to *)
(* contexts that OpenCL still holds: whatever devices are initialised, looked up by  *)
(* several threads at once and shut down again, nothing is released twice or used    *)
(* after its release.                                                                *)
ReleasedOnce ==
    /\ \A o \in ClContexts : Cardinality(Releasers(o)) <= 1
    /\ ({context} \cup {slots[g].context : g \in Gpus}) \ {NoClContext} \subseteq live
=============================================================================
