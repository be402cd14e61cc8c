----------------------------- MODULE CoreProofs -----------------------------
(***************************************************************************)
(* Proofs about mycelia_core: who releases an OpenCL context (GpuSlots),   *)
(* and what the calls that share the one SubQG field leave of it, of       *)
(* MycelFS and of the blocks that the SDK encrypts (MyceliaCore).          *)
(***************************************************************************)
EXTENDS MyceliaCore, FiniteSetTheorems, TLAPS

-----------------------------------------------------------------------------
(* The inductive invariant of GpuSlots *)

SomeContext == ClContexts \cup {NoClContext}
SlotRecords ==
    [context : SomeContext, owns : BOOLEAN, initialized : BOOLEAN, inError : BOOLEAN]
Lookups == [pc : {"checked", "created"}, gpu : Gpus]

TypeOKGpu ==
    /\ context \in SomeContext
    /\ slots \in [Gpus -> SlotRecords]
    /\ live \subseteq ClContexts
    /\ fetching \in [SlotThreads -> Lookups \cup {Elsewhere}]

\* What the driver and the slots refer to is held by OpenCL.
RefersToLive ==
    /\ context # NoClContext => context \in live
    /\ \A g \in Gpus : slots[g].context # NoClContext => slots[g].context \in live

\* A slot owns a context that no other slot owns and that is not the driver's.
OwnsAlone ==
    \A g \in Gpus : slots[g].owns =>
        /\ slots[g].context \in ClContexts /\ slots[g].context # context
        /\ \A h \in Gpus : slots[h].owns /\ slots[h].context = slots[g].context => h = g

\* A thread that looks a slot up keeps the driver from being shut down, so that it never
\* makes the slot's context the driver's.
LookupNeedsDriver ==
    InitFirst => \A t \in SlotThreads : fetching[t] # Elsewhere => context # NoClContext

GpuInv == TypeOKGpu /\ RefersToLive /\ OwnsAlone /\ LookupNeedsDriver

-----------------------------------------------------------------------------
(* Contexts *)

LEMMA FreshFacts ==
    ASSUME NEW o \in Fresh
    PROVE  /\ o \in ClContexts /\ o \in SomeContext /\ o # NoClContext
           /\ o \notin live /\ o # context
           /\ \A g \in Gpus : slots[g].context # o
BY GpuAssumption DEF Fresh, SomeContext

\* initialize_gpu that succeeds.
LEMMA GpuReadyStep ==
    ASSUME GpuInv, NEW g \in Gpus, GpuReady(g), fetching' = fetching
    PROVE  GpuInv' /\ context' # NoClContext
<1>1. CASE context # NoClContext
  <2>1. context' = context /\ slots' = slots /\ live' = live
    BY <1>1 DEF GpuReady
  <2> QED
    BY <1>1, <2>1 DEF GpuInv, TypeOKGpu, RefersToLive, OwnsAlone, LookupNeedsDriver
<1>2. CASE context = NoClContext
  <2>1. PICK o \in Fresh : /\ context' = o /\ live' = live \cup {o}
                           /\ slots' = [slots EXCEPT ![g] = Marked(o)]
    BY <1>2 DEF GpuReady
  <2>2. /\ o \in ClContexts /\ o \in SomeContext /\ o # NoClContext /\ o \notin live
        /\ \A h \in Gpus : slots[h].context # o
    BY FreshFacts
  <2>3. /\ Marked(o) \in SlotRecords /\ Marked(o).context = o /\ ~ Marked(o).owns
    BY <2>2 DEF Marked, SlotRecords
  <2>4. /\ slots' \in [Gpus -> SlotRecords]
        /\ \A h \in Gpus : slots'[h] = IF h = g THEN Marked(o) ELSE slots[h]
    BY <2>1, <2>3 DEF GpuInv, TypeOKGpu
  <2>5. TypeOKGpu'
    BY <2>1, <2>2, <2>4 DEF GpuInv, TypeOKGpu
  <2>6. RefersToLive'
    BY <2>1, <2>3, <2>4 DEF GpuInv, RefersToLive
  <2>7. OwnsAlone'
    BY <2>1, <2>2, <2>3, <2>4 DEF GpuInv, OwnsAlone
  <2>8. LookupNeedsDriver'
    BY <2>1, <2>2 DEF LookupNeedsDriver
  <2> QED
    BY <2>1, <2>2, <2>5, <2>6, <2>7, <2>8 DEF GpuInv
<1> QED
  BY <1>1, <1>2

\* A slot gets a context of its own.
LEMMA SlotMadeStep ==
    ASSUME GpuInv, NEW g \in Gpus, NEW o \in Fresh,
           live' = live \cup {o}, context' = context,
           slots' = [slots EXCEPT ![g] =
                        [context |-> o, owns |-> TRUE, initialized |-> TRUE,
                         inError |-> FALSE]]
    PROVE  /\ live' \subseteq ClContexts /\ slots' \in [Gpus -> SlotRecords]
           /\ RefersToLive' /\ OwnsAlone'
<1> DEFINE s == [context |-> o, owns |-> TRUE, initialized |-> TRUE, inError |-> FALSE]
<1>1. /\ o \in ClContexts /\ o \in SomeContext /\ o # NoClContext
      /\ o \notin live /\ o # context /\ \A h \in Gpus : slots[h].context # o
  BY FreshFacts
<1>2. s \in SlotRecords /\ s.context = o /\ s.owns
  BY <1>1 DEF SlotRecords
<1>3. slots' = [slots EXCEPT ![g] = s]
  OBVIOUS
<1> HIDE DEF s
<1>4. /\ slots' \in [Gpus -> SlotRecords]
      /\ \A h \in Gpus : slots'[h] = IF h = g THEN s ELSE slots[h]
  BY <1>2, <1>3 DEF GpuInv, TypeOKGpu
<1>5. RefersToLive'
  BY <1>2, <1>4 DEF GpuInv, RefersToLive
<1>6. OwnsAlone'
  BY <1>1, <1>2, <1>4 DEF GpuInv, OwnsAlone
<1>7. live' \subseteq ClContexts
  BY <1>1 DEF GpuInv, TypeOKGpu
<1> QED
  BY <1>4, <1>5, <1>6, <1>7

\* The driver is shut down while no thread looks a slot up.
LEMMA ShutdownDriverStep ==
    ASSUME GpuInv, ShutdownDriver
    PROVE  GpuInv'
<1>1. /\ \A t \in SlotThreads : fetching[t] = Elsewhere
      /\ live' \subseteq live /\ context' = NoClContext
      /\ slots' = [g \in Gpus |-> EmptySlot] /\ fetching' = fetching
  BY DEF ShutdownDriver
<1>2. EmptySlot \in SlotRecords /\ EmptySlot.context = NoClContext /\ ~ EmptySlot.owns
  BY DEF EmptySlot, SlotRecords, SomeContext
<1>3. TypeOKGpu'
  BY <1>1, <1>2 DEF GpuInv, TypeOKGpu, SomeContext
<1> QED
  BY <1>1, <1>2, <1>3 DEF GpuInv, RefersToLive, OwnsAlone, LookupNeedsDriver

\* A thread in a lookup.
LEMMA LookupFacts ==
    ASSUME GpuInv, NEW t \in SlotThreads, fetching[t].pc \in {"checked", "created"}
    PROVE  /\ fetching[t] \in Lookups /\ fetching[t].gpu \in Gpus
           /\ fetching[t] # Elsewhere /\ (InitFirst => context # NoClContext)
<1>1. fetching[t] \in Lookups \cup {Elsewhere} /\ Elsewhere.pc = "out"
  BY DEF GpuInv, TypeOKGpu, Elsewhere
<1>2. fetching[t] \in Lookups /\ fetching[t] # Elsewhere
  BY <1>1
<1> QED
  BY <1>2 DEF Lookups, GpuInv, LookupNeedsDriver

LEMMA CheckSlotStep ==
    ASSUME GpuInv, NEW t \in SlotThreads, NEW g \in Gpus, CheckSlot(t, g)
    PROVE  GpuInv'
<1> DEFINE l == [pc |-> "checked", gpu |-> g]
<1>1. /\ fetching' = [fetching EXCEPT ![t] = l] /\ (InitFirst => context # NoClContext)
      /\ context' = context /\ slots' = slots /\ live' = live
  BY DEF CheckSlot
<1>2. l \in Lookups
  BY DEF Lookups
<1> HIDE DEF l
<1>3. TypeOKGpu'
  BY <1>1, <1>2 DEF GpuInv, TypeOKGpu
<1>4. LookupNeedsDriver'
  BY <1>1 DEF LookupNeedsDriver
<1> QED
  BY <1>1, <1>3, <1>4 DEF GpuInv, RefersToLive, OwnsAlone

LEMMA CreateSlotStep ==
    ASSUME GpuInv, NEW t \in SlotThreads, CreateSlot(t)
    PROVE  GpuInv'
<1> DEFINE g == fetching[t].gpu
<1>1. /\ fetching[t].pc = "checked" /\ context' = context
      /\ fetching' = [fetching EXCEPT ![t].pc = "created"]
  BY DEF CreateSlot
<1>2. /\ fetching[t] \in Lookups /\ g \in Gpus /\ fetching[t] # Elsewhere
      /\ InitFirst => context # NoClContext
  BY <1>1, LookupFacts
<1>3. PICK o \in Fresh :
          /\ live' = live \cup {o}
          /\ slots' = [slots EXCEPT ![g] =
                          [context |-> o, owns |-> TRUE, initialized |-> TRUE,
                           inError |-> FALSE]]
  BY DEF CreateSlot
<1>4. /\ live' \subseteq ClContexts /\ slots' \in [Gpus -> SlotRecords]
      /\ RefersToLive' /\ OwnsAlone'
  BY <1>1, <1>2, <1>3, SlotMadeStep, Zenon
<1>5. fetching' \in [SlotThreads -> Lookups \cup {Elsewhere}]
  BY <1>1, <1>2 DEF GpuInv, TypeOKGpu, Lookups
<1>6. LookupNeedsDriver'
  BY <1>1, <1>2 DEF LookupNeedsDriver
<1>7. TypeOKGpu'
  BY <1>1, <1>4, <1>5 DEF GpuInv, TypeOKGpu
<1> QED
  BY <1>4, <1>6, <1>7 DEF GpuInv

\* A lookup that ends changes at most the flags of its slot.
LEMMA LookupEndsStep ==
    ASSUME GpuInv, NEW t \in SlotThreads, NEW g \in Gpus, NEW s \in SlotRecords,
           s.context = slots[g].context, s.owns = slots[g].owns,
           slots' = [slots EXCEPT ![g] = s], context' = context, live' = live,
           fetching' = [fetching EXCEPT ![t] = Elsewhere]
    PROVE  GpuInv'
<1>1. /\ slots' \in [Gpus -> SlotRecords]
      /\ \A h \in Gpus : /\ slots'[h].context = slots[h].context
                         /\ slots'[h].owns = slots[h].owns
  BY DEF GpuInv, TypeOKGpu
<1>2. TypeOKGpu'
  BY <1>1 DEF GpuInv, TypeOKGpu
<1>3. RefersToLive' /\ OwnsAlone'
  BY <1>1 DEF GpuInv, RefersToLive, OwnsAlone
<1>4. LookupNeedsDriver'
  BY DEF GpuInv, LookupNeedsDriver, TypeOKGpu
<1> QED
  BY <1>2, <1>3, <1>4 DEF GpuInv

LEMMA SlotEdited ==
    ASSUME NEW all \in [Gpus -> SlotRecords], NEW g \in Gpus
    PROVE  /\ [all EXCEPT ![g].inError = TRUE] =
                  [all EXCEPT ![g] = [all[g] EXCEPT !.inError = TRUE]]
           /\ [all EXCEPT ![g].initialized = TRUE, ![g].inError = FALSE] =
                  [all EXCEPT ![g] = [all[g] EXCEPT !.initialized = TRUE, !.inError = FALSE]]
           /\ [all[g] EXCEPT !.inError = TRUE] \in SlotRecords
           /\ [all[g] EXCEPT !.initialized = TRUE, !.inError = FALSE] \in SlotRecords
<1>1. all[g] \in SlotRecords
  OBVIOUS
<1>2. [all[g] EXCEPT !.inError = TRUE] \in SlotRecords
  BY <1>1, Zenon DEF SlotRecords
<1>3. [all[g] EXCEPT !.initialized = TRUE, !.inError = FALSE] \in SlotRecords
  BY <1>1, Zenon DEF SlotRecords
<1>4. [all EXCEPT ![g].inError = TRUE] =
          [all EXCEPT ![g] = [all[g] EXCEPT !.inError = TRUE]]
  OBVIOUS
<1>5. [all EXCEPT ![g].initialized = TRUE, ![g].inError = FALSE] =
          [all EXCEPT ![g] = [all[g] EXCEPT !.initialized = TRUE, !.inError = FALSE]]
  OBVIOUS
<1> QED
  BY <1>2, <1>3, <1>4, <1>5

LEMMA CreateFailsStep ==
    ASSUME GpuInv, NEW t \in SlotThreads, CreateFails(t)
    PROVE  GpuInv'
<1> DEFINE g == fetching[t].gpu
           s == [slots[g] EXCEPT !.inError = TRUE]
<1>1. /\ fetching[t].pc = "checked" /\ context' = context /\ live' = live
      /\ slots' = [slots EXCEPT ![g].inError = TRUE]
      /\ fetching' = [fetching EXCEPT ![t] = Elsewhere]
  BY DEF CreateFails
<1>2. g \in Gpus
  BY <1>1, LookupFacts
<1>3. slots \in [Gpus -> SlotRecords]
  BY DEF GpuInv, TypeOKGpu
<1>4. slots' = [slots EXCEPT ![g] = s] /\ s \in SlotRecords
  BY <1>1, <1>2, <1>3, SlotEdited, Zenon
<1>5. s.context = slots[g].context /\ s.owns = slots[g].owns
  BY <1>2, <1>3 DEF SlotRecords
<1> HIDE DEF g, s
<1> QED
  BY <1>1, <1>2, <1>4, <1>5, LookupEndsStep

LEMMA MarkSlotStep ==
    ASSUME GpuInv, NEW t \in SlotThreads, InitFirst, MarkSlot(t)
    PROVE  GpuInv'
<1> DEFINE g == fetching[t].gpu
           s == [slots[g] EXCEPT !.initialized = TRUE, !.inError = FALSE]
<1>1. /\ fetching[t].pc = "created" /\ live' = live
      /\ slots' = [slots EXCEPT ![g].initialized = TRUE, ![g].inError = FALSE]
      /\ context' = IF context = NoClContext THEN slots[g].context ELSE context
      /\ fetching' = [fetching EXCEPT ![t] = Elsewhere]
  BY DEF MarkSlot
<1>2. g \in Gpus /\ context # NoClContext
  BY <1>1, LookupFacts
<1>3. slots \in [Gpus -> SlotRecords] /\ context' = context
  BY <1>1, <1>2 DEF GpuInv, TypeOKGpu
<1>4. slots' = [slots EXCEPT ![g] = s] /\ s \in SlotRecords
  BY <1>1, <1>2, <1>3, SlotEdited, Zenon
<1>5. s.context = slots[g].context /\ s.owns = slots[g].owns
  BY <1>2, <1>3 DEF SlotRecords
<1> HIDE DEF g, s
<1> QED
  BY <1>1, <1>2, <1>3, <1>4, <1>5, LookupEndsStep

-----------------------------------------------------------------------------
(* The theorem about contexts *)

LEMMA InitGpuInv == InitGpu => GpuInv
BY DEF InitGpu, GpuInv, TypeOKGpu, RefersToLive, OwnsAlone, LookupNeedsDriver, EmptySlot,
       SlotRecords, SomeContext

LEMMA StepGpuInv == InitFirst /\ GpuInv /\ [NextGpu]_gpuVars => GpuInv'
<1> SUFFICES ASSUME InitFirst, GpuInv, [NextGpu]_gpuVars PROVE GpuInv'
  OBVIOUS
<1>1. CASE UNCHANGED gpuVars
  BY <1>1
  DEF gpuVars, GpuInv, TypeOKGpu, RefersToLive, OwnsAlone, LookupNeedsDriver
<1>2. ASSUME NEW g \in Gpus, InitializeGpu(g) \/ \E t \in SlotThreads : CheckSlot(t, g)
      PROVE  GpuInv'
  BY <1>2, GpuReadyStep, CheckSlotStep DEF InitializeGpu
<1>3. ASSUME NEW t \in SlotThreads, CreateSlot(t) \/ CreateFails(t) \/ MarkSlot(t)
      PROVE  GpuInv'
  BY <1>3, CreateSlotStep, CreateFailsStep, MarkSlotStep
<1>4. CASE ShutdownDriver
  BY <1>4, ShutdownDriverStep
<1> QED
  BY <1>1, <1>2, <1>3, <1>4 DEF NextGpu

LEMMA InvIsReleasedOnce == GpuInv => ReleasedOnce
<1> SUFFICES ASSUME GpuInv PROVE ReleasedOnce
  OBVIOUS
<1>1. ASSUME NEW o \in ClContexts PROVE Cardinality(Releasers(o)) <= 1
  <2>1. CASE Releasers(o) = {}
    BY <2>1, FS_EmptySet
  <2>2. CASE \E x : Releasers(o) = {x}
    <3>1. PICK x : Releasers(o) = {x}
      BY <2>2
    <3>2. Cardinality({x}) = 1
      BY FS_Singleton
    <3>3. Cardinality(Releasers(o)) = 1
      BY <3>1, <3>2, Zenon
    <3> QED
      BY <3>3
  <2>3. ASSUME NEW x \in Releasers(o), NEW y \in Releasers(o) PROVE x = y
    <3>1. \A z \in Releasers(o) :
              \/ context = o /\ z = "driver"
              \/ z \in Gpus /\ slots[z].owns /\ slots[z].context = o
      BY DEF Releasers
    <3>2. CASE context = o
      <4>1. \A g \in Gpus : ~ (slots[g].owns /\ slots[g].context = o)
        BY <3>2 DEF GpuInv, OwnsAlone
      <4> QED
        BY <3>1, <4>1
    <3>3. CASE context # o
      BY <3>1, <3>3 DEF GpuInv, OwnsAlone
    <3> QED
      BY <3>2, <3>3
  <2> QED
    BY <2>1, <2>2, <2>3
<1>2. ({context} \cup {slots[g].context : g \in Gpus}) \ {NoClContext} \subseteq live
  BY DEF GpuInv, RefersToLive
<1> QED
  BY <1>1, <1>2 DEF ReleasedOnce

\* Where slots are looked up only while the driver runs (InitFirst), no context is released
\* twice and none is used after its release, for any number of devices, threads and
\* contexts.
THEOREM ContextsReleasedOnce == ASSUME InitFirst PROVE SpecGpu => []ReleasedOnce
<1>1. GpuInv /\ [NextGpu]_gpuVars => GpuInv'
  BY StepGpuInv
<1> QED
  BY <1>1, InitGpuInv, InvIsReleasedOnce, PTL DEF SpecGpu

-----------------------------------------------------------------------------
(* What a call leaves of the field *)

Energies == {"none", "zero", "half", "grown"}
FieldRecords ==
    [initialized : BOOLEAN, width : Nat, height : Nat, cells : Nat, elements : Nat,
     buffer : Nat, madeIn : SomeContext, energy : Energies]
Outcomes == [ok : BOOLEAN, field : FieldRecords, failed : Nat]
Grids == (Nat \ {0}) \X (Nat \ {0})

\* An initialised field has buffers of its size in the context o.
Fits(f, o) ==
    f.initialized =>
        /\ f.cells > 0 /\ f.buffer = f.cells /\ f.elements = f.cells
        /\ f.madeIn = o /\ o # NoClContext

\* Without a failure a field is whole or absent.
Whole(f) ==
    /\ f.initialized \/ f = NoField
    /\ f.initialized => f.width * f.height = f.cells

\* The outcome p of a call on the field f in the context o.
Good(p, f, o) ==
    /\ p \in Outcomes /\ Fits(p.field, o)
    /\ p.failed = 0 /\ Whole(f) => Whole(p.field)

LEMMA FieldEdited ==
    ASSUME NEW f \in FieldRecords
    PROVE  /\ \A w, h, n \in Nat :
                  [f EXCEPT !.width = w, !.height = h, !.elements = n] \in FieldRecords
           /\ \A n \in Nat, o \in SomeContext :
                  [f EXCEPT !.buffer = n, !.madeIn = o] \in FieldRecords
           /\ \A n \in Nat, e \in Energies :
                  [f EXCEPT !.initialized = TRUE, !.cells = n, !.energy = e] \in FieldRecords
           /\ \A n \in Nat : [f EXCEPT !.buffer = n] \in FieldRecords
           /\ \A w, h, c, n \in Nat :
                  [f EXCEPT !.width = w, !.height = h, !.cells = c, !.elements = n]
                      \in FieldRecords
           /\ \A e \in Energies : [f EXCEPT !.energy = e] \in FieldRecords
BY Zenon DEF FieldRecords

LEMMA NoFieldFacts ==
    /\ NoField \in FieldRecords /\ ~ NoField.initialized
    /\ NoField.width = 0 /\ NoField.height = 0 /\ NoField.buffer = 0
BY DEF NoField, FieldRecords, SomeContext, Energies

LEMMA AfterFacts ==
    ASSUME NEW i \in Outcomes, NEW S \in SUBSET Outcomes, NEW p \in After(i, S)
    PROVE  \E r \in S : /\ p \in Outcomes /\ p.field = r.field /\ (p.ok <=> r.ok)
                        /\ p.failed = r.failed + i.failed
<1>1. PICK r \in S : p = [r EXCEPT !.failed = r.failed + i.failed]
  BY DEF After
<1>2. r \in Outcomes /\ i.failed \in Nat
  BY DEF Outcomes
<1>3. r.failed + i.failed \in Nat
  BY <1>2 DEF Outcomes
<1> QED
  BY <1>1, <1>2, <1>3 DEF Outcomes

LEMMA ReleasedFacts ==
    ASSUME NEW f \in FieldRecords
    PROVE  /\ Released(f) \in FieldRecords /\ ~ Released(f).initialized
           /\ Whole(f) => Released(f) = NoField
           /\ Whole(Released(f)) \/ Released(f) = f
BY NoFieldFacts DEF Released, Whole

\* Two factors above 0.
LEMMA ProductFacts ==
    ASSUME NEW w \in Nat \ {0}, NEW h \in Nat \ {0}
    PROVE  w * h \in Nat \ {0}
OBVIOUS

\* subqg_initialize_state_batched.
LEMMA InitializeGood ==
    ASSUME NEW f \in FieldRecords, NEW n \in Nat \ {0}, NEW e \in Energies,
           NEW o \in SomeContext, Fits(f, o), NEW p \in InitializeField(f, n, e, o)
    PROVE  /\ Good(p, f, o)
           /\ p.ok => /\ o # NoClContext /\ p.failed = 0
                      /\ p.field.initialized /\ p.field.cells = n /\ p.field.buffer = n
                      /\ p.field.energy = e
                      /\ Whole(f) => p.field.width = n /\ p.field.height = 1
           /\ ~ p.ok => o = NoClContext \/ p.failed = 1
<1> DEFINE r == Released(f)
           w == Positive(r.width, n)
           h == Positive(r.height, 1)
           sized == [r EXCEPT !.width = w, !.height = h, !.elements = n]
           made == [sized EXCEPT !.buffer = n, !.madeIn = o]
           whole == [made EXCEPT !.initialized = TRUE, !.cells = n, !.energy = e]
           none == [sized EXCEPT !.buffer = 0]
<1>1. CASE o = NoClContext
  <2>1. p = Ends(FALSE, f, 0)
    BY <1>1 DEF InitializeField
  <2>2. p \in Outcomes /\ ~ p.ok /\ p.field = f /\ p.failed = 0
    BY <2>1 DEF Ends, Outcomes
  <2> QED
    BY <1>1, <2>2 DEF Good
<1>2. CASE o # NoClContext
  <2>1. \/ p = Ends(TRUE, whole, 0)
        \/ p = Ends(FALSE, sized, 1) \/ p = Ends(FALSE, none, 1) \/ p = Ends(FALSE, made, 1)
    BY <1>2 DEF InitializeField
  <2>2. /\ r \in FieldRecords /\ ~ r.initialized /\ (Whole(f) => r = NoField)
    BY ReleasedFacts
  <2> HIDE DEF r
  <2>3. /\ w \in Nat /\ h \in Nat /\ n \in Nat
        /\ Whole(f) => w = n /\ h = 1
    <3>1. r.width \in Nat /\ r.height \in Nat
      BY <2>2 DEF FieldRecords
    <3> QED
      BY <2>2, <3>1, NoFieldFacts DEF Positive
  <2> HIDE DEF w, h
  <2>4. sized \in FieldRecords
    BY <2>2, <2>3, FieldEdited, Zenon
  <2>5. ~ sized.initialized /\ sized.width = w /\ sized.height = h /\ sized.elements = n
    BY <2>2 DEF FieldRecords
  <2> HIDE DEF sized
  <2>6. none \in FieldRecords
    <3>1. 0 \in Nat
      OBVIOUS
    <3> QED
      BY <2>4, <3>1, FieldEdited, Zenon
  <2>7. ~ none.initialized
    BY <2>4, <2>5 DEF FieldRecords
  <2>8. made \in FieldRecords
    BY <2>3, <2>4, FieldEdited, Zenon
  <2>9. /\ ~ made.initialized /\ made.width = w /\ made.height = h /\ made.elements = n
        /\ made.buffer = n /\ made.madeIn = o
    BY <2>4, <2>5 DEF FieldRecords
  <2> HIDE DEF made, none
  <2>10. whole \in FieldRecords
    BY <2>3, <2>8, FieldEdited, Zenon
  <2>11. /\ whole.initialized /\ whole.cells = n /\ whole.energy = e
         /\ whole.width = w /\ whole.height = h /\ whole.elements = n
         /\ whole.buffer = n /\ whole.madeIn = o
    BY <2>8, <2>9 DEF FieldRecords
  <2> HIDE DEF whole
  <2>12. CASE p = Ends(TRUE, whole, 0)
    <3>1. p \in Outcomes /\ p.ok /\ p.field = whole /\ p.failed = 0
      BY <2>10, <2>12 DEF Ends, Outcomes
    <3> QED
      BY <1>2, <2>3, <2>11, <3>1 DEF Good, Fits, Whole
  <2>13. ASSUME NEW g \in FieldRecords, ~ g.initialized, p = Ends(FALSE, g, 1)
         PROVE  p \in Outcomes /\ ~ p.ok /\ p.failed = 1 /\ Good(p, f, o)
    <3>1. p \in Outcomes /\ ~ p.ok /\ p.field = g /\ p.failed = 1
      BY <2>13 DEF Ends, Outcomes
    <3>2. Fits(p.field, o)
      BY <2>13, <3>1 DEF Fits
    <3>3. ~ (p.failed = 0)
      BY <3>1
    <3> QED
      BY <3>1, <3>2, <3>3 DEF Good
  <2> QED
    BY <2>1, <2>4, <2>5, <2>6, <2>7, <2>8, <2>9, <2>12, <2>13
<1> QED
  BY <1>1, <1>2

\* ensure_subqg_state.
LEMMA EnsureGood ==
    ASSUME NEW f \in FieldRecords, NEW grid \in Grids, NEW o \in SomeContext, Fits(f, o),
           NEW p \in Ensure(f, grid, o)
    PROVE  Good(p, f, o)
<1> DEFINE w == grid[1]
           h == grid[2]
           n == w * h
           made == InitializeField(f, n, "zero", o)
           Sized(g) == [g EXCEPT !.width = w, !.height = h, !.cells = n, !.elements = n]
<1>1. w \in Nat \ {0} /\ h \in Nat \ {0}
  BY DEF Grids
<1>2. n \in Nat \ {0} /\ "zero" \in Energies
  BY <1>1, ProductFacts DEF Energies
<1>3. \A i \in made : Good(i, f, o)
  BY <1>2, InitializeGood
<1>4. CASE p = Ends(TRUE, f, 0)
  <2>1. p \in Outcomes /\ p.field = f
    BY <1>4 DEF Ends, Outcomes
  <2> QED
    BY <2>1 DEF Good
<1>5. CASE p \in made
  BY <1>3, <1>5
<1>6. ASSUME NEW i \in made, i.ok,
             p \in After(i, {Ends(TRUE, Sized(i.field), 0), Ends(FALSE, Sized(i.field), 1)})
      PROVE  Good(p, f, o)
  <2> DEFINE g == i.field
             S == {Ends(TRUE, Sized(g), 0), Ends(FALSE, Sized(g), 1)}
  <2>1. /\ i \in Outcomes /\ g \in FieldRecords /\ o # NoClContext
        /\ g.initialized /\ g.cells = n /\ g.buffer = n /\ Fits(g, o)
    BY <1>2, <1>3, <1>6, InitializeGood DEF Good, Outcomes
  <2>2. Sized(g) \in FieldRecords
    <3>1. w \in Nat /\ h \in Nat /\ n \in Nat
      BY <1>1, <1>2
    <3> HIDE DEF w, h, n
    <3> QED
      BY <2>1, <3>1, FieldEdited, Zenon
  <2>3. /\ Sized(g).initialized /\ Sized(g).width = w /\ Sized(g).height = h
        /\ Sized(g).cells = n /\ Sized(g).elements = n /\ Sized(g).buffer = n
        /\ Sized(g).madeIn = o
    <3> HIDE DEF n
    <3> QED
      BY <2>1 DEF FieldRecords, Fits
  <2> HIDE DEF Sized, g
  <2>4. S \in SUBSET Outcomes /\ \A r \in S : r.field = Sized(g)
    BY <2>2 DEF Ends, Outcomes
  <2>5. p.field = Sized(g) /\ p \in Outcomes
    <3>1. p \in After(i, S)
      BY <1>6 DEF g
    <3> HIDE DEF S
    <3> QED
      BY <2>1, <2>4, <3>1, AfterFacts
  <2> QED
    BY <1>2, <2>1, <2>3, <2>5 DEF Good, Fits, Whole
<1>7. \/ p = Ends(TRUE, f, 0) \/ p \in made
      \/ \E i \in made :
             /\ i.ok
             /\ p \in After(i, {Ends(TRUE, Sized(i.field), 0), Ends(FALSE, Sized(i.field), 1)})
  BY DEF Ensure
<1> QED
  BY <1>4, <1>5, <1>6, <1>7

\* What subqg_simulation_step leaves of a field that is ready.
StepEnds(g, batch, noise, o) ==
    IF o = NoClContext \/ g.cells # batch THEN {Ends(FALSE, g, 0)}
    ELSE {Ends(TRUE, Evolved(g, noise), 0),
          Ends(FALSE, g, 1), Ends(FALSE, Evolved(g, noise), 1)}

LEMMA EvolvedFacts ==
    ASSUME NEW g \in FieldRecords, NEW noise \in BOOLEAN
    PROVE  /\ Evolved(g, noise) \in FieldRecords
           /\ Evolved(g, noise).initialized = g.initialized
           /\ Evolved(g, noise).width = g.width /\ Evolved(g, noise).height = g.height
           /\ Evolved(g, noise).cells = g.cells /\ Evolved(g, noise).elements = g.elements
           /\ Evolved(g, noise).buffer = g.buffer /\ Evolved(g, noise).madeIn = g.madeIn
           /\ g.width * g.height = 1 /\ ~ noise => Evolved(g, noise).energy = g.energy
<1> DEFINE e == IF g.width * g.height = 1 /\ ~ noise THEN g.energy ELSE "grown"
<1>1. Evolved(g, noise) = [g EXCEPT !.energy = e]
  BY DEF Evolved
<1>2. e \in Energies /\ (g.width * g.height = 1 /\ ~ noise => e = g.energy)
  BY DEF FieldRecords, Energies
<1> HIDE DEF e
<1> QED
  BY <1>1, <1>2 DEF FieldRecords

LEMMA StepEndsGood ==
    ASSUME NEW g \in FieldRecords, NEW batch \in Nat \ {0}, NEW noise \in BOOLEAN,
           NEW o \in SomeContext, Fits(g, o), NEW r \in StepEnds(g, batch, noise, o)
    PROVE  Good(r, g, o) /\ r.field \in {g, Evolved(g, noise)}
<1> DEFINE v == Evolved(g, noise)
<1>1. /\ v \in FieldRecords /\ v.initialized = g.initialized /\ v.width = g.width
      /\ v.height = g.height /\ v.cells = g.cells /\ v.elements = g.elements
      /\ v.buffer = g.buffer /\ v.madeIn = g.madeIn
  BY EvolvedFacts
<1> HIDE DEF v
<1>2. CASE r = Ends(FALSE, g, 0) \/ r = Ends(FALSE, g, 1)
  <2>1. PICK n \in Nat : r = Ends(FALSE, g, n)
    BY <1>2
  <2>2. r \in Outcomes /\ r.field = g
    BY <2>1 DEF Ends, Outcomes
  <2> QED
    BY <2>2 DEF Good
<1>3. CASE g.cells = batch /\ (r = Ends(TRUE, v, 0) \/ r = Ends(FALSE, v, 1))
  <2>1. r \in Outcomes /\ r.field = v
    <3>1. PICK ok \in BOOLEAN, n \in Nat : r = Ends(ok, v, n)
      BY <1>3
    <3> QED
      BY <1>1, <3>1 DEF Ends, Outcomes
  <2>2. Fits(v, o)
    BY <1>1 DEF Fits
  <2>3. Whole(g) => Whole(v)
    <3>1. g # NoField
      BY <1>3 DEF NoField
    <3> QED
      BY <1>1, <3>1 DEF Whole
  <2> QED
    BY <2>1, <2>2, <2>3 DEF Good, v
<1> QED
  BY <1>2, <1>3 DEF StepEnds, v

\* subqg_simulation_step.
LEMMA StepCases ==
    ASSUME NEW f \in FieldRecords, NEW noise \in BOOLEAN, NEW o \in SomeContext,
           Fits(f, o), NEW p \in Step(f, noise, o)
    PROVE  \E i \in Outcomes :
               /\ Good(i, f, o)
               /\ f.initialized => i.ok /\ i.field = f /\ i.failed = 0
               /\ \/ ~ i.ok /\ p = i
                  \/ i.ok /\ p \in After(i, StepEnds(i.field, Positive(f.cells, 1), noise, o))
<1> DEFINE batch == Positive(f.cells, 1)
           grid == <<Positive(f.width, batch), Positive(f.height, 1)>>
           ready == IF f.initialized THEN {Ends(TRUE, f, 0)} ELSE Ensure(f, grid, o)
<1>1. PICK i \in ready :
          \/ ~ i.ok /\ p = i
          \/ i.ok /\ p \in After(i, StepEnds(i.field, batch, noise, o))
  BY DEF Step, StepEnds
<1>2. grid \in Grids
  <2>1. f.width \in Nat /\ f.height \in Nat /\ f.cells \in Nat
    BY DEF FieldRecords
  <2>2. batch \in Nat \ {0}
    BY <2>1 DEF Positive
  <2> HIDE DEF batch
  <2>3. Positive(f.width, batch) \in Nat \ {0} /\ Positive(f.height, 1) \in Nat \ {0}
    BY <2>1, <2>2 DEF Positive
  <2> QED
    BY <2>3 DEF Grids
<1>3. CASE f.initialized
  <2>1. i = Ends(TRUE, f, 0)
    BY <1>3
  <2>2. i \in Outcomes /\ i.ok /\ i.field = f /\ i.failed = 0
    BY <2>1 DEF Ends, Outcomes
  <2>3. Good(i, f, o)
    BY <2>2 DEF Good
  <2> QED
    BY <1>1, <2>2, <2>3
<1>4. CASE ~ f.initialized
  <2> HIDE DEF grid, batch
  <2>1. Good(i, f, o)
    BY <1>2, <1>4, EnsureGood
  <2> QED
    BY <1>1, <1>4, <2>1 DEF Good, batch
<1> QED
  BY <1>3, <1>4

LEMMA StepGood ==
    ASSUME NEW f \in FieldRecords, NEW noise \in BOOLEAN, NEW o \in SomeContext,
           Fits(f, o), NEW p \in Step(f, noise, o)
    PROVE  Good(p, f, o)
<1> DEFINE batch == Positive(f.cells, 1)
<1>1. PICK i \in Outcomes :
          /\ Good(i, f, o)
          /\ \/ ~ i.ok /\ p = i
             \/ i.ok /\ p \in After(i, StepEnds(i.field, batch, noise, o))
  BY StepCases
<1>2. CASE p = i
  BY <1>1, <1>2
<1>3. CASE p \in After(i, StepEnds(i.field, batch, noise, o))
  <2>1. /\ batch \in Nat \ {0} /\ i.field \in FieldRecords /\ i.failed \in Nat
        /\ Fits(i.field, o)
    BY <1>1 DEF Positive, FieldRecords, Good, Outcomes
  <2> HIDE DEF batch
  <2>2. \A r \in StepEnds(i.field, batch, noise, o) : Good(r, i.field, o)
    BY <2>1, StepEndsGood
  <2>3. StepEnds(i.field, batch, noise, o) \in SUBSET Outcomes
    BY <2>2 DEF Good
  <2>4. PICK r \in StepEnds(i.field, batch, noise, o) :
            p \in Outcomes /\ p.field = r.field /\ p.failed = r.failed + i.failed
    BY <1>3, <2>3, AfterFacts
  <2>5. r.failed \in Nat
    BY <2>3 DEF Outcomes
  <2>6. p.failed = 0 => r.failed = 0 /\ i.failed = 0
    BY <2>1, <2>4, <2>5
  <2> QED
    BY <1>1, <2>2, <2>4, <2>6 DEF Good
<1> QED
  BY <1>1, <1>2, <1>3

\* A step without noise leaves a field of one cell as it is.
LEMMA OneCellStays ==
    ASSUME NEW f \in FieldRecords, NEW o \in SomeContext, Fits(f, o), f.initialized,
           f.width = 1, f.height = 1, NEW p \in Step(f, FALSE, o)
    PROVE  p.field.energy = f.energy /\ p.field.cells = f.cells
<1> DEFINE batch == Positive(f.cells, 1)
<1>1. PICK i \in Outcomes :
          /\ i.ok /\ i.field = f /\ i.failed = 0
          /\ p \in After(i, StepEnds(f, batch, FALSE, o))
  BY StepCases
<1>2. batch \in Nat \ {0}
  BY DEF Positive, FieldRecords
<1> HIDE DEF batch
<1>3. \A r \in StepEnds(f, batch, FALSE, o) : r \in Outcomes /\ r.field \in {f, Evolved(f, FALSE)}
  BY <1>2, StepEndsGood DEF Good
<1>4. StepEnds(f, batch, FALSE, o) \in SUBSET Outcomes
  BY <1>3
<1>5. PICK r \in StepEnds(f, batch, FALSE, o) : p.field = r.field
  BY <1>1, <1>4, AfterFacts
<1>6. f.width * f.height = 1
  OBVIOUS
<1>7. Evolved(f, FALSE).energy = f.energy /\ Evolved(f, FALSE).cells = f.cells
  BY <1>6, EvolvedFacts
<1> QED
  BY <1>3, <1>5, <1>7

\* The field of which a key is made: one cell with the energy of the initialisation.
LEMMA KeyFieldFacts ==
    ASSUME NEW f \in FieldRecords, NEW o \in SomeContext, Fits(f, o), NEW p \in KeyField(f, o)
    PROVE  /\ Good(p, f, o)
           /\ p.failed = 0 /\ Whole(f) /\ o # NoClContext =>
                  p.field.energy = "half" /\ p.field.cells = 1
<1>1. PICK i \in InitializeField(f, 1, "half", o) : p \in After(i, Step(i.field, FALSE, o))
  BY DEF KeyField
<1>2. /\ Good(i, f, o)
      /\ i.ok => /\ i.field.initialized /\ i.field.cells = 1 /\ i.field.energy = "half"
                 /\ Whole(f) => i.field.width = 1 /\ i.field.height = 1
      /\ ~ i.ok => o = NoClContext \/ i.failed = 1
  <2>1. "half" \in Energies /\ 1 \in Nat \ {0}
    BY DEF Energies
  <2> QED
    BY <2>1, InitializeGood
<1>3. i \in Outcomes /\ i.field \in FieldRecords /\ i.failed \in Nat /\ Fits(i.field, o)
  BY <1>2 DEF Good, Outcomes
<1>4. \A r \in Step(i.field, FALSE, o) : Good(r, i.field, o)
  BY <1>3, StepGood
<1>5. Step(i.field, FALSE, o) \in SUBSET Outcomes
  BY <1>4 DEF Good
<1>6. PICK r \in Step(i.field, FALSE, o) :
          p \in Outcomes /\ p.field = r.field /\ p.failed = r.failed + i.failed
  BY <1>1, <1>3, <1>5, AfterFacts
<1>7. r.failed \in Nat
  BY <1>5 DEF Outcomes
<1>8. p.failed = 0 => r.failed = 0 /\ i.failed = 0
  BY <1>3, <1>6, <1>7
<1>9. Good(p, f, o)
  BY <1>2, <1>4, <1>6, <1>8 DEF Good
<1>10. ASSUME p.failed = 0, Whole(f), o # NoClContext
       PROVE  p.field.energy = "half" /\ p.field.cells = 1
  <2>1. i.ok
    BY <1>2, <1>8, <1>10
  <2> QED
    BY <1>2, <1>3, <1>6, <1>10, <2>1, OneCellStays
<1> QED
  BY <1>9, <1>10
-----------------------------------------------------------------------------
(* The inductive invariant of MyceliaCore *)

FsRecords == [initialized : BOOLEAN, desynced : BOOLEAN, buffers : SomeContext]
Seeds == SdkSeeds \cup {"unset"}
ClosedRecords == [state : {"new", "closed"}]
OpenRecords == [state : {"open"}, seed : Seeds, cache : SdkContexts \cup {"zeros", "field"}]
SdkRecords == ClosedRecords \cup OpenRecords
TextRecords == [first : SUBSET Energies, rest : SUBSET (SdkContexts \cup {"field"})]
Keys == SdkContexts \X Seeds

\* The field is that of the driver's context.
FieldOK ==
    /\ field \in FieldRecords /\ failures \in Nat
    /\ Fits(field, context)
    /\ failures = 0 => Whole(field)

\* The buffers of MycelFS are in the driver's context; initialised, so is its slot.
FsOK ==
    /\ fs \in FsRecords /\ closed \in BOOLEAN
    /\ fs.buffers # NoClContext => fs.buffers = context
    /\ fs.initialized =>
          /\ fs.buffers = context /\ context # NoClContext
          /\ slots[MycelGpu].context = context
    /\ closed => fs.desynced \/ ~ fs.initialized

IsOdd(S) == Cardinality(S) % 2 = 1
By(S, c) == {p \in S : p[1] = c}

\* Without a failure every block got one key of the field per call, and a context's key
\* cache adds the same bytes to the others in each of its calls.
BlockOK(t, S, all) ==
    /\ t.first = IF IsOdd(S) THEN {"half"} ELSE {}
    /\ t.rest \subseteq SdkContexts
    /\ \A c \in SdkContexts :
          /\ c \in t.rest => IsOdd(By(S, c))
          /\ all[c].state = "new" => By(S, c) = {}
          /\ all[c].state = "open" /\ all[c].cache = c /\ IsOdd(By(S, c)) => c \in t.rest
          /\ all[c].state = "open" /\ all[c].cache # c => c \notin t.rest

OwnCache(c, all) == all[c].state = "open" => all[c].cache \in {"zeros", c}

TypeOKSdk ==
    /\ sdk \in [SdkContexts -> SdkRecords]
    /\ text \in [SdkBlocks -> TextRecords]
    /\ odd \in [SdkBlocks -> SUBSET Keys]
    /\ \A b \in SdkBlocks : IsFiniteSet(odd[b])

TextOK ==
    failures = 0 =>
        /\ \A c \in SdkContexts : OwnCache(c, sdk)
        /\ \A b \in SdkBlocks : BlockOK(text[b], odd[b], sdk)

CoreInv == GpuInv /\ FieldOK /\ FsOK /\ TypeOKSdk /\ TextOK

-----------------------------------------------------------------------------
(* Calls on the field *)

LEMMA FailedToo ==
    ASSUME NEW f \in FieldRecords, NEW o, NEW p, Good(p, f, o)
    PROVE  Good([p EXCEPT !.failed = @ + 1], f, o)
<1> DEFINE r == [p EXCEPT !.failed = @ + 1]
<1>1. p \in Outcomes /\ p.failed \in Nat
  BY DEF Good, Outcomes
<1>2. p.failed + 1 \in Nat /\ p.failed + 1 # 0
  BY <1>1
<1>3. r \in Outcomes /\ r.field = p.field /\ r.failed # 0
  BY <1>1, <1>2 DEF Outcomes
<1> HIDE DEF r
<1>4. Good(r, f, o)
  BY <1>3 DEF Good
<1> QED
  BY <1>4 DEF r

\* A call that ends with the outcome p in the context that is the driver's then.
LEMMA OutcomeStep ==
    ASSUME field \in FieldRecords, failures \in Nat, failures = 0 => Whole(field),
           NEW p, Good(p, field, context'), Outcome(p)
    PROVE  FieldOK' /\ (failures' = 0 => failures = 0 /\ p.failed = 0)
<1>1. /\ p.failed \in Nat /\ p.field \in FieldRecords /\ Fits(p.field, context')
      /\ field' = p.field /\ failures' = failures + p.failed
      /\ p.failed = 0 /\ Whole(field) => Whole(p.field)
  BY DEF Good, Outcomes, Outcome
<1>2. failures' \in Nat /\ (failures' = 0 => failures = 0 /\ p.failed = 0)
  BY <1>1
<1> QED
  BY <1>1, <1>2 DEF FieldOK

LEMMA SdkUnchanged ==
    ASSUME TypeOKSdk, TextOK, UNCHANGED sdkVars, failures' = 0 => failures = 0
    PROVE  TypeOKSdk' /\ TextOK'
<1>1. sdk' = sdk /\ text' = text /\ odd' = odd
  BY DEF sdkVars
<1>2. TypeOKSdk'
  BY <1>1 DEF TypeOKSdk
<1>3. TextOK'
  BY <1>1 DEF TextOK
<1> QED
  BY <1>2, <1>3

LEMMA FsUnchanged ==
    ASSUME FsOK, UNCHANGED <<context, slots, fs, closed>>
    PROVE  FsOK'
BY DEF FsOK

LEMMA GpuUnchanged ==
    ASSUME GpuInv, UNCHANGED gpuVars
    PROVE  GpuInv'
BY DEF gpuVars, GpuInv, TypeOKGpu, RefersToLive, OwnsAlone, LookupNeedsDriver

\* A call that only works on the field.
LEMMA FieldCallStep ==
    ASSUME CoreInv, NEW p, Good(p, field, context), Outcome(p),
           UNCHANGED <<gpuVars, fs, closed, sdkVars>>
    PROVE  CoreInv'
<1>1. GpuInv' /\ context' = context
  BY GpuUnchanged DEF CoreInv, gpuVars
<1>2. FieldOK' /\ (failures' = 0 => failures = 0)
  BY <1>1, OutcomeStep DEF CoreInv, FieldOK
<1>3. FsOK'
  BY FsUnchanged DEF CoreInv, gpuVars
<1>4. TypeOKSdk' /\ TextOK'
  BY <1>2, SdkUnchanged DEF CoreInv
<1> QED
  BY <1>1, <1>2, <1>3, <1>4 DEF CoreInv

LEMMA ContextFacts ==
    ASSUME CoreInv
    PROVE  /\ context \in SomeContext /\ field \in FieldRecords /\ Fits(field, context)
           /\ failures \in Nat /\ (failures = 0 => Whole(field))
BY DEF CoreInv, FieldOK, GpuInv, TypeOKGpu

LEMMA StartDriverStep ==
    ASSUME CoreInv, NEW g \in Gpus, StartDriver(g)
    PROVE  CoreInv'
<1>1. /\ context = NoClContext /\ GpuReady(g) /\ fetching' = fetching
      /\ UNCHANGED <<field, failures, fs, closed, sdkVars>>
  BY DEF StartDriver, InitializeGpu, coreVars, sdkVars
<1>2. GpuInv'
  BY <1>1, GpuReadyStep DEF CoreInv
<1>3. FieldOK'
  BY <1>1 DEF CoreInv, FieldOK, Fits
<1>4. FsOK'
  BY <1>1 DEF CoreInv, FsOK
<1>5. TypeOKSdk' /\ TextOK'
  BY <1>1, SdkUnchanged DEF CoreInv
<1> QED
  BY <1>2, <1>3, <1>4, <1>5 DEF CoreInv

LEMMA InitializeStateStep ==
    ASSUME CoreInv, NEW n \in CellCounts, InitializeState(n)
    PROVE  CoreInv'
<1>1. PICK p \in InitializeField(field, n, "grown", context) : Outcome(p)
  BY DEF InitializeState
<1>2. n \in Nat \ {0} /\ "grown" \in Energies
  BY CoreAssumption DEF Energies
<1>3. Good(p, field, context)
  BY <1>2, ContextFacts, InitializeGood
<1> QED
  BY <1>1, <1>3, FieldCallStep DEF InitializeState

LEMMA SimulationStepStep ==
    ASSUME CoreInv, SimulationStep
    PROVE  CoreInv'
<1>1. PICK p \in Step(field, TRUE, context) : Outcome(p)
  BY DEF SimulationStep
<1>2. Good(p, field, context)
  BY ContextFacts, StepGood
<1> QED
  BY <1>1, <1>2, FieldCallStep DEF SimulationStep

LEMMA SetParamsStep ==
    ASSUME CoreInv, SetParams
    PROVE  CoreInv'
<1> DEFINE w == Positive(field.width, DefaultGrid[1])
           h == Positive(field.height, DefaultGrid[2])
<1>1. PICK p \in Ensure(field, <<w, h>>, context) : Outcome(p)
  BY DEF SetParams
<1>2. field.width \in Nat /\ field.height \in Nat
  BY ContextFacts DEF FieldRecords
<1>3. DefaultGrid[1] \in Nat \ {0} /\ DefaultGrid[2] \in Nat \ {0}
  BY CoreAssumption
<1>4. w \in Nat \ {0} /\ h \in Nat \ {0}
  BY <1>2, <1>3 DEF Positive
<1> HIDE DEF w, h
<1>5. <<w, h>> \in Grids
  BY <1>4 DEF Grids
<1>6. Good(p, field, context)
  BY <1>5, ContextFacts, EnsureGood
<1> QED
  BY <1>1, <1>6, FieldCallStep DEF SetParams

LEMMA ReleasedOK ==
    ASSUME FieldOK, field' = Released(field), failures' = failures
    PROVE  FieldOK' /\ ~ field'.initialized
<1>1. /\ field' \in FieldRecords /\ ~ field'.initialized
      /\ Whole(field) => field' = NoField
  BY ReleasedFacts DEF FieldOK
<1>2. Whole(NoField)
  BY NoFieldFacts DEF Whole
<1> QED
  BY <1>1, <1>2 DEF FieldOK, Fits

LEMMA ReleaseStateStep ==
    ASSUME CoreInv, ReleaseState
    PROVE  CoreInv'
<1>1. FieldOK'
  BY ReleasedOK DEF ReleaseState, CoreInv
<1>2. GpuInv' /\ FsOK' /\ TypeOKSdk' /\ TextOK'
  BY GpuUnchanged, FsUnchanged, SdkUnchanged DEF ReleaseState, CoreInv, gpuVars
<1> QED
  BY <1>1, <1>2 DEF CoreInv

LEMMA ShutdownGpuStep ==
    ASSUME CoreInv, ShutdownGpu
    PROVE  CoreInv'
<1>1. GpuInv'
  BY ShutdownDriverStep DEF ShutdownGpu, CoreInv
<1>2. FieldOK'
  BY ReleasedOK DEF ShutdownGpu, CoreInv
<1>3. FsOK'
  BY DEF ShutdownGpu, ReleaseFs, NoFs, CoreInv, FsOK, FsRecords, SomeContext
<1>4. TypeOKSdk' /\ TextOK'
  BY SdkUnchanged DEF ShutdownGpu, CoreInv
<1> QED
  BY <1>1, <1>2, <1>3, <1>4 DEF CoreInv

-----------------------------------------------------------------------------
(* MycelFS *)

LEMMA ForgottenOK ==
    ASSUME NEW buffers \in SomeContext, NEW initialized \in BOOLEAN,
           Forgotten(buffers, initialized),
           buffers # NoClContext => buffers = context',
           initialized => /\ buffers = context' /\ context' # NoClContext
                          /\ slots'[MycelGpu].context = context'
    PROVE  FsOK'
BY DEF Forgotten, FsOK, FsRecords

LEMMA DriverFailsStep ==
    ASSUME CoreInv, DriverFails
    PROVE  CoreInv'
<1>1. UNCHANGED gpuVars /\ field' = field /\ failures' = failures + 1 /\ UNCHANGED sdkVars
  BY DEF DriverFails
<1>2. GpuInv' /\ context' = context /\ slots' = slots
  BY <1>1, GpuUnchanged DEF CoreInv, gpuVars
<1>3. FieldOK' /\ failures' # 0
  BY <1>1, <1>2, ContextFacts DEF FieldOK
<1>4. TypeOKSdk' /\ TextOK'
  BY <1>1, <1>3, SdkUnchanged DEF CoreInv
<1>5. FsOK'
  BY <1>2, ForgottenOK DEF DriverFails, CoreInv, FsOK, FsRecords
<1> QED
  BY <1>2, <1>3, <1>4, <1>5 DEF CoreInv

\* initialize_gpu that succeeds keeps the field and MycelFS in the driver's context.
LEMMA ReadyFacts ==
    ASSUME CoreInv, GpuReady(MycelGpu), fetching' = fetching
    PROVE  /\ GpuInv' /\ context' # NoClContext /\ context' \in SomeContext
           /\ Fits(field, context')
           /\ fs.buffers # NoClContext => fs.buffers = context'
           /\ fs.initialized =>
                 fs.buffers = context' /\ slots'[MycelGpu].context = context'
<1>1. MycelGpu \in Gpus
  BY CoreAssumption
<1>2. GpuInv' /\ context' # NoClContext
  BY <1>1, GpuReadyStep DEF CoreInv
<1>3. context' \in SomeContext
  BY <1>2 DEF GpuInv, TypeOKGpu
<1>4. context # NoClContext => context' = context /\ slots' = slots
  BY DEF GpuReady
<1> QED
  BY <1>2, <1>3, <1>4 DEF CoreInv, FieldOK, FsOK, Fits

LEMMA FsGridFacts == FsGrid \in Grids
BY CoreAssumption DEF Grids

\* What mycelia_init_all leaves of the field, and of MycelFS if that is as it should be.
LEMMA InitAllParts ==
    ASSUME CoreInv, GpuInv', UNCHANGED sdkVars, NEW p, Good(p, field, context'), Outcome(p),
           FsOK'
    PROVE  CoreInv'
<1>1. FieldOK' /\ (failures' = 0 => failures = 0)
  BY ContextFacts, OutcomeStep
<1>2. TypeOKSdk' /\ TextOK'
  BY <1>1, SdkUnchanged DEF CoreInv
<1> QED
  BY <1>1, <1>2 DEF CoreInv

LEMMA InitAllFailsStep ==
    ASSUME CoreInv, InitAllFails
    PROVE  CoreInv'
<1>1. GpuReady(MycelGpu) /\ fetching' = fetching /\ UNCHANGED sdkVars
  BY DEF InitAllFails
<1>2. /\ GpuInv' /\ context' # NoClContext /\ context' \in SomeContext
      /\ Fits(field, context')
      /\ fs.buffers # NoClContext => fs.buffers = context'
      /\ fs.initialized => fs.buffers = context' /\ slots'[MycelGpu].context = context'
  BY <1>1, ReadyFacts
<1>3. fs.buffers \in SomeContext /\ fs.initialized \in BOOLEAN
  BY DEF CoreInv, FsOK, FsRecords
<1>4. PICK p \in Ensure(field, FsGrid, context') :
          \/ ~p.ok /\ Outcome(p) /\ Forgotten(fs.buffers, fs.initialized)
          \/ /\ p.ok /\ Outcome([p EXCEPT !.failed = @ + 1])
             /\ \E buffers \in {fs.buffers, Made(context')} :
                   Forgotten(buffers, fs.initialized)
  BY DEF InitAllFails
<1>5. Good(p, field, context') /\ Good([p EXCEPT !.failed = @ + 1], field, context')
  BY <1>2, ContextFacts, FsGridFacts, EnsureGood, FailedToo
<1>6. PICK q : Good(q, field, context') /\ Outcome(q)
  BY <1>4, <1>5
<1>7. PICK buffers \in {fs.buffers, Made(context')} : Forgotten(buffers, fs.initialized)
  BY <1>4
<1>8. /\ buffers \in SomeContext
      /\ buffers # NoClContext => buffers = context'
      /\ fs.initialized => buffers = context'
  BY <1>2, <1>3, <1>7 DEF Made
<1>9. FsOK'
  BY <1>2, <1>3, <1>7, <1>8, ForgottenOK
<1> QED
  BY <1>1, <1>2, <1>6, <1>9, InitAllParts

LEMMA InitAllStep ==
    ASSUME CoreInv, InitAll
    PROVE  CoreInv'
<1>1. GpuReady(MycelGpu) /\ fetching' = fetching /\ UNCHANGED sdkVars
  BY DEF InitAll
<1>2. /\ GpuInv' /\ context' # NoClContext /\ context' \in SomeContext
      /\ Fits(field, context')
      /\ fs.buffers # NoClContext => fs.buffers = context'
  BY <1>1, ReadyFacts
<1>3. PICK p \in Ensure(field, FsGrid, context') : Outcome(p)
  BY DEF InitAll
<1>4. Good(p, field, context')
  BY <1>2, ContextFacts, FsGridFacts, EnsureGood
<1>5. Made(context') = context'
  BY <1>2 DEF Made
<1>6. slots'[MycelGpu].context = context' /\ Forgotten(context', TRUE)
  BY <1>5 DEF InitAll
<1>7. FsOK'
  BY <1>2, <1>6, ForgottenOK
<1> QED
  BY <1>1, <1>2, <1>3, <1>4, <1>7, InitAllParts

LEMMA InitAllElsewhereStep ==
    ASSUME CoreInv, InitAllElsewhere
    PROVE  CoreInv'
<1>1. /\ context # NoClContext /\ slots[MycelGpu].context # context
      /\ UNCHANGED <<context, fetching, sdkVars>>
  BY DEF InitAllElsewhere
<1>2. MycelGpu \in Gpus
  BY CoreAssumption
<1>3. GpuInv'
  <2>1. CASE slots[MycelGpu].initialized
    <3>1. live' = live /\ slots' = slots
      BY <2>1 DEF InitAllElsewhere
    <3> QED
      BY <1>1, <3>1, GpuUnchanged DEF CoreInv, gpuVars
  <2>2. CASE ~ slots[MycelGpu].initialized
    <3>1. PICK c \in Fresh :
              /\ live' = live \cup {c}
              /\ slots' = [slots EXCEPT ![MycelGpu] =
                    [context |-> c, owns |-> TRUE, initialized |-> TRUE, inError |-> FALSE]]
      BY <2>2 DEF InitAllElsewhere
    <3>2. GpuInv /\ context' = context
      BY <1>1 DEF CoreInv
    <3>3. /\ live' \subseteq ClContexts /\ slots' \in [Gpus -> SlotRecords]
          /\ RefersToLive' /\ OwnsAlone'
      BY <1>2, <3>1, <3>2, SlotMadeStep, Zenon
    <3>4. TypeOKGpu' /\ LookupNeedsDriver'
      BY <1>1, <3>2, <3>3 DEF GpuInv, TypeOKGpu, LookupNeedsDriver
    <3> QED
      BY <3>3, <3>4 DEF GpuInv
  <2> QED
    BY <2>1, <2>2
<1>4. PICK p \in Ensure(field, FsGrid, context) : Outcome(p)
  BY DEF InitAllElsewhere
<1>5. Good(p, field, context')
  BY <1>1, ContextFacts, FsGridFacts, EnsureGood
<1>6. /\ ~ fs.initialized /\ fs.buffers \in SomeContext /\ fs.initialized \in BOOLEAN
      /\ fs.buffers # NoClContext => fs.buffers = context
  BY <1>1 DEF CoreInv, FsOK, FsRecords
<1>7. Made(context) = context /\ context \in SomeContext
  BY <1>6, ContextFacts DEF Made
<1>8. Forgotten(context, fs.initialized)
  BY <1>7 DEF InitAllElsewhere
<1>9. FsOK'
  BY <1>1, <1>6, <1>7, <1>8, ForgottenOK
<1> QED
  BY <1>1, <1>3, <1>4, <1>5, <1>9, InitAllParts

LEMMA CycleUpdateStep ==
    ASSUME CoreInv, CycleUpdate
    PROVE  CoreInv'
<1>1. UNCHANGED <<gpuVars, sdkVars>>
  BY DEF CycleUpdate
<1>2. GpuInv' /\ context' = context /\ slots' = slots
  BY <1>1, GpuUnchanged DEF CoreInv, gpuVars
<1>3. FailsClosed \/ UNCHANGED <<fs, closed>>
  BY DEF CycleUpdate
<1>4. FsOK'
  <2>1. CASE UNCHANGED <<fs, closed>>
    BY <1>2, <2>1, FsUnchanged DEF CoreInv
  <2>2. CASE FailsClosed
    BY <1>2, <2>2 DEF FailsClosed, CoreInv, FsOK, FsRecords
  <2> QED
    BY <1>3, <2>1, <2>2
<1>5. CASE UNCHANGED fieldVars
  <2>1. FieldOK' /\ (failures' = 0 => failures = 0)
    BY <1>2, <1>5 DEF CoreInv, FieldOK, fieldVars
  <2>2. TypeOKSdk' /\ TextOK'
    BY <1>1, <2>1, SdkUnchanged DEF CoreInv
  <2> QED
    BY <1>2, <1>4, <2>1, <2>2 DEF CoreInv
<1>6. CASE \E p \in Step(field, TRUE, context) : Outcome(p)
  <2>1. PICK p \in Step(field, TRUE, context) : Outcome(p)
    BY <1>6
  <2>2. Good(p, field, context')
    BY <1>2, ContextFacts, StepGood
  <2> QED
    BY <1>1, <1>2, <1>4, <2>1, <2>2, InitAllParts
<1> QED
  BY <1>5, <1>6 DEF CycleUpdate

-----------------------------------------------------------------------------
(* Odd and even numbers of calls *)

LEMMA FlipFacts ==
    ASSUME NEW S, IsFiniteSet(S), NEW x
    PROVE  IsFiniteSet(Flip(S, x)) /\ (IsOdd(Flip(S, x)) <=> ~ IsOdd(S))
<1>1. Cardinality(S) \in Nat
  BY FS_CardinalityType
<1>2. CASE x \in S
  <2>1. Flip(S, x) = S \ {x}
    BY <1>2 DEF Flip
  <2>2. IsFiniteSet(S \ {x}) /\ Cardinality(S \ {x}) = Cardinality(S) - 1
    BY <1>2, FS_RemoveElement
  <2>3. Cardinality(Flip(S, x)) = Cardinality(S) - 1
    BY <2>1, <2>2, Zenon
  <2> QED
    BY <1>1, <2>1, <2>2, <2>3 DEF IsOdd
<1>3. CASE x \notin S
  <2>1. Flip(S, x) = S \cup {x}
    BY <1>3 DEF Flip
  <2>2. IsFiniteSet(S \cup {x}) /\ Cardinality(S \cup {x}) = Cardinality(S) + 1
    BY <1>3, FS_AddElement
  <2>3. Cardinality(Flip(S, x)) = Cardinality(S) + 1
    BY <2>1, <2>2, Zenon
  <2> QED
    BY <1>1, <2>1, <2>2, <2>3 DEF IsOdd
<1> QED
  BY <1>2, <1>3

LEMMA NoneIsEven == ~ IsOdd({})
<1>1. Cardinality({}) = 0
  BY FS_EmptySet
<1> QED
  BY <1>1 DEF IsOdd

\* A call of the context c with the seed s.
LEMMA ByFlip ==
    ASSUME NEW S \in SUBSET Keys, IsFiniteSet(S), NEW c \in SdkContexts, NEW s \in Seeds
    PROVE  /\ Flip(S, <<c, s>>) \in SUBSET Keys /\ IsFiniteSet(Flip(S, <<c, s>>))
           /\ IsOdd(Flip(S, <<c, s>>)) <=> ~ IsOdd(S)
           /\ IsOdd(By(Flip(S, <<c, s>>), c)) <=> ~ IsOdd(By(S, c))
           /\ \A d \in SdkContexts : d # c => By(Flip(S, <<c, s>>), d) = By(S, d)
<1> DEFINE k == <<c, s>>
           T == Flip(S, k)
<1>1. k \in Keys /\ k[1] = c
  BY DEF Keys
<1> HIDE DEF k
<1>2. T \in SUBSET Keys
  BY <1>1 DEF Flip
<1>3. IsFiniteSet(T) /\ (IsOdd(T) <=> ~ IsOdd(S))
  BY FlipFacts
<1>4. By(T, c) = Flip(By(S, c), k)
  BY <1>1 DEF By, Flip
<1>5. By(S, c) \subseteq S
  BY DEF By
<1>6. IsFiniteSet(By(S, c))
  BY <1>5, FS_Subset
<1>7. IsOdd(By(T, c)) <=> ~ IsOdd(By(S, c))
  BY <1>4, <1>6, FlipFacts
<1>8. \A d \in SdkContexts : d # c => By(T, d) = By(S, d)
  BY <1>1 DEF By, Flip
<1> QED
  BY <1>2, <1>3, <1>7, <1>8 DEF k

-----------------------------------------------------------------------------
(* The SDK *)

LEMMA SdkFacts ==
    ASSUME TypeOKSdk, NEW c \in SdkContexts
    PROVE  /\ sdk[c].state = "open" =>
                 /\ sdk[c] \in OpenRecords
                 /\ sdk[c].seed \in Seeds
                 /\ sdk[c].cache \in SdkContexts \cup {"zeros", "field"}
BY DEF TypeOKSdk, SdkRecords, OpenRecords, ClosedRecords

\* A context changes without a call on a block.
LEMMA SdkChanged ==
    ASSUME TypeOKSdk, NEW c \in SdkContexts, NEW r \in SdkRecords,
           sdk' = [sdk EXCEPT ![c] = r], text' = text, odd' = odd,
           failures' = 0 => failures = 0,
           TextOK,
           r.state # "new",
           r.state = "open" =>
               \/ sdk[c].state = "open" /\ r.cache = sdk[c].cache
               \/ sdk[c].state = "new" /\ r.cache \in {"zeros", c}
    PROVE  TypeOKSdk' /\ TextOK'
<1>1. /\ sdk' \in [SdkContexts -> SdkRecords]
      /\ \A d \in SdkContexts : sdk'[d] = IF d = c THEN r ELSE sdk[d]
  BY DEF TypeOKSdk
<1>2. TypeOKSdk'
  BY <1>1 DEF TypeOKSdk
<1>3. ASSUME failures' = 0
      PROVE  /\ \A d \in SdkContexts : OwnCache(d, sdk')
             /\ \A b \in SdkBlocks : BlockOK(text[b], odd[b], sdk')
  <2>1. /\ \A d \in SdkContexts : OwnCache(d, sdk)
        /\ \A b \in SdkBlocks : BlockOK(text[b], odd[b], sdk)
    BY <1>3 DEF TextOK
  <2>2. \A d \in SdkContexts : OwnCache(d, sdk')
    BY <1>1, <2>1 DEF OwnCache
  <2>3. ASSUME NEW b \in SdkBlocks PROVE BlockOK(text[b], odd[b], sdk')
    <3>1. BlockOK(text[b], odd[b], sdk)
      BY <2>1
    <3>2. ASSUME sdk[c].state = "new"
          PROVE  c \notin text[b].rest /\ ~ IsOdd(By(odd[b], c))
      BY <3>1, <3>2, NoneIsEven DEF BlockOK
    <3>3. ASSUME NEW d \in SdkContexts
          PROVE  /\ d \in text[b].rest => IsOdd(By(odd[b], d))
                 /\ sdk'[d].state = "new" => By(odd[b], d) = {}
                 /\ (sdk'[d].state = "open" /\ sdk'[d].cache = d /\ IsOdd(By(odd[b], d)))
                        => d \in text[b].rest
                 /\ (sdk'[d].state = "open" /\ sdk'[d].cache # d) => d \notin text[b].rest
      BY <1>1, <3>1, <3>2 DEF BlockOK
    <3> QED
      BY <3>1, <3>3 DEF BlockOK
  <2> QED
    BY <2>2, <2>3
<1>4. TextOK'
  BY <1>3 DEF TextOK
<1> QED
  BY <1>2, <1>4

LEMMA CreateContextStep ==
    ASSUME CoreInv, NEW c \in SdkContexts, NEW g \in Gpus, CreateContext(c, g)
    PROVE  CoreInv'
<1>1. /\ sdk[c].state = "new" /\ GpuReady(g)
      /\ UNCHANGED <<fetching, field, failures, fs, closed, text, odd>>
  BY DEF CreateContext, fieldVars
<1>2. PICK memory \in {"zeros", c} :
          sdk' = [sdk EXCEPT ![c] = [state |-> "open", seed |-> "unset", cache |-> memory]]
  BY DEF CreateContext
<1>3. GpuInv' /\ context' # NoClContext
  BY <1>1, GpuReadyStep DEF CoreInv
<1>4. context # NoClContext => context' = context /\ slots' = slots
  BY <1>1 DEF GpuReady
<1>5. FieldOK' /\ FsOK'
  BY <1>1, <1>4 DEF CoreInv, FieldOK, FsOK, Fits
<1> DEFINE r == [state |-> "open", seed |-> "unset", cache |-> memory]
<1>6. r \in SdkRecords /\ r.state = "open" /\ r.cache = memory
  BY DEF SdkRecords, OpenRecords, Seeds
<1>7. sdk' = [sdk EXCEPT ![c] = r]
  BY <1>2
<1> HIDE DEF r
<1>8. TypeOKSdk' /\ TextOK'
  BY <1>1, <1>6, <1>7, SdkChanged DEF CoreInv
<1> QED
  BY <1>3, <1>5, <1>8 DEF CoreInv

LEMMA DestroyContextStep ==
    ASSUME CoreInv, NEW c \in SdkContexts, DestroyContext(c)
    PROVE  CoreInv'
<1> DEFINE r == [state |-> "closed"]
<1>1. /\ sdk' = [sdk EXCEPT ![c] = r]
      /\ UNCHANGED <<gpuVars, field, failures, fs, closed, text, odd>>
  BY DEF DestroyContext, fieldVars
<1>2. r \in SdkRecords /\ r.state = "closed"
  BY DEF SdkRecords, ClosedRecords
<1> HIDE DEF r
<1>3. TypeOKSdk' /\ TextOK'
  BY <1>1, <1>2, SdkChanged DEF CoreInv
<1>4. GpuInv' /\ FieldOK' /\ FsOK'
  BY <1>1, GpuUnchanged, FsUnchanged DEF CoreInv, FieldOK, gpuVars
<1> QED
  BY <1>3, <1>4 DEF CoreInv

LEMMA SetSeedStep ==
    ASSUME CoreInv, NEW c \in SdkContexts, NEW s \in SdkSeeds, SetSeed(c, s)
    PROVE  CoreInv'
<1>1. /\ sdk[c].state = "open" /\ sdk' = [sdk EXCEPT ![c].seed = s]
      /\ UNCHANGED <<gpuVars, fs, closed, text, odd>>
  BY DEF SetSeed
<1>2. PICK p \in InitializeField(field, 1, "half", context) : Outcome(p)
  BY DEF SetSeed
<1>3. Good(p, field, context)
  <2>1. "half" \in Energies /\ 1 \in Nat \ {0}
    BY DEF Energies
  <2> QED
    BY <2>1, ContextFacts, InitializeGood
<1>4. GpuInv' /\ FsOK' /\ context' = context
  BY <1>1, GpuUnchanged, FsUnchanged DEF CoreInv, gpuVars
<1>5. FieldOK' /\ (failures' = 0 => failures = 0)
  BY <1>2, <1>3, <1>4, ContextFacts, OutcomeStep
<1> DEFINE r == [sdk[c] EXCEPT !.seed = s]
<1>6. r \in SdkRecords /\ r.state = "open" /\ r.cache = sdk[c].cache
  BY <1>1, SdkFacts DEF CoreInv, SdkRecords, OpenRecords, Seeds
<1>7. sdk' = [sdk EXCEPT ![c] = r]
  BY <1>1 DEF CoreInv, TypeOKSdk
<1> HIDE DEF r
<1>8. TypeOKSdk' /\ TextOK'
  BY <1>1, <1>5, <1>6, <1>7, SdkChanged DEF CoreInv
<1> QED
  BY <1>4, <1>5, <1>8 DEF CoreInv

LEMMA ReadFailsStep ==
    ASSUME CoreInv, NEW c \in SdkContexts, ReadFails(c)
    PROVE  CoreInv'
<1>1. PICK p \in KeyField(field, context) :
          Outcome(p) \/ Outcome([p EXCEPT !.failed = @ + 1])
  BY DEF ReadFails
<1>2. Good(p, field, context) /\ Good([p EXCEPT !.failed = @ + 1], field, context)
  BY ContextFacts, KeyFieldFacts, FailedToo
<1> QED
  BY <1>1, <1>2, FieldCallStep DEF ReadFails

\* The text of the block b after a call of the context c.
LEMMA TextFlipped ==
    ASSUME NEW t \in TextRecords, NEW a \in SUBSET Energies,
           NEW r \in SUBSET (SdkContexts \cup {"field"})
    PROVE  [t EXCEPT !.first = a, !.rest = r] \in TextRecords
BY Zenon DEF TextRecords

\* The call keeps the parities.
LEMMA BlockFlipped ==
    ASSUME NEW S \in SUBSET Keys, IsFiniteSet(S), NEW t \in TextRecords, NEW u \in TextRecords,
           NEW all \in [SdkContexts -> SdkRecords], NEW c \in SdkContexts,
           BlockOK(t, S, all), OwnCache(c, all), all[c].state = "open", all[c].seed \in Seeds,
           u.first = Flip(t.first, "half"),
           u.rest = IF all[c].cache = "zeros" THEN t.rest ELSE Flip(t.rest, all[c].cache)
    PROVE  BlockOK(u, Flip(S, <<c, all[c].seed>>), all)
<1> DEFINE T == Flip(S, <<c, all[c].seed>>)
<1>1. /\ IsOdd(T) <=> ~ IsOdd(S)
      /\ IsOdd(By(T, c)) <=> ~ IsOdd(By(S, c))
      /\ \A d \in SdkContexts : d # c => By(T, d) = By(S, d)
  BY ByFlip
<1> HIDE DEF T
<1>2. all[c].cache = "zeros" \/ all[c].cache = c
  BY DEF OwnCache
<1>3. c # "zeros"
  BY CoreAssumption
<1>4. u.first = IF IsOdd(T) THEN {"half"} ELSE {}
  BY <1>1 DEF BlockOK, Flip
<1>5. /\ u.rest \subseteq SdkContexts
      /\ \A d \in SdkContexts : d # c => (d \in u.rest <=> d \in t.rest)
      /\ all[c].cache = c => (c \in u.rest <=> c \notin t.rest)
      /\ all[c].cache # c => (c \in u.rest <=> c \in t.rest)
  BY <1>2, <1>3 DEF BlockOK, Flip
<1>6. ASSUME NEW d \in SdkContexts
      PROVE  /\ d \in u.rest => IsOdd(By(T, d))
             /\ all[d].state = "new" => By(T, d) = {}
             /\ (all[d].state = "open" /\ all[d].cache = d /\ IsOdd(By(T, d)))
                    => d \in u.rest
             /\ (all[d].state = "open" /\ all[d].cache # d) => d \notin u.rest
  <2>1. CASE d = c
    BY <1>1, <1>2, <1>3, <1>5, <2>1 DEF BlockOK
  <2>2. CASE d # c
    BY <1>1, <1>5, <2>2 DEF BlockOK
  <2> QED
    BY <2>1, <2>2
<1>7. BlockOK(u, T, all)
  BY <1>4, <1>5, <1>6 DEF BlockOK
<1> QED
  BY <1>7 DEF T

LEMMA BlocksTyped ==
    ASSUME NEW all \in [SdkBlocks -> TextRecords], NEW b \in SdkBlocks, NEW e, NEW cache
    PROVE  [all EXCEPT ![b].first = Flip(@, e),
                       ![b].rest = IF cache = "zeros" THEN @ ELSE Flip(@, cache)] =
           [all EXCEPT ![b] = [all[b] EXCEPT
                !.first = Flip(@, e), !.rest = IF cache = "zeros" THEN @ ELSE Flip(@, cache)]]
OBVIOUS

LEMMA BlockOKMoved ==
    ASSUME \A c \in SdkContexts :
               /\ sdk'[c].state = sdk[c].state
               /\ sdk[c].state = "open" => sdk'[c].cache = sdk[c].cache,
           NEW t, NEW S, BlockOK(t, S, sdk)
    PROVE  BlockOK(t, S, sdk')
BY DEF BlockOK

LEMMA ProcessBufferStep ==
    ASSUME CoreInv, NEW c \in SdkContexts, NEW b \in SdkBlocks, ProcessBuffer(c, b)
    PROVE  CoreInv'
<1>1. PICK p \in KeyField(field, context) :
          LET cache == IF p.field.cells > 1 THEN "field" ELSE sdk[c].cache IN
          /\ p.field.initialized
          /\ Outcome(p)
          /\ sdk' = [sdk EXCEPT ![c].cache = cache]
          /\ text' = [text EXCEPT
                ![b].first = Flip(@, p.field.energy),
                ![b].rest = IF cache = "zeros" THEN @ ELSE Flip(@, cache)]
          /\ odd' = [odd EXCEPT ![b] = Flip(@, <<c, sdk[c].seed>>)]
  BY DEF ProcessBuffer
<1>2. /\ sdk[c].state = "open" /\ context # NoClContext /\ UNCHANGED <<gpuVars, fs, closed>>
  BY DEF ProcessBuffer
<1>3. /\ Good(p, field, context)
      /\ p.failed = 0 /\ Whole(field) => p.field.energy = "half" /\ p.field.cells = 1
  BY <1>2, ContextFacts, KeyFieldFacts
<1>4. GpuInv' /\ FsOK' /\ context' = context
  BY <1>2, GpuUnchanged, FsUnchanged DEF CoreInv, gpuVars
<1>5. FieldOK' /\ (failures' = 0 => failures = 0 /\ p.failed = 0)
  BY <1>1, <1>3, <1>4, ContextFacts, OutcomeStep
<1> DEFINE cache == IF p.field.cells > 1 THEN "field" ELSE sdk[c].cache
           r == [sdk[c] EXCEPT !.cache = cache]
           e == p.field.energy
           k == <<c, sdk[c].seed>>
           first == Flip(text[b].first, e)
           rest == IF cache = "zeros" THEN text[b].rest ELSE Flip(text[b].rest, cache)
           u == [text[b] EXCEPT !.first = first, !.rest = rest]
<1>6. /\ sdk \in [SdkContexts -> SdkRecords] /\ text \in [SdkBlocks -> TextRecords]
      /\ odd \in [SdkBlocks -> SUBSET Keys] /\ \A d \in SdkBlocks : IsFiniteSet(odd[d])
  BY DEF CoreInv, TypeOKSdk
<1>7. /\ sdk[c] \in OpenRecords /\ sdk[c].seed \in Seeds
      /\ cache \in SdkContexts \cup {"field", "zeros"} /\ e \in Energies
  <2>1. p.field \in FieldRecords
    BY <1>3 DEF Good, Outcomes
  <2>2. /\ sdk[c] \in OpenRecords /\ sdk[c].seed \in Seeds
        /\ sdk[c].cache \in SdkContexts \cup {"zeros", "field"}
    BY <1>2, SdkFacts DEF CoreInv
  <2> QED
    BY <2>1, <2>2 DEF FieldRecords
<1>8. failures' = 0 => cache = sdk[c].cache /\ e = "half"
  BY <1>3, <1>5, ContextFacts
<1>9. u \in TextRecords /\ u.first = first /\ u.rest = rest
  <2>1. text[b] \in TextRecords
    BY <1>6
  <2> HIDE DEF e, cache
  <2>2. /\ text[b].first \in SUBSET Energies
        /\ text[b].rest \in SUBSET (SdkContexts \cup {"field"})
    BY <2>1 DEF TextRecords
  <2>3. first \in SUBSET Energies
    BY <1>7, <2>2 DEF Flip
  <2>4. rest \in SUBSET (SdkContexts \cup {"field"})
    BY <1>7, <2>2 DEF Flip
  <2> HIDE DEF first, rest
  <2>5. u = [text[b] EXCEPT !.first = first, !.rest = rest]
    OBVIOUS
  <2>6. u \in TextRecords
    BY <2>1, <2>3, <2>4, TextFlipped, Zenon
  <2>7. u.first = first /\ u.rest = rest
    BY <2>1 DEF TextRecords
  <2> QED
    BY <2>6, <2>7
<1>10. text' = [text EXCEPT ![b] = u]
  <2>1. text' = [text EXCEPT ![b].first = Flip(@, e),
                             ![b].rest = IF cache = "zeros" THEN @ ELSE Flip(@, cache)]
    BY <1>1
  <2> HIDE DEF e, cache
  <2> QED
    BY <1>6, <2>1, BlocksTyped, Zenon
<1>11. odd' = [odd EXCEPT ![b] = Flip(odd[b], k)]
  BY <1>1
<1>12. Flip(odd[b], k) \in SUBSET Keys /\ IsFiniteSet(Flip(odd[b], k))
  BY <1>6, <1>7, ByFlip
<1>13. sdk' = [sdk EXCEPT ![c] = r]
  <2>1. sdk' = [sdk EXCEPT ![c].cache = cache]
    BY <1>1
  <2> HIDE DEF cache
  <2> QED
    BY <1>6, <2>1
<1>14. r \in SdkRecords /\ r.state = "open" /\ r.cache = cache /\ r.seed = sdk[c].seed
  <2> HIDE DEF cache
  <2> QED
    BY <1>2, <1>7 DEF SdkRecords, OpenRecords
<1> HIDE DEF cache, r, e, k, u, first, rest
<1>15. TypeOKSdk'
  BY <1>6, <1>9, <1>10, <1>11, <1>12, <1>13, <1>14 DEF TypeOKSdk
<1>16. ASSUME failures' = 0
       PROVE  /\ \A d \in SdkContexts : OwnCache(d, sdk')
              /\ \A d \in SdkBlocks : BlockOK(text'[d], odd'[d], sdk')
  <2>1. /\ \A d \in SdkContexts : OwnCache(d, sdk)
        /\ \A d \in SdkBlocks : BlockOK(text[d], odd[d], sdk)
    BY <1>5, <1>16 DEF CoreInv, TextOK
  <2>2. cache = sdk[c].cache /\ e = "half"
    BY <1>8, <1>16
  <2>3. \A d \in SdkContexts :
            /\ sdk'[d].state = sdk[d].state
            /\ sdk[d].state = "open" => sdk'[d].cache = sdk[d].cache
    <3>1. \A d \in SdkContexts : sdk'[d] = IF d = c THEN r ELSE sdk[d]
      BY <1>6, <1>13
    <3> QED
      BY <1>2, <1>14, <2>2, <3>1
  <2>4. \A d \in SdkContexts : OwnCache(d, sdk')
    BY <2>1, <2>3 DEF OwnCache
  <2>5. ASSUME NEW d \in SdkBlocks, d # b PROVE BlockOK(text'[d], odd'[d], sdk')
    <3>1. text'[d] = text[d] /\ odd'[d] = odd[d]
      BY <1>6, <1>10, <1>11, <2>5
    <3>2. BlockOK(text[d], odd[d], sdk)
      BY <2>1
    <3>3. BlockOK(text[d], odd[d], sdk')
      BY <2>3, <3>2, BlockOKMoved
    <3> QED
      BY <3>1, <3>3
  <2>6. BlockOK(text'[b], odd'[b], sdk')
    <3>1. text'[b] = u /\ odd'[b] = Flip(odd[b], k)
      BY <1>6, <1>10, <1>11
    <3>2. BlockOK(text[b], odd[b], sdk) /\ OwnCache(c, sdk)
      BY <2>1
    <3>3. /\ u.first = Flip(text[b].first, "half")
          /\ u.rest = IF sdk[c].cache = "zeros" THEN text[b].rest
                      ELSE Flip(text[b].rest, sdk[c].cache)
      BY <1>9, <2>2 DEF first, rest
    <3>4. text[b] \in TextRecords /\ odd[b] \in SUBSET Keys /\ IsFiniteSet(odd[b])
      BY <1>6
    <3>5. BlockOK(u, Flip(odd[b], k), sdk)
      BY <1>2, <1>6, <1>7, <1>9, <3>2, <3>3, <3>4, BlockFlipped DEF k
    <3>6. BlockOK(u, Flip(odd[b], k), sdk')
      BY <2>3, <3>5, BlockOKMoved
    <3> QED
      BY <3>1, <3>6
  <2> QED
    BY <2>4, <2>5, <2>6
<1>17. TextOK'
  BY <1>16 DEF TextOK
<1> QED
  BY <1>4, <1>5, <1>15, <1>17 DEF CoreInv

-----------------------------------------------------------------------------
(* The theorems *)

LEMMA InitCoreInv == InitCore => CoreInv
<1> SUFFICES ASSUME InitCore PROVE CoreInv
  OBVIOUS
<1>1. GpuInv
  BY InitGpuInv DEF InitCore
<1>2. FieldOK
  BY NoFieldFacts DEF InitCore, FieldOK, Fits, Whole
<1>3. FsOK
  BY DEF InitCore, FsOK, FsRecords, NoFs, SomeContext
<1>4. TypeOKSdk
  <2>1. [state |-> "new"] \in SdkRecords /\ Plain \in TextRecords
    BY DEF SdkRecords, ClosedRecords, Plain, TextRecords
  <2>2. IsFiniteSet({})
    BY FS_EmptySet
  <2> QED
    BY <2>1, <2>2 DEF InitCore, TypeOKSdk
<1>5. TextOK
  <2>1. ASSUME NEW c \in SdkContexts PROVE sdk[c].state = "new"
    BY DEF InitCore
  <2>2. ASSUME NEW b \in SdkBlocks
        PROVE  odd[b] = {} /\ text[b].first = {} /\ text[b].rest = {}
    BY DEF InitCore, Plain
  <2>3. \A c \in SdkContexts : By({}, c) = {}
    BY DEF By
  <2> QED
    BY <2>1, <2>2, <2>3, NoneIsEven DEF TextOK, OwnCache, BlockOK
<1> QED
  BY <1>1, <1>2, <1>3, <1>4, <1>5 DEF CoreInv

LEMMA StepCoreInv == CoreInv /\ [NextCore]_<<gpuVars, coreVars>> => CoreInv'
<1> SUFFICES ASSUME CoreInv, [NextCore]_<<gpuVars, coreVars>> PROVE CoreInv'
  OBVIOUS
<1>1. CASE UNCHANGED <<gpuVars, coreVars>>
  <2>1. /\ UNCHANGED <<gpuVars, fs, closed>> /\ field' = field /\ failures' = failures
        /\ UNCHANGED sdkVars
    BY <1>1 DEF coreVars, sdkVars
  <2>2. GpuInv' /\ FsOK' /\ context' = context
    BY <2>1, GpuUnchanged, FsUnchanged DEF CoreInv, gpuVars
  <2>3. FieldOK'
    BY <2>1, <2>2 DEF CoreInv, FieldOK
  <2>4. TypeOKSdk' /\ TextOK'
    BY <2>1, SdkUnchanged DEF CoreInv
  <2> QED
    BY <2>2, <2>3, <2>4 DEF CoreInv
<1>2. ASSUME NEW g \in Gpus, StartDriver(g) \/ \E c \in SdkContexts : CreateContext(c, g)
      PROVE  CoreInv'
  BY <1>2, StartDriverStep, CreateContextStep
<1>3. ASSUME NEW n \in CellCounts, InitializeState(n) PROVE CoreInv'
  BY <1>3, InitializeStateStep
<1>4. CASE SimulationStep \/ SetParams \/ ReleaseState \/ ShutdownGpu
  BY <1>4, SimulationStepStep, SetParamsStep, ReleaseStateStep, ShutdownGpuStep
<1>5. CASE DriverFails \/ InitAllFails \/ InitAll \/ InitAllElsewhere \/ CycleUpdate
  BY <1>5, DriverFailsStep, InitAllFailsStep, InitAllStep, InitAllElsewhereStep,
     CycleUpdateStep
<1>6. ASSUME NEW c \in SdkContexts,
             \/ DestroyContext(c) \/ ReadFails(c)
             \/ \E s \in SdkSeeds : SetSeed(c, s)
             \/ \E b \in SdkBlocks : ProcessBuffer(c, b)
      PROVE  CoreInv'
  BY <1>6, DestroyContextStep, ReadFailsStep, SetSeedStep, ProcessBufferStep
<1> QED
  BY <1>1, <1>2, <1>3, <1>4, <1>5, <1>6 DEF NextCore

\* What the calls leave of the driver, the field, MycelFS and the blocks of the SDK, with
\* any number of failures of OpenCL.
THEOREM CoreInvariant == SpecCore => []CoreInv
BY InitCoreInv, StepCoreInv, PTL DEF SpecCore

\* A MycelFS that failed closed answers again only after mycelia_init_all.
THEOREM StaysClosed == SpecCore => []FailClosed
<1>1. CoreInv => FailClosed
  BY DEF CoreInv, FsOK, FailClosed, Answers
<1> QED
  BY <1>1, CoreInvariant, PTL

\* Kernels run over buffers of the size and the context they were made for.
THEOREM FieldAlwaysFits == SpecCore => []FieldFits
<1>1. CoreInv => FieldFits
  <2> SUFFICES ASSUME CoreInv PROVE FieldFits
    OBVIOUS
  <2>1. failures = 0 /\ field.initialized => field.width * field.height = field.cells
    BY DEF CoreInv, FieldOK, Whole
  <2> QED
    BY <2>1 DEF CoreInv, FieldOK, Fits, FsOK, FieldFits, Answers
<1> QED
  BY <1>1, CoreInvariant, PTL

\* A block that every context processed an even number of times with each seed is plain.
THEOREM EvenCallsRestore == SpecCore => []OneContextRestores
<1>1. CoreInv => OneContextRestores
  <2> SUFFICES ASSUME CoreInv, failures = 0, NEW b \in SdkBlocks, odd[b] = {}
               PROVE  IsPlain(b)
    BY DEF OneContextRestores
  <2>1. BlockOK(text[b], {}, sdk) /\ text[b] \in TextRecords
    BY DEF CoreInv, TextOK, TypeOKSdk
  <2>2. \A c \in SdkContexts : By({}, c) = {}
    BY DEF By
  <2>3. text[b].first = {} /\ text[b].rest = {}
    BY <2>1, <2>2, NoneIsEven DEF BlockOK
  <2> QED
    BY <2>1, <2>3 DEF TextRecords, IsPlain, Plain
<1> QED
  BY <1>1, CoreInvariant, PTL

\* The calls of one program on the core release every context once.
THEOREM CoreReleasesOnce == SpecCore => []ReleasedOnce
<1>1. CoreInv => ReleasedOnce
  BY InvIsReleasedOnce DEF CoreInv
<1> QED
  BY <1>1, CoreInvariant, PTL
=============================================================================
