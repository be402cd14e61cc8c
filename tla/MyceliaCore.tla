---------------------------- MODULE MyceliaCore ----------------------------
(* The calls of mycelia_core that share the one SubQG field of the process: the       *)
(* exported calls on the field itself, the lookups of MycelFS with their fail-closed  *)
(* state, and the contexts of the SDK, which make a keystream of the field for each   *)
(* block.  A program calls them one after the other; each call may fail inside        *)
(* OpenCL, and some then go on.                                                       *)
(*                                                                                    *)
(* The random numbers of every step are the caller's (rng_energy, rng_phase and       *)
(* rng_spin are never NULL here), so that subqg_rng_seed and the deterministic mode,  *)
(* which only choose the numbers a caller leaves out, have no part in the state.      *)
EXTENDS GpuSlots

CONSTANTS MycelGpu,     \* g_mycelia_gpu_index
          FsGrid,       \* g_mycelia_subqg_width and _height
          DefaultGrid,  \* g_field_w_default and g_field_h_default
          CellCounts,   \* sizes for which the field is initialised from outside
          SdkContexts, SdkSeeds, SdkBlocks,
          MaxFailures   \* bound: calls of OpenCL that fail in one behaviour

ASSUME CoreAssumption ==
    /\ MycelGpu \in Gpus
    /\ {FsGrid, DefaultGrid} \subseteq (Nat \ {0}) \X (Nat \ {0})
    /\ CellCounts \subseteq Nat \ {0}
    /\ {"zeros", "field"} \cap SdkContexts = {}  \* what a key cache may hold instead
    /\ MaxFailures \in Nat

VARIABLES
    field,    \* the globals subqg_*
    fs,       \* the globals g_mycelia_* and mycel_fs_*
    closed,   \* history: MycelFS failed closed and was not initialised since
    sdk,      \* the contexts of the SDK
    text,     \* per block, the keys XORed into its first byte and into the others
    odd,      \* per block, the contexts and seeds that processed it an odd number of times
    failures

fieldVars == <<field, failures>>
sdkVars == <<sdk, text, odd>>
coreVars == <<field, fs, closed, sdk, text, odd, failures>>

\* No cells, and no grid; the buffer is the size of the field map, 0 where it is NULL.
NoField == [initialized |-> FALSE, width |-> 0, height |-> 0, cells |-> 0, elements |-> 0,
            buffer |-> 0, madeIn |-> NoClContext, energy |-> "none"]
NoFs == [initialized |-> FALSE, desynced |-> FALSE, buffers |-> NoClContext]
Plain == [first |-> {}, rest |-> {}]

InitCore ==
    /\ InitGpu
    /\ field = NoField
    /\ fs = NoFs
    /\ closed = FALSE
    /\ sdk = [c \in SdkContexts |-> [state |-> "new"]]
    /\ text = [b \in SdkBlocks |-> Plain]
    /\ odd = [b \in SdkBlocks |-> {}]
    /\ failures = 0

-----------------------------------------------------------------------------
(* What a call on the field returns: whether it succeeded, the field it leaves, and   *)
(* the calls of OpenCL that failed in it.                                             *)

Ends(ok, f, failed) == [ok |-> ok, field |-> f, failed |-> failed]

\* What follows the outcome o of an earlier call.
After(o, outcomes) == {[p EXCEPT !.failed = @ + o.failed] : p \in outcomes}

\* Mutant: the grid of the released field is not reset.
ReleasedKeepsGrid(f) ==
    IF f.initialized THEN [NoField EXCEPT !.width = f.width, !.height = f.height] ELSE f

\* release_subqg_resources does nothing to a field that is not initialised.
Released(f) == IF f.initialized THEN NoField ELSE f

Positive(n, otherwise) == IF n > 0 THEN n ELSE otherwise

\* subqg_initialize_state_batched in the context o.  When it fails its own release does
\* nothing any more: the field map is the old one, NULL or the new one.
InitializeField(f, n, energy, o) ==
    LET r == Released(f)
        sized == [r EXCEPT !.width = Positive(@, n), !.height = Positive(@, 1), !.elements = n]
        made == [sized EXCEPT !.buffer = n, !.madeIn = o]
    IN  IF o = NoClContext THEN {Ends(FALSE, f, 0)}
        ELSE {Ends(TRUE, [made EXCEPT !.initialized = TRUE, !.cells = n, !.energy = energy], 0)}
             \cup {Ends(FALSE, g, 1) : g \in {sized, [sized EXCEPT !.buffer = 0], made}}

\* ensure_subqg_state: a field map for the same grid is enough.  Binding it to the
\* kernels may fail after the field has been initialised.
Ensure(f, grid, o) ==
    LET w == grid[1]  h == grid[2]
        made == InitializeField(f, w * h, "zero", o)
        Sized(g) == [g EXCEPT !.width = w, !.height = h, !.cells = w * h, !.elements = w * h]
    IN  IF f.buffer > 0 /\ f.width = w /\ f.height = h THEN {Ends(TRUE, f, 0)}
        ELSE {i \in made : ~i.ok}
             \cup UNION {After(i, {Ends(TRUE, Sized(i.field), 0), Ends(FALSE, Sized(i.field), 1)}) :
                            i \in {j \in made : j.ok}}

\* What the kernel makes of an energy that is "zero", one "half", or has "grown" to
\* something else: one cell has no neighbours, and random numbers of one half are no noise.
Evolved(f, noise) ==
    [f EXCEPT !.energy = IF f.width * f.height = 1 /\ ~noise THEN @ ELSE "grown"]

\* subqg_simulation_step for every cell, after initialising the field if need be.
Step(f, noise, o) ==
    LET batch == Positive(f.cells, 1)
        grid == <<Positive(f.width, batch), Positive(f.height, 1)>>
        ready == IF f.initialized THEN {Ends(TRUE, f, 0)} ELSE Ensure(f, grid, o)
        Run(g) ==
            IF o = NoClContext \/ g.cells # batch THEN {Ends(FALSE, g, 0)}
            ELSE {Ends(TRUE, Evolved(g, noise), 0),
                  Ends(FALSE, g, 1), Ends(FALSE, Evolved(g, noise), 1)}
    IN  UNION {IF i.ok THEN After(i, Run(i.field)) ELSE {i} : i \in ready}

\* The call ends in one of these ways.
Outcome(o) ==
    /\ failures + o.failed <= MaxFailures
    /\ failures' = failures + o.failed
    /\ field' = o.field

-----------------------------------------------------------------------------
(* The driver and the field *)

StartDriver(g) ==
    /\ InitializeGpu(g)
    /\ UNCHANGED coreVars

\* subqg_initialize_state and subqg_initialize_state_batched, called from outside.
InitializeState(n) ==
    /\ \E o \in InitializeField(field, n, "grown", context) : Outcome(o)
    /\ UNCHANGED <<gpuVars, fs, closed, sdkVars>>

SimulationStep ==
    /\ \E o \in Step(field, TRUE, context) : Outcome(o)
    /\ UNCHANGED <<gpuVars, fs, closed, sdkVars>>

SetParams ==
    /\ LET grid == <<Positive(field.width, DefaultGrid[1]), Positive(field.height, DefaultGrid[2])>>
       IN  \E o \in Ensure(field, grid, context) : Outcome(o)
    /\ UNCHANGED <<gpuVars, fs, closed, sdkVars>>

ReleaseState ==
    /\ field' = Released(field)
    /\ UNCHANGED <<gpuVars, fs, closed, sdkVars, failures>>

\* Mutant: the flag of mycelia_init_all survives the buffers.
ReleaseFsInitialized == fs' = [NoFs EXCEPT !.initialized = fs.initialized]

\* release_mycel_fs_resources
ReleaseFs == fs' = NoFs

\* shutdown_gpu scrubs the buffers of MycelFS and shuts the driver down.
ShutdownGpu ==
    /\ ShutdownDriver
    /\ field' = Released(field)
    /\ ReleaseFs
    /\ UNCHANGED <<closed, sdkVars, failures>>

-----------------------------------------------------------------------------
(* MycelFS *)

\* mycelia_init_all forgets the desync first of all; then it returns early, with or
\* without all buffers made, or becomes initialised.
Forgotten(buffers, initialized) ==
    /\ fs' = [initialized |-> initialized, desynced |-> FALSE, buffers |-> buffers]
    /\ closed' = FALSE

\* The buffers that are still missing are made in the driver's context.
Made(o) == IF fs.buffers = NoClContext THEN o ELSE fs.buffers

DriverFails ==
    /\ context = NoClContext /\ failures < MaxFailures
    /\ failures' = failures + 1
    /\ Forgotten(fs.buffers, fs.initialized)
    /\ UNCHANGED <<gpuVars, field, sdkVars>>

\* The driver starts, or had been started; the field fails, or a buffer, or the write of
\* the entropy.
InitAllFails ==
    /\ GpuReady(MycelGpu)
    /\ \E o \in Ensure(field, FsGrid, context') :
          \/ ~o.ok /\ Outcome(o) /\ Forgotten(fs.buffers, fs.initialized)
          \/ /\ o.ok /\ Outcome([o EXCEPT !.failed = @ + 1])
             /\ \E buffers \in {fs.buffers, Made(context')} :
                   Forgotten(buffers, fs.initialized)
    /\ UNCHANGED <<fetching, sdkVars>>

\* The entropy is written with the queue of MycelFS's slot, which has to be in the
\* driver's context.
InitAll ==
    /\ GpuReady(MycelGpu)
    /\ \E o \in Ensure(field, FsGrid, context') : o.ok /\ Outcome(o)
    /\ slots'[MycelGpu].initialized /\ slots'[MycelGpu].context = context'
    /\ Forgotten(Made(context'), TRUE)
    /\ UNCHANGED <<fetching, sdkVars>>

\* The driver runs on another device: the lookup of the slot makes a context for it (or
\* cannot, and tries again next time), and its queue refuses the driver's buffer.
InitAllElsewhere ==
    /\ context # NoClContext /\ slots[MycelGpu].context # context
    /\ \E o \in Ensure(field, FsGrid, context) : o.ok /\ Outcome(o)
    /\ IF slots[MycelGpu].initialized THEN UNCHANGED <<live, slots>>
       ELSE \E c \in Fresh :
               /\ live' = live \cup {c}
               /\ slots' = [slots EXCEPT ![MycelGpu] =
                     [context |-> c, owns |-> TRUE, initialized |-> TRUE, inError |-> FALSE]]
    /\ Forgotten(Made(context), fs.initialized)
    /\ UNCHANGED <<context, fetching, sdkVars>>

\* mycelia_fs_map_logical_to_physical looks a block up instead of refusing.
Answers == fs.initialized /\ ~fs.desynced /\ field.initialized /\ field.buffer > 0

\* mycelia_fs_fail_closed
FailsClosed ==
    /\ fs' = [fs EXCEPT !.desynced = TRUE]
    /\ closed' = TRUE

\* mycelia_cycle_update: the variance of the last kernel is out of bounds, the step of
\* the field fails, or it succeeds.
CycleUpdate ==
    /\ fs.initialized /\ ~fs.desynced
    /\ \/ FailsClosed /\ UNCHANGED fieldVars
       \/ \E o \in Step(field, TRUE, context) :
             Outcome(o) /\ IF o.ok THEN UNCHANGED <<fs, closed>> ELSE FailsClosed
    /\ UNCHANGED <<gpuVars, sdkVars>>

-----------------------------------------------------------------------------
(* The SDK *)

\* myc_create_context: the key cache is not initialised, its memory holds zeros or what
\* was there before.
CreateContext(c, g) ==
    /\ sdk[c].state = "new"
    /\ GpuReady(g)
    /\ \E memory \in {"zeros", c} :
          sdk' = [sdk EXCEPT ![c] = [state |-> "open", seed |-> "unset", cache |-> memory]]
    /\ UNCHANGED <<fetching, fieldVars, fs, closed, text, odd>>

DestroyContext(c) ==
    /\ sdk[c].state = "open"
    /\ sdk' = [sdk EXCEPT ![c] = [state |-> "closed"]]
    /\ UNCHANGED <<gpuVars, fieldVars, fs, closed, text, odd>>

\* myc_set_seed also warms the field up.
SetSeed(c, s) ==
    /\ sdk[c].state = "open"
    /\ sdk' = [sdk EXCEPT ![c].seed = s]
    /\ \E o \in InitializeField(field, 1, "half", context) : Outcome(o)
    /\ UNCHANGED <<gpuVars, fs, closed, text, odd>>

Flip(S, x) == IF x \in S THEN S \ {x} ELSE S \cup {x}

\* Mutant: a field that is initialised is used as it is.
KeyFieldAsFound(f, o) == Step(f, FALSE, o)

\* One block of myc_process_buffer: the field is initialised anew and steps once, and
\* nobody looks whether they succeed.
KeyField(f, o) ==
    UNION {After(i, Step(i.field, FALSE, o)) : i \in InitializeField(f, 1, "half", o)}

\* Then subqg_debug_read_channel reads as many numbers as there are cells into the key
\* cache, which is longer, and all of the cache becomes the key.
ReadFails(c) ==
    /\ sdk[c].state = "open"
    /\ \E o \in KeyField(field, context) :
          IF o.field.initialized /\ context # NoClContext
          THEN Outcome([o EXCEPT !.failed = @ + 1])
          ELSE Outcome(o)
    /\ UNCHANGED <<gpuVars, fs, closed, sdkVars>>

ProcessBuffer(c, b) ==
    /\ sdk[c].state = "open"
    /\ context # NoClContext
    /\ \E o \in KeyField(field, context) :
          LET cache == IF o.field.cells > 1 THEN "field" ELSE sdk[c].cache IN
          /\ o.field.initialized
          /\ Outcome(o)
          /\ sdk' = [sdk EXCEPT ![c].cache = cache]
          /\ text' = [text EXCEPT
                ![b].first = Flip(@, o.field.energy),
                ![b].rest = IF cache = "zeros" THEN @ ELSE Flip(@, cache)]
          /\ odd' = [odd EXCEPT ![b] = Flip(@, <<c, sdk[c].seed>>)]
    /\ UNCHANGED <<gpuVars, fs, closed>>

NextCore ==
    \/ \E g \in Gpus : StartDriver(g) \/ \E c \in SdkContexts : CreateContext(c, g)
    \/ \E n \in CellCounts : InitializeState(n)
    \/ SimulationStep \/ SetParams \/ ReleaseState \/ ShutdownGpu
    \/ DriverFails \/ InitAllFails \/ InitAll \/ InitAllElsewhere \/ CycleUpdate
    \/ \E c \in SdkContexts :
          \/ DestroyContext(c) \/ ReadFails(c)
          \/ \E s \in SdkSeeds : SetSeed(c, s)
          \/ \E b \in SdkBlocks : ProcessBuffer(c, b)

SpecCore == InitCore /\ [][NextCore]_<<gpuVars, coreVars>>

-----------------------------------------------------------------------------
(* Properties *)

(* "fail-closed" (Mycelia_Integrated_v1_1.h): once MycelFS failed closed no call but  *)
(* mycelia_init_all makes it answer again, neither a shutdown and a new start of the  *)
(* driver nor a new field.                                                            *)
FailClosed == closed => ~Answers

(* Kernels run over the buffers they were made for: an initialised field has as many  *)
(* elements as its field map, in the context of the driver, and its grid has as many  *)
(* cells unless a call of OpenCL failed before; and a lookup of MycelFS uses buffers  *)
(* and a queue of that context.                                                       *)
FieldFits ==
    /\ field.initialized =>
          /\ field.cells > 0
          /\ field.buffer = field.cells /\ field.elements = field.cells
          /\ field.madeIn = context /\ context # NoClContext
          /\ failures = 0 => field.width * field.height = field.cells
    /\ Answers => fs.buffers = context /\ slots[MycelGpu].context = context

\* Nothing of a key is left in the block.
IsPlain(b) == text[b] = Plain

(* "Verschlüsselt/Entschlüsselt einen Datenblock" (mycelia.h): a block that each      *)
(* context processed an even number of times with each seed is plain again, whatever  *)
(* MycelFS and other users of the one field did in between, as long as OpenCL works.  *)
OneContextRestores == failures = 0 => \A b \in SdkBlocks : odd[b] = {} => IsPlain(b)

(* "Setzt den biologischen Seed (Master Key)" (mycelia.h): what a context encrypted,  *)
(* another context with the same seed decrypts.                                       *)
SameSeedRestores ==
    \A b \in SdkBlocks :
        (\A s \in SdkSeeds \cup {"unset"} :
            Cardinality({c \in SdkContexts : <<c, s>> \in odd[b]}) % 2 = 0)
        => IsPlain(b)
=============================================================================
