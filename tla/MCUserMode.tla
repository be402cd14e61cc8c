----------------------------- MODULE MCUserMode -----------------------------
(* Small instances of the modules about the programs in user mode, checked in one run:*)
(* one thread of the Explorer by itself, the slots of mycelia_core with the threads   *)
(* that look them up, and the calls of mycelia_core on its field.  "part" is chosen   *)
(* at the start and says which of them moves; the others stay as they began, and the  *)
(* thread's fair actions are not enabled there.                                       *)
EXTENDS MCTransformFile, MCMyceliaCore

VARIABLE part

userVars == <<part, vars, gpuVars, coreVars>>

InitUserMode ==
    /\ part \in {"explorer", "slots", "core"}
    /\ Init /\ InitCore
    /\ part # "explorer" => \A n \in Names : dir[n] = NoFile

\* A step of the part that moves.
InExplorer(A) == part = "explorer" /\ A /\ UNCHANGED <<part, gpuVars, coreVars>>
InSlots(A) == part = "slots" /\ A /\ UNCHANGED <<part, vars, coreVars>>
InCore(A) == part = "core" /\ A /\ UNCHANGED <<part, vars>>

\* The next-state relation of each module, with its actions one by one so that TLC
\* reports how often each is taken.
NextInExplorer ==
    \/ \E a \in Actors :
          \/ \E n \in Names :
                \/ InExplorer(Open(a, n)) \/ InExplorer(OpenFails(a, n))
                \/ InExplorer(AuditOpen(a, n)) \/ InExplorer(DeleteSidecar(a, n))
                \/ \E m \in Names : InExplorer(Rename(a, m, n))
          \/ InExplorer(ReadTag(a)) \/ InExplorer(Verify(a))
          \/ InExplorer(XorBlock(a)) \/ InExplorer(XorBlockFails(a))
          \/ InExplorer(DeleteTag(a)) \/ InExplorer(ComputeTag(a))
          \/ InExplorer(CreateTag(a)) \/ InExplorer(WriteTag(a))
          \/ InExplorer(AuditClose(a)) \/ InExplorer(DeleteFile(a))
    \/ \E n \in Names :
          \/ \E i \in Blocks : InExplorer(ForeignWrite(n, i))
          \/ InExplorer(ForeignDelete(n))
          \/ \E f \in Files : InExplorer(ForeignCreate(n, f))
    \/ InExplorer(Crash)

NextInSlots ==
    \/ \E g \in Gpus :
          InSlots(InitializeGpu(g)) \/ \E t \in SlotThreads : InSlots(CheckSlot(t, g))
    \/ \E t \in SlotThreads :
          InSlots(CreateSlot(t)) \/ InSlots(CreateFails(t)) \/ InSlots(MarkSlot(t))
    \/ InSlots(ShutdownDriver)

NextInCore ==
    \/ \E g \in Gpus :
          InCore(StartDriver(g)) \/ \E c \in SdkContexts : InCore(CreateContext(c, g))
    \/ \E n \in CellCounts : InCore(InitializeState(n))
    \/ InCore(SimulationStep) \/ InCore(SetParams) \/ InCore(ReleaseState)
    \/ InCore(ShutdownGpu) \/ InCore(DriverFails) \/ InCore(InitAllFails)
    \/ InCore(InitAll) \/ InCore(InitAllElsewhere) \/ InCore(CycleUpdate)
    \/ \E c \in SdkContexts :
          \/ InCore(DestroyContext(c)) \/ InCore(ReadFails(c))
          \/ \E s \in SdkSeeds : InCore(SetSeed(c, s))
          \/ \E b \in SdkBlocks : InCore(ProcessBuffer(c, b))

NextUserMode == NextInExplorer \/ NextInSlots \/ NextInCore

UserMode ==
    /\ InitUserMode /\ [][NextUserMode]_userVars
    /\ \A a \in Actors : WF_vars(Progress(a))
=============================================================================
