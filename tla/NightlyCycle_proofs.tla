------------------------ MODULE NightlyCycle_proofs ------------------------
(***************************************************************************)
(* Theorems about NightlyCycle, for every number of cycles and crashes and *)
(* every choice of the switches.                                           *)
(***************************************************************************)
EXTENDS NightlyCycle, FiniteSetTheorems, SequenceTheorems, TLAPS

\* A running process works on a cycle, and so does a state that was written.
CycleIds ==
    /\ pc # "idle" => Cyc \in Cycles
    /\ tsm.st # "NONE" => tsm.cyc \in Cycles

TypeInv == TypeOK /\ CycleIds

-----------------------------------------------------------------------------
(* Facts about the operators.                                                *)

LEMMA PatchesFinite == IsFiniteSet(Patches)
<1>1. IsFiniteSet(Cycles)
  BY FS_Interval, BoundsAssumption DEF Cycles
<1>2. IsFiniteSet(Kind)
  <2>1. IsFiniteSet({"self"}) BY FS_Singleton
  <2>2. IsFiniteSet({"self"} \cup {"global"}) BY <2>1, FS_AddElement
  <2>3. IsFiniteSet(({"self"} \cup {"global"}) \cup {"negative"}) BY <2>2, FS_AddElement
  <2>4. Kind = ({"self"} \cup {"global"}) \cup {"negative"} BY DEF Kind
  <2> QED BY <2>3, <2>4
<1> QED BY <1>1, <1>2, FS_Product DEF Patches

LEMMA PrependType ==
  ASSUME NEW c \in Cycles, NEW s \in Seq(Cycles)
  PROVE  Prepend(c, s) \in Seq(Cycles)
<1>1. <<c>> \in Seq(Cycles)
  OBVIOUS
<1>2. CASE Len(s) < LineageMax
  BY <1>1, <1>2, ConcatProperties DEF Prepend
<1>3. CASE ~(Len(s) < LineageMax)
  <2>1. Len(s) \in Nat /\ \A i \in 1 .. LineageMax - 1 : s[i] \in Cycles
    BY <1>3, LenProperties, ElementOfSeq, LineageAssumption
  <2>2. SubSeq(s, 1, LineageMax - 1) \in Seq(Cycles)
    BY <2>1, SubSeqProperties, LineageAssumption
  <2> QED BY <1>1, <1>3, <2>2, ConcatProperties DEF Prepend
<1> QED BY <1>2, <1>3

LEMMA EvaluateType ==
  ASSUME NEW ver \in SUBSET Kind, NEW open \in BOOLEAN, NEW gen \in Nat
  PROVE  Evaluate(ver, open, gen) \in GateResult
BY DEF Evaluate, GateResult, FileStatus

LEMMA PromotedType ==
  ASSUME TypeOK, Cyc \in Cycles
  PROVE  /\ Promoted \subseteq Patches
         /\ Cardinality(Promoted) \in Nat
<1>1. Promoted \subseteq Patches
  BY DEF TypeOK, Run, GateResult, Promoted, OwnPatches, Patches
<1> QED BY <1>1, PatchesFinite, FS_Subset, FS_CardinalityType

-----------------------------------------------------------------------------
(* Type correctness.                                                         *)

LEMMA NoRunType == NoRun \in Run /\ NoRun.from = "OBSERVING" /\ NoRun.extra = {}
BY BoundsAssumption DEF NoRun, NoGate, Run, GateResult, TaskStatus, FileStatus

LEMMA InitType == Init => TypeInv
<1> SUFFICES ASSUME Init PROVE TypeInv OBVIOUS
<1>1. NoGate \in GateResult
  BY DEF NoGate, GateResult, FileStatus
<1>2. TypeOK
  <2> USE BoundsAssumption DEF Init
  <2>1. tsm \in [st : TaskStatus \cup {"NONE", "TORN"}, cyc : 0 .. MaxCycles]
    OBVIOUS
  <2>2. bck \in [Cycles -> [st : FileStatus, ver : SUBSET Kind]]
    BY DEF FileStatus
  <2>3. cck \in [Cycles -> GateResult]
    BY <1>1
  <2>4. morning \in [Cycles -> [done : BOOLEAN, promoted : SUBSET Patches, drift : DriftStatus]]
    BY DEF DriftStatus
  <2>5. memory \in [Cycles -> 0 .. AppendCap] /\ pc \in Steps
    BY DEF AppendCap, Steps
  <2>6. lineage \in Seq(Cycles)
    BY EmptySeq
  <2>7. latest \in DriftStatus /\ drift \in DriftStatus
    BY DEF DriftStatus
  <2>8. /\ rejCount \in [Cycles -> Nat]
        /\ decided \in [Patches -> SUBSET Verdicts]
    OBVIOUS
  <2>9. /\ cum \in Nat /\ rollback \in BOOLEAN /\ f011 \in Nat /\ torn \subseteq Files
        /\ approved \subseteq Patches /\ reviewQ \subseteq Patches
        /\ prs \subseteq Cycles \X Kind \X Nat
        /\ lost \subseteq Cycles
    OBVIOUS
  <2>10. run \in Run /\ born \in 0 .. MaxCycles /\ crashes \in 0 .. MaxCrashes
    BY NoRunType
  <2> HIDE DEF Init
  <2> QED BY <2>1, <2>2, <2>3, <2>4, <2>5, <2>6, <2>7, <2>8, <2>9, <2>10 DEF TypeOK
<1>3. CycleIds
  BY DEF Init, CycleIds
<1> QED BY <1>2, <1>3 DEF TypeInv

\* A run that starts works on a cycle, from a state of the state machine.
LEMMA StartType ==
  ASSUME NEW c \in Cycles, NEW st \in TaskStatus
  PROVE  /\ [NoRun EXCEPT !.cyc = c] \in Run
         /\ [NoRun EXCEPT !.cyc = c].cyc = c
         /\ [NoRun EXCEPT !.cyc = c].from = "OBSERVING"
         /\ [NoRun EXCEPT !.cyc = c, !.from = st] \in Run
         /\ [NoRun EXCEPT !.cyc = c, !.from = st].cyc = c
         /\ [NoRun EXCEPT !.cyc = c, !.from = st].from = st
         /\ [NoRun EXCEPT !.cyc = c].extra = {}
         /\ [NoRun EXCEPT !.cyc = c, !.from = st].extra = {}
<1>1. c \in 0 .. MaxCycles
  BY BoundsAssumption DEF Cycles
<1> DEFINE r == NoRun
<1>2. r \in Run /\ r.from = "OBSERVING" /\ r.extra = {}
  BY NoRunType
<1> HIDE DEF r
<1>3. /\ [r EXCEPT !.cyc = c] \in Run
      /\ [r EXCEPT !.cyc = c].cyc = c
      /\ [r EXCEPT !.cyc = c].from = "OBSERVING"
      /\ [r EXCEPT !.cyc = c].extra = {}
  BY <1>1, <1>2 DEF Run
<1>4. /\ [r EXCEPT !.cyc = c, !.from = st] \in Run
      /\ [r EXCEPT !.cyc = c, !.from = st].cyc = c
      /\ [r EXCEPT !.cyc = c, !.from = st].from = st
      /\ [r EXCEPT !.cyc = c, !.from = st].extra = {}
  BY <1>1, <1>2 DEF Run
<1> QED BY <1>3, <1>4 DEF r

LEMMA WriteStateType ==
  ASSUME TypeInv, Cyc \in Cycles,
         NEW st \in TaskStatus \cup {"TORN"}, WriteState(st)
  PROVE  /\ tsm' \in [st : TaskStatus \cup {"NONE", "TORN"}, cyc : 0 .. MaxCycles]
         /\ tsm'.cyc \in Cycles
         /\ born' \in 0 .. MaxCycles
         /\ lost' \subseteq Cycles
<1>1. tsm' = [st |-> st, cyc |-> Cyc] /\ Cyc \in 0 .. MaxCycles
  BY BoundsAssumption DEF WriteState, Cycles
<1>2. lost' \subseteq Cycles
  <2>1. lost \subseteq Cycles /\ (tsm.st # "NONE" => tsm.cyc \in Cycles)
    BY DEF TypeInv, TypeOK, CycleIds
  <2> QED BY <2>1 DEF WriteState
<1>3. born' \in 0 .. MaxCycles
  BY <1>1 DEF WriteState, TypeInv, TypeOK
<1> QED BY <1>1, <1>2, <1>3

LEMMA StartupType == TypeInv /\ Startup => TypeInv'
<1> SUFFICES ASSUME TypeInv, Startup PROVE TypeInv'
  OBVIOUS
<1> USE DEF TypeInv, Step, stores, ckpts, report, ledger, review, outside, history
<1>1. CASE StartFresh
  <2>1. born + 1 \in Cycles /\ run' = [NoRun EXCEPT !.cyc = born + 1]
    BY <1>1, BoundsAssumption DEF StartFresh, TypeOK, Cycles
  <2>2. run' \in Run /\ run'.cyc \in Cycles
    BY <2>1, StartType DEF TaskStatus
  <2>3. pc' \in Steps /\ (tsm.st # "NONE" => tsm.cyc \in Cycles)
    BY <1>1 DEF StartFresh, Steps, CycleIds
  <2>4. approved' \subseteq Patches /\ reviewQ' \subseteq Patches
    BY <1>1 DEF StartFresh, OpenReviewStore, TypeOK
  <2> QED BY <1>1, <2>2, <2>3, <2>4 DEF StartFresh, TypeOK, CycleIds, Cyc
<1>2. CASE StartResume
  <2>1. tsm.cyc \in Cycles /\ tsm.st \in TaskStatus
    BY <1>2 DEF StartResume, CycleIds, TaskStatus
  <2>2. run' \in Run /\ run'.cyc \in Cycles
    BY <1>2, <2>1, StartType DEF StartResume
  <2>3. approved' \subseteq Patches /\ reviewQ' \subseteq Patches
    BY <1>2 DEF StartResume, OpenReviewStore, TypeOK
  <2> QED BY <1>2, <2>1, <2>2, <2>3 DEF StartResume, TypeOK, CycleIds, Cyc, Steps
<1>3. CASE RecordStateLoss
  BY <1>3 DEF RecordStateLoss, TypeOK, CycleIds, Cyc, Steps
<1>4. CASE ResetState
  <2>1. Cyc \in Cycles /\ WriteState("OBSERVING")
    BY <1>4 DEF ResetState, CycleIds
  <2>2. /\ tsm' \in [st : TaskStatus \cup {"NONE", "TORN"}, cyc : 0 .. MaxCycles]
        /\ tsm'.cyc \in Cycles
        /\ born' \in 0 .. MaxCycles
        /\ lost' \subseteq Cycles
    BY <2>1, WriteStateType DEF TaskStatus
  <2> QED BY <1>4, <2>1, <2>2 DEF ResetState, TypeOK, CycleIds, Cyc, Steps
<1>5. CASE Load
  <2>1. Cyc \in Cycles /\ run' \in Run /\ run'.cyc = run.cyc
    BY <1>5 DEF Load, TypeOK, CycleIds, Run
  <2> QED BY <1>5, <2>1 DEF Load, TypeOK, CycleIds, Cyc, Steps
<1> QED BY <1>1, <1>2, <1>3, <1>4, <1>5 DEF Startup

LEMMA PhaseABType == TypeInv /\ PhaseAB => TypeInv'
<1> SUFFICES ASSUME TypeInv, PhaseAB PROVE TypeInv'
  OBVIOUS
<1> USE DEF TypeInv, Step, stores, ckpts, report, ledger, review, outside, history
<1>1. CASE Observe
  <2>1. Cyc \in Cycles /\ WriteState("HYPOTHESIZING")
    BY <1>1 DEF Observe, CycleIds
  <2>2. /\ tsm' \in [st : TaskStatus \cup {"NONE", "TORN"}, cyc : 0 .. MaxCycles]
        /\ tsm'.cyc \in Cycles
        /\ born' \in 0 .. MaxCycles
        /\ lost' \subseteq Cycles
    BY <2>1, WriteStateType DEF TaskStatus
  <2> QED BY <1>1, <2>1, <2>2 DEF Observe, TypeOK, CycleIds, Cyc, Steps
<1>2. CASE Dispatch
  BY <1>2 DEF Dispatch, TypeOK, CycleIds, Cyc, Steps
<1>3. CASE EnterTesting
  <2>1. Cyc \in Cycles /\ WriteState("TESTING")
    BY <1>3 DEF EnterTesting, CycleIds
  <2>2. /\ tsm' \in [st : TaskStatus \cup {"NONE", "TORN"}, cyc : 0 .. MaxCycles]
        /\ tsm'.cyc \in Cycles
        /\ born' \in 0 .. MaxCycles
        /\ lost' \subseteq Cycles
    BY <2>1, WriteStateType DEF TaskStatus
  <2> QED BY <1>3, <2>1, <2>2 DEF EnterTesting, TypeOK, CycleIds, Cyc, Steps
<1>4. CASE RunSandbox
  <2>1. PICK batch \in Batches :
          run' = [run EXCEPT !.ver = IF run.ceiling THEN batch \ {"global"} ELSE batch]
    BY <1>4 DEF RunSandbox
  <2>2. batch \in SUBSET Kind
    BY BatchesAssumption
  <2>3. Cyc \in Cycles /\ run' \in Run /\ run'.cyc = run.cyc
    BY <1>4, <2>1, <2>2 DEF RunSandbox, TypeOK, CycleIds, Run
  <2>4. drift' \in DriftStatus
    BY <1>4 DEF RunSandbox, TypeOK, DriftStatus
  <2> QED BY <1>4, <2>3, <2>4 DEF RunSandbox, TypeOK, CycleIds, Cyc, Steps
<1>5. CASE ApplyLedgerWrites
  BY <1>5 DEF ApplyLedgerWrites, TypeOK, CycleIds, Cyc, Steps
<1>6. CASE SaveB
  <2>1. bck' \in [Cycles -> [st : FileStatus, ver : SUBSET Kind]]
    BY <1>6 DEF SaveB, TypeOK, Run, FileStatus
  <2> QED BY <1>6, <2>1 DEF SaveB, TypeOK, CycleIds, Cyc, Steps
<1> QED BY <1>1, <1>2, <1>3, <1>4, <1>5, <1>6 DEF PhaseAB

LEMMA PhaseCType == TypeInv /\ PhaseC => TypeInv'
<1> SUFFICES ASSUME TypeInv, PhaseC PROVE TypeInv'
  OBVIOUS
<1> USE DEF TypeInv, Step, stores, ckpts, report, ledger, review, outside, history
<1>1. CASE EnterPromoting
  <2>1. Cyc \in Cycles /\ WriteState("PROMOTING")
    BY <1>1 DEF EnterPromoting, CycleIds
  <2>2. /\ tsm' \in [st : TaskStatus \cup {"NONE", "TORN"}, cyc : 0 .. MaxCycles]
        /\ tsm'.cyc \in Cycles
        /\ born' \in 0 .. MaxCycles
        /\ lost' \subseteq Cycles
    BY <2>1, WriteStateType DEF TaskStatus
  <2> QED BY <1>1, <2>1, <2>2 DEF EnterPromoting, TypeOK, CycleIds, Cyc, Steps
<1>2. CASE LoadGateResult
  <2>1. Cyc \in Cycles /\ run' \in Run /\ run'.cyc = run.cyc
    BY <1>2 DEF LoadGateResult, TypeOK, CycleIds, Run
  <2> QED BY <1>2, <2>1 DEF LoadGateResult, TypeOK, CycleIds, Cyc, Steps
<1>3. CASE EvaluateGate
  <2>1. Cyc \in Cycles /\ run.ver \in SUBSET Kind /\ cck[Cyc].gen + 1 \in Nat
    BY <1>3 DEF EvaluateGate, TypeOK, CycleIds, Run, GateResult
  <2>2. PICK open \in BOOLEAN :
          run' = [run EXCEPT !.gate = Evaluate(run.ver, open, cck[Cyc].gen + 1)]
    BY <1>3 DEF EvaluateGate
  <2>3. Evaluate(run.ver, open, cck[Cyc].gen + 1) \in GateResult
    BY <2>1, EvaluateType
  <2>4. run' \in Run /\ run'.cyc = run.cyc /\ run'.gate \in GateResult
    BY <2>2, <2>3 DEF TypeOK, Run
  <2>5. cck' \in [Cycles -> GateResult]
    BY <1>3, <2>4 DEF EvaluateGate, TypeOK
  <2> QED BY <1>3, <2>1, <2>4, <2>5 DEF EvaluateGate, TypeOK, CycleIds, Cyc, Steps
<1>4. CASE Inject
  <2>1. Cyc \in Cycles /\ run' \in Run /\ run'.cyc = run.cyc
    BY <1>4 DEF Inject, TypeOK, CycleIds, Run
  <2> QED BY <1>4, <2>1 DEF Inject, TypeOK, CycleIds, Cyc, Steps
<1>5. CASE RemoveApproved
  <2>1. PICK p \in run.todo : /\ approved' = approved \ {p}
                             /\ run' = [run EXCEPT !.todo = @ \ {p}]
                             /\ pc' = IF run.todo = {p} THEN "pr" ELSE "remove"
    BY <1>5 DEF RemoveApproved
  <2>2. Cyc \in Cycles /\ run' \in Run /\ run'.cyc = run.cyc
    BY <1>5, <2>1 DEF RemoveApproved, TypeOK, CycleIds, Run
  <2> QED BY <1>5, <2>1, <2>2 DEF RemoveApproved, TypeOK, CycleIds, Cyc, Steps
<1>6. CASE SubmitPrs
  <2>1. {Cyc} \X run.gate.promoted \X {run.gate.gen} \subseteq Cycles \X Kind \X Nat
    BY <1>6 DEF SubmitPrs, TypeOK, CycleIds, Run, GateResult
  <2>2. prs' \subseteq Cycles \X Kind \X Nat
    BY <1>6, <2>1 DEF SubmitPrs, TypeOK
  <2> QED BY <1>6, <2>2 DEF SubmitPrs, TypeOK, CycleIds, Cyc, Steps
<1>7. CASE QueueDeferred
  <2>1. OwnPatches(run.gate.human) \subseteq Patches
    BY <1>7 DEF QueueDeferred, TypeOK, CycleIds, Run, GateResult, OwnPatches, Patches
  <2> QED BY <1>7, <2>1 DEF QueueDeferred, TypeOK, CycleIds, Cyc, Steps
<1>8. CASE AppendMemory
  <2>1. memory' \in [Cycles -> 0 .. AppendCap]
    BY <1>8 DEF AppendMemory, TypeOK, CycleIds, AppendCap
  <2> QED BY <1>8, <2>1 DEF AppendMemory, TypeOK, CycleIds, Cyc, Steps
<1> QED BY <1>1, <1>2, <1>3, <1>4, <1>5, <1>6, <1>7, <1>8 DEF PhaseC

LEMMA PhaseDType == TypeInv /\ PhaseD => TypeInv'
<1> SUFFICES ASSUME TypeInv, PhaseD PROVE TypeInv'
  OBVIOUS
<1> USE DEF TypeInv, Step, stores, ckpts, report, ledger, review, outside, history
<1>1. CASE Aggregate
  <2>1. Cyc \in Cycles /\ run' \in Run /\ run'.cyc = run.cyc
    BY <1>1 DEF Aggregate, TypeOK, CycleIds, Run
  <2> QED BY <1>1, <2>1 DEF Aggregate, TypeOK, CycleIds, Cyc, Steps
<1>2. CASE WriteMorning
  <2>1. Promoted \subseteq Patches /\ drift \in DriftStatus
    BY <1>2, PromotedType DEF WriteMorning, TypeOK, CycleIds
  <2>2. morning' \in [Cycles -> [done : BOOLEAN, promoted : SUBSET Patches, drift : DriftStatus]]
    BY <1>2, <2>1 DEF WriteMorning, TypeOK
  <2> QED BY <1>2, <2>2 DEF WriteMorning, TypeOK, CycleIds, Cyc, Steps
<1>3. CASE WriteMetrics
  BY <1>3 DEF WriteMetrics, TypeOK, CycleIds, Cyc, Steps
<1>4. CASE WriteStats
  <2>1. Cardinality(Promoted) \in Nat
    BY <1>4, PromotedType DEF WriteStats, CycleIds
  <2>2. cum' \in Nat
    BY <1>4, <2>1 DEF WriteStats, TypeOK, Run
  <2> QED BY <1>4, <2>2 DEF WriteStats, TypeOK, CycleIds, Cyc, Steps
<1>5. CASE WriteLineage
  <2>1. lineage' \in Seq(Cycles)
    BY <1>5, PrependType DEF WriteLineage, TypeOK, CycleIds
  <2> QED BY <1>5, <2>1 DEF WriteLineage, TypeOK, CycleIds, Cyc, Steps
<1>6. CASE WriteAdaptation
  BY <1>6 DEF WriteAdaptation, TypeOK, CycleIds, Cyc, Steps
<1>7. CASE UpdateRollback
  BY <1>7 DEF UpdateRollback, TypeOK, CycleIds, Cyc, Steps
<1>8. CASE Finish
  <2>1. Cyc \in Cycles /\ WriteState("OBSERVING") /\ run' = NoRun
    BY <1>8 DEF Finish, CycleIds
  <2>2. /\ tsm' \in [st : TaskStatus \cup {"NONE", "TORN"}, cyc : 0 .. MaxCycles]
        /\ tsm'.cyc \in Cycles
        /\ born' \in 0 .. MaxCycles
        /\ lost' \subseteq Cycles
    BY <2>1, WriteStateType DEF TaskStatus
  <2> QED BY <1>8, <2>1, <2>2, NoRunType DEF Finish, TypeOK, CycleIds, Cyc, Steps
<1> QED BY <1>1, <1>2, <1>3, <1>4, <1>5, <1>6, <1>7, <1>8 DEF PhaseD

\* A torn checkpoint is still of its type.
LEMMA TornType ==
  /\ \A b \in [st : FileStatus, ver : SUBSET Kind] :
        [b EXCEPT !.st = "torn"] \in [st : FileStatus, ver : SUBSET Kind]
  /\ \A g \in GateResult : [g EXCEPT !.st = "torn"] \in GateResult
BY DEF FileStatus, GateResult

LEMMA DieType ==
  ASSUME TypeInv, Die
  PROVE  /\ Cyc \in Cycles
         /\ crashes' \in 0 .. MaxCrashes
         /\ run' = NoRun /\ run' \in Run /\ pc' = "idle"
<1>1. crashes \in 0 .. MaxCrashes /\ MaxCrashes \in Nat
  BY BoundsAssumption DEF TypeInv, TypeOK
<1>2. crashes' = crashes + 1 /\ crashes < MaxCrashes
  BY DEF Die
<1>3. crashes' \in 0 .. MaxCrashes
  BY <1>1, <1>2
<1> QED BY <1>3, NoRunType DEF Die, TypeInv, CycleIds

LEMMA FailureType ==
  ASSUME TypeInv, Abort \/ DispatchFails \/ Crash \/ CrashInWrite
  PROVE  TypeInv'
<1> USE DEF TypeInv, Step, stores, ckpts, report, ledger, review, outside, history
<1>1. CASE Abort
  BY <1>1, NoRunType DEF Abort, TypeOK, CycleIds, Cyc, Steps
<1>2. CASE DispatchFails
  BY <1>2, NoRunType DEF DispatchFails, TypeOK, CycleIds, Cyc, Steps
<1>3. CASE Crash
  <2>1. crashes' \in 0 .. MaxCrashes /\ run' \in Run /\ pc' = "idle"
    BY <1>3, DieType DEF Crash
  <2> QED BY <1>3, <2>1 DEF Crash, Die, TypeOK, CycleIds, Steps
<1>4. CASE CrashInWrite
  <2>1. /\ Cyc \in Cycles /\ run' \in Run /\ pc' = "idle"
        /\ crashes' \in 0 .. MaxCrashes
        /\ decided' = decided
    BY <1>4, DieType DEF CrashInWrite, Die
  <2>2. CASE TearState
    <3>1. /\ tsm' \in [st : TaskStatus \cup {"NONE", "TORN"}, cyc : 0 .. MaxCycles]
          /\ tsm'.cyc \in Cycles
          /\ born' \in 0 .. MaxCycles
          /\ lost' \subseteq Cycles
      BY <2>1, <2>2, WriteStateType DEF TearState
    <3> QED BY <1>4, <2>1, <2>2, <3>1 DEF CrashInWrite, TearState, TypeOK, CycleIds, Steps
  <2>3. CASE TearCheckpoint
    <3>1. bck' \in [Cycles -> [st : FileStatus, ver : SUBSET Kind]]
      <4>1. [bck[Cyc] EXCEPT !.st = "torn"] \in [st : FileStatus, ver : SUBSET Kind]
        BY <2>1, TornType DEF TypeOK
      <4>2. bck' = bck \/ bck' = [bck EXCEPT ![Cyc] = [bck[Cyc] EXCEPT !.st = "torn"]]
        BY <2>3 DEF TearCheckpoint
      <4> QED BY <4>1, <4>2 DEF TypeOK
    <3>2. cck' \in [Cycles -> GateResult]
      <4>1. [cck[Cyc] EXCEPT !.st = "torn"] \in GateResult
        BY <2>1, TornType DEF TypeOK
      <4>2. cck' = cck \/ cck' = [cck EXCEPT ![Cyc] = [cck[Cyc] EXCEPT !.st = "torn"]]
        BY <2>3 DEF TearCheckpoint
      <4> QED BY <4>1, <4>2 DEF TypeOK
    <3> QED BY <1>4, <2>1, <2>3, <3>1, <3>2 DEF CrashInWrite, TearCheckpoint, TypeOK, CycleIds, Steps
  <2>4. CASE TearFile
    <3>1. torn' \subseteq Files
      BY <2>4 DEF TearFile, TypeOK, Files
    <3> QED BY <1>4, <2>1, <2>4, <3>1 DEF CrashInWrite, TearFile, TypeOK, CycleIds, Steps
  <2> QED BY <1>4, <2>2, <2>3, <2>4 DEF CrashInWrite
<1> QED BY <1>1, <1>2, <1>3, <1>4

LEMMA DecisionType ==
  ASSUME TypeInv, NEW p \in Patches, NEW v \in Verdicts, ApplyReviewDecision(p, v)
  PROVE  TypeInv'
<1> USE DEF stores, ckpts, report, ledger, review, outside, history
<1>1. decided' \in [Patches -> SUBSET Verdicts]
  BY DEF ApplyReviewDecision, TypeInv, TypeOK
<1>2. approved' \subseteq Patches /\ reviewQ' \subseteq Patches
  BY DEF ApplyReviewDecision, TypeInv, TypeOK
<1> QED BY <1>1, <1>2 DEF ApplyReviewDecision, TypeInv, TypeOK, CycleIds, Cyc

LEMMA StutterType == TypeInv /\ UNCHANGED vars => TypeInv'
BY DEF TypeInv, TypeOK, CycleIds, Cyc, vars, stores, ckpts, report, ledger, review,
       outside, history

LEMMA StepType == TypeInv /\ [Next]_vars => TypeInv'
<1> SUFFICES ASSUME TypeInv, [Next]_vars PROVE TypeInv'
  OBVIOUS
<1>1. CASE Startup
  BY <1>1, StartupType
<1>2. CASE PhaseAB
  BY <1>2, PhaseABType
<1>3. CASE PhaseC
  BY <1>3, PhaseCType
<1>4. CASE PhaseD
  BY <1>4, PhaseDType
<1>5. CASE Abort \/ DispatchFails \/ Crash \/ CrashInWrite
  BY <1>5, FailureType
<1>6. CASE \E p \in Patches, v \in Verdicts : ApplyReviewDecision(p, v)
  BY <1>6, DecisionType
<1>7. CASE UNCHANGED vars
  BY <1>7, StutterType
<1> QED BY <1>1, <1>2, <1>3, <1>4, <1>5, <1>6, <1>7 DEF Next, Runner

\* Every file and every local of the runner stays in its range, and a running
\* process and a written task_state.json belong to a cycle.
THEOREM TypeCorrect == Spec => []TypeInv
<1>1. Init => TypeInv
  BY InitType
<1>2. TypeInv /\ [Next]_vars => TypeInv'
  BY StepType
<1> QED BY <1>1, <1>2, PTL DEF Spec

THEOREM TypeOKHolds == Spec => []TypeOK
<1>1. TypeInv => TypeOK
  BY DEF TypeInv
<1> QED BY <1>1, TypeCorrect, PTL

-----------------------------------------------------------------------------
(* The inductive invariant: where the process is tells what is on disk.      *)

\* The steps from one write of task_state.json to the next.
InHypothesizing == {"dispatch", "enterTesting"}
InTesting == {"sandbox", "ledgerWrites", "saveB"}
AfterGate == {"inject", "remove", "pr", "queue", "memory", "aggregate", "morning",
              "metrics", "stats", "lineage", "adaptation", "rollback", "finish"}
InPromoting == {"gate"} \cup AfterGate

\* task_state.json follows the process.
StateFollows ==
    /\ tsm.st = "NONE" <=> born = 0
    /\ tsm.st # "NONE" => tsm.cyc = born
    /\ pc = "stateLoss" => tsm.st = "TORN"
    /\ pc = "reset" => tsm.st \in {"NONE", "TORN"}
    /\ pc \in {"stateLoss", "reset"} => run.from = "OBSERVING" /\ Cyc = born + 1
    /\ pc \in {"load", "observe"} =>
          IF run.from = "OBSERVING"
            THEN tsm.st = "OBSERVING" /\ Cyc \in {born, born + 1}
            ELSE tsm.st = run.from /\ Cyc = born
    /\ pc = "observe" => run.from \in {"OBSERVING", "HYPOTHESIZING"}
    /\ pc \in InHypothesizing => tsm.st = "HYPOTHESIZING" /\ Cyc = born
    /\ pc \in InTesting => tsm.st = "TESTING" /\ Cyc = born
    /\ pc = "enterPromoting" => tsm.st \in {"TESTING", "PROMOTING"} /\ Cyc = born
    /\ pc = "enterPromoting" /\ run.from # "PROMOTING" => tsm.st = "TESTING"
    /\ pc \in InPromoting => tsm.st = "PROMOTING" /\ Cyc = born

\* Nothing is on disk yet for a cycle.
Untouched(c) == bck[c].st = "absent" /\ cck[c].st = "absent" /\ rejCount[c] = 0

\* What is on disk for a cycle before its sandbox, before its decision, after.
CheckpointsFollow ==
    /\ \A c \in Cycles : c > born => Untouched(c)
    /\ tsm.st \in {"OBSERVING", "HYPOTHESIZING"} /\ pc \in {"load", "observe"} => Untouched(Cyc)
    /\ tsm.st = "HYPOTHESIZING" => Untouched(tsm.cyc)
    /\ pc \in {"sandbox", "ledgerWrites"} => Untouched(Cyc)
    /\ pc = "saveB" => bck[Cyc].st = "absent"
    /\ pc = "saveB" => rejCount[Cyc] <= 1
    /\ tsm.st = "TESTING" => cck[tsm.cyc].st = "absent"
    /\ pc = "gate" /\ run.from # "PROMOTING" => cck[Cyc].st = "absent"
    /\ pc \in {"enterPromoting", "gate"} =>
          bck[Cyc].st = "saved" /\ bck[Cyc].ver = run.ver
    /\ pc \in AfterGate => cck[Cyc].st = "saved" /\ run.gate = cck[Cyc]

\* Every branch name comes from the saved decision of its cycle.
PrsFromDecisions ==
    \A x \in prs : cck[x[1]].st = "saved" /\ x[3] = cck[x[1]].gen

LedgerInv ==
    /\ TypeInv
    /\ StateFollows
    /\ CheckpointsFollow
    /\ CheckpointBacksState
    /\ RejectionsCountedOnce
    /\ PrsFromDecisions

LEMMA InitLedger == Init => LedgerInv
<1> SUFFICES ASSUME Init PROVE LedgerInv
  OBVIOUS
<1>1. TypeInv
  BY InitType
<1>2. StateFollows
  BY DEF Init, StateFollows, InHypothesizing, InTesting, InPromoting, AfterGate
<1>3. CheckpointsFollow
  BY DEF Init, CheckpointsFollow, Untouched, NoGate, AfterGate
<1>4. CheckpointBacksState /\ RejectionsCountedOnce /\ PrsFromDecisions
  BY DEF Init, CheckpointBacksState, RejectionsCountedOnce, PrsFromDecisions, NoGate
<1> QED BY <1>1, <1>2, <1>3, <1>4 DEF LedgerInv

\* What every proof below leaves alone: the files the invariant speaks of.
Kept == UNCHANGED <<tsm, bck, cck, morning, rejCount, prs, born>>

\* The process stops, whatever the reason, without a write.
LEMMA StopKeepsLedger ==
  ASSUME LedgerInv, Kept, pc' = "idle", TypeInv'
  PROVE  LedgerInv'
<1> USE DEF LedgerInv, Kept
<1>1. StateFollows'
  BY DEF StateFollows, InHypothesizing, InTesting, InPromoting, AfterGate
<1>2. CheckpointsFollow'
  BY DEF CheckpointsFollow, Untouched, AfterGate
<1>3. CheckpointBacksState' /\ RejectionsCountedOnce' /\ PrsFromDecisions'
  BY DEF CheckpointBacksState, RejectionsCountedOnce, PrsFromDecisions
<1> QED BY <1>1, <1>2, <1>3

\* The process goes on after the gate, or somebody else takes the step.
LEMMA GoOnKeepsLedger ==
  ASSUME LedgerInv, Kept, TypeInv',
         \/ pc' = pc /\ run' = run
         \/ /\ pc \in AfterGate /\ pc' \in AfterGate
            /\ run'.cyc = run.cyc /\ run'.gate = run.gate
  PROVE  LedgerInv'
<1> USE DEF LedgerInv, Kept
<1>1. StateFollows'
  BY DEF StateFollows, InHypothesizing, InTesting, InPromoting, AfterGate, Cyc
<1>2. CheckpointsFollow'
  BY DEF CheckpointsFollow, Untouched, AfterGate, Cyc
<1>3. CheckpointBacksState' /\ RejectionsCountedOnce' /\ PrsFromDecisions'
  BY DEF CheckpointBacksState, RejectionsCountedOnce, PrsFromDecisions
<1> QED BY <1>1, <1>2, <1>3

\* Only task_state.json is written.
LEMMA WriteStateFacts ==
  ASSUME LedgerInv, NEW st \in TaskStatus \cup {"TORN"}, WriteState(st),
         pc \notin {"idle", "stateLoss"}
  PROVE  /\ tsm'.st = st /\ tsm'.cyc = Cyc /\ born' = Cyc /\ Cyc >= born
         /\ Cyc \in Cycles /\ born \in Nat
<1>1. Cyc \in Cycles /\ Cyc \in Nat /\ born \in Nat
  BY DEF LedgerInv, TypeInv, CycleIds, TypeOK, Cycles
<1>2. Cyc \in {born, born + 1}
  BY <1>1 DEF LedgerInv, StateFollows, TypeInv, TypeOK, Steps, InHypothesizing, InTesting,
              InPromoting, AfterGate
<1> QED BY <1>1, <1>2 DEF WriteState

LEMMA StartupLedger ==
  ASSUME LedgerInv, Startup, TypeInv'
  PROVE  LedgerInv'
<1> USE DEF LedgerInv, Step, stores, ckpts, report, ledger, review, outside, history
<1>1. CASE StartFresh
  <2>1. run'.cyc = born + 1 /\ run'.from = "OBSERVING" /\ born + 1 > born /\ run'.cyc \in Cycles
    <3>1. run' = [NoRun EXCEPT !.cyc = born + 1] /\ born < MaxCycles
      BY <1>1 DEF StartFresh
    <3>2. born \in 0 .. MaxCycles
      BY DEF TypeInv, TypeOK
    <3>3. born + 1 \in Cycles /\ born + 1 > born
      BY <3>1, <3>2, BoundsAssumption DEF Cycles
    <3> QED BY <3>1, <3>3, StartType DEF TaskStatus
  <2>2. StateFollows'
    BY <1>1, <2>1 DEF StartFresh, StateFollows, InHypothesizing, InTesting, InPromoting,
                      AfterGate, Cyc
  <2>3. CheckpointsFollow'
    BY <1>1, <2>1 DEF StartFresh, CheckpointsFollow, Untouched, AfterGate, Cyc
  <2>4. CheckpointBacksState' /\ RejectionsCountedOnce' /\ PrsFromDecisions'
    BY <1>1 DEF StartFresh, CheckpointBacksState, RejectionsCountedOnce, PrsFromDecisions
  <2> QED BY <2>2, <2>3, <2>4
<1>2. CASE StartResume
  <2>1. /\ run'.cyc = tsm.cyc /\ run'.from = tsm.st /\ tsm.cyc = born
        /\ tsm.st \in {"HYPOTHESIZING", "TESTING", "PROMOTING"}
    BY <1>2 DEF StartResume, StateFollows, NoRun
  <2>2. StateFollows'
    BY <1>2, <2>1 DEF StartResume, StateFollows, InHypothesizing, InTesting, InPromoting,
                      AfterGate, Cyc
  <2>3. CheckpointsFollow'
    BY <1>2, <2>1 DEF StartResume, CheckpointsFollow, Untouched, AfterGate, Cyc
  <2>4. CheckpointBacksState' /\ RejectionsCountedOnce' /\ PrsFromDecisions'
    BY <1>2 DEF StartResume, CheckpointBacksState, RejectionsCountedOnce, PrsFromDecisions
  <2> QED BY <2>2, <2>3, <2>4
<1>3. CASE RecordStateLoss
  <2>1. StateFollows'
    BY <1>3 DEF RecordStateLoss, StateFollows, InHypothesizing, InTesting, InPromoting,
                AfterGate, Cyc
  <2>2. CheckpointsFollow'
    BY <1>3 DEF RecordStateLoss, CheckpointsFollow, Untouched, AfterGate, Cyc
  <2>3. CheckpointBacksState' /\ RejectionsCountedOnce' /\ PrsFromDecisions'
    BY <1>3 DEF RecordStateLoss, CheckpointBacksState, RejectionsCountedOnce, PrsFromDecisions
  <2> QED BY <2>1, <2>2, <2>3
<1>4. CASE ResetState
  <2>1. tsm'.st = "OBSERVING" /\ tsm'.cyc = Cyc /\ born' = Cyc /\ Cyc >= born
        /\ Cyc \in Cycles /\ born \in Nat
    BY <1>4, WriteStateFacts DEF ResetState, TaskStatus
  <2>2. Cyc = born + 1 /\ run.from = "OBSERVING" /\ Cyc > born
    BY <1>4, <2>1 DEF ResetState, StateFollows
  <2>3. StateFollows'
    BY <1>4, <2>1, <2>2 DEF ResetState, StateFollows, InHypothesizing, InTesting, InPromoting,
                      AfterGate, Cyc
  <2>4. CheckpointsFollow'
    BY <1>4, <2>1, <2>2 DEF ResetState, CheckpointsFollow, Untouched, AfterGate, Cyc, Cycles
  <2>5. CheckpointBacksState' /\ RejectionsCountedOnce' /\ PrsFromDecisions'
    BY <1>4, <2>1 DEF ResetState, CheckpointBacksState, RejectionsCountedOnce, PrsFromDecisions
  <2> QED BY <2>3, <2>4, <2>5
<1>5. CASE Load
  <2>1. CASE run.from \in {"OBSERVING", "HYPOTHESIZING"}
    <3>1. run'.cyc = run.cyc /\ run'.from = run.from /\ pc' = "observe" /\ pc = "load"
      BY <1>5, <2>1 DEF Load, TypeInv, TypeOK, Run
    <3>2. StateFollows'
      BY <1>5, <2>1, <3>1 DEF Load, StateFollows, InHypothesizing, InTesting, InPromoting,
                        AfterGate, Cyc
    <3>3. CheckpointsFollow'
      BY <1>5, <2>1, <3>1 DEF Load, CheckpointsFollow, Untouched, AfterGate, Cyc
    <3> QED BY <1>5, <3>2, <3>3 DEF Load, CheckpointBacksState, RejectionsCountedOnce,
                                    PrsFromDecisions
  <2>2. CASE run.from \in {"TESTING", "PROMOTING"}
    <3>1. /\ run'.cyc = run.cyc /\ run'.from = run.from /\ run'.ver = bck[Cyc].ver
          /\ pc' = "enterPromoting" /\ pc = "load" /\ bck[Cyc].st = "saved"
      BY <1>5, <2>2 DEF Load, TypeInv, TypeOK, Run
    <3>2. StateFollows'
      BY <1>5, <2>2, <3>1 DEF Load, StateFollows, InHypothesizing, InTesting, InPromoting,
                        AfterGate, Cyc
    <3>3. CheckpointsFollow'
      BY <1>5, <2>2, <3>1 DEF Load, CheckpointsFollow, Untouched, AfterGate, Cyc
    <3> QED BY <1>5, <3>2, <3>3 DEF Load, CheckpointBacksState, RejectionsCountedOnce,
                                    PrsFromDecisions
  <2> QED BY <1>5, <2>1, <2>2 DEF Load
<1> QED BY <1>1, <1>2, <1>3, <1>4, <1>5 DEF Startup

LEMMA PhaseABLedger ==
  ASSUME LedgerInv, PhaseAB, TypeInv'
  PROVE  LedgerInv'
<1> USE DEF LedgerInv, Step, stores, ckpts, report, ledger, review, outside, history
<1>1. CASE Observe
  <2>1. tsm'.st = "HYPOTHESIZING" /\ tsm'.cyc = Cyc /\ born' = Cyc /\ Cyc >= born
        /\ Cyc \in Cycles /\ born \in Nat
    BY <1>1, WriteStateFacts DEF Observe, TaskStatus
  <2>2. Untouched(Cyc)
    BY <1>1 DEF Observe, CheckpointsFollow, StateFollows
  <2>3. StateFollows'
    BY <1>1, <2>1 DEF Observe, StateFollows, InHypothesizing, InTesting, InPromoting,
                      AfterGate, Cyc, Cycles
  <2>4. CheckpointsFollow'
    BY <1>1, <2>1, <2>2 DEF Observe, CheckpointsFollow, Untouched, AfterGate, Cyc, Cycles
  <2>5. CheckpointBacksState' /\ RejectionsCountedOnce' /\ PrsFromDecisions'
    BY <1>1, <2>1 DEF Observe, CheckpointBacksState, RejectionsCountedOnce, PrsFromDecisions
  <2> QED BY <2>3, <2>4, <2>5
<1>2. CASE Dispatch
  <2>1. StateFollows'
    BY <1>2 DEF Dispatch, StateFollows, InHypothesizing, InTesting, InPromoting, AfterGate, Cyc
  <2>2. CheckpointsFollow'
    BY <1>2 DEF Dispatch, CheckpointsFollow, Untouched, AfterGate, Cyc
  <2>3. CheckpointBacksState' /\ RejectionsCountedOnce' /\ PrsFromDecisions'
    BY <1>2 DEF Dispatch, CheckpointBacksState, RejectionsCountedOnce, PrsFromDecisions
  <2> QED BY <2>1, <2>2, <2>3
<1>3. CASE EnterTesting
  <2>1. tsm'.st = "TESTING" /\ tsm'.cyc = Cyc /\ born' = Cyc /\ Cyc = born
        /\ Cyc \in Cycles /\ born \in Nat
    BY <1>3, WriteStateFacts DEF EnterTesting, TaskStatus, StateFollows, InHypothesizing
  <2>2. Untouched(Cyc)
    BY <1>3 DEF EnterTesting, CheckpointsFollow, StateFollows, InHypothesizing
  <2>3. StateFollows'
    BY <1>3, <2>1 DEF EnterTesting, StateFollows, InHypothesizing, InTesting, InPromoting,
                      AfterGate, Cyc, Cycles
  <2>4. CheckpointsFollow'
    BY <1>3, <2>1, <2>2 DEF EnterTesting, CheckpointsFollow, Untouched, AfterGate, Cyc, Cycles
  <2>5. CheckpointBacksState' /\ RejectionsCountedOnce' /\ PrsFromDecisions'
    BY <1>3, <2>1 DEF EnterTesting, CheckpointBacksState, RejectionsCountedOnce, PrsFromDecisions
  <2> QED BY <2>3, <2>4, <2>5
<1>4. CASE RunSandbox
  <2>1. run'.cyc = run.cyc /\ run'.from = run.from
    BY <1>4 DEF RunSandbox, TypeInv, TypeOK, Run
  <2>2. StateFollows'
    BY <1>4, <2>1 DEF RunSandbox, StateFollows, InHypothesizing, InTesting, InPromoting,
                      AfterGate, Cyc
  <2>3. CheckpointsFollow'
    BY <1>4, <2>1 DEF RunSandbox, CheckpointsFollow, Untouched, AfterGate, Cyc
  <2>4. CheckpointBacksState' /\ RejectionsCountedOnce' /\ PrsFromDecisions'
    BY <1>4 DEF RunSandbox, CheckpointBacksState, RejectionsCountedOnce, PrsFromDecisions
  <2> QED BY <2>2, <2>3, <2>4
<1>5. CASE ApplyLedgerWrites
  <2>1. /\ Cyc \in Cycles /\ Cyc = born /\ tsm.st = "TESTING" /\ Untouched(Cyc)
        /\ pc = "ledgerWrites" /\ pc' = "saveB"
    BY <1>5 DEF ApplyLedgerWrites, CheckpointsFollow, StateFollows, InTesting, TypeInv, CycleIds
  <2>2. \A c \in Cycles : rejCount'[c] = IF c = Cyc THEN 1 ELSE rejCount[c]
    BY <1>5, <2>1 DEF ApplyLedgerWrites, TypeInv, TypeOK, Untouched
  <2>3. StateFollows'
    BY <1>5, <2>1 DEF ApplyLedgerWrites, StateFollows, InHypothesizing, InTesting, InPromoting,
                      AfterGate, Cyc
  <2>4. CheckpointsFollow'
    BY <1>5, <2>1, <2>2 DEF ApplyLedgerWrites, CheckpointsFollow, Untouched, AfterGate, Cyc, Cycles
  <2>5. CheckpointBacksState' /\ RejectionsCountedOnce' /\ PrsFromDecisions'
    BY <1>5, <2>1, <2>2 DEF ApplyLedgerWrites, CheckpointBacksState, RejectionsCountedOnce,
                            PrsFromDecisions
  <2> QED BY <2>3, <2>4, <2>5
<1>6. CASE SaveB
  <2>1. /\ Cyc \in Cycles /\ Cyc = born /\ tsm.st = "TESTING" /\ bck[Cyc].st = "absent"
        /\ tsm.cyc = Cyc /\ cck[Cyc].st = "absent" /\ pc = "saveB" /\ pc' = "enterPromoting"
    BY <1>6 DEF SaveB, CheckpointsFollow, StateFollows, InTesting, TypeInv, CycleIds
  <2>2. /\ \A c \in Cycles : c # Cyc => bck'[c] = bck[c]
        /\ bck'[Cyc].st = "saved" /\ bck'[Cyc].ver = run.ver
    BY <1>6, <2>1 DEF SaveB, TypeInv, TypeOK
  <2>3. StateFollows'
    BY <1>6, <2>1 DEF SaveB, StateFollows, InHypothesizing, InTesting, InPromoting, AfterGate, Cyc
  <2>4. CheckpointsFollow'
    BY <1>6, <2>1, <2>2 DEF SaveB, CheckpointsFollow, Untouched, AfterGate, Cyc, Cycles
  <2>5. CheckpointBacksState' /\ RejectionsCountedOnce' /\ PrsFromDecisions'
    BY <1>6, <2>1, <2>2 DEF SaveB, CheckpointBacksState, RejectionsCountedOnce, PrsFromDecisions
  <2> QED BY <2>3, <2>4, <2>5
<1> QED BY <1>1, <1>2, <1>3, <1>4, <1>5, <1>6 DEF PhaseAB

LEMMA PhaseCLedger ==
  ASSUME LedgerInv, PhaseC, TypeInv'
  PROVE  LedgerInv'
<1> USE DEF Step, stores, ckpts, report, ledger, review, outside, history
<1>1. CASE EnterPromoting
  <2> USE DEF LedgerInv
  <2>1. tsm'.st = "PROMOTING" /\ tsm'.cyc = Cyc /\ born' = Cyc /\ Cyc = born
        /\ Cyc \in Cycles /\ born \in Nat
    BY <1>1, WriteStateFacts DEF EnterPromoting, TaskStatus, StateFollows
  <2>2. /\ bck[Cyc].st = "saved" /\ bck[Cyc].ver = run.ver
        /\ run.from # "PROMOTING" => cck[Cyc].st = "absent"
    BY <1>1, <2>1 DEF EnterPromoting, CheckpointsFollow, StateFollows
  <2>3. StateFollows'
    BY <1>1, <2>1 DEF EnterPromoting, StateFollows, InHypothesizing, InTesting, InPromoting,
                      AfterGate, Cyc, Cycles
  <2>4. CheckpointsFollow'
    BY <1>1, <2>1, <2>2 DEF EnterPromoting, CheckpointsFollow, Untouched, AfterGate, Cyc
  <2>5. CheckpointBacksState' /\ RejectionsCountedOnce' /\ PrsFromDecisions'
    BY <1>1, <2>1, <2>2 DEF EnterPromoting, CheckpointBacksState, RejectionsCountedOnce,
                            PrsFromDecisions, Cyc
  <2> QED BY <2>3, <2>4, <2>5
<1>2. CASE LoadGateResult
  <2> USE DEF LedgerInv
  <2>1. /\ run'.cyc = run.cyc /\ run'.gate = cck[Cyc] /\ cck[Cyc].st = "saved"
        /\ pc = "gate" /\ pc' = "inject"
    BY <1>2 DEF LoadGateResult, TypeInv, TypeOK, Run
  <2>2. StateFollows'
    BY <1>2, <2>1 DEF LoadGateResult, StateFollows, InHypothesizing, InTesting, InPromoting,
                      AfterGate, Cyc
  <2>3. CheckpointsFollow'
    BY <1>2, <2>1 DEF LoadGateResult, CheckpointsFollow, Untouched, AfterGate, Cyc
  <2>4. CheckpointBacksState' /\ RejectionsCountedOnce' /\ PrsFromDecisions'
    BY <1>2 DEF LoadGateResult, CheckpointBacksState, RejectionsCountedOnce, PrsFromDecisions
  <2> QED BY <2>2, <2>3, <2>4
<1>3. CASE EvaluateGate
  <2> USE DEF LedgerInv
  <2>1. /\ Cyc \in Cycles /\ Cyc = born /\ tsm.st = "PROMOTING" /\ tsm.cyc = Cyc
        /\ cck[Cyc].st = "absent" /\ bck[Cyc].st = "saved" /\ pc = "gate" /\ pc' = "inject"
    BY <1>3 DEF EvaluateGate, CheckpointsFollow, StateFollows, InPromoting, TypeInv, CycleIds
  <2>2. PICK open \in BOOLEAN :
          run' = [run EXCEPT !.gate = Evaluate(run.ver, open, cck[Cyc].gen + 1)]
    BY <1>3 DEF EvaluateGate
  <2>3. run'.cyc = run.cyc /\ run'.gate = Evaluate(run.ver, open, cck[Cyc].gen + 1)
    BY <2>2 DEF TypeInv, TypeOK, Run
  <2>4. run'.gate.st = "saved"
    BY <2>3 DEF Evaluate
  <2>5. \A c \in Cycles : cck'[c] = IF c = Cyc THEN run'.gate ELSE cck[c]
    BY <1>3, <2>1 DEF EvaluateGate, TypeInv, TypeOK
  <2>6. StateFollows'
    BY <1>3, <2>1, <2>3 DEF EvaluateGate, StateFollows, InHypothesizing, InTesting, InPromoting,
                            AfterGate, Cyc
  <2>7. CheckpointsFollow'
    BY <1>3, <2>1, <2>3, <2>4, <2>5 DEF EvaluateGate, CheckpointsFollow, Untouched, AfterGate,
                                        Cyc, Cycles
  <2>8. CheckpointBacksState' /\ RejectionsCountedOnce'
    BY <1>3, <2>1, <2>4, <2>5 DEF EvaluateGate, CheckpointBacksState, RejectionsCountedOnce
  <2>9. PrsFromDecisions'
    <3>1. \A x \in prs : x[1] \in Cycles
      BY DEF TypeInv, TypeOK
    <3> QED BY <1>3, <2>1, <2>5, <3>1 DEF EvaluateGate, PrsFromDecisions
  <2> QED BY <2>6, <2>7, <2>8, <2>9
<1>4. CASE Inject
  <2>1. /\ Kept /\ pc \in AfterGate /\ pc' \in AfterGate
        /\ run'.cyc = run.cyc /\ run'.gate = run.gate
    BY <1>4 DEF Inject, Kept, AfterGate, LedgerInv, TypeInv, TypeOK, Run
  <2> QED BY <2>1, GoOnKeepsLedger
<1>5. CASE RemoveApproved
  <2>1. PICK p \in run.todo : /\ run' = [run EXCEPT !.todo = @ \ {p}]
                             /\ pc' = IF run.todo = {p} THEN "pr" ELSE "remove"
    BY <1>5 DEF RemoveApproved
  <2>2. /\ Kept /\ pc \in AfterGate /\ pc' \in AfterGate
        /\ run'.cyc = run.cyc /\ run'.gate = run.gate
    BY <1>5, <2>1 DEF RemoveApproved, Kept, AfterGate, LedgerInv, TypeInv, TypeOK, Run
  <2> QED BY <2>2, GoOnKeepsLedger
<1>6. CASE SubmitPrs
  <2> USE DEF LedgerInv
  <2>1. /\ Cyc \in Cycles /\ cck[Cyc].st = "saved" /\ run.gate = cck[Cyc]
        /\ pc = "pr" /\ pc' = "queue"
    BY <1>6 DEF SubmitPrs, CheckpointsFollow, AfterGate, TypeInv, CycleIds
  <2>2. \A x \in prs' : x \in prs \/ (x[1] = Cyc /\ x[3] = cck[Cyc].gen)
    BY <1>6, <2>1 DEF SubmitPrs
  <2>3. StateFollows'
    BY <1>6, <2>1 DEF SubmitPrs, StateFollows, InHypothesizing, InTesting, InPromoting,
                      AfterGate, Cyc
  <2>4. CheckpointsFollow'
    BY <1>6, <2>1 DEF SubmitPrs, CheckpointsFollow, Untouched, AfterGate, Cyc
  <2>5. CheckpointBacksState' /\ RejectionsCountedOnce'
    BY <1>6 DEF SubmitPrs, CheckpointBacksState, RejectionsCountedOnce
  <2>6. PrsFromDecisions'
    BY <1>6, <2>1, <2>2 DEF SubmitPrs, PrsFromDecisions
  <2> QED BY <2>3, <2>4, <2>5, <2>6
<1>7. CASE QueueDeferred
  BY <1>7, GoOnKeepsLedger DEF QueueDeferred, Kept, AfterGate
<1>8. CASE AppendMemory
  BY <1>8, GoOnKeepsLedger DEF AppendMemory, Kept, AfterGate
<1> QED BY <1>1, <1>2, <1>3, <1>4, <1>5, <1>6, <1>7, <1>8 DEF PhaseC

LEMMA PhaseDLedger ==
  ASSUME LedgerInv, PhaseD, TypeInv'
  PROVE  LedgerInv'
<1> USE DEF Step, stores, ckpts, report, ledger, review, outside, history
<1>1. CASE Aggregate
  <2>1. /\ Kept /\ pc \in AfterGate /\ pc' \in AfterGate
        /\ run'.cyc = run.cyc /\ run'.gate = run.gate
    BY <1>1 DEF Aggregate, Kept, AfterGate, LedgerInv, TypeInv, TypeOK, Run
  <2> QED BY <2>1, GoOnKeepsLedger
<1>2. CASE WriteMorning
  <2> USE DEF LedgerInv
  <2>1. Cyc \in Cycles /\ cck[Cyc].st = "saved" /\ pc = "morning" /\ pc' = "metrics"
    BY <1>2 DEF WriteMorning, CheckpointsFollow, AfterGate, TypeInv, CycleIds
  <2>2. \A c \in Cycles : c # Cyc => morning'[c] = morning[c]
    BY <1>2 DEF WriteMorning, TypeInv, TypeOK
  <2>3. StateFollows'
    BY <1>2, <2>1 DEF WriteMorning, StateFollows, InHypothesizing, InTesting, InPromoting,
                      AfterGate, Cyc
  <2>4. CheckpointsFollow'
    BY <1>2, <2>1 DEF WriteMorning, CheckpointsFollow, Untouched, AfterGate, Cyc
  <2>5. CheckpointBacksState' /\ RejectionsCountedOnce' /\ PrsFromDecisions'
    BY <1>2, <2>1, <2>2 DEF WriteMorning, CheckpointBacksState, RejectionsCountedOnce,
                            PrsFromDecisions
  <2> QED BY <2>3, <2>4, <2>5
<1>3. CASE WriteMetrics
  BY <1>3, GoOnKeepsLedger DEF WriteMetrics, Kept, AfterGate
<1>4. CASE WriteStats
  BY <1>4, GoOnKeepsLedger DEF WriteStats, Kept, AfterGate
<1>5. CASE WriteLineage
  BY <1>5, GoOnKeepsLedger DEF WriteLineage, Kept, AfterGate
<1>6. CASE WriteAdaptation
  BY <1>6, GoOnKeepsLedger DEF WriteAdaptation, Kept, AfterGate
<1>7. CASE UpdateRollback
  BY <1>7, GoOnKeepsLedger DEF UpdateRollback, Kept, AfterGate
<1>8. CASE Finish
  <2> USE DEF LedgerInv
  <2>1. tsm'.st = "OBSERVING" /\ tsm'.cyc = Cyc /\ born' = Cyc /\ Cyc = born
        /\ Cyc \in Cycles /\ born \in Nat
    BY <1>8, WriteStateFacts DEF Finish, TaskStatus, StateFollows, InPromoting, AfterGate
  <2>2. StateFollows'
    BY <1>8, <2>1 DEF Finish, StateFollows, InHypothesizing, InTesting, InPromoting,
                      AfterGate, Cycles
  <2>3. CheckpointsFollow'
    BY <1>8, <2>1 DEF Finish, CheckpointsFollow, Untouched, AfterGate, Cycles
  <2>4. CheckpointBacksState' /\ RejectionsCountedOnce' /\ PrsFromDecisions'
    BY <1>8, <2>1 DEF Finish, CheckpointBacksState, RejectionsCountedOnce, PrsFromDecisions
  <2> QED BY <2>2, <2>3, <2>4
<1> QED BY <1>1, <1>2, <1>3, <1>4, <1>5, <1>6, <1>7, <1>8 DEF PhaseD

LEMMA FailureLedger ==
  ASSUME LedgerInv, Abort \/ DispatchFails \/ Crash \/ CrashInWrite, TypeInv'
  PROVE  LedgerInv'
<1> USE DEF Step, stores, ckpts, report, ledger, review, outside, history
<1>1. CASE Abort
  BY <1>1, StopKeepsLedger DEF Abort, Kept
<1>2. CASE DispatchFails
  BY <1>2, StopKeepsLedger DEF DispatchFails, Kept
<1>3. CASE Crash
  BY <1>3, StopKeepsLedger DEF Crash, Die, Kept
<1>4. CASE CrashInWrite
  <2>1. pc' = "idle" /\ Cyc \in Cycles /\ prs' = prs
    BY <1>4 DEF CrashInWrite, Die, LedgerInv, TypeInv, CycleIds
  <2>2. CASE TearState
    <3> USE DEF LedgerInv
    <3>1. tsm'.st = "TORN" /\ tsm'.cyc = Cyc /\ born' = Cyc /\ Cyc >= born
          /\ Cyc \in Cycles /\ born \in Nat
      BY <2>2, WriteStateFacts DEF TearState
    <3>2. StateFollows'
      BY <2>1, <3>1 DEF StateFollows, InHypothesizing, InTesting, InPromoting, AfterGate, Cycles
    <3>3. CheckpointsFollow'
      BY <2>1, <2>2, <3>1 DEF TearState, CheckpointsFollow, Untouched, AfterGate, Cycles
    <3>4. CheckpointBacksState' /\ RejectionsCountedOnce' /\ PrsFromDecisions'
      BY <2>1, <2>2, <3>1 DEF TearState, CheckpointBacksState, RejectionsCountedOnce,
                              PrsFromDecisions
    <3> QED BY <3>2, <3>3, <3>4
  <2>3. CASE TearCheckpoint
    <3> USE DEF LedgerInv
    <3>1. UNCHANGED <<tsm, morning, rejCount, born>> /\ Cyc = born /\ tsm.cyc = Cyc
      BY <2>3 DEF TearCheckpoint, StateFollows, InTesting, InPromoting
    <3>2. CASE pc = "saveB"
      <4>1. /\ cck' = cck /\ bck[Cyc].st = "absent" /\ cck[Cyc].st = "absent"
            /\ tsm.st = "TESTING"
        BY <2>3, <3>1, <3>2 DEF TearCheckpoint, CheckpointsFollow, StateFollows, InTesting
      <4>2. \A c \in Cycles : c # Cyc => bck'[c] = bck[c]
        BY <2>3, <3>2 DEF TearCheckpoint, TypeInv, TypeOK
      <4>3. StateFollows'
        BY <2>1, <3>1 DEF StateFollows, InHypothesizing, InTesting, InPromoting, AfterGate
      <4>4. CheckpointsFollow'
        BY <2>1, <3>1, <4>1, <4>2 DEF CheckpointsFollow, Untouched, AfterGate, Cycles
      <4>5. CheckpointBacksState' /\ RejectionsCountedOnce' /\ PrsFromDecisions'
        BY <2>1, <3>1, <4>1, <4>2 DEF CheckpointBacksState, RejectionsCountedOnce,
                                      PrsFromDecisions
      <4> QED BY <4>3, <4>4, <4>5
    <3>3. CASE pc = "gate"
      <4>1. /\ bck' = bck /\ bck[Cyc].st = "saved" /\ cck[Cyc].st = "absent"
            /\ tsm.st = "PROMOTING"
        BY <2>3, <3>3 DEF TearCheckpoint, CheckpointsFollow, StateFollows, InPromoting
      <4>2. \A c \in Cycles : c # Cyc => cck'[c] = cck[c]
        BY <2>3, <3>3 DEF TearCheckpoint, TypeInv, TypeOK
      <4>3. StateFollows'
        BY <2>1, <3>1 DEF StateFollows, InHypothesizing, InTesting, InPromoting, AfterGate
      <4>4. CheckpointsFollow'
        BY <2>1, <3>1, <4>1, <4>2 DEF CheckpointsFollow, Untouched, AfterGate, Cycles
      <4>5. CheckpointBacksState' /\ RejectionsCountedOnce'
        BY <2>1, <3>1, <4>1, <4>2 DEF CheckpointBacksState, RejectionsCountedOnce
      <4>6. PrsFromDecisions'
        BY <2>1, <4>1, <4>2 DEF PrsFromDecisions, TypeInv, TypeOK
      <4> QED BY <4>3, <4>4, <4>5, <4>6
    <3> QED BY <2>3, <3>2, <3>3 DEF TearCheckpoint
  <2>4. CASE TearFile
    BY <2>1, <2>4, StopKeepsLedger DEF TearFile, Kept
  <2> QED BY <1>4, <2>2, <2>3, <2>4 DEF CrashInWrite
<1> QED BY <1>1, <1>2, <1>3, <1>4

LEMMA StepLedger == LedgerInv /\ [Next]_vars => LedgerInv'
<1> SUFFICES ASSUME LedgerInv, [Next]_vars PROVE LedgerInv'
  OBVIOUS
<1>1. TypeInv'
  BY StepType DEF LedgerInv
<1>2. CASE Startup
  BY <1>1, <1>2, StartupLedger
<1>3. CASE PhaseAB
  BY <1>1, <1>3, PhaseABLedger
<1>4. CASE PhaseC
  BY <1>1, <1>4, PhaseCLedger
<1>5. CASE PhaseD
  BY <1>1, <1>5, PhaseDLedger
<1>6. CASE Abort \/ DispatchFails \/ Crash \/ CrashInWrite
  BY <1>1, <1>6, FailureLedger
<1>7. CASE \E p \in Patches, v \in Verdicts : ApplyReviewDecision(p, v)
  BY <1>1, <1>7, GoOnKeepsLedger DEF ApplyReviewDecision, Kept, ckpts, report, ledger, outside
<1>8. CASE UNCHANGED vars
  BY <1>1, <1>8, GoOnKeepsLedger DEF vars, stores, ckpts, report, ledger, outside, history, Kept
<1> QED BY <1>2, <1>3, <1>4, <1>5, <1>6, <1>7, <1>8 DEF Next, Runner

LEMMA LedgerCorrect == Spec => []LedgerInv
<1>1. Init => LedgerInv
  BY InitLedger
<1>2. LedgerInv /\ [Next]_vars => LedgerInv'
  BY StepLedger
<1> QED BY <1>1, <1>2, PTL DEF Spec

\* Whatever crashes and torn writes come, a state that will be resumed has the
\* checkpoints its resumption reads (runner 1232-1256, 1297-1303).
THEOREM StateIsBacked == Spec => []CheckpointBacksState
<1>1. LedgerInv => CheckpointBacksState
  BY DEF LedgerInv
<1> QED BY <1>1, LedgerCorrect, PTL

\* The rejections of a cycle reach the failure ledger at most once, although
\* the write comes before the checkpoint that would prove it (1285, 1288).
THEOREM RejectionsOnce == Spec => []RejectionsCountedOnce
<1>1. LedgerInv => RejectionsCountedOnce
  BY DEF LedgerInv
<1> QED BY <1>1, LedgerCorrect, PTL

\* A patch gets one branch name: all branches of a cycle come from the one
\* decision saved for it (1297-1303, pr_submitter.ts 188-190).
THEOREM OneBranchPerPatch == Spec => []OnePrPerPatch
<1>1. LedgerInv => OnePrPerPatch
  <2> SUFFICES ASSUME LedgerInv, NEW x \in prs, NEW y \in prs, x[1] = y[1], x[2] = y[2]
               PROVE  x = y
    BY DEF OnePrPerPatch
  <2>1. x \in Cycles \X Kind \X Nat /\ y \in Cycles \X Kind \X Nat
    BY DEF LedgerInv, TypeInv, TypeOK
  <2>2. x[3] = y[3]
    BY DEF LedgerInv, PrsFromDecisions
  <2> QED BY <2>1, <2>2
<1> QED BY <1>1, LedgerCorrect, PTL

\* No step replaces a checkpoint that is whole: only SaveB and EvaluateGate
\* write checkpoints, and both find none.
LEMMA CheckpointsStay ==
  ASSUME LedgerInv, [Next]_vars, NEW c \in Cycles
  PROVE  /\ bck[c].st = "saved" => bck'[c] = bck[c]
         /\ cck[c].st = "saved" => cck'[c] = cck[c]
<1> USE DEF stores, ckpts, report, ledger, review, outside, history, Step
<1>1. CASE SaveB
  <2>1. bck[Cyc].st = "absent" /\ cck' = cck
    BY <1>1 DEF SaveB, LedgerInv, CheckpointsFollow
  <2> QED BY <1>1, <2>1 DEF SaveB, LedgerInv, TypeInv, TypeOK
<1>2. CASE EvaluateGate
  <2>1. cck[Cyc].st = "absent" /\ bck' = bck
    BY <1>2 DEF EvaluateGate, LedgerInv, CheckpointsFollow
  <2> QED BY <1>2, <2>1 DEF EvaluateGate, LedgerInv, TypeInv, TypeOK
<1>3. CASE CrashInWrite
  <2>1. CASE TearCheckpoint
    <3>1. pc = "saveB" => bck[Cyc].st = "absent"
      BY DEF LedgerInv, CheckpointsFollow
    <3> QED BY <2>1, <3>1 DEF TearCheckpoint, LedgerInv, TypeInv, TypeOK
  <2> QED BY <1>3, <2>1 DEF CrashInWrite, TearState, TearFile
<1>4. CASE Startup
  BY <1>4 DEF Startup, StartFresh, StartResume, RecordStateLoss, ResetState, Load
<1>5. CASE PhaseAB /\ ~SaveB
  BY <1>5 DEF PhaseAB, Observe, Dispatch, EnterTesting, RunSandbox, ApplyLedgerWrites
<1>6. CASE PhaseC /\ ~EvaluateGate
  BY <1>6 DEF PhaseC, EnterPromoting, LoadGateResult, Inject, RemoveApproved, SubmitPrs,
              QueueDeferred, AppendMemory
<1>7. CASE PhaseD
  BY <1>7 DEF PhaseD, Aggregate, WriteMorning, WriteMetrics, WriteStats, WriteLineage,
              WriteAdaptation, UpdateRollback, Finish
<1>8. CASE Abort \/ DispatchFails \/ Crash
  BY <1>8 DEF Abort, DispatchFails, Crash
<1>9. CASE \E p \in Patches, v \in Verdicts : ApplyReviewDecision(p, v)
  BY <1>9 DEF ApplyReviewDecision
<1>10. CASE UNCHANGED vars
  BY <1>10 DEF vars
<1> QED BY <1>1, <1>2, <1>3, <1>4, <1>5, <1>6, <1>7, <1>8, <1>9, <1>10 DEF Next, Runner

\* Whatever is run again, a decision taken for a cycle stays what it was.
THEOREM DecisionsAreFinal == Spec => DecisionFinal
<1>1. LedgerInv /\ [Next]_vars =>
        [\A c \in Cycles : /\ bck[c].st = "saved" => bck'[c] = bck[c]
                           /\ cck[c].st = "saved" => cck'[c] = cck[c]]_vars
  BY CheckpointsStay
<1> QED BY <1>1, LedgerCorrect, PTL DEF Spec, DecisionFinal

-----------------------------------------------------------------------------
(* Promotions.                                                               *)

\* What justifies a promotion; no step takes it away.
Justified(p) ==
    /\ bck[p[1]].st = "saved"
    /\ p[2] \in bck[p[1]].ver
    /\ p[2] # "negative"
    /\ p[2] = "global" => "APPROVE" \in decided[p]

\* Only GLOBAL patches are ever sent to a human, and what waits for promotion,
\* is decided on, is held in memory or was reported is justified.
PromotionInv ==
    /\ LedgerInv
    /\ \A p \in reviewQ \cup approved : p[2] = "global"
    /\ \A p \in approved : "APPROVE" \in decided[p]
    /\ \A c \in Cycles : cck[c].st = "saved" =>
          /\ \A k \in cck[c].promoted : Justified(<<c, k>>)
          /\ \A k \in cck[c].human : k = "global"
    /\ \A p \in run.extra : Justified(p)
    /\ \A c \in Cycles : \A p \in morning[c].promoted : Justified(p)

LEMMA InitPromotion == Init => PromotionInv
BY InitLedger, NoRunType DEF Init, PromotionInv, NoGate

LEMMA JustifiedStays ==
  ASSUME PromotionInv, [Next]_vars, NEW p \in Patches, Justified(p),
         decided[p] \subseteq decided'[p]
  PROVE  Justified(p)'
<1>1. p[1] \in Cycles
  BY DEF Patches
<1>2. bck'[p[1]] = bck[p[1]]
  BY <1>1, CheckpointsStay DEF PromotionInv, Justified
<1> QED BY <1>2 DEF Justified

\* The steps that add nothing to what is waiting, decided or reported.
LEMMA PromotionFrame ==
  ASSUME PromotionInv, [Next]_vars,
         approved' \subseteq approved, reviewQ' \subseteq reviewQ,
         run'.extra \subseteq run.extra,
         UNCHANGED <<morning, decided>>,
         \A c \in Cycles : cck'[c] = cck[c] \/ cck'[c].st # "saved"
  PROVE  PromotionInv'
<1>1. LedgerInv'
  BY StepLedger DEF PromotionInv
<1>2. \A p \in Patches : Justified(p) => Justified(p)'
  BY JustifiedStays
<1>3. \A c \in Cycles : /\ \A k \in cck[c].promoted : <<c, k>> \in Patches
                        /\ \A p \in morning[c].promoted : p \in Patches
  BY DEF PromotionInv, LedgerInv, TypeInv, TypeOK, GateResult, Patches
<1>4. \A p \in run.extra : p \in Patches
  BY DEF PromotionInv, LedgerInv, TypeInv, TypeOK, Run
<1>5. /\ \A p \in reviewQ' \cup approved' : p[2] = "global"
      /\ \A p \in approved' : "APPROVE" \in decided'[p]
  BY DEF PromotionInv
<1>6. \A c \in Cycles : cck'[c].st = "saved" =>
        /\ \A k \in cck'[c].promoted : Justified(<<c, k>>)'
        /\ \A k \in cck'[c].human : k = "global"
  BY <1>2, <1>3 DEF PromotionInv
<1>7. \A p \in run'.extra : Justified(p)'
  BY <1>2, <1>4 DEF PromotionInv
<1>8. \A c \in Cycles : \A p \in morning'[c].promoted : Justified(p)'
  BY <1>2, <1>3 DEF PromotionInv
<1> QED BY <1>1, <1>5, <1>6, <1>7, <1>8 DEF PromotionInv, Justified

LEMMA StepPromotion == PromotionInv /\ [Next]_vars => PromotionInv'
<1> SUFFICES ASSUME PromotionInv, [Next]_vars PROVE PromotionInv'
  OBVIOUS
<1> USE DEF stores, ckpts, report, ledger, review, outside, history, Step
<1>1. LedgerInv /\ TypeInv /\ LedgerInv'
  BY StepLedger DEF PromotionInv, LedgerInv
<1>2. \A p \in Patches : Justified(p) /\ decided[p] \subseteq decided'[p] => Justified(p)'
  BY JustifiedStays
<1>3. /\ \A c \in Cycles : /\ \A k \in cck[c].promoted : <<c, k>> \in Patches
                           /\ \A p \in morning[c].promoted : p \in Patches
      /\ \A p \in run.extra : p \in Patches
      /\ approved \subseteq Patches /\ reviewQ \subseteq Patches
  BY <1>1 DEF TypeInv, TypeOK, GateResult, Run, Patches
<1>4. run \in Run
  BY <1>1 DEF TypeInv, TypeOK
<1>5. CASE Startup
  <2>1. run'.extra \subseteq run.extra
    <3>1. CASE StartFresh
      <4>1. run' = [NoRun EXCEPT !.cyc = born + 1] /\ run'.cyc \in Cycles
        <5>1. run' = [NoRun EXCEPT !.cyc = born + 1] /\ born < MaxCycles
          BY <3>1 DEF StartFresh
        <5>2. born \in 0 .. MaxCycles
          BY <1>1 DEF TypeInv, TypeOK
        <5>3. born + 1 \in Cycles
          BY <5>1, <5>2, BoundsAssumption DEF Cycles
        <5> QED BY <5>1, <5>3, StartType DEF TaskStatus
      <4>2. born + 1 \in Cycles
        <5>1. born < MaxCycles /\ born \in 0 .. MaxCycles
          BY <1>1, <3>1 DEF StartFresh, TypeInv, TypeOK
        <5> QED BY <5>1, BoundsAssumption DEF Cycles
      <4> QED BY <4>1, <4>2, StartType DEF TaskStatus
    <3>2. CASE StartResume
      <4>1. tsm.cyc \in Cycles /\ tsm.st \in TaskStatus
            /\ run' = [NoRun EXCEPT !.cyc = tsm.cyc, !.from = tsm.st]
        BY <1>1, <3>2 DEF StartResume, TypeInv, CycleIds, TaskStatus
      <4> QED BY <4>1, StartType
    <3>3. CASE RecordStateLoss \/ ResetState
      BY <3>3 DEF RecordStateLoss, ResetState
    <3>4. CASE Load
      BY <1>4, <3>4 DEF Load, Run
    <3> QED BY <1>5, <3>1, <3>2, <3>3, <3>4 DEF Startup
  <2>2. /\ approved' \subseteq approved /\ reviewQ' \subseteq reviewQ
        /\ UNCHANGED <<morning, decided, cck>>
    BY <1>5 DEF Startup, StartFresh, StartResume, OpenReviewStore, RecordStateLoss, ResetState, Load
  <2> QED BY <2>1, <2>2, PromotionFrame
<1>6. CASE PhaseAB
  <2>1. run'.extra \subseteq run.extra
    <3>1. CASE RunSandbox
      BY <1>4, <3>1 DEF RunSandbox, Run
    <3>2. CASE PhaseAB /\ ~RunSandbox
      BY <3>2 DEF PhaseAB, Observe, Dispatch, EnterTesting, ApplyLedgerWrites, SaveB
    <3> QED BY <1>6, <3>1, <3>2
  <2>2. UNCHANGED <<approved, reviewQ, morning, decided, cck>>
    BY <1>6 DEF PhaseAB, Observe, Dispatch, EnterTesting, RunSandbox, ApplyLedgerWrites, SaveB
  <2> QED BY <2>1, <2>2, PromotionFrame
<1>7. CASE EnterPromoting \/ LoadGateResult \/ SubmitPrs \/ AppendMemory
  <2>1. run'.extra \subseteq run.extra
    BY <1>4, <1>7 DEF EnterPromoting, LoadGateResult, SubmitPrs, AppendMemory, Run
  <2>2. UNCHANGED <<approved, reviewQ, morning, decided, cck>>
    BY <1>7 DEF EnterPromoting, LoadGateResult, SubmitPrs, AppendMemory
  <2> QED BY <2>1, <2>2, PromotionFrame
<1>8. CASE EvaluateGate
  <2>1. Cyc \in Cycles /\ bck[Cyc].st = "saved" /\ bck[Cyc].ver = run.ver
    BY <1>1, <1>8 DEF EvaluateGate, LedgerInv, CheckpointsFollow, TypeInv, CycleIds
  <2>2. PICK open \in BOOLEAN :
          run' = [run EXCEPT !.gate = Evaluate(run.ver, open, cck[Cyc].gen + 1)]
    BY <1>8 DEF EvaluateGate
  <2> DEFINE g == Evaluate(run.ver, open, cck[Cyc].gen + 1)
  <2>3. run'.gate = g /\ run'.extra = run.extra
    BY <1>4, <2>2 DEF Run
  <2>4. /\ \A k \in g.promoted : k \in run.ver /\ k # "negative" /\ k # "global"
        /\ \A k \in g.human : k = "global"
    BY DEF Evaluate, PatchGate
  <2> HIDE DEF g
  <2>5. \A c \in Cycles : cck'[c] = IF c = Cyc THEN g ELSE cck[c]
    BY <1>1, <1>8, <2>1, <2>3 DEF EvaluateGate, TypeInv, TypeOK
  <2>6. UNCHANGED <<bck, decided, morning, approved, reviewQ>>
    BY <1>8 DEF EvaluateGate
  <2>7. \A c \in Cycles : cck'[c].st = "saved" =>
          /\ \A k \in cck'[c].promoted : Justified(<<c, k>>)'
          /\ \A k \in cck'[c].human : k = "global"
    BY <2>1, <2>4, <2>5, <2>6 DEF PromotionInv, Justified
  <2>8. \A p : Justified(p) => Justified(p)'
    BY <2>6 DEF Justified
  <2> QED BY <1>1, <2>3, <2>6, <2>7, <2>8 DEF PromotionInv, Justified
<1>9. CASE Inject
  <2>1. /\ run'.extra = {p \in approved : bck[p[1]].st = "saved" /\ p[2] \in bck[p[1]].ver}
        /\ UNCHANGED <<stores, history>>
    BY <1>4, <1>9 DEF Inject, Run
  <2>2. \A p \in run'.extra : Justified(p)'
    BY <2>1 DEF PromotionInv, Justified
  <2>3. \A p : Justified(p) => Justified(p)'
    BY <2>1 DEF Justified
  <2> QED BY <1>1, <2>1, <2>2, <2>3 DEF PromotionInv, Justified
<1>10. CASE RemoveApproved
  <2>1. PICK p \in run.todo : /\ approved' = approved \ {p}
                             /\ run' = [run EXCEPT !.todo = @ \ {p}]
    BY <1>10 DEF RemoveApproved
  <2>2. run'.extra = run.extra
    BY <1>4, <2>1 DEF Run
  <2>3. UNCHANGED <<reviewQ, morning, decided, cck>>
    BY <1>10 DEF RemoveApproved
  <2> QED BY <2>1, <2>2, <2>3, PromotionFrame
<1>11. CASE QueueDeferred
  <2>1. Cyc \in Cycles /\ cck[Cyc].st = "saved" /\ run.gate = cck[Cyc]
    BY <1>1, <1>11 DEF QueueDeferred, LedgerInv, CheckpointsFollow, AfterGate, TypeInv, CycleIds
  <2>2. \A p \in reviewQ' : p[2] = "global"
    BY <1>11, <2>1 DEF QueueDeferred, OwnPatches, PromotionInv
  <2>3. UNCHANGED <<bck, cck, morning, approved, decided, run>>
    BY <1>11 DEF QueueDeferred
  <2> QED BY <1>1, <2>2, <2>3 DEF PromotionInv, Justified
<1>12. CASE WriteMorning
  <2>1. Cyc \in Cycles /\ cck[Cyc].st = "saved" /\ run.gate = cck[Cyc]
    BY <1>1, <1>12 DEF WriteMorning, LedgerInv, CheckpointsFollow, AfterGate, TypeInv, CycleIds
  <2>2. \A p \in Promoted : Justified(p)
    BY <2>1 DEF Promoted, OwnPatches, PromotionInv
  <2>3. \A c \in Cycles : morning'[c].promoted = IF c = Cyc THEN Promoted ELSE morning[c].promoted
    BY <1>1, <1>12, <2>1 DEF WriteMorning, TypeInv, TypeOK
  <2>4. UNCHANGED <<bck, cck, approved, reviewQ, decided, run>>
    BY <1>12 DEF WriteMorning
  <2>5. \A c \in Cycles : \A p \in morning'[c].promoted : Justified(p)'
    BY <2>2, <2>3, <2>4 DEF PromotionInv, Justified
  <2> QED BY <1>1, <2>4, <2>5 DEF PromotionInv, Justified
<1>13. CASE PhaseD /\ ~WriteMorning
  <2>1. run'.extra \subseteq run.extra
    BY <1>4, <1>13, NoRunType DEF PhaseD, Aggregate, WriteMetrics, WriteStats, WriteLineage,
                       WriteAdaptation, UpdateRollback, Finish, Run
  <2>2. UNCHANGED <<approved, reviewQ, morning, decided, cck>>
    BY <1>13 DEF PhaseD, Aggregate, WriteMetrics, WriteStats, WriteLineage,
                 WriteAdaptation, UpdateRollback, Finish
  <2> QED BY <2>1, <2>2, PromotionFrame
<1>14. CASE Abort \/ DispatchFails \/ Crash
  BY <1>14, NoRunType, PromotionFrame DEF Abort, DispatchFails, Crash, Die
<1>15. CASE CrashInWrite
  <2>1. run'.extra \subseteq run.extra /\ UNCHANGED <<approved, reviewQ, decided, morning>>
    BY <1>15, NoRunType DEF CrashInWrite, Die, TearState, TearCheckpoint, TearFile
  <2>2. \A c \in Cycles : cck'[c] = cck[c] \/ cck'[c].st # "saved"
    <3>1. CASE TearCheckpoint
      <4>1. \A g \in GateResult : [g EXCEPT !.st = "torn"].st # "saved"
        BY DEF GateResult
      <4>2. cck' = cck \/ cck' = [cck EXCEPT ![Cyc] = [cck[Cyc] EXCEPT !.st = "torn"]]
        BY <3>1 DEF TearCheckpoint
      <4>3. cck \in [Cycles -> GateResult]
        BY <1>1 DEF TypeInv, TypeOK
      <4>4. CASE cck' = cck
        BY <4>4
      <4>5. CASE cck' = [cck EXCEPT ![Cyc] = [cck[Cyc] EXCEPT !.st = "torn"]]
        <5>1. ASSUME NEW c \in Cycles PROVE cck'[c] = cck[c] \/ cck'[c].st # "saved"
          <6>1. CASE c = Cyc
            <7>1. cck[c] \in GateResult /\ cck'[c] = [cck[c] EXCEPT !.st = "torn"]
              BY <4>3, <4>5, <6>1
            <7> QED BY <7>1, <4>1
          <6>2. CASE c # Cyc
            BY <4>3, <4>5, <6>2
          <6> QED BY <6>1, <6>2
        <5> QED BY <5>1
      <4> QED BY <4>2, <4>4, <4>5
    <3>2. CASE TearState \/ TearFile
      BY <3>2 DEF TearState, TearFile
    <3> QED BY <1>15, <3>1, <3>2 DEF CrashInWrite
  <2> QED BY <2>1, <2>2, PromotionFrame
<1>16. CASE \E p \in Patches, v \in Verdicts : ApplyReviewDecision(p, v)
  <2>1. PICK p \in Patches, v \in Verdicts : ApplyReviewDecision(p, v)
    BY <1>16
  <2>2. \A q \in Patches : decided'[q] = IF q = p THEN decided[q] \cup {v} ELSE decided[q]
    BY <1>1, <2>1 DEF ApplyReviewDecision, TypeInv, TypeOK
  <2>3. /\ p \in reviewQ /\ reviewQ' = reviewQ \ {p}
        /\ approved' = IF v = "APPROVE" THEN approved \cup {p} ELSE approved
        /\ UNCHANGED <<bck, cck, morning, run>>
    BY <2>1 DEF ApplyReviewDecision
  <2>4. \A q \in Patches : Justified(q) => Justified(q)'
    BY <1>2, <2>2
  <2>5. /\ \A q \in reviewQ' \cup approved' : q[2] = "global"
        /\ \A q \in approved' : "APPROVE" \in decided'[q]
    BY <1>3, <2>2, <2>3 DEF PromotionInv
  <2>6. \A c \in Cycles : cck'[c].st = "saved" =>
          /\ \A k \in cck'[c].promoted : Justified(<<c, k>>)'
          /\ \A k \in cck'[c].human : k = "global"
    BY <1>3, <2>3, <2>4 DEF PromotionInv
  <2>7. /\ \A q \in run'.extra : Justified(q)'
        /\ \A c \in Cycles : \A q \in morning'[c].promoted : Justified(q)'
    BY <1>3, <2>3, <2>4 DEF PromotionInv
  <2> QED BY <1>1, <2>5, <2>6, <2>7 DEF PromotionInv, Justified
<1>17. CASE UNCHANGED vars
  BY <1>17, PromotionFrame DEF vars
<1> QED BY <1>5, <1>6, <1>7, <1>8, <1>9, <1>10, <1>11, <1>12, <1>13, <1>14, <1>15, <1>16, <1>17
        DEF Next, Runner, PhaseC

\* Every promotion a report shows was verified by a sandbox, did not lower the
\* stability index and has a human's approval when its blast radius is GLOBAL,
\* whichever cycle reports it and however often that cycle was resumed.
THEOREM PromotionsJustified == Spec => []PromotionJustified
<1>1. Init => PromotionInv
  BY InitPromotion
<1>2. PromotionInv /\ [Next]_vars => PromotionInv'
  BY StepPromotion
<1>3. PromotionInv => PromotionJustified
  BY DEF PromotionInv, PromotionJustified, Justified
<1> QED BY <1>1, <1>2, <1>3, PTL DEF Spec

-----------------------------------------------------------------------------
(* What the next cycle finds of the last reported one, when no write tears.  *)

LEMMA PrependHead ==
  ASSUME NEW c \in Cycles, NEW s \in Seq(Cycles)
  PROVE  Prepend(c, s) # <<>> /\ Head(Prepend(c, s)) = c
<1>1. \A t \in Seq(Cycles) : <<c>> \o t # <<>> /\ Head(<<c>> \o t) = c
  <2> SUFFICES ASSUME NEW t \in Seq(Cycles) PROVE <<c>> \o t # <<>> /\ Head(<<c>> \o t) = c
    OBVIOUS
  <2>1. <<c>> \in Seq(Cycles) /\ Len(<<c>>) = 1 /\ <<c>>[1] = c
    OBVIOUS
  <2>2. /\ <<c>> \o t \in Seq(Cycles)
        /\ Len(<<c>> \o t) = 1 + Len(t)
        /\ (<<c>> \o t)[1] = c
    BY <2>1, ConcatProperties, LenProperties
  <2> QED BY <2>2, LenProperties, EmptySeq
<1>2. CASE Len(s) < LineageMax
  BY <1>1, <1>2 DEF Prepend
<1>3. CASE ~(Len(s) < LineageMax)
  <2>1. Len(s) \in Nat /\ \A i \in 1 .. LineageMax - 1 : s[i] \in Cycles
    BY <1>3, LenProperties, ElementOfSeq, LineageAssumption
  <2>2. SubSeq(s, 1, LineageMax - 1) \in Seq(Cycles)
    BY <2>1, SubSeqProperties, LineageAssumption
  <2> QED BY <1>1, <1>3, <2>2 DEF Prepend
<1> QED BY <1>2, <1>3

\* The steps after the report is written, and those that plan a cycle.
Reporting == {"metrics", "stats", "lineage", "adaptation", "rollback", "finish"}
Planning == {"observe", "dispatch", "enterTesting", "sandbox"}

LastBlocked == morning[Head(lineage)].drift = "blocked"

\* The recovery targets and the adaptation agree with the last report.
Settled ==
    lineage # <<>> => /\ rollback <=> LastBlocked
                      /\ LastBlocked => latest = "blocked"

\* They agree except while a cycle is being promoted, whose writes are made in
\* order; the ceiling is read only when they agree.
ReportInv ==
    /\ LedgerInv
    /\ tsm.st # "TORN"
    /\ tsm.st # "PROMOTING" => Settled
    /\ pc \in Reporting => morning[Cyc].drift = drift
    /\ pc \in {"adaptation", "rollback", "finish"} => lineage # <<>> /\ Head(lineage) = Cyc
    /\ pc \in {"rollback", "finish"} /\ drift = "blocked" => latest = "blocked"
    /\ pc = "finish" => (rollback <=> drift = "blocked")
    /\ pc \in Planning /\ lineage # <<>> /\ LastBlocked => run.ceiling

LEMMA InitReport == Init => ReportInv
BY InitLedger DEF Init, ReportInv, Settled, Reporting, Planning

\* The steps that write nothing of the report.
LEMMA ReportFrame ==
  ASSUME ReportInv, [Next]_vars,
         UNCHANGED <<morning, lineage, latest, rollback>>,
         tsm'.st # "TORN",
         tsm.st = "PROMOTING" => tsm'.st = "PROMOTING",
         pc' \notin Reporting \/ UNCHANGED <<pc, run, drift>>,
         pc' \in Planning => pc \in Planning /\ run'.ceiling = run.ceiling
  PROVE  ReportInv'
<1>1. LedgerInv'
  BY StepLedger DEF ReportInv
<1>2. tsm'.st # "PROMOTING" => Settled'
  BY DEF ReportInv, Settled, LastBlocked
<1>3. /\ pc' \in Reporting => morning'[Cyc'].drift = drift'
      /\ pc' \in {"adaptation", "rollback", "finish"} => lineage' # <<>> /\ Head(lineage') = Cyc'
      /\ pc' \in {"rollback", "finish"} /\ drift' = "blocked" => latest' = "blocked"
      /\ pc' = "finish" => (rollback' <=> drift' = "blocked")
  BY DEF ReportInv, Reporting, Cyc
<1>4. pc' \in Planning /\ lineage' # <<>> /\ LastBlocked' => run'.ceiling
  BY DEF ReportInv, LastBlocked
<1> QED BY <1>1, <1>2, <1>3, <1>4 DEF ReportInv

LEMMA StepReport ==
  ASSUME TornWrites = FALSE, ReportInv, [Next]_vars
  PROVE  ReportInv'
<1> USE DEF stores, ckpts, report, ledger, review, outside, history, Step
<1>1. LedgerInv /\ TypeInv /\ StateFollows /\ LedgerInv'
  BY StepLedger DEF ReportInv, LedgerInv
<1>2. /\ run \in Run /\ lineage \in Seq(Cycles)
      /\ morning \in [Cycles -> [done : BOOLEAN, promoted : SUBSET Patches, drift : DriftStatus]]
      /\ pc # "idle" => Cyc \in Cycles
      /\ tsm.st \in TaskStatus \cup {"NONE", "TORN"}
      /\ rollback \in BOOLEAN
  BY <1>1 DEF TypeInv, TypeOK, CycleIds
<1>3. CASE Startup /\ ~Load
  BY <1>1, <1>3, ReportFrame
     DEF Startup, StartFresh, StartResume, RecordStateLoss, ResetState, WriteState,
         OpenReviewStore, StateFollows, Reporting, Planning, ReportInv
<1>4. CASE Load
  <2>1. CASE run.from \in {"TESTING", "PROMOTING"}
    BY <1>4, <2>1, ReportFrame DEF Load, Reporting, Planning, ReportInv
  <2>2. CASE run.from \in {"OBSERVING", "HYPOTHESIZING"}
    <3>1. /\ pc = "load" /\ pc' = "observe" /\ UNCHANGED <<stores, history>>
          /\ run' = [run EXCEPT !.ceiling = (latest = "blocked")]
      BY <1>4, <2>2 DEF Load
    <3>2. run'.ceiling = (latest = "blocked")
      BY <1>2, <3>1 DEF Run
    <3>3. tsm.st # "PROMOTING"
      BY <1>1, <2>2, <3>1 DEF StateFollows
    <3>4. Settled /\ Settled'
      BY <3>1, <3>3 DEF ReportInv, Settled, LastBlocked
    <3>5. lineage' # <<>> /\ LastBlocked' => run'.ceiling
      BY <3>1, <3>2, <3>4 DEF Settled, LastBlocked
    <3> QED BY <1>1, <3>1, <3>4, <3>5 DEF ReportInv, Reporting, Planning
  <2> QED BY <1>4, <2>1, <2>2 DEF Load
<1>5. CASE PhaseAB
  <2>1. CASE RunSandbox
    BY <1>2, <2>1, ReportFrame DEF RunSandbox, Reporting, Planning, ReportInv, Run
  <2>2. CASE Observe \/ EnterTesting
    BY <1>1, <2>2, ReportFrame
       DEF Observe, EnterTesting, WriteState, StateFollows, InHypothesizing, Reporting,
           Planning, ReportInv
  <2>3. CASE Dispatch \/ ApplyLedgerWrites \/ SaveB
    BY <2>3, ReportFrame DEF Dispatch, ApplyLedgerWrites, SaveB, Reporting, Planning, ReportInv
  <2> QED BY <1>5, <2>1, <2>2, <2>3 DEF PhaseAB
<1>6. CASE PhaseC
  <2>1. UNCHANGED <<morning, lineage, latest, rollback>>
    BY <1>6 DEF PhaseC, EnterPromoting, LoadGateResult, EvaluateGate, Inject, RemoveApproved,
                SubmitPrs, QueueDeferred, AppendMemory
  <2>2. tsm'.st # "TORN" /\ (tsm.st = "PROMOTING" => tsm'.st = "PROMOTING")
    BY <1>6 DEF PhaseC, EnterPromoting, LoadGateResult, EvaluateGate, Inject, RemoveApproved,
                SubmitPrs, QueueDeferred, AppendMemory, WriteState, ReportInv
  <2>3. pc' \notin Reporting /\ pc' \notin Planning
    BY <1>6 DEF PhaseC, EnterPromoting, LoadGateResult, EvaluateGate, Inject, RemoveApproved,
                SubmitPrs, QueueDeferred, AppendMemory, Reporting, Planning
  <2> QED BY <2>1, <2>2, <2>3, ReportFrame
<1>7. CASE Aggregate
  BY <1>7, ReportFrame DEF Aggregate, Reporting, Planning, ReportInv
<1>8. CASE WriteMorning
  <2>1. Cyc \in Cycles /\ tsm.st = "PROMOTING" /\ pc' = "metrics"
    BY <1>1, <1>2, <1>8 DEF WriteMorning, StateFollows, InPromoting, AfterGate
  <2>2. morning'[Cyc].drift = drift
    BY <1>2, <1>8, <2>1 DEF WriteMorning
  <2> QED BY <1>1, <1>8, <2>1, <2>2 DEF WriteMorning, ReportInv, Reporting, Planning, Cyc
<1>9. CASE WriteMetrics \/ WriteStats
  <2>1. /\ tsm.st = "PROMOTING" /\ pc \in {"metrics", "stats"} /\ pc' \in {"stats", "lineage"}
        /\ UNCHANGED <<tsm, morning, lineage, latest, rollback, drift, run>>
    BY <1>1, <1>9 DEF WriteMetrics, WriteStats, StateFollows, InPromoting, AfterGate
  <2> QED BY <1>1, <2>1 DEF ReportInv, Reporting, Planning, Cyc
<1>10. CASE WriteLineage
  <2>1. /\ Cyc \in Cycles /\ tsm.st = "PROMOTING" /\ pc = "lineage" /\ pc' = "adaptation"
        /\ UNCHANGED <<tsm, morning, latest, rollback, drift, run>>
    BY <1>1, <1>2, <1>10 DEF WriteLineage, StateFollows, InPromoting, AfterGate
  <2>2. lineage' # <<>> /\ Head(lineage') = Cyc
    BY <1>2, <1>10, <2>1, PrependHead DEF WriteLineage
  <2> QED BY <1>1, <2>1, <2>2 DEF ReportInv, Reporting, Planning, Cyc
<1>11. CASE WriteAdaptation
  <2>1. /\ tsm.st = "PROMOTING" /\ pc = "adaptation" /\ pc' = "rollback"
        /\ UNCHANGED <<tsm, morning, lineage, rollback, drift, run>>
        /\ drift = "blocked" => latest' = "blocked"
    BY <1>1, <1>11 DEF WriteAdaptation, StateFollows, InPromoting, AfterGate
  <2> QED BY <1>1, <2>1 DEF ReportInv, Reporting, Planning, Cyc
<1>12. CASE UpdateRollback
  <2>1. /\ tsm.st = "PROMOTING" /\ pc = "rollback" /\ pc' = "finish"
        /\ UNCHANGED <<tsm, morning, lineage, latest, drift, run>>
        /\ rollback' <=> drift = "blocked"
    BY <1>1, <1>12 DEF UpdateRollback, StateFollows, InPromoting, AfterGate
  <2> QED BY <1>1, <2>1 DEF ReportInv, Reporting, Planning, Cyc
<1>13. CASE Finish
  <2>1. /\ pc = "finish" /\ pc' = "idle" /\ tsm'.st = "OBSERVING"
        /\ UNCHANGED <<morning, lineage, latest, rollback, drift>>
    BY <1>13 DEF Finish, WriteState
  <2>2. Settled
    BY <2>1 DEF ReportInv, Reporting, Settled, LastBlocked
  <2>3. Settled'
    BY <2>1, <2>2 DEF Settled, LastBlocked
  <2> QED BY <1>1, <2>1, <2>3 DEF ReportInv, Reporting, Planning
<1>14. CASE Abort \/ DispatchFails \/ Crash
  BY <1>14, ReportFrame DEF Abort, DispatchFails, Crash, Die, Reporting, Planning, ReportInv
<1>15. CASE CrashInWrite
  BY <1>15 DEF CrashInWrite
<1>16. CASE \E p \in Patches, v \in Verdicts : ApplyReviewDecision(p, v)
  BY <1>16, ReportFrame DEF ApplyReviewDecision, ReportInv
<1>17. CASE UNCHANGED vars
  BY <1>17, ReportFrame DEF vars, ReportInv
<1> QED BY <1>3, <1>4, <1>5, <1>6, <1>7, <1>8, <1>9, <1>10, <1>11, <1>12, <1>13, <1>14, <1>15,
           <1>16, <1>17 DEF Next, Runner, PhaseD

LEMMA ReportCorrect == ASSUME TornWrites = FALSE PROVE Spec => []ReportInv
<1>1. Init => ReportInv
  BY InitReport
<1>2. ReportInv /\ [Next]_vars => ReportInv'
  BY StepReport
<1> QED BY <1>1, <1>2, PTL DEF Spec

\* While no write tears, whatever crashes come, the recovery targets on disk
\* between runs are those of the last reported cycle (runner 1631-1651).
THEOREM TargetsFollowDrift ==
  ASSUME TornWrites = FALSE PROVE Spec => []RollbackMatchesDrift
<1>1. ReportInv => RollbackMatchesDrift
  BY DEF ReportInv, RollbackMatchesDrift, Settled, LastBlocked
<1> QED BY <1>1, ReportCorrect, PTL

\* While no write tears, no sandbox that follows a report of blocking drift
\* accepts a GLOBAL candidate, also when its cycle was interrupted and resumed.
THEOREM CeilingAlwaysRead ==
  ASSUME TornWrites = FALSE PROVE Spec => CeilingHonoured
<1>1. ReportInv /\ [Next]_vars =>
        [pc = "sandbox" /\ pc' = "ledgerWrites" /\ lineage # <<>>
           => (morning[Head(lineage)].drift = "blocked" => "global" \notin run'.ver)]_vars
  <2> SUFFICES ASSUME ReportInv, Next, pc = "sandbox", pc' = "ledgerWrites", lineage # <<>>,
                      morning[Head(lineage)].drift = "blocked"
               PROVE  "global" \notin run'.ver
    OBVIOUS
  <2>1. run.ceiling /\ run \in Run
    BY DEF ReportInv, Planning, LastBlocked, LedgerInv, TypeInv, TypeOK
  <2>2. RunSandbox
    BY DEF Next, Runner, Step, Startup, StartFresh, StartResume, RecordStateLoss, ResetState, Load,
           PhaseAB, Observe, Dispatch, EnterTesting, ApplyLedgerWrites, SaveB,
           PhaseC, EnterPromoting, LoadGateResult, EvaluateGate, Inject, RemoveApproved,
           SubmitPrs, QueueDeferred, AppendMemory,
           PhaseD, Aggregate, WriteMorning, WriteMetrics, WriteStats, WriteLineage,
           WriteAdaptation, UpdateRollback, Finish, Abort, DispatchFails, Crash, CrashInWrite,
           Die, ApplyReviewDecision
  <2> QED BY <2>1, <2>2 DEF RunSandbox, Run
<1> QED BY <1>1, ReportCorrect, PTL DEF Spec, CeilingHonoured

-----------------------------------------------------------------------------
(* Approvals and the lifetime counter, when no run is interrupted and the    *)
(* review store is one for all runs.                                         *)

\* No run ends in a state it would have to resume from a checkpoint, so none
\* is refused.
Uninterrupted ==
    /\ torn = {}
    /\ tsm.st # "TORN"
    /\ run.from \in {"OBSERVING", "HYPOTHESIZING"}
    /\ pc = "idle" => tsm.st \notin {"TESTING", "PROMOTING"}

Reported == UNION {morning[c].promoted : c \in Cycles}

\* The steps of a cycle between its decision and its queueing.
Deciding == {"inject", "remove", "pr", "queue"}

\* Its cycle has not come to queueing a patch yet.
Unqueued(p) == cck[p[1]].st # "saved" \/ (p[1] = Cyc /\ pc \in Deciding)

\* The checkpoint of its cycle holds a patch, which is what Inject asks for.
Verified(p) == bck[p[1]].st = "saved" /\ p[2] \in bck[p[1]].ver

\* Where a patch may be.
Places ==
    /\ \A p \in Patches : Unqueued(p) => p \notin reviewQ \cup approved \cup run.extra \cup Reported
    /\ reviewQ \cap (approved \cup run.extra \cup Reported) = {}
    /\ approved \cap Reported = {}
    /\ run.extra \cap approved \subseteq run.todo
    /\ pc \notin Reporting => run.extra \cap Reported = {}

\* What the runner holds of the approvals it promotes.
InHand ==
    /\ run.todo \subseteq approved
    /\ run.todo \subseteq run.extra
    /\ pc # "remove" => run.todo = {}
    /\ pc \notin AfterGate \ {"inject"} => run.extra = {}
    /\ pc \in Reporting => morning[Cyc].promoted = Promoted

\* A GLOBAL patch is promoted by an approval only, any other by its own cycle.
Origins ==
    /\ \A c \in Cycles : cck[c].st = "saved" =>
          "global" \notin cck[c].promoted /\ cck[c].human \subseteq bck[c].ver
    /\ \A p \in reviewQ \cup approved : Verified(p)
    /\ \A p \in run.extra : p[2] = "global"
    /\ \A c \in Cycles : \A p \in morning[c].promoted : p[2] = "global" \/ p[1] = c
    /\ \A c \in Cycles : morning[c].promoted # {} =>
          cck[c].st = "saved" /\ ~(c = Cyc /\ pc \in AfterGate \ Reporting)

PlacesInv ==
    /\ PromotionInv
    /\ Uninterrupted
    /\ Places
    /\ InHand
    /\ Origins

Reports == {x \in Cycles \X Patches : x[2] \in morning[x[1]].promoted}

\* Between the report and the counter, the counter lacks what was reported.
CountInv ==
    /\ PlacesInv
    /\ pc \in {"morning", "metrics", "stats"} => run.before = cum
    /\ pc \in {"metrics", "stats"} => cum + Cardinality(Promoted) = Cardinality(Reports)
    /\ pc \notin {"metrics", "stats"} => cum = Cardinality(Reports)

LEMMA InitPlaces == Init => CountInv
<1> SUFFICES ASSUME Init PROVE CountInv
  OBVIOUS
<1>1. PromotionInv /\ run.extra = {} /\ run.todo = {} /\ run.from = "OBSERVING"
  BY InitPromotion, NoRunType DEF Init, NoRun
<1>2. Reported = {} /\ Reports = {}
  BY DEF Init, Reported, Reports
<1>3. Uninterrupted /\ Places
  BY <1>1, <1>2 DEF Init, Uninterrupted, Places
<1>4. InHand
  BY <1>1 DEF Init, InHand, Reporting, AfterGate
<1>5. Origins
  BY <1>1 DEF Init, Origins, NoGate
<1>7. cum = Cardinality(Reports)
  BY <1>2, FS_EmptySet DEF Init
<1> QED BY <1>1, <1>3, <1>4, <1>5, <1>7 DEF PlacesInv, CountInv, Init

\* Without crashes every run that gets past the dispatcher comes to its end.
LEMMA NothingStops ==
  ASSUME MaxCrashes = 0, TypeInv, Uninterrupted
  PROVE  ~Abort /\ ~Crash /\ ~CrashInWrite /\ ~LoadGateResult
<1>1. crashes \in 0 .. MaxCrashes
  BY DEF TypeInv, TypeOK
<1>2. ~Die
  BY <1>1 DEF Die
<1>3. ~Abort
  BY DEF Abort, Unreadable, Readable, Uninterrupted
<1> QED BY <1>2, <1>3 DEF Crash, CrashInWrite, LoadGateResult, Uninterrupted

LEMMA StepUninterrupted ==
  ASSUME MaxCrashes = 0, LedgerInv, Uninterrupted, [Next]_vars
  PROVE  Uninterrupted'
<1> USE DEF stores, ckpts, report, ledger, review, outside, history, Step
<1>1. TypeInv /\ StateFollows /\ run \in Run /\ tsm.st \in TaskStatus \cup {"NONE", "TORN"}
  BY DEF LedgerInv, TypeInv, TypeOK
<1>2. CASE StartFresh
  <2>1. born + 1 \in Cycles /\ run' = [NoRun EXCEPT !.cyc = born + 1]
    <3>1. born < MaxCycles /\ born \in 0 .. MaxCycles
      BY <1>1, <1>2 DEF StartFresh, TypeInv, TypeOK
    <3> QED BY <1>2, <3>1, BoundsAssumption DEF StartFresh, Cycles
  <2>2. run'.from = "OBSERVING"
    BY <2>1, StartType DEF TaskStatus
  <2> QED BY <1>2, <2>2 DEF StartFresh, Uninterrupted
<1>3. CASE StartResume
  <2>1. tsm.st = "HYPOTHESIZING"
    BY <1>3 DEF StartResume, Uninterrupted
  <2>2. run'.from = tsm.st
    BY <1>3 DEF StartResume, NoRun
  <2> QED BY <1>3, <2>1, <2>2 DEF StartResume, Uninterrupted
<1>4. CASE RecordStateLoss \/ ResetState \/ Observe \/ EnterTesting \/ EnterPromoting
  BY <1>4 DEF RecordStateLoss, ResetState, Observe, EnterTesting, EnterPromoting, WriteState,
              Uninterrupted
<1>5. CASE Load \/ RunSandbox \/ EvaluateGate \/ Inject \/ RemoveApproved \/ Aggregate
  <2>1. run'.from = run.from /\ UNCHANGED <<tsm, torn>> /\ pc' # "idle"
    BY <1>1, <1>5 DEF Load, RunSandbox, EvaluateGate, Inject, RemoveApproved, Aggregate, Run
  <2> QED BY <2>1 DEF Uninterrupted
<1>6. CASE Dispatch \/ ApplyLedgerWrites \/ SaveB \/ SubmitPrs \/ QueueDeferred \/ AppendMemory
  BY <1>6 DEF Dispatch, ApplyLedgerWrites, SaveB, SubmitPrs, QueueDeferred, AppendMemory,
              Uninterrupted
<1>7. CASE WriteMorning \/ WriteMetrics \/ WriteStats \/ WriteLineage \/ WriteAdaptation
           \/ UpdateRollback
  BY <1>7 DEF WriteMorning, WriteMetrics, WriteStats, WriteLineage, WriteAdaptation,
              UpdateRollback, Uninterrupted
<1>8. CASE Finish
  BY <1>8, NoRunType DEF Finish, WriteState, Uninterrupted
<1>9. CASE DispatchFails
  BY <1>1, <1>9, NoRunType DEF DispatchFails, Uninterrupted, StateFollows, InHypothesizing
<1>10. CASE \E p \in Patches, v \in Verdicts : ApplyReviewDecision(p, v)
  BY <1>10 DEF ApplyReviewDecision, Uninterrupted
<1>11. CASE UNCHANGED vars
  BY <1>11 DEF vars, Uninterrupted
<1> QED BY <1>1, <1>2, <1>3, <1>4, <1>5, <1>6, <1>7, <1>8, <1>9, <1>10, <1>11, NothingStops
        DEF Next, Runner, Startup, PhaseAB, PhaseC, PhaseD

\* A patch is told apart by its cycle and its kind; what is anywhere is one.
LEMMA PlacesType ==
  ASSUME LedgerInv
  PROVE  /\ reviewQ \subseteq Patches /\ approved \subseteq Patches
         /\ run \in Run /\ run.extra \subseteq Patches /\ run.todo \subseteq Patches
         /\ Reported \subseteq Patches
         /\ \A p \in Patches : p[1] \in Cycles /\ p[2] \in Kind /\ p = <<p[1], p[2]>>
         /\ pc # "idle" => Cyc \in Cycles
         /\ morning \in [Cycles -> [done : BOOLEAN, promoted : SUBSET Patches, drift : DriftStatus]]
         /\ cck \in [Cycles -> GateResult]
         /\ decided \in [Patches -> SUBSET Verdicts]
BY DEF LedgerInv, TypeInv, TypeOK, CycleIds, Run, Reported, Patches

\* A checkpoint stays, so a verified patch does.
LEMMA VerifiedStays ==
  ASSUME LedgerInv, [Next]_vars
  PROVE  /\ \A p \in Patches : Verified(p) => Verified(p)'
         /\ \A c \in Cycles : cck[c].st = "saved" => cck'[c] = cck[c] /\ bck'[c] = bck[c]
<1>1. \A c \in Cycles : /\ bck[c].st = "saved" => bck'[c] = bck[c]
                        /\ cck[c].st = "saved" => cck'[c] = cck[c]
  BY CheckpointsStay
<1>2. \A c \in Cycles : cck[c].st = "saved" => bck[c].st = "saved"
  BY DEF LedgerInv, CheckpointBacksState
<1>3. \A p \in Patches : Verified(p) => Verified(p)'
  BY <1>1, PlacesType DEF Verified
<1> QED BY <1>1, <1>2, <1>3

\* The steps that move no patch.
LEMMA PlacesFrame ==
  ASSUME PlacesInv, [Next]_vars, Uninterrupted',
         UNCHANGED <<cck, morning, approved, reviewQ, decided>>,
         run'.extra = run.extra, run'.todo = run.todo,
         pc' \in AfterGate =>
            /\ pc \in AfterGate /\ run'.cyc = run.cyc /\ run'.gate = run.gate
            /\ pc' \in Deciding => pc \in Deciding
            /\ pc' \in Reporting <=> pc \in Reporting
            /\ pc' = "inject" => run.extra = {},
         pc' \notin AfterGate => run.extra = {} /\ pc \notin Reporting,
         pc = "remove" => pc' = "remove"
  PROVE  PlacesInv'
<1>1. PromotionInv' /\ LedgerInv
  BY StepPromotion DEF PlacesInv, PromotionInv
<1>2. Reported' = Reported
  BY DEF Reported
<1>3. Reporting \subseteq AfterGate /\ Deciding \subseteq AfterGate
  BY DEF Reporting, Deciding, AfterGate
<1>4. \A p : Unqueued(p)' => Unqueued(p)
  BY <1>3 DEF Unqueued, Cyc
<1>5. Places'
  BY <1>2, <1>3, <1>4 DEF PlacesInv, Places
<1>6. InHand'
  BY <1>3 DEF PlacesInv, InHand, Promoted, OwnPatches, Cyc
<1>7. Origins'
  <2>1. \A p \in reviewQ' \cup approved' : Verified(p)'
    BY <1>1, VerifiedStays, PlacesType DEF PlacesInv, Origins
  <2>2. \A c \in Cycles : cck'[c].st = "saved" =>
          "global" \notin cck'[c].promoted /\ cck'[c].human \subseteq bck'[c].ver
    BY <1>1, VerifiedStays DEF PlacesInv, Origins
  <2>3. \A c \in Cycles : morning'[c].promoted # {} =>
          cck'[c].st = "saved" /\ ~(c = Cyc' /\ pc' \in AfterGate \ Reporting)
    BY <1>3 DEF PlacesInv, Origins, Cyc
  <2>4. /\ \A p \in run'.extra : p[2] = "global"
        /\ \A c \in Cycles : \A p \in morning'[c].promoted : p[2] = "global" \/ p[1] = c
    BY DEF PlacesInv, Origins
  <2> QED BY <2>1, <2>2, <2>3, <2>4 DEF Origins, Verified
<1> QED BY <1>1, <1>5, <1>6, <1>7 DEF PlacesInv

LEMMA StepPlaces ==
  ASSUME MaxCrashes = 0, ReviewDirPerRun = FALSE, PlacesInv, [Next]_vars
  PROVE  PlacesInv'
<1> USE DEF stores, ckpts, report, ledger, review, outside, history, Step
<1>1. /\ LedgerInv /\ TypeInv /\ StateFollows /\ CheckpointsFollow
      /\ PromotionInv' /\ Uninterrupted'
  BY StepPromotion, StepUninterrupted DEF PlacesInv, PromotionInv, LedgerInv
<1>2. /\ run \in Run /\ run.extra \subseteq Patches
      /\ approved \subseteq Patches /\ reviewQ \subseteq Patches /\ Reported \subseteq Patches
      /\ \A p \in Patches : p[1] \in Cycles /\ p[2] \in Kind /\ p = <<p[1], p[2]>>
      /\ pc # "idle" => Cyc \in Cycles
      /\ morning \in [Cycles -> [done : BOOLEAN, promoted : SUBSET Patches, drift : DriftStatus]]
      /\ cck \in [Cycles -> GateResult]
      /\ decided \in [Patches -> SUBSET Verdicts]
  BY <1>1, PlacesType
<1>3. /\ Reporting \subseteq AfterGate /\ Deciding \subseteq AfterGate
      /\ pc \notin AfterGate => run.extra = {} /\ run.todo = {} /\ pc \notin Reporting
      /\ pc # "remove" => run.todo = {}
      /\ pc = "inject" => run.extra = {}
  BY DEF Reporting, Deciding, AfterGate, PlacesInv, InHand
<1>4. /\ \A p \in Patches : Verified(p) => Verified(p)'
      /\ \A c \in Cycles : cck[c].st = "saved" => cck'[c] = cck[c] /\ bck'[c] = bck[c]
  BY <1>1, VerifiedStays
<1>5. ~Abort /\ ~Crash /\ ~CrashInWrite /\ ~LoadGateResult
  BY <1>1, NothingStops DEF PlacesInv
<1>6. CASE Startup
  <2>1. UNCHANGED <<cck, morning, approved, reviewQ, decided>>
    BY <1>6, SwitchAssumption DEF Startup, StartFresh, StartResume, OpenReviewStore,
                                  RecordStateLoss, ResetState, Load
  <2>2. pc \notin AfterGate /\ pc' \notin AfterGate
    BY <1>6 DEF Startup, StartFresh, StartResume, RecordStateLoss, ResetState, Load, AfterGate
  <2>3. run'.extra = {} /\ run'.todo = {}
    <3>1. CASE StartFresh \/ StartResume
      BY <3>1 DEF StartFresh, StartResume, NoRun
    <3>2. CASE RecordStateLoss \/ ResetState
      BY <1>3, <2>2, <3>2 DEF RecordStateLoss, ResetState
    <3>3. CASE Load
      BY <1>2, <1>3, <2>2, <3>3 DEF Load, Run
    <3> QED BY <1>6, <3>1, <3>2, <3>3 DEF Startup
  <2> QED BY <1>1, <1>3, <2>1, <2>2, <2>3, PlacesFrame DEF AfterGate
<1>7. CASE PhaseAB \/ EnterPromoting
  <2>1. UNCHANGED <<cck, morning, approved, reviewQ, decided>>
    BY <1>7 DEF PhaseAB, Observe, Dispatch, EnterTesting, RunSandbox, ApplyLedgerWrites, SaveB,
                EnterPromoting
  <2>2. pc \notin AfterGate /\ pc' \notin AfterGate
    BY <1>7 DEF PhaseAB, Observe, Dispatch, EnterTesting, RunSandbox, ApplyLedgerWrites, SaveB,
                EnterPromoting, AfterGate
  <2>3. run'.extra = run.extra /\ run'.todo = run.todo
    BY <1>2, <1>7 DEF PhaseAB, Observe, Dispatch, EnterTesting, RunSandbox, ApplyLedgerWrites,
                      SaveB, EnterPromoting, Run
  <2> QED BY <1>1, <1>3, <2>1, <2>2, <2>3, PlacesFrame DEF AfterGate
<1>8. CASE DispatchFails
  BY <1>1, <1>3, <1>8, PlacesFrame DEF DispatchFails, NoRun, AfterGate
<1>9. CASE SubmitPrs \/ AppendMemory \/ Aggregate
  <2>1. UNCHANGED <<cck, morning, approved, reviewQ, decided>>
    BY <1>9 DEF SubmitPrs, AppendMemory, Aggregate
  <2>2. /\ run'.extra = run.extra /\ run'.todo = run.todo
        /\ run'.cyc = run.cyc /\ run'.gate = run.gate
    BY <1>2, <1>9 DEF SubmitPrs, AppendMemory, Aggregate, Run
  <2>3. /\ pc \in AfterGate /\ pc' \in AfterGate /\ pc \notin Reporting /\ pc' \notin Reporting
        /\ pc' \in Deciding => pc \in Deciding
        /\ pc' # "inject" /\ pc # "remove"
    BY <1>9 DEF SubmitPrs, AppendMemory, Aggregate, AfterGate, Reporting, Deciding
  <2> QED BY <1>1, <2>1, <2>2, <2>3, PlacesFrame
<1>10. CASE WriteMetrics \/ WriteStats \/ WriteLineage \/ WriteAdaptation \/ UpdateRollback
  <2>1. UNCHANGED <<cck, morning, approved, reviewQ, decided, run>>
    BY <1>10 DEF WriteMetrics, WriteStats, WriteLineage, WriteAdaptation, UpdateRollback
  <2>2. /\ pc \in AfterGate /\ pc' \in AfterGate /\ pc \in Reporting /\ pc' \in Reporting
        /\ pc' \notin Deciding /\ pc' # "inject" /\ pc # "remove"
    BY <1>10 DEF WriteMetrics, WriteStats, WriteLineage, WriteAdaptation, UpdateRollback,
                 AfterGate, Reporting, Deciding
  <2> QED BY <1>1, <2>1, <2>2, PlacesFrame
<1>11. CASE EvaluateGate
  <2>1. /\ Cyc \in Cycles /\ cck[Cyc].st = "absent" /\ bck[Cyc].st = "saved"
        /\ bck[Cyc].ver = run.ver /\ pc = "gate" /\ pc' = "inject"
        /\ UNCHANGED <<bck, morning, approved, reviewQ, decided>>
    BY <1>1, <1>2, <1>11 DEF EvaluateGate, CheckpointsFollow
  <2>2. PICK open \in BOOLEAN :
          run' = [run EXCEPT !.gate = Evaluate(run.ver, open, cck[Cyc].gen + 1)]
    BY <1>11 DEF EvaluateGate
  <2> DEFINE g == Evaluate(run.ver, open, cck[Cyc].gen + 1)
  <2>3. /\ run'.gate = g /\ run'.extra = run.extra /\ run'.todo = run.todo
        /\ run'.cyc = run.cyc
    BY <1>2, <2>2 DEF Run
  <2>4. g.st = "saved" /\ "global" \notin g.promoted /\ g.human \subseteq run.ver
    BY DEF Evaluate, PatchGate
  <2> HIDE DEF g
  <2>5. \A c \in Cycles : cck'[c] = IF c = Cyc THEN g ELSE cck[c]
    BY <1>2, <1>11, <2>1, <2>3 DEF EvaluateGate
  <2>6. Reported' = Reported /\ run'.extra = {} /\ run'.todo = {} /\ Cyc' = Cyc
    BY <1>3, <2>1, <2>3 DEF Reported, AfterGate, Cyc
  <2>7. \A p \in Patches : Unqueued(p)' => Unqueued(p)
    BY <1>2, <2>1, <2>5, <2>6 DEF Unqueued
  <2>8. Places'
    BY <2>1, <2>6, <2>7 DEF PlacesInv, Places, Reporting
  <2>9. InHand'
    BY <2>1, <2>6 DEF InHand, Reporting
  <2>10. Origins'
    <3>1. \A p \in reviewQ' \cup approved' : Verified(p)'
      BY <2>1 DEF PlacesInv, Origins, Verified
    <3>2. \A c \in Cycles : cck'[c].st = "saved" =>
            "global" \notin cck'[c].promoted /\ cck'[c].human \subseteq bck'[c].ver
      BY <2>1, <2>4, <2>5 DEF PlacesInv, Origins
    <3>3. \A c \in Cycles : morning'[c].promoted # {} =>
            cck'[c].st = "saved" /\ ~(c = Cyc' /\ pc' \in AfterGate \ Reporting)
      BY <2>1, <2>4, <2>5, <2>6 DEF PlacesInv, Origins
    <3>4. \A c \in Cycles : \A p \in morning'[c].promoted : p[2] = "global" \/ p[1] = c
      BY <2>1 DEF PlacesInv, Origins
    <3> QED BY <2>6, <3>1, <3>2, <3>3, <3>4 DEF Origins, Verified
  <2> QED BY <1>1, <2>8, <2>9, <2>10 DEF PlacesInv
<1>12. CASE Inject
  <2>1. /\ pc = "inject" /\ pc' = (IF approved = {} THEN "pr" ELSE "remove")
        /\ run'.todo = approved /\ run'.cyc = run.cyc /\ run'.gate = run.gate
        /\ run'.extra = {p \in approved : bck[p[1]].st = "saved" /\ p[2] \in bck[p[1]].ver}
        /\ UNCHANGED <<bck, cck, morning, approved, reviewQ, decided>>
    BY <1>2, <1>12 DEF Inject, Run
  <2>2. run'.extra = approved /\ run.extra = {} /\ Reported' = Reported /\ Cyc' = Cyc
    BY <1>3, <2>1 DEF PlacesInv, Origins, Verified, Reported, Cyc
  <2>3. /\ pc' \in {"pr", "remove"} /\ pc' # "remove" => approved = {}
        /\ pc' \in AfterGate \ Reporting /\ pc \in Deciding /\ pc \in AfterGate \ Reporting
        /\ pc' # "inject"
    BY <2>1 DEF AfterGate, Reporting, Deciding
  <2>4. \A p : Unqueued(p)' => Unqueued(p)
    BY <2>1, <2>2, <2>3 DEF Unqueued
  <2>5. Places'
    BY <2>1, <2>2, <2>3, <2>4 DEF PlacesInv, Places
  <2>6. InHand'
    BY <2>1, <2>2, <2>3 DEF InHand
  <2>7. Origins'
    <3>1. \A p \in approved : p[2] = "global"
      BY DEF PlacesInv, PromotionInv
    <3> QED BY <2>1, <2>2, <2>3, <3>1 DEF PlacesInv, Origins, Verified
  <2> QED BY <1>1, <2>5, <2>6, <2>7 DEF PlacesInv
<1>13. CASE RemoveApproved
  <2>1. PICK p \in run.todo : /\ approved' = approved \ {p}
                             /\ run' = [run EXCEPT !.todo = @ \ {p}]
                             /\ pc' = IF run.todo = {p} THEN "pr" ELSE "remove"
    BY <1>13 DEF RemoveApproved
  <2>2. /\ run'.todo = run.todo \ {p} /\ run'.extra = run.extra
        /\ run'.cyc = run.cyc /\ run'.gate = run.gate /\ pc = "remove"
        /\ UNCHANGED <<bck, cck, morning, reviewQ, decided>>
    BY <1>2, <1>13, <2>1 DEF RemoveApproved, Run
  <2>3. /\ pc' \in {"pr", "remove"} /\ pc' # "remove" => run'.todo = {}
        /\ pc' \in AfterGate \ Reporting /\ pc \in AfterGate \ Reporting
        /\ pc \in Deciding /\ pc' \in AfterGate \ {"inject"}
    BY <2>1, <2>2 DEF AfterGate, Reporting, Deciding
  <2>4. Reported' = Reported /\ Cyc' = Cyc /\ approved' \subseteq approved
    BY <2>1, <2>2 DEF Reported, Cyc
  <2>5. \A q : Unqueued(q)' => Unqueued(q)
    BY <2>2, <2>3, <2>4 DEF Unqueued
  <2>6. Places'
    BY <2>1, <2>2, <2>3, <2>4, <2>5 DEF PlacesInv, Places
  <2>7. InHand'
    BY <2>1, <2>2, <2>3 DEF PlacesInv, InHand
  <2>8. Origins'
    BY <2>2, <2>3, <2>4 DEF PlacesInv, Origins, Verified
  <2> QED BY <1>1, <2>6, <2>7, <2>8 DEF PlacesInv
<1>14. CASE QueueDeferred
  <2>1. /\ pc = "queue" /\ pc' = "memory" /\ Cyc \in Cycles
        /\ reviewQ' = reviewQ \cup OwnPatches(run.gate.human)
        /\ run.gate = cck[Cyc] /\ cck[Cyc].st = "saved"
        /\ UNCHANGED <<bck, cck, morning, approved, decided, run>>
    BY <1>1, <1>2, <1>14 DEF QueueDeferred, CheckpointsFollow, AfterGate
  <2>2. \A p \in OwnPatches(run.gate.human) :
           p \in Patches /\ p[1] = Cyc /\ p[2] \in cck[Cyc].human
    BY <1>2, <2>1 DEF OwnPatches, Patches, GateResult
  <2>3. bck[Cyc].st = "saved"
    BY <1>1, <2>1 DEF LedgerInv, CheckpointBacksState
  <2>4. \A p \in OwnPatches(run.gate.human) :
           p \notin reviewQ \cup approved \cup run.extra \cup Reported /\ Verified(p)
    BY <2>1, <2>2, <2>3 DEF PlacesInv, Places, Origins, Unqueued, Deciding, Verified
  <2>5. Reported' = Reported /\ Cyc' = Cyc
    BY <2>1 DEF Reported, Cyc
  <2>6. \A p : Unqueued(p)' => Unqueued(p) /\ p \notin OwnPatches(run.gate.human)
    BY <2>1, <2>2, <2>5 DEF Unqueued, Deciding
  <2>7. Places'
    BY <2>1, <2>4, <2>5, <2>6 DEF PlacesInv, Places, Reporting
  <2>8. InHand'
    BY <2>1 DEF PlacesInv, InHand, Reporting, AfterGate
  <2>9. Origins'
    <3>1. \A p \in reviewQ' \cup approved' : Verified(p)'
      BY <2>1, <2>4 DEF PlacesInv, Origins, Verified
    <3>2. \A c \in Cycles : morning'[c].promoted # {} =>
            cck'[c].st = "saved" /\ ~(c = Cyc' /\ pc' \in AfterGate \ Reporting)
      BY <2>1, <2>5 DEF PlacesInv, Origins, AfterGate, Reporting
    <3> QED BY <2>1, <3>1, <3>2 DEF PlacesInv, Origins, Verified
  <2> QED BY <1>1, <2>7, <2>8, <2>9 DEF PlacesInv
<1>15. CASE WriteMorning
  <2>1. /\ pc = "morning" /\ pc' = "metrics" /\ Cyc \in Cycles
        /\ run.gate = cck[Cyc] /\ cck[Cyc].st = "saved"
        /\ UNCHANGED <<bck, cck, approved, reviewQ, decided, run>>
    BY <1>1, <1>2, <1>15 DEF WriteMorning, CheckpointsFollow, AfterGate
  <2>2. \A c \in Cycles : morning'[c].promoted = IF c = Cyc THEN Promoted ELSE morning[c].promoted
    BY <1>2, <1>15, <2>1 DEF WriteMorning
  <2>3. morning[Cyc].promoted = {} /\ Cyc' = Cyc /\ Promoted' = Promoted
    BY <2>1 DEF PlacesInv, Origins, AfterGate, Reporting, Cyc, Promoted, OwnPatches
  <2>4. Reported' = Reported \cup Promoted
    BY <2>1, <2>2, <2>3 DEF Reported
  <2>5. \A p \in OwnPatches(run.gate.promoted) : p \in Patches /\ p[1] = Cyc /\ p[2] # "global"
    BY <1>2, <2>1 DEF OwnPatches, Patches, GateResult, PlacesInv, Origins
  <2>6. \A p \in reviewQ \cup approved \cup run.extra : p[2] = "global"
    BY DEF PlacesInv, PromotionInv, Origins
  <2>7. run.todo = {} /\ run.extra \cap approved = {} /\ run.extra \cap Reported = {}
    BY <1>3, <2>1 DEF PlacesInv, Places, Reporting
  <2>8. \A c \in Cycles : c # Cyc => morning[c].promoted \cap Promoted = {}
    <3> SUFFICES ASSUME NEW c \in Cycles, c # Cyc, NEW p \in morning[c].promoted, p \in Promoted
                 PROVE  FALSE
      OBVIOUS
    <3>1. p \in Reported /\ (p[2] = "global" \/ p[1] = c)
      BY DEF Reported, PlacesInv, Origins
    <3> QED BY <2>5, <2>7, <3>1 DEF Promoted
  <2>9. Places'
    <3>1. \A p \in Patches : Unqueued(p)' => Unqueued(p) /\ p \notin Promoted
      <4> SUFFICES ASSUME NEW p \in Patches, Unqueued(p)'
                   PROVE  Unqueued(p) /\ p \notin Promoted
        OBVIOUS
      <4>1. cck[p[1]].st # "saved" /\ Unqueued(p)
        BY <2>1 DEF Unqueued, Deciding
      <4>2. p \notin run.extra
        BY <4>1 DEF PlacesInv, Places
      <4>3. p[1] # Cyc
        BY <2>1, <4>1
      <4> QED BY <2>5, <4>1, <4>2, <4>3 DEF Promoted
    <3>2. Promoted \cap (reviewQ \cup approved) = {}
      BY <2>5, <2>6, <2>7 DEF Promoted, PlacesInv, Places
    <3> QED BY <2>1, <2>4, <2>7, <3>1, <3>2 DEF PlacesInv, Places, Reporting
  <2>10. InHand'
    BY <2>1, <2>2, <2>3, <2>7 DEF InHand, AfterGate, PlacesInv
  <2>11. Origins'
    <3>1. \A c \in Cycles : \A p \in morning'[c].promoted : p[2] = "global" \/ p[1] = c
      BY <2>2, <2>5, <2>6 DEF PlacesInv, Origins, Promoted
    <3>2. \A c \in Cycles : morning'[c].promoted # {} =>
            cck'[c].st = "saved" /\ ~(c = Cyc' /\ pc' \in AfterGate \ Reporting)
      BY <2>1, <2>2, <2>3 DEF PlacesInv, Origins, Reporting
    <3> QED BY <2>1, <3>1, <3>2 DEF PlacesInv, Origins, Verified
  <2> QED BY <1>1, <2>9, <2>10, <2>11 DEF PlacesInv
<1>16. CASE Finish
  <2>1. /\ pc = "finish" /\ pc' = "idle" /\ run' = NoRun /\ Cyc \in Cycles
        /\ UNCHANGED <<bck, cck, morning, approved, reviewQ, decided>>
    BY <1>2, <1>16 DEF Finish
  <2>2. run'.extra = {} /\ run'.todo = {} /\ Reported' = Reported
    BY <2>1 DEF NoRun, Reported
  <2>3. run.extra \subseteq Reported
    BY <2>1 DEF PlacesInv, InHand, Reporting, Promoted, Reported
  <2>4. \A p : Unqueued(p)' => Unqueued(p)
    BY <2>1 DEF Unqueued, Deciding
  <2>5. Places'
    BY <2>1, <2>2, <2>4 DEF PlacesInv, Places
  <2>6. InHand'
    BY <2>1, <2>2 DEF InHand, Reporting
  <2>7. Origins'
    BY <2>1, <2>2 DEF PlacesInv, Origins, Verified, AfterGate
  <2> QED BY <1>1, <2>5, <2>6, <2>7 DEF PlacesInv
<1>17. CASE \E p \in Patches, v \in Verdicts : ApplyReviewDecision(p, v)
  <2>1. PICK p \in Patches, v \in Verdicts : ApplyReviewDecision(p, v)
    BY <1>17
  <2>2. /\ p \in reviewQ /\ reviewQ' = reviewQ \ {p}
        /\ approved' = IF v = "APPROVE" THEN approved \cup {p} ELSE approved
        /\ UNCHANGED <<bck, cck, morning, run, pc>>
    BY <2>1 DEF ApplyReviewDecision
  <2>3. \A q \in Patches : decided'[q] = IF q = p THEN decided[q] \cup {v} ELSE decided[q]
    BY <1>2, <2>1 DEF ApplyReviewDecision
  <2>4. Reported' = Reported /\ Cyc' = Cyc /\ Promoted' = Promoted
    BY <2>2 DEF Reported, Cyc, Promoted, OwnPatches
  <2>5. p \notin approved \cup run.extra \cup Reported /\ Verified(p)
    BY <2>2 DEF PlacesInv, Places, Origins
  <2>6. Places'
    BY <2>2, <2>4, <2>5 DEF PlacesInv, Places, Unqueued
  <2>7. InHand'
    BY <2>2, <2>4 DEF PlacesInv, InHand
  <2>8. Origins'
    BY <2>2, <2>4, <2>5 DEF PlacesInv, Origins, Verified
  <2> QED BY <1>1, <2>6, <2>7, <2>8 DEF PlacesInv
<1>18. CASE UNCHANGED vars
  BY <1>1, <1>3, <1>18, PlacesFrame DEF vars
<1> QED BY <1>5, <1>6, <1>7, <1>8, <1>9, <1>10, <1>11, <1>12, <1>13, <1>14, <1>15, <1>16, <1>17,
           <1>18 DEF Next, Runner, PhaseC, PhaseD

\* The report that is added holds as many new promotions as the runner made.
LEMMA ReportAdds ==
  ASSUME TypeInv, Cyc \in Cycles, morning[Cyc].promoted = {}, WriteMorning
  PROVE  Cardinality(Reports') = Cardinality(Reports) + Cardinality(Promoted)
<1> DEFINE new == {Cyc} \X Promoted
<1>1. Promoted \subseteq Patches /\ IsFiniteSet(Promoted) /\ Cardinality(Promoted) \in Nat
  BY PromotedType, PatchesFinite, FS_Subset DEF TypeInv
<1>2. \A c \in Cycles : morning'[c].promoted = IF c = Cyc THEN Promoted ELSE morning[c].promoted
  BY DEF WriteMorning, TypeInv, TypeOK
<1>3. Reports' = Reports \cup new /\ Reports \cap new = {}
  BY <1>1, <1>2 DEF Reports
<1>4. IsFiniteSet(Reports)
  <2>1. IsFiniteSet(Cycles)
    BY FS_Interval, BoundsAssumption DEF Cycles
  <2>2. IsFiniteSet(Cycles \X Patches)
    BY <2>1, PatchesFinite, FS_Product
  <2> QED BY <2>2, FS_Subset DEF Reports
<1>5. IsFiniteSet(new) /\ Cardinality(new) = Cardinality(Promoted)
  <2>1. IsFiniteSet({Cyc}) /\ Cardinality({Cyc}) = 1
    BY FS_Singleton
  <2>2. IsFiniteSet(new) /\ Cardinality(new) = Cardinality({Cyc}) * Cardinality(Promoted)
    BY <1>1, <2>1, FS_Product
  <2> QED BY <1>1, <2>1, <2>2
<1> HIDE DEF new
<1>6. Cardinality(Reports \cup new)
        = Cardinality(Reports) + Cardinality(new) - Cardinality(Reports \cap new)
  BY <1>4, <1>5, FS_Union
<1>7. Cardinality(Reports) \in Nat /\ Cardinality(Reports \cap new) = 0
  BY <1>3, <1>4, FS_CardinalityType, FS_EmptySet
<1> QED BY <1>1, <1>3, <1>5, <1>6, <1>7

LEMMA StepCount ==
  ASSUME MaxCrashes = 0, ReviewDirPerRun = FALSE, CountInv, [Next]_vars
  PROVE  CountInv'
<1> USE DEF stores, ckpts, report, ledger, review, outside, history, Step
<1>1. /\ LedgerInv /\ TypeInv /\ StateFollows /\ PlacesInv /\ PlacesInv'
      /\ run \in Run /\ cum \in Nat
  BY StepPlaces DEF CountInv, PlacesInv, PromotionInv, LedgerInv, TypeInv, TypeOK
<1>2. ~Abort /\ ~Crash /\ ~CrashInWrite
  BY <1>1, NothingStops DEF PlacesInv
<1>3. CASE WriteMorning
  <2>1. /\ pc = "morning" /\ pc' = "metrics" /\ Cyc \in Cycles
        /\ UNCHANGED <<cum, run>>
    BY <1>1, <1>3 DEF WriteMorning, TypeInv, CycleIds
  <2>2. morning[Cyc].promoted = {}
    BY <1>1, <2>1 DEF PlacesInv, Origins, AfterGate, Reporting
  <2>3. Cardinality(Reports') = cum + Cardinality(Promoted)
    BY <1>1, <1>3, <2>1, <2>2, ReportAdds DEF CountInv
  <2>4. Promoted' = Promoted /\ run.before = cum
    BY <2>1 DEF Promoted, OwnPatches, Cyc, CountInv
  <2> QED BY <1>1, <2>1, <2>3, <2>4 DEF CountInv
<1>4. CASE WriteMetrics
  BY <1>1, <1>4 DEF WriteMetrics, CountInv, Reports, Promoted, OwnPatches, Cyc
<1>5. CASE WriteStats
  <2>1. /\ pc = "stats" /\ pc' = "lineage" /\ morning' = morning
        /\ cum' = run.before + Cardinality(Promoted)
    BY <1>5 DEF WriteStats
  <2>2. cum' = Cardinality(Reports) /\ Reports' = Reports
    BY <2>1 DEF CountInv, Reports
  <2> QED BY <1>1, <2>1, <2>2 DEF CountInv
<1>6. CASE Aggregate
  <2>1. /\ pc = "aggregate" /\ pc' = "morning" /\ run'.before = cum
        /\ UNCHANGED <<cum, morning>>
    BY <1>1, <1>6 DEF Aggregate, Run
  <2> QED BY <1>1, <2>1 DEF CountInv, Reports
<1>7. CASE WriteLineage \/ WriteAdaptation \/ UpdateRollback \/ Finish
  <2>1. /\ pc \notin {"metrics", "stats"} /\ pc' \notin {"morning", "metrics", "stats"}
        /\ UNCHANGED <<cum, morning>>
    BY <1>7 DEF WriteLineage, WriteAdaptation, UpdateRollback, Finish
  <2> QED BY <1>1, <2>1 DEF CountInv, Reports
<1>8. CASE Startup \/ PhaseAB \/ PhaseC \/ DispatchFails
  <2>1. UNCHANGED <<cum, morning>>
    BY <1>8 DEF Startup, StartFresh, StartResume, RecordStateLoss, ResetState, Load,
         PhaseAB, Observe, Dispatch, EnterTesting, RunSandbox, ApplyLedgerWrites, SaveB,
         PhaseC, EnterPromoting, LoadGateResult, EvaluateGate, Inject, RemoveApproved,
         SubmitPrs, QueueDeferred, AppendMemory, DispatchFails
  <2>2. pc \notin {"metrics", "stats"} /\ pc' \notin {"morning", "metrics", "stats"}
    BY <1>8 DEF Startup, StartFresh, StartResume, RecordStateLoss, ResetState, Load,
         PhaseAB, Observe, Dispatch, EnterTesting, RunSandbox, ApplyLedgerWrites, SaveB,
         PhaseC, EnterPromoting, LoadGateResult, EvaluateGate, Inject, RemoveApproved,
         SubmitPrs, QueueDeferred, AppendMemory, DispatchFails
  <2> QED BY <1>1, <2>1, <2>2 DEF CountInv, Reports
<1>9. CASE (\E p \in Patches, v \in Verdicts : ApplyReviewDecision(p, v)) \/ UNCHANGED vars
  <2>1. UNCHANGED <<cum, morning, pc, run>>
    BY <1>9 DEF ApplyReviewDecision, vars
  <2> QED BY <1>1, <2>1 DEF CountInv, Reports, Promoted, OwnPatches, Cyc
<1> QED BY <1>2, <1>3, <1>4, <1>5, <1>6, <1>7, <1>8, <1>9 DEF Next, Runner, PhaseD

\* Between runs the lifetime counter is the number of promotions in the
\* reports: it is read before the report is written and written after it (runner 1555, 1861-1881).
THEOREM CounterMatchesReports ==
  ASSUME MaxCrashes = 0, ReviewDirPerRun = FALSE
  PROVE  Spec => []CumulativeMatchesReports
<1>1. Init => CountInv
  BY InitPlaces
<1>2. CountInv /\ [Next]_vars => CountInv'
  BY StepCount
<1>3. CountInv => CumulativeMatchesReports
  BY DEF CountInv, CumulativeMatchesReports, Reports
<1> QED BY <1>1, <1>2, <1>3, PTL DEF Spec

-----------------------------------------------------------------------------
(* The files of the ledger directory implement CycleLedger: every write     *)
(* maps to one of its steps or to none.                                      *)

\* A cycle is given up only when a later one takes its place.
RefInv == LedgerInv /\ \A c \in lost : c < born

\* The parts of the files that a cycle's stage and results are read from.
SameResults(c) ==
    /\ bck'[c].st = "saved" <=> bck[c].st = "saved"
    /\ cck'[c].st = "saved" <=> cck[c].st = "saved"
    /\ bck'[c].ver = bck[c].ver
    /\ cck'[c].promoted = cck[c].promoted
    /\ cck'[c].human = cck[c].human

LEMMA RefFacts ==
  ASSUME RefInv
  PROVE  /\ born \in Nat /\ lost \subseteq Cycles
         /\ \A c \in Cycles : c \in Nat
         /\ pc # "idle" => Cyc \in Cycles
BY DEF RefInv, LedgerInv, TypeInv, TypeOK, CycleIds, Cycles

\* No step of CycleLedger: the same cycles are at the same stage.
LEMMA SameStages ==
  ASSUME \A c \in Cycles : StageOf(c)' = StageOf(c) /\ SameResults(c)
  PROVE  UNCHANGED Ledger!vars
BY DEF Ledger!vars, SameResults

\* task_state.json and the list of lost cycles stay.
LEMMA StateKept ==
  ASSUME UNCHANGED <<tsm, lost>>, \A c \in Cycles : SameResults(c)
  PROVE  UNCHANGED Ledger!vars
<1>1. \A c \in Cycles : StageOf(c)' = StageOf(c)
  BY DEF StageOf, SameResults
<1> QED BY <1>1, SameStages

\* One cycle moves on, by its report or by being given up.
LEMMA OneReported ==
  ASSUME NEW c \in Cycles, StageOf(c) = "decided", StageOf(c)' = "reported",
         \A d \in Cycles : SameResults(d) /\ (d # c => StageOf(d)' = StageOf(d))
  PROVE  Ledger!Next
<1>1. Ledger!Report(c)
  BY DEF Ledger!Report, SameResults
<1> QED BY <1>1 DEF Ledger!Next

LEMMA OneLost ==
  ASSUME NEW c \in Cycles, StageOf(c) \in {"pending", "verified", "decided"},
         StageOf(c)' = "lost",
         \A d \in Cycles : SameResults(d) /\ (d # c => StageOf(d)' = StageOf(d))
  PROVE  Ledger!Next
<1>1. Ledger!Lose(c)
  BY DEF Ledger!Lose, SameResults
<1> QED BY <1>1 DEF Ledger!Next

LEMMA InitRefines == Init => RefInv /\ Ledger!Init
<1> SUFFICES ASSUME Init PROVE RefInv /\ Ledger!Init
  OBVIOUS
<1>1. RefInv
  BY InitLedger DEF Init, RefInv
<1>2. \A c \in Cycles : StageOf(c) = "pending"
  BY DEF Init, StageOf
<1>3. Ledger!Init
  BY <1>2 DEF Ledger!Init, Init, NoGate
<1> QED BY <1>1, <1>3

-----------------------------------------------------------------------------
(* Writing task_state.json.                                                  *)

\* A state is written over itself or over the state before it in a cycle, and
\* the cycle is not done.
LEMMA WriteInCycle ==
  ASSUME RefInv, NEW st \in {"HYPOTHESIZING", "TESTING", "PROMOTING", "TORN"}, WriteState(st),
         pc \in {"observe", "enterTesting", "enterPromoting", "finish"},
         UNCHANGED <<bck, cck>>
  PROVE  UNCHANGED <<lost, Ledger!vars>>
<1>1. /\ tsm'.st = st /\ tsm'.cyc = Cyc /\ Cyc \in Cycles
      /\ tsm.st \in {"OBSERVING", "HYPOTHESIZING", "TESTING", "PROMOTING"}
  BY DEF WriteState, RefInv, LedgerInv, TypeInv, CycleIds, StateFollows, InHypothesizing,
         InPromoting, AfterGate
<1>2. lost' = lost
  BY <1>1 DEF WriteState
<1>3. \/ bck[Cyc].st # "saved"
      \/ tsm.cyc = Cyc /\ tsm.st # "OBSERVING"
  BY DEF RefInv, LedgerInv, StateFollows, CheckpointsFollow, Untouched, InHypothesizing,
         InPromoting, AfterGate
<1>4. tsm.cyc = Cyc \/ tsm.st = "OBSERVING"
  BY DEF RefInv, LedgerInv, StateFollows, InHypothesizing, InPromoting, AfterGate
<1>5. \A c \in Cycles : StageOf(c)' = StageOf(c)
  BY <1>1, <1>2, <1>3, <1>4 DEF StageOf
<1> QED BY <1>2, <1>5, SameStages DEF SameResults

\* A fresh cycle takes the place of a state that could not be read.
LEMMA WriteAfterLoss ==
  ASSUME RefInv, NEW st \in {"OBSERVING", "TORN"}, WriteState(st), pc = "reset",
         UNCHANGED <<bck, cck>>
  PROVE  /\ Ledger!Next \/ UNCHANGED Ledger!vars
         /\ \A c \in lost' : c < born'
<1>1. /\ tsm'.st = st /\ tsm'.cyc = Cyc /\ Cyc \in Cycles /\ Cyc = born + 1
      /\ tsm.st \in {"NONE", "TORN"} /\ born \in Nat
      /\ tsm.st = "TORN" => tsm.cyc = born /\ born \in Cycles
  BY RefFacts DEF WriteState, RefInv, LedgerInv, TypeInv, CycleIds, StateFollows
<1>2. born' = Cyc
  BY <1>1 DEF WriteState
<1>3. bck[Cyc].st # "saved" /\ Cyc \notin lost /\ born \notin lost
  BY <1>1, RefFacts DEF RefInv, LedgerInv, CheckpointsFollow, Untouched
<1>4. \A c \in lost' : c < born'
  <2>1. \A c \in lost : c \in Nat /\ c < born
    BY RefFacts DEF RefInv
  <2>2. lost' \subseteq lost \cup {born}
    BY <1>1 DEF WriteState
  <2> QED BY <1>1, <1>2, <2>1, <2>2
<1>5. \A c \in Cycles : SameResults(c)
  BY DEF SameResults
<1>6. CASE tsm.st = "NONE"
  <2>1. lost' = lost /\ born = 0
    BY <1>6 DEF WriteState, RefInv, LedgerInv, StateFollows
  <2>2. \A c \in Cycles : bck[c].st # "saved"
    BY <2>1 DEF RefInv, LedgerInv, CheckpointsFollow, Untouched, Cycles
  <2>3. \A c \in Cycles : StageOf(c)' = StageOf(c)
    BY <2>1, <2>2 DEF StageOf
  <2> QED BY <1>4, <1>5, <2>3, SameStages
<1>7. CASE tsm.st = "TORN"
  <2>1. PICK b \in Cycles : b = born
    BY <1>1, <1>7
  <2>2. tsm.cyc = b /\ b \notin lost /\ b # Cyc
    BY <1>1, <1>3, <1>7, <2>1
  <2>3. \A d \in Cycles : d # b => StageOf(d)' = StageOf(d)
    BY <1>1, <1>3, <1>7, <2>2 DEF StageOf, WriteState
  <2>4. CASE morning[b].done
    <3>1. bck[b].st = "saved" /\ cck[b].st = "saved"
      BY <2>4 DEF RefInv, LedgerInv, CheckpointBacksState
    <3>2. lost' = lost
      BY <2>2, <2>4 DEF WriteState
    <3>3. StageOf(b) = "decided" /\ StageOf(b)' = "reported"
      BY <1>1, <1>7, <2>2, <3>1, <3>2 DEF StageOf
    <3> QED BY <1>4, <1>5, <2>3, <3>3, OneReported
  <2>5. CASE ~morning[b].done
    <3>1. b \in lost'
      BY <1>7, <2>2, <2>5 DEF WriteState
    <3>2. StageOf(b) \in {"pending", "verified", "decided"} /\ StageOf(b)' = "lost"
      BY <1>7, <2>2, <3>1 DEF StageOf
    <3> QED BY <1>4, <1>5, <2>3, <3>2, OneLost
  <2> QED BY <2>4, <2>5
<1> QED BY <1>1, <1>6, <1>7

-----------------------------------------------------------------------------
(* The steps that CycleLedger names.                                         *)

LEMMA SaveVerifies ==
  ASSUME RefInv, SaveB
  PROVE  Ledger!Next
<1>1. PICK c \in Cycles : c = Cyc
  BY RefFacts DEF SaveB, Step
<1>2. /\ tsm.st = "TESTING" /\ tsm.cyc = c /\ born = c
      /\ bck[c].st = "absent" /\ cck[c].st = "absent"
  BY <1>1 DEF RefInv, LedgerInv, StateFollows, CheckpointsFollow, InTesting, SaveB, Step
<1>3. \A d \in Cycles : d >= c => d \notin lost
  BY <1>2, RefFacts DEF RefInv
<1>4. \A d \in Cycles : d > c => bck[d].st = "absent"
  BY <1>2 DEF RefInv, LedgerInv, CheckpointsFollow, Untouched
<1>5. /\ UNCHANGED <<tsm, cck, lost>> /\ run.ver \in SUBSET Kind
      /\ bck'[c].st = "saved" /\ bck'[c].ver = run.ver
      /\ \A d \in Cycles : d # c => bck'[d] = bck[d]
  BY <1>1 DEF SaveB, history, RefInv, LedgerInv, TypeInv, TypeOK, Run
<1>6. StageOf(c) = "pending" /\ StageOf(c)' = "verified"
  BY <1>2, <1>3, <1>5, RefFacts DEF StageOf
<1>7. \A d \in Cycles : d # c => StageOf(d)' = StageOf(d)
  BY <1>5 DEF StageOf
<1>8. \A d \in Cycles : /\ StageOf(d) \notin {"verified", "decided"}
                        /\ d > c => StageOf(d) = "pending"
  BY <1>2, <1>3, <1>4, RefFacts DEF StageOf
<1>9. Ledger!Verify(c)
  BY <1>5, <1>6, <1>7, <1>8 DEF Ledger!Verify, Ledger!Open
<1> QED BY <1>9 DEF Ledger!Next

LEMMA EvaluateDecides ==
  ASSUME RefInv, EvaluateGate
  PROVE  Ledger!Next
<1>1. PICK c \in Cycles : c = Cyc
  BY RefFacts DEF EvaluateGate, Step
<1>2. /\ tsm.st = "PROMOTING" /\ tsm.cyc = c /\ born = c
      /\ bck[c].st = "saved" /\ bck[c].ver = run.ver /\ cck[c].st = "absent"
  BY <1>1 DEF RefInv, LedgerInv, StateFollows, CheckpointsFollow, InPromoting, EvaluateGate,
              Step
<1>3. c \notin lost
  BY <1>2, RefFacts DEF RefInv
<1>4. PICK open \in BOOLEAN : run' = [run EXCEPT !.gate = Evaluate(run.ver, open, cck[c].gen + 1)]
  BY <1>1 DEF EvaluateGate
<1> DEFINE g == Evaluate(run.ver, open, cck[c].gen + 1)
<1>5. g.st = "saved" /\ g.promoted \in SUBSET run.ver /\ g.human \in SUBSET (run.ver \ g.promoted)
  BY DEF Evaluate
<1>6. /\ UNCHANGED <<tsm, bck, lost>>
      /\ cck'[c] = g
      /\ \A d \in Cycles : d # c => cck'[d] = cck[d]
  BY <1>1, <1>4 DEF EvaluateGate, history, RefInv, LedgerInv, TypeInv, TypeOK, Run
<1> HIDE DEF g
<1>7. StageOf(c) = "verified" /\ StageOf(c)' = "decided"
  BY <1>2, <1>3, <1>5, <1>6 DEF StageOf
<1>8. \A d \in Cycles : d # c => StageOf(d)' = StageOf(d)
  BY <1>6 DEF StageOf
<1>9. Ledger!Decide(c)
  <2> DEFINE p == g.promoted
             h == g.human
  <2>1. p \in SUBSET bck[c].ver /\ h \in SUBSET (bck[c].ver \ p)
    BY <1>2, <1>5
  <2>2. cck'[c].promoted = p /\ cck'[c].human = h
    BY <1>6
  <2> HIDE DEF p, h
  <2>3. /\ [d \in Cycles |-> cck'[d].promoted] = [[d \in Cycles |-> cck[d].promoted] EXCEPT ![c] = p]
        /\ [d \in Cycles |-> cck'[d].human] = [[d \in Cycles |-> cck[d].human] EXCEPT ![c] = h]
    BY <1>6, <2>2
  <2>4. [d \in Cycles |-> StageOf(d)'] = [[d \in Cycles |-> StageOf(d)] EXCEPT ![c] = "decided"]
    BY <1>7, <1>8
  <2> QED BY <1>6, <1>7, <2>1, <2>3, <2>4 DEF Ledger!Decide
<1> QED BY <1>9 DEF Ledger!Next

LEMMA FinishReports ==
  ASSUME RefInv, Finish
  PROVE  Ledger!Next /\ lost' = lost
<1>1. PICK c \in Cycles : c = Cyc
  BY RefFacts DEF Finish, Step
<1>2. /\ tsm.st = "PROMOTING" /\ tsm.cyc = c /\ born = c
      /\ bck[c].st = "saved" /\ cck[c].st = "saved"
  BY <1>1 DEF RefInv, LedgerInv, StateFollows, CheckpointsFollow, CheckpointBacksState,
              InPromoting, AfterGate, Finish, Step
<1>3. c \notin lost
  BY <1>2, RefFacts DEF RefInv
<1>4. UNCHANGED <<bck, cck, lost>> /\ tsm'.st = "OBSERVING" /\ tsm'.cyc = c
  BY <1>1, <1>2 DEF Finish, WriteState, ckpts
<1>5. StageOf(c) = "decided" /\ StageOf(c)' = "reported"
  BY <1>2, <1>3, <1>4 DEF StageOf
<1>6. \A d \in Cycles : SameResults(d) /\ (d # c => StageOf(d)' = StageOf(d))
  BY <1>2, <1>4 DEF StageOf, SameResults
<1> QED BY <1>4, <1>5, <1>6, OneReported

-----------------------------------------------------------------------------
(* Every step.                                                               *)

\* A step does what CycleLedger allows and keeps the list of lost cycles apart.
Refines == /\ Ledger!Next \/ UNCHANGED Ledger!vars
           /\ \A c \in lost' : c < born'

LEMMA LostStaysBehind ==
  ASSUME RefInv, lost' = lost, born' \in Nat, born' >= born
  PROVE  \A c \in lost' : c < born'
BY RefFacts DEF RefInv

LEMMA NoLedgerStep ==
  ASSUME RefInv, UNCHANGED <<tsm, ckpts, lost, born>>
  PROVE  Refines
<1>1. \A c \in Cycles : SameResults(c)
  BY DEF ckpts, SameResults
<1> QED BY <1>1, StateKept DEF Refines, RefInv

LEMMA WriteInCycleRefines ==
  ASSUME RefInv, NEW st \in {"HYPOTHESIZING", "TESTING", "PROMOTING", "TORN"}, WriteState(st),
         pc \in {"observe", "enterTesting", "enterPromoting", "finish"}, UNCHANGED ckpts
  PROVE  Refines
<1>1. UNCHANGED <<bck, cck>>
  BY DEF ckpts
<1>2. born' \in Nat /\ born' >= born
  BY WriteStateFacts, RefFacts DEF RefInv, TaskStatus
<1> QED BY <1>1, <1>2, WriteInCycle, LostStaysBehind DEF Refines

LEMMA StepRefines == RefInv /\ [Next]_vars => RefInv' /\ [Ledger!Next]_Ledger!vars
<1> SUFFICES ASSUME RefInv, [Next]_vars PROVE RefInv' /\ [Ledger!Next]_Ledger!vars
  OBVIOUS
<1> USE DEF stores, ckpts, report, ledger, review, outside, history
<1>1. Refines
  <2>1. CASE Startup
    <3>1. CASE ResetState
      <4>1. pc = "reset" /\ WriteState("OBSERVING") /\ UNCHANGED <<bck, cck>>
        BY <3>1 DEF ResetState, Step
      <4> QED BY <4>1, WriteAfterLoss DEF Refines
    <3>2. CASE StartFresh \/ StartResume \/ RecordStateLoss \/ Load
      BY <3>2, NoLedgerStep DEF StartFresh, StartResume, RecordStateLoss, Load
    <3> QED BY <2>1, <3>1, <3>2 DEF Startup
  <2>2. CASE PhaseAB
    <3>1. CASE Observe
      BY <3>1, WriteInCycleRefines DEF Observe, Step
    <3>2. CASE EnterTesting
      BY <3>2, WriteInCycleRefines DEF EnterTesting, Step
    <3>3. CASE SaveB
      <4>1. lost' = lost /\ born' = born
        BY <3>3 DEF SaveB
      <4> QED BY <3>3, <4>1, SaveVerifies, RefFacts, LostStaysBehind DEF Refines
    <3>4. CASE Dispatch \/ RunSandbox \/ ApplyLedgerWrites
      BY <3>4, NoLedgerStep DEF Dispatch, RunSandbox, ApplyLedgerWrites
    <3> QED BY <2>2, <3>1, <3>2, <3>3, <3>4 DEF PhaseAB
  <2>3. CASE PhaseC
    <3>1. CASE EnterPromoting
      BY <3>1, WriteInCycleRefines DEF EnterPromoting, Step
    <3>2. CASE EvaluateGate
      <4>1. lost' = lost /\ born' = born
        BY <3>2 DEF EvaluateGate
      <4> QED BY <3>2, <4>1, EvaluateDecides, RefFacts, LostStaysBehind DEF Refines
    <3>3. CASE LoadGateResult \/ Inject \/ RemoveApproved
      BY <3>3, NoLedgerStep DEF LoadGateResult, Inject, RemoveApproved
    <3>4. CASE SubmitPrs \/ QueueDeferred \/ AppendMemory
      BY <3>4, NoLedgerStep DEF SubmitPrs, QueueDeferred, AppendMemory
    <3> QED BY <2>3, <3>1, <3>2, <3>3, <3>4 DEF PhaseC
  <2>4. CASE PhaseD
    <3>1. CASE Finish
      <4>1. pc = "finish" /\ WriteState("OBSERVING")
        BY <3>1 DEF Finish, Step
      <4>2. born' \in Nat /\ born' >= born
        BY <4>1, WriteStateFacts, RefFacts DEF RefInv, TaskStatus
      <4> QED BY <3>1, <4>2, FinishReports, LostStaysBehind DEF Refines
    <3>2. CASE Aggregate \/ WriteMorning \/ WriteMetrics \/ WriteStats
      BY <3>2, NoLedgerStep DEF Aggregate, WriteMorning, WriteMetrics, WriteStats
    <3>3. CASE WriteLineage \/ WriteAdaptation \/ UpdateRollback
      BY <3>3, NoLedgerStep DEF WriteLineage, WriteAdaptation, UpdateRollback
    <3> QED BY <2>4, <3>1, <3>2, <3>3 DEF PhaseD
  <2>5. CASE CrashInWrite
    <3>1. CASE TearState
      <4>1. CASE pc = "reset"
        <5>1. WriteState("TORN") /\ UNCHANGED <<bck, cck>>
          BY <3>1 DEF TearState
        <5> QED BY <4>1, <5>1, WriteAfterLoss DEF Refines
      <4>2. CASE pc # "reset"
        BY <3>1, <4>2, WriteInCycleRefines DEF TearState
      <4> QED BY <4>1, <4>2
    <3>2. CASE TearCheckpoint
      <4>1. UNCHANGED <<tsm, lost, born>>
        BY <3>2 DEF TearCheckpoint
      <4>2. \A c \in Cycles : SameResults(c)
        <5>1. /\ pc = "saveB" => bck[Cyc].st = "absent"
              /\ bck \in [Cycles -> [st : FileStatus, ver : SUBSET Kind]]
              /\ cck \in [Cycles -> GateResult]
          BY DEF RefInv, LedgerInv, CheckpointsFollow, TypeInv, TypeOK
        <5> QED BY <3>2, <5>1 DEF TearCheckpoint, SameResults, GateResult
      <4> QED BY <4>1, <4>2, StateKept, RefFacts, LostStaysBehind DEF Refines
    <3>3. CASE TearFile
      BY <3>3, NoLedgerStep DEF TearFile
    <3> QED BY <2>5, <3>1, <3>2, <3>3 DEF CrashInWrite
  <2>6. CASE Abort \/ DispatchFails \/ Crash
    BY <2>6, NoLedgerStep DEF Abort, DispatchFails, Crash
  <2>7. CASE \E p \in Patches, v \in Verdicts : ApplyReviewDecision(p, v)
    BY <2>7, NoLedgerStep DEF ApplyReviewDecision
  <2>8. CASE UNCHANGED vars
    BY <2>8, NoLedgerStep DEF vars
  <2> QED BY <2>1, <2>2, <2>3, <2>4, <2>5, <2>6, <2>7, <2>8 DEF Next, Runner
<1>2. LedgerInv'
  BY StepLedger DEF RefInv
<1> QED BY <1>1, <1>2 DEF Refines, RefInv

\* The files implement the promise of CycleLedger through every crash, torn
\* write and resume: cycles are verified one at a time and in order, each is
\* decided once, and each leaves by its report or is given up for good
\* (runner 1225-1381, phase_d_morning_result.ts writeMorningResult).
THEOREM LedgerImplements == Spec => ImplementsCycleLedger
<1>1. Init => RefInv /\ Ledger!Init
  BY InitRefines
<1>2. RefInv /\ [Next]_vars => RefInv' /\ [Ledger!Next]_Ledger!vars
  BY StepRefines
<1> QED BY <1>1, <1>2, PTL DEF Spec, ImplementsCycleLedger, Ledger!Spec

=============================================================================
