---------------------------- MODULE NightlyCycle ----------------------------
(***************************************************************************)
(* The nightly controller, tools/nightly_loop_runner.ts: runNightlyLoop    *)
(* over a FilesystemLedgerStore, with the human review store, the drift    *)
(* monitor and the PR submitter it calls.                                  *)
(*                                                                         *)
(* One process runs at a time.  Each action is one write to disk (or one   *)
(* external call) together with the computation that leads to it; pc names *)
(* the next one.  What the process holds in memory is pc and run; a crash  *)
(* resets both and leaves the stores as they are.  writeFileSync is not    *)
(* atomic, so with TornWrites a crash may also leave the file being        *)
(* written unparsable.                                                     *)
(***************************************************************************)
EXTENDS Integers, FiniteSets, Sequences

CONSTANTS
    MaxCycles,        \* bound: cycles, each with the id randomUUID() gave it
    MaxCrashes,       \* bound: crashes of the runner process
    Batches,          \* sets of patch kinds one LLM answer may hold
    LineageMax,       \* entries kept in cycle_lineage.json (7 in the code)
    TornWrites,       \* may a crash leave the file being written unparsable?
    LLMMayFail,       \* may the dispatcher throw?
    ReviewDirPerRun   \* is the review store created in the run's directory?

\* A patch is told apart by the two attributes the gates of Phase C look at:
\* blast radius GLOBAL, and a negative stability_index_delta.
Kind == {"self", "global", "negative"}

ASSUME BoundsAssumption == MaxCycles \in Nat \ {0} /\ MaxCrashes \in Nat
ASSUME BatchesAssumption == Batches \subseteq SUBSET Kind
ASSUME LineageAssumption == LineageMax \in Nat \ {0}
ASSUME SwitchAssumption == {TornWrites, LLMMayFail, ReviewDirPerRun} \subseteq BOOLEAN

Cycles == 1 .. MaxCycles
Patches == Cycles \X Kind
TaskStatus == {"OBSERVING", "HYPOTHESIZING", "TESTING", "PROMOTING"}
DriftStatus == {"none", "clear", "blocked"}
FileStatus == {"absent", "torn", "saved"}
Verdicts == {"APPROVE", "REJECT"}

\* The JSON files of the ledger directory that are read back, beside
\* task_state.json and the checkpoints, which carry their own status.
Files == {"ledger", "metrics", "stats", "lineage", "adaptation", "rollback"}

\* bound: appends are counted up to "more than once"; a cycle that fails in
\* aggregation every night would append every night.
AppendCap == 2

Steps == {"idle", "stateLoss", "reset", "load", "observe", "dispatch",
          "enterTesting", "sandbox", "ledgerWrites", "saveB", "enterPromoting",
          "gate", "inject", "remove", "pr", "queue", "memory", "aggregate",
          "morning", "metrics", "stats", "lineage", "adaptation", "rollback",
          "finish"}

VARIABLES
    \* the ledger directory
    tsm,        \* task_state.json
    bck,        \* checkpoints/phase_b_<id>.json
    cck,        \* checkpoints/phase_c_<id>.json
    morning,    \* morning_results/morning_result_<id>.json
    cum,        \* cumulative_stats.json: promoted_skill_count
    lineage,    \* cycle_lineage.json, newest first
    latest,     \* latest_drift_adaptation.json
    rollback,   \* active_rollback.json exists
    f011,       \* failure_ledger.json: occurrence_count of F-011
    rejCount,   \* failure_ledger.json: times a cycle's rejections were added
    torn,       \* the other files left unparsable
    \* other stores
    drift,      \* what the drift monitor's state directory says
    approved,   \* approved_pending.json
    reviewQ,    \* review_queue.json
    memory,     \* adaptation_memory.jsonl: appends made for a cycle
    prs,        \* branches handed to git: <<cycle, kind, skill generation>>
    \* the runner process
    pc, run,
    \* counters and history
    born,       \* cycle ids written to task_state.json so far
    crashes,
    lost,       \* cycles given up because task_state.json was unreadable
    decided     \* the decisions humans made on a patch

ckpts == <<bck, cck>>
report == <<morning, cum, lineage, latest, rollback>>
ledger == <<f011, rejCount, torn>>
review == <<approved, reviewQ>>
outside == <<drift, memory, prs>>
stores == <<tsm, ckpts, report, ledger, review, outside>>
history == <<born, crashes, lost, decided>>
vars == <<stores, pc, run, history>>

NoGate == [st |-> "absent", gen |-> 0, promoted |-> {}, human |-> {}]
NoRun == [cyc |-> 0, from |-> "OBSERVING", ver |-> {}, gate |-> NoGate,
          extra |-> {}, todo |-> {}, ceiling |-> FALSE, before |-> 0]

GateResult == [st : FileStatus, gen : Nat, promoted : SUBSET Kind, human : SUBSET Kind]

Run == [cyc : 0 .. MaxCycles, from : TaskStatus, ver : SUBSET Kind, gate : GateResult,
        extra : SUBSET Patches, todo : SUBSET Patches, ceiling : BOOLEAN, before : Nat]

(* Every file holds what its writer puts there and every local of the runner  *)
(* is in its range.                                                           *)
TypeOK ==
    /\ tsm \in [st : TaskStatus \cup {"NONE", "TORN"}, cyc : 0 .. MaxCycles]
    /\ bck \in [Cycles -> [st : FileStatus, ver : SUBSET Kind]]
    /\ cck \in [Cycles -> GateResult]
    /\ morning \in [Cycles -> [done : BOOLEAN, promoted : SUBSET Patches, drift : DriftStatus]]
    /\ cum \in Nat
    /\ lineage \in Seq(Cycles)
    /\ latest \in DriftStatus
    /\ rollback \in BOOLEAN
    /\ f011 \in Nat
    /\ rejCount \in [Cycles -> Nat]
    /\ torn \subseteq Files
    /\ drift \in DriftStatus
    /\ approved \subseteq Patches
    /\ reviewQ \subseteq Patches
    /\ memory \in [Cycles -> 0 .. AppendCap]
    /\ prs \subseteq Cycles \X Kind \X Nat
    /\ pc \in Steps
    /\ run \in Run
    /\ born \in 0 .. MaxCycles
    /\ crashes \in 0 .. MaxCrashes
    /\ lost \subseteq Cycles
    /\ decided \in [Patches -> SUBSET Verdicts]

Init ==
    /\ tsm = [st |-> "NONE", cyc |-> 0]
    /\ bck = [c \in Cycles |-> [st |-> "absent", ver |-> {}]]
    /\ cck = [c \in Cycles |-> NoGate]
    /\ morning = [c \in Cycles |-> [done |-> FALSE, promoted |-> {}, drift |-> "none"]]
    /\ cum = 0
    /\ lineage = <<>>
    /\ latest = "none"
    /\ rollback = FALSE
    /\ f011 = 0
    /\ rejCount = [c \in Cycles |-> 0]
    /\ torn = {}
    /\ drift = "none"
    /\ approved = {}
    /\ reviewQ = {}
    /\ memory = [c \in Cycles |-> 0]
    /\ prs = {}
    /\ pc = "idle"
    /\ run = NoRun
    /\ born = 0
    /\ crashes = 0
    /\ lost = {}
    /\ decided = [p \in Patches |-> {}]

Cyc == run.cyc

\* JSON.parse throws on a torn file; a missing one reads as the default.
Readable(files) == torn \cap files = {}

\* One step of the runner: it is at `here`, and the next write is at `there`.
Step(here, there) == pc = here /\ pc' = there

-----------------------------------------------------------------------------
(* Startup: the restart recovery protocol of resumeFromTaskStateMachine.     *)

\* The review store of the composition is built in the new run's directory
\* (ReviewDirPerRun), or it is one store shared by all runs.
OpenReviewStore ==
    IF ReviewDirPerRun THEN approved' = {} /\ reviewQ' = {} ELSE UNCHANGED review

\* Mutant: a fresh cycle takes the id found in the record instead of a new one.
StartFresh_ReusesId ==
    /\ pc = "idle"
    /\ \/ tsm.st = "TORN" /\ pc' = "stateLoss"
       \/ tsm.st = "NONE" /\ pc' = "reset"
       \/ tsm.st = "OBSERVING" /\ pc' = "load"
    /\ born < MaxCycles
    /\ run' = [NoRun EXCEPT !.cyc = IF tsm.cyc > 0 THEN tsm.cyc ELSE born + 1]
    /\ OpenReviewStore
    /\ UNCHANGED <<tsm, ckpts, report, ledger, outside, history>>

StartFresh ==
    /\ pc = "idle"
    /\ \/ tsm.st = "TORN" /\ pc' = "stateLoss"
       \/ tsm.st = "NONE" /\ pc' = "reset"
       \/ tsm.st = "OBSERVING" /\ pc' = "load"
    /\ born < MaxCycles
    /\ run' = [NoRun EXCEPT !.cyc = born + 1]
    /\ OpenReviewStore
    /\ UNCHANGED <<tsm, ckpts, report, ledger, outside, history>>

StartResume ==
    /\ Step("idle", "load")
    /\ tsm.st \in {"HYPOTHESIZING", "TESTING", "PROMOTING"}
    /\ run' = [NoRun EXCEPT !.cyc = tsm.cyc, !.from = tsm.st]
    /\ OpenReviewStore
    /\ UNCHANGED <<tsm, ckpts, report, ledger, outside, history>>

\* incrementFailureLedgerCode reads the ledger first; its error is swallowed.
RecordStateLoss ==
    /\ Step("stateLoss", "reset")
    /\ f011' = IF Readable({"ledger"}) THEN f011 + 1 ELSE f011
    /\ UNCHANGED <<tsm, ckpts, report, rejCount, torn, review, outside, run, history>>

\* A fresh id is used up once it is on disk.  Writing over an unreadable state
\* gives up the cycle it belonged to, unless that one was reported.
WriteState(status) ==
    /\ tsm' = [st |-> status, cyc |-> Cyc]
    /\ born' = IF Cyc > born THEN Cyc ELSE born
    /\ lost' = IF tsm.st = "TORN" /\ ~morning[tsm.cyc].done
                 THEN lost \cup {tsm.cyc} ELSE lost

ResetState ==
    /\ Step("reset", "load")
    /\ WriteState("OBSERVING")
    /\ UNCHANGED <<ckpts, report, ledger, review, outside, run, crashes, decided>>

\* Mutants: TESTING without a checkpoint runs Phase B again; the ceiling is read
\* for fresh cycles only; PROMOTING is resumed only with a saved decision.
Load_RerunsSandbox ==
    /\ pc = "load"
    /\ Readable({"adaptation"})
    /\ run' = [run EXCEPT !.ceiling = (latest = "blocked"), !.ver = bck[Cyc].ver]
    /\ \/ run.from \in {"OBSERVING", "HYPOTHESIZING"} /\ pc' = "observe"
       \/ /\ run.from \in {"TESTING", "PROMOTING"}
          /\ pc' = IF bck[Cyc].st = "saved" THEN "enterPromoting" ELSE "sandbox"
    /\ UNCHANGED <<stores, history>>

Load_CeilingIfFresh ==
    /\ pc = "load"
    /\ Readable({"adaptation"})
    /\ run' = [run EXCEPT !.ceiling = (run.from = "OBSERVING" /\ latest = "blocked"),
                          !.ver = bck[Cyc].ver]
    /\ \/ run.from \in {"OBSERVING", "HYPOTHESIZING"} /\ pc' = "observe"
       \/ /\ run.from \in {"TESTING", "PROMOTING"}
          /\ bck[Cyc].st = "saved"
          /\ pc' = "enterPromoting"
    /\ UNCHANGED <<stores, history>>

Load_NeedsDecision ==
    /\ pc = "load"
    /\ Readable({"adaptation"})
    /\ run' = [run EXCEPT !.ceiling = (latest = "blocked"), !.ver = bck[Cyc].ver]
    /\ \/ run.from \in {"OBSERVING", "HYPOTHESIZING"} /\ pc' = "observe"
       \/ /\ run.from \in {"TESTING", "PROMOTING"}
          /\ bck[Cyc].st = "saved"
          /\ run.from = "PROMOTING" => cck[Cyc].st = "saved"
          /\ pc' = "enterPromoting"
    /\ UNCHANGED <<stores, history>>

\* The previous cycle's drift adaptation is read on every start, the Phase B
\* checkpoint on a resume from TESTING or PROMOTING.
Load ==
    /\ pc = "load"
    /\ Readable({"adaptation"})
    /\ \/ /\ run.from \in {"OBSERVING", "HYPOTHESIZING"}
          /\ pc' = "observe"
          /\ run' = [run EXCEPT !.ceiling = (latest = "blocked")]
       \/ /\ run.from \in {"TESTING", "PROMOTING"}
          /\ bck[Cyc].st = "saved"
          /\ pc' = "enterPromoting"
          /\ run' = [run EXCEPT !.ceiling = (latest = "blocked"), !.ver = bck[Cyc].ver]
    /\ UNCHANGED <<stores, history>>

-----------------------------------------------------------------------------
(* OBSERVING, HYPOTHESIZING and TESTING: Phases A and B.                     *)

Observe ==
    /\ Step("observe", "dispatch")
    /\ Readable({"lineage", "ledger", "rollback"})
    /\ WriteState("HYPOTHESIZING")
    /\ UNCHANGED <<ckpts, report, ledger, review, outside, run, crashes, decided>>

\* The call to the LLM, made anew by every run that comes here.
Dispatch ==
    /\ Step("dispatch", "enterTesting")
    /\ UNCHANGED <<stores, run, history>>

\* The dispatcher throws: the run ends and task_state.json stays as it is.
DispatchFails ==
    /\ LLMMayFail
    /\ Step("dispatch", "idle")
    /\ run' = NoRun
    /\ UNCHANGED <<stores, history>>

EnterTesting ==
    /\ Step("enterTesting", "sandbox")
    /\ WriteState("TESTING")
    /\ UNCHANGED <<ckpts, report, ledger, review, outside, run, crashes, decided>>

\* runPhaseBBatch: the blast-radius ceiling rejects GLOBAL candidates before
\* the sandbox; closing a sandbox records its measurement in the drift state.
RunSandbox ==
    /\ Step("sandbox", "ledgerWrites")
    /\ Readable({"ledger"})
    /\ \E batch \in Batches :
          run' = [run EXCEPT !.ver = IF run.ceiling THEN batch \ {"global"} ELSE batch]
    /\ drift' \in {drift, "clear", "blocked"}
    /\ UNCHANGED <<tsm, ckpts, report, ledger, review, memory, prs, history>>

ApplyLedgerWrites ==
    /\ Step("ledgerWrites", "saveB")
    /\ Readable({"ledger"})
    /\ rejCount' = [rejCount EXCEPT ![Cyc] = @ + 1]
    /\ UNCHANGED <<tsm, ckpts, report, f011, torn, review, outside, run, history>>

\* Mutant: nothing is saved when nothing was verified.
SaveB_SkipsEmpty ==
    /\ Step("saveB", "enterPromoting")
    /\ bck' = IF run.ver = {} THEN bck
              ELSE [bck EXCEPT ![Cyc] = [st |-> "saved", ver |-> run.ver]]
    /\ UNCHANGED <<tsm, cck, report, ledger, review, outside, run, history>>

SaveB ==
    /\ Step("saveB", "enterPromoting")
    /\ bck' = [bck EXCEPT ![Cyc] = [st |-> "saved", ver |-> run.ver]]
    /\ UNCHANGED <<tsm, cck, report, ledger, review, outside, run, history>>

EnterPromoting ==
    /\ Step("enterPromoting", "gate")
    /\ WriteState("PROMOTING")
    /\ UNCHANGED <<ckpts, report, ledger, review, outside, run, crashes, decided>>

-----------------------------------------------------------------------------
(* PROMOTING: Phase C, human approvals, pull requests, review queue, memory. *)

\* Mutant: P-01 is not evaluated.
PatchGate_StabilityOnly(k) == IF k = "negative" THEN "DEFERRED_STABILITY" ELSE "PROMOTED"

\* evaluatePatchGate: P-01 before P-02.
PatchGate(k) ==
    CASE k = "global" -> "DEFERRED_HUMAN"
      [] k = "negative" -> "DEFERRED_STABILITY"
      [] OTHER -> "PROMOTED"

\* runPhaseCPromotion: a closed system gate defers every patch for stability.
\* Every evaluation gives its skills fresh ids (generation gen).
Evaluate(ver, open, gen) ==
    [st |-> "saved", gen |-> gen,
     promoted |-> {k \in ver : open /\ PatchGate(k) = "PROMOTED"},
     human |-> {k \in ver : open /\ PatchGate(k) = "DEFERRED_HUMAN"}]

\* Mutant: the skills of a reloaded decision get fresh ids.
LoadGateResult_FreshIds ==
    /\ Step("gate", "inject")
    /\ run.from = "PROMOTING"
    /\ cck[Cyc].st = "saved"
    /\ run' = [run EXCEPT !.gate = [cck[Cyc] EXCEPT !.gen = @ + 1]]
    /\ UNCHANGED <<stores, history>>

LoadGateResult ==
    /\ Step("gate", "inject")
    /\ run.from = "PROMOTING"
    /\ cck[Cyc].st = "saved"
    /\ run' = [run EXCEPT !.gate = cck[Cyc]]
    /\ UNCHANGED <<stores, history>>

\* Mutant: blocking drift has no result of its own.
EvaluateGate_NoBypass ==
    /\ Step("gate", "inject")
    /\ run.from = "PROMOTING" => cck[Cyc].st = "absent"
    /\ drift # "blocked"
    /\ \E open \in BOOLEAN :
          run' = [run EXCEPT !.gate = Evaluate(run.ver, open, cck[Cyc].gen + 1)]
    /\ cck' = [cck EXCEPT ![Cyc] = run'.gate]
    /\ UNCHANGED <<tsm, bck, report, ledger, review, outside, history>>

\* Drift that blocks promotion stands for a closed gate; otherwise the caller's
\* system snapshot decides.
EvaluateGate ==
    /\ Step("gate", "inject")
    /\ run.from = "PROMOTING" => cck[Cyc].st = "absent"
    /\ \E open \in BOOLEAN :
          /\ drift = "blocked" => ~open
          /\ run' = [run EXCEPT !.gate = Evaluate(run.ver, open, cck[Cyc].gen + 1)]
    /\ cck' = [cck EXCEPT ![Cyc] = run'.gate]
    /\ UNCHANGED <<tsm, bck, report, ledger, review, outside, history>>

OwnPatches(kinds) == {Cyc} \X kinds
Promoted == OwnPatches(run.gate.promoted) \cup run.extra

\* An approved patch is promoted when the checkpoint of the cycle it comes
\* from still holds it; every entry read is removed from the list.
Inject ==
    /\ Step("inject", IF approved = {} THEN "pr" ELSE "remove")
    /\ run' = [run EXCEPT !.todo = approved,
                          !.extra = {p \in approved : /\ bck[p[1]].st = "saved"
                                                      /\ p[2] \in bck[p[1]].ver}]
    /\ UNCHANGED <<stores, history>>

RemoveApproved ==
    /\ pc = "remove"
    /\ \E p \in run.todo :
          /\ approved' = approved \ {p}
          /\ run' = [run EXCEPT !.todo = @ \ {p}]
          /\ pc' = IF run.todo = {p} THEN "pr" ELSE "remove"
    /\ UNCHANGED <<tsm, ckpts, report, ledger, reviewQ, outside, history>>

\* submitPromotedSkills walks gate_results, so only Phase C's own promotions
\* get a branch; its name comes from the cycle id and the skill id.
SubmitPrs ==
    /\ Step("pr", "queue")
    /\ prs' = IF Promoted = {} THEN prs
               ELSE prs \cup ({Cyc} \X run.gate.promoted \X {run.gate.gen})
    /\ UNCHANGED <<tsm, ckpts, report, ledger, review, drift, memory, run, history>>

QueueDeferred ==
    /\ Step("queue", "memory")
    /\ reviewQ' = reviewQ \cup OwnPatches(run.gate.human)
    /\ UNCHANGED <<tsm, ckpts, report, ledger, approved, outside, run, history>>

AppendMemory ==
    /\ Step("memory", "aggregate")
    /\ memory' = IF Promoted = {} \/ memory[Cyc] = AppendCap THEN memory
                  ELSE [memory EXCEPT ![Cyc] = @ + 1]
    /\ UNCHANGED <<tsm, ckpts, report, ledger, review, drift, prs, run, history>>

-----------------------------------------------------------------------------
(* Phase D: aggregation and the writes of writeMorningResult.                *)

Aggregate ==
    /\ Step("aggregate", "morning")
    /\ Readable({"ledger", "metrics", "stats", "lineage"})
    /\ run' = [run EXCEPT !.before = cum]
    /\ UNCHANGED <<stores, history>>

WriteMorning ==
    /\ Step("morning", "metrics")
    /\ morning' = [morning EXCEPT ![Cyc] =
                     [done |-> TRUE, promoted |-> Promoted, drift |-> drift]]
    /\ UNCHANGED <<tsm, ckpts, cum, lineage, latest, rollback, ledger, review, outside, run, history>>

WriteMetrics ==
    /\ Step("metrics", "stats")
    /\ UNCHANGED <<stores, run, history>>

\* Mutant: approved patches are not counted.
WriteStats_OwnOnly ==
    /\ Step("stats", "lineage")
    /\ cum' = run.before + Cardinality(run.gate.promoted)
    /\ UNCHANGED <<tsm, ckpts, morning, lineage, latest, rollback, ledger, review, outside, run, history>>

WriteStats ==
    /\ Step("stats", "lineage")
    /\ cum' = run.before + Cardinality(Promoted)
    /\ UNCHANGED <<tsm, ckpts, morning, lineage, latest, rollback, ledger, review, outside, run, history>>

Prepend(c, s) ==
    IF Len(s) < LineageMax THEN <<c>> \o s ELSE <<c>> \o SubSeq(s, 1, LineageMax - 1)

WriteLineage ==
    /\ Step("lineage", "adaptation")
    /\ lineage' = Prepend(Cyc, lineage)
    /\ UNCHANGED <<tsm, ckpts, morning, cum, latest, rollback, ledger, review, outside, run, history>>

WriteAdaptation ==
    /\ Step("adaptation", "rollback")
    /\ latest' = IF drift = "none" THEN latest ELSE drift
    /\ UNCHANGED <<tsm, ckpts, morning, cum, lineage, rollback, ledger, review, outside, run, history>>

\* Mutant: a record is written but never cleared.
UpdateRollback_NeverClears ==
    /\ Step("rollback", "finish")
    /\ rollback' = (rollback \/ drift = "blocked")
    /\ torn' = torn \ {"rollback"}
    /\ UNCHANGED <<tsm, ckpts, morning, cum, lineage, latest, f011, rejCount, review, outside, run, history>>

\* Writes or removes the whole file, so a torn one is repaired.
UpdateRollback ==
    /\ Step("rollback", "finish")
    /\ rollback' = (drift = "blocked")
    /\ torn' = torn \ {"rollback"}
    /\ UNCHANGED <<tsm, ckpts, morning, cum, lineage, latest, f011, rejCount, review, outside, run, history>>

\* Mutant: final_phase is written, which is no state of the state machine.
Finish_FinalPhase ==
    /\ Step("finish", "idle")
    /\ WriteState("AGGREGATING")
    /\ run' = NoRun
    /\ UNCHANGED <<ckpts, report, ledger, review, outside, crashes, decided>>

Finish ==
    /\ Step("finish", "idle")
    /\ WriteState("OBSERVING")
    /\ run' = NoRun
    /\ UNCHANGED <<ckpts, report, ledger, review, outside, crashes, decided>>

-----------------------------------------------------------------------------
(* Failures, crashes and the human reviewer.                                 *)

\* A read that throws, or a checkpoint that is missing.
Unreadable ==
    \/ pc = "load" /\ ~Readable({"adaptation"})
    \/ /\ pc = "load"
       /\ run.from \in {"TESTING", "PROMOTING"}
       /\ bck[Cyc].st # "saved"
    \/ pc = "observe" /\ ~Readable({"lineage", "ledger", "rollback"})
    \/ pc \in {"sandbox", "ledgerWrites"} /\ ~Readable({"ledger"})
    \/ pc = "gate" /\ run.from = "PROMOTING" /\ cck[Cyc].st = "torn"
    \/ pc = "aggregate" /\ ~Readable({"ledger", "metrics", "stats", "lineage"})

\* The catch block: the error is logged, task_state.json is not touched.
Abort ==
    /\ Unreadable
    /\ pc' = "idle"
    /\ run' = NoRun
    /\ UNCHANGED <<stores, history>>

Die ==
    /\ pc # "idle"
    /\ crashes < MaxCrashes
    /\ crashes' = crashes + 1
    /\ pc' = "idle"
    /\ run' = NoRun
    /\ UNCHANGED decided

Crash == Die /\ UNCHANGED <<stores, born, lost>>

\* The crash comes in the middle of the write the runner is at.  A torn tsm
\* keeps the id that was being written, for the history only.
TearState ==
    /\ pc \in {"reset", "observe", "enterTesting", "enterPromoting", "finish"}
    /\ WriteState("TORN")
    /\ UNCHANGED <<ckpts, report, ledger>>

TearCheckpoint ==
    /\ \/ /\ pc = "saveB"
          /\ bck' = [bck EXCEPT ![Cyc].st = "torn"]
          /\ UNCHANGED cck
       \/ /\ pc = "gate" /\ cck[Cyc].st = "absent"
          /\ cck' = [cck EXCEPT ![Cyc].st = "torn"]
          /\ UNCHANGED bck
    /\ UNCHANGED <<tsm, report, ledger, born, lost>>

TearFile ==
    /\ \/ pc \in {"metrics", "stats", "lineage"} /\ torn' = torn \cup {pc}
       \/ pc \in {"stateLoss", "ledgerWrites"} /\ torn' = torn \cup {"ledger"}
       \/ pc = "adaptation" /\ drift # "none" /\ torn' = torn \cup {pc}
       \/ pc = "rollback" /\ drift = "blocked" /\ torn' = torn \cup {pc}
    /\ UNCHANGED <<tsm, ckpts, report, f011, rejCount, born, lost>>

CrashInWrite ==
    /\ TornWrites
    /\ Die
    /\ TearState \/ TearCheckpoint \/ TearFile
    /\ UNCHANGED <<review, outside>>

\* applyReviewDecision, from another process, on a patch in the queue.
ApplyReviewDecision(p, v) ==
    /\ p \in reviewQ
    /\ reviewQ' = reviewQ \ {p}
    /\ approved' = IF v = "APPROVE" THEN approved \cup {p} ELSE approved
    /\ decided' = [decided EXCEPT ![p] = @ \cup {v}]
    /\ UNCHANGED <<tsm, ckpts, report, ledger, outside, pc, run, born, crashes, lost>>

-----------------------------------------------------------------------------
Startup == StartFresh \/ StartResume \/ RecordStateLoss \/ ResetState \/ Load
PhaseAB == Observe \/ Dispatch \/ EnterTesting \/ RunSandbox \/ ApplyLedgerWrites \/ SaveB
PhaseC == EnterPromoting \/ LoadGateResult \/ EvaluateGate \/ Inject \/ RemoveApproved
          \/ SubmitPrs \/ QueueDeferred \/ AppendMemory
PhaseD == Aggregate \/ WriteMorning \/ WriteMetrics \/ WriteStats \/ WriteLineage
          \/ WriteAdaptation \/ UpdateRollback \/ Finish

Runner == Startup \/ PhaseAB \/ PhaseC \/ PhaseD \/ Abort

Next ==
    \/ Runner
    \/ DispatchFails
    \/ Crash
    \/ CrashInWrite
    \/ \E p \in Patches, v \in Verdicts : ApplyReviewDecision(p, v)

(* The loop is invoked again, night after night, and a running process takes *)
(* its next step; a crash, a failing LLM call and a human decision owe       *)
(* nothing.                                                                  *)
Spec == Init /\ [][Next]_vars /\ WF_vars(Runner)

-----------------------------------------------------------------------------
(* Safety                                                                    *)

\* What a resume will look for is there: a cycle that reached PROMOTING has a
\* whole Phase B checkpoint, a gate decision was taken from one, and a report
\* was written from a saved decision (the order of the writes at 1288, 1292,
\* 1356/1377 and 1629).
CheckpointBacksState ==
    /\ tsm.st = "PROMOTING" => bck[tsm.cyc].st = "saved"
    /\ \A c \in Cycles :
          /\ cck[c].st # "absent" => bck[c].st = "saved"
          /\ morning[c].done => cck[c].st = "saved"

\* A checkpoint once saved is never replaced by another result, whatever
\* crashes and resumes follow: no re-run of Phase B or C decides differently.
DecisionFinal ==
    [][\A c \in Cycles : /\ bck[c].st = "saved" => bck'[c] = bck[c]
                         /\ cck[c].st = "saved" => cck'[c] = cck[c]]_vars

\* No patch is submitted under two branch names: a resumed cycle reuses the
\* skill ids of the decision it saved.
OnePrPerPatch ==
    \A x, y \in prs : x[1] = y[1] /\ x[2] = y[2] => x = y

\* The failure ledger counts the rejections of a cycle at most once.
RejectionsCountedOnce == \A c \in Cycles : rejCount[c] <= 1

\* When the last reported cycle saw promotion blocked by drift, the next
\* cycle's sandbox accepts no GLOBAL patch, also when that cycle is resumed.
CeilingHonoured ==
    [][pc = "sandbox" /\ pc' = "ledgerWrites" /\ lineage # <<>>
         => (morning[Head(lineage)].drift = "blocked" => "global" \notin run'.ver)]_vars

\* Between runs, recovery targets are on disk exactly when the last reported
\* cycle saw blocking drift: they are neither missed nor left behind.
RollbackMatchesDrift ==
    pc = "idle" /\ tsm.st = "OBSERVING" /\ lineage # <<>>
        => (rollback <=> morning[Head(lineage)].drift = "blocked")

\* Every promotion a report shows was verified by a sandbox, did not lower the
\* stability index, and has a human's approval when its blast radius is GLOBAL.
PromotionJustified ==
    \A c \in Cycles : \A p \in morning[c].promoted :
        /\ p[2] \in bck[p[1]].ver
        /\ p[2] # "negative"
        /\ p[2] = "global" => "APPROVE" \in decided[p]

\* The lifetime counter is the number of promotions in the reports.
CumulativeMatchesReports ==
    pc = "idle" =>
        cum = Cardinality({x \in Cycles \X Patches : x[2] \in morning[x[1]].promoted})

\* The runner says of approvals (1381-1383) that patches deferred to a human and
\* then approved "are promoted here": an approval waits in the list, is being
\* worked on, or has been reported.  The composition does not keep this: each run
\* opens a review store of its own (phase14_live_fire.ts 727).
ApprovalPromoted ==
    \A p \in Patches : "APPROVE" \in decided[p] =>
        p \in approved \cup run.extra \cup UNION {morning[c].promoted : c \in Cycles}

\* The runner says of pull requests (388-389) that "each PROMOTED patch is
\* submitted": every promotion a report shows went to git.  Promotions that come
\* from a human's approval do not.
PromotedHasPr ==
    \A c \in Cycles : \A p \in morning[c].promoted : \E x \in prs : <<x[1], x[2]>> = p

-----------------------------------------------------------------------------
(* Liveness                                                                  *)

\* A cycle interrupted in PROMOTING is resumed, night after night, until it is
\* done.
PromotingFinishes == (tsm.st = "PROMOTING") ~> (tsm.st = "OBSERVING")

\* A cycle whose candidates reached the sandbox is reported.
TestedCycleReported ==
    \A c \in Cycles : (tsm.st = "TESTING" /\ tsm.cyc = c) ~> morning[c].done

-----------------------------------------------------------------------------
(* The ledger implements CycleLedger.                                        *)

StageOf(c) ==
    IF c \in lost THEN "lost"
    ELSE IF bck[c].st # "saved" THEN "pending"
    ELSE IF tsm.cyc # c \/ tsm.st = "OBSERVING" THEN "reported"
    ELSE IF cck[c].st = "saved" THEN "decided"
    ELSE "verified"

Ledger == INSTANCE CycleLedger WITH
    stage    <- [c \in Cycles |-> StageOf(c)],
    verified <- [c \in Cycles |-> bck[c].ver],
    promoted <- [c \in Cycles |-> cck[c].promoted],
    deferred <- [c \in Cycles |-> cck[c].human]

\* Crashes and resumes never undo or redo what CycleLedger allows once.
ImplementsCycleLedger == Ledger!Spec

=============================================================================
