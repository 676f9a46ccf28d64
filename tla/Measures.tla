------------------------------ MODULE Measures ------------------------------
(***************************************************************************)
(* What the nights of a controller measure, and what they make of it: the  *)
(* sandbox measures each candidate (benchmark_sandbox_runner.ts), the gates *)
(* judge the measurements (Gates), valid ones feed the drift monitor       *)
(* (Drift), and the morning result turns the whole into a tier and a       *)
(* screen (Morning). One night at a time and undisturbed: its crashes and  *)
(* files are NightlyCycle's.                                               *)
(***************************************************************************)
EXTENDS Drift, Gates, Morning, Functions

CONSTANTS
    CandidateLists,            \* bound: the lists of candidates the LLM may answer with, night by night
    SavedValues,        \* savings a valid measurement can find
    Snapshots,          \* stability indices a run may be started with
    InitialHistories,   \* drift states, and
    InitialLedgers,     \* failure ledgers, of a deployment before its first night
    MaxMeasuredNights           \* bound: nights

\* A saving is a whole number of ten-thousandths, a stability one of thousandths;
\* the drift state a deployment begins with was measured too.
ASSUME MeasuresInputs ==
    /\ SavedValues \subseteq Int /\ Snapshots \subseteq Int
    /\ Null \notin Int
    /\ \A h \in InitialHistories : h \in Seq(SavedValues)

VARIABLES
    night_count,    \* nights begun
    phase,          \* the phase of the night
    untested,       \* candidates still to test
    batch_results,  \* what Phase B made of the others
    ledger,         \* failure_ledger.json: code and the invariant its constraint names
    measurements,   \* the drift monitor's measurements of the benchmark
    adaptation,     \* latest_drift_adaptation.json
    rollback,       \* the run the rollback record goes back to, or NoRun
    promoted,       \* the patches Phase C promoted tonight
    lifetime,       \* promotions of all nights
    consecutive,    \* nights of high stability in a row
    proof_lineage,  \* past nights, newest first: tier and stability
    screen          \* what the morning after a night shows

night_vars == <<untested, batch_results, promoted>>
ledger_vars == <<ledger, adaptation, rollback, lifetime, consecutive, proof_lineage, screen>>
measures_vars == <<night_count, phase, night_vars, ledger_vars, measurements>>

LineageSize == 7
NoScreen == [posture |-> "GREEN", subheadline |-> {}, alert |-> FALSE, crossed |-> {},
             animation |-> "CRITICAL_HOLD", badge |-> "red", drift |-> "none"]

MeasuresInit ==
    /\ night_count = 0 /\ phase = "OBSERVING"
    /\ untested = <<>> /\ batch_results = <<>> /\ promoted = {}
    /\ measurements \in InitialHistories /\ ledger \in InitialLedgers
    /\ adaptation = ComputeDriftAdaptation(<<>>)
    /\ rollback = NoRun
    /\ lifetime = 0 /\ consecutive = 0 /\ proof_lineage = <<>>
    /\ screen = NoScreen

-----------------------------------------------------------------------------
(* The benchmark sandbox                                                     *)

\* stability_index_baseline, in thousandths. The benchmark finds no saving when
\* the measurement failed or when the patched scripts are not faster.
Metrics(saved) == [stability |-> IF saved = Null THEN 740 ELSE 745, saved |-> saved]

\* The same, without a measurement, for the passthrough sandbox: it answers with
\* what was claimed.
Echo(candidate) == [stability |-> 800, saved |-> candidate.claim]

\* What a sandbox can answer. Tests and invariants pass in both sandboxes of the
\* repository; the contract lets another one fail them.
Answers(candidate) ==
    LET answer(opens, applies, failing, tests, pre, post) ==
            [opens |-> opens, applies |-> applies, failing |-> failing, tests |-> tests,
             orthogonality |-> "unverified", pre |-> pre, post |-> post]
        measured == {Metrics(s) : s \in SavedValues \cup {Null}}
    IN       {answer(TRUE, TRUE, {}, "pass", pre, post) : pre \in measured, post \in measured}
        \cup {answer(FALSE, FALSE, {}, "pass", Metrics(Null), Metrics(Null)),
              answer(TRUE, TRUE, {}, "pass", Echo(candidate), Echo(candidate))}
        \cup {answer(TRUE, FALSE, {}, "pass", pre, pre) : pre \in measured}
        \cup {answer(TRUE, TRUE, Range(candidate.invariants), "pass", Metrics(Null), Metrics(Null)),
              answer(TRUE, TRUE, {}, "fail", Metrics(Null), Metrics(Null))}

\* close: the sandbox's last measurement is recorded when it is valid, and found
\* a saving; what the patch came to does not matter. A sandbox that never
\* reached the patched scripts recorded those of the baseline. The passthrough
\* sandbox records nothing.
AfterClose(class, answer) ==
    LET last == IF class \in {"INVARIANT_VIOLATION", "SANDBOX_EXECUTION_ERROR"}
                THEN answer.pre ELSE answer.post
    IN  IF class \in {"skipped", "BLAST_RADIUS_EXCEEDED"} \/ ~answer.opens
           \/ last.stability = 800 \/ last.saved = Null
        THEN measurements ELSE RecordRun(measurements, last.saved)

-----------------------------------------------------------------------------
(* A night                                                                   *)

\* The ceiling of last night's adaptation, or the GLOBAL of phase_b_config.
Ceiling == IF adaptation.ceiling = "none" THEN "GLOBAL" ELSE adaptation.ceiling

\* max_candidates_override only reaches the prompt: the batch may be longer.
Hypothesize ==
    /\ phase = "OBSERVING" /\ night_count < MaxMeasuredNights
    /\ night_count' = night_count + 1 /\ phase' = "TESTING"
    /\ \E batch \in CandidateLists[night_count + 1] : untested' = batch
    /\ promoted' = {}
    /\ screen' = NoScreen
    /\ UNCHANGED <<batch_results, ledger, adaptation, rollback, lifetime, consecutive, proof_lineage,
                   measurements>>

Test ==
    /\ phase = "TESTING" /\ untested # <<>>
    /\ \E answer \in Answers(Head(untested)) :
         LET candidate == Head(untested)
             class == RunPhaseBForCandidate(candidate, Ceiling, answer)
             failing == FirstFailing(candidate.invariants, answer.failing)
         IN  /\ batch_results' = Append(batch_results,
                   [candidate |-> candidate, class |-> class,
                    delta |-> IF class = "verified" THEN answer.post.stability - answer.pre.stability ELSE 0,
                    saved |-> IF class = "verified" THEN answer.post.saved ELSE Null,
                    write |-> FailureLedgerWrite(class, candidate, failing, ledger),
                    failing |-> IF class = "INVARIANT_VIOLATION" THEN failing ELSE "none"])
             /\ measurements' = AfterClose(class, answer)
    /\ untested' = Tail(untested)
    /\ UNCHANGED <<night_count, phase, promoted, ledger_vars>>

\* The writes of the batch, one after the other.
ApplyFailureLedgerWrites ==
    /\ phase = "TESTING" /\ untested = <<>>
    /\ ledger' = LET after[i \in 0..Len(batch_results)] ==
                        IF i = 0 THEN ledger
                        ELSE ApplyFailureLedgerWrite(after[i - 1], batch_results[i].write, batch_results[i].failing)
                 IN  after[Len(batch_results)]
    /\ phase' = "PROMOTING"
    /\ UNCHANGED <<night_count, night_vars, adaptation, rollback, lifetime, consecutive, proof_lineage,
                   screen, measurements>>

Verified == {i \in DOMAIN batch_results : batch_results[i].class = "verified"}

Blocked ==
    {[of |-> i, code |-> BlockEvent(batch_results[i].class)] :
        i \in {i \in DOMAIN batch_results : BlockEvent(batch_results[i].class) # "none"}}

\* buildSavedTimeMinutesFromBResult: a promoted patch without a saving adds none.
SavedBy(skills) ==
    MapThenSumSet(LAMBDA i : batch_results[i].saved, {i \in skills : batch_results[i].saved # Null})

\* What the promotion gate makes of the verified results. The snapshot the
\* system gate looks at is the one the run was started with: tonight's rejections
\* are not in it.
Disposed(disposition, stability) ==
    LET snapshot == [stability |-> stability, invariantFailures |-> 0, events |-> {}]
        decided == ComputeDriftAdaptation(measurements)
    IN  {i \in Verified : Disposition(batch_results[i], snapshot, decided.blocked) = disposition}

Failures == Cardinality({i \in DOMAIN batch_results : batch_results[i].class = "INVARIANT_VIOLATION"})

Guardian(stability) ==
    GuardianReport(Blocked, Disposed("DEFERRED_HUMAN", stability), {e.code : e \in ledger}, Failures)

\* The figures of the night that the tier policy looks at.
NightFigures(stability) ==
    LET skills == Disposed("PROMOTED", stability)
    IN  [stability |-> stability, invariantFailures |-> Failures,
         blocked |-> Guardian(stability).count,
         saved |-> SavedBy(skills),
         verified |-> Cardinality(Verified),
         promoted |-> lifetime + Cardinality(skills),
         unlocked |-> IF skills = {} THEN 0 ELSE 1,
         consecutive |-> ConsecutiveStable(stability, consecutive)]

\* runNightlyLoop from PROMOTING to the end.
Aggregate ==
    /\ phase = "PROMOTING"
    /\ \E stability \in Snapshots :
         LET decided == ComputeDriftAdaptation(measurements)
             skills == Disposed("PROMOTED", stability)
             guardian == Guardian(stability)
             stable == ConsecutiveStable(stability, consecutive)
             previous == IF proof_lineage = <<>> THEN "CRITICAL" ELSE proof_lineage[1].tier
             tier == TierPolicy(NightFigures(stability), previous)
         IN  /\ batch_results' = <<>> /\ promoted' = {batch_results[i] : i \in skills}
             /\ lifetime' = lifetime + Cardinality(skills)
             /\ consecutive' = stable
             /\ proof_lineage' = ProofLineage([tier |-> tier, stability |-> stability], proof_lineage, LineageSize)
             /\ adaptation' = decided
             /\ rollback' = RollbackRecord(decided)
             /\ screen' = [posture |-> guardian.posture,
                           subheadline |-> Subheadline(guardian),
                           alert |-> guardian.posture # "GREEN" \/ guardian.pending > 0,
                           crossed |-> EvolutionReport(tier, previous, stable),
                           animation |-> Animation(tier, TierDelta(previous, tier)),
                           badge |-> BadgeColor(tier),
                           drift |-> DriftStatus(measurements)]
    /\ phase' = "OBSERVING"
    /\ UNCHANGED <<night_count, untested, ledger, measurements>>

MeasuresNext == Hypothesize \/ Test \/ ApplyFailureLedgerWrites \/ Aggregate

MeasuresSpec == MeasuresInit /\ [][MeasuresNext]_measures_vars

-----------------------------------------------------------------------------
(* Properties                                                                *)

MorningAfter == phase = "OBSERVING" /\ night_count > 0

\* What reaches the repository on the gates' word kept its own: no invariant
\* failed on it, what it claimed was not measured to be missed, stability did
\* not fall, and the benchmark was not degrading when it was promoted.
PromotionMeetsClaim ==
    \A r \in promoted :
        /\ r.failing = "none"
        /\ r.candidate.claim # Null /\ r.saved # Null => r.saved >= r.candidate.claim
        /\ r.delta >= 0
        /\ r.candidate.blast # "GLOBAL"
        /\ ~Falling(OlsSlope(LastRuns(measurements, 20))) \/ Len(measurements) < MinRuns

\* The promotion gate, the next night's ceiling, the rollback record and the
\* morning screen each judge drift on their own (drift_adaptation.ts,
\* rollback_executor.ts, phase_d_aggregator.ts), and agree that it is the slope
\* of at least five runs: the z-score of a run in its own window of five never
\* reaches the threshold. A recovery always has a run to go back to, and it is
\* one of those five.
DriftReadersAgree ==
    MorningAfter =>
        LET falling == /\ Len(measurements) >= 5 /\ HasSlope(measurements)
                       /\ Falling(OlsSlope(LastRuns(measurements, 20)))
        IN  /\ adaptation.blocked <=> falling
            /\ Ceiling = "SELF" <=> falling
            /\ screen.drift = "DEGRADING" <=> falling
            /\ rollback # NoRun <=> falling
            /\ falling => rollback \in (Len(measurements) - 4)..Len(measurements)

\* A BREAKTHROUGH was earned by a night before it that had a tier, and by two
\* nights of high stability, as long as the lineage goes back to them; the count of
\* such nights kept with the lineage is the one the lineage shows. The report names
\* a tier as crossed on the very nights that the screen moves up.
TiersEarned ==
    /\ \A i \in DOMAIN proof_lineage :
          proof_lineage[i].tier = "BREAKTHROUGH" =>
            /\ proof_lineage[i].stability >= BreakthroughStability
            /\ i < LineageSize =>
                 /\ i < Len(proof_lineage) /\ proof_lineage[i + 1].tier # "CRITICAL"
                 /\ proof_lineage[i + 1].stability >= BreakthroughStability
    /\ \A n \in 0..Len(proof_lineage) :
          n <= consecutive <=> \A j \in 1..n : proof_lineage[j].stability >= BreakthroughStability
    /\ MorningAfter =>
          (proof_lineage[1].tier \in screen.crossed <=>
              \/ screen.animation = "TIER_UPGRADE"
              \/ /\ screen.animation = "BREAKTHROUGH"
                 /\ Len(proof_lineage) = 1 \/ proof_lineage[2].tier # "BREAKTHROUGH")

\* What benchmark_sandbox_runner.ts promises of a measurement without values:
\* Phase B detects it. False: a metric that is null counts as not predicted.
EnvInvalidRejected ==
    \A i \in DOMAIN batch_results :
        /\ batch_results[i].candidate.claim # Null
        /\ batch_results[i].saved = Null
        => batch_results[i].class # "verified"

=============================================================================
