------------------------------ MODULE MCTools -------------------------------
(***************************************************************************)
(* The tools around the nightly controller, one to a behaviour: they share *)
(* no state, so that the behaviours of each are those it has alone.        *)
(***************************************************************************)
EXTENDS MCMeasures, SkillMemory, Dispatch, Streak, Proposals, Caretaker, PrSubmitter, ComparisonGate,
        OpenClawLearning, TLC

CONSTANTS s1, s2, s3, g1, g2

VARIABLE tool

-----------------------------------------------------------------------------
(* Skills with equal and different targets, one of them of a smaller reach.  *)

Promoted(key, target, blast, delta, lines, fulfills) ==
    [key |-> key, target |-> target, blast |-> blast, delta |-> delta, lines |-> lines, fulfills |-> fulfills]
Strong == Promoted("k1", "t1", "SELF", 10, 1, {"INV-001"})
Fair == Promoted("k2", "t1", "TENANT", 2, 1, {})
Weak == Promoted("k3", "t2", "SELF", 4, 0, {})
MCSkillBatches == {<<Strong, Fair>>, <<Strong, Weak>>}
MCDecay == <<10000, 3679, 1353, 498, 183>>

(* A request of high risk, one without context, and one whose run id has a    *)
(* colon; three uncorrected rejections, of which a capsule names two.        *)

Asked(operation, blast, context) == [operation |-> operation, blast |-> blast, context |-> context]
MCRequests == {Asked("DELETE", "GLOBAL", "complete"), Asked("UPDATE", "SELF", "missing"), Asked("READ", "TENANT", "colon")}
MCRejections == <<[blast |-> "TENANT", risk |-> "high", days |-> 100, corrected |-> FALSE],
                  [blast |-> "GLOBAL", risk |-> "medium", days |-> 1, corrected |-> TRUE],
                  [blast |-> "SELF", risk |-> "low", days |-> 2, corrected |-> FALSE],
                  [blast |-> "GLOBAL", risk |-> "critical", days |-> 3, corrected |-> FALSE]>>
MCReviews == <<[created |-> 400, queued |-> 170], [created |-> 500, queued |-> 10]>>

(* A calm week, the same under a freeze, one at the limit of a band, one at  *)
(* risk whose freeze is null, one whose observability failed, and one of      *)
(* which a missing invariant hides a failed one.                             *)

Kept(I6) == [i \in InvariantKeys |-> IF i = "I6" THEN I6 ELSE "PASS"]
Calm == [cycle |-> 432, p50 |-> 162, p90 |-> 324, invariants |-> Kept("PASS"), freeze |-> FALSE, complete |-> TRUE]
MCWeekInputs ==
    {Calm, [Calm EXCEPT !.freeze = TRUE], [Calm EXCEPT !.cycle = 480, !.invariants = Kept("WATCH")],
     [Calm EXCEPT !.p50 = 163, !.freeze = Unknown], [Calm EXCEPT !.invariants["I3"] = "FAIL"],
     [Calm EXCEPT !.invariants = [Kept("FAIL") EXCEPT !["I1"] = "INVALID"]]}

(* Replies that are accepted, refused for one candidate, and taken as empty. *)

Good == [criteria |-> TRUE, gain |-> 1, violates |-> FALSE]
MCReplies == {[shape |-> "list", candidates |-> <<Good>>],
              [shape |-> "list", candidates |-> <<Good, [Good EXCEPT !.gain = 0]>>],
              [shape |-> "array", candidates |-> <<Good>>]}
Observed == [gates |-> <<"PENDING_BASELINE", "WATCH", "PENDING_BASELINE">>, dispatches |-> 0, unassigned |-> 5,
             invariants |-> Kept("WATCH"), reasons |-> {},
             health |-> [build |-> 1, lint |-> 0, failing |-> {"test"}]]
MCObservations == {CollectObservationWindow(Observed)}
MCWorlds == {[model |-> 1, dependencies |-> d] : d \in 1..2}

(* Two failed runs, one of them followed by a pass; branches that CI accepts, *)
(* refuses for a torn ledger and a stage that skips RUNNING, and refuses with  *)
(* its artifact lost.                                                        *)

MCModes == {[execute |-> TRUE, dry_run |-> FALSE], [execute |-> FALSE, dry_run |-> FALSE]}
MCOldRuns == <<[workflow |-> "ci", conclusion |-> "success"], [workflow |-> "ci", conclusion |-> "failure"],
               [workflow |-> "lint", conclusion |-> "failure"]>>
MCOldPulls == {[head |-> <<0, 1>>, touched |-> -5]}
MCElsewhere == {<<>>, <<[tier |-> "TENANT", type |-> "CI_FAILURE"]>>}
SoundRepo == [constitution |-> TRUE, directory |-> TRUE,
           declared |-> {"INV-001", "INV-010"}, registered |-> {<<"F-001">>},
           sovereign |-> {<<"proofs">>}, untrusted |-> {<<"artifacts">>},
           files |-> {[name |-> {"INV-001"}, fields |-> InvariantFields], [name |-> {"INV-010"}, fields |-> InvariantFields]},
           referenced |-> {<<"F-001", "DOWNGRADE">>}, ledgers |-> {<<"record", "record">>}]
Decision == [named |-> TRUE, allowed |-> {"PASS"}, failure_codes |-> {1}, evidence_fields |-> {1}]
Stage == [named |-> TRUE, flow |-> <<"PENDING", "RUNNING", "PASS">>, decisions |-> {Decision}]
Workflow(work) ==
    [keys |-> {"version", "workflow_family", "common", "workflows"}, states |-> {"PENDING", "RUNNING", "PASS", "FAIL"},
     workflows |-> {[named |-> TRUE, stages |-> {work}]}]
Jobs(repo, work, uploaded) ==
    [lint |-> "success", schema |-> SchemaJob(Workflow(work), TRUE), invariants |-> InvariantsJob(repo, uploaded),
     governance |-> "success"]
MCJobResults ==
    {Jobs(SoundRepo, Stage, TRUE),
     Jobs([SoundRepo EXCEPT !.ledgers = {<<"record", "corrupt">>}], [Stage EXCEPT !.flow = <<"PENDING", "PASS">>], TRUE),
     Jobs([SoundRepo EXCEPT !.untrusted = {<<"proofs", "old">>}], Stage, FALSE)}

(* A cycle that promotes two skills and injects a third, and one that        *)
(* promotes the second again.                                                *)

MCBatches == {[gate |-> <<s1, s2>>, injected |-> {s3}], [gate |-> <<s2>>, injected |-> {}]}

(* A table that holds, the same resting on analysis alone, and one of which    *)
(* much was rewritten; the default policy, and one that rejects nothing.       *)

Shown(type, scope) ==
    [type |-> type, scope |-> scope, confidence |-> 90, ref |-> 1, note |-> 1, owner |-> 1, last_verified |-> 1]
Cell(status, evidence) == [label |-> 1, mechanism |-> 1, status |-> status, detail |-> 1, evidences |-> <<evidence>>]
Table(cell) == {[axis |-> 1, openclaw |-> Cell("inferred", Shown("paper", "inference")), agos |-> cell]}
Documented == Cell("implemented", Shown("official_docs", "runtime"))
MCTables == {Table(Documented), Table(Cell("implemented", Shown("analysis", "runtime"))),
             Table([Cell("specified", Shown("paper", "extension")) EXCEPT !.mechanism = 2])}
MCProfiles == {<<>>, [reject_on_error |-> FALSE, freeze_on_risk_levels |-> {}]}

(* A request that passes, and one that its risk blocks; two recovery paths; a *)
(* stable morning and a red one.                                             *)

Ask(risk, radius) ==
    [action |-> "enqueue_candidate", target |-> "t1", phrase |-> "p1", risk |-> risk, touches |-> "free",
     radius |-> radius, complete |-> TRUE]
MCAsks == {Ask("MEDIUM", "SELF"), Ask("HIGH", "GLOBAL")}
Stop(path, reason) == [action |-> "enqueue_candidate", target |-> "t1", path |-> path, reason |-> reason]
MCStops == {Stop("reuse_hint", "low_hint_score"), Stop("find_new_target", "duplicate_strategy")}
\* Which of the processes is which does not matter.
Gatekeepers == Permutations(Gateways)
MCMornings == {[health |-> 9000, posture |-> "GREEN", failures |-> 0], [health |-> 9000, posture |-> "RED", failures |-> 0]}

-----------------------------------------------------------------------------
\* What differs from one initial state to another is left to the tool it is of.
Init ==
    /\ tool \in {"measures", "memory", "dispatch", "streak", "proposals",
              "caretaker", "submitter", "comparison", "learning"}
    /\ MeasuresInit /\ MemoryInit /\ DispatchInit /\ StreakInit /\ ProposalsInit /\ CaretakerInit
    /\ PrInit /\ ComparisonInit /\ LearningInit
    /\ tool # "measures" => measurements = <<>> /\ ledger = {}
    /\ tool # "proposals" => world.dependencies = 1
    /\ tool # "submitter" => head = Main

Next ==
    \/ /\ tool = "measures" /\ MeasuresNext
       /\ UNCHANGED <<tool, memory_vars, dispatch_vars, streak_vars, proposals_vars, caretaker_vars,
                      pr_vars, comparison_vars, learning_vars>>
    \/ /\ tool = "memory" /\ MemoryNext
       /\ UNCHANGED <<tool, measures_vars, dispatch_vars, streak_vars, proposals_vars, caretaker_vars,
                      pr_vars, comparison_vars, learning_vars>>
    \/ /\ tool = "dispatch" /\ DispatchNext
       /\ UNCHANGED <<tool, measures_vars, memory_vars, streak_vars, proposals_vars, caretaker_vars,
                      pr_vars, comparison_vars, learning_vars>>
    \/ /\ tool = "streak" /\ StreakNext
       /\ UNCHANGED <<tool, measures_vars, memory_vars, dispatch_vars, proposals_vars, caretaker_vars,
                      pr_vars, comparison_vars, learning_vars>>
    \/ /\ tool = "proposals" /\ ProposalsNext
       /\ UNCHANGED <<tool, measures_vars, memory_vars, dispatch_vars, streak_vars, caretaker_vars,
                      pr_vars, comparison_vars, learning_vars>>
    \/ /\ tool = "caretaker" /\ CaretakerNext
       /\ UNCHANGED <<tool, measures_vars, memory_vars, dispatch_vars, streak_vars, proposals_vars,
                      pr_vars, comparison_vars, learning_vars>>
    \/ /\ tool = "submitter" /\ PrNext
       /\ UNCHANGED <<tool, measures_vars, memory_vars, dispatch_vars, streak_vars, proposals_vars,
                      caretaker_vars, comparison_vars, learning_vars>>
    \/ /\ tool = "comparison" /\ ComparisonNext
       /\ UNCHANGED <<tool, measures_vars, memory_vars, dispatch_vars, streak_vars, proposals_vars,
                      caretaker_vars, pr_vars, learning_vars>>
    \/ /\ tool = "learning" /\ LearningNext
       /\ UNCHANGED <<tool, measures_vars, memory_vars, dispatch_vars, streak_vars, proposals_vars,
                      caretaker_vars, pr_vars, comparison_vars>>

Spec == Init /\ [][Next]_<<tool, measures_vars, memory_vars, dispatch_vars, streak_vars, proposals_vars,
                        caretaker_vars, pr_vars, comparison_vars, learning_vars>>
=============================================================================
