-------------------------- MODULE OpenClawDecisions --------------------------
(***************************************************************************)
(* What OpenClaw makes of its statistics (tools/openclaw_decision_engine.  *)
(* ts): the scored choice of the next action, the reward that it learns    *)
(* from, and the panels of the morning brief.                              *)
(*                                                                         *)
(* Statistics map an intent to its counts.  Scores, rates and hints are in *)
(* ten-thousandths, weights and risks in tenths.                           *)
(***************************************************************************)
EXTENDS Totals, Sequences, FiniteSets

Radii == {"SELF", "TENANT", "GLOBAL"}

EnvironmentStates == {"HOSTILE", "DEGRADED", "NORMAL", "STABLE"}

ActionTypes == {"reuse_hint", "shrink_scope", "new_candidate"}

-----------------------------------------------------------------------------
(* The situation                                                             *)

\* The fallback where there is no skill tree.
ComputeCollapseRisk(health) ==
    IF health < 2000 THEN "CRITICAL" ELSE IF health < 4000 THEN "WARNING" ELSE "SAFE"

\* morning: what the engine reads of a morning result.
DeriveEnvironmentState(morning) ==
    LET risk == ComputeCollapseRisk(morning.health)
    IN  IF risk = "CRITICAL" \/ morning.posture = "RED" THEN "HOSTILE"
        ELSE IF risk = "WARNING" \/ morning.failures > 0 THEN "DEGRADED"
        ELSE IF morning.health >= 8000 THEN "STABLE" ELSE "NORMAL"

BuildScoringWeights(env) ==
    IF env = "HOSTILE" THEN [success |-> 3, risk |-> 5, hint |-> 2]
    ELSE IF env = "DEGRADED" THEN [success |-> 4, risk |-> 4, hint |-> 2]
    ELSE IF env = "STABLE" THEN [success |-> 6, risk |-> 2, hint |-> 2]
    ELSE [success |-> 5, risk |-> 3, hint |-> 2]

-----------------------------------------------------------------------------
(* The policy: <<environment, action>> -> rewards and their number           *)

PolicyWeight == 500
PolicyBonusClamp == 2000

UpdatePolicy(policy, action, reward, env) ==
    LET key == <<env, action>>
        old == IF key \in DOMAIN policy THEN policy[key] ELSE [reward |-> 0, count |-> 0]
    IN  [k \in DOMAIN policy \cup {key} |->
            IF k = key THEN [reward |-> old.reward + reward, count |-> old.count + 1] ELSE policy[k]]

PolicyBonus(policy, action, env) ==
    LET key == <<env, action>>
        raw == (PolicyWeight * policy[key].reward) \div policy[key].count
    IN  IF key \notin DOMAIN policy THEN 0
        ELSE IF raw > PolicyBonusClamp THEN PolicyBonusClamp
        ELSE IF raw < -PolicyBonusClamp THEN -PolicyBonusClamp ELSE raw

-----------------------------------------------------------------------------
(* The choice                                                                *)

\* An intent that has failed more often than not, at least twice tried.
IsIntentLocked(stats, key) ==
    key \in DOMAIN stats /\ stats[key].attempts >= 2 /\ 2 * stats[key].successes < stats[key].attempts

\* An intent never tried counts as one that succeeds every other time.
SuccessRate(stats, key) ==
    IF key \in DOMAIN stats THEN (10000 * stats[key].successes) \div stats[key].attempts ELSE 5000

\* One tier at a time, down to SELF.
AutoShrinkBlastRadius(radius) == IF radius = "GLOBAL" THEN "TENANT" ELSE "SELF"

BlastRisk(radius) == IF radius = "SELF" THEN 0 ELSE IF radius = "TENANT" THEN 5 ELSE 10

\* fresh: what exp(-age / tau) leaves of the success rate, in tenths.
ScoreCandidate(candidate, rate, fresh, env, policy) ==
    LET w == BuildScoringWeights(env)
    IN  (rate * fresh * w.success) \div 100 + (10 - candidate.risk) * w.risk * 100
          + (candidate.hint * w.hint) \div 10 + PolicyBonus(policy, candidate.action, env)

\* Mutant: a locked intent is explored like any other.
Candidates_Unlocked(stats, key, hint, radius) ==
    <<[action |-> "reuse_hint", risk |-> BlastRisk("SELF"), hint |-> hint],
      [action |-> "shrink_scope", risk |-> BlastRisk(AutoShrinkBlastRadius(radius)), hint |-> hint \div 2],
      [action |-> "new_candidate", risk |-> BlastRisk(radius), hint |-> 0]>>

\* What competes: a hint reused, the scope shrunk, and a new candidate unless the
\* intent is locked.
Candidates(stats, key, hint, radius) ==
    <<[action |-> "reuse_hint", risk |-> BlastRisk("SELF"), hint |-> hint],
      [action |-> "shrink_scope", risk |-> BlastRisk(AutoShrinkBlastRadius(radius)), hint |-> hint \div 2]>>
    \o (IF IsIntentLocked(stats, key) THEN <<>>
        ELSE <<[action |-> "new_candidate", risk |-> BlastRisk(radius), hint |-> 0]>>)

\* The first of the best.
SelectBest(scores) ==
    CHOOSE i \in DOMAIN scores :
        /\ \A j \in DOMAIN scores : scores[j] <= scores[i]
        /\ \A j \in 1 .. (i - 1) : scores[j] < scores[i]

DecideAction(stats, key, hint, radius, fresh, env, policy) ==
    LET all == Candidates(stats, key, hint, radius)
        scores == [i \in DOMAIN all |-> ScoreCandidate(all[i], SuccessRate(stats, key), fresh, env, policy)]
    IN  all[SelectBest(scores)].action

-----------------------------------------------------------------------------
(* The panels.  The brief shows three of the struggling intents and five of  *)
(* those it calls safe.                                                      *)

Struggling(stats) ==
    {key \in DOMAIN stats : stats[key].attempts >= 2 /\ 2 * stats[key].successes < stats[key].attempts}

SafeToIgnore(stats) ==
    {key \in DOMAIN stats : stats[key].attempts >= 1 /\ 10 * stats[key].successes >= 7 * stats[key].attempts}

PrioritizeReviewItem(morning, stats) ==
    IF morning.posture = "RED" THEN 1
    ELSE IF morning.failures > 0 \/ Struggling(stats) # {} THEN 2 ELSE 3

\* Over the intents of a target: attempts and successes.
NodeStats(stats, target) ==
    LET keys == {key \in DOMAIN stats : key[1] = target}
    IN  [attempts  |-> SumOf([key \in keys |-> stats[key].attempts], keys),
         successes |-> SumOf([key \in keys |-> stats[key].successes], keys)]

\* Gray when expired; red below .3, green from .7, where there are attempts.
ComputeVisualSignal(alive, pressure, node) ==
    IF ~alive THEN "gray"
    ELSE IF pressure = "PRUNE" \/ (node.attempts > 0 /\ 10 * node.successes < 3 * node.attempts) THEN "red"
    ELSE IF pressure = "PERSIST" \/ (node.attempts > 0 /\ 10 * node.successes >= 7 * node.attempts) THEN "green"
    ELSE "yellow"

=============================================================================
