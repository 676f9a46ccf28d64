------------------------------- MODULE Morning ------------------------------
(***************************************************************************)
(* The figures of a morning result (phase_d_aggregator.ts): the tier a     *)
(* night earns, the guardian's posture, and what the screen shows.         *)
(* Operators only; Measures feeds them. Stability is in thousandths.        *)
(***************************************************************************)
EXTENDS Integers, Sequences, FiniteSets

\* TIER_THRESHOLDS. saved_time_minutes has the threshold 0 in every tier.
BreakthroughStability == 850
BreakthroughCycles == 2
BreakthroughVerified == 3
StableStability == 900
GrowingStability == 800

\* Below them all is no tier, which the screen calls critical.
TierRank == [CRITICAL |-> 0, GROWING |-> 1, STABLE |-> 2, BREAKTHROUGH |-> 3]

IsBreakthrough(in, previousTier) ==
    /\ previousTier # "CRITICAL"
    /\ in.stability >= BreakthroughStability
    /\ in.consecutive >= BreakthroughCycles
    /\ in.unlocked >= 1
    /\ in.saved >= 0
    /\ in.verified >= BreakthroughVerified
    /\ in.blocked = 0

IsStable(in) ==
    /\ in.stability >= StableStability
    /\ in.invariantFailures = 0
    /\ in.blocked = 0
    /\ in.saved >= 0

\* in.promoted counts the promotions of all cycles so far. No bug is counted as
\* killed (the metric is null), so a saving is needed.
IsGrowing(in) ==
    /\ in.stability >= GrowingStability
    /\ in.verified >= 1
    /\ in.promoted >= 1
    /\ in.saved > 0

TierPolicy(in, previousTier) ==
    IF IsBreakthrough(in, previousTier) THEN "BREAKTHROUGH"
    ELSE IF IsStable(in) THEN "STABLE"
    ELSE IF IsGrowing(in) THEN "GROWING" ELSE "CRITICAL"

TierDelta(previous, current) ==
    CASE TierRank[current] > TierRank[previous] -> "+1"
      [] TierRank[current] < TierRank[previous] -> "-1"
      [] OTHER -> "0"

\* Mutant: an unstable night leaves the count.
ConsecutiveStable_Kept(stability, prior) ==
    IF stability >= BreakthroughStability THEN prior + 1 ELSE prior

ConsecutiveStable(stability, prior) ==
    IF stability >= BreakthroughStability THEN prior + 1 ELSE 0

\* RED as soon as the ledger has a security downgrade, seeded or observed.
SecurityPosture(invariantFailures, events, codes) ==
    IF "INV_VIOLATION_REJECT" \in events \/ "F-001" \in codes THEN "RED"
    ELSE IF invariantFailures > 0 \/ events # {} THEN "AMBER" ELSE "GREEN"

\* rejections: the block events of Phase B, [of, code]; to them come the patches that
\* wait for a human. The ledger is that of the deployment, seeds included.
GuardianReport(rejections, pending, codes, invariantFailures) ==
    LET events == rejections \cup {[of |-> p, code |-> "HUMAN_REVIEW_DEFER"] : p \in pending}
        kinds == {e.code : e \in events}
    IN  [count |-> Cardinality(events), events |-> kinds, codes |-> codes, pending |-> Cardinality(pending),
         posture |-> SecurityPosture(invariantFailures, kinds, codes)]

\* The thresholds a night is said to have crossed: that of its tier, and that of the
\* stable nights in a row.
EvolutionReport(tier, previousTier, consecutive) ==
    {t \in {tier} :
        \/ tier = "BREAKTHROUGH" /\ previousTier # "BREAKTHROUGH"
        \/ tier = "STABLE" /\ previousTier \in {"GROWING", "CRITICAL"}
        \/ tier = "GROWING" /\ previousTier = "CRITICAL"}
    \cup {c \in {"consecutive stability"} : consecutive = BreakthroughCycles}

Animation(tier, delta) ==
    CASE tier = "BREAKTHROUGH" -> "BREAKTHROUGH"
      [] tier = "CRITICAL" -> "CRITICAL_HOLD"
      [] OTHER -> CASE delta = "+1" -> "TIER_UPGRADE"
                    [] delta = "-1" -> "TIER_DOWNGRADE"
                    [] delta = "0" -> "TIER_HOLD"

BadgeColor(tier) ==
    [BREAKTHROUGH |-> "gold", GROWING |-> "green", STABLE |-> "blue", CRITICAL |-> "red"][tier]

\* What the line under the headline lists; no line for a quiet night.
Subheadline(guardian) ==
    IF guardian.posture = "GREEN" /\ guardian.pending = 0 THEN {}
    ELSE   {"blocked" : e \in guardian.events}
      \cup {"codes" : c \in guardian.codes}
      \cup (IF guardian.pending > 0 THEN {"pending"} ELSE {})

\* The newest entries of the lineage.
ProofLineage(entry, lineage, size) ==
    LET whole == <<entry>> \o lineage
    IN  [i \in 1..(IF Len(whole) < size THEN Len(whole) ELSE size) |-> whole[i]]

=============================================================================
