--------------------------- MODULE Measures_proofs ---------------------------
(***************************************************************************)
(* Theorems about Measures, for every batch, saving and stability, and any *)
(* number of nights.                                                       *)
(***************************************************************************)
EXTENDS Measures, SequenceTheorems, TLAPS

-----------------------------------------------------------------------------
(* The tiers                                                                 *)

Tiers == {"BREAKTHROUGH", "STABLE", "GROWING", "CRITICAL"}
Night == [tier : Tiers, stability : Int]

High(n) == \A j \in 1 .. n : proof_lineage[j].stability >= BreakthroughStability

\* A breakthrough, and the night before it unless the lineage ends there.
EarnedAt(i) ==
    proof_lineage[i].tier = "BREAKTHROUGH" =>
        /\ proof_lineage[i].stability >= BreakthroughStability
        /\ i < LineageSize => /\ i < Len(proof_lineage) /\ proof_lineage[i + 1].tier # "CRITICAL"
                              /\ proof_lineage[i + 1].stability >= BreakthroughStability

\* The screen after a night names the tiers it moves up to.
ScreenTrue ==
    proof_lineage[1].tier \in screen.crossed <=>
        \/ screen.animation = "TIER_UPGRADE"
        \/ /\ screen.animation = "BREAKTHROUGH"
           /\ Len(proof_lineage) = 1 \/ proof_lineage[2].tier # "BREAKTHROUGH"

TierInv ==
    /\ night_count \in Nat /\ phase \in {"OBSERVING", "TESTING", "PROMOTING"}
    /\ proof_lineage \in Seq(Night) /\ Len(proof_lineage) <= LineageSize
    /\ consecutive \in Nat
    /\ \A i \in DOMAIN proof_lineage : EarnedAt(i)
    /\ \A n \in 0 .. Len(proof_lineage) : n <= consecutive <=> High(n)
    /\ MorningAfter => ScreenTrue

LEMMA TiersInitially == MeasuresInit => TierInv
<1> SUFFICES ASSUME MeasuresInit PROVE TierInv
  OBVIOUS
<1>1. proof_lineage \in Seq(Night) /\ Len(proof_lineage) = 0 /\ DOMAIN proof_lineage = {}
  BY EmptySeq DEF MeasuresInit
<1>2. \A n \in 0 .. 0 : n = 0
  OBVIOUS
<1> QED BY <1>1, <1>2 DEF MeasuresInit, TierInv, High, LineageSize, MorningAfter

\* What a breakthrough needs of its night.
LEMMA BreakthroughNeeds ==
  ASSUME NEW in, NEW previous
  PROVE  /\ TierPolicy(in, previous) \in Tiers
         /\ TierPolicy(in, previous) = "BREAKTHROUGH" =>
              /\ previous # "CRITICAL" /\ in.stability >= BreakthroughStability
              /\ in.consecutive >= BreakthroughCycles
BY DEF TierPolicy, IsBreakthrough, Tiers

\* The report and the screen agree on what moves up.
LEMMA ReportMatchesScreen ==
  ASSUME NEW tier \in Tiers, NEW previous \in Tiers, NEW stable
  PROVE  tier \in EvolutionReport(tier, previous, stable) <=>
           LET animation == Animation(tier, TierDelta(previous, tier))
           IN  \/ animation = "TIER_UPGRADE"
               \/ animation = "BREAKTHROUGH" /\ previous # "BREAKTHROUGH"
<1>1. tier \in EvolutionReport(tier, previous, stable) <=>
        \/ tier = "BREAKTHROUGH" /\ previous # "BREAKTHROUGH"
        \/ tier = "STABLE" /\ previous \in {"GROWING", "CRITICAL"}
        \/ tier = "GROWING" /\ previous = "CRITICAL"
  BY DEF EvolutionReport, Tiers
<1>2. CASE tier = "BREAKTHROUGH"
  BY <1>1, <1>2 DEF Animation
<1>3. CASE tier = "CRITICAL"
  BY <1>1, <1>3 DEF Animation
<1>4. CASE tier = "STABLE"
  <2>1. TierDelta(previous, tier) = "+1" <=> previous \in {"GROWING", "CRITICAL"}
    BY <1>4 DEF TierDelta, TierRank, Tiers
  <2>2. TierDelta(previous, tier) \in {"+1", "-1", "0"}
    BY DEF TierDelta
  <2> QED BY <1>1, <1>4, <2>1, <2>2 DEF Animation
<1>5. CASE tier = "GROWING"
  <2>1. TierDelta(previous, tier) = "+1" <=> previous = "CRITICAL"
    BY <1>5 DEF TierDelta, TierRank, Tiers
  <2>2. TierDelta(previous, tier) \in {"+1", "-1", "0"}
    BY DEF TierDelta
  <2> QED BY <1>1, <1>5, <2>1, <2>2 DEF Animation
<1> QED BY <1>2, <1>3, <1>4, <1>5 DEF Tiers

\* The lineage with a night more.
LEMMA LineageGrows ==
  ASSUME NEW old \in Seq(Night), Len(old) <= LineageSize, NEW entry \in Night
  PROVE  LET new == ProofLineage(entry, old, LineageSize)
         IN  /\ new \in Seq(Night) /\ Len(new) \in 1 .. LineageSize
             /\ Len(new) = IF Len(old) < LineageSize THEN Len(old) + 1 ELSE LineageSize
             /\ DOMAIN new = 1 .. Len(new)
             /\ new[1] = entry /\ \A i \in 2 .. Len(new) : i - 1 \in DOMAIN old /\ new[i] = old[i - 1]
<1> DEFINE whole == <<entry>> \o old
           n == IF Len(whole) < LineageSize THEN Len(whole) ELSE LineageSize
           new == [i \in 1 .. n |-> whole[i]]
<1>1. <<entry>> \in Seq(Night) /\ Len(<<entry>>) = 1 /\ <<entry>>[1] = entry
  OBVIOUS
<1>2. Len(old) \in Nat /\ DOMAIN old = 1 .. Len(old)
  BY LenProperties
<1>3. /\ whole \in Seq(Night) /\ Len(whole) = Len(old) + 1
      /\ \A i \in 1 .. Len(old) + 1 : whole[i] = IF i <= 1 THEN <<entry>>[i] ELSE old[i - 1]
  <2> HIDE DEF whole
  <2>1. /\ whole \in Seq(Night) /\ Len(whole) = 1 + Len(old)
        /\ \A i \in 1 .. 1 + Len(old) : whole[i] = IF i <= 1 THEN <<entry>>[i] ELSE old[i - 1]
    BY <1>1, ConcatProperties DEF whole
  <2> QED BY <1>2, <2>1
<1> HIDE DEF whole
<1>4. n \in 1 .. LineageSize /\ n <= Len(old) + 1 /\ n = (IF Len(old) < LineageSize THEN Len(old) + 1 ELSE LineageSize)
  BY <1>2, <1>3 DEF LineageSize
<1> HIDE DEF n
<1>5. /\ \A i \in 1 .. n : whole[i] \in Night
      /\ new \in Seq(Night) /\ Len(new) = n /\ DOMAIN new = 1 .. n
  <2>1. \A i \in 1 .. n : i \in 1 .. Len(whole)
    BY <1>2, <1>3, <1>4 DEF LineageSize
  <2>2. \A i \in 1 .. n : whole[i] \in Night
    BY <1>3, <2>1, ElementOfSeq
  <2>3. new \in [1 .. n -> Night] /\ n \in Nat
    BY <1>4, <2>2 DEF LineageSize
  <2> QED BY <2>2, <2>3, SeqDef
<1>6. new[1] = entry
  BY <1>1, <1>2, <1>3, <1>4 DEF LineageSize
<1>7. ASSUME NEW i \in 2 .. n PROVE i - 1 \in DOMAIN old /\ new[i] = old[i - 1]
  BY <1>2, <1>3, <1>4 DEF LineageSize
<1>8. ProofLineage(entry, old, LineageSize) = new
  BY DEF ProofLineage, whole, n
<1> QED BY <1>4, <1>5, <1>6, <1>7, <1>8

\* What a night comes to, of all that it computes.
LEMMA NightEnds ==
  ASSUME Aggregate
  PROVE  \E stability \in Snapshots, tier \in Tiers :
           LET stable == ConsecutiveStable(stability, consecutive)
               previous == IF proof_lineage = <<>> THEN "CRITICAL" ELSE proof_lineage[1].tier
           IN  /\ tier = "BREAKTHROUGH" =>
                    /\ previous # "CRITICAL" /\ stability >= BreakthroughStability
                    /\ stable >= BreakthroughCycles
               /\ consecutive' = stable
               /\ proof_lineage' = ProofLineage([tier |-> tier, stability |-> stability], proof_lineage, LineageSize)
               /\ screen'.crossed = EvolutionReport(tier, previous, stable)
               /\ screen'.animation = Animation(tier, TierDelta(previous, tier))
<1> DEFINE previous == IF proof_lineage = <<>> THEN "CRITICAL" ELSE proof_lineage[1].tier
           tier(stability) == TierPolicy(NightFigures(stability), previous)
<1>1. PICK stability \in Snapshots :
        /\ consecutive' = ConsecutiveStable(stability, consecutive)
        /\ proof_lineage' = ProofLineage([tier |-> tier(stability), stability |-> stability], proof_lineage, LineageSize)
        /\ screen'.crossed = EvolutionReport(tier(stability), previous, ConsecutiveStable(stability, consecutive))
        /\ screen'.animation = Animation(tier(stability), TierDelta(previous, tier(stability)))
  BY DEF Aggregate
<1>2. /\ NightFigures(stability).stability = stability
      /\ NightFigures(stability).consecutive = ConsecutiveStable(stability, consecutive)
  BY DEF NightFigures
<1>3. /\ tier(stability) \in Tiers
      /\ tier(stability) = "BREAKTHROUGH" =>
           /\ previous # "CRITICAL" /\ stability >= BreakthroughStability
           /\ ConsecutiveStable(stability, consecutive) >= BreakthroughCycles
  BY <1>2, BreakthroughNeeds
<1> HIDE DEF previous, tier
<1> QED BY <1>1, <1>3 DEF previous

\* The night that ends a stage keeps what the tiers stand for.
LEMMA TiersAfterNight ==
  ASSUME TierInv, Aggregate
  PROVE  TierInv'
<1> DEFINE previous == IF proof_lineage = <<>> THEN "CRITICAL" ELSE proof_lineage[1].tier
<1>1. PICK stability \in Snapshots, tier \in Tiers :
        /\ tier = "BREAKTHROUGH" =>
             /\ previous # "CRITICAL" /\ stability >= BreakthroughStability
             /\ ConsecutiveStable(stability, consecutive) >= BreakthroughCycles
        /\ consecutive' = ConsecutiveStable(stability, consecutive)
        /\ proof_lineage' = ProofLineage([tier |-> tier, stability |-> stability], proof_lineage, LineageSize)
        /\ screen'.crossed = EvolutionReport(tier, previous, ConsecutiveStable(stability, consecutive))
        /\ screen'.animation = Animation(tier, TierDelta(previous, tier))
  BY NightEnds
<1> DEFINE entry == [tier |-> tier, stability |-> stability]
<1>2. stability \in Int /\ entry \in Night /\ entry.tier = tier /\ entry.stability = stability
  BY MeasuresInputs DEF Night
<1>3. /\ proof_lineage \in Seq(Night) /\ Len(proof_lineage) \in 0 .. LineageSize /\ DOMAIN proof_lineage = 1 .. Len(proof_lineage)
      /\ proof_lineage = <<>> <=> Len(proof_lineage) = 0
      /\ \A i \in 1 .. Len(proof_lineage) : proof_lineage[i] \in Night
  <2>1. proof_lineage \in Seq(Night) /\ Len(proof_lineage) <= LineageSize
    BY DEF TierInv
  <2>2. Len(proof_lineage) \in Nat /\ DOMAIN proof_lineage = 1 .. Len(proof_lineage)
    BY <2>1, LenProperties
  <2>3. proof_lineage = <<>> <=> Len(proof_lineage) = 0
    BY <2>1, EmptySeq
  <2>4. \A i \in 1 .. Len(proof_lineage) : proof_lineage[i] \in Night
    BY <2>1, ElementOfSeq
  <2> QED BY <2>1, <2>2, <2>3, <2>4, SMTT(30) DEF LineageSize
<1>4. /\ proof_lineage' \in Seq(Night) /\ Len(proof_lineage') \in 1 .. LineageSize
      /\ Len(proof_lineage') = IF Len(proof_lineage) < LineageSize THEN Len(proof_lineage) + 1 ELSE LineageSize
      /\ DOMAIN proof_lineage' = 1 .. Len(proof_lineage')
      /\ proof_lineage'[1] = entry
      /\ \A i \in 2 .. Len(proof_lineage') : i - 1 \in DOMAIN proof_lineage /\ proof_lineage'[i] = proof_lineage[i - 1]
  <2>1. Len(proof_lineage) <= LineageSize
    BY DEF TierInv
  <2> HIDE DEF entry
  <2> QED BY <1>1, <1>2, <1>3, <2>1, LineageGrows DEF entry
<1>5. consecutive \in Nat /\ consecutive' \in Nat
      /\ consecutive' = IF stability >= BreakthroughStability THEN consecutive + 1 ELSE 0
  BY <1>1 DEF TierInv, ConsecutiveStable
<1>6. \A n \in 0 .. Len(proof_lineage) : n <= consecutive <=> High(n)
  BY DEF TierInv
<1>7. phase' = "OBSERVING" /\ night_count' \in Nat
  BY DEF Aggregate, TierInv
<1>8. previous \in Tiers /\ (proof_lineage # <<>> => previous = proof_lineage[1].tier)
  BY <1>3 DEF Night, Tiers, LineageSize
<1> HIDE DEF previous, entry
<1>9. ASSUME NEW i \in DOMAIN proof_lineage' PROVE EarnedAt(i)'
  <2>1. CASE i = 1
    <3> SUFFICES ASSUME tier = "BREAKTHROUGH"
                 PROVE  /\ stability >= BreakthroughStability
                        /\ 1 < Len(proof_lineage') /\ proof_lineage'[2].tier # "CRITICAL"
                        /\ proof_lineage'[2].stability >= BreakthroughStability
      BY <1>2, <1>4, <2>1 DEF EarnedAt
    <3>1. stability >= BreakthroughStability /\ previous # "CRITICAL" /\ consecutive >= 1
      BY <1>1, <1>2, <1>5 DEF BreakthroughCycles
    <3>2. proof_lineage # <<>>
      BY <3>1 DEF previous
    <3>3. 1 \in 0 .. Len(proof_lineage) /\ 2 \in 2 .. Len(proof_lineage') /\ 1 < Len(proof_lineage')
      BY <1>3, <1>4, <3>2 DEF LineageSize
    <3>4. proof_lineage'[2] = proof_lineage[1]
      BY <1>4, <3>3
    <3>5. proof_lineage[1].stability >= BreakthroughStability
      BY <1>6, <3>1, <3>3, <1>5 DEF High
    <3> QED BY <1>8, <3>1, <3>2, <3>3, <3>4, <3>5
  <2>2. CASE i # 1
    <3>1. i \in 2 .. Len(proof_lineage') /\ i - 1 \in DOMAIN proof_lineage /\ proof_lineage'[i] = proof_lineage[i - 1]
      BY <1>4, <2>2
    <3>2. EarnedAt(i - 1)
      BY <3>1 DEF TierInv
    <3>3. ASSUME i < LineageSize, i - 1 < Len(proof_lineage)
          PROVE  i < Len(proof_lineage') /\ proof_lineage'[i + 1] = proof_lineage[i]
      <4>1. i < Len(proof_lineage')
        BY <1>3, <1>4, <3>1, <3>3 DEF LineageSize
      <4>2. i + 1 \in 2 .. Len(proof_lineage') /\ (i + 1) - 1 = i
        BY <1>4, <3>1, <4>1
      <4> QED BY <1>4, <4>1, <4>2
    <3>4. (i - 1) + 1 = i /\ (i < LineageSize => i - 1 < LineageSize)
      BY <3>1, <1>4 DEF LineageSize
    <3> QED BY <3>1, <3>2, <3>3, <3>4 DEF EarnedAt
  <2> QED BY <2>1, <2>2
<1>10. ASSUME NEW n \in 0 .. Len(proof_lineage') PROVE n <= consecutive' <=> High(n)'
  <2>1. CASE n = 0
    BY <1>5, <2>1 DEF High
  <2>2. CASE n > 0 /\ stability < BreakthroughStability
    <3>1. ~(n <= consecutive')
      BY <1>2, <1>5, <2>2 DEF BreakthroughStability
    <3>2. 1 \in 1 .. n /\ ~(proof_lineage'[1].stability >= BreakthroughStability)
      BY <1>2, <1>4, <2>2 DEF BreakthroughStability
    <3> QED BY <3>1, <3>2 DEF High
  <2>3. CASE n > 0 /\ stability >= BreakthroughStability
    <3>1. n - 1 \in 0 .. Len(proof_lineage) /\ (n <= consecutive' <=> n - 1 <= consecutive)
      BY <1>3, <1>4, <1>5, <2>3 DEF LineageSize
    <3>2. ASSUME High(n - 1) PROVE High(n)'
      <4> SUFFICES ASSUME NEW j \in 1 .. n PROVE proof_lineage'[j].stability >= BreakthroughStability
        BY DEF High
      <4>1. CASE j = 1
        BY <1>2, <1>4, <2>3, <4>1
      <4>2. CASE j # 1
        <5>1. j \in 2 .. Len(proof_lineage') /\ j - 1 \in 1 .. n - 1
          BY <4>2, <1>4
        <5> QED BY <1>4, <5>1, <3>2 DEF High
      <4> QED BY <4>1, <4>2
    <3>3. ASSUME High(n)' PROVE High(n - 1)
      <4> SUFFICES ASSUME NEW j \in 1 .. n - 1 PROVE proof_lineage[j].stability >= BreakthroughStability
        BY DEF High
      <4>1. j + 1 \in 1 .. n /\ j + 1 \in 2 .. Len(proof_lineage') /\ (j + 1) - 1 = j
        BY <1>4
      <4>2. proof_lineage'[j + 1].stability >= BreakthroughStability
        BY <3>3, <4>1 DEF High
      <4> QED BY <1>4, <4>1, <4>2
    <3> QED BY <1>6, <3>1, <3>2, <3>3
  <2> QED BY <1>2, <1>4, <2>1, <2>2, <2>3 DEF BreakthroughStability
<1>11. ScreenTrue'
  <2>1. proof_lineage'[1].tier = tier
    BY <1>2, <1>4
  <2>2. previous # "BREAKTHROUGH" <=> Len(proof_lineage') = 1 \/ proof_lineage'[2].tier # "BREAKTHROUGH"
    <3>1. CASE proof_lineage = <<>>
      BY <3>1, <1>3, <1>4 DEF LineageSize, previous
    <3>2. CASE proof_lineage # <<>>
      <4>1. Len(proof_lineage') # 1 /\ 2 \in 2 .. Len(proof_lineage')
        BY <1>3, <1>4, <3>2 DEF LineageSize
      <4>2. proof_lineage'[2] = proof_lineage[1]
        BY <1>4, <4>1
      <4> QED BY <1>8, <3>2, <4>1, <4>2
    <3> QED BY <3>1, <3>2
  <2>3. tier \in EvolutionReport(tier, previous, ConsecutiveStable(stability, consecutive)) <=>
          \/ Animation(tier, TierDelta(previous, tier)) = "TIER_UPGRADE"
          \/ Animation(tier, TierDelta(previous, tier)) = "BREAKTHROUGH" /\ previous # "BREAKTHROUGH"
    BY <1>8, ReportMatchesScreen
  <2> QED BY <1>1, <2>1, <2>2, <2>3 DEF ScreenTrue
<1> QED BY <1>4, <1>5, <1>7, <1>9, <1>10, <1>11 DEF TierInv, LineageSize

\* The other steps leave the lineage alone, and the morning.
LEMMA TiersDuringNight ==
  ASSUME TierInv, Hypothesize \/ Test \/ ApplyFailureLedgerWrites \/ UNCHANGED measures_vars
  PROVE  TierInv'
<1>1. CASE Hypothesize
  <2>1. night_count' \in Nat /\ phase' = "TESTING" /\ UNCHANGED <<proof_lineage, consecutive>>
    BY <1>1 DEF Hypothesize, TierInv
  <2> QED BY <2>1 DEF TierInv, EarnedAt, High, MorningAfter
<1>2. CASE Test
  <2>1. phase' = "TESTING" /\ UNCHANGED <<night_count, proof_lineage, consecutive>>
    BY <1>2 DEF Test, ledger_vars
  <2> QED BY <2>1 DEF TierInv, EarnedAt, High, MorningAfter
<1>3. CASE ApplyFailureLedgerWrites
  <2>1. phase' = "PROMOTING" /\ UNCHANGED <<night_count, proof_lineage, consecutive>>
    BY <1>3 DEF ApplyFailureLedgerWrites
  <2> QED BY <2>1 DEF TierInv, EarnedAt, High, MorningAfter
<1>4. CASE UNCHANGED measures_vars
  <2>1. UNCHANGED <<night_count, phase, proof_lineage, consecutive, screen>>
    BY <1>4 DEF measures_vars, ledger_vars
  <2> QED BY <2>1 DEF TierInv, EarnedAt, High, MorningAfter, ScreenTrue
<1> QED BY <1>1, <1>2, <1>3, <1>4

\* No run of nights shows a tier that was not earned: a BREAKTHROUGH has its two
\* nights of high stability, the count kept beside the lineage is the one the
\* lineage shows, and the evening's report names the tier the screen moves up to
\* (phase_d_aggregator.ts, computeTierPolicy, computeConsecutiveStable,
\* buildProofLineage, buildEvolutionReport).
THEOREM TiersAreEarned == MeasuresSpec => []TiersEarned
<1>1. TierInv /\ [MeasuresNext]_measures_vars => TierInv'
  BY TiersAfterNight, TiersDuringNight DEF MeasuresNext
<1>2. TierInv => TiersEarned
  BY DEF TierInv, EarnedAt, High, ScreenTrue, TiersEarned
<1> QED BY TiersInitially, <1>1, <1>2, PTL DEF MeasuresSpec

-----------------------------------------------------------------------------
(* The promotions                                                            *)

\* The gates kept their word on a result.
Kept(r) ==
    r.class = "verified" =>
        /\ r.failing = "none"
        /\ r.candidate.claim # Null /\ r.saved # Null => r.saved >= r.candidate.claim

ClaimInv ==
    /\ batch_results \in Seq(Range(batch_results))
    /\ \A i \in DOMAIN batch_results : Kept(batch_results[i])
    /\ phase # "OBSERVING" => promoted = {}
    /\ PromotionMeetsClaim

\* A verified candidate passed the second gate, whatever stopped none of the
\* screens and gates around it.
LEMMA VerifiedPassedOutcome ==
  ASSUME NEW candidate, NEW ceiling, NEW answer,
         RunPhaseBForCandidate(candidate, ceiling, answer) = "verified"
  PROVE  OutcomePassed(answer.pre, answer.post, candidate.claim)
<1> DEFINE c1 == ~candidate.hasDiff
           c2 == BlastRank[candidate.blast] > BlastRank[ceiling]
           c3 == ~answer.opens \/ ~answer.applies
           c4 == FirstFailing(candidate.invariants, answer.failing) # "none"
           c5 == ~OutcomePassed(answer.pre, answer.post, candidate.claim)
           c6 == ~NoRegressionPassed(candidate, answer.tests, answer.orthogonality)
           rejection == OutcomeRejection(answer.pre, answer.post)
           stops == << <<c1, "skipped">>, <<c2, "BLAST_RADIUS_EXCEEDED">>,
                       <<c3, "SANDBOX_EXECUTION_ERROR">>, <<c4, "INVARIANT_VIOLATION">>,
                       <<c5, rejection>>, <<c6, "REGRESSION_TEST_FAILURE">>, <<TRUE, "verified">> >>
           isFirst(i) == stops[i][1] /\ \A j \in 1..(i - 1) : ~stops[j][1]
           first == CHOOSE i \in DOMAIN stops : isFirst(i)
<1>1. stops[first][2] = "verified"
  BY DEF RunPhaseBForCandidate
<1>2. rejection # "verified"
  BY DEF OutcomeRejection
<1> SUFFICES ASSUME c5 PROVE FALSE
  OBVIOUS
<1> HIDE DEF c1, c2, c3, c4, c5, c6, rejection
<1>3. /\ DOMAIN stops = 1 .. 7
      /\ stops[1][1] = c1 /\ stops[2][1] = c2 /\ stops[3][1] = c3 /\ stops[4][1] = c4 /\ stops[5][1] = c5
      /\ stops[1][2] = "skipped" /\ stops[2][2] = "BLAST_RADIUS_EXCEEDED"
      /\ stops[3][2] = "SANDBOX_EXECUTION_ERROR" /\ stops[4][2] = "INVARIANT_VIOLATION"
      /\ stops[5][2] = rejection
  OBVIOUS
<1> HIDE DEF stops
<1>4. \E i \in 1 .. 5 : isFirst(i)
  <2> DEFINE fires(i) == stops[i][1]
  <2>1. fires(5)
    BY <1>3
  <2> HIDE DEF fires
  <2>2. \/ fires(1)
        \/ ~fires(1) /\ fires(2)
        \/ ~fires(1) /\ ~fires(2) /\ fires(3)
        \/ ~fires(1) /\ ~fires(2) /\ ~fires(3) /\ fires(4)
        \/ ~fires(1) /\ ~fires(2) /\ ~fires(3) /\ ~fires(4) /\ fires(5)
    BY <2>1
  <2>3. /\ \A j \in 1 .. (1 - 1) : FALSE
        /\ \A j \in 1 .. (2 - 1) : j = 1
        /\ \A j \in 1 .. (3 - 1) : j = 1 \/ j = 2
        /\ \A j \in 1 .. (4 - 1) : j = 1 \/ j = 2 \/ j = 3
        /\ \A j \in 1 .. (5 - 1) : j = 1 \/ j = 2 \/ j = 3 \/ j = 4
    OBVIOUS
  <2>4. 1 \in 1 .. 5 /\ 2 \in 1 .. 5 /\ 3 \in 1 .. 5 /\ 4 \in 1 .. 5 /\ 5 \in 1 .. 5
    OBVIOUS
  <2>5. \E i \in 1 .. 5 : fires(i) /\ \A j \in 1 .. (i - 1) : ~fires(j)
    BY <2>2, <2>3, <2>4, Zenon
  <2> QED BY <2>5, Zenon DEF fires
<1>5. first \in 1 .. 7 /\ isFirst(first)
  <2>1. \A i \in 1 .. 5 : i \in 1 .. 7
    OBVIOUS
  <2>2. \E i \in 1 .. 7 : isFirst(i)
    BY <1>4, <2>1, Zenon
  <2> QED BY <1>3, <2>2, Zenon
<1> HIDE DEF first
<1>6. first \in 1 .. 5
  <2>1. first > 5 => 5 \in 1 .. (first - 1)
    BY <1>5
  <2>2. stops[5][1]
    BY <1>3
  <2> HIDE DEF stops
  <2>3. ~(first > 5)
    BY <1>5, <2>1, <2>2, Zenon
  <2> QED BY <1>5, <2>3
<1> QED BY <1>1, <1>2, <1>3, <1>6

\* What Phase B makes of a candidate keeps its word.
LEMMA TestKeepsWord ==
  ASSUME NEW candidate, NEW answer, NEW class, NEW failing, NEW r,
         class = RunPhaseBForCandidate(candidate, Ceiling, answer),
         r.candidate = candidate, r.class = class,
         r.saved = IF class = "verified" THEN answer.post.saved ELSE Null,
         r.failing = IF class = "INVARIANT_VIOLATION" THEN failing ELSE "none"
  PROVE  Kept(r)
<1> SUFFICES ASSUME class = "verified"
             PROVE  r.candidate.claim # Null /\ r.saved # Null => r.saved >= r.candidate.claim
  BY DEF Kept
<1>1. Accuracy(answer.post.saved, candidate.claim) # "missed"
  BY VerifiedPassedOutcome DEF OutcomePassed
<1> QED BY <1>1 DEF Accuracy

LEMMA ClaimsTested ==
  ASSUME ClaimInv, Test
  PROVE  ClaimInv'
<1>1. PICK r : batch_results' = Append(batch_results, r) /\ Kept(r)
  <2>1. PICK answer \in Answers(Head(untested)) :
          batch_results' = Append(batch_results,
            [candidate |-> Head(untested), class |-> RunPhaseBForCandidate(Head(untested), Ceiling, answer),
             delta |-> IF RunPhaseBForCandidate(Head(untested), Ceiling, answer) = "verified"
                       THEN answer.post.stability - answer.pre.stability ELSE 0,
             saved |-> IF RunPhaseBForCandidate(Head(untested), Ceiling, answer) = "verified"
                       THEN answer.post.saved ELSE Null,
             write |-> FailureLedgerWrite(RunPhaseBForCandidate(Head(untested), Ceiling, answer), Head(untested),
                         FirstFailing(Head(untested).invariants, answer.failing), ledger),
             failing |-> IF RunPhaseBForCandidate(Head(untested), Ceiling, answer) = "INVARIANT_VIOLATION"
                         THEN FirstFailing(Head(untested).invariants, answer.failing) ELSE "none"])
    BY DEF Test
  <2> DEFINE class == RunPhaseBForCandidate(Head(untested), Ceiling, answer)
             failing == FirstFailing(Head(untested).invariants, answer.failing)
             write == FailureLedgerWrite(class, Head(untested), failing, ledger)
             delta == IF class = "verified" THEN answer.post.stability - answer.pre.stability ELSE 0
             saved == IF class = "verified" THEN answer.post.saved ELSE Null
             r == [candidate |-> Head(untested), class |-> class, delta |-> delta, saved |-> saved,
                   write |-> write,
                   failing |-> IF class = "INVARIANT_VIOLATION" THEN failing ELSE "none"]
  <2>2. batch_results' = Append(batch_results, r)
    BY <2>1
  <2> HIDE DEF write, delta, failing
  <2>3. Kept(r)
    <3> DEFINE c == class
    <3>1. c = RunPhaseBForCandidate(Head(untested), Ceiling, answer)
      OBVIOUS
    <3> HIDE DEF class
    <3>2. /\ r.candidate = Head(untested) /\ r.class = c
          /\ r.saved = IF c = "verified" THEN answer.post.saved ELSE Null
          /\ r.failing = IF c = "INVARIANT_VIOLATION" THEN failing ELSE "none"
      OBVIOUS
    <3> HIDE DEF r, c
    <3> QED BY <3>1, <3>2, TestKeepsWord
  <2> QED BY <2>2, <2>3
<1>2. phase = "TESTING" /\ phase' = "TESTING" /\ promoted = {} /\ promoted' = {}
  BY DEF Test, ClaimInv
<1> DEFINE S == Range(batch_results) \cup {r}
<1>3. batch_results \in Seq(Range(batch_results))
  BY DEF ClaimInv
<1>4. batch_results \in Seq(S) /\ r \in S
  BY <1>3, SeqMonotonic
<1> HIDE DEF S
<1>5. /\ batch_results' \in Seq(S) /\ Len(batch_results') = Len(batch_results) + 1
      /\ DOMAIN batch_results = 1 .. Len(batch_results) /\ DOMAIN batch_results' = 1 .. Len(batch_results) + 1
      /\ Len(batch_results) \in Nat
      /\ \A i \in 1 .. Len(batch_results) : batch_results'[i] = batch_results[i]
      /\ batch_results'[Len(batch_results) + 1] = r
  BY <1>1, <1>4, AppendProperties, LenProperties
<1>6. batch_results' \in Seq(Range(batch_results'))
  BY <1>5, SeqOfRange
<1>7. \A i \in DOMAIN batch_results' : Kept(batch_results'[i])
  BY <1>1, <1>5 DEF ClaimInv
<1> QED BY <1>2, <1>6, <1>7 DEF ClaimInv, Kept, PromotionMeetsClaim

\* A promotion is of a verified result, when nothing drifts.
LEMMA PromotedMeans ==
  ASSUME NEW stability, NEW i \in Disposed("PROMOTED", stability)
  PROVE  /\ i \in DOMAIN batch_results /\ batch_results[i].class = "verified"
         /\ batch_results[i].delta >= 0 /\ batch_results[i].candidate.blast # "GLOBAL"
         /\ ~PromotionBlocked(measurements)
<1> DEFINE snapshot == [stability |-> stability, invariantFailures |-> 0, events |-> {}]
<1>1. /\ i \in Verified
      /\ Disposition(batch_results[i], snapshot, ComputeDriftAdaptation(measurements).blocked) = "PROMOTED"
  BY DEF Disposed
<1>2. ComputeDriftAdaptation(measurements).blocked = PromotionBlocked(measurements)
  BY DEF ComputeDriftAdaptation
<1> HIDE DEF snapshot
<1>3. /\ i \in DOMAIN batch_results /\ batch_results[i].class = "verified"
  BY <1>1 DEF Verified
<1>4. ~PromotionBlocked(measurements) /\ PatchGate(batch_results[i]) = "PROMOTED"
  BY <1>1, <1>2 DEF Disposition
<1>5. batch_results[i].delta >= 0 /\ batch_results[i].candidate.blast # "GLOBAL"
  BY <1>4 DEF PatchGate
<1> QED BY <1>3, <1>4, <1>5

\* Where the monitor keeps at least five runs, a slope that falls blocks promotion.
LEMMA UnblockedIsLevel ==
  ASSUME MinRuns \in 5 .. 20, measurements \in Seq(SavedValues), ~PromotionBlocked(measurements)
  PROVE  ~Falling(OlsSlope(LastRuns(measurements, 20))) \/ Len(measurements) < MinRuns
<1> SUFFICES ASSUME Len(measurements) >= MinRuns
             PROVE  ~Falling(OlsSlope(LastRuns(measurements, 20)))
  OBVIOUS
<1>1. Len(measurements) \in Nat /\ Len(measurements) >= 5
  BY LenProperties
<1>2. measurements # <<>>
  BY <1>1, EmptySeq
<1>3. HasSlope(measurements)
  <2>1. CASE Len(measurements) <= 20
    BY <2>1 DEF HasSlope, LastRuns
  <2>2. CASE Len(measurements) > 20
    <3>1. Len(SubSeq(measurements, Len(measurements) - 20 + 1, Len(measurements))) = 20
      BY <1>1, <2>2, SubSeqProperties
    <3> QED BY <1>1, <2>2, <3>1 DEF HasSlope, LastRuns
  <2> QED BY <1>1, <2>1, <2>2
<1> QED BY <1>1, <1>2, <1>3 DEF PromotionBlocked, DriftDetected

\* Only what was measured is recorded.
HistoryInv == measurements \in Seq(SavedValues) /\ phase \in {"OBSERVING", "TESTING", "PROMOTING"}

LEMMA LastRunsLast ==
  ASSUME NEW S, NEW runs \in Seq(S), NEW n \in Nat \ {0}
  PROVE  LET kept == LastRuns(runs, n)
         IN  /\ kept \in Seq(S)
             /\ Len(kept) = IF Len(runs) <= n THEN Len(runs) ELSE n
             /\ \A i \in 1 .. Len(kept) : kept[i] = runs[Len(runs) - Len(kept) + i]
<1>1. Len(runs) \in Nat
  BY LenProperties
<1>2. CASE Len(runs) <= n
  <2>1. \A i \in 1 .. Len(runs) : Len(runs) - Len(runs) + i = i
    BY <1>1
  <2> QED BY <1>2, <2>1 DEF LastRuns
<1>3. CASE ~(Len(runs) <= n)
  <2> DEFINE from == Len(runs) - n + 1
             kept == SubSeq(runs, from, Len(runs))
  <2>1. from \in 1 .. Len(runs) + 1 /\ Len(runs) \in from - 1 .. Len(runs)
        /\ from <= Len(runs) /\ Len(runs) - from + 1 = n
        /\ \A i \in 1 .. n : from + i - 1 = Len(runs) - n + i
    BY <1>1, <1>3
  <2>2. LastRuns(runs, n) = kept
    BY <1>3 DEF LastRuns
  <2> HIDE DEF from
  <2>3. kept \in Seq(S) /\ Len(kept) = n /\ \A i \in 1 .. n : kept[i] = runs[from + i - 1]
    BY <1>1, <2>1, SubSeqProperties
  <2> HIDE DEF kept
  <2>4. \A i \in 1 .. n : kept[i] = runs[Len(runs) - n + i]
    BY <2>1, <2>3
  <2>5. Len(LastRuns(runs, n)) = n /\ LastRuns(runs, n) \in Seq(S)
    BY <2>2, <2>3
  <2>6. \A i \in 1 .. n : LastRuns(runs, n)[i] = runs[Len(runs) - n + i]
    BY <2>2, <2>4
  <2> QED BY <1>3, <2>5, <2>6
<1> QED BY <1>1, <1>2, <1>3

LEMMA AnswersMeasure ==
  ASSUME NEW candidate, NEW answer \in Answers(candidate)
  PROVE  /\ answer.pre.stability = 800 \/ answer.pre.saved \in SavedValues \cup {Null}
         /\ answer.post.stability = 800 \/ answer.post.saved \in SavedValues \cup {Null}
<1> DEFINE measured == {Metrics(s) : s \in SavedValues \cup {Null}}
           Fine(m) == m.stability = 800 \/ m.saved \in SavedValues \cup {Null}
<1>1. \A m \in measured : Fine(m)
  BY DEF Metrics
<1>2. Fine(Metrics(Null)) /\ Fine(Echo(candidate))
  BY DEF Metrics, Echo
<1>3. /\ answer.pre \in measured \/ answer.pre = Metrics(Null) \/ answer.pre = Echo(candidate)
      /\ answer.post \in measured \/ answer.post = Metrics(Null) \/ answer.post = Echo(candidate)
  <2> HIDE DEF measured
  <2> QED BY DEF Answers, measured
<1> HIDE DEF measured
<1>4. Fine(answer.pre) /\ Fine(answer.post)
  <2> HIDE DEF Fine
  <2> QED BY <1>1, <1>2, <1>3
<1> QED BY <1>4

LEMMA HistoryMeasured ==
  /\ MeasuresInit => HistoryInv
  /\ HistoryInv /\ [MeasuresNext]_measures_vars => HistoryInv'
<1>1. MeasuresInit => HistoryInv
  BY MeasuresInputs DEF MeasuresInit, HistoryInv
<1>2. ASSUME HistoryInv, Test PROVE HistoryInv'
  <2>1. PICK answer \in Answers(Head(untested)) :
          measurements' = AfterClose(RunPhaseBForCandidate(Head(untested), Ceiling, answer), answer)
    BY <1>2 DEF Test
  <2>2. measurements' = measurements \/ \E saved \in SavedValues : measurements' = RecordRun(measurements, saved)
    <3> DEFINE class == RunPhaseBForCandidate(Head(untested), Ceiling, answer)
    <3> HIDE DEF class
    <3> QED BY <2>1, AnswersMeasure DEF AfterClose, class
  <2>3. ASSUME NEW saved \in SavedValues PROVE RecordRun(measurements, saved) \in Seq(SavedValues)
    <3>1. Append(measurements, saved) \in Seq(SavedValues)
      BY <1>2, AppendProperties DEF HistoryInv
    <3> QED BY <3>1, LastRunsLast, HistoryAssumption DEF RecordRun
  <2>4. phase' = "TESTING"
    BY <1>2 DEF Test
  <2> QED BY <1>2, <2>2, <2>3, <2>4 DEF HistoryInv
<1>3. ASSUME HistoryInv, Hypothesize \/ ApplyFailureLedgerWrites \/ UNCHANGED measures_vars PROVE HistoryInv'
  BY <1>3 DEF HistoryInv, Hypothesize, ApplyFailureLedgerWrites, measures_vars
<1>4. ASSUME HistoryInv, Aggregate PROVE HistoryInv'
  BY <1>4 DEF HistoryInv, Aggregate
<1> QED BY <1>1, <1>2, <1>3, <1>4 DEF MeasuresNext

LEMMA ClaimsPromoted ==
  ASSUME MinRuns \in 5 .. 20, ClaimInv, HistoryInv, Aggregate
  PROVE  ClaimInv'
<1>1. PICK stability \in Snapshots :
        promoted' = {batch_results[i] : i \in Disposed("PROMOTED", stability)}
  BY DEF Aggregate
<1>2. batch_results' = <<>> /\ measurements' = measurements /\ phase' = "OBSERVING"
  BY DEF Aggregate
<1>3. batch_results' \in Seq(Range(batch_results')) /\ DOMAIN batch_results' = {}
  BY <1>2, EmptySeq, SeqOfRange
<1>4. ASSUME NEW r \in promoted'
      PROVE  /\ r.failing = "none"
             /\ r.candidate.claim # Null /\ r.saved # Null => r.saved >= r.candidate.claim
             /\ r.delta >= 0
             /\ r.candidate.blast # "GLOBAL"
             /\ ~Falling(OlsSlope(LastRuns(measurements, 20))) \/ Len(measurements) < MinRuns
  <2>1. PICK i \in Disposed("PROMOTED", stability) : r = batch_results[i]
    BY <1>1
  <2>2. /\ i \in DOMAIN batch_results /\ r.class = "verified" /\ r.delta >= 0 /\ r.candidate.blast # "GLOBAL"
        /\ ~PromotionBlocked(measurements)
    BY <2>1, PromotedMeans
  <2>3. Kept(r)
    BY <2>1, <2>2 DEF ClaimInv
  <2>4. ~Falling(OlsSlope(LastRuns(measurements, 20))) \/ Len(measurements) < MinRuns
    BY <2>2, UnblockedIsLevel DEF HistoryInv
  <2> QED BY <2>2, <2>3, <2>4 DEF Kept
<1>5. PromotionMeetsClaim'
  BY <1>2, <1>4 DEF PromotionMeetsClaim
<1> QED BY <1>2, <1>3, <1>5 DEF ClaimInv

\* What a night promotes kept its word: no invariant failed on it, its saving was
\* not measured to miss its claim, stability did not fall, it reaches no further
\* than a tenant, and the benchmark was not degrading (phase_b_orchestrator.ts,
\* runPhaseBForCandidate; phase_c_orchestrator.ts, runPhaseC; drift_adaptation.ts).
\* drift_monitor.ts asks a slope of five of its twenty runs.
THEOREM PromotionsMeetClaims ==
  ASSUME MinRuns \in 5 .. 20
  PROVE  MeasuresSpec => []PromotionMeetsClaim
<1>1. MeasuresInit => ClaimInv /\ HistoryInv
  <2> SUFFICES ASSUME MeasuresInit PROVE ClaimInv
    BY HistoryMeasured
  <2>1. batch_results = <<>> /\ promoted = {} /\ DOMAIN batch_results = {}
    BY EmptySeq DEF MeasuresInit
  <2>2. batch_results \in Seq(Range(batch_results))
    BY <2>1, EmptySeq, SeqOfRange
  <2> QED BY <2>1, <2>2 DEF ClaimInv, PromotionMeetsClaim
<1>2. ClaimInv /\ HistoryInv /\ [MeasuresNext]_measures_vars => (ClaimInv /\ HistoryInv)'
  <2> SUFFICES ASSUME ClaimInv, HistoryInv, [MeasuresNext]_measures_vars PROVE ClaimInv'
    BY HistoryMeasured
  <2>1. CASE Hypothesize
    <3>1. promoted' = {} /\ batch_results' = batch_results
      BY <2>1 DEF Hypothesize
    <3> QED BY <3>1 DEF ClaimInv, Kept, PromotionMeetsClaim
  <2>2. CASE Test
    BY <2>2, ClaimsTested
  <2>3. CASE ApplyFailureLedgerWrites
    <3>1. phase = "TESTING" /\ UNCHANGED <<batch_results, promoted, measurements>>
      BY <2>3 DEF ApplyFailureLedgerWrites, night_vars
    <3> QED BY <3>1 DEF ClaimInv, Kept, PromotionMeetsClaim
  <2>4. CASE Aggregate
    BY <2>4, ClaimsPromoted
  <2>5. CASE UNCHANGED measures_vars
    <3>1. UNCHANGED <<phase, batch_results, promoted, measurements>>
      BY <2>5 DEF measures_vars, night_vars
    <3> QED BY <3>1 DEF ClaimInv, Kept, PromotionMeetsClaim
  <2> QED BY <2>1, <2>2, <2>3, <2>4, <2>5 DEF MeasuresNext
<1>3. ClaimInv => PromotionMeetsClaim
  BY DEF ClaimInv
<1> QED BY <1>1, <1>2, <1>3, PTL DEF MeasuresSpec

-----------------------------------------------------------------------------
(* The drift                                                                 *)

\* What Total computes of at most five values: the recursion written out.
Partial(v, i) ==
    IF i = 0 THEN 0
    ELSE IF i = 1 THEN v[1]
    ELSE IF i = 2 THEN v[1] + v[2]
    ELSE IF i = 3 THEN v[1] + v[2] + v[3]
    ELSE IF i = 4 THEN v[1] + v[2] + v[3] + v[4]
    ELSE v[1] + v[2] + v[3] + v[4] + v[5]

LEMMA TotalOfFew ==
  ASSUME NEW n \in 3 .. 5, NEW v, Len(v) = n, \A i \in 1 .. n : v[i] \in Int
  PROVE  TotalOf(v) = Partial(v, n)
<1> DEFINE IsSum(g) == g = [i \in 0 .. n |-> IF i = 0 THEN 0 ELSE g[i - 1] + v[i]]
           f == [i \in 0 .. n |-> Partial(v, i)]
           sum == CHOOSE g : IsSum(g)
<1>1. IsSum(f)
  <2>1. ASSUME NEW i \in 0 .. n
        PROVE  Partial(v, i) = IF i = 0 THEN 0 ELSE f[i - 1] + v[i]
    <3>1. CASE i = 0
      BY <3>1 DEF Partial
    <3>2. CASE i # 0
      <4>1. i - 1 \in 0 .. n /\ f[i - 1] = Partial(v, i - 1)
        BY <3>2
      <4>2. i = 1 \/ i = 2 \/ i = 3 \/ i = 4 \/ i = 5
        BY <3>2
      <4>3. v[1] \in Int /\ v[2] \in Int /\ v[3] \in Int
        OBVIOUS
      <4> HIDE DEF f
      <4> QED BY <4>1, <4>2, <4>3, <3>2 DEF Partial
    <3> QED BY <3>1, <3>2
  <2> HIDE DEF f
  <2>2. f = [i \in 0 .. n |-> Partial(v, i)]
    BY DEF f
  <2> QED BY <2>1, <2>2
<1>2. IsSum(sum)
  <2> HIDE DEF IsSum
  <2> QED BY <1>1
<1>3. TotalOf(v) = sum[n]
  BY DEF TotalOf
<1> HIDE DEF sum
<1>4. /\ sum[0] = 0 /\ sum[1] = v[1] /\ sum[2] = v[1] + v[2] /\ sum[3] = v[1] + v[2] + v[3]
      /\ n >= 4 => sum[4] = v[1] + v[2] + v[3] + v[4]
      /\ n = 5 => sum[5] = v[1] + v[2] + v[3] + v[4] + v[5]
  <2>1. \A i \in 0 .. n : sum[i] = IF i = 0 THEN 0 ELSE sum[i - 1] + v[i]
    BY <1>2
  <2>2. sum[0] = 0 /\ sum[1] = sum[0] + v[1]
    BY <2>1
  <2>3. sum[2] = sum[1] + v[2] /\ sum[3] = sum[2] + v[3]
    BY <2>1
  <2>4. n >= 4 => sum[4] = sum[3] + v[4]
    BY <2>1, SMTT(30)
  <2>5. n = 5 => sum[5] = sum[4] + v[5]
    BY <2>1
  <2> QED BY <2>2, <2>3, <2>4, <2>5
<1>5. n = 3 \/ n = 4 \/ n = 5
  OBVIOUS
<1> QED BY <1>3, <1>4, <1>5 DEF Partial

\* What the statistics of a window of three to five values come to.
Squares(v, n) == Partial([i \in 1 .. n |-> v[i] * v[i]], n)

LEMMA StatsOfFew ==
  ASSUME NEW n \in 3 .. 5, NEW v \in Seq(Int), Len(v) = n
  PROVE  /\ WindowStats(v).n = n /\ WindowStats(v).sum = Partial(v, n)
         /\ WindowStats(v).spread = n * Squares(v, n) - Partial(v, n) * Partial(v, n)
<1>1. \A i \in 1 .. n : v[i] \in Int
  BY ElementOfSeq
<1> DEFINE w == [i \in 1 .. n |-> v[i] * v[i]]
<1>2. n \in Nat /\ \A i \in 1 .. n : v[i] * v[i] \in Int
  BY <1>1
<1>3. w \in Seq(Int) /\ Len(w) = n /\ \A i \in 1 .. n : w[i] \in Int
  BY <1>2, SeqDef
<1>4. TotalOf(v) = Partial(v, n)
  BY <1>1, TotalOfFew
<1> HIDE DEF w
<1>5. TotalOf(w) = Partial(w, n)
  BY <1>3, TotalOfFew
<1> QED BY <1>4, <1>5 DEF WindowStats, Squares, w

\* No value of three to five lies two and a half deviations below their mean: the
\* spread is at least the square of its gap over one less than their number.
LEMMA FarBelowFive ==
  ASSUME NEW a \in Int, NEW b \in Int, NEW c \in Int, NEW d \in Int, NEW x \in Int,
         NEW gap \in Int, NEW spread \in Int,
         gap = (a + b + c + d + x) - 5 * x,
         spread = 5 * (a * a + b * b + c * c + d * d + x * x)
                    - (a + b + c + d + x) * (a + b + c + d + x)
  PROVE  gap > 0 => ~(2 * 2 * gap * gap > 5 * 5 * spread)
  OBVIOUS

LEMMA FarBelowFour ==
  ASSUME NEW a \in Int, NEW b \in Int, NEW c \in Int, NEW x \in Int,
         NEW gap \in Int, NEW spread \in Int,
         gap = (a + b + c + x) - 4 * x,
         spread = 4 * (a * a + b * b + c * c + x * x) - (a + b + c + x) * (a + b + c + x)
  PROVE  gap > 0 => ~(2 * 2 * gap * gap > 5 * 5 * spread)
  OBVIOUS

LEMMA FarBelowThree ==
  ASSUME NEW a \in Int, NEW b \in Int, NEW x \in Int,
         NEW gap \in Int, NEW spread \in Int,
         gap = (a + b + x) - 3 * x,
         spread = 3 * (a * a + b * b + x * x) - (a + b + x) * (a + b + x)
  PROVE  gap > 0 => ~(2 * 2 * gap * gap > 5 * 5 * spread)
  OBVIOUS

\* The runs of the window that most of the judgements look at.
LEMMA LastFive ==
  ASSUME NEW runs \in Seq(Int)
  PROVE  /\ LastRuns(runs, 5) \in Seq(Int)
         /\ Len(LastRuns(runs, 5)) = IF Len(runs) <= 5 THEN Len(runs) ELSE 5
         /\ \A i \in 1 .. Len(LastRuns(runs, 5)) :
              LastRuns(runs, 5)[i] = runs[Len(runs) - Len(LastRuns(runs, 5)) + i]
         /\ Len(runs) \in Nat /\ Len(LastRuns(runs, 5)) \in 0 .. 5
         /\ Len(runs) >= 5 => Len(LastRuns(runs, 5)) = 5
<1> DEFINE n == 5
<1>1. n \in Nat \ {0}
  OBVIOUS
<1> HIDE DEF n
<1>2. LET kept == LastRuns(runs, n)
      IN  /\ kept \in Seq(Int)
          /\ Len(kept) = IF Len(runs) <= n THEN Len(runs) ELSE n
          /\ \A i \in 1 .. Len(kept) : kept[i] = runs[Len(runs) - Len(kept) + i]
  BY <1>1, LastRunsLast
<1> DEFINE m == Len(runs)
           k == Len(LastRuns(runs, n))
<1>3. m \in Nat /\ k = IF m <= 5 THEN m ELSE 5
  BY <1>2, LenProperties DEF n
<1> HIDE DEF m, k
<1>4. k \in 0 .. 5 /\ (m >= 5 => k = 5)
  BY <1>3
<1> QED BY <1>2, <1>3, <1>4 DEF n, m, k

\* Not every value lies below the mean.
LEMMA NotAllBelow ==
  ASSUME NEW a \in Int, NEW b \in Int, NEW c \in Int, NEW d \in Int, NEW x \in Int,
         NEW sum, NEW n, n = 5, sum = a + b + c + d + x
  PROVE  \/ ~(sum - n * a > 0) \/ ~(sum - n * b > 0) \/ ~(sum - n * c > 0)
         \/ ~(sum - n * d > 0) \/ ~(sum - n * x > 0)
OBVIOUS

LEMMA NoSuddenDrop ==
  ASSUME NEW runs \in Seq(Int)
  PROVE  ~SuddenDrop(runs)
<1> DEFINE v == LastRuns(runs, 5)
           n == Len(v)
           x == v[n]
           stats == WindowStats(v)
           gap == stats.sum - stats.n * x
<1>1. /\ v \in Seq(Int) /\ n \in 0 .. 5
      /\ n >= 3 => Last(runs) = x
  <2>1. /\ v \in Seq(Int)
        /\ n = IF Len(runs) <= 5 THEN Len(runs) ELSE 5
        /\ \A i \in 1 .. n : v[i] = runs[Len(runs) - n + i]
    BY LastFive
  <2> HIDE DEF v
  <2>2. Len(runs) \in Nat /\ n \in 0 .. 5
    BY LastFive DEF v
  <2> HIDE DEF n
  <2>3. n >= 3 => n \in 1 .. n /\ Len(runs) - n + n = Len(runs)
    BY <2>2
  <2> QED BY <2>1, <2>2, <2>3 DEF Last, n
<1> HIDE DEF v
<1>2. /\ stats.n = WindowStats(v).n
      /\ SuddenDrop(runs) => stats.n >= 3 /\ BelowDeviations(Last(runs), stats, 5, 2)
  BY DEF SuddenDrop, v
<1>3. stats.n = n
  BY DEF WindowStats
<1> SUFFICES ASSUME n >= 3, BelowDeviations(x, stats, 5, 2) PROVE FALSE
  BY <1>1, <1>2, <1>3
<1>4. /\ stats.sum = Partial(v, n) /\ stats.spread = n * Squares(v, n) - Partial(v, n) * Partial(v, n)
      /\ \A i \in 1 .. n : v[i] \in Int
  <2>1. n \in 3 .. 5
    BY <1>1
  <2> HIDE DEF n
  <2>2. Len(v) = n
    BY DEF n
  <2> QED BY <1>1, <2>1, <2>2, StatsOfFew, ElementOfSeq
<1>5. gap > 0 /\ 2 * 2 * gap * gap > 5 * 5 * stats.spread
  BY DEF BelowDeviations
<1> HIDE DEF n, stats
<1>6. CASE n = 5
  <2> DEFINE a == v[1]
             b == v[2]
             c == v[3]
             d == v[4]
             y == v[5]
  <2>1. a \in Int /\ b \in Int /\ c \in Int /\ d \in Int /\ y \in Int
    BY <1>4, <1>6
  <2>2. /\ gap = (a + b + c + d + y) - 5 * y
        /\ stats.spread = 5 * (a * a + b * b + c * c + d * d + y * y)
                            - (a + b + c + d + y) * (a + b + c + d + y)
    BY <1>3, <1>4, <1>6 DEF Partial, Squares
  <2> HIDE DEF a, b, c, d, y, gap
  <2>3. gap \in Int /\ stats.spread \in Int
    BY <2>1, <2>2
  <2> QED BY <1>5, <2>1, <2>2, <2>3, FarBelowFive
<1>7. CASE n = 4
  <2> DEFINE a == v[1]
             b == v[2]
             c == v[3]
             y == v[4]
  <2>1. a \in Int /\ b \in Int /\ c \in Int /\ y \in Int
    BY <1>4, <1>7
  <2>2. /\ gap = (a + b + c + y) - 4 * y
        /\ stats.spread = 4 * (a * a + b * b + c * c + y * y) - (a + b + c + y) * (a + b + c + y)
    BY <1>3, <1>4, <1>7 DEF Partial, Squares
  <2> HIDE DEF a, b, c, y, gap
  <2>3. gap \in Int /\ stats.spread \in Int
    BY <2>1, <2>2
  <2> QED BY <1>5, <2>1, <2>2, <2>3, FarBelowFour
<1>8. CASE n = 3
  <2> DEFINE a == v[1]
             b == v[2]
             y == v[3]
  <2>1. a \in Int /\ b \in Int /\ y \in Int
    BY <1>4, <1>8
  <2>2. /\ gap = (a + b + y) - 3 * y
        /\ stats.spread = 3 * (a * a + b * b + y * y) - (a + b + y) * (a + b + y)
    BY <1>3, <1>4, <1>8 DEF Partial, Squares
  <2> HIDE DEF a, b, y, gap
  <2>3. gap \in Int /\ stats.spread \in Int
    BY <2>1, <2>2
  <2> QED BY <1>5, <2>1, <2>2, <2>3, FarBelowThree
<1>9. n = 3 \/ n = 4 \/ n = 5
  BY <1>1
<1> QED BY <1>6, <1>7, <1>8, <1>9

\* Of five values one is not below their mean, so of five runs one is good, and
\* the newest good run of all is one of them.
LEMMA GoodRunIsRecent ==
  ASSUME NEW runs \in Seq(Int), Len(runs) >= 5
  PROVE  LastGoodRun(runs) \in (Len(runs) - 4) .. Len(runs)
<1> DEFINE v == LastRuns(runs, 5)
           stats == WindowStats(v)
           len == Len(runs)
           Good(i) == ~BelowDeviations(runs[i], stats, 1, 2)
           good == {i \in DOMAIN runs : Good(i)}
           newest == CHOOSE i \in good : \A j \in good : j <= i
<1>1. len \in Nat /\ len >= 5 /\ DOMAIN runs = 1 .. len
  BY LenProperties
<1>2. /\ v \in Seq(Int) /\ Len(v) = 5
      /\ v[1] = runs[len - 4] /\ v[2] = runs[len - 3] /\ v[3] = runs[len - 2]
      /\ v[4] = runs[len - 1] /\ v[5] = runs[len]
  <2>1. v \in Seq(Int) /\ Len(v) = 5 /\ \A i \in 1 .. 5 : v[i] = runs[len - 5 + i]
    <3>1. /\ v \in Seq(Int) /\ Len(v) = 5
          /\ \A i \in 1 .. Len(v) : v[i] = runs[Len(runs) - Len(v) + i]
      BY LastFive
    <3> HIDE DEF v
    <3> QED BY <3>1
  <2> HIDE DEF v, len
  <2>2. len - 5 + 1 = len - 4 /\ len - 5 + 2 = len - 3 /\ len - 5 + 3 = len - 2
        /\ len - 5 + 4 = len - 1 /\ len - 5 + 5 = len
    BY <1>1
  <2>3. 1 \in 1 .. 5 /\ 2 \in 1 .. 5 /\ 3 \in 1 .. 5 /\ 4 \in 1 .. 5 /\ 5 \in 1 .. 5
    OBVIOUS
  <2> QED BY <2>1, <2>2, <2>3
<1> HIDE DEF v
<1>3. stats.n = 5 /\ stats.sum = v[1] + v[2] + v[3] + v[4] + v[5]
  <2> DEFINE n == 5
  <2>1. n \in 3 .. 5 /\ Len(v) = n
    BY <1>2
  <2> HIDE DEF n
  <2>2. stats.n = n /\ stats.sum = Partial(v, n)
    BY <1>2, <2>1, StatsOfFew
  <2> HIDE DEF stats
  <2> QED BY <2>2 DEF Partial, n
<1>4. v[1] \in Int /\ v[2] \in Int /\ v[3] \in Int /\ v[4] \in Int /\ v[5] \in Int
  <2>1. \A i \in 1 .. 5 : v[i] \in Int
    BY <1>2, ElementOfSeq
  <2> QED BY <2>1
<1> HIDE DEF stats
<1>5. \/ ~(stats.sum - stats.n * v[1] > 0) \/ ~(stats.sum - stats.n * v[2] > 0)
      \/ ~(stats.sum - stats.n * v[3] > 0) \/ ~(stats.sum - stats.n * v[4] > 0)
      \/ ~(stats.sum - stats.n * v[5] > 0)
  <2> DEFINE sum == stats.sum
             n == stats.n
             a == v[1]
             b == v[2]
             c == v[3]
             d == v[4]
             x == v[5]
  <2>1. n = 5 /\ sum = a + b + c + d + x
    BY <1>3
  <2>2. a \in Int /\ b \in Int /\ c \in Int /\ d \in Int /\ x \in Int
    BY <1>4
  <2> HIDE DEF sum, n, a, b, c, d, x
  <2>3. \/ ~(sum - n * a > 0) \/ ~(sum - n * b > 0) \/ ~(sum - n * c > 0)
        \/ ~(sum - n * d > 0) \/ ~(sum - n * x > 0)
    BY <2>1, <2>2, NotAllBelow
  <2> QED BY <2>3, Zenon DEF sum, n, a, b, c, d, x
<1>6. Good(len - 4) \/ Good(len - 3) \/ Good(len - 2) \/ Good(len - 1) \/ Good(len)
  BY <1>2, <1>5 DEF BelowDeviations
<1> HIDE DEF Good, len
<1>7. \E i \in (len - 4) .. len : Good(i) /\ \A j \in 1 .. len : Good(j) => j <= i
  <2>1. CASE Good(len)
    BY <1>1, <2>1
  <2>2. CASE ~Good(len) /\ Good(len - 1)
    BY <1>1, <2>2
  <2>3. CASE ~Good(len) /\ ~Good(len - 1) /\ Good(len - 2)
    BY <1>1, <2>3
  <2>4. CASE ~Good(len) /\ ~Good(len - 1) /\ ~Good(len - 2) /\ Good(len - 3)
    BY <1>1, <2>4
  <2>5. CASE ~Good(len) /\ ~Good(len - 1) /\ ~Good(len - 2) /\ ~Good(len - 3) /\ Good(len - 4)
    BY <1>1, <2>5
  <2> QED BY <1>6, <2>1, <2>2, <2>3, <2>4, <2>5
<1>8. PICK top \in (len - 4) .. len : Good(top) /\ \A j \in 1 .. len : Good(j) => j <= top
  BY <1>7
<1>9. top \in good /\ (\A j \in good : j <= top) /\ good \subseteq 1 .. len /\ good # {}
  BY <1>1, <1>8
<1>10. newest = top
  <2>1. newest \in good /\ \A j \in good : j <= newest
    BY <1>9
  <2> HIDE DEF newest, good
  <2> QED BY <1>1, <1>8, <1>9, <2>1
<1>11. LastGoodRun(runs) = newest
  <2>1. good = {i \in DOMAIN runs : ~BelowDeviations(runs[i], stats, 1, 2)}
    BY DEF Good
  <2> HIDE DEF good
  <2> QED BY <1>9, <2>1 DEF LastGoodRun, stats, v, newest
<1>12. newest \in (len - 4) .. len
  BY <1>8, <1>10
<1> HIDE DEF newest
<1> QED BY <1>11, <1>12 DEF len

\* What each of the readers made of the measurements.
ReadersInv ==
    MorningAfter =>
        /\ adaptation = ComputeDriftAdaptation(measurements)
        /\ rollback = RollbackRecord(ComputeDriftAdaptation(measurements))
        /\ screen.drift = DriftStatus(measurements)

LEMMA ReadersInduct ==
  /\ MeasuresInit => ReadersInv
  /\ ReadersInv /\ [MeasuresNext]_measures_vars => ReadersInv'
<1>1. MeasuresInit => ReadersInv
  BY DEF MeasuresInit, ReadersInv, MorningAfter
<1>2. ASSUME Hypothesize \/ Test \/ ApplyFailureLedgerWrites PROVE ReadersInv'
  <2>1. phase' # "OBSERVING"
    BY <1>2 DEF Hypothesize, Test, ApplyFailureLedgerWrites
  <2> QED BY <2>1 DEF ReadersInv, MorningAfter
<1>3. ASSUME Aggregate PROVE ReadersInv'
  <2>1. /\ adaptation' = ComputeDriftAdaptation(measurements)
        /\ rollback' = RollbackRecord(ComputeDriftAdaptation(measurements))
        /\ screen'.drift = DriftStatus(measurements)
        /\ measurements' = measurements
    BY <1>3 DEF Aggregate
  <2> QED BY <2>1 DEF ReadersInv
<1>4. ASSUME ReadersInv, UNCHANGED measures_vars PROVE ReadersInv'
  <2>1. UNCHANGED <<adaptation, rollback, screen, measurements, night_count, phase>>
    BY <1>4 DEF measures_vars, ledger_vars
  <2> QED BY <1>4, <2>1 DEF ReadersInv, MorningAfter
<1> QED BY <1>1, <1>2, <1>3, <1>4 DEF MeasuresNext

\* The sandbox, the controller and the morning screen judge the drift of the
\* benchmark apart and come to one answer, that of the slope of at least five
\* runs, and a recovery has one of the last five runs to go back to
\* (drift_monitor.ts, compute; drift_adaptation.ts, computeDriftAdaptation;
\* rollback_executor.ts; phase_d_aggregator.ts). The z-score of a run within its
\* own window of five never reaches the threshold of two and a half.
THEOREM ReadersOfDriftAgree == MeasuresSpec => []DriftReadersAgree
<1>1. ASSUME HistoryInv, ReadersInv PROVE DriftReadersAgree
  <2> SUFFICES ASSUME MorningAfter PROVE DriftReadersAgree
    BY DEF DriftReadersAgree
  <2> DEFINE falling == /\ Len(measurements) >= 5 /\ HasSlope(measurements)
                        /\ Falling(OlsSlope(LastRuns(measurements, 20)))
  <2>1. measurements \in Seq(Int) /\ Len(measurements) \in Nat
    BY <1>1, MeasuresInputs, SeqMonotonic, LenProperties DEF HistoryInv
  <2>2. PromotionBlocked(measurements) <=> falling
    <3>1. Len(measurements) >= 5 => measurements # <<>>
      BY <2>1, EmptySeq
    <3> QED BY <2>1, <3>1, NoSuddenDrop DEF PromotionBlocked, DriftDetected
  <2>3. falling => LastGoodRun(measurements) \in (Len(measurements) - 4) .. Len(measurements)
    BY <2>1, GoodRunIsRecent
  <2>4. DriftStatus(measurements) = "DEGRADING" <=> PromotionBlocked(measurements)
    <3>1. CASE Len(measurements) < 5
      BY <3>1, <2>1 DEF DriftStatus, PromotionBlocked
    <3>2. CASE Len(measurements) >= 5 /\ DriftDetected(measurements)
      BY <3>2, <2>1 DEF DriftStatus, PromotionBlocked
    <3>3. CASE Len(measurements) >= 5 /\ ~DriftDetected(measurements)
      BY <3>3, <2>1 DEF DriftStatus, PromotionBlocked
    <3> QED BY <2>1, <3>1, <3>2, <3>3
  <2> HIDE DEF falling
  <2>5. /\ adaptation.blocked = PromotionBlocked(measurements)
        /\ adaptation.ceiling = IF PromotionBlocked(measurements) THEN "SELF" ELSE "none"
        /\ rollback = IF PromotionBlocked(measurements) THEN LastGoodRun(measurements) ELSE NoRun
        /\ screen.drift = DriftStatus(measurements)
    BY <1>1 DEF ReadersInv, ComputeDriftAdaptation, RollbackRecord
  <2>6. falling => rollback # NoRun /\ rollback \in (Len(measurements) - 4) .. Len(measurements)
    <3>1. falling => Len(measurements) >= 5
      BY DEF falling
    <3> QED BY <2>1, <2>2, <2>3, <2>5, <3>1 DEF NoRun
  <2>7. /\ adaptation.blocked <=> falling
        /\ Ceiling = "SELF" <=> falling
        /\ screen.drift = "DEGRADING" <=> falling
        /\ rollback # NoRun <=> falling
    BY <2>2, <2>4, <2>5, <2>6 DEF Ceiling
  <2> QED BY <2>6, <2>7 DEF DriftReadersAgree, falling
<1> QED BY HistoryMeasured, ReadersInduct, <1>1, PTL DEF MeasuresSpec

=============================================================================
