------------------------------ MODULE Proposals -----------------------------
(***************************************************************************)
(* What Phase A tells the model and what it takes from it. A night         *)
(* compares the environment with the stored profile and replaces it,       *)
(* builds the prompt from the failure ledger, the observations and the     *)
(* shift, and accepts the reply as a whole or not at all. The rejections   *)
(* of the night enter the ledger, the cycle the lineage with its morning.  *)
(* A night that fails is resumed, or the next begins without it.           *)
(***************************************************************************)
EXTENDS Observation

CONSTANTS
    Codes,            \* codes of the failure ledger
    GraveCodes,       \* F-001 and F-003, critical from the first time
    MaxConstraints,   \* max_injected_constraints
    Window,           \* recent_cycles_window
    Observations,     \* what may be observed: sequences of [kind, count]
    MaxSeeds,         \* max_focus_seeds
    Replies,          \* what the model may answer: [shape, candidates]
    Worlds,           \* environments: what each field of the profile really is
    Hidden,           \* fields a capture may fail to read
    Unavailable,
    NoProfile,        \* before the first night
    MaxCycles,        \* bound: cycles
    MaxFailures       \* bound: failed nights

Kinds == {"invariant_stress", "flaky_regression", "error_log"}

ASSUME PromptInputs ==
    /\ IsFiniteSet(Codes)
    /\ MaxConstraints \in Nat /\ MaxSeeds \in Nat /\ Window \in Nat
    /\ Observations \subseteq Seq([kind : Kinds, count : Nat \ {0}])

VARIABLES
    cycle,            \* the cycle of the night
    stage,            \* the part of the night that comes next
    failure_ledger,   \* sequence of [code, count, last]
    lineage,          \* cycles with a morning, the latest first
    world,            \* the environment as it is
    profile,          \* environment_profile.json
    shift,            \* the shift the night found
    prompt,           \* of the night: [constraints, observed, seeds], the constraints a set
                      \* of ledger entries, the seeds a set of places in observed
    candidates,       \* what it tests
    mornings,         \* the last two morning results: [shift, captured]
    failures          \* nights that failed

proposals_vars == <<cycle, stage, failure_ledger, lineage, world, profile, shift, prompt, candidates, mornings, failures>>

SeedCycle == 0
NoPrompt == [constraints |-> {}, observed |-> <<>>, seeds |-> {}]

ProposalsInit ==
    /\ cycle = 1 /\ stage = "profile"
    /\ failure_ledger = <<>> /\ lineage = <<>>
    /\ world \in Worlds /\ profile = NoProfile /\ shift = {}
    /\ prompt = NoPrompt /\ candidates = <<>>
    /\ mornings = <<>> /\ failures = 0

-----------------------------------------------------------------------------
(* The environment                                                           *)

\* The fields that differ, where both profiles have them.
DetectWorldShift(before, captured) ==
    IF before = NoProfile THEN {}
    ELSE {f \in DOMAIN captured : /\ before[f] # captured[f]
                                  /\ Unavailable \notin {before[f], captured[f]}}

ShiftSeverity(fields) ==
    CASE "model" \in fields \/ {"dependencies", "benchmark"} \subseteq fields -> "HIGH"
      [] OTHER -> IF fields \cap {"dependencies", "benchmark", "repo_shape"} # {} THEN "MEDIUM" ELSE "LOW"

EnvironmentStatus(fields) ==
    IF fields = {} THEN "STABLE" ELSE IF ShiftSeverity(fields) = "HIGH" THEN "HOSTILE" ELSE "SHIFTING"

Captures == {[f \in DOMAIN world |-> IF f \in unread THEN Unavailable ELSE world[f]] : unread \in SUBSET Hidden}

\* The codes in some order, that of the seed file.
Listing(codes) ==
    CHOOSE q \in [1 .. Cardinality(codes) -> codes] : \A i, j \in DOMAIN q : q[i] = q[j] => i = j

\* An operator seeds the ledger with the codes it lacks, none of them seen yet, or
\* replaces it with the seeds.
SeedFailureLedger ==
    /\ stage = "profile"
    /\ LET seeds(codes) ==
             [i \in 1 .. Cardinality(codes) |-> [code |-> Listing(codes)[i], count |-> 0, last |-> SeedCycle]]
           missing == Codes \ {failure_ledger[i].code : i \in DOMAIN failure_ledger}
       IN  failure_ledger' \in {failure_ledger \o seeds(missing), seeds(Codes)}
    /\ UNCHANGED <<cycle, stage, lineage, world, profile, shift, prompt, candidates, mornings, failures>>

WorldChanges ==
    /\ world' \in Worlds \ {world}
    /\ stage = "profile"
    /\ UNCHANGED <<cycle, stage, failure_ledger, lineage, profile, shift, prompt, candidates, mornings, failures>>

\* The stored profile is that of the last start of a night, this one's if it is resumed.
CaptureProfile ==
    /\ stage = "profile" /\ cycle <= MaxCycles
    /\ \E captured \in Captures :
         shift' = DetectWorldShift(profile, captured) /\ profile' = captured
    /\ stage' = "prompt"
    /\ UNCHANGED <<cycle, failure_ledger, lineage, world, prompt, candidates, mornings, failures>>

-----------------------------------------------------------------------------
(* The prompt                                                                *)

Severity(entry) ==
    IF entry.code \in GraveCodes \/ entry.count >= 3 THEN "CRITICAL"
    ELSE IF entry.count >= 2 THEN "WARN" ELSE "INFO"

\* The place of its last cycle in the lineage; a cycle without a morning has none.
Ages(entry) == {i \in DOMAIN lineage : lineage[i] = entry.last}

Age(entry) == CHOOSE i \in Ages(entry) : TRUE

Recent(entry) == \E i \in Ages(entry) : i <= Window

\* The first n of S, where before has <<x, y>> when x comes before y.
FirstOf(n, S, before) == {x \in S : Cardinality({y \in S : <<y, x>> \in before}) < n}

Critical == {i \in DOMAIN failure_ledger : Severity(failure_ledger[i]) = "CRITICAL"}
Passing == {i \in DOMAIN failure_ledger \ Critical : Recent(failure_ledger[i])}

\* Mutant: the cap is taken before the critical entries are set apart.
ConstitutionLayer_CutsFirst ==
    LET selected == Critical \cup Passing
    IN  {failure_ledger[i] : i \in FirstOf(MaxConstraints, selected, {p \in selected \X selected : p[1] < p[2]})}

\* The later one first, of two of one night that which stands first.
Fresher ==
    LET age(i) == Age(failure_ledger[i])
    IN  {p \in Passing \X Passing : age(p[1]) < age(p[2]) \/ (age(p[1]) = age(p[2]) /\ p[1] < p[2])}

\* Critical entries however old, the others of recent nights; over the cap all
\* critical ones, and the others by recency while there is room.
ConstitutionLayer ==
    LET room == IF Cardinality(Critical) < MaxConstraints THEN MaxConstraints - Cardinality(Critical) ELSE 0
    IN  {failure_ledger[i] : i \in Critical \cup FirstOf(room, Passing, Fresher)}

Impact(seed) ==
    LET high == IF seed.kind = "invariant_stress" THEN 2 ELSE IF seed.kind = "flaky_regression" THEN 3 ELSE 5
    IN  IF seed.count >= high THEN 2
        ELSE IF seed.kind \in {"invariant_stress", "flaky_regression"} \/ seed.count >= 2 THEN 1 ELSE 0

\* The order in which the kinds are collected. Workflows have no baselines, so none of
\* them is slow.
Collected(seed) == IF seed.kind = "invariant_stress" THEN 1 ELSE IF seed.kind = "flaky_regression" THEN 2 ELSE 3

\* By impact, then as they were collected.
Graver(observed) ==
    LET before(i, j) ==
          LET a == observed[i]
              b == observed[j]
          IN  \/ Impact(a) > Impact(b)
              \/ /\ Impact(a) = Impact(b)
                 /\ Collected(a) < Collected(b) \/ (Collected(a) = Collected(b) /\ i < j)
    IN  {p \in (DOMAIN observed) \X (DOMAIN observed) : before(p[1], p[2])}

FocusSeeds(observed) == FirstOf(MaxSeeds, DOMAIN observed, Graver(observed))

RenderPrompt ==
    /\ stage = "prompt"
    /\ \E observed \in Observations :
         prompt' = [constraints |-> ConstitutionLayer, observed |-> observed, seeds |-> FocusSeeds(observed)]
    /\ stage' = "reply"
    /\ UNCHANGED <<cycle, failure_ledger, lineage, world, profile, shift, candidates, mornings, failures>>

-----------------------------------------------------------------------------
(* The reply                                                                 *)

\* JSON, if it is complete; what is not a list of candidates counts as empty.
Parsed(reply) == IF reply.shape = "list" THEN reply.candidates ELSE <<>>

\* Acceptance criteria with a predicted gain, and no constraint knowingly broken.
Valid(candidate) == candidate.criteria /\ candidate.gain # 0 /\ ~candidate.violates

\* One candidate that is not valid is enough to refuse them all.
Acceptable(reply) ==
    /\ reply.shape \notin {"no_answer", "truncated", "not_json"}
    /\ \A i \in DOMAIN Parsed(reply) : Valid(Parsed(reply)[i])

TakeReply ==
    /\ stage = "reply"
    /\ \E reply \in Replies : Acceptable(reply) /\ candidates' = Parsed(reply)
    /\ stage' = "test"
    /\ UNCHANGED <<cycle, failure_ledger, lineage, world, profile, shift, prompt, mornings, failures>>

\* A refused reply, an error or a crash ends the night, which the operator
\* resumes from its start, or leaves for the next.
NightFails ==
    /\ stage \in {"prompt", "reply", "test", "morning"} /\ failures < MaxFailures
    /\ stage = "reply" => \E reply \in Replies : ~Acceptable(reply)
    /\ stage' = "profile" /\ cycle' \in {cycle, cycle + 1}
    /\ failures' = failures + 1
    /\ shift' = {} /\ prompt' = NoPrompt /\ candidates' = <<>>
    /\ UNCHANGED <<failure_ledger, lineage, world, profile, mornings>>

\* A rejection counts its code up and dates it.
Record(code) ==
    IF \E i \in DOMAIN failure_ledger : failure_ledger[i].code = code
    THEN [i \in DOMAIN failure_ledger |->
            IF failure_ledger[i].code = code
            THEN [code |-> code, count |-> failure_ledger[i].count + 1, last |-> cycle] ELSE failure_ledger[i]]
    ELSE Append(failure_ledger, [code |-> code, count |-> 1, last |-> cycle])

TestCandidates ==
    /\ stage = "test"
    /\ \/ candidates # <<>> /\ \E code \in Codes : failure_ledger' = Record(code)
       \/ UNCHANGED failure_ledger
    /\ stage' = "morning"
    /\ UNCHANGED <<cycle, lineage, world, profile, shift, prompt, candidates, mornings, failures>>

MaxLineage == 7

WriteMorning ==
    /\ stage = "morning"
    /\ mornings' = Append(IF Len(mornings) = 2 THEN Tail(mornings) ELSE mornings,
                          [shift |-> shift, captured |-> profile])
    /\ lineage' = SubSeq(<<cycle>> \o lineage, 1, IF Len(lineage) < MaxLineage THEN Len(lineage) + 1 ELSE MaxLineage)
    /\ stage' = "profile" /\ cycle' = cycle + 1
    /\ shift' = {} /\ prompt' = NoPrompt /\ candidates' = <<>>
    /\ UNCHANGED <<failure_ledger, world, profile, failures>>

ProposalsNext ==
    \/ SeedFailureLedger \/ WorldChanges \/ CaptureProfile \/ RenderPrompt \/ TakeReply \/ NightFails
    \/ TestCandidates \/ WriteMorning

ProposalsSpec == ProposalsInit /\ [][ProposalsNext]_proposals_vars

-----------------------------------------------------------------------------
(* Properties                                                                *)

\* No lesson is forgotten that matters: whatever nights failed, the prompt has
\* every critical failure of the ledger, seeded or seen, and one of the last nights with a
\* morning is left out only when the cap is full of critical ones and of
\* failures seen no earlier than it. The seeds, too, are the gravest of what was
\* observed.
PromptWarns ==
    stage = "reply" =>
      /\ \A i \in DOMAIN failure_ledger :
            LET e == failure_ledger[i]
            IN  e \notin prompt.constraints =>
                  /\ Severity(e) # "CRITICAL"
                  /\ e.last \in {lineage[k] : k \in 1 .. (IF Len(lineage) < Window THEN Len(lineage) ELSE Window)} =>
                       /\ Cardinality(prompt.constraints) >= MaxConstraints
                       /\ \A p \in prompt.constraints : Severity(p) = "CRITICAL" \/ p.last >= e.last
      /\ \A i \in DOMAIN prompt.observed \ prompt.seeds :
            /\ Cardinality(prompt.seeds) = MaxSeeds
            /\ \A k \in prompt.seeds : Impact(prompt.observed[k]) >= Impact(prompt.observed[i])

\* nightly_loop_runner.ts:400: the profile is compared "with the previous cycle's",
\* and a shift is included in the morning result.
ShiftsAreTold ==
    Len(mornings) = 2 =>
    \A f \in DOMAIN world :
        /\ mornings[2].captured[f] # mornings[1].captured[f]
        /\ Unavailable \notin {mornings[1].captured[f], mornings[2].captured[f]}
        => f \in mornings[2].shift

=============================================================================
