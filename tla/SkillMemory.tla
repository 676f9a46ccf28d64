----------------------------- MODULE SkillMemory ----------------------------
(***************************************************************************)
(* The memory of promoted patches (adaptation_memory_writer.ts): an        *)
(* append-only log, two sidecars that count over it, and the skill tree    *)
(* the morning result draws from the three. A night appends its            *)
(* promotions, then updates the sidecars, then builds the tree; each step  *)
(* may fail half-way or be the last before a crash, and the resumed night  *)
(* does all of them again. An append that broke off leaves a line without  *)
(* an end, to which the next append adds its first; what does not parse is *)
(* skipped by every reader.                                                *)
(*                                                                         *)
(* Scores are in ten-thousandths, as toFixed(4) rounds them; a day of the  *)
(* model is one half-life of 14 days.                                      *)
(***************************************************************************)
EXTENDS Totals, Sequences, FiniteSets, Functions, TLC

CONSTANTS
    SkillBatches,   \* what a night may promote: sequences of skills
    Environments,   \* environment_status of a night, or NoEnvironment
    NoEnvironment,
    Decay,          \* Decay[n + 1]: what n half-lives leave of a score
    TreeMaxNodes,   \* nodes of the tree (20 in the code)
    TreeEntries,    \* lines the tree and the meta-strategy look at (200)
    HintEntries,    \* lines the hints look at (50)
    MaxHints,       \* hints of a prompt (5)
    MaxHot,         \* targets the meta-strategy names (3)
    ExpiredMax,     \* entries of the death log (5)
    MaxEntries,     \* bound: entries of the log
    MaxDay          \* bound: days

SkillType == [key : STRING, target : STRING, blast : {"SELF", "TENANT", "GLOBAL"},
              delta : Nat, lines : Nat, fulfills : SUBSET STRING]

\* What is promoted does not lower the stability index (P-02, phase_c_orchestrator.ts:212),
\* and a key is a target and words of a title, with "::" between them.
ASSUME SkillInputs ==
    /\ SkillBatches \subseteq Seq(SkillType)
    /\ \A b \in SkillBatches : \A i \in DOMAIN b : b[i].key # ""
    /\ NoEnvironment \notin Environments
    /\ {TreeMaxNodes, TreeEntries, HintEntries, MaxHints, MaxHot, ExpiredMax} \subseteq Nat \ {0}
    /\ HintEntries <= TreeEntries /\ MaxHints <= TreeMaxNodes

VARIABLES
    day,
    step,           \* the part of the night's end that comes next
    batch,          \* promotions of the night
    env,            \* its environment
    entries,        \* adaptation_memory.jsonl: what was written, entry by entry
    partial,        \* the places of those without a newline after them
    reuse,          \* _reuse_stats.json: key -> count
    env_scores,     \* _env_scores.json: key -> buckets in order of their creation
    generation,     \* _civ_generation.json
    disturbed       \* did a step fail, or a night resume? (bound: once)

log_file == <<entries, partial>>
memory_vars == <<day, step, batch, env, log_file, reuse, env_scores, generation, disturbed>>

MemoryInit ==
    /\ day = 0 /\ step = "idle"
    /\ batch = <<>> /\ env = NoEnvironment
    /\ entries = <<>> /\ partial = {} /\ reuse = <<>> /\ env_scores = <<>>
    /\ generation = [current |-> 1, collapses |-> 0, history |-> <<>>]
    /\ disturbed = FALSE

Round(num, den) == (2 * num + den) \div (2 * den)

SumOver(values) == SumOf(values, DOMAIN values)

-----------------------------------------------------------------------------
(* Writing                                                                   *)

ReuseCount(key) == IF key \in DOMAIN reuse THEN reuse[key] ELSE 0

Buckets(key) == IF key \in DOMAIN env_scores THEN env_scores[key] ELSE <<>>

\* The stability delta, in thousandths, weighs .4 up to .010; a patch of at
\* least one line .2 + .2; reuse up to .2; an attribution .1; all of 1.1.
ComputeHintScore(skill, reused) ==
    LET raw == (IF skill.delta < 10 THEN skill.delta ELSE 10) * 400
                 + (IF skill.lines > 0 THEN 4000 ELSE 0)
                 + (IF skill.fulfills = {} THEN 0 ELSE 1000)
    IN  Round(10 * (raw * (reused + 1) + 2000 * reused), 11 * (reused + 1))

BuildEntry(skill) ==
    [key |-> skill.key, target |-> skill.target, blast |-> skill.blast,
     fulfills |-> skill.fulfills, env |-> env, day |-> day,
     hint |-> ComputeHintScore(skill, ReuseCount(skill.key))]

Promote ==
    /\ step = "idle"
    /\ \E b \in SkillBatches, e \in Environments \cup {NoEnvironment} : batch' = b /\ env' = e
    /\ step' = "append"
    /\ UNCHANGED <<day, log_file, reuse, env_scores, generation, disturbed>>

\* What is left of an entry that was written in part: no entry of any key.
Fragment(recorded) ==
    [key |-> "", target |-> "", blast |-> "SELF", fulfills |-> {}, env |-> NoEnvironment, day |-> recorded, hint |-> 0]

NightEntries == [i \in DOMAIN batch |-> BuildEntry(batch[i])]

AppendEntries ==
    /\ step = "append" /\ Len(entries) + Len(batch) <= MaxEntries
    /\ entries' = entries \o NightEntries
    /\ step' = IF batch = <<>> THEN "tree" ELSE "reuse"
    /\ UNCHANGED <<day, batch, env, partial, reuse, env_scores, generation, disturbed>>

EntriesOf(key) == {i \in DOMAIN entries : entries[i].key = key}

\* A whole entry with a line of its own: a line that holds more does not parse.
Legible(i) ==
    /\ entries[i] # Fragment(entries[i].day) /\ (i - 1) \notin partial
    /\ i \in partial => i = Len(entries)

\* Every earlier entry with a key of the batch that can be read counts once more.
UpdateReuseStats ==
    /\ step = "reuse"
    /\ LET keys == {batch[i].key : i \in DOMAIN batch}
           earlier(key) == Cardinality({i \in EntriesOf(key) : i <= Len(entries) - Len(batch) /\ Legible(i)})
           counted == {key \in keys : earlier(key) > 0}
       IN  reuse' = [key \in DOMAIN reuse \cup counted |->
                       ReuseCount(key) + (IF key \in keys THEN earlier(key) ELSE 0)]
    /\ step' = "env"
    /\ UNCHANGED <<day, batch, env, log_file, env_scores, generation, disturbed>>

\* The scores of entries, added up.
Total(places) == SumOf([i \in places |-> entries[i].hint], places)

\* The entries of a night, at these places, into the buckets of their key.
AddToBuckets(buckets, places) ==
    IF \E i \in DOMAIN buckets : buckets[i].env = env
    THEN [i \in DOMAIN buckets |->
            IF buckets[i].env = env
            THEN [env |-> env, total |-> buckets[i].total + Total(places), count |-> buckets[i].count + Cardinality(places)]
            ELSE buckets[i]]
    ELSE Append(buckets, [env |-> env, total |-> Total(places), count |-> Cardinality(places)])

\* Mutant: every entry of the log is counted again.
UpdateEnvScores_Rescans ==
    /\ step = "env"
    /\ env_scores' =
         LET keys == {batch[i].key : i \in DOMAIN batch}
         IN  IF env = NoEnvironment THEN env_scores
             ELSE [key \in DOMAIN env_scores \cup keys |->
                     IF key \in keys THEN AddToBuckets(Buckets(key), EntriesOf(key)) ELSE env_scores[key]]
    /\ step' = "tree"
    /\ UNCHANGED <<day, batch, env, log_file, reuse, generation, disturbed>>

\* Entries without an environment are skipped.
UpdateEnvScores ==
    /\ step = "env"
    /\ env_scores' =
         LET keys == {batch[i].key : i \in DOMAIN batch}
             new(key) == {i \in EntriesOf(key) : i > Len(entries) - Len(batch)}
         IN  IF env = NoEnvironment THEN env_scores
             ELSE [key \in DOMAIN env_scores \cup keys |->
                     IF key \in keys THEN AddToBuckets(Buckets(key), new(key)) ELSE env_scores[key]]
    /\ step' = "tree"
    /\ UNCHANGED <<day, batch, env, log_file, reuse, generation, disturbed>>

\* The append breaks off after m entries: at the end of a line, before its newline,
\* or within the next entry.
AppendPart ==
    \E m \in 0..Len(batch), ends \in {"line", "open", "torn"} :
        LET written == SubSeq(NightEntries, 1, m) \o (IF ends = "torn" THEN <<Fragment(day)>> ELSE <<>>)
        IN  /\ ends = "open" => m > 0
            /\ ends = "torn" => m < Len(batch)
            /\ Len(entries) + Len(written) <= MaxEntries
            /\ entries' = entries \o written
            /\ partial' = IF ends = "line" THEN partial ELSE partial \cup {Len(entries')}

\* What is left of the write the night is at. A sidecar that was written in part
\* reads as an empty one.
PartWritten ==
    \/ step = "append" /\ AppendPart /\ UNCHANGED <<reuse, env_scores>>
    \/ step = "reuse" /\ reuse' \in {reuse, <<>>} /\ UNCHANGED <<log_file, env_scores>>
    \/ step = "env" /\ env_scores' \in {env_scores, <<>>} /\ UNCHANGED <<log_file, reuse>>

\* The first step that throws ends the writing; the night goes on.
WriteFails ==
    /\ PartWritten /\ batch # <<>> /\ ~disturbed
    /\ step' = "tree" /\ disturbed' = TRUE
    /\ UNCHANGED <<day, batch, env, generation>>

\* A night that is killed before it finished is resumed: from the append.
ResumeNight ==
    /\ PartWritten \/ (step = "tree" /\ UNCHANGED <<log_file, reuse, env_scores>>)
    /\ ~disturbed
    /\ step' = "append" /\ disturbed' = TRUE
    /\ UNCHANGED <<day, batch, env, generation>>

-----------------------------------------------------------------------------
(* The skill tree                                                            *)

MinEffective == 500

\* The entries of the newest n lines. One that can be read begins its line.
Newest(n) ==
    LET lines(i) == Cardinality({j \in i..Len(entries) : (j - 1) \notin partial})
        places == SelectSeq([i \in DOMAIN entries |-> i], LAMBDA i : Legible(i) /\ lines(i) <= n)
    IN  [i \in DOMAIN places |-> entries[places[i]]]

\* Best first; of nearly equal scores the newer, and of one night, whose entries are
\* taken to have one time, the first.
Ranked(places, score(_), recorded(_)) ==
    SortSeq(places, LAMBDA i, j :
        IF score(i) - score(j) \in -1..1
        THEN recorded(i) > recorded(j) \/ (recorded(i) = recorded(j) /\ i < j)
        ELSE score(i) > score(j))

EffectiveScore(hint, recorded) == Round(hint * Decay[day - recorded + 1], 10000)

\* The environment the key was promoted in most often; the first of equals.
PrimaryEnv(key) ==
    LET b == Buckets(key)
    IN  IF b = <<>> THEN NoEnvironment
        ELSE b[CHOOSE i \in DOMAIN b : /\ \A j \in DOMAIN b : b[j].count <= b[i].count
                                       /\ \A j \in 1..(i - 1) : b[j].count < b[i].count].env

\* Tenths; a foreign environment leaves .3.
BiomePenalty(key, current) ==
    IF PrimaryEnv(key) \in {NoEnvironment, current} \/ current = NoEnvironment THEN 10 ELSE 3

\* No environment, no biome score: the effective score stands for it.
BiomeScore(entry, current) ==
    Round(EffectiveScore(entry.hint, entry.day) * BiomePenalty(entry.key, current), 10)

\* Where the bucket of an environment is.
InBucket(key, current) == {i \in DOMAIN Buckets(key) : Buckets(key)[i].env = current}

\* How often an environment was promoted in, and its rank.
Mastery(current) ==
    LET keys == {key \in DOMAIN env_scores : InBucket(key, current) # {}}
        of(key) == env_scores[key][CHOOSE i \in InBucket(key, current) : TRUE]
        promotions == SumOf([key \in keys |-> of(key).count], keys)
        rank == IF promotions >= 10 THEN "MASTER" ELSE IF promotions >= 3 THEN "APPRENTICE" ELSE "NOVICE"
    IN  [promotions |-> promotions, rank |-> rank,
         wins |-> Cardinality({key \in keys : of(key).total >= 5000 * of(key).count})]

SelectionPressure(effective, biome, penalty, current, reused) ==
    IF effective < 2000 \/ (current # NoEnvironment /\ biome < 1000) THEN "PRUNE"
    ELSE IF effective >= 5000 /\ (reused >= 1 \/ (current # NoEnvironment /\ penalty = 10))
    THEN "PERSIST" ELSE "NEUTRAL"

TechBranch(entry, effective, reused) ==
    CASE Len(Buckets(entry.key)) >= 2 -> "RESILIENCE"
      [] OTHER -> IF entry.blast = "SELF" /\ effective >= 4000 THEN "SPEED"
                  ELSE IF reused >= 1 /\ effective >= 4000 THEN "STABILITY" ELSE "GENERAL"

Node(entry, current) ==
    LET effective == EffectiveScore(entry.hint, entry.day)
        biome == BiomeScore(entry, current)
        reused == ReuseCount(entry.key)
    IN  [key |-> entry.key, target |-> entry.target, effective |-> effective, biome |-> biome,
         pressure |-> SelectionPressure(effective, biome, BiomePenalty(entry.key, current), current, reused),
         branch |-> TechBranch(entry, effective, reused)]

\* The best entries that have not expired, best first.
Nodes(current) ==
    LET recent == Newest(TreeEntries)
        score(i) == EffectiveScore(recent[i].hint, recent[i].day)
        alive == SelectSeq([i \in DOMAIN recent |-> i], LAMBDA i : score(i) >= MinEffective)
        ranked == Ranked(alive, score, LAMBDA i : recent[i].day)
    IN  [i \in 1..(IF Len(ranked) > TreeMaxNodes THEN TreeMaxNodes ELSE Len(ranked)) |->
            Node(recent[ranked[i]], current)]

Leaders(nodes, score(_)) ==
    LET first(t) == CHOOSE i \in DOMAIN nodes :
                      /\ nodes[i].target = t
                      /\ \A j \in DOMAIN nodes : nodes[j].target = t =>
                            score(nodes[j]) < score(nodes[i]) \/ (score(nodes[j]) = score(nodes[i]) /\ i <= j)
    IN  {nodes[first(t)].key : t \in {nodes[i].target : i \in DOMAIN nodes}}

\* Mutant: the environment is not looked at.
DominantKeys_Anywhere(nodes) == Leaders(nodes, LAMBDA n : n.effective)

\* One key for each target: of the first node with the best biome score.
DominantKeys(nodes) == Leaders(nodes, LAMBDA n : n.biome)

\* The position of dominant_strategy: the dominant node with the best effective score.
DominantStrategy(nodes) ==
    LET dominant == {i \in DOMAIN nodes : nodes[i].key \in DominantKeys(nodes)}
    IN  CHOOSE i \in dominant : \A j \in dominant :
            nodes[j].effective < nodes[i].effective \/ (nodes[j].effective = nodes[i].effective /\ i <= j)

SynthesisMinScore == 3000
SynthesisMax == 3

First(n, seq) == SubSeq(seq, 1, IF Len(seq) > n THEN n ELSE Len(seq))

\* The two best nodes of a target are combined, and of the three best combinations the
\* two best once more; of equals the first in the tree.
SynthesizeSkills(nodes) ==
    LET ready == SelectSeq([i \in DOMAIN nodes |-> i], LAMBDA i : nodes[i].effective >= SynthesisMinScore)
        of(t) == SelectSeq(ready, LAMBDA i : nodes[i].target = t)
        best(t) == SortSeq(of(t), LAMBDA i, j : \/ nodes[i].effective > nodes[j].effective
                                                \/ nodes[i].effective = nodes[j].effective /\ i < j)
        score(t) == Round(11 * (nodes[best(t)[1]].effective + nodes[best(t)[2]].effective), 20)
        paired == SelectSeq(ready, LAMBDA i : i = of(nodes[i].target)[1] /\ Len(of(nodes[i].target)) >= 2)
        ranked == SortSeq(paired, LAMBDA i, j :
                    \/ score(nodes[i].target) > score(nodes[j].target)
                    \/ score(nodes[i].target) = score(nodes[j].target) /\ i < j)
        top == First(SynthesisMax,
                     [n \in DOMAIN ranked |->
                        LET t == nodes[ranked[n]].target
                        IN  [level |-> 1, target |-> t, synergy |-> score(t),
                             parts |-> {nodes[best(t)[1]].key, nodes[best(t)[2]].key}, leader |-> nodes[best(t)[1]].key]])
    IN  top \o (IF Len(top) < 2 THEN <<>>
                ELSE <<[level |-> 2, target |-> top[1].target, synergy |-> Round(11 * (top[1].synergy + top[2].synergy), 20),
                        parts |-> top[1].parts \cup top[2].parts, leader |-> top[1].leader]>>)

\* The death log: nodes that are as good as dead in the environment, then the entries
\* that time has ended, the newest first.
RecentlyExpired(nodes) ==
    LET recent == Newest(TreeEntries)
        unfit == SelectSeq([i \in DOMAIN nodes |-> i], LAMBDA i : nodes[i].biome < MinEffective)
        dead == SelectSeq([i \in DOMAIN recent |-> i],
                          LAMBDA i : EffectiveScore(recent[i].hint, recent[i].day) < MinEffective)
        newest == SortSeq(dead, LAMBDA i, j : recent[i].day > recent[j].day \/ (recent[i].day = recent[j].day /\ i < j))
    IN  First(ExpiredMax,
              [n \in DOMAIN unfit |-> [key |-> nodes[unfit[n]].key, pressure |-> nodes[unfit[n]].pressure, reason |-> "biome_mismatch"]]
              \o [n \in DOMAIN newest |-> [key |-> recent[newest[n]].key, pressure |-> "none", reason |-> "ttl_decay"]])

-----------------------------------------------------------------------------
(* What Phase A is told of the memory                                        *)

\* The average of the environment, where the key has one, stands for the entry's own score.
SortScore(entry, current) ==
    LET bucket == Buckets(entry.key)[CHOOSE i \in InBucket(entry.key, current) : TRUE]
    IN  IF InBucket(entry.key, current) = {} THEN EffectiveScore(entry.hint, entry.day)
        ELSE Round(bucket.total * Decay[day - entry.day + 1], 10000 * bucket.count)

\* A stressed invariant lifts what fulfils it, up to 1.
Boosted(entry, current, stressed) ==
    LET lifted == SortScore(entry, current) + (IF entry.fulfills \cap stressed # {} THEN 1500 ELSE 0)
    IN  IF lifted > 10000 THEN 10000 ELSE lifted

\* The best of the recent entries of other nights that have not expired by either
\* score.
Hints(current, stressed) ==
    LET recent == SelectSeq(Newest(HintEntries), LAMBDA e : e.day # day)
        score(i) == Boosted(recent[i], current, stressed)
        eligible == SelectSeq([i \in DOMAIN recent |-> i],
                      LAMBDA i : score(i) >= MinEffective
                                 \/ EffectiveScore(recent[i].hint, recent[i].day) >= MinEffective)
        ranked == Ranked(eligible, score, LAMBDA i : recent[i].day)
    IN  [n \in 1..(IF Len(ranked) > MaxHints THEN MaxHints ELSE Len(ranked)) |-> recent[ranked[n]].key]

MinActive == 3

\* The targets improved most often, of equals the better on average, then the first.
HotTargets ==
    LET active == SelectSeq(Newest(TreeEntries), LAMBDA e : EffectiveScore(e.hint, e.day) >= MinEffective)
        targets == {active[i].target : i \in DOMAIN active}
        of(t) == SelectSeq(active, LAMBDA e : e.target = t)
        average(t) == Round(SumOver([i \in DOMAIN of(t) |-> of(t)[i].hint]), Len(of(t)))
        first(t) == CHOOSE i \in DOMAIN active : active[i].target = t /\ \A j \in 1..(i - 1) : active[j].target # t
        ahead(t, u) == \/ Len(of(t)) > Len(of(u))
                       \/ Len(of(t)) = Len(of(u)) /\ average(t) > average(u)
                       \/ Len(of(t)) = Len(of(u)) /\ average(t) = average(u) /\ first(t) < first(u)
    IN  IF Len(active) < MinActive THEN {}
        ELSE {t \in targets : Cardinality({u \in targets : ahead(u, t)}) < MaxHot}

-----------------------------------------------------------------------------
(* Civilizations. A health is in thousandths.                                *)

\* The average score times the share that is not to be pruned.
Health(nodes) ==
    LET n == Len(nodes)
        kept == Cardinality({i \in DOMAIN nodes : nodes[i].pressure # "PRUNE"})
    IN  IF n = 0 THEN 0
        ELSE Round(SumOver([i \in DOMAIN nodes |-> nodes[i].effective]) * kept, 10 * n * n)

CollapseRisk(health) ==
    IF health < 200 THEN "CRITICAL" ELSE IF health < 400 THEN "WARNING" ELSE "SAFE"

\* Each branch on its own, the healthiest first.
ForkBranches(nodes) ==
    LET members(b) == SelectSeq(nodes, LAMBDA n : n.branch = b)
        all == SelectSeq(<<"SPEED", "STABILITY", "RESILIENCE", "GENERAL">>, LAMBDA b : members(b) # <<>>)
        ranked == SortSeq([i \in DOMAIN all |-> i],
                     LAMBDA i, j : \/ Health(members(all[i])) > Health(members(all[j]))
                                   \/ Health(members(all[i])) = Health(members(all[j])) /\ i < j)
    IN  [i \in DOMAIN ranked |-> [branch |-> all[ranked[i]], health |-> Health(members(all[ranked[i]]))]]

\* How branch i of the ranking competes.
CivStatus(runs, i) ==
    CASE CollapseRisk(runs[i].health) = "CRITICAL" -> "ELIMINATED"
      [] i = 1 /\ CollapseRisk(runs[i].health) = "SAFE" -> "DOMINANT"
      [] OTHER -> "COMPETING"

\* What the intervention recommends.
CivIntervention(nodes) ==
    LET speed == Cardinality({i \in DOMAIN nodes : nodes[i].branch = "SPEED"})
    IN  CASE CollapseRisk(Health(nodes)) = "SAFE" -> {}
          [] CollapseRisk(Health(nodes)) = "CRITICAL" -> {"PRUNE_UNSTABLE", "EMERGENCY_REBUILD"}
          [] OTHER -> {"BOOST_RESILIENCE"} \cup (IF 10 * speed >= 4 * Len(nodes) THEN {"REDUCE_SPEED_BIAS"} ELSE {})

MaxCollapseHistory == 5

LastEvents(events) ==
    IF Len(events) <= MaxCollapseHistory THEN events
    ELSE SubSeq(events, Len(events) - MaxCollapseHistory + 1, Len(events))

\* An aggregation of a night: a civilization at CRITICAL, and an empty memory
\* is, begins its next generation. The day ends with it.
BuildSkillTree ==
    /\ step \in {"idle", "tree"}
    /\ \E current \in IF step = "tree" THEN {env} ELSE Environments :
         LET health == Health(Nodes(current))
         IN  generation' =
               IF CollapseRisk(health) # "CRITICAL" THEN generation
               ELSE [current |-> generation.current + 1,
                     collapses |-> generation.collapses + 1,
                     history |-> LastEvents(Append(generation.history,
                                    [generation |-> generation.current, health |-> health]))]
    /\ day < MaxDay /\ day' = day + 1
    /\ step' = "idle" /\ batch' = <<>> /\ env' = NoEnvironment
    /\ UNCHANGED <<log_file, reuse, env_scores, disturbed>>

MemoryNext ==
    \/ Promote \/ AppendEntries \/ UpdateReuseStats \/ UpdateEnvScores
    \/ WriteFails \/ ResumeNight \/ BuildSkillTree

MemorySpec == MemoryInit /\ [][MemoryNext]_memory_vars

-----------------------------------------------------------------------------
(* Properties                                                                *)

\* The sidecars count over the log and are written after it: whatever append or
\* sidecar was written in part, whatever is done twice, they count no entry that was
\* not written whole. (They do count one that cannot be read, because it shares its line
\* with what was written in part before.) Undisturbed, every entry can be read and is in
\* the bucket of its environment with its score, an environment is mastered by the
\* promotions made in it, and a key counts as reused just when it was promoted on two
\* nights.
SidecarsBackedByLog ==
    /\ \A key \in DOMAIN reuse :
          LET n == Cardinality(EntriesOf(key)) IN reuse[key] > 0 /\ 2 * reuse[key] <= n * (n - 1)
    /\ \A key \in DOMAIN env_scores : \A i \in DOMAIN env_scores[key] :
          LET bucket == env_scores[key][i]
              inEnv == {j \in EntriesOf(key) : entries[j].env = bucket.env}
          IN  /\ bucket.count <= Cardinality(inEnv) /\ bucket.total <= Total(inEnv)
              /\ step = "idle" /\ ~disturbed => bucket.count = Cardinality(inEnv) /\ bucket.total = Total(inEnv)
    /\ step = "idle" /\ ~disturbed =>
          \A k \in DOMAIN entries :
             LET e == entries[k]
             IN  /\ Legible(k)
                 /\ e.env # NoEnvironment => \E i \in DOMAIN Buckets(e.key) : Buckets(e.key)[i].env = e.env
                 /\ e.key \in DOMAIN reuse <=> \E i \in EntriesOf(e.key) : entries[i].day # e.day
                 /\ Mastery(e.env).promotions = IF e.env = NoEnvironment THEN 0
                      ELSE Cardinality({i \in DOMAIN entries : entries[i].env = e.env})

\* The parts of the report agree on who leads in the night's environment, though
\* each ranks by a score of its own: every target has one dominant key without a
\* better rival, the strategy the summary calls dominant leads its target, and the
\* branch the fork recommends is not one the competition eliminates while another
\* survives. What Phase A is told is of the tree where the tree is not cut: every target
\* it recommends and every hint given without an environment is on it, and as long as
\* the hints look at the whole log they are its best nodes.
\* What the death log calls unfit is to be pruned, and what is synthesized without an
\* environment builds on the dominant skill of its target; a civilization that is to
\* prune has what to prune, and one that is safe has a branch that survives alone.
LeadersAgree ==
    step \in {"idle", "tree"} =>
    \A current \in Environments \cup {NoEnvironment} :
        LET nodes == Nodes(current)
            runs == ForkBranches(nodes)
            unbeaten(i) == \A j \in DOMAIN nodes : nodes[j].target = nodes[i].target => nodes[j].biome <= nodes[i].biome
        IN  nodes # <<>> =>
            /\ \A i, j \in DOMAIN nodes :
                  /\ nodes[i].target = nodes[j].target
                  /\ {nodes[i].key, nodes[j].key} \subseteq DominantKeys(nodes)
                  => nodes[i].key = nodes[j].key
            /\ unbeaten(DominantStrategy(nodes))
            /\ Len(nodes) < TreeMaxNodes => HotTargets \subseteq {nodes[i].target : i \in DOMAIN nodes}
            /\ step = "idle" /\ current = NoEnvironment =>
                  LET hints == Hints(current, {})
                  IN  /\ Len(nodes) < TreeMaxNodes => Range(hints) \subseteq {nodes[i].key : i \in DOMAIN nodes}
                      /\ Newest(HintEntries) = Newest(Len(entries)) => hints = [i \in DOMAIN hints |-> nodes[i].key]
            /\ \A n \in DOMAIN RecentlyExpired(nodes) :
                  RecentlyExpired(nodes)[n].reason = "biome_mismatch" => RecentlyExpired(nodes)[n].pressure = "PRUNE"
            /\ current = NoEnvironment =>
                  \A n \in DOMAIN SynthesizeSkills(nodes) : SynthesizeSkills(nodes)[n].leader \in DominantKeys(nodes)
            /\ "PRUNE_UNSTABLE" \in CivIntervention(nodes) => \E i \in DOMAIN nodes : nodes[i].pressure = "PRUNE"
            /\ CivIntervention(nodes) = {} => CivStatus(runs, 1) # "ELIMINATED"
            /\ CivStatus(runs, 1) = "ELIMINATED" => \A i \in DOMAIN runs : CivStatus(runs, i) = "ELIMINATED"

=============================================================================
