---------------------------- MODULE Memory_proofs ----------------------------
(***************************************************************************)
(* Theorems about what is carried from one night or week to the next, for  *)
(* every value of the constants and any number of days and failures: the   *)
(* healthy streak, the statistics, the policy and the choices of OpenClaw, *)
(* what the failure ledger gives to the prompt, and the sidecars of the    *)
(* memory of promoted patches.                                             *)
(***************************************************************************)
EXTENDS Streak, SkillMemory, OpenClawLearning, Proposals, SequenceTheorems, FiniteSetTheorems,
        WellFoundedInduction, TLAPS

(***************************************************************************)
(* Induction over numbers, and totals                                      *)
(***************************************************************************)

\* Induction, for a set of numbers: the least number outside it has none before.
LEMMA Least ==
  ASSUME NEW T, T \subseteq Nat, T # {}
  PROVE  \E x \in T : \A y \in T : x <= y
<1> DEFINE R == OpToRel(<, Nat)
<1>1. IsWellFoundedOn(R, Nat)
  BY NatLessThanWellFounded
<1>2. \A x, y \in Nat : y < x => <<y, x>> \in R
  BY DEF OpToRel
<1> HIDE DEF R
<1>3. PICK x \in T : \A y \in T : ~ (<<y, x>> \in R)
  BY <1>1, WFMin
<1>4. \A y \in T : x \in Nat /\ y \in Nat /\ ~(y < x)
  BY <1>2, <1>3
<1>5. \A y \in T : x <= y
  BY <1>4
<1> QED BY <1>5

LEMMA SetInduction ==
  ASSUME NEW T, 0 \in T, \A n \in Nat : n \in T => n + 1 \in T
  PROVE  Nat \subseteq T
<1> SUFFICES ASSUME Nat \ T # {} PROVE FALSE
  OBVIOUS
<1>1. PICK x \in Nat \ T : \A y \in Nat \ T : x <= y
  BY Least
<1>2. x - 1 \in Nat /\ x - 1 \in T
  BY <1>1
<1> QED BY <1>1, <1>2

LEMMA ListIsSeq ==
  ASSUME NEW n \in Nat, NEW S, NEW q \in [1 .. n -> S]
  PROVE  q \in Seq(S) /\ Len(q) = n
BY SeqDef

-----------------------------------------------------------------------------
(* Totals                                                                    *)

\* The element that a sum takes out of a set first.
Taken(S) == CHOOSE y \in S : TRUE

\* What is asked of the sums over the sets of a domain.
Sums(g, value, D) ==
    g = [part \in D |-> IF part = {} THEN 0 ELSE value[Taken(part)] + g[part \ {Taken(part)}]]

LEMMA TakenIn ==
  ASSUME NEW S, S # {}
  PROVE  Taken(S) \in S
BY DEF Taken

LEMMA OneLess ==
  ASSUME NEW S, IsFiniteSet(S), NEW x \in S
  PROVE  /\ IsFiniteSet(S \ {x}) /\ Cardinality(S) \in Nat /\ Cardinality(S \ {x}) \in Nat
         /\ Cardinality(S) = Cardinality(S \ {x}) + 1
BY FS_RemoveElement, FS_CardinalityType

\* Such sums exist.
LEMMA SumsExist ==
  ASSUME NEW value, NEW S, IsFiniteSet(S)
  PROVE  \E g : Sums(g, value, SUBSET S)
<1> DEFINE D(m) == {part \in SUBSET S : Cardinality(part) <= m}
           T == {m \in Nat : \E g : Sums(g, value, D(m))}
<1>1. \A part \in SUBSET S : IsFiniteSet(part) /\ Cardinality(part) \in Nat
  BY FS_Subset, FS_CardinalityType
<1>2. 0 \in T
  <2> DEFINE g == [part \in D(0) |-> 0]
  <2>1. \A part \in D(0) : part = {}
    BY <1>1, FS_EmptySet
  <2>2. g = [part \in D(0) |-> IF part = {} THEN 0 ELSE value[Taken(part)] + g[part \ {Taken(part)}]]
    <3> HIDE DEF D
    <3> QED BY <2>1
  <2> HIDE DEF g, D
  <2> QED BY <2>2 DEF Sums
<1>3. ASSUME NEW m \in Nat, m \in T PROVE m + 1 \in T
  <2>1. PICK f : Sums(f, value, D(m))
    BY <1>3
  <2> DEFINE next(part) == IF part = {} THEN 0 ELSE value[Taken(part)] + f[part \ {Taken(part)}]
             g == [part \in D(m + 1) |-> next(part)]
  <2>2. \A part \in D(m) : f[part] = next(part)
    <3> HIDE DEF D
    <3> QED BY <2>1 DEF Sums
  <2>3. ASSUME NEW part \in D(m + 1), part # {}
        PROVE  part \ {Taken(part)} \in D(m) /\ part \ {Taken(part)} \in D(m + 1)
    <3>1. Taken(part) \in part /\ part \in SUBSET S /\ IsFiniteSet(part) /\ Cardinality(part) <= m + 1
      BY <1>1, <2>3, TakenIn
    <3>2. Cardinality(part) = Cardinality(part \ {Taken(part)}) + 1 /\ Cardinality(part \ {Taken(part)}) \in Nat
      BY <3>1, OneLess
    <3> QED BY <3>1, <3>2
  <2> HIDE DEF D
  <2>4. \A part \in D(m + 1) : part # {} => g[part \ {Taken(part)}] = f[part \ {Taken(part)}]
    <3> SUFFICES ASSUME NEW part \in D(m + 1), part # {} PROVE g[part \ {Taken(part)}] = f[part \ {Taken(part)}]
      OBVIOUS
    <3> DEFINE rest == part \ {Taken(part)}
    <3>1. rest \in D(m) /\ rest \in D(m + 1)
      BY <2>3
    <3> HIDE DEF rest
    <3>2. g[rest] = f[rest]
      BY <2>2, <3>1
    <3> QED BY <3>2 DEF rest
  <2>5. Sums(g, value, D(m + 1))
    <3>1. \A part \in D(m + 1) :
            next(part) = IF part = {} THEN 0 ELSE value[Taken(part)] + g[part \ {Taken(part)}]
      BY <2>4
    <3>2. g = [part \in D(m + 1) |-> next(part)]
      OBVIOUS
    <3> HIDE DEF next, g
    <3> QED BY <3>1, <3>2 DEF Sums
  <2> HIDE DEF g
  <2> QED BY <2>5
<1>4. Nat \subseteq T
  <2> HIDE DEF T
  <2> QED BY <1>2, <1>3, SetInduction
<1>5. Cardinality(S) \in Nat
  BY FS_CardinalityType
<1>6. D(Cardinality(S)) = SUBSET S
  <2>1. \A part \in SUBSET S : Cardinality(part) <= Cardinality(S)
    BY FS_Subset
  <2> QED BY <2>1
<1> HIDE DEF D
<1> QED BY <1>4, <1>5, <1>6

Alike(g, h, D) == \A part \in D : g[part] = h[part]

\* The sums over the parts of a set do not depend on the set.
LEMMA SumsAgree ==
  ASSUME NEW value, NEW S, IsFiniteSet(S), NEW R, R \subseteq S,
         NEW g, Sums(g, value, SUBSET S), NEW h, Sums(h, value, SUBSET R)
  PROVE  Alike(g, h, SUBSET R)
<1> DEFINE T == {m \in Nat : \A part \in SUBSET R : Cardinality(part) = m => g[part] = h[part]}
<1>1. \A part \in SUBSET R : part \in SUBSET S /\ IsFiniteSet(part) /\ Cardinality(part) \in Nat
  BY FS_Subset, FS_CardinalityType
<1>2. \A part \in SUBSET R :
        /\ g[part] = IF part = {} THEN 0 ELSE value[Taken(part)] + g[part \ {Taken(part)}]
        /\ h[part] = IF part = {} THEN 0 ELSE value[Taken(part)] + h[part \ {Taken(part)}]
  BY <1>1 DEF Sums
<1>3. 0 \in T
  <2>1. \A part \in SUBSET R : Cardinality(part) = 0 => part = {}
    BY <1>1, FS_EmptySet
  <2> QED BY <1>2, <2>1
<1>4. ASSUME NEW m \in Nat, m \in T, NEW part \in SUBSET R, Cardinality(part) = m + 1
      PROVE  g[part] = h[part]
  <2>1. part # {}
    BY <1>4, FS_EmptySet
  <2> DEFINE rest == part \ {Taken(part)}
  <2>2. Taken(part) \in part
    BY <2>1, TakenIn
  <2>3. rest \in SUBSET R /\ Cardinality(rest) = m
    BY <1>1, <1>4, <2>2, OneLess
  <2>4. g[rest] = h[rest]
    <3> HIDE DEF rest
    <3> QED BY <1>4, <2>3
  <2> QED BY <1>2, <2>1, <2>4
<1>5. Nat \subseteq T
  <2>1. \A m \in Nat : m \in T => m + 1 \in T
    BY <1>4
  <2> HIDE DEF T
  <2> QED BY <1>3, <2>1, SetInduction
<1> QED BY <1>1, <1>5 DEF Alike

LEMMA SumIsOfSums ==
  ASSUME NEW value, NEW S, IsFiniteSet(S)
  PROVE  \E g : Sums(g, value, SUBSET S) /\ SumOf(value, S) = g[S]
<1> DEFINE g == CHOOSE f : Sums(f, value, SUBSET S)
<1>1. SumOf(value, S) = g[S]
  BY DEF SumOf, Sums, Taken
<1>2. Sums(g, value, SUBSET S)
  BY SumsExist
<1> HIDE DEF g
<1> QED BY <1>1, <1>2

LEMMA SumOfPart ==
  ASSUME NEW value, NEW S, IsFiniteSet(S), NEW Q, Q \subseteq S, NEW f, Sums(f, value, SUBSET S)
  PROVE  SumOf(value, Q) = f[Q]
<1>1. IsFiniteSet(Q)
  BY FS_Subset
<1>2. PICK k : Sums(k, value, SUBSET Q) /\ SumOf(value, Q) = k[Q]
  BY <1>1, SumIsOfSums
<1>3. Alike(f, k, SUBSET Q)
  BY <1>2, SumsAgree
<1> QED BY <1>2, <1>3 DEF Alike

LEMMA SumUnfolds ==
  ASSUME NEW value, NEW S, IsFiniteSet(S)
  PROVE  SumOf(value, S) = IF S = {} THEN 0 ELSE value[Taken(S)] + SumOf(value, S \ {Taken(S)})
<1>1. PICK g : Sums(g, value, SUBSET S) /\ SumOf(value, S) = g[S]
  BY SumIsOfSums
<1>2. g[S] = IF S = {} THEN 0 ELSE value[Taken(S)] + g[S \ {Taken(S)}]
  BY <1>1 DEF Sums
<1>3. SumOf(value, S \ {Taken(S)}) = g[S \ {Taken(S)}]
  BY <1>1, SumOfPart
<1> QED BY <1>1, <1>2, <1>3

LEMMA SumOfNothing ==
  ASSUME NEW value
  PROVE  SumOf(value, {}) = 0
<1>1. IsFiniteSet({})
  BY FS_EmptySet
<1> QED BY <1>1, SumUnfolds

\* The parts of a finite set, by their size.
LEMMA PartsBySize ==
  ASSUME NEW S, IsFiniteSet(S),
         NEW F, {} \in F,
         \A R \in SUBSET S : R # {} /\ (\A x \in R : R \ {x} \in F) => R \in F
  PROVE  S \in F
<1> DEFINE T == {m \in Nat : \A R \in SUBSET S : Cardinality(R) = m => R \in F}
<1>1. \A R \in SUBSET S : IsFiniteSet(R) /\ Cardinality(R) \in Nat
  BY FS_Subset, FS_CardinalityType
<1>2. 0 \in T
  <2>1. \A R \in SUBSET S : Cardinality(R) = 0 => R = {}
    BY <1>1, FS_EmptySet
  <2> QED BY <2>1
<1>3. ASSUME NEW m \in Nat, m \in T, NEW R \in SUBSET S, Cardinality(R) = m + 1
      PROVE  R \in F
  <2>1. R # {} /\ IsFiniteSet(R)
    BY <1>1, <1>3, FS_EmptySet
  <2>2. ASSUME NEW x \in R PROVE R \ {x} \in F
    <3>1. Cardinality(R) = Cardinality(R \ {x}) + 1 /\ Cardinality(R \ {x}) \in Nat
      BY <2>1, OneLess
    <3>2. Cardinality(R \ {x}) = m
      BY <1>3, <3>1
    <3>3. R \ {x} \in SUBSET S
      OBVIOUS
    <3> QED BY <1>3, <3>2, <3>3
  <2> QED BY <2>1, <2>2
<1>4. Nat \subseteq T
  <2>1. \A m \in Nat : m \in T => m + 1 \in T
    BY <1>3
  <2> HIDE DEF T
  <2> QED BY <1>2, <2>1, SetInduction
<1>5. S \in SUBSET S
  OBVIOUS
<1> QED BY <1>1, <1>4, <1>5

LEMMA SumType ==
  ASSUME NEW S, IsFiniteSet(S), NEW value, \A x \in S : value[x] \in Int
  PROVE  SumOf(value, S) \in Int
<1> DEFINE F == {R \in SUBSET S : SumOf(value, R) \in Int}
<1>1. {} \in F
  BY SumOfNothing
<1>2. ASSUME NEW R \in SUBSET S, R # {}, \A x \in R : R \ {x} \in F
      PROVE  R \in F
  <2> DEFINE c == Taken(R)
  <2>1. c \in R /\ IsFiniteSet(R)
    BY <1>2, TakenIn, FS_Subset
  <2>2. SumOf(value, R) = value[c] + SumOf(value, R \ {c})
    BY <1>2, <2>1, SumUnfolds
  <2> HIDE DEF c
  <2>3. SumOf(value, R \ {c}) \in Int
    BY <1>2, <2>1
  <2> QED BY <2>1, <2>2, <2>3
<1> HIDE DEF F
<1>3. S \in F
  BY <1>1, <1>2, PartsBySize
<1> QED BY <1>3 DEF F

\* Any element may be taken out first.
LEMMA SumTakes ==
  ASSUME NEW S, IsFiniteSet(S), NEW value, \A x \in S : value[x] \in Int
  PROVE  \A x \in S : SumOf(value, S) = value[x] + SumOf(value, S \ {x})
<1> DEFINE F == {R \in SUBSET S : \A x \in R : SumOf(value, R) = value[x] + SumOf(value, R \ {x})}
<1>1. {} \in F
  OBVIOUS
<1>2. ASSUME NEW R \in SUBSET S, R # {}, \A x \in R : R \ {x} \in F
      PROVE  R \in F
  <2> DEFINE c == Taken(R)
  <2>1. c \in R /\ IsFiniteSet(R)
    BY <1>2, TakenIn, FS_Subset
  <2>2. SumOf(value, R) = value[c] + SumOf(value, R \ {c})
    BY <1>2, <2>1, SumUnfolds
  <2> HIDE DEF c
  <2>3. ASSUME NEW x \in R, x # c
        PROVE  SumOf(value, R) = value[x] + SumOf(value, R \ {x})
    <3> DEFINE Q == (R \ {c}) \ {x}
    <3>1. SumOf(value, R \ {c}) = value[x] + SumOf(value, Q)
      BY <1>2, <2>1, <2>3
    <3>2. SumOf(value, R \ {x}) = value[c] + SumOf(value, (R \ {x}) \ {c})
      BY <1>2, <2>1, <2>3
    <3>3. Q = (R \ {x}) \ {c}
      OBVIOUS
    <3>4. IsFiniteSet(Q) /\ (\A y \in Q : value[y] \in Int) /\ value[x] \in Int /\ value[c] \in Int
      BY <2>1, FS_Subset
    <3> HIDE DEF Q
    <3>5. SumOf(value, Q) \in Int
      BY <3>4, SumType
    <3> QED BY <2>2, <3>1, <3>2, <3>3, <3>4, <3>5
  <2> QED BY <2>2, <2>3
<1> HIDE DEF F
<1>3. S \in F
  BY <1>1, <1>2, PartsBySize
<1> QED BY <1>3 DEF F

\* One element more.
LEMMA SumAdds ==
  ASSUME NEW S, IsFiniteSet(S), NEW x, x \notin S,
         NEW value, \A y \in S \cup {x} : value[y] \in Int
  PROVE  SumOf(value, S \cup {x}) = SumOf(value, S) + value[x]
<1>1. IsFiniteSet(S \cup {x}) /\ x \in S \cup {x} /\ (S \cup {x}) \ {x} = S
  BY FS_AddElement
<1>2. SumOf(value, S \cup {x}) = value[x] + SumOf(value, S)
  BY <1>1, SumTakes
<1> QED BY <1>2, SumType

\* The total depends only on the values on the set.
LEMMA SumSame ==
  ASSUME NEW S, IsFiniteSet(S), NEW value, NEW other, \A x \in S : value[x] = other[x]
  PROVE  SumOf(value, S) = SumOf(other, S)
<1> DEFINE F == {R \in SUBSET S : SumOf(value, R) = SumOf(other, R)}
<1>1. {} \in F
  BY SumOfNothing
<1>2. ASSUME NEW R \in SUBSET S, R # {}, \A x \in R : R \ {x} \in F
      PROVE  R \in F
  <2> DEFINE c == Taken(R)
  <2>1. c \in R /\ IsFiniteSet(R)
    BY <1>2, TakenIn, FS_Subset
  <2>2. /\ SumOf(value, R) = value[c] + SumOf(value, R \ {c})
        /\ SumOf(other, R) = other[c] + SumOf(other, R \ {c})
    BY <1>2, <2>1, SumUnfolds
  <2> HIDE DEF c
  <2> QED BY <1>2, <2>1, <2>2
<1> HIDE DEF F
<1>3. S \in F
  BY <1>1, <1>2, PartsBySize
<1> QED BY <1>3 DEF F

\* What is less everywhere is less in total.
LEMMA SumLess ==
  ASSUME NEW S, IsFiniteSet(S), NEW value, NEW other,
         \A x \in S : value[x] \in Int /\ other[x] \in Int /\ value[x] <= other[x]
  PROVE  SumOf(value, S) <= SumOf(other, S)
<1> DEFINE F == {R \in SUBSET S : SumOf(value, R) <= SumOf(other, R)}
<1>1. {} \in F
  BY SumOfNothing
<1>2. ASSUME NEW R \in SUBSET S, R # {}, \A x \in R : R \ {x} \in F
      PROVE  R \in F
  <2> DEFINE c == Taken(R)
             Q == R \ {c}
  <2>1. c \in R /\ IsFiniteSet(R) /\ IsFiniteSet(Q)
    BY <1>2, TakenIn, FS_Subset
  <2>2. /\ SumOf(value, R) = value[c] + SumOf(value, Q)
        /\ SumOf(other, R) = other[c] + SumOf(other, Q)
    BY <1>2, <2>1, SumUnfolds
  <2>3. Q \in F /\ \A y \in Q : value[y] \in Int /\ other[y] \in Int
    BY <1>2, <2>1
  <2>4. value[c] \in Int /\ other[c] \in Int /\ value[c] <= other[c]
    BY <2>1
  <2> HIDE DEF c, Q
  <2>5. SumOf(value, Q) \in Int /\ SumOf(other, Q) \in Int
    BY <2>1, <2>3, SumType
  <2> QED BY <2>2, <2>3, <2>4, <2>5
<1> HIDE DEF F
<1>3. S \in F
  BY <1>1, <1>2, PartsBySize
<1> QED BY <1>3 DEF F

(***************************************************************************)
(* The healthy streak                                                      *)
(***************************************************************************)

-----------------------------------------------------------------------------
(* What an evaluation keeps of its week, and of the one before it.           *)

Whole(e) == {"status", "streak", "continuity", "freeze", "cycle"} \subseteq DOMAIN e

EntryOf(e, w) ==
    /\ Whole(e)
    /\ e.continuity = Continuity(w) /\ e.freeze = w.freeze /\ e.streak \in Nat
    /\ e.status = "HEALTHY" <=> OwnStatus(w) = "HEALTHY"

CountsOn(es, i) ==
    es[i].streak = IF es[i].status # "HEALTHY" THEN 0 ELSE IF i = 1 THEN 1 ELSE es[i - 1].streak + 1

\* The report says ready of four sound evaluations, of which none was skipped.
WindowEarned(window) ==
    /\ Len(window) = 4
    /\ \A i \in 1..4 : window[i] \in DOMAIN weeks /\ Sound(weeks[window[i]])
    /\ \A i \in 1..3 : window[i + 1] \in {window[i], window[i] + 1}

ReportEarned == weekly_report # Unknown => (weekly_report.ready => WindowEarned(weekly_report.window))

\* The result file: every evaluation is one of its week, the counts go on from
\* each to the next, and one that has its times is followed by the same week or
\* the next.
JudgedInv ==
    /\ weeks \in Seq(WeekInputs)
    /\ judged \in Seq(Range(judged)) /\ judged_to \in Seq(Nat) /\ Len(judged_to) = Len(judged)
    /\ \A i \in 1 .. Len(judged) :
          /\ judged_to[i] \in 1 .. Len(weeks)
          /\ EntryOf(judged[i], weeks[judged_to[i]])
          /\ CountsOn(judged, i)
          /\ judged[i].cycle # Unknown /\ i < Len(judged) => judged_to[i + 1] \in {judged_to[i], judged_to[i] + 1}
    /\ ReportEarned

\* The streak of an evaluation is that of the healthy ones before it.
LEMMA StreakIsHealthy ==
  ASSUME NEW es, NEW n \in Nat, \A i \in 1 .. n : es[i].streak \in Nat /\ CountsOn(es, i)
  PROVE  \A i \in 1 .. n :
           /\ es[i].streak <= i
           /\ \A j \in (i - es[i].streak + 1) .. i : es[j].status = "HEALTHY"
<1> DEFINE P(i) == /\ es[i].streak <= i
                   /\ \A j \in (i - es[i].streak + 1) .. i : es[j].status = "HEALTHY"
           T == {m \in Nat : m \in 1 .. n => P(m)}
<1>1. 0 \in T
  OBVIOUS
<1>2. ASSUME NEW m \in Nat, m \in T, m + 1 \in 1 .. n PROVE P(m + 1)
  <2>1. es[m + 1].streak \in Nat /\ CountsOn(es, m + 1)
    BY <1>2
  <2>2. CASE es[m + 1].status # "HEALTHY"
    <3>1. es[m + 1].streak = 0
      BY <2>1, <2>2 DEF CountsOn
    <3> QED BY <3>1
  <2>3. CASE es[m + 1].status = "HEALTHY" /\ m = 0
    <3>1. es[m + 1].streak = 1
      BY <2>1, <2>3 DEF CountsOn
    <3>2. \A j \in ((m + 1) - 1 + 1) .. m + 1 : j = m + 1
      OBVIOUS
    <3> QED BY <3>1, <3>2, <2>3
  <2>4. CASE es[m + 1].status = "HEALTHY" /\ m > 0
    <3>1. m \in 1 .. n /\ (m + 1) - 1 = m
      BY <1>2, <2>4
    <3>2. es[m + 1].streak = es[m].streak + 1 /\ es[m].streak \in Nat
      BY <2>1, <2>4, <3>1 DEF CountsOn
    <3>3. P(m)
      BY <1>2, <3>1
    <3>4. \A j \in ((m + 1) - es[m + 1].streak + 1) .. m + 1 :
            j = m + 1 \/ j \in (m - es[m].streak + 1) .. m
      BY <3>2
    <3> QED BY <2>4, <3>2, <3>3, <3>4
  <2> QED BY <2>2, <2>3, <2>4
<1>3. Nat \subseteq T
  <2> HIDE DEF P
  <2>1. \A m \in Nat : m \in T => m + 1 \in T
    BY <1>2
  <2> HIDE DEF T
  <2> QED BY <1>1, <2>1, SetInduction
<1> QED BY <1>3

-----------------------------------------------------------------------------
(* The weeks evaluated one after the other                                   *)

Follow(es, i) == Append(es, EvaluateWeek(weeks[i], IF es = <<>> THEN NoWeek ELSE es[Len(es)]))

\* A function is what the recursion of Evaluated asks up to a place of the input.
Unfolds(g, h, input, last) ==
    g = [i \in 0 .. last |-> IF i = 0 THEN h ELSE Follow(g[i - 1], input[i])]

LEMMA EvaluationExists ==
  ASSUME NEW h, NEW input, NEW last \in Nat
  PROVE  \E g : Unfolds(g, h, input, last)
<1> DEFINE T == {m \in Nat : \E g : Unfolds(g, h, input, m)}
<1>1. 0 \in T
  <2> DEFINE g == [i \in 0 .. 0 |-> h]
  <2>1. \A i \in 0 .. 0 : i = 0
    OBVIOUS
  <2>2. g = [i \in 0 .. 0 |-> IF i = 0 THEN h ELSE Follow(g[i - 1], input[i])]
    BY <2>1
  <2> HIDE DEF g
  <2> QED BY <2>2 DEF Unfolds
<1>2. ASSUME NEW m \in Nat, m \in T PROVE m + 1 \in T
  <2> DEFINE n == m
  <2>1. n \in Nat /\ m + 1 = n + 1
    OBVIOUS
  <2>2. PICK f : Unfolds(f, h, input, n)
    BY <1>2
  <2> DEFINE g == [i \in 0 .. (n + 1) |-> IF i <= n THEN f[i] ELSE Follow(f[n], input[i])]
  <2> HIDE DEF n
  <2>3. \A i \in 0 .. (n + 1) :
          IF i <= n THEN f[i] = IF i = 0 THEN h ELSE Follow(f[i - 1], input[i])
          ELSE i = n + 1 /\ ~(i = 0)
    BY <2>1, <2>2 DEF Unfolds
  <2>4. \A i \in 1 .. (n + 1) : g[i - 1] = f[i - 1]
    BY <2>1
  <2>5. ASSUME NEW i \in 0 .. (n + 1)
        PROVE  g[i] = IF i = 0 THEN h ELSE Follow(g[i - 1], input[i])
    <3>1. CASE i = 0
      BY <2>1, <2>3, <3>1
    <3>2. CASE ~(i = 0) /\ i <= n
      <4>1. i \in 1 .. (n + 1) /\ g[i - 1] = f[i - 1] /\ g[i] = f[i]
        BY <2>1, <2>4, <3>2
      <4> HIDE DEF g
      <4> QED BY <2>3, <3>2, <4>1
    <3>3. CASE ~(i <= n)
      <4>1. i = n + 1 /\ i - 1 = n /\ i \in 1 .. (n + 1) /\ ~(i = 0)
        BY <2>1, <3>3
      <4>2. g[i] = Follow(f[n], input[i]) /\ g[i - 1] = f[n]
        BY <2>4, <3>3, <4>1
      <4> HIDE DEF g
      <4> QED BY <4>1, <4>2
    <3> QED BY <2>1, <3>1, <3>2, <3>3
  <2>6. Unfolds(g, h, input, n + 1)
    <3>1. g = [i \in 0 .. (n + 1) |-> g[i]]
      OBVIOUS
    <3> HIDE DEF g
    <3> QED BY <2>5, <3>1 DEF Unfolds
  <2> HIDE DEF g
  <2> QED BY <2>1, <2>6
<1>3. Nat \subseteq T
  <2> HIDE DEF T
  <2> QED BY <1>1, <1>2, SetInduction
<1> QED BY <1>3

\* The evaluations after the history: each of its week, and of the one before.
GoesOn(es, h, input) ==
    /\ es \in Seq(Range(es)) /\ Len(es) = Len(h) + Len(input)
    /\ \A j \in 1 .. Len(h) : es[j] = h[j]
    /\ \A k \in (Len(h) + 1) .. Len(es) :
         es[k] = EvaluateWeek(weeks[input[k - Len(h)]], IF k = 1 THEN NoWeek ELSE es[k - 1])

LEMMA EvaluationGoesOn ==
  ASSUME NEW h, h \in Seq(Range(h)), NEW input, Len(input) \in Nat
  PROVE  GoesOn(Evaluated(h, input), h, input)
<1> DEFINE last == Len(input)
           after == CHOOSE g : Unfolds(g, h, input, last)
           len == Len(h)
           Fine(es, m) ==
             /\ es \in Seq(Range(es)) /\ Len(es) = len + m
             /\ \A j \in 1 .. len : es[j] = h[j]
             /\ \A k \in (len + 1) .. (len + m) :
                  es[k] = EvaluateWeek(weeks[input[k - len]], IF k = 1 THEN NoWeek ELSE es[k - 1])
           T == {m \in Nat : m <= last => Fine(after[m], m)}
<1>1. Evaluated(h, input) = after[last]
  BY DEF Evaluated, Unfolds, Follow
<1>2. Unfolds(after, h, input, last) /\ last \in Nat
  BY EvaluationExists
<1> HIDE DEF after, last
<1>3. len \in Nat
  BY LenProperties
<1> HIDE DEF len
<1>4. 0 \in T
  <2>1. after[0] = h
    BY <1>2 DEF Unfolds
  <2>2. \A k \in (len + 1) .. (len + 0) : FALSE
    BY <1>3
  <2> QED BY <1>3, <2>1, <2>2 DEF len
<1>5. ASSUME NEW m \in Nat, m \in T, m + 1 <= last
      PROVE  Fine(after[m + 1], m + 1)
  <2> DEFINE es == after[m]
             week == m + 1
             new == EvaluateWeek(weeks[input[week]], IF es = <<>> THEN NoWeek ELSE es[Len(es)])
             fs == after[m + 1]
  <2>1. Fine(es, m)
    <3>1. m <= last
      <4>1. last \in Nat /\ m \in Nat /\ m + 1 <= last
        BY <1>2, <1>5
      <4> QED BY ONLY <4>1
    <3> HIDE DEF Fine, es
    <3> QED BY <1>5, <3>1 DEF es
  <2>2. fs = Append(es, new)
    <3>1. week \in 0 .. last /\ ~(week = 0) /\ week - 1 = m
      BY <1>5
    <3> HIDE DEF week
    <3>2. after[week] = Follow(after[week - 1], input[week])
      BY <1>2, <3>1 DEF Unfolds
    <3> QED BY <3>1, <3>2 DEF Follow
  <2> HIDE DEF es, fs
  <2> DEFINE S == Range(es) \cup {new}
  <2>3. es \in Seq(S) /\ new \in S
    BY <2>1, SeqMonotonic
  <2> HIDE DEF S
  <2>4. /\ fs \in Seq(S) /\ Len(fs) = Len(es) + 1
        /\ \A i \in 1 .. Len(es) : fs[i] = es[i]
        /\ fs[Len(es) + 1] = new
    <3> HIDE DEF new
    <3> QED BY <2>2, <2>3, AppendProperties
  <2>5. Len(es) = len + m /\ len + m \in Nat /\ (es = <<>> <=> len + m = 0)
    BY <1>3, <2>1, <2>3, EmptySeq
  <2>6. fs \in Seq(Range(fs)) /\ Len(fs) = len + (m + 1)
    BY <1>3, <2>4, <2>5, SeqOfRange
  <2>7. \A j \in 1 .. len : fs[j] = h[j]
    BY <1>3, <2>1, <2>4, <2>5
  <2>8. ASSUME NEW k \in (len + 1) .. (len + (m + 1))
        PROVE  fs[k] = EvaluateWeek(weeks[input[k - len]], IF k = 1 THEN NoWeek ELSE fs[k - 1])
    <3>1. CASE k <= len + m
      <4>1. fs[k] = es[k] /\ (k # 1 => fs[k - 1] = es[k - 1])
        BY <1>3, <2>4, <2>5, <3>1
      <4>2. es[k] = EvaluateWeek(weeks[input[k - len]], IF k = 1 THEN NoWeek ELSE es[k - 1])
        BY <2>1, <3>1
      <4> QED BY <4>1, <4>2
    <3>2. CASE ~(k <= len + m)
      <4>1. k = len + m + 1 /\ k - 1 = Len(es) /\ k - len = week
        BY <1>3, <2>5, <3>2
      <4>2. fs[k] = new
        BY <2>4, <2>5, <4>1
      <4>3. k = 1 <=> es = <<>>
        BY <1>3, <2>5, <4>1
      <4>4. k # 1 => fs[k - 1] = es[Len(es)]
        <5>1. k # 1 => Len(es) \in 1 .. Len(es)
          BY <1>3, <2>5, <4>1
        <5> QED BY <2>4, <4>1, <5>1
      <4> HIDE DEF week
      <4> QED BY <4>1, <4>2, <4>3, <4>4
    <3> QED BY <3>1, <3>2
  <2> QED BY <2>6, <2>7, <2>8 DEF fs
<1>6. Nat \subseteq T
  <2> HIDE DEF Fine
  <2>1. \A m \in Nat : m \in T => m + 1 \in T
    BY <1>5
  <2> HIDE DEF T
  <2> QED BY <1>4, <2>1, SetInduction
<1>7. Fine(after[last], last)
  <2>1. last \in T
    BY <1>6 DEF last
  <2> HIDE DEF Fine
  <2> QED BY <2>1
<1> QED BY <1>1, <1>7 DEF len, last, GoesOn

\* A week's evaluation is one of that week, whatever came before it.
LEMMA EvaluationIsOfWeek ==
  ASSUME NEW w, NEW before, before.streak \in Nat
  PROVE  LET e == EvaluateWeek(w, before)
         IN  /\ EntryOf(e, w)
             /\ e.streak = IF e.status = "HEALTHY" THEN before.streak + 1 ELSE 0
<1> DEFINE status == IF before.status = "AT_RISK" /\ OwnStatus(w) = "AT_RISK" THEN "DEGRADED" ELSE OwnStatus(w)
           e == EvaluateWeek(w, before)
<1>1. status = "HEALTHY" <=> OwnStatus(w) = "HEALTHY"
  OBVIOUS
<1>2. /\ e.status = status /\ e.streak = IF status = "HEALTHY" THEN before.streak + 1 ELSE 0
      /\ e.continuity = Continuity(w) /\ e.freeze = w.freeze
  BY DEF EvaluateWeek
<1>3. Whole(e)
  BY DEF Whole, EvaluateWeek
<1> HIDE DEF e, status
<1> QED BY <1>1, <1>2, <1>3 DEF EntryOf, e

\* A healthy week kept every measure, and is sound if nothing froze or was invalid.
LEMMA HealthyIsSound ==
  ASSUME NEW w, OwnStatus(w) = "HEALTHY", w.freeze = FALSE, Continuity(w) = "PASS"
  PROVE  Sound(w)
<1>1. w.complete /\ "breach" \notin Bands(w) /\ "watch" \notin Bands(w)
  BY DEF OwnStatus
<1>3. w.cycle <= 432 /\ w.p50 <= 162 /\ w.p90 <= 324
  BY <1>1 DEF Bands
<1> QED BY <1>1, <1>3 DEF Sound


\* What the file keeps of an evaluation.
LEMMA FileKeeps ==
  ASSUME NEW e, NEW w, EntryOf(e, w)
  PROVE  LET f == FromHistory(e)
         IN  /\ EntryOf(f, w) /\ f.status = e.status /\ f.streak = e.streak /\ f.cycle = Unknown
<1> DEFINE f == FromHistory(e)
<1>1. DOMAIN f = DOMAIN e /\ "cycle" \in DOMAIN e
  BY DEF FromHistory, EntryOf, Whole
<1>2. ASSUME NEW x \in {"status", "streak", "continuity", "freeze"} PROVE f[x] = e[x]
  BY DEF FromHistory, EntryOf, Whole
<1>3. f.cycle = Unknown
  BY <1>1 DEF FromHistory
<1> HIDE DEF f
<1>4. f.status = e.status /\ f.streak = e.streak /\ f.continuity = e.continuity /\ f.freeze = e.freeze
  BY <1>2
<1>5. Whole(f)
  BY <1>1 DEF EntryOf, Whole
<1> QED BY <1>3, <1>4, <1>5 DEF EntryOf, f

\* An input names weeks there are, and after each the same or the next.
LEMMA InputsGoOn ==
  ASSUME NEW last \in Nat, NEW first \in 1 .. last, NEW input \in Inputs(first, last)
  PROVE  /\ input \in Seq(1 .. last)
         /\ \A k \in 1 .. (Len(input) - 1) : input[k + 1] \in {input[k], input[k] + 1}
<1>1. ASSUME NEW from \in 1 .. last, NEW to \in from .. last
      PROVE  /\ Through(from, to) \in Seq(1 .. last) /\ Len(Through(from, to)) = to - from + 1
             /\ \A k \in 1 .. (to - from + 1) : Through(from, to)[k] = from + k - 1
  <2> DEFINE t == Through(from, to)
             n == to - from + 1
  <2>1. n \in Nat /\ t = [k \in 1 .. n |-> from + k - 1] /\ t \in [1 .. n -> 1 .. last]
    BY DEF Through
  <2> HIDE DEF n, t
  <2>2. t \in Seq(1 .. last) /\ Len(t) = n
    BY <2>1, ListIsSeq
  <2> QED BY <2>1, <2>2 DEF n, t
<1>2. CASE input = Through(first, last)
  <2>1. last \in first .. last
    OBVIOUS
  <2>2. /\ input \in Seq(1 .. last) /\ Len(input) = last - first + 1
        /\ \A k \in 1 .. (last - first + 1) : input[k] = first + k - 1
    BY <1>1, <1>2, <2>1
  <2>3. ASSUME NEW k \in 1 .. (Len(input) - 1) PROVE input[k + 1] = input[k] + 1
    BY <2>2
  <2> QED BY <2>2, <2>3
<1>3. CASE input # Through(first, last)
  <2>1. PICK again \in first .. last : input = Through(first, again) \o Through(again, last)
    BY <1>3 DEF Inputs
  <2> DEFINE s == Through(first, again)
             t == Through(again, last)
  <2>2. again \in 1 .. last /\ last \in again .. last
    OBVIOUS
  <2>3. /\ s \in Seq(1 .. last) /\ Len(s) = again - first + 1
        /\ \A k \in 1 .. (again - first + 1) : s[k] = first + k - 1
    BY <1>1
  <2>4. /\ t \in Seq(1 .. last) /\ Len(t) = last - again + 1
        /\ \A k \in 1 .. (last - again + 1) : t[k] = again + k - 1
    BY <1>1, <2>2
  <2> HIDE DEF s, t
  <2>5. input = s \o t
    BY <2>1 DEF s, t
  <2>6. /\ input \in Seq(1 .. last) /\ Len(input) = Len(s) + Len(t)
        /\ \A i \in 1 .. Len(s) + Len(t) : input[i] = IF i <= Len(s) THEN s[i] ELSE t[i - Len(s)]
    <3> DEFINE joined == s \o t
    <3>1. s \in Seq(1 .. last) /\ t \in Seq(1 .. last)
      BY <2>3, <2>4
    <3>2. /\ joined \in Seq(1 .. last) /\ Len(joined) = Len(s) + Len(t)
          /\ \A i \in 1 .. Len(s) + Len(t) : joined[i] = IF i <= Len(s) THEN s[i] ELSE t[i - Len(s)]
      BY ONLY <3>1, ConcatProperties, Z3T(30)
    <3>3. input = joined
      BY <2>5
    <3> HIDE DEF joined
    <3> QED BY ONLY <3>2, <3>3
  <2>7. ASSUME NEW k \in 1 .. (Len(input) - 1) PROVE input[k + 1] \in {input[k], input[k] + 1}
    <3>1. Len(s) = again - first + 1 /\ Len(t) = last - again + 1 /\ Len(input) = Len(s) + Len(t)
      BY <2>3, <2>4, <2>6
    <3>2. CASE k < Len(s)
      <4>1. input[k] = s[k] /\ input[k + 1] = s[k + 1] /\ k \in 1 .. (again - first + 1)
            /\ k + 1 \in 1 .. (again - first + 1)
        BY <2>6, <3>1, <3>2
      <4> QED BY <2>3, <4>1
    <3>3. CASE k = Len(s)
      <4>1. input[k] = s[k] /\ input[k + 1] = t[1] /\ k \in 1 .. (again - first + 1) /\ 1 \in 1 .. (last - again + 1)
        BY <2>6, <3>1, <3>3
      <4>2. s[k] = again /\ t[1] = again
        BY <2>3, <2>4, <3>1, <3>3, <4>1
      <4> QED BY <4>1, <4>2
    <3>4. CASE k > Len(s)
      <4> DEFINE j == k - Len(s)
      <4>1. j \in 1 .. (last - again + 1) /\ j + 1 \in 1 .. (last - again + 1) /\ (k + 1) - Len(s) = j + 1
        BY <3>1, <3>4
      <4>2. input[k] = t[j] /\ input[k + 1] = t[j + 1]
        BY <2>6, <3>1, <3>4, <4>1
      <4> HIDE DEF j
      <4> QED BY <2>4, <4>1, <4>2
    <3> QED BY <3>1, <3>2, <3>3, <3>4
  <2> QED BY <2>6, <2>7
<1> QED BY <1>2, <1>3

LEMMA JudgedAgain ==
  ASSUME JudgedInv, Judge
  PROVE  JudgedInv'
<1>1. PICK first \in {1, Len(weeks)}, withHistory \in BOOLEAN : \E given \in Inputs(first, Len(weeks)) :
        /\ judged' = Evaluated(IF withHistory THEN [i \in DOMAIN judged |-> FromHistory(judged[i])] ELSE <<>>, given)
        /\ judged_to' = (IF withHistory THEN judged_to ELSE <<>>) \o given
  BY DEF Judge
<1>0. PICK input \in Inputs(first, Len(weeks)) :
        /\ judged' = Evaluated(IF withHistory THEN [i \in DOMAIN judged |-> FromHistory(judged[i])] ELSE <<>>, input)
        /\ judged_to' = (IF withHistory THEN judged_to ELSE <<>>) \o input
  BY <1>1
<1> DEFINE h == IF withHistory THEN [i \in DOMAIN judged |-> FromHistory(judged[i])] ELSE <<>>
           hto == IF withHistory THEN judged_to ELSE <<>>
           len == Len(h)
           last == Len(weeks)
           count == Len(input)
<1>2. last \in Nat \ {0} /\ first \in 1 .. last /\ weeks' = weeks /\ weekly_report' = weekly_report
  <2>1. weeks # <<>> /\ UNCHANGED <<weeks, weekly_report>>
    BY DEF Judge
  <2>2. Len(weeks) \in Nat \ {0}
    BY <2>1, EmptySeq, LenProperties DEF JudgedInv
  <2> QED BY <2>1, <2>2
<1>3. /\ h \in Seq(Range(h)) /\ len \in Nat
      /\ hto \in Seq(Nat) /\ Len(hto) = len
      /\ \A j \in 1 .. len :
            /\ hto[j] \in 1 .. last /\ EntryOf(h[j], weeks[hto[j]])
            /\ CountsOn(h, j) /\ h[j].cycle = Unknown
  <2>1. CASE withHistory
    <3>1. /\ Len(judged) \in Nat /\ DOMAIN judged = 1 .. Len(judged)
          /\ judged_to \in Seq(Nat) /\ Len(judged_to) = Len(judged)
          /\ \A i \in 1 .. Len(judged) :
                judged_to[i] \in 1 .. Len(weeks) /\ EntryOf(judged[i], weeks[judged_to[i]]) /\ CountsOn(judged, i)
      BY LenProperties DEF JudgedInv
    <3>2. h = [i \in 1 .. Len(judged) |-> FromHistory(judged[i])] /\ hto = judged_to
      BY <2>1, <3>1
    <3> HIDE DEF h, hto
    <3> DEFINE S == {FromHistory(judged[i]) : i \in 1 .. Len(judged)}
    <3>3. h \in Seq(S) /\ Len(h) = Len(judged)
      <4>1. h \in [1 .. Len(judged) -> S]
        BY <3>2
      <4> HIDE DEF S
      <4> QED BY <3>1, <4>1, ListIsSeq
    <3>4. h \in Seq(Range(h))
      BY <3>3, SeqOfRange
    <3>5. ASSUME NEW j \in 1 .. len
          PROVE  /\ EntryOf(h[j], weeks[hto[j]]) /\ CountsOn(h, j) /\ h[j].cycle = Unknown
      <4>1. j \in 1 .. Len(judged) /\ h[j] = FromHistory(judged[j])
        BY <3>2, <3>3
      <4>2. EntryOf(judged[j], weeks[hto[j]]) /\ CountsOn(judged, j)
        BY <3>1, <3>2, <4>1
      <4>3. EntryOf(h[j], weeks[hto[j]]) /\ h[j].cycle = Unknown
            /\ h[j].status = judged[j].status /\ h[j].streak = judged[j].streak
        BY <4>1, <4>2, FileKeeps
      <4>4. j # 1 => h[j - 1].streak = judged[j - 1].streak
        <5> SUFFICES ASSUME j # 1 PROVE h[j - 1].streak = judged[j - 1].streak
          OBVIOUS
        <5>1. j - 1 \in 1 .. Len(judged) /\ h[j - 1] = FromHistory(judged[j - 1])
          BY <3>1, <3>2, <4>1
        <5>2. EntryOf(judged[j - 1], weeks[judged_to[j - 1]])
          BY <3>1, <5>1
        <5> QED BY <5>1, <5>2, FileKeeps
      <4> QED BY <4>2, <4>3, <4>4 DEF CountsOn
    <3> QED BY <3>1, <3>2, <3>3, <3>4, <3>5
  <2>2. CASE ~withHistory
    <3>1. h = <<>> /\ hto = <<>>
      BY <2>2
    <3> HIDE DEF h, hto
    <3>2. h \in Seq(Range(h)) /\ len = 0 /\ hto \in Seq(Nat) /\ Len(hto) = 0
      BY <3>1, EmptySeq, SeqOfRange
    <3> QED BY <3>2
  <2> QED BY <2>1, <2>2
<1>4. /\ judged' = Evaluated(h, input) /\ judged_to' = hto \o input
  BY <1>0
<1>13. /\ input \in Seq(1 .. last) /\ count \in Nat
       /\ \A k \in 1 .. (count - 1) : input[k + 1] \in {input[k], input[k] + 1}
  <2>1. input \in Inputs(first, last)
    BY <1>0
  <2> HIDE DEF last
  <2> QED BY <1>2, <2>1, InputsGoOn, LenProperties
<1> HIDE DEF h, hto, len, last, count
<1>5. /\ judged' \in Seq(Range(judged')) /\ Len(judged') = len + count
      /\ \A j \in 1 .. len : judged'[j] = h[j]
      /\ \A k \in (len + 1) .. Len(judged') :
           judged'[k] = EvaluateWeek(weeks[input[k - len]], IF k = 1 THEN NoWeek ELSE judged'[k - 1])
  <2>1. h \in Seq(Range(h)) /\ Len(input) \in Nat
    BY <1>3, <1>13 DEF count
  <2>2. GoesOn(judged', h, input)
    BY <1>4, <2>1, EvaluationGoesOn
  <2> QED BY <2>2 DEF GoesOn, len, count
<1>6. /\ judged_to' \in Seq(Nat) /\ Len(judged_to') = len + count
      /\ \A j \in 1 .. len : judged_to'[j] = hto[j]
      /\ \A k \in (len + 1) .. len + count : judged_to'[k] = input[k - len]
  <2>1. input \in Seq(Nat) /\ Len(input) = count
    <3>1. 1 .. last \subseteq Nat
      BY <1>2
    <3>2. input \in Seq(Nat)
      BY <1>13, <3>1, SeqMonotonic
    <3> QED BY <3>2 DEF count
  <2>3. /\ judged_to' \in Seq(Nat) /\ Len(judged_to') = Len(hto) + Len(input)
        /\ \A i \in 1 .. Len(hto) + Len(input) :
             judged_to'[i] = IF i <= Len(hto) THEN hto[i] ELSE input[i - Len(hto)]
    <3>1. hto \in Seq(Nat) /\ judged_to' = hto \o input
      BY <1>3, <1>4
    <3> DEFINE joined == hto \o input
    <3>2. /\ joined \in Seq(Nat) /\ Len(joined) = Len(hto) + Len(input)
          /\ \A i \in 1 .. Len(hto) + Len(input) : joined[i] = IF i <= Len(hto) THEN hto[i] ELSE input[i - Len(hto)]
      BY ONLY <2>1, <3>1, ConcatProperties, Z3T(30)
    <3> HIDE DEF joined
    <3>3. judged_to' = joined
      BY <3>1 DEF joined
    <3> QED BY ONLY <3>2, <3>3
  <2>4. Len(hto) = len /\ Len(input) = count /\ len \in Nat /\ count \in Nat
    BY <1>3, <1>13, <2>1
  <2>5. \A j \in 1 .. len : judged_to'[j] = hto[j]
    BY <2>3, <2>4
  <2>6. ASSUME NEW k \in (len + 1) .. len + count
        PROVE  judged_to'[k] = input[k - len]
    <3>1. k \in 1 .. Len(hto) + Len(input) /\ ~(k <= Len(hto))
      BY <2>4
    <3> QED BY <2>3, <2>4, <3>1
  <2> QED BY <2>3, <2>4, <2>5, <2>6
<1> DEFINE total == len + count
           Right(k) == /\ judged_to'[k] \in 1 .. last
                       /\ EntryOf(judged'[k], weeks[judged_to'[k]])
                       /\ CountsOn(judged', k)
<1>7. \A k \in 1 .. len : Right(k)
  <2> SUFFICES ASSUME NEW k \in 1 .. len PROVE Right(k)
    OBVIOUS
  <2>1. judged'[k] = h[k] /\ judged_to'[k] = hto[k]
    BY <1>5, <1>6
  <2>2. k # 1 => judged'[k - 1] = h[k - 1]
    BY <1>3, <1>5
  <2> QED BY <1>3, <2>1, <2>2 DEF CountsOn
<1>8. ASSUME NEW k \in (len + 1) .. total, k # 1 => Right(k - 1) PROVE Right(k)
  <2> DEFINE before == IF k = 1 THEN NoWeek ELSE judged'[k - 1]
             week == input[k - len]
  <2>1. judged'[k] = EvaluateWeek(weeks[week], before) /\ judged_to'[k] = week /\ week \in 1 .. last
    <3>1. k \in (len + 1) .. Len(judged')
      BY <1>5
    <3>2. judged'[k] = EvaluateWeek(weeks[week], before)
      BY <1>5, <3>1
    <3>3. judged_to'[k] = week
      BY <1>6
    <3>4. k - len \in 1 .. Len(input)
      BY <1>3, <1>13 DEF count
    <3>5. week \in 1 .. last
      BY <1>13, <3>4, ElementOfSeq
    <3> QED BY <3>2, <3>3, <3>5
  <2>2. before.streak \in Nat
    <3>1. CASE k = 1
      BY <3>1 DEF NoWeek
    <3>2. CASE k # 1
      BY <1>8, <3>2 DEF EntryOf
    <3> QED BY <3>1, <3>2
  <2>3. k = 1 => before.streak = 0
    BY DEF NoWeek
  <2>4. k # 1 => before = judged'[k - 1]
    OBVIOUS
  <2> HIDE DEF before, week
  <2>5. /\ EntryOf(judged'[k], weeks[judged_to'[k]])
        /\ judged'[k].streak = IF judged'[k].status = "HEALTHY" THEN before.streak + 1 ELSE 0
    BY <2>1, <2>2, EvaluationIsOfWeek
  <2>6. CountsOn(judged', k)
    BY <2>3, <2>4, <2>5 DEF CountsOn
  <2> QED BY <2>1, <2>5, <2>6
<1>9. \A k \in 1 .. total : Right(k)
  <2> DEFINE T == {m \in Nat : m \in 1 .. total => Right(m)}
  <2> HIDE DEF Right
  <2>1. 0 \in T
    OBVIOUS
  <2>2. \A m \in Nat : m \in T => m + 1 \in T
    <3> SUFFICES ASSUME NEW m \in Nat, m \in T, m + 1 \in 1 .. total PROVE Right(m + 1)
      OBVIOUS
    <3>1. CASE m + 1 <= len
      BY <1>7, <3>1, <1>3
    <3>2. CASE ~(m + 1 <= len)
      <4>1. m + 1 \in (len + 1) .. total /\ (m + 1) - 1 = m /\ (m + 1 # 1 => m \in 1 .. total)
        BY <1>3, <1>13, <3>2
      <4>2. m + 1 # 1 => Right(m)
        BY <4>1
      <4> QED BY <1>8, <4>1, <4>2
    <3> QED BY <3>1, <3>2
  <2> HIDE DEF T
  <2>3. Nat \subseteq T
    BY <2>1, <2>2, SetInduction
  <2> QED BY <2>3 DEF T
<1>10. ASSUME NEW k \in 1 .. total, judged'[k].cycle # Unknown, k < total
       PROVE  judged_to'[k + 1] \in {judged_to'[k], judged_to'[k] + 1}
  <2>1. ~(k <= len)
    BY <1>3, <1>5, <1>10
  <2>2. k \in (len + 1) .. total /\ k + 1 \in (len + 1) .. total
    BY <1>3, <1>10, <1>13, <2>1
  <2>3. k - len \in 1 .. (count - 1) /\ (k + 1) - len = (k - len) + 1
    BY <1>3, <1>13, <2>2
  <2>4. judged_to'[k] = input[k - len] /\ judged_to'[k + 1] = input[(k - len) + 1]
    BY <1>6, <2>2, <2>3
  <2> QED BY <1>13, <2>3, <2>4
<1>11. ReportEarned'
  BY <1>2 DEF JudgedInv, ReportEarned, WindowEarned
<1> HIDE DEF Right
<1>12. /\ weeks' \in Seq(WeekInputs) /\ Len(judged') = total /\ Len(judged_to') = Len(judged')
       /\ Len(weeks') = last
  BY <1>2, <1>5, <1>6 DEF JudgedInv, last
<1> HIDE DEF total
<1> QED BY <1>2, <1>5, <1>6, <1>9, <1>10, <1>11, <1>12 DEF JudgedInv, Right


LEMMA WeekObserved ==
  ASSUME JudgedInv, Observe
  PROVE  JudgedInv'
<1>1. PICK w \in WeekInputs : weeks' = Append(weeks, w)
  BY DEF Observe
<1>2. UNCHANGED <<judged, judged_to, weekly_report>>
  BY DEF Observe
<1>3. /\ weeks \in Seq(WeekInputs) /\ Len(weeks) \in Nat /\ DOMAIN weeks = 1 .. Len(weeks)
      /\ weeks' \in Seq(WeekInputs) /\ Len(weeks') = Len(weeks) + 1 /\ DOMAIN weeks' = 1 .. Len(weeks) + 1
      /\ \A t \in 1 .. Len(weeks) : weeks'[t] = weeks[t]
  <2>1. weeks \in Seq(WeekInputs)
    BY DEF JudgedInv
  <2>2. weeks' \in Seq(WeekInputs) /\ Len(weeks') = Len(weeks) + 1
        /\ \A t \in 1 .. Len(weeks) : weeks'[t] = weeks[t]
    BY <1>1, <2>1, AppendProperties
  <2> QED BY <2>1, <2>2, LenProperties
<1>4. ASSUME NEW i \in 1 .. Len(judged)
      PROVE  judged_to[i] \in 1 .. Len(weeks') /\ EntryOf(judged[i], weeks'[judged_to[i]])
  <2>1. judged_to[i] \in 1 .. Len(weeks) /\ EntryOf(judged[i], weeks[judged_to[i]])
    BY DEF JudgedInv
  <2> QED BY <1>3, <2>1
<1>5. ReportEarned'
  <2>1. ReportEarned
    BY DEF JudgedInv
  <2>2. ASSUME weekly_report # Unknown, weekly_report.ready PROVE WindowEarned(weekly_report.window)'
    <3> DEFINE window == weekly_report.window
    <3>1. WindowEarned(window)
      BY <2>1, <2>2 DEF ReportEarned
    <3>2. window' = window
      BY <1>2
    <3>3. \A i \in 1 .. 4 : window[i] \in DOMAIN weeks' /\ Sound(weeks'[window[i]])
      BY <1>3, <3>1 DEF WindowEarned
    <3> QED BY <3>1, <3>2, <3>3 DEF WindowEarned
  <2> QED BY <1>2, <2>2 DEF ReportEarned
<1> QED BY <1>2, <1>3, <1>4, <1>5 DEF JudgedInv, CountsOn

\* The last four of a list, if there are as many.
LEMMA LastFourOf ==
  ASSUME NEW S, NEW es \in Seq(S)
  PROVE  LET n == Len(es)
             four == LastFour(es)
         IN  /\ Len(four) = IF n >= 4 THEN 4 ELSE n
             /\ DOMAIN four = 1 .. Len(four)
             /\ n >= 4 => \A i \in 1 .. 4 : four[i] = es[n - 4 + i]
<1> DEFINE four == LastFour(es)
           n == Len(es)
           from == IF n > 4 THEN n - 3 ELSE 1
<1>1. n \in Nat
  BY LenProperties
<1>2. from \in 1 .. n + 1 /\ n \in from - 1 .. n
  BY <1>1
<1>3. four = SubSeq(es, from, n)
  BY DEF LastFour
<1> HIDE DEF from, four
<1>4. /\ four \in Seq(S) /\ Len(four) = IF from <= n THEN n - from + 1 ELSE 0
      /\ \A i \in 1 .. n - from + 1 : four[i] = es[from + i - 1]
  BY <1>1, <1>2, <1>3, SubSeqProperties
<1> HIDE DEF n
<1>5. /\ (IF from <= n THEN n - from + 1 ELSE 0) = (IF n >= 4 THEN 4 ELSE n)
      /\ n >= 4 => n - from + 1 = 4
      /\ n >= 4 => \A i \in 1 .. 4 : from + i - 1 = n - 4 + i
  <2>1. CASE n > 4
    BY <1>1, <2>1 DEF from
  <2>2. CASE n <= 4
    BY <1>1, <2>2 DEF from
  <2> QED BY <1>1, <2>1, <2>2
<1>6. /\ Len(four) = IF n >= 4 THEN 4 ELSE n
      /\ DOMAIN four = 1 .. Len(four)
      /\ n >= 4 => \A i \in 1 .. 4 : four[i] = es[n - 4 + i]
  BY <1>4, <1>5, LenProperties
<1> QED BY <1>6 DEF n, four

\* What is left to say of a window without a reason against it.
LEMMA ReadyMeans ==
  ASSUME NEW S, NEW es \in Seq(S), es # <<>>, es[Len(es)].streak \in Nat, ReadinessReasons(es) = {}
  PROVE  /\ Len(es) >= 4 /\ es[Len(es)].streak >= 4
         /\ \A i \in (Len(es) - 3) .. Len(es) :
              es[i].freeze = FALSE /\ es[i].cycle # Unknown /\ es[i].continuity = "PASS"
<1> DEFINE four == LastFour(es)
           n == Len(es)
<1>1. n \in Nat \ {0}
  BY EmptySeq, LenProperties
<1>2. /\ Len(four) = IF n >= 4 THEN 4 ELSE n
      /\ DOMAIN four = 1 .. Len(four)
      /\ n >= 4 => \A i \in 1 .. 4 : four[i] = es[n - 4 + i]
  BY LastFourOf
<1> HIDE DEF four, n
<1>3. /\ ~(es[n].streak < 4) /\ Len(four) = 4
      /\ ~\E i \in DOMAIN four : IF four[i].cycle = Unknown THEN TRUE ELSE four[i].cycle >= 480
      /\ ~\E i \in DOMAIN four : four[i].freeze # FALSE
      /\ ~\E i \in DOMAIN four : four[i].continuity # "PASS"
  BY DEF ReadinessReasons, four, n
<1>4. n >= 4
  <2> DEFINE m == Len(four)
  <2>1. m = 4
    BY <1>3
  <2>2. m = IF n >= 4 THEN 4 ELSE n
    BY <1>2
  <2> HIDE DEF m
  <2> QED BY <1>1, <2>1, <2>2
<1>5. ASSUME NEW i \in (n - 3) .. n
      PROVE  es[i].freeze = FALSE /\ es[i].cycle # Unknown /\ es[i].continuity = "PASS"
  <2>1. i - n + 4 \in 1 .. 4 /\ n - 4 + (i - n + 4) = i
    BY <1>1
  <2>2. es[i] = four[i - n + 4] /\ i - n + 4 \in DOMAIN four
    BY <1>2, <1>3, <1>4, <2>1
  <2> DEFINE k == i - n + 4
  <2>3. es[i] = four[k] /\ k \in DOMAIN four
    BY <2>2
  <2> HIDE DEF k
  <2> QED BY <1>3, <2>3, Zenon
<1>6. es[n].streak >= 4
  BY <1>3 DEF n
<1> QED BY ONLY <1>4, <1>5, <1>6, Zenon DEF n

LEMMA ReportInjected ==
  ASSUME JudgedInv, Inject
  PROVE  JudgedInv'
<1> DEFINE n == Len(judged)
<1>1. /\ judged # <<>> /\ UNCHANGED <<weeks, judged, judged_to>>
      /\ weekly_report'.window = LastFour(judged_to)
      /\ weekly_report'.ready = (ReadinessReasons(judged) = {})
  BY DEF Inject
<1>2. /\ judged \in Seq(Range(judged)) /\ n \in Nat \ {0} /\ Len(judged_to) = n /\ judged_to \in Seq(Nat)
      /\ \A i \in 1 .. n :
            /\ judged_to[i] \in 1 .. Len(weeks)
            /\ EntryOf(judged[i], weeks[judged_to[i]])
            /\ CountsOn(judged, i)
            /\ judged[i].cycle # Unknown /\ i < n => judged_to[i + 1] \in {judged_to[i], judged_to[i] + 1}
      /\ weeks \in Seq(WeekInputs) /\ Len(weeks) \in Nat /\ DOMAIN weeks = 1 .. Len(weeks)
  BY <1>1, EmptySeq, LenProperties DEF JudgedInv
<1> HIDE DEF n
<1>3. ASSUME ReadinessReasons(judged) = {}
      PROVE  WindowEarned(LastFour(judged_to))
  <2>1. \A i \in 1 .. n : judged[i].streak \in Nat
    BY <1>2 DEF EntryOf
  <2>2. /\ n >= 4 /\ judged[n].streak >= 4
        /\ \A i \in (n - 3) .. n :
             judged[i].freeze = FALSE /\ judged[i].cycle # Unknown /\ judged[i].continuity = "PASS"
    <3>1. judged[Len(judged)].streak \in Nat
      BY <1>2, <2>1 DEF n
    <3> QED BY <1>1, <1>2, <1>3, <3>1, ReadyMeans DEF n
  <2>3. \A j \in (n - judged[n].streak + 1) .. n : judged[j].status = "HEALTHY"
    <3>1. \A i \in 1 .. n : judged[i].streak \in Nat /\ CountsOn(judged, i)
      BY <1>2, <2>1
    <3>2. \A i \in 1 .. n :
            /\ judged[i].streak <= i
            /\ \A j \in (i - judged[i].streak + 1) .. i : judged[j].status = "HEALTHY"
      BY <1>2, <3>1, StreakIsHealthy
    <3>3. n \in 1 .. n
      BY <1>2
    <3> QED BY <3>2, <3>3, Zenon
  <2>4. \A j \in (n - 3) .. n : judged[j].status = "HEALTHY"
    <3>1. \A j \in (n - 3) .. n : j \in (n - judged[n].streak + 1) .. n
      BY <1>2, <2>1, <2>2
    <3> QED BY <2>3, <3>1
  <2> DEFINE window == LastFour(judged_to)
  <2>5. Len(window) = 4 /\ \A i \in 1 .. 4 : window[i] = judged_to[n - 4 + i]
    BY <1>2, <2>2, LastFourOf
  <2> HIDE DEF window
  <2>6. ASSUME NEW i \in 1 .. 4 PROVE window[i] \in DOMAIN weeks /\ Sound(weeks[window[i]])
    <3> DEFINE j == n - 4 + i
    <3>1. j \in (n - 3) .. n /\ j \in 1 .. n
      BY <1>2, <2>2
    <3>2. window[i] = judged_to[j]
      BY <2>5
    <3> HIDE DEF j
    <3>3. /\ judged_to[j] \in DOMAIN weeks /\ EntryOf(judged[j], weeks[judged_to[j]])
      BY <1>2, <3>1
    <3>4. /\ OwnStatus(weeks[judged_to[j]]) = "HEALTHY" /\ weeks[judged_to[j]].freeze = FALSE
          /\ Continuity(weeks[judged_to[j]]) = "PASS"
      BY <2>2, <2>4, <3>1, <3>3 DEF EntryOf
    <3> QED BY <3>2, <3>3, <3>4, HealthyIsSound
  <2>7. ASSUME NEW i \in 1 .. 3 PROVE window[i + 1] \in {window[i], window[i] + 1}
    <3> DEFINE j == n - 4 + i
    <3>1. j \in (n - 3) .. n /\ j \in 1 .. n /\ j < n
      BY <1>2, <2>2
    <3>2. window[i] = judged_to[j] /\ window[i + 1] = judged_to[j + 1]
      <4>1. i \in 1 .. 4 /\ i + 1 \in 1 .. 4 /\ n - 4 + (i + 1) = j + 1
        BY <1>2
      <4> QED BY <2>5, <4>1
    <3> HIDE DEF j
    <3> QED BY <1>2, <2>2, <3>1, <3>2
  <2> QED BY <2>5, <2>6, <2>7 DEF WindowEarned, window
<1>4. ReportEarned'
  <2>1. ASSUME weekly_report'.ready PROVE WindowEarned(weekly_report.window)'
    <3>1. WindowEarned(LastFour(judged_to))
      BY <1>1, <1>3, <2>1
    <3> QED BY <1>1, <3>1 DEF WindowEarned
  <2> QED BY <2>1 DEF ReportEarned
<1> QED BY <1>1, <1>4 DEF JudgedInv, CountsOn

\* L3 is earned: however the weeks were handed over, in parts, twice, with or
\* without the history, the report says ready only of four sound evaluations
\* between which no week was skipped, and a streak counts healthy ones only
\* (judge_healthy_streak.py, evaluate_invariants, evaluate_week,
\* evaluate_l3_readiness, run; apply_healthy_streak_to_report.py).
THEOREM L3IsEarned == StreakSpec => []ReadinessIsEarned
<1>1. StreakInit => JudgedInv
  <2> SUFFICES ASSUME StreakInit PROVE JudgedInv
    OBVIOUS
  <2>1. /\ weeks = <<>> /\ judged = <<>> /\ judged_to = <<>> /\ weekly_report = Unknown
    BY DEF StreakInit
  <2>2. /\ weeks \in Seq(WeekInputs) /\ judged_to \in Seq(Nat) /\ judged \in Seq(Range(judged))
        /\ Len(judged) = 0 /\ Len(judged_to) = 0
    BY <2>1, EmptySeq, SeqOfRange
  <2> QED BY <2>1, <2>2 DEF JudgedInv, ReportEarned
<1>2. JudgedInv /\ [StreakNext]_streak_vars => JudgedInv'
  <2>1. ASSUME JudgedInv, UNCHANGED streak_vars PROVE JudgedInv'
    BY <2>1 DEF JudgedInv, streak_vars, ReportEarned, WindowEarned, CountsOn
  <2> QED BY <2>1, WeekObserved, JudgedAgain, ReportInjected DEF StreakNext
<1>3. ASSUME JudgedInv PROVE ReadinessIsEarned
  <2> SUFFICES ASSUME judged # <<>>
               PROVE  LET n == Len(judged)
                      IN  /\ judged[n].streak <= n
                          /\ \A i \in (n - judged[n].streak + 1)..n : OwnStatus(weeks[judged_to[i]]) = "HEALTHY"
    BY <1>3 DEF JudgedInv, ReportEarned, WindowEarned, ReadinessIsEarned
  <2> DEFINE n == Len(judged)
  <2>1. n \in Nat \ {0}
    BY <1>3, EmptySeq, LenProperties DEF JudgedInv
  <2>2. \A i \in 1 .. n : /\ EntryOf(judged[i], weeks[judged_to[i]]) /\ CountsOn(judged, i)
                          /\ judged[i].streak \in Nat
    BY <1>3 DEF JudgedInv, EntryOf
  <2> HIDE DEF n
  <2>3. /\ judged[n].streak <= n /\ judged[n].streak \in Nat
        /\ \A j \in (n - judged[n].streak + 1) .. n : judged[j].status = "HEALTHY"
    <3>1. n \in Nat /\ n \in 1 .. n
      BY <2>1
    <3>2. \A i \in 1 .. n : judged[i].streak \in Nat /\ CountsOn(judged, i)
      BY <2>2
    <3> QED BY <2>2, <3>1, <3>2, StreakIsHealthy
  <2>4. \A j \in (n - judged[n].streak + 1) .. n : j \in 1 .. n
    BY <2>1, <2>3
  <2>5. \A j \in (n - judged[n].streak + 1) .. n : OwnStatus(weeks[judged_to[j]]) = "HEALTHY"
    BY <2>2, <2>3, <2>4 DEF EntryOf
  <2> QED BY <2>3, <2>5 DEF n
<1> QED BY <1>1, <1>2, <1>3, PTL DEF StreakSpec

(***************************************************************************)
(* The memory of OpenClaw                                                  *)
(***************************************************************************)

-----------------------------------------------------------------------------
(* Lines of the log                                                          *)

AttemptLine == [intent : IntentKeys, attempt : Nat, reason : Reasons \cup {NoReason},
                outcome : {"SUCCESS", "REJECT", "HARD_REJECT", "STOPPED_BY_CAP", "PRE_REJECT"}]

\* The attempts of an intent up to a line.
AttemptsUpTo(log, key, i) == {j \in DOMAIN log : log[j].intent = key /\ j <= i}

\* A line that is appended is one more attempt of its intent, and one more success
\* if it is one.
LEMMA LogGrows ==
  ASSUME attempt_log \in Seq(AttemptLine), NEW e \in AttemptLine, attempt_log' = Append(attempt_log, e), NEW key
  PROVE  /\ Cardinality(AttemptsAt(key))' \in Nat /\ Cardinality(SuccessesAt(key))' \in Nat
         /\ Cardinality(AttemptsAt(key)) \in Nat /\ Cardinality(SuccessesAt(key)) \in Nat
         /\ Cardinality(AttemptsAt(key))' = Cardinality(AttemptsAt(key)) + (IF e.intent = key THEN 1 ELSE 0)
         /\ Cardinality(SuccessesAt(key))'
              = Cardinality(SuccessesAt(key)) + (IF e.intent = key /\ e.outcome = "SUCCESS" THEN 1 ELSE 0)
         /\ \A i \in DOMAIN attempt_log : AttemptsUpTo(attempt_log', key, i) = AttemptsUpTo(attempt_log, key, i)
         /\ AttemptsUpTo(attempt_log', key, Len(attempt_log) + 1) = AttemptsAt(key)'
<1> DEFINE n == Len(attempt_log) + 1
<1>1. /\ Len(attempt_log) \in Nat /\ n \in Nat /\ n \notin DOMAIN attempt_log
      /\ DOMAIN attempt_log = 1 .. Len(attempt_log) /\ DOMAIN attempt_log' = 1 .. n
      /\ \A i \in 1 .. Len(attempt_log) : attempt_log'[i] = attempt_log[i]
      /\ attempt_log'[n] = e
  OBVIOUS
<1>2. IsFiniteSet(1 .. Len(attempt_log))
  <2>1. 1 \in Int /\ Len(attempt_log) \in Int
    BY <1>1
  <2> QED BY ONLY <2>1, FS_Interval
<1>3. IsFiniteSet(AttemptsAt(key)) /\ IsFiniteSet(SuccessesAt(key))
      /\ n \notin AttemptsAt(key) /\ n \notin SuccessesAt(key)
  <2>1. AttemptsAt(key) \subseteq 1 .. Len(attempt_log) /\ SuccessesAt(key) \subseteq 1 .. Len(attempt_log)
    BY <1>1 DEF AttemptsAt, SuccessesAt
  <2> QED BY <1>1, <1>2, <2>1, FS_Subset
<1>4. AttemptsAt(key)' = IF e.intent = key THEN AttemptsAt(key) \cup {n} ELSE AttemptsAt(key)
  BY <1>1 DEF AttemptsAt
<1>5. SuccessesAt(key)' = IF e.intent = key /\ e.outcome = "SUCCESS" THEN SuccessesAt(key) \cup {n}
                          ELSE SuccessesAt(key)
  BY <1>1 DEF AttemptsAt, SuccessesAt
<1>6. /\ Cardinality(AttemptsAt(key)) \in Nat /\ Cardinality(SuccessesAt(key)) \in Nat
      /\ Cardinality(AttemptsAt(key) \cup {n}) = Cardinality(AttemptsAt(key)) + 1
      /\ Cardinality(SuccessesAt(key) \cup {n}) = Cardinality(SuccessesAt(key)) + 1
  BY <1>3, FS_CardinalityType, FS_AddElement
<1>7. \A i \in DOMAIN attempt_log : AttemptsUpTo(attempt_log', key, i) = AttemptsUpTo(attempt_log, key, i)
  <2> SUFFICES ASSUME NEW i \in DOMAIN attempt_log PROVE AttemptsUpTo(attempt_log', key, i) = AttemptsUpTo(attempt_log, key, i)
    OBVIOUS
  <2> QED BY <1>1 DEF AttemptsUpTo
<1>8. AttemptsUpTo(attempt_log', key, n) = AttemptsAt(key)'
  BY <1>1 DEF AttemptsUpTo, AttemptsAt
<1>9. /\ Cardinality(AttemptsAt(key))' = Cardinality(AttemptsAt(key)) + (IF e.intent = key THEN 1 ELSE 0)
      /\ Cardinality(AttemptsAt(key))' \in Nat
  BY <1>4, <1>6
<1>10. /\ Cardinality(SuccessesAt(key))'
            = Cardinality(SuccessesAt(key)) + (IF e.intent = key /\ e.outcome = "SUCCESS" THEN 1 ELSE 0)
       /\ Cardinality(SuccessesAt(key))' \in Nat
  BY <1>5, <1>6
<1> QED BY <1>6, <1>7, <1>8, <1>9, <1>10

-----------------------------------------------------------------------------
(* Counts                                                                    *)

\* What is read from a file of statistics or kept of it.
IsStats(stats) == stats = <<>> \/ \E keys \in SUBSET IntentKeys : stats \in [keys -> IntentCounts]

LEMMA StatsTyped ==
  ASSUME NEW stats, IsStats(stats)
  PROVE  /\ DOMAIN stats \subseteq IntentKeys
         /\ \A key \in DOMAIN stats : stats[key] \in IntentCounts
<1>1. CASE stats = <<>>
  BY <1>1
<1>2. CASE \E keys \in SUBSET IntentKeys : stats \in [keys -> IntentCounts]
  BY <1>2
<1> QED BY <1>1, <1>2 DEF IsStats

LEMMA TriedIsNat ==
  ASSUME NEW stats, IsStats(stats), NEW key
  PROVE  Tried(stats, key) \in Nat
BY StatsTyped DEF Tried, IntentCounts

\* Statistics are no file that was cut short.
LEMMA StatsAreWhole ==
  ASSUME NEW stats, IsStats(stats)
  PROVE  Loaded(stats) = stats
BY LearningMarks DEF IsStats, Loaded

\* One attempt more for the intent of the line, and no other change.
LEMMA StatsUpdated ==
  ASSUME NEW stats, IsStats(stats), NEW e \in AttemptLine
  PROVE  /\ IsStats(UpdateIntentStats(stats, e))
         /\ DOMAIN UpdateIntentStats(stats, e) = DOMAIN stats \cup {e.intent}
         /\ \A key \in DOMAIN stats : key # e.intent => UpdateIntentStats(stats, e)[key] = stats[key]
         /\ UpdateIntentStats(stats, e)[e.intent].attempts = Tried(stats, e.intent) + 1
         /\ UpdateIntentStats(stats, e)[e.intent].successes
              = (IF e.intent \in DOMAIN stats THEN stats[e.intent].successes ELSE 0)
                  + (IF e.outcome = "SUCCESS" THEN 1 ELSE 0)
<1> DEFINE old == IF e.intent \in DOMAIN stats THEN stats[e.intent]
                  ELSE [attempts |-> 0, successes |-> 0, dominant |-> NoReason]
           new == [attempts |-> old.attempts + 1,
                   successes |-> old.successes + (IF e.outcome = "SUCCESS" THEN 1 ELSE 0),
                   dominant |-> IF e.outcome = "SUCCESS" THEN old.dominant ELSE e.reason]
           keys == DOMAIN stats \cup {e.intent}
           result == [k \in keys |-> IF k # e.intent THEN stats[k] ELSE new]
<1>1. UpdateIntentStats(stats, e) = result
  BY DEF UpdateIntentStats
<1>2. DOMAIN stats \subseteq IntentKeys /\ \A key \in DOMAIN stats : stats[key] \in IntentCounts
  BY StatsTyped
<1>3. old \in IntentCounts
  BY <1>2 DEF IntentCounts
<1>4. new \in IntentCounts
  <2> HIDE DEF old
  <2> QED BY <1>3 DEF IntentCounts, AttemptLine
<1>5. keys \in SUBSET IntentKeys
  BY <1>2 DEF AttemptLine
<1>6. result \in [keys -> IntentCounts]
  <2> HIDE DEF new
  <2> QED BY <1>2, <1>4
<1>7. IsStats(result)
  <2> HIDE DEF result, keys
  <2> QED BY <1>5, <1>6 DEF IsStats
<1>8. result[e.intent] = new
  OBVIOUS
<1>9. new.attempts = Tried(stats, e.intent) + 1
  BY DEF Tried
<1>10. new.successes = (IF e.intent \in DOMAIN stats THEN stats[e.intent].successes ELSE 0)
                         + (IF e.outcome = "SUCCESS" THEN 1 ELSE 0)
  OBVIOUS
<1>11. DOMAIN result = keys /\ \A key \in DOMAIN stats : key # e.intent => result[key] = stats[key]
  OBVIOUS
<1> QED
  <2> HIDE DEF new, result
  <2> QED BY <1>1, <1>7, <1>8, <1>9, <1>10, <1>11

-----------------------------------------------------------------------------
(* What is always true                                                       *)

GatewayFields == {"pc", "intents", "suggests", "pending", "retry", "outcome"}

\* A request that is asked once more differs from one that may be asked in its radius.
Shrunk(ask) ==
    \E first \in Asks : /\ first.action = ask.action /\ first.target = ask.target /\ first.phrase = ask.phrase

\* The memory of an open gateway.
GatewayType(r) ==
    /\ DOMAIN r = GatewayFields
    /\ r.pc \in {"idle", "intents", "suggests", "retry", "learn"}
    /\ IsStats(r.intents)
    /\ \A ask \in r.retry : Shrunk(ask)

LearningTypes ==
    /\ attempt_log \in Seq(AttemptLine)
    /\ upsets \in Nat /\ shared \in BOOLEAN
    /\ intent_stats = Torn \/ IsStats(intent_stats)
    /\ upsets = 0 => IsStats(intent_stats)
    /\ DOMAIN gateways = Gateways
    /\ \A g \in Gateways : gateways[g].pc # "closed" => GatewayType(gateways[g])

\* One gateway is open at a time, as long as they did not share the files.
OneAtATime == ~shared => \A g, h \in Gateways : Open(g) /\ Open(h) => g = h

\* An upset costs the line it is in, and may leave the last line of the file without its
\* end: then it costs one more, the next that is appended.
Exposed == lost \cup last_line
Pending == IF last_line = {} THEN 0 ELSE 1

LostCounted ==
    /\ lost \subseteq DOMAIN attempt_log /\ last_line \subseteq DOMAIN attempt_log
    /\ Cardinality(Exposed) + Pending <= 2 * upsets

\* What StatsOfTheLog says of the statistics whatever happens.
NothingInvented ==
    /\ WithinLog(Loaded(intent_stats))
    /\ \A g \in Gateways : Open(g) => WithinLog(gateways[g].intents)
    /\ \A i \in DOMAIN attempt_log :
          attempt_log[i].attempt <= Cardinality(AttemptsUpTo(attempt_log, attempt_log[i].intent, i))

\* What it says of gateways that nothing disturbs.
AllCounted ==
    Undisturbed =>
      /\ \A g \in Gateways : Open(g) => CountsLog(gateways[g].intents)
      /\ (\A g \in Gateways : gateways[g].pc # "intents") => CountsLog(intent_stats)
      /\ \A i \in DOMAIN attempt_log : attempt_log[i].attempt # 0 =>
            attempt_log[i].attempt = Cardinality(AttemptsUpTo(attempt_log, attempt_log[i].intent, i))

LearningInv == LearningTypes /\ OneAtATime /\ LostCounted /\ NothingInvented /\ AllCounted

-----------------------------------------------------------------------------
(* The kinds of steps                                                        *)

\* The line of an attempt goes to the log, as far as it comes.
Appends(e) == AppendAttempt(e) \/ LineFails(e)

\* A gateway records a line there and in its memory, or dies over it.
Records(g, e) ==
    /\ Appends(e)
    /\ UNCHANGED <<intent_stats, shared>>
    /\ DOMAIN gateways' = Gateways
    /\ \A h \in Gateways \ {g} : gateways'[h] = gateways[h]
    /\ \/ /\ gateways'[g].pc = "intents"
          /\ gateways'[g].intents = UpdateIntentStats(gateways[g].intents, e)
          /\ DOMAIN gateways'[g] = GatewayFields
          /\ \A ask \in gateways'[g].retry : Shrunk(ask)
       \/ gateways'[g].pc = "closed" /\ LineFails(e)

\* The line counts one attempt more than the gateway knows of, or has no number.
Numbered(e, stats) == e.attempt = 0 \/ e.attempt = Tried(stats, e.intent) + 1

LEMMA GatewayEntryTyped ==
  ASSUME NEW ask, ResolveIntentKey(ask) \in IntentKeys, NEW stats, IsStats(stats)
  PROVE  GatewayEntry(ask, stats) \in AttemptLine /\ Numbered(GatewayEntry(ask, stats), stats)
<1>1. Outcome(Verdict(ask)) \in {"SUCCESS", "REJECT", "HARD_REJECT"}
  BY DEF Outcome, Verdict, EvaluateGateway
<1>2. MapRejectCode(ask) \in Reasons \cup {NoReason}
  BY DEF MapRejectCode, Reasons
<1>3. Tried(stats, ResolveIntentKey(ask)) + 1 \in Nat
  BY TriedIsNat
<1> QED BY <1>1, <1>2, <1>3 DEF GatewayEntry, AttemptLine, Numbered

LEMMA StopEntryTyped ==
  ASSUME NEW stop \in Stops, NEW stats, IsStats(stats)
  PROVE  StopEntry(stop, stats) \in AttemptLine /\ Numbered(StopEntry(stop, stats), stats)
<1>1. StopKey(stop) \in IntentKeys
  BY DEF IntentKeys
<1>2. stop.reason \in Reasons
  BY LearningInputs DEF StopType, Reasons
<1>3. Tried(stats, StopKey(stop)) + 1 \in Nat
  BY TriedIsNat
<1> QED BY <1>1, <1>2, <1>3 DEF StopEntry, AttemptLine, Numbered

\* What is asked once more has the intent of what was asked first.
LEMMA ShrunkKey ==
  ASSUME NEW ask, Shrunk(ask)
  PROVE  ResolveIntentKey(ask) \in IntentKeys
<1>1. PICK first \in Asks : first.action = ask.action /\ first.target = ask.target /\ first.phrase = ask.phrase
  BY DEF Shrunk
<1>2. ResolveIntentKey(ask) = ResolveIntentKey(first)
  BY <1>1 DEF ResolveIntentKey
<1> QED BY <1>2 DEF IntentKeys

\* An attempt records its line.
LEMMA AttemptRecords ==
  ASSUME LearningTypes, NEW g \in Gateways, gateways[g].pc # "closed",
         NEW ask, ResolveIntentKey(ask) \in IntentKeys, NEW retry, \A next \in retry : Shrunk(next),
         Attempt(g, ask, retry), UNCHANGED <<intent_stats, shared>>
  PROVE  \E e \in AttemptLine : Numbered(e, gateways[g].intents) /\ Records(g, e)
<1> DEFINE e == GatewayEntry(ask, gateways[g].intents)
           r == gateways[g]
           won == e.outcome = "SUCCESS"
           filled == IF won THEN BackFill(r.suggests, r.pending, e.intent) ELSE r.suggests
           left == IF won THEN [k \in DOMAIN r.pending \ {e.intent} |-> r.pending[k]] ELSE r.pending
<1>1. GatewayType(r) /\ DOMAIN gateways = Gateways
  BY DEF LearningTypes
<1>2. e \in AttemptLine /\ Numbered(e, gateways[g].intents)
  BY <1>1, GatewayEntryTyped DEF GatewayType
<1>3. AppendAttempt(e) \/ LineFails(e)
  BY DEF Attempt
<1>4. gateways' = [gateways EXCEPT
              ![g].pc = "intents", ![g].retry = retry, ![g].outcome = e.outcome,
              ![g].intents = UpdateIntentStats(@, e),
              ![g].suggests = IF won THEN BackFill(@, r.pending, e.intent) ELSE @,
              ![g].pending = IF won THEN [k \in DOMAIN @ \ {e.intent} |-> @[k]] ELSE @]
  BY DEF Attempt
<1>5. /\ DOMAIN gateways' = Gateways
      /\ \A h \in Gateways \ {g} : gateways'[h] = gateways[h]
      /\ gateways'[g] = [r EXCEPT !.pc = "intents", !.retry = retry, !.outcome = e.outcome,
                                  !.intents = UpdateIntentStats(@, e), !.suggests = filled, !.pending = left]
  <2> HIDE DEF e
  <2> QED BY <1>1, <1>4
<1>6. /\ DOMAIN gateways'[g] = GatewayFields
      /\ gateways'[g].pc = "intents" /\ gateways'[g].retry = retry
      /\ gateways'[g].intents = UpdateIntentStats(r.intents, e)
  <2> HIDE DEF e, filled, left
  <2> QED BY <1>1, <1>5 DEF GatewayType, GatewayFields
<1>7. Records(g, e)
  <2> HIDE DEF e, filled, left
  <2> QED BY <1>3, <1>5, <1>6 DEF Records, Appends
<1> QED BY <1>2, <1>7

\* So does a request that is stopped.
LEMMA StopRecords ==
  ASSUME LearningTypes, NEW g \in Gateways, NEW stop \in Stops, PreReject(g, stop)
  PROVE  \E e \in AttemptLine : Numbered(e, gateways[g].intents) /\ Records(g, e)
<1> DEFINE e == StopEntry(stop, gateways[g].intents)
           r == gateways[g]
           counted == IF stop.reason = "cap_exceeded" THEN r.suggests ELSE UpdateSuggestStats(r.suggests, stop.path)
<1>1. GatewayType(r) /\ DOMAIN gateways = Gateways
  BY DEF LearningTypes, PreReject
<1>2. e \in AttemptLine /\ Numbered(e, gateways[g].intents)
  BY <1>1, StopEntryTyped DEF GatewayType
<1>3. /\ AppendAttempt(e) \/ LineFails(e)
      /\ UNCHANGED <<intent_stats, shared>>
      /\ gateways' = [gateways EXCEPT
              ![g].pc = "intents", ![g].outcome = e.outcome,
              ![g].intents = UpdateIntentStats(@, e),
              ![g].suggests = IF stop.reason = "cap_exceeded" THEN @ ELSE UpdateSuggestStats(@, stop.path)]
  BY DEF PreReject
<1>4. /\ DOMAIN gateways' = Gateways
      /\ \A h \in Gateways \ {g} : gateways'[h] = gateways[h]
      /\ gateways'[g] = [r EXCEPT !.pc = "intents", !.outcome = e.outcome,
                                  !.intents = UpdateIntentStats(@, e), !.suggests = counted]
  <2> HIDE DEF e
  <2> QED BY <1>1, <1>3
<1>5. /\ DOMAIN gateways'[g] = GatewayFields
      /\ gateways'[g].pc = "intents" /\ gateways'[g].retry = r.retry
      /\ gateways'[g].intents = UpdateIntentStats(r.intents, e)
  <2> HIDE DEF e, counted
  <2> QED BY <1>1, <1>4 DEF GatewayType, GatewayFields
<1>6. Records(g, e)
  <2> HIDE DEF e, counted
  <2> QED BY <1>1, <1>3, <1>4, <1>5 DEF Records, Appends, GatewayType
<1> QED BY <1>2, <1>6

\* And what is being written when the gateway dies.
LEMMA KillRecords ==
  ASSUME LearningTypes, NEW g \in Gateways, NEW entry \in Writing(g), KillAppending(g, entry)
  PROVE  Open(g) /\ \E e \in AttemptLine : Numbered(e, gateways[g].intents) /\ Records(g, e)
<1>1. gateways[g].pc = "idle" \/ gateways[g].pc = "retry"
  BY Zenon DEF Writing
<1>2. GatewayType(gateways[g]) /\ DOMAIN gateways = Gateways
  BY <1>1 DEF LearningTypes
<1>3. IsStats(gateways[g].intents)
  BY <1>2 DEF GatewayType
<1>4. \/ \E ask : ResolveIntentKey(ask) \in IntentKeys /\ entry = GatewayEntry(ask, gateways[g].intents)
      \/ \E stop \in Stops : entry = StopEntry(stop, gateways[g].intents)
  <2>1. CASE gateways[g].pc = "idle"
    <3>1. \/ \E ask \in Asks : entry = GatewayEntry(ask, gateways[g].intents)
          \/ \E stop \in Stops : entry = StopEntry(stop, gateways[g].intents)
      BY <2>1 DEF Writing
    <3> QED BY <3>1 DEF IntentKeys
  <2>2. CASE gateways[g].pc = "retry"
    <3>1. PICK ask \in gateways[g].retry : entry = GatewayEntry(ask, gateways[g].intents)
      BY <2>2 DEF Writing
    <3>2. ResolveIntentKey(ask) \in IntentKeys
      BY <1>2, ShrunkKey DEF GatewayType
    <3> QED BY <3>1, <3>2
  <2> QED BY <1>1, <2>1, <2>2
<1>5. entry \in AttemptLine /\ Numbered(entry, gateways[g].intents)
  BY <1>3, <1>4, GatewayEntryTyped, StopEntryTyped
<1>6. Records(g, entry)
  BY <1>2 DEF KillAppending, Records, Appends, Closed
<1> QED BY <1>1, <1>5, <1>6 DEF Open

-----------------------------------------------------------------------------
(* A line that is recorded                                                   *)

Bounded(stats, key, attempts, successes) ==
    stats[key].attempts <= attempts /\ stats[key].successes <= successes

Exact(stats, key, attempts, successes) ==
    stats[key].attempts = attempts /\ stats[key].successes = successes

\* Counts within the log are within the longer log, with the new line or without it.
LEMMA WithinLonger ==
  ASSUME attempt_log \in Seq(AttemptLine), NEW e \in AttemptLine, attempt_log' = Append(attempt_log, e),
         NEW stats, IsStats(stats), WithinLog(stats)
  PROVE  /\ \A key \in DOMAIN stats : Bounded(stats, key, Cardinality(AttemptsAt(key))', Cardinality(SuccessesAt(key))')
         /\ \A key \in DOMAIN UpdateIntentStats(stats, e) :
              Bounded(UpdateIntentStats(stats, e), key, Cardinality(AttemptsAt(key))', Cardinality(SuccessesAt(key))')
         /\ Tried(stats, e.intent) + 1 <= Cardinality(AttemptsAt(e.intent))'
<1> DEFINE new == UpdateIntentStats(stats, e)
<1>1. \A key \in DOMAIN stats : Bounded(stats, key, Cardinality(AttemptsAt(key)), Cardinality(SuccessesAt(key)))
  BY DEF WithinLog, Bounded
<1>2. \A key \in DOMAIN stats : stats[key].attempts \in Nat /\ stats[key].successes \in Nat
  BY StatsTyped DEF IntentCounts
<1>3. /\ DOMAIN new = DOMAIN stats \cup {e.intent}
      /\ \A key \in DOMAIN stats : key # e.intent => new[key] = stats[key]
      /\ new[e.intent].attempts = Tried(stats, e.intent) + 1
      /\ new[e.intent].successes = (IF e.intent \in DOMAIN stats THEN stats[e.intent].successes ELSE 0)
                                     + (IF e.outcome = "SUCCESS" THEN 1 ELSE 0)
  BY StatsUpdated
<1> HIDE DEF new
<1>4. ASSUME NEW key \in DOMAIN stats
      PROVE  Bounded(stats, key, Cardinality(AttemptsAt(key))', Cardinality(SuccessesAt(key))')
  BY <1>1, <1>2, LogGrows DEF Bounded
<1>5. Tried(stats, e.intent) + 1 <= Cardinality(AttemptsAt(e.intent))'
  BY <1>1, <1>2, LogGrows DEF Bounded, Tried
<1>6. ASSUME NEW key \in DOMAIN new
      PROVE  Bounded(new, key, Cardinality(AttemptsAt(key))', Cardinality(SuccessesAt(key))')
  <2>1. CASE key # e.intent
    BY <1>3, <1>4, <2>1 DEF Bounded
  <2>2. CASE key = e.intent
    BY <1>1, <1>2, <1>3, <1>5, <2>2, LogGrows DEF Bounded
  <2> QED BY <2>1, <2>2
<1> QED BY <1>4, <1>5, <1>6 DEF new

\* Statistics that count the log count the longer log with the new line.
LEMMA CountedLonger ==
  ASSUME attempt_log \in Seq(AttemptLine), NEW e \in AttemptLine, attempt_log' = Append(attempt_log, e),
         NEW stats, IsStats(stats), CountsLog(stats)
  PROVE  /\ DOMAIN UpdateIntentStats(stats, e) = {attempt_log'[i].intent : i \in DOMAIN attempt_log'}
         /\ \A key \in DOMAIN UpdateIntentStats(stats, e) :
              Exact(UpdateIntentStats(stats, e), key, Cardinality(AttemptsAt(key))', Cardinality(SuccessesAt(key))')
         /\ Tried(stats, e.intent) + 1 = Cardinality(AttemptsAt(e.intent))'
<1> DEFINE new == UpdateIntentStats(stats, e)
<1>1. /\ \A key \in DOMAIN stats : Exact(stats, key, Cardinality(AttemptsAt(key)), Cardinality(SuccessesAt(key)))
      /\ DOMAIN stats = {attempt_log[i].intent : i \in DOMAIN attempt_log}
  BY DEF CountsLog, Exact
<1>2. /\ DOMAIN new = DOMAIN stats \cup {e.intent}
      /\ \A key \in DOMAIN stats : key # e.intent => new[key] = stats[key]
      /\ new[e.intent].attempts = Tried(stats, e.intent) + 1
      /\ new[e.intent].successes = (IF e.intent \in DOMAIN stats THEN stats[e.intent].successes ELSE 0)
                                     + (IF e.outcome = "SUCCESS" THEN 1 ELSE 0)
  BY StatsUpdated
<1> HIDE DEF new
<1>3. DOMAIN new = {attempt_log'[i].intent : i \in DOMAIN attempt_log'}
  <2>1. /\ DOMAIN attempt_log' = DOMAIN attempt_log \cup {Len(attempt_log) + 1}
        /\ \A i \in DOMAIN attempt_log : attempt_log'[i] = attempt_log[i]
        /\ attempt_log'[Len(attempt_log) + 1] = e
    OBVIOUS
  <2> QED BY <1>1, <1>2, <2>1
<1>4. e.intent \notin DOMAIN stats => Cardinality(AttemptsAt(e.intent)) = 0 /\ Cardinality(SuccessesAt(e.intent)) = 0
  <2>1. e.intent \notin DOMAIN stats => AttemptsAt(e.intent) = {} /\ SuccessesAt(e.intent) = {}
    BY <1>1 DEF AttemptsAt, SuccessesAt
  <2> QED BY <2>1, FS_EmptySet
<1>5. Tried(stats, e.intent) = Cardinality(AttemptsAt(e.intent))
  BY <1>1, <1>4 DEF Tried, Exact
<1>6. new[e.intent].successes = Cardinality(SuccessesAt(e.intent)) + (IF e.outcome = "SUCCESS" THEN 1 ELSE 0)
  BY <1>1, <1>2, <1>4 DEF Exact
<1>7. ASSUME NEW key \in DOMAIN new
      PROVE  Exact(new, key, Cardinality(AttemptsAt(key))', Cardinality(SuccessesAt(key))')
  <2>1. CASE key # e.intent
    <3>1. key \in DOMAIN stats /\ new[key] = stats[key]
      BY <1>2, <2>1
    <3> QED BY <1>1, <2>1, <3>1, LogGrows DEF Exact
  <2>2. CASE key = e.intent
    BY <1>2, <1>5, <1>6, <2>2, LogGrows DEF Exact
  <2> QED BY <2>1, <2>2
<1>8. Tried(stats, e.intent) + 1 = Cardinality(AttemptsAt(e.intent))'
  BY <1>5, LogGrows
<1> QED BY <1>3, <1>7, <1>8 DEF new

LEMMA AppendGrows ==
  ASSUME NEW e, Appends(e)
  PROVE  attempt_log' = Append(attempt_log, e)
BY DEF Appends, AppendAttempt, LineFails

\* A line that is written whole costs what was left without its end, and itself; one that
\* is not is an upset.
LEMMA LostStayCounted ==
  ASSUME LearningInv, NEW e \in AttemptLine, Appends(e)
  PROVE  LostCounted'
<1> DEFINE n == Len(attempt_log) + 1
<1>1. /\ LostCounted /\ upsets \in Nat /\ attempt_log \in Seq(AttemptLine) /\ attempt_log' = Append(attempt_log, e)
  BY AppendGrows DEF LearningInv, LearningTypes
<1>2. /\ Len(attempt_log) \in Nat /\ DOMAIN attempt_log = 1 .. Len(attempt_log) /\ DOMAIN attempt_log' = 1 .. n
      /\ n \notin DOMAIN attempt_log /\ n \in DOMAIN attempt_log' /\ DOMAIN attempt_log \subseteq DOMAIN attempt_log'
  BY <1>1
<1>3. IsFiniteSet(1 .. Len(attempt_log))
  <2>1. 1 \in Int /\ Len(attempt_log) \in Int
    BY <1>2
  <2> QED BY ONLY <2>1, FS_Interval
<1> HIDE DEF n
<1>4. lost \subseteq DOMAIN attempt_log /\ last_line \subseteq DOMAIN attempt_log /\ Exposed \subseteq 1 .. Len(attempt_log)
  BY <1>1, <1>2 DEF LostCounted, Exposed
<1>5. IsFiniteSet(Exposed) /\ n \notin Exposed
  BY <1>2, <1>3, <1>4, FS_Subset
<1>6. Cardinality(Exposed) \in Nat /\ Cardinality(Exposed \cup {n}) = Cardinality(Exposed) + 1
  BY <1>5, FS_CardinalityType, FS_AddElement
<1>7. lost' \subseteq lost \cup last_line \cup {n} /\ last_line' \subseteq last_line \cup {n}
  BY DEF Appends, AppendAttempt, LineFails, n
<1>8. lost' \subseteq DOMAIN attempt_log' /\ last_line' \subseteq DOMAIN attempt_log'
  BY <1>2, <1>4, <1>7
<1>9. CASE AppendAttempt(e)
  <2>1. last_line' = {} /\ upsets' = upsets
        /\ lost' = IF last_line = {} THEN lost ELSE lost \cup last_line \cup {n}
    BY <1>9 DEF AppendAttempt, n
  <2>2. Exposed' = IF last_line = {} THEN Exposed ELSE Exposed \cup {n}
    BY <2>1 DEF Exposed
  <2>3. Pending' = 0 /\ Pending = IF last_line = {} THEN 0 ELSE 1
    BY <2>1 DEF Pending
  <2>4. Cardinality(Exposed') = Cardinality(Exposed) + Pending
    BY <1>6, <2>2, <2>3
  <2>5. Cardinality(Exposed') + Pending' <= 2 * upsets'
    BY <1>1, <1>6, <2>1, <2>3, <2>4 DEF LostCounted
  <2> QED BY <1>8, <2>5 DEF LostCounted
<1>10. CASE LineFails(e)
  <2>1. upsets' = upsets + 1 /\ Exposed' = Exposed \cup {n}
    BY <1>10 DEF LineFails, Exposed, n
  <2>2. Pending' \in {0, 1} /\ Pending \in {0, 1}
    BY DEF Pending
  <2>3. Cardinality(Exposed') + Pending' <= 2 * upsets'
    BY <1>1, <1>6, <2>1, <2>2 DEF LostCounted
  <2> QED BY <1>8, <2>3 DEF LostCounted
<1> QED BY <1>9, <1>10 DEF Appends

LEMMA RecordKeepsTypes ==
  ASSUME LearningInv, NEW g \in Gateways, Open(g), NEW e \in AttemptLine, Records(g, e)
  PROVE  LearningTypes' /\ OneAtATime'
<1>1. LearningTypes /\ OneAtATime
  BY DEF LearningInv
<1>2. /\ attempt_log' = Append(attempt_log, e)
      /\ upsets' = upsets + 1 \/ upsets' = upsets
      /\ intent_stats' = intent_stats /\ shared' = shared
  BY AppendGrows DEF Records, Appends, AppendAttempt, LineFails
<1>3. /\ DOMAIN gateways' = Gateways
      /\ \A h \in Gateways \ {g} : gateways'[h] = gateways[h]
  BY DEF Records
<1>4. attempt_log' \in Seq(AttemptLine)
  BY <1>1, <1>2, AppendProperties DEF LearningTypes
<1>5. upsets' \in Nat /\ shared' \in BOOLEAN
  BY <1>1, <1>2 DEF LearningTypes
<1>6. gateways'[g].pc # "closed" => GatewayType(gateways'[g])
  <2> SUFFICES ASSUME gateways'[g].pc # "closed" PROVE GatewayType(gateways'[g])
    OBVIOUS
  <2>1. IsStats(gateways[g].intents)
    BY <1>1 DEF LearningTypes, GatewayType, Open
  <2>2. gateways'[g].intents = UpdateIntentStats(gateways[g].intents, e)
    BY DEF Records
  <2>3. IsStats(gateways'[g].intents)
    <3>1. IsStats(UpdateIntentStats(gateways[g].intents, e))
      BY <2>1, StatsUpdated
    <3> QED BY <2>2, <3>1
  <2> QED BY <2>3 DEF Records, GatewayType
<1>7. /\ (intent_stats = Torn \/ IsStats(intent_stats))'
      /\ (upsets = 0 => IsStats(intent_stats))'
  <2>1. upsets' = 0 => upsets = 0
    BY <1>1, <1>2 DEF LearningTypes
  <2> QED BY <1>1, <1>2, <2>1 DEF LearningTypes, IsStats
<1>8. \A h \in Gateways : gateways'[h].pc # "closed" => GatewayType(gateways'[h])
  BY <1>1, <1>3, <1>6 DEF LearningTypes
<1>9. LearningTypes'
  BY <1>3, <1>4, <1>5, <1>7, <1>8 DEF LearningTypes
<1>10. OneAtATime'
  BY <1>1, <1>2, <1>3 DEF OneAtATime, Open
<1> QED BY <1>9, <1>10

LEMMA RecordKeepsWithin ==
  ASSUME LearningInv, NEW g \in Gateways, Open(g), NEW e \in AttemptLine, Numbered(e, gateways[g].intents),
         Records(g, e)
  PROVE  NothingInvented'
<1> DEFINE n == Len(attempt_log) + 1
<1>1. attempt_log' = Append(attempt_log, e)
  BY AppendGrows DEF Records
<1>2. /\ attempt_log \in Seq(AttemptLine) /\ IsStats(Loaded(intent_stats))
      /\ \A h \in Gateways : Open(h) => IsStats(gateways[h].intents)
  BY DEF LearningInv, LearningTypes, GatewayType, Open, Loaded, IsStats
<1>3. /\ WithinLog(Loaded(intent_stats))
      /\ \A h \in Gateways : Open(h) => WithinLog(gateways[h].intents)
      /\ \A i \in DOMAIN attempt_log :
            attempt_log[i].attempt <= Cardinality(AttemptsUpTo(attempt_log, attempt_log[i].intent, i))
  BY <1>1 DEF LearningInv, NothingInvented
<1>4. WithinLog(Loaded(intent_stats))'
  <2>1. \A key \in DOMAIN Loaded(intent_stats) :
          Bounded(Loaded(intent_stats), key, Cardinality(AttemptsAt(key))', Cardinality(SuccessesAt(key))')
    BY <1>1, <1>2, <1>3, WithinLonger
  <2>2. Loaded(intent_stats)' = Loaded(intent_stats)
    BY DEF Records, Loaded
  <2> QED BY <2>1, <2>2 DEF WithinLog, Bounded
<1>5. ASSUME NEW h \in Gateways, Open(h)' PROVE WithinLog(gateways[h].intents)'
  <2>1. Open(h)
    BY <1>5 DEF Records, Open
  <2>2. gateways'[h].intents = IF h = g THEN UpdateIntentStats(gateways[h].intents, e) ELSE gateways[h].intents
    BY <1>5 DEF Records, Open
  <2>3. \A key \in DOMAIN gateways'[h].intents :
          Bounded(gateways'[h].intents, key, Cardinality(AttemptsAt(key))', Cardinality(SuccessesAt(key))')
    BY <1>1, <1>2, <1>3, <2>1, <2>2, WithinLonger
  <2> QED BY <2>3 DEF WithinLog, Bounded
<1>6. ASSUME NEW i \in DOMAIN attempt_log'
      PROVE  attempt_log'[i].attempt <= Cardinality(AttemptsUpTo(attempt_log', attempt_log'[i].intent, i))
  <2>1. CASE i \in DOMAIN attempt_log
    <3>1. attempt_log'[i] = attempt_log[i]
      BY <1>1, <1>2, <2>1
    <3>2. AttemptsUpTo(attempt_log', attempt_log[i].intent, i) = AttemptsUpTo(attempt_log, attempt_log[i].intent, i)
      BY <1>1, <1>2, <2>1, <3>1, LogGrows
    <3> QED BY <1>3, <2>1, <3>1, <3>2
  <2>2. CASE i \notin DOMAIN attempt_log
    <3>1. i = n /\ attempt_log'[i] = e
      BY <1>1, <1>2, <2>2
    <3>2. AttemptsUpTo(attempt_log', e.intent, n) = AttemptsAt(e.intent)' /\ Cardinality(AttemptsAt(e.intent))' \in Nat
      BY <1>1, <1>2, LogGrows
    <3>3. Tried(gateways[g].intents, e.intent) + 1 <= Cardinality(AttemptsAt(e.intent))'
      BY <1>1, <1>2, <1>3, WithinLonger
    <3>4. e.attempt <= Cardinality(AttemptsAt(e.intent))'
      BY <3>2, <3>3 DEF Numbered
    <3> QED BY <3>1, <3>2, <3>4
  <2> QED BY <2>1, <2>2
<1> QED BY <1>4, <1>5, <1>6 DEF NothingInvented

LEMMA RecordKeepsCounts ==
  ASSUME LearningInv, NEW g \in Gateways, Open(g), NEW e \in AttemptLine, Numbered(e, gateways[g].intents),
         Records(g, e)
  PROVE  AllCounted'
<1> SUFFICES ASSUME Undisturbed' PROVE AllCounted'
  BY DEF AllCounted
<1> DEFINE n == Len(attempt_log) + 1
<1>1. attempt_log' = Append(attempt_log, e) /\ Undisturbed /\ ~LineFails(e)
  <2>1. upsets \in Nat /\ shared' = shared
    BY DEF LearningInv, LearningTypes, Records
  <2>2. upsets' # upsets + 1
    BY <2>1 DEF Undisturbed
  <2>3. AppendAttempt(e) /\ ~LineFails(e)
    BY <2>2 DEF Records, Appends, LineFails
  <2>4. attempt_log' = Append(attempt_log, e) /\ upsets' = upsets
    BY <2>3 DEF AppendAttempt
  <2> QED BY <2>1, <2>3, <2>4 DEF Undisturbed
<1>2. attempt_log \in Seq(AttemptLine) /\ IsStats(gateways[g].intents)
  BY DEF LearningInv, LearningTypes, GatewayType, Open
<1>3. /\ CountsLog(gateways[g].intents)
      /\ \A i \in DOMAIN attempt_log : attempt_log[i].attempt # 0 =>
            attempt_log[i].attempt = Cardinality(AttemptsUpTo(attempt_log, attempt_log[i].intent, i))
  BY <1>1 DEF LearningInv, AllCounted
<1>4. /\ gateways'[g].intents = UpdateIntentStats(gateways[g].intents, e)
      /\ gateways'[g].pc = "intents"
      /\ \A h \in Gateways : Open(h)' => h = g
  BY <1>1 DEF LearningInv, OneAtATime, Undisturbed, Records, Open
<1>5. CountsLog(gateways[g].intents)'
  <2>1. /\ DOMAIN UpdateIntentStats(gateways[g].intents, e) = {attempt_log'[i].intent : i \in DOMAIN attempt_log'}
        /\ \A key \in DOMAIN UpdateIntentStats(gateways[g].intents, e) :
              Exact(UpdateIntentStats(gateways[g].intents, e), key,
                    Cardinality(AttemptsAt(key))', Cardinality(SuccessesAt(key))')
    BY <1>1, <1>2, <1>3, CountedLonger
  <2> QED BY <1>4, <2>1 DEF CountsLog, Exact
<1>6. ASSUME NEW i \in DOMAIN attempt_log', attempt_log'[i].attempt # 0
      PROVE  attempt_log'[i].attempt = Cardinality(AttemptsUpTo(attempt_log', attempt_log'[i].intent, i))
  <2>1. CASE i \in DOMAIN attempt_log
    <3>1. attempt_log'[i] = attempt_log[i]
      BY <1>1, <1>2, <2>1
    <3>2. AttemptsUpTo(attempt_log', attempt_log[i].intent, i) = AttemptsUpTo(attempt_log, attempt_log[i].intent, i)
      BY <1>1, <1>2, <2>1, <3>1, LogGrows
    <3> QED BY <1>3, <1>6, <2>1, <3>1, <3>2
  <2>2. CASE i \notin DOMAIN attempt_log
    <3>1. i = n /\ attempt_log'[i] = e
      BY <1>1, <1>2, <2>2
    <3>2. AttemptsUpTo(attempt_log', e.intent, n) = AttemptsAt(e.intent)'
      BY <1>1, <1>2, LogGrows
    <3>3. Tried(gateways[g].intents, e.intent) + 1 = Cardinality(AttemptsAt(e.intent))'
      BY <1>1, <1>2, <1>3, CountedLonger
    <3> QED BY <1>6, <3>1, <3>2, <3>3 DEF Numbered
  <2> QED BY <2>1, <2>2
<1> QED BY <1>4, <1>5, <1>6 DEF AllCounted

LEMMA RecordKeepsInv ==
  ASSUME LearningInv, NEW g \in Gateways, Open(g),
         \E e \in AttemptLine : Numbered(e, gateways[g].intents) /\ Records(g, e)
  PROVE  LearningInv'
<1>1. PICK e \in AttemptLine : Numbered(e, gateways[g].intents) /\ Records(g, e)
  OBVIOUS
<1>2. LostCounted'
  BY <1>1, LostStayCounted DEF Records
<1> QED BY <1>1, <1>2, RecordKeepsTypes, RecordKeepsWithin, RecordKeepsCounts DEF LearningInv

-----------------------------------------------------------------------------
(* Steps without a line                                                      *)

\* A gateway reads the statistics when it opens, keeps them or writes them out; a
\* write may tear the file, which is an upset.
Quiet(g) ==
    /\ UNCHANGED log_vars /\ upsets' \in {upsets, upsets + 1} /\ shared' \in BOOLEAN
    /\ DOMAIN gateways' = Gateways
    /\ \A h \in Gateways \ {g} : gateways'[h] = gateways[h]
    /\ gateways'[g].pc = "closed" \/ GatewayType(gateways'[g])
    /\ \/ intent_stats' = intent_stats
       \/ intent_stats' = Torn /\ upsets' = upsets + 1
       \/ Open(g) /\ intent_stats' = gateways[g].intents

\* It opens.
Reads(g) ==
    /\ ~Open(g) /\ gateways'[g].intents = Loaded(intent_stats)
    /\ intent_stats' = intent_stats /\ gateways'[g].pc # "intents"
    /\ ~shared' => ~shared /\ \A h \in Gateways : ~Open(h)

\* It works on, or closes.
Goes(g) ==
    /\ Open(g) /\ shared' = shared
    /\ Open(g)' => gateways'[g].intents = gateways[g].intents
    /\ \/ upsets' = upsets + 1
       \/ intent_stats' = intent_stats /\ gateways[g].pc # "intents" /\ gateways'[g].pc # "intents"
       \/ intent_stats' = gateways[g].intents /\ Open(g)'

LEMMA QuietKeepsInv ==
  ASSUME LearningInv, NEW g \in Gateways, Quiet(g), Reads(g) \/ Goes(g)
  PROVE  LearningInv'
<1>1. LearningTypes /\ OneAtATime /\ LostCounted /\ NothingInvented /\ AllCounted
  BY DEF LearningInv
<1>2. /\ attempt_log' = attempt_log /\ lost' = lost /\ last_line' = last_line
      /\ upsets \in Nat /\ upsets' \in Nat /\ (upsets' = 0 => upsets = 0)
      /\ DOMAIN gateways' = Gateways
      /\ \A h \in Gateways : h # g => gateways'[h] = gateways[h]
      /\ \A h \in Gateways : h # g => (Open(h)' <=> Open(h))
  BY <1>1 DEF Quiet, LearningTypes, Open, log_vars
<1>0. /\ \A key : Cardinality(AttemptsAt(key))' = Cardinality(AttemptsAt(key))
      /\ \A key : Cardinality(SuccessesAt(key))' = Cardinality(SuccessesAt(key))
      /\ {attempt_log'[i].intent : i \in DOMAIN attempt_log'} = {attempt_log[i].intent : i \in DOMAIN attempt_log}
  BY <1>2 DEF AttemptsAt, SuccessesAt
<1>3. /\ \A h \in Gateways : Open(h) => IsStats(gateways[h].intents)
      /\ IsStats(Loaded(intent_stats))
      /\ upsets = 0 => Loaded(intent_stats) = intent_stats
  BY <1>1, StatsAreWhole DEF LearningTypes, Open, GatewayType, Loaded, IsStats
<1>4. LearningTypes'
  <2>1. attempt_log' \in Seq(AttemptLine) /\ shared' \in BOOLEAN
    BY <1>1, <1>2 DEF LearningTypes, Quiet
  <2>2. (intent_stats = Torn \/ IsStats(intent_stats))'
    BY <1>1, <1>3 DEF LearningTypes, Quiet, IsStats
  <2>3. (upsets = 0 => IsStats(intent_stats))'
    <3> SUFFICES ASSUME upsets' = 0 PROVE IsStats(intent_stats)'
      OBVIOUS
    <3>1. upsets = 0 /\ upsets' # upsets + 1
      BY <1>2
    <3>2. intent_stats' = intent_stats \/ (Open(g) /\ intent_stats' = gateways[g].intents)
      BY <3>1 DEF Quiet
    <3> QED BY <1>1, <1>3, <3>1, <3>2 DEF LearningTypes, IsStats
  <2>4. \A h \in Gateways : gateways'[h].pc # "closed" => GatewayType(gateways'[h])
    BY <1>1, <1>2 DEF LearningTypes, Quiet
  <2> QED BY <1>2, <2>1, <2>2, <2>3, <2>4 DEF LearningTypes, Quiet
<1>5. OneAtATime'
  <2>1. CASE Reads(g)
    BY <1>2, <2>1 DEF Reads, OneAtATime, Open
  <2>2. CASE Goes(g)
    BY <1>1, <1>2, <2>2 DEF Goes, OneAtATime
  <2> QED BY <2>1, <2>2
<1>6. LostCounted'
  <2>1. upsets' >= upsets
    BY <1>2 DEF Quiet
  <2>2. Exposed' = Exposed /\ Pending' = Pending
    BY <1>2 DEF Exposed, Pending
  <2>3. Cardinality(Exposed) \in Nat
    <3>1. IsFiniteSet(DOMAIN attempt_log)
      <4>1. DOMAIN attempt_log = 1 .. Len(attempt_log) /\ 1 \in Int /\ Len(attempt_log) \in Int
        BY <1>1 DEF LearningTypes
      <4> QED BY ONLY <4>1, FS_Interval
    <3>2. Exposed \subseteq DOMAIN attempt_log
      BY <1>1 DEF LostCounted, Exposed
    <3> QED BY <3>1, <3>2, FS_Subset, FS_CardinalityType
  <2>4. Pending \in Nat
    BY DEF Pending
  <2>5. Cardinality(Exposed') + Pending' <= 2 * upsets'
    BY <1>1, <1>2, <2>1, <2>2, <2>3, <2>4 DEF LostCounted
  <2> QED BY <1>1, <1>2, <2>5 DEF LostCounted
<1>7. NothingInvented'
  <2>1. /\ WithinLog(Loaded(intent_stats))
        /\ \A h \in Gateways : Open(h) => WithinLog(gateways[h].intents)
        /\ \A i \in DOMAIN attempt_log :
              attempt_log[i].attempt <= Cardinality(AttemptsUpTo(attempt_log, attempt_log[i].intent, i))
    BY <1>1, <1>2 DEF NothingInvented
  <2>2. Loaded(intent_stats)' = Loaded(intent_stats) \/ Loaded(intent_stats)' = <<>>
        \/ (Open(g) /\ Loaded(intent_stats)' = gateways[g].intents)
    BY DEF Quiet, Loaded
  <2>2a. DOMAIN <<>> = {}
    OBVIOUS
  <2>3. WithinLog(Loaded(intent_stats))'
    BY <1>0, <2>1, <2>2, <2>2a DEF WithinLog
  <2>4. ASSUME NEW h \in Gateways, Open(h)' PROVE WithinLog(gateways[h].intents)'
    <3>1. \/ gateways'[h].intents = Loaded(intent_stats)
          \/ Open(h) /\ gateways'[h].intents = gateways[h].intents
      BY <1>2, <2>4 DEF Reads, Goes
    <3> QED BY <1>0, <2>1, <3>1 DEF WithinLog
  <2> QED BY <1>2, <2>1, <2>3, <2>4 DEF NothingInvented
<1>8. AllCounted'
  <2> SUFFICES ASSUME Undisturbed' PROVE AllCounted'
    BY DEF AllCounted
  <2>1. upsets = 0 /\ upsets' # upsets + 1 /\ ~shared /\ Undisturbed
    BY <1>2 DEF Undisturbed, Reads, Goes
  <2>2. /\ \A h \in Gateways : Open(h) => CountsLog(gateways[h].intents)
        /\ (\A h \in Gateways : gateways[h].pc # "intents") => CountsLog(intent_stats)
        /\ \A i \in DOMAIN attempt_log : attempt_log[i].attempt # 0 =>
              attempt_log[i].attempt = Cardinality(AttemptsUpTo(attempt_log, attempt_log[i].intent, i))
    BY <1>1, <2>1 DEF AllCounted
  <2>3. CASE Reads(g)
    <3>1. ~shared'
      BY DEF Undisturbed
    <3>2. \A h \in Gateways : ~Open(h)
      BY <2>3, <3>1 DEF Reads
    <3>3. CountsLog(intent_stats)
      BY <2>2, <3>2 DEF Open
    <3>4. gateways'[g].intents = intent_stats /\ intent_stats' = intent_stats
      BY <1>3, <2>1, <2>3 DEF Reads
    <3>5. \A h \in Gateways : Open(h)' => h = g
      BY <1>2, <3>2
    <3>6. CountsLog(intent_stats)' /\ CountsLog(gateways[g].intents)'
      BY <1>0, <3>3, <3>4, Zenon DEF CountsLog
    <3> QED BY <1>2, <2>2, <3>5, <3>6 DEF AllCounted
  <2>4. CASE Goes(g)
    <3>1. \A h \in Gateways : Open(h) <=> h = g
      BY <1>1, <2>1, <2>4 DEF Goes, OneAtATime
    <3>2. \A h \in Gateways : Open(h)' => h = g
      BY <1>2, <3>1
    <3>3. CountsLog(gateways[g].intents)
      BY <2>2, <3>1
    <3>4. Open(g)' => CountsLog(gateways[g].intents)'
      BY <1>0, <2>4, <3>3, Zenon DEF Goes, CountsLog
    <3>5. (\A h \in Gateways : gateways'[h].pc # "intents") => CountsLog(intent_stats)'
      <4>1. CASE intent_stats' = gateways[g].intents
        BY <1>0, <3>3, <4>1, Zenon DEF CountsLog
      <4>2. CASE intent_stats' = intent_stats /\ gateways[g].pc # "intents"
        <5>1. \A h \in Gateways : gateways[h].pc # "intents"
          BY <3>1, <4>2 DEF Open
        <5> QED BY <1>0, <2>2, <4>2, <5>1, Zenon DEF CountsLog
      <4> QED BY <2>1, <2>4, <4>1, <4>2 DEF Goes
    <3> QED BY <1>2, <2>2, <3>2, <3>4, <3>5 DEF AllCounted
  <2> QED BY <2>3, <2>4
<1> QED BY <1>4, <1>5, <1>6, <1>7, <1>8 DEF LearningInv

LEMMA OpenIsQuiet ==
  ASSUME LearningInv, NEW g \in Gateways, OpenGateway(g)
  PROVE  Quiet(g) /\ Reads(g)
<1> DEFINE r == [pc |-> "idle", intents |-> Loaded(intent_stats), suggests |-> Loaded(suggest_stats),
                 pending |-> <<>>, retry |-> {}, outcome |-> "none"]
<1>1. LearningTypes /\ OneAtATime
  BY DEF LearningInv
<1>2. gateways' = [gateways EXCEPT ![g] = r] /\ gateways[g].pc = "closed"
  BY DEF OpenGateway
<1>3. DOMAIN gateways' = Gateways /\ gateways'[g] = r /\ \A h \in Gateways \ {g} : gateways'[h] = gateways[h]
  <2> HIDE DEF r
  <2> QED BY <1>1, <1>2 DEF LearningTypes
<1>4. IsStats(Loaded(intent_stats))
  BY <1>1 DEF LearningTypes, Loaded, IsStats
<1>5. GatewayType(r)
  BY <1>4 DEF GatewayType, GatewayFields
<1>6. shared' = (shared \/ \E h \in Gateways : gateways[h].pc # "closed")
      /\ UNCHANGED <<log_vars, intent_stats, upsets>>
  BY DEF OpenGateway
<1>7. Quiet(g)
  <2>1. shared' \in BOOLEAN
    BY <1>6
  <2> QED BY <1>3, <1>5, <1>6, <2>1 DEF Quiet
<1>8. Reads(g)
  BY <1>2, <1>3, <1>6 DEF Reads, Open
<1> QED BY <1>7, <1>8

\* The other steps change the place of the gateway, or close it.
LEMMA StaysOpen ==
  ASSUME LearningTypes, NEW g \in Gateways, Open(g), NEW place \in {"suggests", "retry", "learn"},
         \/ gateways' = [gateways EXCEPT ![g].pc = place]
         \/ gateways' = [gateways EXCEPT ![g].pc = "idle", ![g].outcome = "none"]
  PROVE  /\ DOMAIN gateways' = Gateways /\ \A h \in Gateways \ {g} : gateways'[h] = gateways[h]
         /\ GatewayType(gateways'[g]) /\ gateways'[g].intents = gateways[g].intents
         /\ gateways'[g].pc \in {"idle", "suggests", "retry", "learn"} /\ Open(g)'
<1> DEFINE r == gateways[g]
<1>1. GatewayType(r) /\ DOMAIN gateways = Gateways
  BY DEF LearningTypes, Open
<1>2. CASE gateways' = [gateways EXCEPT ![g].pc = place]
  <2>1. /\ gateways'[g] = [r EXCEPT !.pc = place] /\ DOMAIN gateways' = Gateways
        /\ \A h \in Gateways \ {g} : gateways'[h] = gateways[h]
    BY <1>1, <1>2
  <2>2. /\ DOMAIN gateways'[g] = GatewayFields /\ gateways'[g].pc = place
        /\ gateways'[g].intents = r.intents /\ gateways'[g].retry = r.retry
    BY <1>1, <2>1 DEF GatewayType, GatewayFields
  <2>3. GatewayType(gateways'[g])
    BY <1>1, <2>2 DEF GatewayType
  <2> QED BY <2>1, <2>2, <2>3 DEF Open
<1>3. CASE gateways' = [gateways EXCEPT ![g].pc = "idle", ![g].outcome = "none"]
  <2>1. /\ gateways'[g] = [r EXCEPT !.pc = "idle", !.outcome = "none"] /\ DOMAIN gateways' = Gateways
        /\ \A h \in Gateways \ {g} : gateways'[h] = gateways[h]
    BY <1>1, <1>3
  <2>2. /\ DOMAIN gateways'[g] = GatewayFields /\ gateways'[g].pc = "idle"
        /\ gateways'[g].intents = r.intents /\ gateways'[g].retry = r.retry
    BY <1>1, <2>1 DEF GatewayType, GatewayFields
  <2>3. GatewayType(gateways'[g])
    BY <1>1, <2>2 DEF GatewayType
  <2> QED BY <2>1, <2>2, <2>3 DEF Open
<1> QED BY <1>2, <1>3

LEMMA ClosedShape ==
  ASSUME LearningTypes, NEW g \in Gateways, gateways' = [gateways EXCEPT ![g] = Closed]
  PROVE  /\ DOMAIN gateways' = Gateways /\ \A h \in Gateways \ {g} : gateways'[h] = gateways[h]
         /\ gateways'[g].pc = "closed"
BY DEF LearningTypes, Closed

LEMMA WorkIsQuiet ==
  ASSUME LearningInv, NEW g \in Gateways,
         FlushIntents(g) \/ FlushSuggests(g) \/ FlushFails(g) \/ Learn(g) \/ CloseGateway(g) \/ KillGateway(g)
  PROVE  Quiet(g) /\ Goes(g)
<1>1. LearningTypes /\ Open(g) /\ GatewayType(gateways[g]) /\ upsets \in Nat /\ shared \in BOOLEAN
  BY DEF LearningInv, LearningTypes, Open, FlushIntents, FlushSuggests, FlushFails, Learn, CloseGateway, KillGateway
<1>2. UNCHANGED log_vars /\ shared' = shared
  BY DEF FlushIntents, FlushSuggests, FlushFails, Learn, CloseGateway, KillGateway
<1>3. CASE FlushIntents(g)
  <2>1. /\ gateways' = [gateways EXCEPT ![g].pc = "suggests"]
        /\ intent_stats' = gateways[g].intents /\ upsets' = upsets
    BY <1>3 DEF FlushIntents
  <2>2. /\ DOMAIN gateways' = Gateways /\ \A h \in Gateways \ {g} : gateways'[h] = gateways[h]
        /\ GatewayType(gateways'[g]) /\ gateways'[g].intents = gateways[g].intents /\ Open(g)'
    BY <1>1, <2>1, StaysOpen
  <2> QED BY <1>1, <1>2, <2>1, <2>2 DEF Quiet, Goes
<1>4. CASE FlushSuggests(g)
  <2> DEFINE place == IF gateways[g].retry = {} THEN "learn" ELSE "retry"
  <2>1. /\ gateways' = [gateways EXCEPT ![g].pc = place] /\ gateways[g].pc = "suggests"
        /\ intent_stats' = intent_stats /\ upsets' = upsets
    BY <1>4 DEF FlushSuggests
  <2>2. place \in {"suggests", "retry", "learn"}
    OBVIOUS
  <2> HIDE DEF place
  <2>3. /\ DOMAIN gateways' = Gateways /\ \A h \in Gateways \ {g} : gateways'[h] = gateways[h]
        /\ GatewayType(gateways'[g]) /\ gateways'[g].intents = gateways[g].intents /\ Open(g)'
        /\ gateways'[g].pc # "intents"
    BY <1>1, <2>1, <2>2, StaysOpen
  <2> QED BY <1>1, <1>2, <2>1, <2>3 DEF Quiet, Goes
<1>5. CASE FlushFails(g)
  <2> DEFINE place == IF gateways[g].pc = "intents" THEN "suggests"
                      ELSE IF gateways[g].retry = {} THEN "learn" ELSE "retry"
  <2>1. /\ gateways' = [gateways EXCEPT ![g].pc = place] /\ upsets' = upsets + 1
        /\ intent_stats' \in {intent_stats, Torn}
    BY <1>5 DEF FlushFails
  <2>2. place \in {"suggests", "retry", "learn"}
    OBVIOUS
  <2> HIDE DEF place
  <2>3. /\ DOMAIN gateways' = Gateways /\ \A h \in Gateways \ {g} : gateways'[h] = gateways[h]
        /\ GatewayType(gateways'[g]) /\ gateways'[g].intents = gateways[g].intents /\ Open(g)'
    BY <1>1, <2>1, <2>2, StaysOpen
  <2> QED BY <1>1, <1>2, <2>1, <2>3 DEF Quiet, Goes
<1>6. CASE Learn(g)
  <2>1. /\ gateways' = [gateways EXCEPT ![g].pc = "idle", ![g].outcome = "none"] /\ gateways[g].pc = "learn"
        /\ intent_stats' = intent_stats /\ upsets' = upsets
    BY <1>6 DEF Learn
  <2>3. /\ DOMAIN gateways' = Gateways /\ \A h \in Gateways \ {g} : gateways'[h] = gateways[h]
        /\ GatewayType(gateways'[g]) /\ gateways'[g].intents = gateways[g].intents /\ Open(g)'
        /\ gateways'[g].pc # "intents"
    BY <1>1, <2>1, StaysOpen
  <2> QED BY <1>1, <1>2, <2>1, <2>3 DEF Quiet, Goes
<1>7. CASE CloseGateway(g)
  <2>1. /\ gateways' = [gateways EXCEPT ![g] = Closed] /\ gateways[g].pc = "idle"
        /\ intent_stats' = intent_stats /\ upsets' = upsets
    BY <1>7 DEF CloseGateway
  <2>2. /\ DOMAIN gateways' = Gateways /\ \A h \in Gateways \ {g} : gateways'[h] = gateways[h]
        /\ gateways'[g].pc = "closed"
    BY <1>1, <2>1, ClosedShape
  <2> QED BY <1>1, <1>2, <2>1, <2>2 DEF Quiet, Goes, Open
<1>8. CASE KillGateway(g)
  <2>1. /\ gateways' = [gateways EXCEPT ![g] = Closed] /\ upsets' = upsets + 1
        /\ intent_stats' \in {intent_stats, Torn}
    BY <1>8 DEF KillGateway
  <2>2. /\ DOMAIN gateways' = Gateways /\ \A h \in Gateways \ {g} : gateways'[h] = gateways[h]
        /\ gateways'[g].pc = "closed"
    BY <1>1, <2>1, ClosedShape
  <2> QED BY <1>1, <1>2, <2>1, <2>2 DEF Quiet, Goes, Open
<1> QED BY <1>3, <1>4, <1>5, <1>6, <1>7, <1>8

LEMMA RequestRecords ==
  ASSUME LearningInv, NEW g \in Gateways, NEW ask \in Asks, Process(g, ask) \/ ProcessWithAutoShrink(g, ask)
  PROVE  \E e \in AttemptLine : Numbered(e, gateways[g].intents) /\ Records(g, e)
<1>1. LearningTypes /\ gateways[g].pc # "closed" /\ UNCHANGED <<intent_stats, shared>>
  BY DEF LearningInv, Process, ProcessWithAutoShrink
<1>2. ResolveIntentKey(ask) \in IntentKeys
  BY DEF IntentKeys
<1>3. CASE Process(g, ask)
  <2>1. Attempt(g, ask, {})
    BY <1>3 DEF Process
  <2> QED BY <1>1, <1>2, <2>1, AttemptRecords
<1>4. CASE ProcessWithAutoShrink(g, ask)
  <2> DEFINE smaller == [ask EXCEPT !.radius = AutoShrinkBlastRadius(@)]
             retry == IF ask.risk = "HIGH" /\ AutoShrinkBlastRadius(ask.radius) # ask.radius THEN {smaller} ELSE {}
  <2>1. Attempt(g, ask, retry)
    BY <1>4 DEF ProcessWithAutoShrink
  <2>2. DOMAIN ask = {"action", "target", "phrase", "risk", "touches", "radius", "complete"}
    BY LearningInputs DEF AskType
  <2>3. smaller.action = ask.action /\ smaller.target = ask.target /\ smaller.phrase = ask.phrase
    BY <2>2
  <2>4. \A next \in retry : Shrunk(next)
    BY <2>3 DEF Shrunk
  <2> HIDE DEF retry, smaller
  <2> QED BY <1>1, <1>2, <2>1, <2>4, AttemptRecords
<1> QED BY <1>3, <1>4

LEMMA RetryRecords ==
  ASSUME LearningInv, NEW g \in Gateways, Retry(g)
  PROVE  \E e \in AttemptLine : Numbered(e, gateways[g].intents) /\ Records(g, e)
<1>1. LearningTypes /\ gateways[g].pc # "closed" /\ UNCHANGED <<intent_stats, shared>>
  BY DEF LearningInv, Retry
<1>2. PICK ask \in gateways[g].retry : Attempt(g, ask, {})
  BY DEF Retry
<1>3. ResolveIntentKey(ask) \in IntentKeys
  BY <1>1, ShrunkKey DEF LearningTypes, GatewayType
<1> QED BY <1>1, <1>2, <1>3, AttemptRecords

LEMMA LearningInvHolds == LearningSpec => []LearningInv
<1>1. LearningInit => LearningInv
  <2> SUFFICES ASSUME LearningInit PROVE LearningInv
    OBVIOUS
  <2>1. /\ DOMAIN attempt_log = {} /\ DOMAIN intent_stats = {} /\ Loaded(intent_stats) = <<>>
        /\ DOMAIN gateways = Gateways /\ \A g \in Gateways : ~Open(g)
        /\ upsets = 0 /\ lost = {} /\ last_line = {} /\ shared = FALSE
    BY DEF LearningInit, Loaded, Open, Closed
  <2>2. LearningTypes
    <3>1. attempt_log \in Seq(AttemptLine) /\ IsStats(intent_stats)
      BY DEF LearningInit, IsStats
    <3> QED BY <2>1, <3>1 DEF LearningTypes, Open
  <2>3. OneAtATime /\ LostCounted
    <3>1. Exposed = {} /\ Pending = 0
      BY <2>1 DEF Exposed, Pending
    <3> QED BY <2>1, <3>1, FS_EmptySet DEF OneAtATime, LostCounted
  <2>4. NothingInvented
    BY <2>1 DEF NothingInvented, WithinLog, LearningInit
  <2>5. CountsLog(intent_stats)
    BY <2>1 DEF CountsLog
  <2>6. AllCounted
    BY <2>1, <2>5 DEF AllCounted
  <2> QED BY <2>2, <2>3, <2>4, <2>6 DEF LearningInv
<1>2. LearningInv /\ [LearningNext]_learning_vars => LearningInv'
  <2> SUFFICES ASSUME LearningInv, [LearningNext]_learning_vars PROVE LearningInv'
    OBVIOUS
  <2>1. CASE UNCHANGED learning_vars
    <3>1. LearningTypes'
      BY <2>1 DEF LearningInv, learning_vars, log_vars, LearningTypes, IsStats
    <3>2. OneAtATime' /\ LostCounted'
      BY <2>1 DEF LearningInv, learning_vars, log_vars, OneAtATime, LostCounted, Exposed, Pending, Open
    <3>3. NothingInvented'
      BY <2>1, Zenon DEF LearningInv, learning_vars, log_vars, NothingInvented, WithinLog, Loaded, Open, AttemptsAt, SuccessesAt
    <3>4. AllCounted'
      <4>1. /\ attempt_log' = attempt_log /\ gateways' = gateways /\ intent_stats' = intent_stats
            /\ (Undisturbed' <=> Undisturbed) /\ \A g \in Gateways : Open(g)' <=> Open(g)
        BY <2>1, Zenon DEF learning_vars, log_vars, Undisturbed, Open
      <4>2. /\ \A g \in Gateways : CountsLog(gateways[g].intents)' <=> CountsLog(gateways[g].intents)
            /\ CountsLog(intent_stats)' <=> CountsLog(intent_stats)
        <5>1. /\ \A key : Cardinality(AttemptsAt(key))' = Cardinality(AttemptsAt(key))
              /\ \A key : Cardinality(SuccessesAt(key))' = Cardinality(SuccessesAt(key))
              /\ {attempt_log'[i].intent : i \in DOMAIN attempt_log'} = {attempt_log[i].intent : i \in DOMAIN attempt_log}
          BY <4>1 DEF AttemptsAt, SuccessesAt
        <5> QED BY <4>1, <5>1, Zenon DEF CountsLog
      <4> QED BY <4>1, <4>2, Zenon DEF LearningInv, AllCounted
    <3> QED BY <3>1, <3>2, <3>3, <3>4 DEF LearningInv
  <2>2. CASE \E g \in Gateways : GatewayStep(g)
    <3>1. PICK g \in Gateways : GatewayStep(g)
      BY <2>2
    <3>2. CASE OpenGateway(g)
      BY <3>2, OpenIsQuiet, QuietKeepsInv
    <3>3. CASE FlushIntents(g) \/ FlushSuggests(g) \/ FlushFails(g) \/ Learn(g) \/ CloseGateway(g) \/ KillGateway(g)
      BY <3>3, WorkIsQuiet, QuietKeepsInv
    <3>4. CASE \E ask \in Asks : Process(g, ask) \/ ProcessWithAutoShrink(g, ask)
      <4>1. Open(g)
        BY <3>4 DEF Process, ProcessWithAutoShrink, Open
      <4> QED BY <3>4, <4>1, RequestRecords, RecordKeepsInv
    <3>5. CASE \E stop \in Stops : PreReject(g, stop)
      <4>1. Open(g) /\ LearningTypes
        BY <3>5 DEF PreReject, Open, LearningInv
      <4> QED BY <3>5, <4>1, StopRecords, RecordKeepsInv
    <3>6. CASE Retry(g)
      <4>1. Open(g)
        BY <3>6 DEF Retry, Open
      <4> QED BY <3>6, <4>1, RetryRecords, RecordKeepsInv
    <3>7. CASE \E entry \in Writing(g) : KillAppending(g, entry)
      <4>1. LearningTypes
        BY DEF LearningInv
      <4> QED BY <3>7, <4>1, KillRecords, RecordKeepsInv
    <3> QED BY <3>1, <3>2, <3>3, <3>4, <3>5, <3>6, <3>7 DEF GatewayStep
  <2> QED BY <2>1, <2>2 DEF LearningNext
<1> QED BY <1>1, <1>2, PTL DEF LearningSpec

-----------------------------------------------------------------------------
(* The statistics of the log                                                 *)

\* The statistics are of the log, and the log of the attempts, for any number of gateways,
\* attempts, kills and failed or torn writes.
THEOREM CountsAreOfTheLog == LearningSpec => []StatsOfTheLog
<1>1. LearningInv => StatsOfTheLog
  <2> SUFFICES ASSUME LearningInv PROVE StatsOfTheLog
    OBVIOUS
  <2>1. LearningTypes /\ LostCounted /\ NothingInvented /\ AllCounted
    BY DEF LearningInv
  <2>2. \A i \in DOMAIN attempt_log :
          AttemptsUpTo(attempt_log, attempt_log[i].intent, i) = {j \in AttemptsAt(attempt_log[i].intent) : j <= i}
    BY DEF AttemptsUpTo, AttemptsAt
  <2>3. /\ WithinLog(Loaded(intent_stats))
        /\ \A g \in Gateways : Open(g) => WithinLog(gateways[g].intents)
        /\ \A i \in DOMAIN attempt_log :
              attempt_log[i].attempt <= Cardinality({j \in AttemptsAt(attempt_log[i].intent) : j <= i})
    BY <2>1, <2>2 DEF NothingInvented
  <2>4. Undisturbed =>
          /\ \A g \in Gateways : Open(g) => CountsLog(gateways[g].intents)
          /\ (\A g \in Gateways : gateways[g].pc # "intents") => CountsLog(intent_stats)
          /\ \A i \in DOMAIN attempt_log : attempt_log[i].attempt # 0 =>
                attempt_log[i].attempt = Cardinality({j \in AttemptsAt(attempt_log[i].intent) : j <= i})
    BY <2>1, <2>2 DEF AllCounted
  <2>5. Cardinality(lost) <= 2 * upsets
    <3>1. DOMAIN attempt_log = 1 .. Len(attempt_log) /\ 1 \in Int /\ Len(attempt_log) \in Int
      BY <2>1 DEF LearningTypes
    <3>2. IsFiniteSet(DOMAIN attempt_log)
      BY ONLY <3>1, FS_Interval
    <3>3. Exposed \subseteq DOMAIN attempt_log /\ lost \subseteq Exposed
      BY <2>1 DEF LostCounted, Exposed
    <3>4. IsFiniteSet(Exposed)
      BY <3>2, <3>3, FS_Subset
    <3>5. /\ Cardinality(lost) \in Nat /\ Cardinality(Exposed) \in Nat
          /\ Cardinality(lost) <= Cardinality(Exposed)
      BY <3>3, <3>4, FS_Subset, FS_CardinalityType
    <3>6. upsets \in Nat /\ Cardinality(Exposed) + Pending <= 2 * upsets /\ Pending \in Nat
      BY <2>1 DEF LearningTypes, LostCounted, Pending
    <3> QED BY <3>5, <3>6
  <2> QED BY <2>1, <2>3, <2>4, <2>5 DEF StatsOfTheLog, LostCounted
<1> QED BY <1>1, LearningInvHolds, PTL

-----------------------------------------------------------------------------
(* The choice                                                                *)

\* Rewards are of -1 to 1 for each of the attempts they are for.
IsPolicy(p) == \A k \in DOMAIN p : p[k].count \in Nat \ {0} /\ p[k].reward \in -p[k].count .. p[k].count

LEMMA Averaged ==
  ASSUME NEW reward \in Int, NEW count \in Nat \ {0}, -count <= reward, reward <= count
  PROVE  (500 * reward) \div count \in -500 .. 500
<1> DEFINE q == (500 * reward) \div count
<1>1. q \in Int /\ count * q <= 500 * reward /\ 500 * reward < count * q + count
  OBVIOUS
<1> HIDE DEF q
<1>2. ASSUME q >= 501 PROVE FALSE
  <2>1. count * q >= count * 501
    BY <1>1, <1>2
  <2> QED BY <1>1, <2>1
<1>3. ASSUME q <= -501 PROVE FALSE
  <2>1. count * q <= count * (-501)
    BY <1>1, <1>3
  <2> QED BY <1>1, <2>1
<1>4. -500 <= q /\ q <= 500
  BY <1>1, <1>2, <1>3
<1> QED BY <1>1, <1>4 DEF q

LEMMA BonusIsSmall ==
  ASSUME NEW p, IsPolicy(p), NEW action, NEW state
  PROVE  /\ PolicyBonus(p, action, state) \in -500 .. 500
         /\ (\A k \in DOMAIN p : k[1] # state) => PolicyBonus(p, action, state) = 0
<1> DEFINE key == <<state, action>>
<1>1. CASE key \notin DOMAIN p
  BY <1>1 DEF PolicyBonus
<1>2. CASE key \in DOMAIN p
  <2>1. p[key].count \in Nat \ {0} /\ p[key].reward \in Int
        /\ -p[key].count <= p[key].reward /\ p[key].reward <= p[key].count
    BY <1>2 DEF IsPolicy
  <2>2. (500 * p[key].reward) \div p[key].count \in -500 .. 500
    <3> DEFINE r == p[key].reward
               c == p[key].count
    <3>1. r \in Int /\ c \in Nat \ {0} /\ -c <= r /\ r <= c
      BY <2>1
    <3> HIDE DEF r, c
    <3>2. (500 * r) \div c \in -500 .. 500
      BY <3>1, Averaged
    <3> QED BY <3>2 DEF r, c
  <2>3. ~(\A k \in DOMAIN p : k[1] # state)
    <3>1. key[1] = state
      OBVIOUS
    <3> HIDE DEF key
    <3> QED BY <1>2, <3>1
  <2> DEFINE raw == (500 * p[key].reward) \div p[key].count
  <2>4. PolicyBonus(p, action, state)
          = IF key \notin DOMAIN p THEN 0 ELSE IF raw > 2000 THEN 2000 ELSE IF raw < -2000 THEN -2000 ELSE raw
    BY DEF PolicyBonus, PolicyWeight, PolicyBonusClamp
  <2> HIDE DEF raw, key
  <2>5. raw \in -500 .. 500
    BY <2>2 DEF raw
  <2>6. PolicyBonus(p, action, state) = raw
    BY <1>2, <2>4, <2>5
  <2> QED BY <2>3, <2>5, <2>6
<1> QED BY <1>1, <1>2

\* The first of the best of two or three.
Best(scores, i) ==
    /\ i \in DOMAIN scores
    /\ \A j \in DOMAIN scores : scores[j] <= scores[i]
    /\ \A j \in 1 .. (i - 1) : scores[j] < scores[i]

LEMMA BestIsSelected ==
  ASSUME NEW n \in {2, 3}, NEW scores \in [1 .. n -> Int]
  PROVE  /\ Best(scores, SelectBest(scores))
         /\ \A i : Best(scores, i) => i = SelectBest(scores)
<1>1. \A i, j \in 1 .. n : Best(scores, i) /\ Best(scores, j) => i = j
  <2> SUFFICES ASSUME NEW i \in 1 .. n, NEW j \in 1 .. n, Best(scores, i), Best(scores, j), i < j PROVE FALSE
    <3>1. \A i, j \in 1 .. n : i = j \/ i < j \/ j < i
      OBVIOUS
    <3> QED BY <3>1
  <2>1. i \in 1 .. (j - 1) /\ scores[i] \in Int /\ scores[j] \in Int
    OBVIOUS
  <2>2. scores[i] < scores[j] /\ scores[j] <= scores[i]
    BY <2>1 DEF Best
  <2> QED BY <2>1, <2>2
<1>2. \E i \in 1 .. n : Best(scores, i)
  <2>1. scores[1] \in Int /\ scores[2] \in Int /\ (n = 3 => scores[3] \in Int)
    OBVIOUS
  <2>2. CASE n = 2
    <3>1. 1 .. n = {1, 2} /\ DOMAIN scores = {1, 2}
      BY <2>2
    <3>2. CASE scores[2] <= scores[1]
      <4>1. Best(scores, 1)
        BY <2>1, <3>1, <3>2 DEF Best
      <4> QED BY <4>1
    <3>3. CASE scores[1] < scores[2]
      <4>1. Best(scores, 2)
        BY <2>1, <3>1, <3>3 DEF Best
      <4> QED BY <4>1
    <3> QED BY <2>1, <3>2, <3>3
  <2>3. CASE n = 3
    <3>1. 1 .. n = {1, 2, 3} /\ DOMAIN scores = {1, 2, 3}
      BY <2>3
    <3>2. CASE scores[2] <= scores[1] /\ scores[3] <= scores[1]
      <4>1. Best(scores, 1)
        BY <2>1, <2>3, <3>1, <3>2 DEF Best
      <4> QED BY <4>1
    <3>3. CASE scores[1] < scores[2] /\ scores[3] <= scores[2]
      <4>1. Best(scores, 2)
        BY <2>1, <2>3, <3>1, <3>3 DEF Best
      <4> QED BY <2>3, <4>1
    <3>4. CASE scores[1] < scores[3] /\ scores[2] < scores[3]
      <4>1. Best(scores, 3)
        BY <2>1, <2>3, <3>1, <3>4 DEF Best
      <4> QED BY <2>3, <4>1
    <3> QED BY <2>1, <2>3, <3>2, <3>3, <3>4
  <2> QED BY <2>2, <2>3
<1>3. SelectBest(scores) = CHOOSE i \in 1 .. n : Best(scores, i)
  BY DEF SelectBest, Best
<1>4. \A i : Best(scores, i) => i \in 1 .. n
  BY DEF Best
<1> QED BY <1>1, <1>2, <1>3, <1>4

\* What a candidate scores beyond what its intent's rate adds to all of them alike.
Beyond(candidate, state, p) ==
    (10 - candidate.risk) * BuildScoringWeights(state).risk * 100
      + (candidate.hint * BuildScoringWeights(state).hint) \div 10 + PolicyBonus(p, candidate.action, state)

Alone(rate, fresh, state) == (rate * fresh * BuildScoringWeights(state).success) \div 100

LEMMA WeightsRange ==
  ASSUME NEW state
  PROVE  /\ BuildScoringWeights(state).success \in {3, 4, 5, 6}
         /\ BuildScoringWeights(state).risk \in {2, 3, 4, 5}
         /\ state # "STABLE" => BuildScoringWeights(state).risk \in {3, 4, 5}
         /\ BuildScoringWeights(state).hint = 2
BY DEF BuildScoringWeights

LEMMA ScoreSplits ==
  ASSUME NEW candidate, candidate.risk \in Int, candidate.hint \in Int,
         NEW rate \in Int, NEW fresh \in {0, 10}, NEW state, NEW p, IsPolicy(p)
  PROVE  /\ ScoreCandidate(candidate, rate, fresh, state, p) = Alone(rate, fresh, state) + Beyond(candidate, state, p)
         /\ Alone(rate, fresh, state) \in Int /\ Beyond(candidate, state, p) \in Int
<1> DEFINE a == Alone(rate, fresh, state)
           b == (10 - candidate.risk) * BuildScoringWeights(state).risk * 100
           c == (candidate.hint * BuildScoringWeights(state).hint) \div 10
           d == PolicyBonus(p, candidate.action, state)
<1>1. a \in Int /\ b \in Int /\ c \in Int /\ d \in Int
  BY WeightsRange, BonusIsSmall DEF Alone
<1>2. ScoreCandidate(candidate, rate, fresh, state, p) = a + b + c + d
  BY DEF ScoreCandidate, Alone
<1>3. Beyond(candidate, state, p) = b + c + d
  BY DEF Beyond
<1> HIDE DEF a, b, c, d
<1> QED BY <1>1, <1>2, <1>3 DEF a

LEMMA RateIsNumber ==
  ASSUME NEW stats, NEW key,
         key \in DOMAIN stats => stats[key].attempts \in Nat \ {0} /\ stats[key].successes \in Nat
  PROVE  SuccessRate(stats, key) \in Int
BY DEF SuccessRate

\* What the three candidates score, where n is half the hint's score.
Less(radius) == IF radius = "GLOBAL" THEN 5 ELSE 0
Full(radius) == IF radius = "GLOBAL" THEN 10 ELSE IF radius = "TENANT" THEN 5 ELSE 0

Scored(hint, n) == hint \in 0 .. 10000 /\ n = hint \div 2

ThreeScores(three, hint, n, radius, state, p) ==
    LET w == BuildScoringWeights(state).risk
    IN  /\ Beyond(three[1], state, p) = 1000 * w + (2 * hint) \div 10 + PolicyBonus(p, "reuse_hint", state)
        /\ Beyond(three[2], state, p)
             = 1000 * w - 100 * Less(radius) * w + (2 * n) \div 10 + PolicyBonus(p, "shrink_scope", state)
        /\ Beyond(three[3], state, p) = 1000 * w - 100 * Full(radius) * w + PolicyBonus(p, "new_candidate", state)

LEMMA BeyondRange ==
  ASSUME NEW state, NEW p, IsPolicy(p), NEW n, NEW hint, Scored(hint, n),
         NEW radius \in Radii, NEW stats, NEW key
  PROVE  ThreeScores(Candidates_Unlocked(stats, key, hint, radius), hint, n, radius, state, p)
<1> DEFINE w == BuildScoringWeights(state).risk
           less == Less(radius)
           full == Full(radius)
           one == [action |-> "reuse_hint", risk |-> 0, hint |-> hint]
           two == [action |-> "shrink_scope", risk |-> less, hint |-> n]
           new == [action |-> "new_candidate", risk |-> full, hint |-> 0]
           three == Candidates_Unlocked(stats, key, hint, radius)
<1>1. three[1] = one /\ three[2] = two /\ three[3] = new
  <2>1. hint \div 2 = n
    BY DEF Scored
  <2>2. BlastRisk("SELF") = 0 /\ BlastRisk(AutoShrinkBlastRadius(radius)) = less /\ BlastRisk(radius) = full
    BY DEF BlastRisk, AutoShrinkBlastRadius, Radii, Less, Full
  <2> HIDE DEF less, full
  <2>3. Candidates_Unlocked(stats, key, hint, radius) = <<one, two, new>>
    BY <2>1, <2>2 DEF Candidates_Unlocked
  <2> HIDE DEF one, two, new
  <2> QED BY <2>3
<1>0. less \in Int /\ full \in Int /\ n \in Int /\ hint \in Int
  BY DEF Less, Full, Scored
<1>2. w \in {2, 3, 4, 5} /\ BuildScoringWeights(state).hint = 2
  BY WeightsRange
<1>3. \A action : PolicyBonus(p, action, state) \in Int
  BY BonusIsSmall
<1> HIDE DEF w, three, less, full
<1>4. Beyond(one, state, p) = 1000 * w + (2 * hint) \div 10 + PolicyBonus(p, "reuse_hint", state)
  <2>1. (10 - one.risk) * w * 100 = 1000 * w /\ (one.hint * 2) = 2 * hint
    BY <1>0, <1>2
  <2> QED BY <1>2, <2>1 DEF Beyond, w
<1>5. Beyond(two, state, p) = 1000 * w - 100 * less * w + (2 * n) \div 10 + PolicyBonus(p, "shrink_scope", state)
  <2>1. (10 - two.risk) * w * 100 = 1000 * w - 100 * less * w /\ (two.hint * 2) = 2 * n
    BY <1>0, <1>2
  <2> QED BY <1>2, <2>1 DEF Beyond, w
<1>6. Beyond(new, state, p) = 1000 * w - 100 * full * w + PolicyBonus(p, "new_candidate", state)
  <2>1. (10 - new.risk) * w * 100 = 1000 * w - 100 * full * w /\ (new.hint * 2) \div 10 = 0
    BY <1>0, <1>2
  <2>2. 1000 * w - 100 * full * w \in Int /\ new.action = "new_candidate"
    BY <1>0, <1>2
  <2> DEFINE left == 1000 * w - 100 * full * w
             d == PolicyBonus(p, "new_candidate", state)
  <2>3. Beyond(new, state, p) = left + 0 + d
    <3> HIDE DEF left, new
    <3>1. Beyond(new, state, p) = (10 - new.risk) * w * 100 + (new.hint * 2) \div 10 + d
      BY <1>2, <2>2 DEF Beyond, w
    <3> QED BY <2>1, <3>1 DEF left
  <2>4. left \in Int /\ d \in Int
    BY <1>3, <2>2
  <2> HIDE DEF left, d
  <2>5. Beyond(new, state, p) = left + d
    BY <2>3, <2>4
  <2> QED BY <2>5 DEF left, d
<1> HIDE DEF one, two, new
<1> QED BY <1>1, <1>4, <1>5, <1>6 DEF w, three, less, full, ThreeScores

\* The counts of an intent are of at least one attempt.
TriedOnce(stats) ==
    /\ IsFiniteSet(DOMAIN stats)
    /\ \A key \in DOMAIN stats : stats[key].attempts \in Nat \ {0} /\ stats[key].successes \in Nat

\* The places of the candidates that compete.
Places(stats, key) == 1 .. (IF IsIntentLocked(stats, key) THEN 2 ELSE 3)

\* The first of the best of them, beside the rate of the intent.
Foremost(stats, key, hint, radius, state, p, b) ==
    LET three == Candidates_Unlocked(stats, key, hint, radius)
    IN  /\ b \in Places(stats, key)
        /\ \A j \in Places(stats, key) : Beyond(three[j], state, p) <= Beyond(three[b], state, p)
        /\ \A j \in 1 .. (b - 1) : Beyond(three[j], state, p) < Beyond(three[b], state, p)

LEMMA CandidatesAre ==
  ASSUME NEW stats, NEW key, NEW hint \in Int, NEW radius
  PROVE  /\ DOMAIN Candidates(stats, key, hint, radius) = Places(stats, key)
         /\ \A j \in Places(stats, key) :
              /\ Candidates(stats, key, hint, radius)[j] = Candidates_Unlocked(stats, key, hint, radius)[j]
              /\ Candidates_Unlocked(stats, key, hint, radius)[j].risk \in Int
              /\ Candidates_Unlocked(stats, key, hint, radius)[j].hint \in Int
<1> DEFINE one == [action |-> "reuse_hint", risk |-> BlastRisk("SELF"), hint |-> hint]
           two == [action |-> "shrink_scope", risk |-> BlastRisk(AutoShrinkBlastRadius(radius)), hint |-> hint \div 2]
           new == [action |-> "new_candidate", risk |-> BlastRisk(radius), hint |-> 0]
<1>1. Candidates_Unlocked(stats, key, hint, radius) = <<one, two, new>>
  BY DEF Candidates_Unlocked
<1>2. Candidates(stats, key, hint, radius)
        = IF IsIntentLocked(stats, key) THEN <<one, two>> ELSE <<one, two, new>>
  <2> HIDE DEF one, two, new
  <2>1. <<one, two>> \o <<>> = <<one, two>> /\ <<one, two>> \o <<new>> = <<one, two, new>>
    <3> DEFINE S == {one, two, new}
    <3>1. /\ <<one, two>> \in Seq(S) /\ <<new>> \in Seq(S) /\ <<>> \in Seq(S) /\ <<one, two, new>> \in Seq(S)
          /\ Len(<<one, two>>) = 2 /\ Len(<<new>>) = 1 /\ Len(<<>>) = 0 /\ Len(<<one, two, new>>) = 3
      OBVIOUS
    <3> HIDE DEF S
    <3>2. /\ <<one, two>> \o <<new>> \in Seq(S) /\ Len(<<one, two>> \o <<new>>) = 3
          /\ \A i \in 1 .. 3 : (<<one, two>> \o <<new>>)[i] = IF i <= 2 THEN <<one, two>>[i] ELSE <<new>>[i - 2]
      BY <3>1, ConcatProperties
    <3>3. \A i \in 1 .. 3 : (<<one, two>> \o <<new>>)[i] = <<one, two, new>>[i]
      BY <3>2
    <3>4. <<one, two>> \o <<new>> = <<one, two, new>>
      BY <3>1, <3>2, <3>3, SeqEqual
    <3>5. <<one, two>> \o <<>> = <<one, two>>
      BY <3>1, ConcatEmptySeq
    <3> QED BY <3>4, <3>5
  <2>2. Candidates(stats, key, hint, radius) = <<one, two>> \o (IF IsIntentLocked(stats, key) THEN <<>> ELSE <<new>>)
    BY DEF Candidates, one, two, new
  <2> QED BY <2>1, <2>2
<1>3. \A j \in {one, two, new} : j.risk \in Int /\ j.hint \in Int
  BY DEF BlastRisk
<1> HIDE DEF one, two, new
<1>4. CASE IsIntentLocked(stats, key)
  BY <1>1, <1>2, <1>3, <1>4 DEF Places
<1>5. CASE ~IsIntentLocked(stats, key)
  BY <1>1, <1>2, <1>3, <1>5 DEF Places
<1> QED BY <1>4, <1>5

Chooses(stats, key, hint, radius, fresh, state, p, b) ==
    /\ Foremost(stats, key, hint, radius, state, p, b)
    /\ DecideAction(stats, key, hint, radius, fresh, state, p)
         = Candidates_Unlocked(stats, key, hint, radius)[b].action

LEMMA ForemostIsChosen ==
  ASSUME NEW stats, NEW key, NEW hint \in Int, NEW radius, NEW fresh \in {0, 10}, NEW state, NEW p, IsPolicy(p),
         TriedOnce(stats)
  PROVE  \E b \in Places(stats, key) : Chooses(stats, key, hint, radius, fresh, state, p, b)
<1> DEFINE all == Candidates(stats, key, hint, radius)
           three == Candidates_Unlocked(stats, key, hint, radius)
           rate == SuccessRate(stats, key)
           scores == [i \in DOMAIN all |-> ScoreCandidate(all[i], rate, fresh, state, p)]
           a == Alone(rate, fresh, state)
           value(j) == Beyond(three[j], state, p)
           b == SelectBest(scores)
<1>1. DecideAction(stats, key, hint, radius, fresh, state, p) = all[b].action
  BY DEF DecideAction
<1>2. rate \in Int
  BY RateIsNumber DEF TriedOnce
<1>3. DOMAIN all = Places(stats, key) /\ \A j \in Places(stats, key) : all[j] = three[j]
  BY CandidatesAre
<1>4. \A j \in Places(stats, key) :
        /\ ScoreCandidate(three[j], rate, fresh, state, p) = a + value(j)
        /\ a \in Int /\ value(j) \in Int
  <2> HIDE DEF rate
  <2> SUFFICES ASSUME NEW j \in Places(stats, key)
               PROVE  /\ ScoreCandidate(three[j], rate, fresh, state, p) = a + value(j)
                      /\ a \in Int /\ value(j) \in Int
    OBVIOUS
  <2>1. three[j].risk \in Int /\ three[j].hint \in Int
    BY CandidatesAre
  <2> HIDE DEF three
  <2> QED BY <1>2, <2>1, ScoreSplits
<1> HIDE DEF all, three, rate, value, a
<1>5. scores = [j \in Places(stats, key) |-> a + value(j)]
  BY <1>3, <1>4
<1>6. scores \in [Places(stats, key) -> Int]
  BY <1>4, <1>5
<1>7. Best(scores, b)
  <2> HIDE DEF scores
  <2>1. CASE IsIntentLocked(stats, key)
    <3>1. 2 \in {2, 3} /\ scores \in [1 .. 2 -> Int]
      BY <1>6, <2>1 DEF Places
    <3> QED BY <3>1, BestIsSelected
  <2>2. CASE ~IsIntentLocked(stats, key)
    <3>1. 3 \in {2, 3} /\ scores \in [1 .. 3 -> Int]
      BY <1>6, <2>2 DEF Places
    <3> QED BY <3>1, BestIsSelected
  <2> QED BY <2>1, <2>2
<1> HIDE DEF b
<1>8. /\ b \in Places(stats, key)
      /\ \A j \in Places(stats, key) : a + value(j) <= a + value(b)
      /\ \A j \in 1 .. (b - 1) : j \in Places(stats, key) /\ a + value(j) < a + value(b)
  <2>1. DOMAIN scores = Places(stats, key) /\ \A j \in Places(stats, key) : scores[j] = a + value(j)
    BY <1>5
  <2> HIDE DEF scores
  <2>2. b \in Places(stats, key) /\ \A j \in 1 .. (b - 1) : j \in Places(stats, key)
    BY <1>7, <2>1 DEF Best, Places
  <2> QED BY <1>7, <2>1, <2>2 DEF Best
<1>9. /\ \A j \in Places(stats, key) : value(j) <= value(b)
      /\ \A j \in 1 .. (b - 1) : value(j) < value(b)
  BY <1>4, <1>8
<1>10. Foremost(stats, key, hint, radius, state, p, b)
  BY <1>8, <1>9 DEF Foremost, value, three
<1> QED BY <1>1, <1>3, <1>8, <1>10 DEF three, Chooses

\* What no reward can outweigh.
Outweighed(stats, key, radius, state, p, b) ==
    /\ b \in 1 .. 3
    /\ b = 3 => ~IsIntentLocked(stats, key) /\ radius # "GLOBAL"
    /\ b = 2 /\ radius = "GLOBAL" => state = "STABLE"
    /\ (\A k \in DOMAIN p : k[1] # state) => b = 1

LEMMA RewardsAreOutweighed ==
  ASSUME NEW stats, NEW key, NEW n, NEW hint, Scored(hint, n), NEW radius \in Radii,
         NEW state, NEW p, IsPolicy(p), NEW b, Foremost(stats, key, hint, radius, state, p, b)
  PROVE  Outweighed(stats, key, radius, state, p, b)
<1> DEFINE three == Candidates_Unlocked(stats, key, hint, radius)
           value(j) == Beyond(three[j], state, p)
           w == BuildScoringWeights(state).risk
           less == Less(radius)
           full == Full(radius)
           p1 == PolicyBonus(p, "reuse_hint", state)
           p2 == PolicyBonus(p, "shrink_scope", state)
           p3 == PolicyBonus(p, "new_candidate", state)
           h1 == (2 * hint) \div 10
           h2 == (2 * n) \div 10
<1>1. /\ value(1) = 1000 * w + h1 + p1
      /\ value(2) = 1000 * w - 100 * less * w + h2 + p2
      /\ value(3) = 1000 * w - 100 * full * w + p3
  <2>1. ThreeScores(three, hint, n, radius, state, p)
    BY BeyondRange
  <2> HIDE DEF three
  <2> QED BY <2>1 DEF ThreeScores
<1>2. w \in {2, 3, 4, 5} /\ (state # "STABLE" => w \in {3, 4, 5})
  BY WeightsRange
<1>3. p1 \in -500 .. 500 /\ p2 \in -500 .. 500 /\ p3 \in -500 .. 500
  BY BonusIsSmall
<1>4. (\A k \in DOMAIN p : k[1] # state) => p1 = 0 /\ p2 = 0 /\ p3 = 0
  BY BonusIsSmall
<1>5. h1 \in Nat /\ h2 \in Nat /\ h2 <= h1
  <2>1. hint \in Nat /\ n \in Nat /\ n <= hint
    BY DEF Scored
  <2>2. \A x, y \in Nat : x <= y => x \div 10 <= y \div 10 /\ x \div 10 \in Nat /\ y \div 10 \in Nat
    OBVIOUS
  <2>3. 2 * hint \in Nat /\ 2 * n \in Nat /\ 2 * n <= 2 * hint
    BY <2>1
  <2> QED BY <2>2, <2>3
<1>6. less \in {0, 5} /\ full \in {0, 5, 10} /\ (radius = "GLOBAL" => less = 5 /\ full = 10)
  BY DEF Less, Full
<1>7. /\ b \in 1 .. 3 /\ (IsIntentLocked(stats, key) => b # 3)
      /\ value(1) <= value(b)
      /\ b # 1 => value(1) < value(b)
  BY DEF Foremost, Places
<1> HIDE DEF value, w, less, full, p1, p2, p3, h1, h2
<1>8. b = 3 => radius # "GLOBAL"
  <2> SUFFICES ASSUME b = 3, radius = "GLOBAL" PROVE FALSE
    OBVIOUS
  <2>1. full = 10 /\ value(3) = 1000 * w - 100 * full * w + p3 /\ value(1) < value(3)
    BY <1>1, <1>6, <1>7
  <2>2. value(3) = p3
    BY <1>2, <1>3, <2>1
  <2>3. value(1) >= 2000 - 500
    BY <1>1, <1>2, <1>3, <1>5
  <2> QED BY <1>1, <1>2, <1>3, <1>5, <2>1, <2>2, <2>3
<1>9. b = 2 /\ radius = "GLOBAL" => state = "STABLE"
  <2> SUFFICES ASSUME b = 2, radius = "GLOBAL", state # "STABLE" PROVE FALSE
    OBVIOUS
  <2>1. less = 5 /\ value(2) = 1000 * w - 100 * less * w + h2 + p2 /\ value(1) < value(2) /\ w \in {3, 4, 5}
    BY <1>1, <1>2, <1>6, <1>7
  <2>2. value(2) = 500 * w + h2 + p2
    BY <1>2, <1>3, <1>5, <2>1
  <2> QED BY <1>1, <1>3, <1>5, <2>1, <2>2
<1>10. (\A k \in DOMAIN p : k[1] # state) => b = 1
  <2> SUFFICES ASSUME p1 = 0, p2 = 0, p3 = 0, b # 1 PROVE FALSE
    BY <1>4
  <2>1. 100 * less * w >= 0 /\ 100 * less * w \in Int /\ 100 * full * w >= 0 /\ 100 * full * w \in Int
    BY <1>2, <1>6
  <2>2. value(2) <= value(1) /\ value(3) <= value(1)
    BY <1>1, <1>2, <1>5, <2>1
  <2> QED BY <1>1, <1>2, <1>5, <1>7, <2>1, <2>2
<1> QED BY <1>7, <1>8, <1>9, <1>10 DEF Outweighed

LEMMA ActionsOfThree ==
  ASSUME NEW stats, NEW key, NEW hint, NEW radius
  PROVE  /\ Candidates_Unlocked(stats, key, hint, radius)[1].action = "reuse_hint"
         /\ Candidates_Unlocked(stats, key, hint, radius)[2].action = "shrink_scope"
         /\ Candidates_Unlocked(stats, key, hint, radius)[3].action = "new_candidate"
BY DEF Candidates_Unlocked

Follows(stats, key, hint, radius, fresh, state, p) ==
    LET choice == DecideAction(stats, key, hint, radius, fresh, state, p)
    IN  /\ choice = "new_candidate" => ~IsIntentLocked(stats, key) /\ radius # "GLOBAL"
        /\ choice = "shrink_scope" /\ radius = "GLOBAL" => state = "STABLE"
        /\ (\A k \in DOMAIN p : k[1] # state) => choice = "reuse_hint"

LEMMA ChoiceFollows ==
  ASSUME NEW stats, TriedOnce(stats), NEW key, NEW n, NEW hint, Scored(hint, n), NEW radius \in Radii,
         NEW fresh \in {0, 10}, NEW state, NEW p, IsPolicy(p)
  PROVE  Follows(stats, key, hint, radius, fresh, state, p)
<1> DEFINE three == Candidates_Unlocked(stats, key, hint, radius)
<1>1. hint \in Int
  BY DEF Scored
<1>2. PICK b \in Places(stats, key) : Chooses(stats, key, hint, radius, fresh, state, p, b)
  BY <1>1, ForemostIsChosen
<1>3. /\ Foremost(stats, key, hint, radius, state, p, b)
      /\ DecideAction(stats, key, hint, radius, fresh, state, p) = three[b].action
  BY <1>2 DEF Chooses
<1>4. Outweighed(stats, key, radius, state, p, b)
  BY <1>3, RewardsAreOutweighed
<1>5. three[1].action = "reuse_hint" /\ three[2].action = "shrink_scope" /\ three[3].action = "new_candidate"
  BY ActionsOfThree
<1> HIDE DEF three
<1>6. /\ three[b].action = "new_candidate" => b = 3
      /\ three[b].action = "shrink_scope" => b = 2
  BY <1>4, <1>5 DEF Outweighed
<1> QED BY <1>3, <1>4, <1>5, <1>6 DEF Outweighed, Follows

\* Where every intent of a target fails more often than not, so does the target.
LEMMA FailuresAddUp ==
  ASSUME NEW stats, TriedOnce(stats), NEW keys, keys \subseteq DOMAIN stats, keys # {},
         \A key \in keys : 2 * stats[key].successes < stats[key].attempts
  PROVE  LET a == SumOf([key \in keys |-> stats[key].attempts], keys)
             s == SumOf([key \in keys |-> stats[key].successes], keys)
         IN  a \in Int /\ s \in Int /\ 2 * s < a
<1> DEFINE f == [key \in keys |-> stats[key].attempts]
           g == [key \in keys |-> stats[key].successes]
           F == {R \in SUBSET keys : R # {} => 2 * SumOf(g, R) < SumOf(f, R)}
<1>1. IsFiniteSet(keys)
  BY FS_Subset DEF TriedOnce
<1>2. \A key \in keys : f[key] \in Int /\ g[key] \in Int /\ 2 * g[key] < f[key]
  BY DEF TriedOnce
<1> HIDE DEF f, g
<1>3. \A R \in SUBSET keys : IsFiniteSet(R) /\ SumOf(f, R) \in Int /\ SumOf(g, R) \in Int
  BY <1>1, <1>2, FS_Subset, SumType
<1>4. {} \in F
  OBVIOUS
<1>5. ASSUME NEW R \in SUBSET keys, R # {}, \A x \in R : R \ {x} \in F
      PROVE  R \in F
  <2> DEFINE c == Taken(R)
             Q == R \ {c}
  <2>1. c \in R /\ c \in keys /\ Q \in SUBSET keys /\ Q \in F
    BY <1>5, TakenIn
  <2>2. SumOf(f, R) = f[c] + SumOf(f, Q) /\ SumOf(g, R) = g[c] + SumOf(g, Q)
    BY <1>3, <1>5, SumUnfolds
  <2>3. Q = {} => SumOf(f, Q) = 0 /\ SumOf(g, Q) = 0
    BY SumOfNothing
  <2>4. Q # {} => 2 * SumOf(g, Q) < SumOf(f, Q)
    BY <2>1
  <2> HIDE DEF c, Q
  <2>5. /\ f[c] \in Int /\ g[c] \in Int /\ 2 * g[c] < f[c]
        /\ SumOf(f, Q) \in Int /\ SumOf(g, Q) \in Int
    BY <1>2, <1>3, <2>1
  <2> QED BY <2>2, <2>3, <2>4, <2>5
<1>6. keys \in F
  <2> HIDE DEF F
  <2> QED BY <1>1, <1>4, <1>5, PartsBySize
<1> QED BY <1>3, <1>6 DEF f, g

LEMMA NoGreenOfFailures ==
  ASSUME NEW stats, TriedOnce(stats), NEW target \in {key[1] : key \in DOMAIN stats},
         \A key \in DOMAIN stats : key[1] = target => IsIntentLocked(stats, key)
  PROVE  ComputeVisualSignal(TRUE, "NEUTRAL", NodeStats(stats, target)) \in {"red", "yellow"}
<1> DEFINE keys == {key \in DOMAIN stats : key[1] = target}
           a == SumOf([key \in keys |-> stats[key].attempts], keys)
           s == SumOf([key \in keys |-> stats[key].successes], keys)
           node == NodeStats(stats, target)
<1>1. keys # {} /\ keys \subseteq DOMAIN stats /\ \A key \in keys : 2 * stats[key].successes < stats[key].attempts
  BY DEF IsIntentLocked
<1>2. node.attempts = a /\ node.successes = s
  BY DEF NodeStats
<1> HIDE DEF keys, node
<1>3. a \in Int /\ s \in Int /\ 2 * s < a
  BY <1>1, FailuresAddUp
<1> HIDE DEF a, s
<1>4. ~(node.attempts > 0 /\ 10 * node.successes >= 7 * node.attempts)
  BY <1>2, <1>3
<1> QED BY <1>4 DEF ComputeVisualSignal, node

-----------------------------------------------------------------------------
(* What the decisions are taken from                                         *)

\* Whatever is kept of the statistics has been tried, and the policy averages rewards.
ChoiceInv ==
    /\ TriedOnce(Loaded(intent_stats))
    /\ \A g \in Gateways : Open(g) => TriedOnce(gateways[g].intents)
    /\ IsPolicy(policy)

LEMMA NothingTried == TriedOnce(<<>>)
<1>1. DOMAIN <<>> = {}
  OBVIOUS
<1>2. IsFiniteSet({})
  BY FS_EmptySet
<1> QED BY <1>1, <1>2 DEF TriedOnce

LEMMA RecordIsTried ==
  ASSUME NEW stats, IsStats(stats), TriedOnce(stats), NEW e \in AttemptLine
  PROVE  TriedOnce(UpdateIntentStats(stats, e))
<1> DEFINE new == UpdateIntentStats(stats, e)
<1>1. /\ DOMAIN new = DOMAIN stats \cup {e.intent}
      /\ \A key \in DOMAIN stats : key # e.intent => new[key] = stats[key]
      /\ new[e.intent].attempts = Tried(stats, e.intent) + 1
  BY StatsUpdated
<1>2. IsStats(new)
  BY StatsUpdated
<1>3. \A key \in DOMAIN new : new[key].attempts \in Nat /\ new[key].successes \in Nat
  <2> HIDE DEF new
  <2> QED BY <1>2, StatsTyped DEF IntentCounts
<1>4. Tried(stats, e.intent) \in Nat
  BY TriedIsNat
<1> HIDE DEF new
<1>5. IsFiniteSet(DOMAIN new)
  BY <1>1, FS_AddElement DEF TriedOnce
<1>6. \A key \in DOMAIN new : new[key].attempts \in Nat \ {0} /\ new[key].successes \in Nat
  BY <1>1, <1>3, <1>4 DEF TriedOnce
<1> QED BY <1>5, <1>6 DEF TriedOnce, new

LEMMA RecordKeepsChoices ==
  ASSUME LearningInv, ChoiceInv, NEW g \in Gateways, NEW e \in AttemptLine, Records(g, e), Open(g),
         policy' = policy
  PROVE  ChoiceInv'
<1>1. IsStats(gateways[g].intents)
  BY DEF LearningInv, LearningTypes, Open, GatewayType
<1>2. Open(g)' => TriedOnce(gateways'[g].intents)
  BY <1>1, RecordIsTried DEF ChoiceInv, Records, Open
<1>3. Loaded(intent_stats)' = Loaded(intent_stats)
  BY DEF Records, Loaded
<1>4. \A h \in Gateways : h # g => (Open(h)' <=> Open(h)) /\ gateways'[h] = gateways[h]
  BY DEF Records, Open
<1>5. \A h \in Gateways : Open(h)' => TriedOnce(gateways'[h].intents)
  BY <1>2, <1>4 DEF ChoiceInv
<1> QED BY <1>3, <1>5 DEF ChoiceInv

LEMMA QuietKeepsChoices ==
  ASSUME LearningInv, ChoiceInv, NEW g \in Gateways, Quiet(g), Reads(g) \/ Goes(g), IsPolicy(policy)'
  PROVE  ChoiceInv'
<1>1. TriedOnce(Loaded(intent_stats)) /\ \A h \in Gateways : Open(h) => TriedOnce(gateways[h].intents)
  BY DEF ChoiceInv
<1>2. TriedOnce(Loaded(intent_stats))'
  <2>1. CASE intent_stats' = intent_stats
    BY <1>1, <2>1 DEF Loaded
  <2>2. CASE intent_stats' = Torn
    BY <2>2, NothingTried DEF Loaded
  <2>3. CASE Open(g) /\ intent_stats' = gateways[g].intents
    <3>1. IsStats(gateways[g].intents)
      BY <2>3 DEF LearningInv, LearningTypes, Open, GatewayType
    <3>2. Loaded(gateways[g].intents) = gateways[g].intents
      BY <3>1, StatsAreWhole
    <3>3. Loaded(intent_stats)' = gateways[g].intents
      BY <2>3, <3>2 DEF Loaded
    <3> QED BY <1>1, <2>3, <3>3
  <2> QED BY <2>1, <2>2, <2>3 DEF Quiet
<1>3. \A h \in Gateways : h # g => (Open(h)' <=> Open(h)) /\ gateways'[h] = gateways[h]
  BY DEF Quiet, Open
<1>4. Open(g)' => TriedOnce(gateways'[g].intents)
  <2>1. CASE Reads(g)
    BY <1>1, <2>1 DEF Reads
  <2>2. CASE Goes(g)
    BY <1>1, <2>2 DEF Goes
  <2> QED BY <2>1, <2>2
<1>5. \A h \in Gateways : Open(h)' => TriedOnce(gateways'[h].intents)
  BY <1>1, <1>3, <1>4
<1> QED BY <1>2, <1>5 DEF ChoiceInv

\* One reward more, of 1 or -1.
LEMMA RewardKeepsPolicy ==
  ASSUME NEW p, IsPolicy(p), NEW action, NEW reward \in {1, -1}, NEW state
  PROVE  IsPolicy(UpdatePolicy(p, action, reward, state))
<1> DEFINE key == <<state, action>>
           old == IF key \in DOMAIN p THEN p[key] ELSE [reward |-> 0, count |-> 0]
           one == [reward |-> old.reward + reward, count |-> old.count + 1]
           new == [k \in DOMAIN p \cup {key} |-> IF k = key THEN one ELSE p[k]]
<1>1. UpdatePolicy(p, action, reward, state) = new
  BY DEF UpdatePolicy
<1>2. old.count \in Nat /\ old.reward \in -old.count .. old.count
  BY DEF IsPolicy
<1>3. one.count \in Nat \ {0} /\ one.reward \in -one.count .. one.count
  <2> HIDE DEF old
  <2> QED BY <1>2
<1> HIDE DEF one, key
<1>4. DOMAIN new = DOMAIN p \cup {key} /\ new[key] = one /\ \A k \in DOMAIN p : k # key => new[k] = p[k]
  OBVIOUS
<1> HIDE DEF new
<1>5. \A k \in DOMAIN new : new[k].count \in Nat \ {0} /\ new[k].reward \in -new[k].count .. new[k].count
  BY <1>3, <1>4 DEF IsPolicy
<1> QED BY <1>1, <1>5 DEF IsPolicy

LEMMA HintsAreScored == \A hint \in HintQualities : \E n : Scored(hint, n)
<1> SUFFICES ASSUME NEW hint, hint \in HintQualities PROVE \E n : Scored(hint, n)
  OBVIOUS
<1>1. hint \in 0 .. 10000
  BY LearningInputs
<1> QED BY <1>1 DEF Scored

LEMMA ChoicesHold == LearningSpec => []ChoiceInv
<1>1. LearningInit => ChoiceInv
  <2> SUFFICES ASSUME LearningInit PROVE ChoiceInv
    OBVIOUS
  <2>1. Loaded(intent_stats) = <<>> /\ (\A g \in Gateways : ~Open(g)) /\ DOMAIN policy = {}
    BY DEF LearningInit, Loaded, Open, Closed
  <2> QED BY <2>1, NothingTried DEF ChoiceInv, IsPolicy
<1>2. LearningInv /\ ChoiceInv /\ [LearningNext]_learning_vars => ChoiceInv'
  <2> SUFFICES ASSUME LearningInv, ChoiceInv, [LearningNext]_learning_vars PROVE ChoiceInv'
    OBVIOUS
  <2>1. CASE UNCHANGED learning_vars
    BY <2>1 DEF learning_vars, ChoiceInv, Loaded, Open
  <2>2. CASE \E g \in Gateways : GatewayStep(g)
    <3>1. PICK g \in Gateways : GatewayStep(g)
      BY <2>2
    <3>2. CASE OpenGateway(g)
      <4>1. IsPolicy(policy)'
        BY <3>2 DEF OpenGateway, ChoiceInv
      <4> QED BY <3>2, <4>1, OpenIsQuiet, QuietKeepsChoices
    <3>3. CASE FlushIntents(g) \/ FlushSuggests(g) \/ FlushFails(g) \/ Learn(g) \/ CloseGateway(g) \/ KillGateway(g)
      <4>1. IsPolicy(policy)'
        <5>1. CASE policy' = policy
          BY <5>1 DEF ChoiceInv
        <5>2. CASE policy' # policy
          <6>1. Learn(g)
            BY <3>3, <5>2 DEF FlushIntents, FlushSuggests, FlushFails, CloseGateway, KillGateway
          <6>2. \E state \in Environs, action \in ActionTypes, reward \in {1, -1} :
                   policy' = UpdatePolicy(policy, action, reward, state)
            BY <5>2, <6>1 DEF Learn
          <6> QED BY <6>2, RewardKeepsPolicy DEF ChoiceInv
        <5> QED BY <5>1, <5>2
      <4> QED BY <3>3, <4>1, WorkIsQuiet, QuietKeepsChoices
    <3>4. CASE \E ask \in Asks : Process(g, ask) \/ ProcessWithAutoShrink(g, ask)
      <4>1. Open(g) /\ policy' = policy
        BY <3>4 DEF Process, ProcessWithAutoShrink, Open
      <4> QED BY <3>4, <4>1, RequestRecords, RecordKeepsChoices
    <3>5. CASE \E stop \in Stops : PreReject(g, stop)
      <4>1. Open(g) /\ LearningTypes /\ policy' = policy
        BY <3>5 DEF PreReject, Open, LearningInv
      <4> QED BY <3>5, <4>1, StopRecords, RecordKeepsChoices
    <3>6. CASE Retry(g)
      <4>1. Open(g) /\ policy' = policy
        BY <3>6 DEF Retry, Open
      <4> QED BY <3>6, <4>1, RetryRecords, RecordKeepsChoices
    <3>7. CASE \E entry \in Writing(g) : KillAppending(g, entry)
      <4>1. LearningTypes /\ policy' = policy
        BY <3>7 DEF LearningInv, KillAppending
      <4> QED BY <3>7, <4>1, KillRecords, RecordKeepsChoices
    <3> QED BY <3>1, <3>2, <3>3, <3>4, <3>5, <3>6, <3>7 DEF GatewayStep
  <2> QED BY <2>1, <2>2 DEF LearningNext
<1> QED BY <1>1, <1>2, LearningInvHolds, PTL DEF LearningSpec

\* The decisions follow from what was learnt, whatever the gateways did to the files, for
\* every hint, radius and morning and any rewards.
THEOREM ChoicesStayCautious == LearningSpec => []ChoicesAreCautious
<1>1. ChoiceInv => ChoicesAreCautious
  <2> SUFFICES ASSUME ChoiceInv PROVE ChoicesAreCautious
    OBVIOUS
  <2> DEFINE stats == Loaded(intent_stats)
             keys == DOMAIN stats \cup {attempt_log[i].intent : i \in DOMAIN attempt_log}
  <2>1. TriedOnce(stats) /\ IsPolicy(policy)
    BY DEF ChoiceInv
  <2> HIDE DEF stats
  <2>2. ASSUME NEW key, NEW morning \in Mornings, NEW hint \in HintQualities, NEW radius \in Radii,
               NEW fresh \in {0, 10}
        PROVE  LET state == DeriveEnvironmentState(morning)
                   choice == DecideAction(stats, key, hint, radius, fresh, state, policy)
               IN  /\ choice = "new_candidate" => ~IsIntentLocked(stats, key) /\ radius # "GLOBAL"
                   /\ choice = "shrink_scope" /\ radius = "GLOBAL" => state = "STABLE"
                   /\ (\A k \in DOMAIN policy : k[1] # state) => choice = "reuse_hint"
                   /\ morning.posture = "RED" => state = "HOSTILE" /\ PrioritizeReviewItem(morning, stats) = 1
    <3> DEFINE state == DeriveEnvironmentState(morning)
    <3>2. PICK n : Scored(hint, n)
      BY HintsAreScored
    <3>3. morning.posture = "RED" => state = "HOSTILE" /\ PrioritizeReviewItem(morning, stats) = 1
      BY DEF DeriveEnvironmentState, PrioritizeReviewItem
    <3> HIDE DEF state
    <3>4. Follows(stats, key, hint, radius, fresh, state, policy)
      BY <2>1, <3>2, ChoiceFollows
    <3> QED BY ONLY <3>3, <3>4 DEF state, Follows
  <2>3. ASSUME NEW key \in DOMAIN stats, IsIntentLocked(stats, key)
        PROVE  key \notin SafeToIgnore(stats)
    <3>1. stats[key].attempts \in Nat \ {0} /\ stats[key].successes \in Nat
      BY <2>1 DEF TriedOnce
    <3>2. 2 * stats[key].successes < stats[key].attempts
      BY <2>3 DEF IsIntentLocked
    <3>3. ~(10 * stats[key].successes >= 7 * stats[key].attempts)
      BY <3>1, <3>2
    <3> QED BY <3>3 DEF SafeToIgnore
  <2>4. ASSUME NEW target \in {key[1] : key \in DOMAIN stats},
               \A key \in DOMAIN stats : key[1] = target => IsIntentLocked(stats, key)
        PROVE  ComputeVisualSignal(TRUE, "NEUTRAL", NodeStats(stats, target)) \in {"red", "yellow"}
    BY <2>1, <2>4, NoGreenOfFailures
  <2> QED BY <2>2, <2>3, <2>4 DEF ChoicesAreCautious, stats
<1> QED BY <1>1, ChoicesHold, PTL

(***************************************************************************)
(* The prompt                                                              *)
(***************************************************************************)

-----------------------------------------------------------------------------
(* The first of a set                                                        *)

\* Which of two elements comes before the other.
Orders(before, S) ==
    /\ \A x \in S : <<x, x>> \notin before
    /\ \A x, y, z \in S : <<x, y>> \in before /\ <<y, z>> \in before => <<x, z>> \in before
    /\ \A x, y \in S : x = y \/ <<x, y>> \in before \/ <<y, x>> \in before

Ahead(S, before, x) == {y \in S : <<y, x>> \in before}

Rank(S, before, x) == Cardinality(Ahead(S, before, x))

LEMMA RankIsNat ==
  ASSUME NEW S, IsFiniteSet(S), NEW before, NEW x
  PROVE  IsFiniteSet(Ahead(S, before, x)) /\ Rank(S, before, x) \in Nat
BY FS_Subset, FS_CardinalityType DEF Ahead, Rank

LEMMA RankRises ==
  ASSUME NEW S, IsFiniteSet(S), NEW before, Orders(before, S), NEW x \in S, NEW y \in S, <<x, y>> \in before
  PROVE  Rank(S, before, x) < Rank(S, before, y)
<1> DEFINE a == Ahead(S, before, x)
           b == Ahead(S, before, y)
<1>1. a \in SUBSET b /\ x \in b /\ x \notin a
  BY DEF Ahead, Orders
<1>2. IsFiniteSet(b) /\ Cardinality(a) \in Nat /\ Cardinality(b) \in Nat
  BY RankIsNat DEF Rank
<1> HIDE DEF a, b
<1>3. Cardinality(a) <= Cardinality(b) /\ Cardinality(a) # Cardinality(b)
  BY <1>1, <1>2, FS_Subset
<1> QED BY <1>2, <1>3 DEF Rank, a, b

LEMMA FirstByRank ==
  ASSUME NEW n, NEW S, NEW before
  PROVE  FirstOf(n, S, before) = {x \in S : Rank(S, before, x) < n}
BY DEF FirstOf, Rank, Ahead

\* What is left out comes before nothing that is taken.
LEMMA FirstComeFirst ==
  ASSUME NEW n \in Nat, NEW S, IsFiniteSet(S), NEW before, Orders(before, S),
         NEW x \in S, x \notin FirstOf(n, S, before), NEW y \in FirstOf(n, S, before)
  PROVE  y \in S /\ <<x, y>> \notin before
<1>1. y \in S /\ Rank(S, before, y) < n /\ ~(Rank(S, before, x) < n)
  BY FirstByRank
<1>2. Rank(S, before, x) \in Nat /\ Rank(S, before, y) \in Nat
  BY RankIsNat
<1>3. <<x, y>> \in before => Rank(S, before, x) < Rank(S, before, y)
  BY <1>1, RankRises
<1> QED BY <1>1, <1>2, <1>3

\* Nothing is left out unless n are taken.
LEMMA FirstAreMany ==
  ASSUME NEW n \in Nat, NEW S, IsFiniteSet(S), NEW before, Orders(before, S),
         NEW x \in S, x \notin FirstOf(n, S, before)
  PROVE  Cardinality(FirstOf(n, S, before)) = n
<1> DEFINE rank(z) == Rank(S, before, z)
           F == FirstOf(n, S, before)
           R == {rank(z) : z \in S \ F}
<1>1. F = {z \in S : rank(z) < n} /\ \A z \in S : rank(z) \in Nat
  BY FirstByRank, RankIsNat
<1>2. IsFiniteSet(F) /\ Cardinality(F) \in Nat
  BY <1>1, FS_Subset, FS_CardinalityType
<1>3. Cardinality(F) >= n
  <2>1. R \subseteq Nat /\ R # {}
    BY <1>1
  <2>2. PICK least \in R : \A r \in R : least <= r
    BY <2>1, Least
  <2>3. PICK z \in S \ F : rank(z) = least
    OBVIOUS
  <2>4. \A y \in Ahead(S, before, z) : y \in F
    <3> SUFFICES ASSUME NEW y \in S, <<y, z>> \in before, y \notin F PROVE FALSE
      BY DEF Ahead
    <3>1. rank(y) < rank(z)
      BY RankRises
    <3>2. rank(y) \in R /\ rank(y) \in Nat /\ rank(z) \in Nat
      BY <1>1
    <3> QED BY <2>2, <2>3, <3>1, <3>2
  <2>5. Cardinality(Ahead(S, before, z)) <= Cardinality(F)
    BY <1>2, <2>4, FS_Subset
  <2>6. rank(z) \in Nat /\ ~(rank(z) < n) /\ rank(z) = Cardinality(Ahead(S, before, z))
    BY <1>1 DEF Rank
  <2> QED BY <1>2, <2>5, <2>6
<1>4. Cardinality(F) <= n
  <2>1. CASE F = {}
    BY <2>1, FS_EmptySet
  <2>2. CASE F # {}
    <3> DEFINE D == {n - rank(y) : y \in F}
    <3>1. D \subseteq Nat /\ D # {}
      BY <1>1, <2>2
    <3>2. PICK least \in D : \A d \in D : least <= d
      BY <3>1, Least
    <3>3. PICK z \in F : n - rank(z) = least
      OBVIOUS
    <3>4. F \ {z} \in SUBSET Ahead(S, before, z)
      <4> SUFFICES ASSUME NEW y \in F, y # z PROVE y \in Ahead(S, before, z)
        OBVIOUS
      <4>1. y \in S /\ z \in S /\ rank(y) \in Nat /\ rank(z) \in Nat /\ n - rank(y) \in D
        BY <1>1
      <4>2. rank(y) <= rank(z)
        BY <3>2, <3>3, <4>1
      <4>3. <<z, y>> \in before => rank(z) < rank(y)
        BY <4>1, RankRises
      <4> HIDE DEF rank
      <4>4. <<z, y>> \notin before
        BY <4>1, <4>2, <4>3
      <4> QED BY <4>1, <4>4 DEF Orders, Ahead
    <3>5. z \in S /\ rank(z) < n /\ rank(z) \in Nat
      BY <1>1
    <3>6. Cardinality(F \ {z}) <= rank(z)
      BY <3>4, RankIsNat, FS_Subset DEF Rank
    <3>7. Cardinality(F) = Cardinality(F \ {z}) + 1 /\ Cardinality(F \ {z}) \in Nat
      BY <1>2, <3>3, OneLess
    <3> HIDE DEF rank, F
    <3> QED BY <3>5, <3>6, <3>7
  <2> QED BY <2>1, <2>2
<1> QED BY <1>2, <1>3, <1>4

-----------------------------------------------------------------------------
(* The failure ledger and the lineage                                        *)

LedgerEntry == [code : Codes, count : Nat, last : Nat]

\* A code has one entry.
IsLedger(ledger) ==
    /\ ledger \in Seq(LedgerEntry)
    /\ \A i, j \in DOMAIN ledger : ledger[i].code = ledger[j].code => i = j

\* Cycles before this one, the latest first.
IsLineage(cycles, now) ==
    /\ cycles \in Seq(1 .. now - 1)
    /\ \A i, j \in DOMAIN cycles : i < j => cycles[i] > cycles[j]

ProposalsInv ==
    /\ cycle \in Nat \ {0}
    /\ IsLedger(failure_ledger) /\ IsLineage(lineage, cycle)
    /\ stage = "reply" =>
         /\ prompt.constraints = ConstitutionLayer
         /\ prompt.observed \in Observations /\ prompt.seeds = FocusSeeds(prompt.observed)

\* Of two entries the one whose cycle stands first in the lineage was seen later.
LEMMA AgesOfLineage ==
  ASSUME ProposalsInv, NEW i \in Passing
  PROVE  /\ i \in DOMAIN failure_ledger
         /\ Age(failure_ledger[i]) \in DOMAIN lineage
         /\ lineage[Age(failure_ledger[i])] = failure_ledger[i].last
BY DEF Passing, Age, Recent, Ages

LEMMA FresherOrders == ProposalsInv => Orders(Fresher, Passing) /\ IsFiniteSet(Passing) /\ IsFiniteSet(Critical)
<1> SUFFICES ASSUME ProposalsInv PROVE Orders(Fresher, Passing) /\ IsFiniteSet(Passing) /\ IsFiniteSet(Critical)
  OBVIOUS
<1> DEFINE age(i) == Age(failure_ledger[i])
           before(i, j) == age(i) < age(j) \/ (age(i) = age(j) /\ i < j)
<1>1. /\ DOMAIN failure_ledger = 1 .. Len(failure_ledger) /\ Len(failure_ledger) \in Nat
      /\ DOMAIN lineage = 1 .. Len(lineage) /\ Len(lineage) \in Nat
  BY DEF ProposalsInv, IsLedger, IsLineage
<1>2. \A i \in Passing : age(i) \in Int /\ i \in Int
  BY <1>1, AgesOfLineage
<1>3. \A i, j \in Passing : <<i, j>> \in Fresher <=> before(i, j)
  BY DEF Fresher
<1>4. IsFiniteSet(Passing) /\ IsFiniteSet(Critical)
  <2>1. 1 \in Int /\ Len(failure_ledger) \in Int
    BY <1>1
  <2>2. IsFiniteSet(1 .. Len(failure_ledger))
    BY ONLY <2>1, FS_Interval
  <2> QED BY <1>1, <2>2, FS_Subset DEF Passing, Critical
<1> HIDE DEF age
<1>5. /\ \A i \in Passing : ~before(i, i)
      /\ \A i, j, k \in Passing : before(i, j) /\ before(j, k) => before(i, k)
      /\ \A i, j \in Passing : i = j \/ before(i, j) \/ before(j, i)
  BY <1>2
<1> HIDE DEF before
<1> QED BY <1>3, <1>4, <1>5 DEF Orders

ObservedEntry == [kind : Kinds, count : Nat \ {0}]

LEMMA GraverOrders ==
  ASSUME NEW observed \in Seq(ObservedEntry)
  PROVE  Orders(Graver(observed), DOMAIN observed) /\ IsFiniteSet(DOMAIN observed)
<1> DEFINE impact(i) == Impact(observed[i])
           kind(i) == Collected(observed[i])
           before(i, j) == impact(i) > impact(j)
                             \/ (impact(i) = impact(j) /\ (kind(i) < kind(j) \/ (kind(i) = kind(j) /\ i < j)))
<1>1. DOMAIN observed = 1 .. Len(observed) /\ Len(observed) \in Nat
  OBVIOUS
<1>2. \A i \in DOMAIN observed : i \in Int /\ impact(i) \in Int /\ kind(i) \in Int
  BY <1>1 DEF Impact, Collected
<1>3. \A i, j \in DOMAIN observed : <<i, j>> \in Graver(observed) <=> before(i, j)
  BY DEF Graver
<1>4. IsFiniteSet(DOMAIN observed)
  <2>1. 1 \in Int /\ Len(observed) \in Int
    BY <1>1
  <2>2. IsFiniteSet(1 .. Len(observed))
    BY ONLY <2>1, FS_Interval
  <2> QED BY <1>1, <2>2
<1> HIDE DEF impact, kind
<1>5. /\ \A i \in DOMAIN observed : ~before(i, i)
      /\ \A i, j, k \in DOMAIN observed : before(i, j) /\ before(j, k) => before(i, k)
      /\ \A i, j \in DOMAIN observed : i = j \/ before(i, j) \/ before(j, i)
  BY <1>2
<1> HIDE DEF before
<1> QED BY <1>3, <1>4, <1>5 DEF Orders

-----------------------------------------------------------------------------
(* What the ledger and the lineage stay                                      *)

LEMMA ListingLists ==
  ASSUME NEW codes \in SUBSET Codes
  PROVE  /\ Cardinality(codes) \in Nat
         /\ \A i \in 1 .. Cardinality(codes) : Listing(codes)[i] \in codes
         /\ \A i, j \in 1 .. Cardinality(codes) : Listing(codes)[i] = Listing(codes)[j] => i = j
<1> DEFINE n == Cardinality(codes)
           Lists(q) == q \in [1 .. n -> codes] /\ \A i, j \in DOMAIN q : q[i] = q[j] => i = j
<1>1. n \in Nat /\ ExistsBijection(1 .. n, codes)
  BY PromptInputs, FS_Subset, FS_CardinalityType
<1>2. \E q \in [1 .. n -> codes] : Lists(q)
  BY <1>1 DEF ExistsBijection, Bijection, Injection, IsInjective
<1>3. Listing(codes) = CHOOSE q \in [1 .. n -> codes] : Lists(q)
  BY DEF Listing
<1>4. Lists(Listing(codes))
  <2> HIDE DEF Lists
  <2> QED BY <1>2, <1>3
<1> QED BY <1>1, <1>4

LEMMA SeedsAreLedger ==
  ASSUME NEW codes \in SUBSET Codes
  PROVE  LET seeds == [i \in 1 .. Cardinality(codes) |-> [code |-> Listing(codes)[i], count |-> 0, last |-> SeedCycle]]
         IN  IsLedger(seeds) /\ \A i \in DOMAIN seeds : seeds[i].code \in codes
<1> DEFINE n == Cardinality(codes)
           entry(i) == [code |-> Listing(codes)[i], count |-> 0, last |-> SeedCycle]
           seeds == [i \in 1 .. n |-> entry(i)]
<1>1. /\ n \in Nat /\ \A i \in 1 .. n : Listing(codes)[i] \in codes
      /\ \A i, j \in 1 .. n : Listing(codes)[i] = Listing(codes)[j] => i = j
  BY ListingLists
<1> HIDE DEF n
<1>2. \A i \in 1 .. n : entry(i) \in LedgerEntry
  BY <1>1 DEF LedgerEntry, SeedCycle
<1>3. /\ \A i \in 1 .. n : entry(i).code \in codes
      /\ \A i, j \in 1 .. n : entry(i).code = entry(j).code => i = j
  BY <1>1
<1> HIDE DEF entry
<1>4. seeds \in Seq(LedgerEntry)
  BY <1>1, <1>2, IsASeq
<1>5. IsLedger(seeds) /\ \A i \in DOMAIN seeds : seeds[i].code \in codes
  BY <1>3, <1>4 DEF IsLedger
<1> QED BY <1>5 DEF n, entry

LEMMA LedgersJoin ==
  ASSUME NEW a, NEW b, IsLedger(a), IsLedger(b),
         \A i \in DOMAIN a, j \in DOMAIN b : a[i].code # b[j].code
  PROVE  IsLedger(a \o b)
<1>1. a \in Seq(LedgerEntry) /\ b \in Seq(LedgerEntry) /\ Len(a) \in Nat /\ Len(b) \in Nat
      /\ DOMAIN a = 1 .. Len(a) /\ DOMAIN b = 1 .. Len(b)
  BY DEF IsLedger
<1>2. /\ a \o b \in Seq(LedgerEntry) /\ DOMAIN (a \o b) = 1 .. (Len(a) + Len(b))
      /\ \A i \in 1 .. (Len(a) + Len(b)) :
            (a \o b)[i] = IF i \in DOMAIN a THEN a[i] ELSE b[i - Len(a)]
  BY <1>1, ConcatProperties
<1>3. \A i \in 1 .. (Len(a) + Len(b)) : i \in DOMAIN a \/ (i \notin DOMAIN a /\ i - Len(a) \in DOMAIN b)
  BY <1>1
<1> SUFFICES ASSUME NEW i \in DOMAIN (a \o b), NEW j \in DOMAIN (a \o b), (a \o b)[i].code = (a \o b)[j].code
             PROVE  i = j
  BY <1>2 DEF IsLedger
<1>4. CASE i \in DOMAIN a /\ j \in DOMAIN a
  BY <1>2, <1>4 DEF IsLedger
<1>5. CASE i \notin DOMAIN a /\ j \notin DOMAIN a
  <2>1. i - Len(a) = j - Len(a)
    BY <1>2, <1>3, <1>5 DEF IsLedger
  <2> QED BY <1>1, <1>2, <2>1
<1> QED BY <1>2, <1>3, <1>4, <1>5

LEMMA RecordKeepsLedger ==
  ASSUME ProposalsInv, NEW code \in Codes
  PROVE  IsLedger(Record(code))
<1>1. IsLedger(failure_ledger) /\ failure_ledger \in Seq(LedgerEntry) /\ cycle \in Nat
  BY DEF ProposalsInv, IsLedger
<1>2. CASE \E i \in DOMAIN failure_ledger : failure_ledger[i].code = code
  <2> DEFINE e(i) == IF failure_ledger[i].code = code
                     THEN [code |-> code, count |-> failure_ledger[i].count + 1, last |-> cycle] ELSE failure_ledger[i]
             n == Len(failure_ledger)
  <2>0. /\ n \in Nat /\ DOMAIN failure_ledger = 1 .. n
        /\ \A i \in 1 .. n : failure_ledger[i] \in LedgerEntry
    BY <1>1
  <2>1. Record(code) = [i \in 1 .. n |-> e(i)]
    <3>1. Record(code) = [i \in DOMAIN failure_ledger |-> e(i)]
      BY <1>2 DEF Record
    <3> HIDE DEF e, n
    <3> QED BY <2>0, <3>1
  <2>2. \A i \in 1 .. n : e(i) \in LedgerEntry /\ e(i).code = failure_ledger[i].code
    <3> SUFFICES ASSUME NEW i \in 1 .. n PROVE e(i) \in LedgerEntry /\ e(i).code = failure_ledger[i].code
      OBVIOUS
    <3>1. failure_ledger[i] \in LedgerEntry
      BY <2>0
    <3> QED BY <1>1, <3>1 DEF LedgerEntry
  <2> HIDE DEF e, n
  <2>3. [i \in 1 .. n |-> e(i)] \in Seq(LedgerEntry)
    BY <2>0, <2>2, IsASeq
  <2> QED BY <1>1, <2>0, <2>1, <2>2, <2>3 DEF IsLedger
<1>3. CASE ~(\E i \in DOMAIN failure_ledger : failure_ledger[i].code = code)
  <2> DEFINE new == [code |-> code, count |-> 1, last |-> cycle]
             n == Len(failure_ledger)
  <2>1. new \in LedgerEntry /\ new.code = code
    BY <1>1 DEF LedgerEntry
  <2>2. Record(code) = Append(failure_ledger, new)
    BY <1>3 DEF Record
  <2> HIDE DEF new
  <2>3. /\ Append(failure_ledger, new) \in Seq(LedgerEntry) /\ n \in Nat
        /\ DOMAIN failure_ledger = 1 .. n /\ DOMAIN Append(failure_ledger, new) = 1 .. (n + 1)
        /\ \A i \in 1 .. n : Append(failure_ledger, new)[i] = failure_ledger[i]
        /\ Append(failure_ledger, new)[n + 1] = new
    BY <1>1, <2>1
  <2> HIDE DEF n
  <2>4. \A i, j \in 1 .. (n + 1) :
           Append(failure_ledger, new)[i].code = Append(failure_ledger, new)[j].code => i = j
    <3>1. \A i \in 1 .. (n + 1) : i \in 1 .. n \/ i = n + 1
      BY <2>3
    <3> QED BY <1>1, <1>3, <2>1, <2>3, <3>1 DEF IsLedger
  <2> QED BY <2>2, <2>3, <2>4 DEF IsLedger
<1> QED BY <1>2, <1>3

LEMMA MorningKeepsLineage ==
  ASSUME ProposalsInv
  PROVE  IsLineage(SubSeq(<<cycle>> \o lineage, 1, IF Len(lineage) < MaxLineage THEN Len(lineage) + 1 ELSE MaxLineage),
                   cycle + 1)
<1> DEFINE n == Len(lineage)
           all == <<cycle>> \o lineage
           m == IF n < MaxLineage THEN n + 1 ELSE MaxLineage
           kept == SubSeq(all, 1, m)
<1>1. /\ cycle \in Nat \ {0} /\ lineage \in Seq(1 .. cycle - 1) /\ n \in Nat /\ DOMAIN lineage = 1 .. n
      /\ \A i, j \in 1 .. n : i < j => lineage[i] > lineage[j]
  BY DEF ProposalsInv, IsLineage
<1>2. <<cycle>> \in Seq(1 .. cycle) /\ lineage \in Seq(1 .. cycle) /\ Len(<<cycle>>) = 1 /\ <<cycle>>[1] = cycle
  <2>1. 1 .. cycle - 1 \subseteq 1 .. cycle
    BY <1>1
  <2> QED BY <1>1, <2>1, SeqMonotonic
<1>3. /\ all \in Seq(1 .. cycle) /\ Len(all) = n + 1 /\ all[1] = cycle
      /\ \A i \in 2 .. n + 1 : all[i] = lineage[i - 1]
  BY <1>1, <1>2, ConcatProperties
<1>0. \A i \in 1 .. n + 1 : all[i] \in 1 .. cycle
  <2>1. DOMAIN all = 1 .. n + 1
    BY <1>1, <1>3
  <2> DEFINE S == 1 .. cycle
  <2>2. all \in Seq(S)
    BY <1>3
  <2> HIDE DEF all, n, S
  <2>3. \A i \in 1 .. n + 1 : all[i] \in S
    <3>1. \A i \in 1 .. n + 1 : i \in 1 .. Len(all)
      BY <1>3
    <3> QED BY <2>2, <3>1, ElementOfSeq
  <2> QED BY <2>3 DEF S
<1>4. \A i, j \in 1 .. n + 1 : i < j => all[i] > all[j]
  <2> SUFFICES ASSUME NEW i \in 1 .. n + 1, NEW j \in 1 .. n + 1, i < j PROVE all[i] > all[j]
    OBVIOUS
  <2>1. j - 1 \in 1 .. n /\ all[j] = lineage[j - 1] /\ lineage[j - 1] \in 1 .. cycle - 1
    BY <1>1, <1>3
  <2>2. CASE i = 1
    BY <1>1, <1>3, <2>1, <2>2
  <2>3. CASE i # 1
    <3>1. i - 1 \in 1 .. n /\ all[i] = lineage[i - 1] /\ i - 1 < j - 1
      BY <1>1, <1>3, <2>3
    <3> QED BY <1>1, <2>1, <3>1
  <2> QED BY <2>2, <2>3
<1> HIDE DEF all
<1>5. m \in 1 .. n + 1
  BY <1>1 DEF MaxLineage
<1> HIDE DEF m, n
<1>6. /\ kept \in Seq(1 .. cycle) /\ DOMAIN kept = 1 .. m
      /\ \A i \in 1 .. m : kept[i] = all[i]
  <2>1. /\ 1 \in Int /\ m \in Int /\ m >= 1
        /\ \A i \in 1 .. m : i \in 1 .. n + 1 /\ all[i] \in 1 .. cycle
    BY <1>0, <1>1, <1>5
  <2>2. kept \in Seq(1 .. cycle) /\ Len(kept) = m
    BY <2>1, SubSeqProperties
  <2>3. \A i \in 1 .. m : kept[i] = all[1 + i - 1]
    BY <2>1, SubSeqProperties
  <2>4. \A i \in 1 .. m : 1 + i - 1 = i
    BY <2>1
  <2> HIDE DEF kept
  <2> QED BY <2>2, <2>3, <2>4
<1>7. \A i, j \in 1 .. m : i \in 1 .. n + 1 /\ j \in 1 .. n + 1
  BY <1>1, <1>5
<1>8. 1 .. (cycle + 1) - 1 = 1 .. cycle
  BY <1>1
<1> HIDE DEF kept
<1>9. IsLineage(kept, cycle + 1)
  <2>1. kept \in Seq(1 .. (cycle + 1) - 1)
    BY <1>6, <1>8
  <2>2. \A i, j \in DOMAIN kept : i < j => kept[i] > kept[j]
    BY <1>4, <1>6, <1>7
  <2> QED BY ONLY <2>1, <2>2 DEF IsLineage
<1> QED BY <1>9 DEF kept, all, m, n

LEMMA NightKeepsLineage ==
  ASSUME ProposalsInv, NEW now \in {cycle, cycle + 1}
  PROVE  IsLineage(lineage, now)
<1>1. cycle \in Nat /\ IsLineage(lineage, cycle)
  BY DEF ProposalsInv
<1>2. 1 .. cycle - 1 \subseteq 1 .. now - 1
  BY <1>1
<1> QED BY <1>1, <1>2, SeqMonotonic DEF IsLineage

-----------------------------------------------------------------------------
(* What the prompt says                                                      *)

LEMMA PromptHolds == ProposalsSpec => []ProposalsInv
<1>1. ProposalsInit => ProposalsInv
  <2> SUFFICES ASSUME ProposalsInit PROVE ProposalsInv
    OBVIOUS
  <2>1. cycle = 1 /\ stage = "profile" /\ failure_ledger = <<>> /\ lineage = <<>>
    BY DEF ProposalsInit
  <2>2. IsLedger(failure_ledger) /\ IsLineage(lineage, cycle)
    BY <2>1 DEF IsLedger, IsLineage
  <2> QED BY <2>1, <2>2 DEF ProposalsInv
<1>2. ProposalsInv /\ [ProposalsNext]_proposals_vars => ProposalsInv'
  <2> SUFFICES ASSUME ProposalsInv, [ProposalsNext]_proposals_vars PROVE ProposalsInv'
    OBVIOUS
  <2>1. cycle \in Nat \ {0} /\ IsLedger(failure_ledger) /\ IsLineage(lineage, cycle)
    BY DEF ProposalsInv
  <2>2. CASE UNCHANGED proposals_vars
    <3>1. /\ cycle' = cycle /\ stage' = stage /\ failure_ledger' = failure_ledger /\ lineage' = lineage
          /\ prompt' = prompt
      BY <2>2 DEF proposals_vars
    <3>2. ConstitutionLayer' = ConstitutionLayer
      BY <3>1 DEF ConstitutionLayer, Critical, Passing, Fresher, Age, Ages, Recent
    <3> QED BY <3>1, <3>2 DEF ProposalsInv
  <2>3. CASE SeedFailureLedger
    <3> DEFINE seeds(codes) ==
                 [i \in 1 .. Cardinality(codes) |-> [code |-> Listing(codes)[i], count |-> 0, last |-> SeedCycle]]
               missing == Codes \ {failure_ledger[i].code : i \in DOMAIN failure_ledger}
    <3>1. /\ stage' = "profile" /\ cycle' = cycle /\ lineage' = lineage
          /\ failure_ledger' = failure_ledger \o seeds(missing) \/ failure_ledger' = seeds(Codes)
      BY <2>3 DEF SeedFailureLedger
    <3>2. IsLedger(seeds(Codes))
      BY SeedsAreLedger
    <3>3. missing \in SUBSET Codes
      OBVIOUS
    <3>4. IsLedger(seeds(missing)) /\ \A i \in DOMAIN seeds(missing) : seeds(missing)[i].code \in missing
      <4> HIDE DEF missing
      <4> QED BY <3>3, SeedsAreLedger
    <3> HIDE DEF seeds
    <3>5. \A i \in DOMAIN failure_ledger, j \in DOMAIN seeds(missing) :
            failure_ledger[i].code # seeds(missing)[j].code
      BY <3>4
    <3> HIDE DEF missing
    <3>6. IsLedger(failure_ledger \o seeds(missing))
      BY <2>1, <3>4, <3>5, LedgersJoin
    <3>7. IsLedger(failure_ledger')
      BY <3>1, <3>2, <3>6
    <3> QED BY <2>1, <3>1, <3>7 DEF ProposalsInv
  <2>4. CASE WorldChanges
    BY <2>1, <2>4 DEF WorldChanges, ProposalsInv
  <2>5. CASE CaptureProfile
    BY <2>1, <2>5 DEF CaptureProfile, ProposalsInv
  <2>6. CASE RenderPrompt
    <3>1. cycle' = cycle /\ failure_ledger' = failure_ledger /\ lineage' = lineage
      BY <2>6 DEF RenderPrompt
    <3>2. PICK observed \in Observations :
            prompt' = [constraints |-> ConstitutionLayer, observed |-> observed, seeds |-> FocusSeeds(observed)]
      BY <2>6 DEF RenderPrompt
    <3>3. prompt'.constraints = ConstitutionLayer /\ prompt'.observed = observed
          /\ prompt'.seeds = FocusSeeds(observed)
      BY <3>2
    <3>4. ConstitutionLayer' = ConstitutionLayer
      BY <3>1 DEF ConstitutionLayer, Critical, Passing, Fresher, Age, Ages, Recent
    <3>5. FocusSeeds(prompt.observed)' = FocusSeeds(observed)
      BY <3>3 DEF FocusSeeds, Graver
    <3> QED BY <2>1, <3>1, <3>3, <3>4, <3>5 DEF ProposalsInv
  <2>7. CASE TakeReply
    BY <2>1, <2>7 DEF TakeReply, ProposalsInv
  <2>8. CASE NightFails
    <3>1. /\ stage' = "profile" /\ failure_ledger' = failure_ledger /\ lineage' = lineage
          /\ cycle' \in {cycle, cycle + 1}
      BY <2>8 DEF NightFails
    <3>2. IsLineage(lineage, cycle')
      BY <3>1, NightKeepsLineage
    <3> QED BY <2>1, <3>1, <3>2 DEF ProposalsInv
  <2>9. CASE TestCandidates
    <3>1. stage' = "morning" /\ cycle' = cycle /\ lineage' = lineage
      BY <2>9 DEF TestCandidates
    <3>2. IsLedger(failure_ledger')
      BY <2>1, <2>9, RecordKeepsLedger DEF TestCandidates
    <3> QED BY <2>1, <3>1, <3>2 DEF ProposalsInv
  <2>10. CASE WriteMorning
    <3>1. /\ stage' = "profile" /\ cycle' = cycle + 1 /\ failure_ledger' = failure_ledger
          /\ lineage' = SubSeq(<<cycle>> \o lineage, 1,
                               IF Len(lineage) < MaxLineage THEN Len(lineage) + 1 ELSE MaxLineage)
      BY <2>10 DEF WriteMorning
    <3>2. IsLineage(lineage', cycle + 1)
      BY <3>1, MorningKeepsLineage
    <3> QED BY <2>1, <3>1, <3>2 DEF ProposalsInv
  <2> QED BY <2>2, <2>3, <2>4, <2>5, <2>6, <2>7, <2>8, <2>9, <2>10 DEF ProposalsNext
<1> QED BY <1>1, <1>2, PTL DEF ProposalsSpec

LEMMA ConstraintsWarn ==
  ASSUME ProposalsInv, NEW i \in DOMAIN failure_ledger, failure_ledger[i] \notin ConstitutionLayer
  PROVE  /\ Severity(failure_ledger[i]) # "CRITICAL"
         /\ failure_ledger[i].last \in {lineage[k] : k \in 1 .. (IF Len(lineage) < Window THEN Len(lineage) ELSE Window)} =>
              /\ Cardinality(ConstitutionLayer) >= MaxConstraints
              /\ \A p \in ConstitutionLayer : Severity(p) = "CRITICAL" \/ p.last >= failure_ledger[i].last
<1> DEFINE c == Cardinality(Critical)
           room == IF c < MaxConstraints THEN MaxConstraints - c ELSE 0
           first == FirstOf(room, Passing, Fresher)
           taken == Critical \cup first
           e == failure_ledger[i]
<1>1. ConstitutionLayer = {failure_ledger[j] : j \in taken}
  BY DEF ConstitutionLayer
<1>2. i \notin taken
  BY <1>1
<1>3. Orders(Fresher, Passing) /\ IsFiniteSet(Passing) /\ IsFiniteSet(Critical)
  BY FresherOrders
<1>4. c \in Nat /\ room \in Nat /\ c + room >= MaxConstraints
  <2>1. c \in Nat /\ MaxConstraints \in Nat
    BY <1>3, FS_CardinalityType, PromptInputs
  <2> HIDE DEF c
  <2> QED BY <2>1
<1>5. Severity(e) # "CRITICAL"
  BY <1>2 DEF Critical
<1>6. ASSUME e.last \in {lineage[k] : k \in 1 .. (IF Len(lineage) < Window THEN Len(lineage) ELSE Window)}
      PROVE  /\ Cardinality(ConstitutionLayer) >= MaxConstraints
             /\ \A p \in ConstitutionLayer : Severity(p) = "CRITICAL" \/ p.last >= e.last
  <2>0. Len(lineage) \in Nat /\ DOMAIN lineage = 1 .. Len(lineage) /\ Window \in Nat
    BY PromptInputs DEF ProposalsInv, IsLineage
  <2>1. i \in Passing
    <3>1. PICK k \in 1 .. (IF Len(lineage) < Window THEN Len(lineage) ELSE Window) : e.last = lineage[k]
      BY <1>6
    <3>2. k \in DOMAIN lineage /\ k <= Window
      BY <2>0
    <3> QED BY <1>5, <3>1, <3>2 DEF Passing, Critical, Recent, Ages
  <2>2. i \notin first
    BY <1>2
  <2> HIDE DEF room
  <2>3. Cardinality(first) = room
    BY <1>3, <1>4, <2>1, <2>2, FirstAreMany
  <2>4. first \subseteq Passing
    BY DEF FirstOf
  <2>5. Cardinality(taken) = c + room /\ IsFiniteSet(taken)
    <3>1. Critical \cap first = {}
      BY <2>4 DEF Passing
    <3>2. IsFiniteSet(first)
      BY <1>3, <2>4, FS_Subset
    <3> HIDE DEF first, c
    <3>3. Cardinality(taken) = Cardinality(Critical) + Cardinality(first) - Cardinality(Critical \cap first)
          /\ IsFiniteSet(taken)
      BY <1>3, <3>2, FS_Union
    <3>4. Cardinality(Critical \cap first) = 0
      BY <3>1, FS_EmptySet
    <3> QED BY <1>4, <2>3, <3>3, <3>4 DEF c
  <2>6. taken \subseteq DOMAIN failure_ledger
    BY <2>4 DEF Critical, Passing
  <2>7. Cardinality(taken) <= Cardinality(ConstitutionLayer) /\ IsFiniteSet(ConstitutionLayer)
    <3> DEFINE told == [j \in taken |-> failure_ledger[j]]
    <3> HIDE DEF taken
    <3>1. told \in [taken -> ConstitutionLayer] /\ \A p \in ConstitutionLayer : \E j \in taken : told[j] = p
      BY <1>1
    <3>2. \A j, k \in taken : told[j] = told[k] => j = k
      BY <2>6 DEF ProposalsInv, IsLedger
    <3>3. told \in Injection(taken, ConstitutionLayer) /\ told \in Surjection(taken, ConstitutionLayer)
      BY <3>1, <3>2 DEF Injection, Surjection, IsInjective
    <3> HIDE DEF told
    <3>4. IsFiniteSet(ConstitutionLayer)
      BY <2>5, <3>3, FS_Surjection
    <3> QED BY <2>5, <3>3, <3>4, FS_Injection
  <2>8. Cardinality(ConstitutionLayer) >= MaxConstraints
    <3>1. Cardinality(taken) >= MaxConstraints /\ Cardinality(taken) \in Int
      BY <1>4, <2>5
    <3>2. Cardinality(ConstitutionLayer) \in Int
      BY <2>7, FS_CardinalityType
    <3> HIDE DEF taken
    <3> QED BY <2>7, <3>1, <3>2, PromptInputs
  <2>9. ASSUME NEW p \in ConstitutionLayer, Severity(p) # "CRITICAL"
        PROVE  p.last >= e.last
    <3>1. PICK j \in taken : p = failure_ledger[j]
      BY <1>1
    <3>2. j \in first
      BY <2>9, <3>1 DEF Critical
    <3>3. j \in Passing /\ <<i, j>> \notin Fresher
      BY <1>3, <1>4, <2>1, <2>2, <3>2, FirstComeFirst
    <3>4. ~(Age(failure_ledger[i]) < Age(failure_ledger[j]))
      BY <2>1, <3>3 DEF Fresher
    <3> DEFINE a == Age(failure_ledger[i])
               b == Age(failure_ledger[j])
    <3>5. /\ a \in DOMAIN lineage /\ lineage[a] = e.last
          /\ b \in DOMAIN lineage /\ lineage[b] = p.last
      BY <2>1, <3>1, <3>3, AgesOfLineage
    <3> HIDE DEF a, b
    <3>6. a \in Int /\ b \in Int /\ b <= a
      BY <2>0, <3>4, <3>5 DEF a, b
    <3>7. lineage[a] \in Int /\ lineage[b] \in Int /\ (b < a => lineage[b] > lineage[a])
      BY <3>5, <3>6 DEF ProposalsInv, IsLineage
    <3> QED BY <3>5, <3>6, <3>7
  <2> QED BY <2>8, <2>9
<1> QED BY <1>5, <1>6

LEMMA SeedsAreGravest ==
  ASSUME NEW observed \in Seq(ObservedEntry), NEW i \in (DOMAIN observed) \ FocusSeeds(observed)
  PROVE  /\ Cardinality(FocusSeeds(observed)) = MaxSeeds
         /\ \A k \in FocusSeeds(observed) : Impact(observed[k]) >= Impact(observed[i])
<1>1. Orders(Graver(observed), DOMAIN observed) /\ IsFiniteSet(DOMAIN observed)
  BY GraverOrders
<1>2. MaxSeeds \in Nat
  BY PromptInputs
<1>3. Cardinality(FocusSeeds(observed)) = MaxSeeds
  BY <1>1, <1>2, FirstAreMany DEF FocusSeeds
<1>4. ASSUME NEW k \in FocusSeeds(observed)
      PROVE  Impact(observed[k]) >= Impact(observed[i])
  <2>1. k \in DOMAIN observed /\ <<i, k>> \notin Graver(observed)
    BY <1>1, <1>2, FirstComeFirst DEF FocusSeeds
  <2>2. ~(Impact(observed[i]) > Impact(observed[k]))
    BY <2>1 DEF Graver
  <2>3. Impact(observed[i]) \in Int /\ Impact(observed[k]) \in Int
    BY DEF Impact
  <2> QED BY <2>2, <2>3
<1> QED BY <1>3, <1>4

\* The prompt of every night warns of what is grave, whatever nights failed, for every
\* failure ledger and any observations.
THEOREM PromptsWarn == ProposalsSpec => []PromptWarns
<1>1. ProposalsInv => PromptWarns
  <2> SUFFICES ASSUME ProposalsInv, stage = "reply" PROVE PromptWarns
    BY DEF PromptWarns
  <2>1. /\ prompt.constraints = ConstitutionLayer
        /\ prompt.observed \in Observations /\ prompt.seeds = FocusSeeds(prompt.observed)
    BY DEF ProposalsInv
  <2>2. prompt.observed \in Seq(ObservedEntry)
    BY <2>1, PromptInputs DEF ObservedEntry
  <2>3. \A i \in (DOMAIN prompt.observed) \ prompt.seeds :
            /\ Cardinality(prompt.seeds) = MaxSeeds
            /\ \A k \in prompt.seeds : Impact(prompt.observed[k]) >= Impact(prompt.observed[i])
    BY <2>1, <2>2, SeedsAreGravest
  <2>4. ASSUME NEW i \in DOMAIN failure_ledger, failure_ledger[i] \notin prompt.constraints
        PROVE  /\ Severity(failure_ledger[i]) # "CRITICAL"
               /\ failure_ledger[i].last
                    \in {lineage[k] : k \in 1 .. (IF Len(lineage) < Window THEN Len(lineage) ELSE Window)} =>
                    /\ Cardinality(prompt.constraints) >= MaxConstraints
                    /\ \A p \in prompt.constraints : Severity(p) = "CRITICAL" \/ p.last >= failure_ledger[i].last
    BY <2>1, <2>4, ConstraintsWarn
  <2> QED BY <2>3, <2>4 DEF PromptWarns
<1> QED BY <1>1, PromptHolds, PTL

(***************************************************************************)
(* The memory of promoted patches                                          *)
(***************************************************************************)

-----------------------------------------------------------------------------
(* Totals of what is put together                                            *)

\* Of two sets that have nothing in common.
LEMMA SumOfUnion ==
  ASSUME NEW R, IsFiniteSet(R), NEW S, IsFiniteSet(S), R \cap S = {},
         NEW value, \A x \in R \cup S : value[x] \in Int
  PROVE  SumOf(value, R \cup S) = SumOf(value, R) + SumOf(value, S)
<1> DEFINE F == {Q \in SUBSET S : SumOf(value, R \cup Q) = SumOf(value, R) + SumOf(value, Q)}
<1>0. SumOf(value, R) \in Int
  BY SumType
<1>1. {} \in F
  <2>1. R \cup {} = R
    OBVIOUS
  <2> QED BY <1>0, <2>1, SumOfNothing
<1>2. ASSUME NEW Q \in SUBSET S, Q # {}, \A x \in Q : Q \ {x} \in F
      PROVE  Q \in F
  <2>1. PICK x \in Q : TRUE
    BY <1>2
  <2> DEFINE L == Q \ {x}
  <2>2. IsFiniteSet(L) /\ IsFiniteSet(Q) /\ IsFiniteSet(R \cup L) /\ x \notin R \cup L /\ x \notin L
    BY <2>1, FS_Subset, FS_Union
  <2>3. R \cup Q = (R \cup L) \cup {x} /\ Q = L \cup {x}
    BY <2>1
  <2>4. (\A y \in (R \cup L) \cup {x} : value[y] \in Int) /\ (\A y \in L \cup {x} : value[y] \in Int) /\ value[x] \in Int
    BY <2>1
  <2>5. SumOf(value, R \cup L) = SumOf(value, R) + SumOf(value, L)
    BY <1>2, <2>1
  <2> HIDE DEF L
  <2>6. SumOf(value, R \cup Q) = SumOf(value, R \cup L) + value[x]
    BY <2>2, <2>3, <2>4, SumAdds
  <2>7. SumOf(value, Q) = SumOf(value, L) + value[x] /\ SumOf(value, L) \in Int
    BY <2>2, <2>3, <2>4, SumAdds, SumType
  <2> QED BY <1>0, <2>4, <2>5, <2>6, <2>7
<1> HIDE DEF F
<1>3. S \in F
  BY <1>1, <1>2, PartsBySize
<1> QED BY <1>3 DEF F

\* The elements of S that f maps to k, and into K.
MappedTo(S, f, k) == {x \in S : f[x] = k}
MappedInto(S, f, K) == {x \in S : f[x] \in K}

\* Nothing is lost by counting parts: the elements of S, by what f maps them to.
LEMMA SumOfParts ==
  ASSUME NEW S, IsFiniteSet(S), NEW f, NEW K, IsFiniteSet(K),
         NEW value, \A k \in K : value[k] = Cardinality(MappedTo(S, f, k))
  PROVE  SumOf(value, K) = Cardinality(MappedInto(S, f, K))
<1> USE DEF MappedTo, MappedInto
<1> DEFINE Part(Q) == {x \in S : f[x] \in Q}
           F == {Q \in SUBSET K : SumOf(value, Q) = Cardinality(Part(Q))}
<1>1. {} \in F
  <2>1. Part({}) = {}
    OBVIOUS
  <2> QED BY <2>1, SumOfNothing, FS_EmptySet
<1>2. ASSUME NEW Q \in SUBSET K, Q # {}, \A k \in Q : Q \ {k} \in F
      PROVE  Q \in F
  <2>1. PICK k \in Q : TRUE
    BY <1>2
  <2> DEFINE L == Q \ {k}
             one == {x \in S : f[x] = k}
  <2>2. Part(Q) = Part(L) \cup one /\ Part(L) \cap one = {}
    BY <2>1
  <2>3. IsFiniteSet(L) /\ k \notin L /\ Q = L \cup {k} /\ IsFiniteSet(Part(L)) /\ IsFiniteSet(one)
    BY <2>1, FS_Subset
  <2>4. \A y \in K : value[y] \in Int
    <3> SUFFICES ASSUME NEW y \in K PROVE value[y] \in Int
      OBVIOUS
    <3> DEFINE P == {x \in S : f[x] = y}
    <3>1. IsFiniteSet(P) /\ value[y] = Cardinality(P)
      BY FS_Subset
    <3> HIDE DEF P
    <3>2. Cardinality(P) \in Nat
      BY <3>1, FS_CardinalityType
    <3> QED BY <3>1, <3>2
  <2>5. SumOf(value, L) = Cardinality(Part(L)) /\ value[k] = Cardinality(one)
    BY <1>2, <2>1
  <2> HIDE DEF L, one, Part
  <2>6. Cardinality(Part(Q)) = Cardinality(Part(L)) + Cardinality(one)
    <3>1. Cardinality(Part(L) \cap one) = 0
      <4>1. Cardinality({}) = 0
        BY FS_EmptySet
      <4> QED BY <2>2, <4>1
    <3>2. Cardinality(Part(L) \cup one) = Cardinality(Part(L)) + Cardinality(one) - Cardinality(Part(L) \cap one)
      BY <2>3, FS_Union
    <3>3. Cardinality(Part(L)) \in Nat /\ Cardinality(one) \in Nat
      BY <2>3, FS_CardinalityType
    <3>4. Cardinality(Part(Q)) = Cardinality(Part(L) \cup one)
      BY <2>2
    <3> QED BY <3>1, <3>2, <3>3, <3>4
  <2>7. \A y \in L \cup {k} : value[y] \in Int
    BY <2>3, <2>4
  <2>8. SumOf(value, Q) = SumOf(value, L) + value[k]
    BY <2>3, <2>7, SumAdds
  <2> QED BY <2>5, <2>6, <2>8
<1> HIDE DEF F
<1>3. K \in F
  BY <1>1, <1>2, PartsBySize
<1> QED BY <1>3 DEF F

-----------------------------------------------------------------------------
(* The first entries of a log                                                *)

\* Those of a key, and of these those of an environment.
OfKey(log, n, key) == {i \in 1 .. n : log[i].key = key}
OfBucket(log, n, key, state) == {i \in OfKey(log, n, key) : log[i].env = state}

Scores(log, places) == SumOf([i \in places |-> log[i].hint], places)

\* Two of them are of different nights.
OnTwoDays(log, n, key) == \E i, j \in OfKey(log, n, key) : log[i].day # log[j].day

\* At most, and just, what the first n entries hold.
ReuseBacked(stats, log, n) ==
    \A key \in DOMAIN stats :
        LET m == Cardinality(OfKey(log, n, key))
        IN  stats[key] \in Nat \ {0} /\ 2 * stats[key] <= m * (m - 1)

ReuseExact(stats, log, n) == \A key : key \in DOMAIN stats <=> OnTwoDays(log, n, key)

BucketBacked(bucket, log, places) == bucket.count <= Cardinality(places) /\ bucket.total <= Scores(log, places)
BucketExact(bucket, log, places) == bucket.count = Cardinality(places) /\ bucket.total = Scores(log, places)

ScoresBacked(scores, log, n) ==
    \A key \in DOMAIN scores : \A i \in DOMAIN scores[key] :
        BucketBacked(scores[key][i], log, OfBucket(log, n, key, scores[key][i].env))

HasBucket(scores, key, state) == key \in DOMAIN scores /\ \E i \in DOMAIN scores[key] : scores[key][i].env = state

ScoresExact(scores, log, n) ==
    /\ \A key \in DOMAIN scores : \A i \in DOMAIN scores[key] :
          BucketExact(scores[key][i], log, OfBucket(log, n, key, scores[key][i].env))
    /\ \A i \in 1 .. n : log[i].env # NoEnvironment => HasBucket(scores, log[i].key, log[i].env)

\* A log of scored entries.
ScoredLog(log) == Len(log) \in Nat /\ DOMAIN log = 1 .. Len(log) /\ \A i \in 1 .. Len(log) : log[i].hint \in Nat

LEMMA PlacesFinite ==
  ASSUME NEW log, NEW n \in Nat, NEW key, NEW state
  PROVE  /\ IsFiniteSet(1 .. n)
         /\ IsFiniteSet(OfKey(log, n, key)) /\ Cardinality(OfKey(log, n, key)) \in Nat
         /\ IsFiniteSet(OfBucket(log, n, key, state)) /\ Cardinality(OfBucket(log, n, key, state)) \in Nat
<1>1. IsFiniteSet(1 .. n)
  <2>1. 1 \in Int /\ n \in Int
    OBVIOUS
  <2> QED BY ONLY <2>1, FS_Interval
<1>2. OfKey(log, n, key) \subseteq 1 .. n /\ OfBucket(log, n, key, state) \subseteq OfKey(log, n, key)
  BY DEF OfKey, OfBucket
<1>3. IsFiniteSet(OfKey(log, n, key))
  BY <1>1, <1>2, FS_Subset
<1>4. IsFiniteSet(OfBucket(log, n, key, state))
  BY <1>2, <1>3, FS_Subset
<1> QED BY <1>1, <1>3, <1>4, FS_CardinalityType

\* Scores of parts of a log.
LEMMA ScoresAdd ==
  ASSUME NEW log, NEW R, IsFiniteSet(R), NEW S, IsFiniteSet(S), R \cap S = {},
         \A i \in R \cup S : log[i].hint \in Nat
  PROVE  /\ Scores(log, R \cup S) = Scores(log, R) + Scores(log, S)
         /\ Scores(log, R) \in Nat /\ Scores(log, S) \in Nat
<1> DEFINE all == [i \in R \cup S |-> log[i].hint]
           none == [i \in R \cup S |-> 0]
<1>0. (\A i \in R \cup S : all[i] \in Int) /\ \A i \in R \cup S : none[i] \in Int /\ none[i] <= all[i]
  OBVIOUS
<1>1. ASSUME NEW Q, Q \subseteq R \cup S, IsFiniteSet(Q)
      PROVE  Scores(log, Q) = SumOf(all, Q) /\ Scores(log, Q) \in Nat
  <2>1. Scores(log, Q) = SumOf(all, Q)
    <3> DEFINE part == [i \in Q |-> log[i].hint]
    <3>1. \A i \in Q : part[i] = all[i]
      BY <1>1
    <3> HIDE DEF part, all
    <3>2. SumOf(part, Q) = SumOf(all, Q)
      BY <1>1, <3>1, SumSame
    <3> QED BY <3>2 DEF Scores, part
  <2> HIDE DEF all, none
  <2>2. SumOf(all, Q) \in Int
    BY <1>0, <1>1, SumType
  <2>3. SumOf(none, Q) <= SumOf(all, Q)
    BY <1>0, <1>1, SumLess
  <2>4. SumOf(none, Q) = 0
    <3> DEFINE F == {P \in SUBSET Q : SumOf(none, P) = 0}
    <3>1. {} \in F
      BY SumOfNothing
    <3>2. ASSUME NEW P \in SUBSET Q, P # {}, \A x \in P : P \ {x} \in F PROVE P \in F
      <4> DEFINE c == Taken(P)
      <4>1. c \in P /\ IsFiniteSet(P)
        BY <1>1, <3>2, TakenIn, FS_Subset
      <4>2. SumOf(none, P) = none[c] + SumOf(none, P \ {c})
        BY <3>2, <4>1, SumUnfolds
      <4> HIDE DEF c
      <4>3. none[c] = 0 /\ SumOf(none, P \ {c}) = 0
        BY <1>1, <3>2, <4>1 DEF none
      <4> QED BY <4>2, <4>3
    <3> HIDE DEF F
    <3>3. Q \in F
      BY <1>1, <3>1, <3>2, PartsBySize
    <3> QED BY <3>3 DEF F
  <2> QED BY <2>1, <2>2, <2>3, <2>4
<1>2. IsFiniteSet(R \cup S)
  BY FS_Union
<1>3. SumOf(all, R \cup S) = SumOf(all, R) + SumOf(all, S)
  <2> HIDE DEF all
  <2> QED BY <1>0, SumOfUnion
<1> HIDE DEF all, none
<1> QED BY <1>1, <1>2, <1>3

\* What more of the log holds.
LEMMA MoreIsHeld ==
  ASSUME NEW log, ScoredLog(log), NEW n \in Nat, NEW m \in Nat, n <= m, m <= Len(log), NEW key, NEW state
  PROVE  /\ Cardinality(OfKey(log, n, key)) <= Cardinality(OfKey(log, m, key))
         /\ Cardinality(OfBucket(log, n, key, state)) <= Cardinality(OfBucket(log, m, key, state))
         /\ Scores(log, OfBucket(log, n, key, state)) <= Scores(log, OfBucket(log, m, key, state))
<1> DEFINE R == OfBucket(log, n, key, state)
           S == OfBucket(log, m, key, state) \ R
<1>1. /\ OfKey(log, n, key) \subseteq OfKey(log, m, key)
      /\ R \subseteq OfBucket(log, m, key, state)
      /\ \A i \in OfBucket(log, m, key, state) : i \in 1 .. Len(log)
  BY DEF OfKey, OfBucket
<1>2. IsFiniteSet(OfKey(log, m, key)) /\ IsFiniteSet(OfBucket(log, m, key, state)) /\ IsFiniteSet(R) /\ IsFiniteSet(S)
  BY PlacesFinite, FS_Subset
<1>3. Cardinality(OfKey(log, n, key)) <= Cardinality(OfKey(log, m, key))
  BY <1>1, <1>2, FS_Subset
<1>4. Cardinality(R) <= Cardinality(OfBucket(log, m, key, state))
  BY <1>1, <1>2, FS_Subset
<1>5. R \cup S = OfBucket(log, m, key, state) /\ R \cap S = {}
  BY <1>1
<1>6. \A i \in R \cup S : log[i].hint \in Nat
  BY <1>1, <1>5 DEF ScoredLog
<1> HIDE DEF R, S
<1>7. /\ Scores(log, R \cup S) = Scores(log, R) + Scores(log, S)
      /\ Scores(log, R) \in Nat /\ Scores(log, S) \in Nat
  BY <1>2, <1>5, <1>6, ScoresAdd
<1>8. Scores(log, OfBucket(log, m, key, state)) = Scores(log, R) + Scores(log, S)
  BY <1>5, <1>7
<1>9. Scores(log, R) <= Scores(log, OfBucket(log, m, key, state))
  BY <1>7, <1>8
<1> QED BY <1>3, <1>4, <1>9 DEF R

LEMMA ScoresAreNat ==
  ASSUME NEW log, ScoredLog(log), NEW n \in Nat, n <= Len(log), NEW places, places \subseteq 1 .. n
  PROVE  IsFiniteSet(places) /\ Cardinality(places) \in Nat /\ Scores(log, places) \in Nat
<1>1. IsFiniteSet(places)
  BY PlacesFinite, FS_Subset
<1>2. IsFiniteSet({}) /\ places \cap {} = {} /\ \A i \in places \cup {} : log[i].hint \in Nat
  BY FS_EmptySet DEF ScoredLog
<1> QED BY <1>1, <1>2, FS_CardinalityType, ScoresAdd

LEMMA PairsGrow ==
  ASSUME NEW a \in Nat, NEW b \in Nat, a <= b
  PROVE  a * (a - 1) \in Nat /\ a * (a - 1) <= b * (b - 1)
<1>1. PICK d \in Nat : b = a + d
  <2>1. b - a \in Nat /\ b = a + (b - a)
    OBVIOUS
  <2> QED BY <2>1
<1>2. \A x \in Nat : x * (x - 1) \in Nat
  <2> SUFFICES ASSUME NEW x \in Nat PROVE x * (x - 1) \in Nat
    OBVIOUS
  <2>1. CASE x = 0
    BY <2>1
  <2>2. CASE x # 0
    <3>1. x - 1 \in Nat
      BY <2>2
    <3>2. \A y, z \in Nat : y * z \in Nat
      OBVIOUS
    <3> QED BY <3>1, <3>2
  <2> QED BY <2>1, <2>2
<1>3. b * (b - 1) = a * (a - 1) + 2 * (a * d) + d * (d - 1)
  BY <1>1
<1>4. a * d \in Nat
  OBVIOUS
<1> QED BY <1>2, <1>3, <1>4

LEMMA ReuseGrows ==
  ASSUME NEW log, ScoredLog(log), NEW n \in Nat, NEW m \in Nat, n <= m, m <= Len(log),
         NEW stats, ReuseBacked(stats, log, n)
  PROVE  ReuseBacked(stats, log, m)
<1> SUFFICES ASSUME NEW key \in DOMAIN stats
             PROVE  /\ stats[key] \in Nat \ {0}
                    /\ 2 * stats[key] <= Cardinality(OfKey(log, m, key)) * (Cardinality(OfKey(log, m, key)) - 1)
  BY DEF ReuseBacked
<1> DEFINE a == Cardinality(OfKey(log, n, key))
           b == Cardinality(OfKey(log, m, key))
<1>1. a \in Nat /\ b \in Nat /\ a <= b
  BY PlacesFinite, MoreIsHeld
<1>2. stats[key] \in Nat \ {0} /\ 2 * stats[key] <= a * (a - 1)
  BY DEF ReuseBacked
<1> HIDE DEF a, b
<1>3. a * (a - 1) \in Nat /\ a * (a - 1) <= b * (b - 1) /\ b * (b - 1) \in Nat
  BY <1>1, PairsGrow
<1>4. 2 * stats[key] <= b * (b - 1)
  <2> DEFINE p == a * (a - 1)
             q == b * (b - 1)
  <2>1. p \in Nat /\ q \in Nat /\ p <= q /\ 2 * stats[key] <= p
    BY <1>2, <1>3
  <2> HIDE DEF p, q
  <2>2. 2 * stats[key] <= q
    BY <1>2, <2>1
  <2> QED BY <2>2 DEF q
<1> QED BY <1>2, <1>4 DEF b

BucketType == [env : Environments, total : Nat, count : Nat]

ScoresTyped(scores) ==
    /\ IsFiniteSet(DOMAIN scores)
    /\ \A key \in DOMAIN scores : scores[key] \in Seq(BucketType)

LEMMA BucketsTyped ==
  ASSUME NEW scores, ScoresTyped(scores), NEW key \in DOMAIN scores
  PROVE  /\ Len(scores[key]) \in Nat /\ DOMAIN scores[key] = 1 .. Len(scores[key])
         /\ \A i \in DOMAIN scores[key] :
              scores[key][i].env \in Environments /\ scores[key][i].total \in Nat /\ scores[key][i].count \in Nat
<1>1. scores[key] \in Seq(BucketType)
  BY DEF ScoresTyped
<1>2. Len(scores[key]) \in Nat /\ DOMAIN scores[key] = 1 .. Len(scores[key])
  BY <1>1, LenProperties
<1>3. \A i \in 1 .. Len(scores[key]) : scores[key][i] \in BucketType
  BY <1>1, ElementOfSeq
<1> QED BY <1>2, <1>3 DEF BucketType

LEMMA ScoresGrow ==
  ASSUME NEW log, ScoredLog(log), NEW n \in Nat, NEW m \in Nat, n <= m, m <= Len(log),
         NEW scores, ScoresTyped(scores), ScoresBacked(scores, log, n)
  PROVE  ScoresBacked(scores, log, m)
<1> SUFFICES ASSUME NEW key \in DOMAIN scores, NEW i \in DOMAIN scores[key]
             PROVE  BucketBacked(scores[key][i], log, OfBucket(log, m, key, scores[key][i].env))
  BY DEF ScoresBacked
<1> DEFINE state == scores[key][i].env
           R == OfBucket(log, n, key, state)
           S == OfBucket(log, m, key, state)
<1>1. scores[key][i].total \in Nat /\ scores[key][i].count \in Nat
  BY BucketsTyped
<1>2. BucketBacked(scores[key][i], log, R)
  BY DEF ScoresBacked
<1>3. Cardinality(R) <= Cardinality(S) /\ Scores(log, R) <= Scores(log, S)
  BY MoreIsHeld
<1>4. R \subseteq 1 .. n /\ S \subseteq 1 .. m
  BY DEF OfBucket, OfKey
<1>5. Cardinality(R) \in Nat /\ Scores(log, R) \in Nat /\ Cardinality(S) \in Nat /\ Scores(log, S) \in Nat
  <2> HIDE DEF R, S
  <2>1. n <= Len(log)
    BY DEF ScoredLog
  <2> QED BY <1>4, <2>1, ScoresAreNat
<1> HIDE DEF R, S
<1>6. BucketBacked(scores[key][i], log, S)
  BY <1>1, <1>2, <1>3, <1>5 DEF BucketBacked
<1> QED BY <1>6 DEF S

\* What is said of the first n entries depends on them only.
SameStart(log, other, n) == \A i \in 1 .. n : other[i] = log[i]

LEMMA StartDecides ==
  ASSUME NEW log, NEW other, NEW n \in Nat, SameStart(log, other, n), NEW stats, NEW scores
  PROVE  /\ ReuseBacked(stats, log, n) => ReuseBacked(stats, other, n)
         /\ ReuseExact(stats, log, n) => ReuseExact(stats, other, n)
         /\ ScoresBacked(scores, log, n) => ScoresBacked(scores, other, n)
         /\ ScoresExact(scores, log, n) => ScoresExact(scores, other, n)
<1>1. \A key : OfKey(other, n, key) = OfKey(log, n, key)
  BY DEF OfKey, SameStart
<1>2. \A key, state : OfBucket(other, n, key, state) = OfBucket(log, n, key, state)
  <2> SUFFICES ASSUME NEW key, NEW state PROVE OfBucket(other, n, key, state) = OfBucket(log, n, key, state)
    OBVIOUS
  <2>1. \A i \in OfKey(log, n, key) : other[i] = log[i]
    BY DEF OfKey, SameStart
  <2> QED BY <1>1, <2>1 DEF OfBucket
<1>3. \A key, state : Scores(other, OfBucket(log, n, key, state)) = Scores(log, OfBucket(log, n, key, state))
  <2> SUFFICES ASSUME NEW key, NEW state
               PROVE  Scores(other, OfBucket(log, n, key, state)) = Scores(log, OfBucket(log, n, key, state))
    OBVIOUS
  <2> DEFINE places == OfBucket(log, n, key, state)
  <2>1. \A i \in places : other[i] = log[i]
    BY DEF OfKey, OfBucket, SameStart
  <2> HIDE DEF places
  <2>2. [i \in places |-> other[i].hint] = [i \in places |-> log[i].hint]
    BY <2>1
  <2>3. Scores(other, places) = Scores(log, places)
    BY <2>2 DEF Scores
  <2> QED BY <2>3 DEF places
<1>4. ReuseBacked(stats, log, n) => ReuseBacked(stats, other, n)
  BY <1>1 DEF ReuseBacked
<1>5. \A key : OnTwoDays(other, n, key) <=> OnTwoDays(log, n, key)
  BY <1>1 DEF OnTwoDays, OfKey, SameStart
<1>6. ReuseExact(stats, log, n) => ReuseExact(stats, other, n)
  BY <1>5, Zenon DEF ReuseExact
<1>7. ScoresBacked(scores, log, n) => ScoresBacked(scores, other, n)
  BY <1>2, <1>3 DEF ScoresBacked, BucketBacked
<1>8. ScoresExact(scores, log, n) => ScoresExact(scores, other, n)
  BY <1>2, <1>3 DEF ScoresExact, BucketExact, SameStart
<1> QED BY <1>4, <1>6, <1>7, <1>8

-----------------------------------------------------------------------------
(* A night is counted                                                        *)

\* The entries after the first n are of a night: of its keys, environment and day.
NightFollows(log, n, keys, state, today) ==
    /\ ScoredLog(log) /\ n \in Nat /\ n <= Len(log)
    /\ \A i \in (n + 1) .. Len(log) : log[i].key \in keys /\ log[i].env = state /\ log[i].day = today
    /\ \A key \in keys : \E i \in (n + 1) .. Len(log) : log[i].key = key

CountOf(stats, key) == IF key \in DOMAIN stats THEN stats[key] ELSE 0

\* Those of the first entries that are seen count.
Recounted(stats, log, n, keys, seen) ==
    [key \in DOMAIN stats \cup {k \in keys : Cardinality(OfKey(log, n, k) \cap seen) > 0} |->
        CountOf(stats, key) + (IF key \in keys THEN Cardinality(OfKey(log, n, key) \cap seen) ELSE 0)]

LEMMA RecountIsBacked ==
  ASSUME NEW log, NEW n, NEW keys, NEW state, NEW today, NightFollows(log, n, keys, state, today),
         NEW stats, ReuseBacked(stats, log, n), NEW seen
  PROVE  ReuseBacked(Recounted(stats, log, n, keys, seen), log, Len(log))
<1> DEFINE m == Len(log)
           a(key) == Cardinality(OfKey(log, n, key))
           b(key) == Cardinality(OfKey(log, m, key))
           c(key) == Cardinality(OfKey(log, n, key) \cap seen)
           new == Recounted(stats, log, n, keys, seen)
<1>0. n \in Nat /\ m \in Nat /\ n <= m /\ ScoredLog(log)
  BY DEF NightFollows, ScoredLog
<1>1. \A key : a(key) \in Nat /\ b(key) \in Nat /\ a(key) <= b(key) /\ c(key) \in Nat /\ c(key) <= a(key)
  <2> SUFFICES ASSUME NEW key
               PROVE  a(key) \in Nat /\ b(key) \in Nat /\ a(key) <= b(key) /\ c(key) \in Nat /\ c(key) <= a(key)
    OBVIOUS
  <2>1. a(key) \in Nat /\ b(key) \in Nat /\ a(key) <= b(key)
    BY <1>0, PlacesFinite, MoreIsHeld
  <2>2. IsFiniteSet(OfKey(log, n, key)) /\ OfKey(log, n, key) \cap seen \subseteq OfKey(log, n, key)
    BY <1>0, PlacesFinite
  <2>3. c(key) \in Nat /\ c(key) <= a(key)
    BY <2>2, FS_Subset, FS_CardinalityType
  <2> QED BY <2>1, <2>3
<1>2. ASSUME NEW key \in keys PROVE a(key) + 1 <= b(key)
  <2>1. PICK i \in (n + 1) .. m : log[i].key = key
    BY DEF NightFollows
  <2>2. i \in OfKey(log, m, key) /\ i \notin OfKey(log, n, key) /\ OfKey(log, n, key) \subseteq OfKey(log, m, key)
    BY <1>0, <2>1 DEF OfKey
  <2>3. IsFiniteSet(OfKey(log, n, key)) /\ IsFiniteSet(OfKey(log, m, key))
    BY <1>0, PlacesFinite
  <2>4. OfKey(log, n, key) \cup {i} \subseteq OfKey(log, m, key)
    BY <2>2
  <2>5. Cardinality(OfKey(log, n, key) \cup {i}) = Cardinality(OfKey(log, n, key)) + 1
    BY <2>2, <2>3, FS_AddElement
  <2>6. Cardinality(OfKey(log, n, key) \cup {i}) <= Cardinality(OfKey(log, m, key))
    BY <2>3, <2>4, FS_Subset
  <2> QED BY <2>5, <2>6
<1>3. \A key \in DOMAIN stats : stats[key] \in Nat \ {0} /\ 2 * stats[key] <= a(key) * (a(key) - 1)
  BY DEF ReuseBacked
<1>4. /\ DOMAIN new = DOMAIN stats \cup {k \in keys : c(k) > 0}
      /\ \A key \in DOMAIN new : new[key] = CountOf(stats, key) + (IF key \in keys THEN c(key) ELSE 0)
  BY DEF Recounted
<1> HIDE DEF a, b, c, new
<1>5. ASSUME NEW key \in DOMAIN new
      PROVE  new[key] \in Nat \ {0} /\ 2 * new[key] <= b(key) * (b(key) - 1)
  <2> DEFINE x == a(key)
             y == b(key)
             z == c(key)
             old == CountOf(stats, key)
  <2>1. x \in Nat /\ y \in Nat /\ x <= y /\ z \in Nat /\ z <= x
    BY <1>1
  <2>2. x * (x - 1) \in Nat /\ x * (x - 1) <= y * (y - 1) /\ y * (y - 1) \in Nat
    <3> HIDE DEF x, y, z, old
    <3>1. x \in Nat /\ y \in Nat /\ x <= y /\ y <= y
      BY <2>1
    <3> QED BY ONLY <3>1, PairsGrow
  <2>3. old \in Nat /\ 2 * old <= x * (x - 1)
    BY <1>3, <2>2 DEF CountOf
  <2>4. CASE key \in keys
    <3>1. new[key] = old + z /\ x + 1 <= y
      BY <1>2, <1>4, <2>4
    <3>2. old + z # 0
      <4>1. CASE key \in DOMAIN stats
        <5>1. old \in Nat \ {0}
          BY <1>3, <4>1 DEF CountOf
        <5> HIDE DEF old, x, z
        <5> QED BY <2>1, <5>1
      <4>2. CASE key \notin DOMAIN stats
        <5>1. z > 0
          BY <1>4, <4>2
        <5> HIDE DEF old, x, z
        <5> QED BY <2>1, <2>3, <5>1
      <4> QED BY <4>1, <4>2
    <3> HIDE DEF x, y, z, old
    <3>3. (x + 1) * ((x + 1) - 1) <= y * (y - 1)
      BY <2>1, <3>1, PairsGrow
    <3>4. (x + 1) * ((x + 1) - 1) = x * (x - 1) + 2 * x
      BY <2>1
    <3>5. new[key] \in Nat \ {0}
      BY <2>1, <2>3, <3>1, <3>2
    <3> DEFINE p == x * (x - 1)
               q == y * (y - 1)
    <3>6. p + 2 * x <= q /\ p \in Nat /\ q \in Nat /\ 2 * old <= p
      BY <2>2, <2>3, <3>3, <3>4
    <3> HIDE DEF p, q
    <3>7. 2 * new[key] <= q
      BY <2>1, <2>3, <3>1, <3>6
    <3> QED BY <3>5, <3>7 DEF q, y
  <2>5. CASE key \notin keys
    <3>1. key \in DOMAIN stats /\ new[key] = old + 0 /\ old = stats[key]
      BY <1>4, <2>5 DEF CountOf
    <3>2. old \in Nat \ {0}
      BY <1>3, <3>1
    <3> HIDE DEF x, y, z, old
    <3> DEFINE p == x * (x - 1)
               q == y * (y - 1)
    <3>3. p <= q /\ p \in Nat /\ q \in Nat /\ 2 * old <= p
      BY <2>2, <2>3
    <3> HIDE DEF p, q
    <3>4. 2 * new[key] <= q /\ new[key] \in Nat \ {0}
      BY <3>1, <3>2, <3>3
    <3> QED BY <3>4 DEF q, y
  <2> QED BY <2>4, <2>5
<1> QED BY <1>5 DEF ReuseBacked, new, b

LEMMA RecountIsExact ==
  ASSUME NEW log, NEW n, NEW keys, NEW state, NEW today \in Int, NightFollows(log, n, keys, state, today),
         \A i \in 1 .. n : log[i].day \in Int /\ log[i].day < today,
         NEW stats, ReuseExact(stats, log, n), NEW seen, 1 .. n \subseteq seen
  PROVE  ReuseExact(Recounted(stats, log, n, keys, seen), log, Len(log))
<1> DEFINE m == Len(log)
           new == Recounted(stats, log, n, keys, seen)
<1>0. n \in Nat /\ m \in Nat /\ n <= m
  BY DEF NightFollows, ScoredLog
<1>1. \A key : key \in DOMAIN new <=> key \in DOMAIN stats \/ (key \in keys /\ OfKey(log, n, key) # {})
  <2>1. \A key : Cardinality(OfKey(log, n, key)) > 0 <=> OfKey(log, n, key) # {}
    <3> SUFFICES ASSUME NEW key PROVE Cardinality(OfKey(log, n, key)) > 0 <=> OfKey(log, n, key) # {}
      OBVIOUS
    <3>1. IsFiniteSet(OfKey(log, n, key)) /\ Cardinality(OfKey(log, n, key)) \in Nat
      BY <1>0, PlacesFinite
    <3>2. Cardinality(OfKey(log, n, key)) = 0 <=> OfKey(log, n, key) = {}
      BY <3>1, FS_EmptySet
    <3> QED BY <3>1, <3>2
  <2>2. DOMAIN new = DOMAIN stats \cup {k \in keys : Cardinality(OfKey(log, n, k)) > 0}
    <3>1. DOMAIN new = DOMAIN stats \cup {k \in keys : Cardinality(OfKey(log, n, k) \cap seen) > 0}
      BY DEF Recounted
    <3>2. \A k : OfKey(log, n, k) \cap seen = OfKey(log, n, k)
      BY DEF OfKey
    <3> HIDE DEF new
    <3> QED BY <3>1, <3>2
  <2> HIDE DEF new
  <2> QED BY <2>1, <2>2
<1> HIDE DEF new
<1>2. \A key : \A i \in OfKey(log, n, key) : i \in OfKey(log, m, key)
  BY <1>0 DEF OfKey
<1>3. ASSUME NEW key, key \in DOMAIN new PROVE OnTwoDays(log, m, key)
  <2>1. CASE key \in DOMAIN stats
    <3>1. OnTwoDays(log, n, key)
      BY <2>1 DEF ReuseExact
    <3> QED BY <1>2, <3>1 DEF OnTwoDays
  <2>2. CASE key \in keys /\ OfKey(log, n, key) # {}
    <3>1. PICK i \in OfKey(log, n, key) : TRUE
      BY <2>2
    <3>2. PICK j \in (n + 1) .. m : log[j].key = key
      BY <2>2 DEF NightFollows
    <3>3. j \in OfKey(log, m, key) /\ log[j].day = today
      BY <1>0, <3>2 DEF OfKey, NightFollows
    <3>4. log[i].day < today /\ log[i].day \in Int
      BY <3>1 DEF OfKey
    <3>5. log[i].day # log[j].day
      BY <3>3, <3>4
    <3> QED BY <1>2, <3>1, <3>3, <3>5 DEF OnTwoDays
  <2> QED BY <1>1, <1>3, <2>1, <2>2
<1>4. ASSUME NEW key, OnTwoDays(log, m, key) PROVE key \in DOMAIN new
  <2>1. PICK i \in OfKey(log, m, key), j \in OfKey(log, m, key) : log[i].day # log[j].day
    BY <1>4 DEF OnTwoDays
  <2>2. \A k \in OfKey(log, m, key) : k \in OfKey(log, n, key) \/ (k \in (n + 1) .. m /\ key \in keys /\ log[k].day = today)
    BY <1>0 DEF OfKey, NightFollows
  <2>3. CASE i \in OfKey(log, n, key) /\ j \in OfKey(log, n, key)
    <3>1. OnTwoDays(log, n, key)
      BY <2>1, <2>3 DEF OnTwoDays
    <3> QED BY <1>1, <3>1 DEF ReuseExact
  <2>4. CASE ~(i \in OfKey(log, n, key) /\ j \in OfKey(log, n, key))
    <3>1. key \in keys /\ OfKey(log, n, key) # {}
      BY <2>1, <2>2, <2>4
    <3> QED BY <1>1, <3>1
  <2> QED BY <2>3, <2>4
<1> QED BY <1>3, <1>4 DEF ReuseExact, new

\* The entries of the night, at these places, into the buckets of their key.
Added(buckets, state, log, places) ==
    IF \E i \in DOMAIN buckets : buckets[i].env = state
    THEN [i \in DOMAIN buckets |->
            IF buckets[i].env = state
            THEN [env |-> state, total |-> buckets[i].total + Scores(log, places),
                  count |-> buckets[i].count + Cardinality(places)]
            ELSE buckets[i]]
    ELSE Append(buckets, [env |-> state, total |-> Scores(log, places), count |-> Cardinality(places)])

OfNight(log, n, key) == {i \in OfKey(log, Len(log), key) : i > n}

BucketsOf(scores, key) == IF key \in DOMAIN scores THEN scores[key] ELSE <<>>

Rescored(scores, log, n, keys, state) ==
    [key \in DOMAIN scores \cup keys |->
        IF key \in keys THEN Added(BucketsOf(scores, key), state, log, OfNight(log, n, key)) ELSE scores[key]]

\* What a bucket holds after the night: what it did, or the night's as well, or only the night's.
Kept(scores, keys, state, key, bucket) ==
    /\ key \in DOMAIN scores /\ (\E i \in DOMAIN scores[key] : scores[key][i] = bucket)
    /\ key \notin keys \/ bucket.env # state

Raised(scores, log, n, keys, state, key, bucket) ==
    /\ key \in keys /\ key \in DOMAIN scores /\ bucket.env = state
    /\ \E i \in DOMAIN scores[key] :
          /\ scores[key][i].env = state
          /\ bucket.count = scores[key][i].count + Cardinality(OfNight(log, n, key))
          /\ bucket.total = scores[key][i].total + Scores(log, OfNight(log, n, key))

Opened(scores, log, n, keys, state, key, bucket) ==
    /\ key \in keys /\ ~HasBucket(scores, key, state) /\ bucket.env = state
    /\ bucket.count = Cardinality(OfNight(log, n, key))
    /\ bucket.total = Scores(log, OfNight(log, n, key))

LEMMA BucketsOfTyped ==
  ASSUME NEW scores, ScoresTyped(scores), NEW key
  PROVE  /\ BucketsOf(scores, key) \in Seq(BucketType)
         /\ Len(BucketsOf(scores, key)) \in Nat
         /\ DOMAIN BucketsOf(scores, key) = 1 .. Len(BucketsOf(scores, key))
         /\ \A i \in DOMAIN BucketsOf(scores, key) : BucketsOf(scores, key)[i] \in BucketType
         /\ key \notin DOMAIN scores => DOMAIN BucketsOf(scores, key) = {}
<1> DEFINE q == BucketsOf(scores, key)
<1>1. q \in Seq(BucketType)
  <2>1. <<>> \in Seq(BucketType)
    BY EmptySeq
  <2> QED BY <2>1 DEF BucketsOf, ScoresTyped
<1>2. key \notin DOMAIN scores => DOMAIN q = {}
  BY DEF BucketsOf
<1> HIDE DEF q
<1>3. Len(q) \in Nat /\ DOMAIN q = 1 .. Len(q) /\ \A i \in 1 .. Len(q) : q[i] \in BucketType
  BY <1>1, LenProperties, ElementOfSeq
<1> QED BY <1>1, <1>2, <1>3 DEF q

LEMMA NightScored ==
  ASSUME NEW log, NEW n, NEW keys, NEW state, NEW today, NightFollows(log, n, keys, state, today), NEW key
  PROVE  /\ IsFiniteSet(OfNight(log, n, key)) /\ Cardinality(OfNight(log, n, key)) \in Nat
         /\ Scores(log, OfNight(log, n, key)) \in Nat
<1>1. OfNight(log, n, key) \subseteq 1 .. Len(log) /\ Len(log) \in Nat /\ ScoredLog(log) /\ Len(log) <= Len(log)
  BY DEF OfNight, OfKey, NightFollows, ScoredLog
<1> QED BY <1>1, ScoresAreNat

\* The buckets of a key after the night.
Grown(q, scores, log, n, keys, state, key) ==
    /\ q \in Seq(BucketType)
    /\ \A i \in DOMAIN q : \/ Kept(scores, keys, state, key, q[i])
                           \/ Raised(scores, log, n, keys, state, key, q[i])
                           \/ Opened(scores, log, n, keys, state, key, q[i])
    /\ \E i \in DOMAIN q : q[i].env = state
    /\ \A i \in DOMAIN BucketsOf(scores, key) : i \in DOMAIN q /\ q[i].env = BucketsOf(scores, key)[i].env

LEMMA AddedBuckets ==
  ASSUME NEW log, NEW n, NEW keys, NEW state \in Environments, NEW today, NightFollows(log, n, keys, state, today),
         NEW scores, ScoresTyped(scores), NEW key \in keys
  PROVE  Grown(Added(BucketsOf(scores, key), state, log, OfNight(log, n, key)), scores, log, n, keys, state, key)
<1> DEFINE old == BucketsOf(scores, key)
           c == Cardinality(OfNight(log, n, key))
           t == Scores(log, OfNight(log, n, key))
           one == [env |-> state, total |-> t, count |-> c]
           more(b) == [env |-> state, total |-> b.total + t, count |-> b.count + c]
           q == Added(old, state, log, OfNight(log, n, key))
<1>1. /\ old \in Seq(BucketType) /\ Len(old) \in Nat /\ DOMAIN old = 1 .. Len(old)
      /\ \A i \in DOMAIN old : old[i] \in BucketType
      /\ key \notin DOMAIN scores => DOMAIN old = {}
      /\ key \in DOMAIN scores => old = scores[key]
  BY BucketsOfTyped DEF BucketsOf
<1>2. c \in Nat /\ t \in Nat
  BY NightScored
<1>3. one \in BucketType /\ \A b \in BucketType : more(b) \in BucketType
  <2> HIDE DEF c, t
  <2> QED BY <1>2 DEF BucketType
<1>4. q = IF \E i \in DOMAIN old : old[i].env = state
          THEN [i \in DOMAIN old |-> IF old[i].env = state THEN more(old[i]) ELSE old[i]]
          ELSE Append(old, one)
  BY DEF Added
<1>5. \A b : more(b).env = state /\ more(b).count = b.count + c /\ more(b).total = b.total + t
  OBVIOUS
<1>6. one.env = state /\ one.count = c /\ one.total = t
  OBVIOUS
<1> HIDE DEF old, more, one, q
<1>7. CASE \E i \in DOMAIN old : old[i].env = state
  <2>1. q = [i \in 1 .. Len(old) |-> IF old[i].env = state THEN more(old[i]) ELSE old[i]]
    BY <1>1, <1>4, <1>7
  <2>2. q \in [1 .. Len(old) -> BucketType]
    BY <1>1, <1>3, <2>1
  <2>3. q \in Seq(BucketType)
    BY <1>1, <2>2, SeqDef
  <2>4. DOMAIN q = DOMAIN old /\ \A i \in DOMAIN old : q[i] = IF old[i].env = state THEN more(old[i]) ELSE old[i]
    BY <1>1, <2>1
  <2>5. key \in DOMAIN scores /\ old = scores[key]
    BY <1>1, <1>7
  <2>6. ASSUME NEW i \in DOMAIN q
        PROVE  Kept(scores, keys, state, key, q[i]) \/ Raised(scores, log, n, keys, state, key, q[i])
    <3>1. CASE old[i].env = state
      <4>1. Raised(scores, log, n, keys, state, key, q[i])
        BY <1>5, <2>4, <2>5, <3>1 DEF Raised
      <4> QED BY <4>1
    <3>2. CASE old[i].env # state
      <4>1. Kept(scores, keys, state, key, q[i])
        BY <2>4, <2>5, <3>2 DEF Kept
      <4> QED BY <4>1
    <3> QED BY <3>1, <3>2
  <2>7. \E i \in DOMAIN q : q[i].env = state
    BY <1>5, <1>7, <2>4
  <2>8. \A i \in DOMAIN old : i \in DOMAIN q /\ q[i].env = old[i].env
    BY <1>5, <2>4
  <2> QED BY <2>3, <2>6, <2>7, <2>8 DEF q, old, Grown
<1>8. CASE ~ \E i \in DOMAIN old : old[i].env = state
  <2>1. q = Append(old, one)
    BY <1>4, <1>8
  <2>2. /\ q \in Seq(BucketType) /\ Len(q) = Len(old) + 1
        /\ \A i \in 1 .. Len(old) : q[i] = old[i]
        /\ q[Len(old) + 1] = one
    BY <1>1, <1>3, <2>1, AppendProperties
  <2>3. DOMAIN q = 1 .. Len(old) + 1
    BY <2>2, LenProperties
  <2>4. ~HasBucket(scores, key, state)
    BY <1>1, <1>8 DEF HasBucket
  <2>5. ASSUME NEW i \in DOMAIN q
        PROVE  Kept(scores, keys, state, key, q[i]) \/ Opened(scores, log, n, keys, state, key, q[i])
    <3>1. CASE i \in 1 .. Len(old)
      <4>1. Kept(scores, keys, state, key, q[i])
        BY <1>1, <1>8, <2>2, <3>1 DEF Kept
      <4> QED BY <4>1
    <3>2. CASE i = Len(old) + 1
      <4>1. Opened(scores, log, n, keys, state, key, q[i])
        BY <1>6, <2>2, <2>4, <3>2 DEF Opened
      <4> QED BY <4>1
    <3> QED BY <1>1, <2>3, <3>1, <3>2
  <2>6. \E i \in DOMAIN q : q[i].env = state
    BY <1>1, <1>6, <2>2, <2>3
  <2>7. \A i \in DOMAIN old : i \in DOMAIN q /\ q[i].env = old[i].env
    BY <1>1, <2>2, <2>3
  <2> QED BY <2>2, <2>5, <2>6, <2>7 DEF q, old, Grown
<1> QED BY <1>7, <1>8

\* What a bucket should hold, with the night and without.
LEMMA NightSplits ==
  ASSUME NEW log, NEW n, NEW keys, NEW state, NEW today, NightFollows(log, n, keys, state, today), NEW key, NEW place
  PROVE  /\ place # state \/ key \notin keys => OfBucket(log, Len(log), key, place) = OfBucket(log, n, key, place)
         /\ LET R == OfBucket(log, n, key, state)
                S == OfNight(log, n, key)
                both == OfBucket(log, Len(log), key, state)
            IN  /\ Cardinality(R) \in Nat /\ Cardinality(S) \in Nat /\ Cardinality(both) = Cardinality(R) + Cardinality(S)
                /\ Scores(log, R) \in Nat /\ Scores(log, S) \in Nat /\ Scores(log, both) = Scores(log, R) + Scores(log, S)
<1> DEFINE R == OfBucket(log, n, key, state)
           S == OfNight(log, n, key)
           both == OfBucket(log, Len(log), key, state)
<1>1. n \in Nat /\ Len(log) \in Nat /\ n <= Len(log) /\ ScoredLog(log)
  BY DEF NightFollows, ScoredLog
<1>2. \A i \in 1 .. Len(log) : i \in 1 .. n \/ (i \in (n + 1) .. Len(log) /\ i > n)
  BY <1>1
<1>3. \A i \in (n + 1) .. Len(log) : log[i].key \in keys /\ log[i].env = state
  BY DEF NightFollows
<1>4. ASSUME place # state \/ key \notin keys
      PROVE  OfBucket(log, Len(log), key, place) = OfBucket(log, n, key, place)
  BY <1>1, <1>2, <1>3, <1>4 DEF OfBucket, OfKey
<1>5. R \cup S = both
  BY <1>1, <1>2, <1>3 DEF OfBucket, OfKey, OfNight
<1>6. R \cap S = {}
  BY <1>1 DEF OfBucket, OfKey, OfNight
<1>7. R \subseteq 1 .. Len(log) /\ S \subseteq 1 .. Len(log)
  BY <1>1 DEF OfBucket, OfKey, OfNight
<1>8. Len(log) <= Len(log)
  BY <1>1
<1> HIDE DEF R, S, both
<1>9. IsFiniteSet(R) /\ IsFiniteSet(S) /\ Cardinality(R) \in Nat /\ Cardinality(S) \in Nat
  BY <1>1, <1>7, <1>8, ScoresAreNat
<1>10. \A i \in R \cup S : log[i].hint \in Nat
  BY <1>1, <1>7 DEF ScoredLog
<1>11. /\ Scores(log, both) = Scores(log, R) + Scores(log, S)
       /\ Scores(log, R) \in Nat /\ Scores(log, S) \in Nat
  BY <1>5, <1>6, <1>9, <1>10, ScoresAdd
<1>12. Cardinality(both) = Cardinality(R) + Cardinality(S)
  <2>1. Cardinality({}) = 0
    BY FS_EmptySet
  <2>2. Cardinality(R \cup S) = Cardinality(R) + Cardinality(S) - Cardinality(R \cap S)
    BY <1>9, FS_Union
  <2>3. Cardinality(R \cap S) = 0
    BY <1>6, <2>1
  <2>4. Cardinality(both) = Cardinality(R \cup S)
    BY <1>5
  <2> QED BY <1>9, <2>2, <2>3, <2>4
<1> QED BY <1>4, <1>9, <1>11, <1>12 DEF R, S, both

LEMMA BucketsStayBacked ==
  ASSUME NEW log, NEW n, NEW keys, NEW state, NEW today, NightFollows(log, n, keys, state, today),
         NEW scores, ScoresTyped(scores), ScoresBacked(scores, log, n), NEW key, NEW bucket,
         \/ Kept(scores, keys, state, key, bucket)
         \/ Raised(scores, log, n, keys, state, key, bucket)
         \/ Opened(scores, log, n, keys, state, key, bucket)
  PROVE  BucketBacked(bucket, log, OfBucket(log, Len(log), key, bucket.env))
<1> DEFINE R == OfBucket(log, n, key, state)
           S == OfNight(log, n, key)
           both == OfBucket(log, Len(log), key, state)
<1>1. /\ Cardinality(R) \in Nat /\ Cardinality(S) \in Nat /\ Cardinality(both) = Cardinality(R) + Cardinality(S)
      /\ Scores(log, R) \in Nat /\ Scores(log, S) \in Nat /\ Scores(log, both) = Scores(log, R) + Scores(log, S)
  BY NightSplits
<1>2. CASE Kept(scores, keys, state, key, bucket)
  <2>1. PICK i \in DOMAIN scores[key] : scores[key][i] = bucket
    BY <1>2 DEF Kept
  <2>2. key \in DOMAIN scores /\ (key \notin keys \/ bucket.env # state)
    BY <1>2 DEF Kept
  <2>3. BucketBacked(bucket, log, OfBucket(log, n, key, bucket.env))
    BY <2>1, <2>2 DEF ScoresBacked
  <2>4. OfBucket(log, Len(log), key, bucket.env) = OfBucket(log, n, key, bucket.env)
    BY <2>2, NightSplits
  <2> QED BY <2>3, <2>4
<1>3. CASE Raised(scores, log, n, keys, state, key, bucket)
  <2>1. PICK i \in DOMAIN scores[key] :
          /\ scores[key][i].env = state
          /\ bucket.count = scores[key][i].count + Cardinality(S)
          /\ bucket.total = scores[key][i].total + Scores(log, S)
    BY <1>3 DEF Raised
  <2>2. key \in DOMAIN scores /\ bucket.env = state
    BY <1>3 DEF Raised
  <2>3. scores[key][i].count \in Nat /\ scores[key][i].total \in Nat
    BY <2>1, <2>2, BucketsTyped
  <2>4. scores[key][i].count <= Cardinality(R) /\ scores[key][i].total <= Scores(log, R)
    BY <2>1, <2>2 DEF ScoresBacked, BucketBacked
  <2> HIDE DEF R, S, both
  <2>5. bucket.count <= Cardinality(both) /\ bucket.total <= Scores(log, both)
    BY <1>1, <2>1, <2>3, <2>4
  <2> QED BY <2>2, <2>5 DEF BucketBacked, both
<1>4. CASE Opened(scores, log, n, keys, state, key, bucket)
  <2>1. bucket.env = state /\ bucket.count = Cardinality(S) /\ bucket.total = Scores(log, S)
    BY <1>4 DEF Opened
  <2> HIDE DEF R, S, both
  <2>2. bucket.count <= Cardinality(both) /\ bucket.total <= Scores(log, both)
    BY <1>1, <2>1
  <2> QED BY <2>1, <2>2 DEF BucketBacked, both
<1> QED BY <1>2, <1>3, <1>4

LEMMA BucketsStayExact ==
  ASSUME NEW log, NEW n, NEW keys, NEW state, NEW today, NightFollows(log, n, keys, state, today),
         NEW scores, ScoresTyped(scores), ScoresExact(scores, log, n), state # NoEnvironment, NEW key, NEW bucket,
         \/ Kept(scores, keys, state, key, bucket)
         \/ Raised(scores, log, n, keys, state, key, bucket)
         \/ Opened(scores, log, n, keys, state, key, bucket)
  PROVE  BucketExact(bucket, log, OfBucket(log, Len(log), key, bucket.env))
<1> DEFINE R == OfBucket(log, n, key, state)
           S == OfNight(log, n, key)
           both == OfBucket(log, Len(log), key, state)
<1>1. /\ Cardinality(R) \in Nat /\ Cardinality(S) \in Nat /\ Cardinality(both) = Cardinality(R) + Cardinality(S)
      /\ Scores(log, R) \in Nat /\ Scores(log, S) \in Nat /\ Scores(log, both) = Scores(log, R) + Scores(log, S)
  BY NightSplits
<1>2. CASE Kept(scores, keys, state, key, bucket)
  <2>1. PICK i \in DOMAIN scores[key] : scores[key][i] = bucket
    BY <1>2 DEF Kept
  <2>2. key \in DOMAIN scores /\ (key \notin keys \/ bucket.env # state)
    BY <1>2 DEF Kept
  <2>3. BucketExact(bucket, log, OfBucket(log, n, key, bucket.env))
    BY <2>1, <2>2 DEF ScoresExact
  <2>4. OfBucket(log, Len(log), key, bucket.env) = OfBucket(log, n, key, bucket.env)
    BY <2>2, NightSplits
  <2> QED BY <2>3, <2>4
<1>3. CASE Raised(scores, log, n, keys, state, key, bucket)
  <2>1. PICK i \in DOMAIN scores[key] :
          /\ scores[key][i].env = state
          /\ bucket.count = scores[key][i].count + Cardinality(S)
          /\ bucket.total = scores[key][i].total + Scores(log, S)
    BY <1>3 DEF Raised
  <2>2. key \in DOMAIN scores /\ bucket.env = state
    BY <1>3 DEF Raised
  <2>3. scores[key][i].count = Cardinality(R) /\ scores[key][i].total = Scores(log, R)
    BY <2>1, <2>2 DEF ScoresExact, BucketExact
  <2> HIDE DEF R, S, both
  <2>4. bucket.count = Cardinality(both) /\ bucket.total = Scores(log, both)
    BY <1>1, <2>1, <2>3
  <2> QED BY <2>2, <2>4 DEF BucketExact, both
<1>4. CASE Opened(scores, log, n, keys, state, key, bucket)
  <2>1. bucket.env = state /\ bucket.count = Cardinality(S) /\ bucket.total = Scores(log, S)
    BY <1>4 DEF Opened
  <2>2. \A i \in R : i \in 1 .. n /\ log[i].key = key /\ log[i].env = state
    BY DEF OfBucket, OfKey
  <2>3. R = {}
    <3> HIDE DEF R
    <3> SUFFICES ASSUME NEW i \in R PROVE FALSE
      OBVIOUS
    <3>1. i \in 1 .. n /\ log[i].key = key /\ log[i].env = state
      BY <2>2
    <3>2. HasBucket(scores, key, state)
      BY <3>1 DEF ScoresExact
    <3> QED BY <1>4, <3>2 DEF Opened
  <2>4. Cardinality(R) = 0 /\ Scores(log, R) = 0
    <3> HIDE DEF R
    <3>1. Cardinality({}) = 0 /\ Scores(log, {}) = 0
      BY FS_EmptySet, SumOfNothing DEF Scores
    <3> QED BY <2>3, <3>1
  <2> HIDE DEF R, S, both
  <2>5. bucket.count = Cardinality(both) /\ bucket.total = Scores(log, both)
    BY <1>1, <2>1, <2>4
  <2> QED BY <2>1, <2>5 DEF BucketExact, both
<1> QED BY <1>2, <1>3, <1>4

LEMMA Rescoring ==
  ASSUME NEW log, NEW n, NEW keys, IsFiniteSet(keys), NEW state \in Environments, NEW today,
         NightFollows(log, n, keys, state, today), NEW scores, ScoresTyped(scores)
  PROVE  LET new == Rescored(scores, log, n, keys, state)
         IN  /\ ScoresTyped(new)
             /\ \A key \in DOMAIN new : \A i \in DOMAIN new[key] :
                  \/ Kept(scores, keys, state, key, new[key][i])
                  \/ Raised(scores, log, n, keys, state, key, new[key][i])
                  \/ Opened(scores, log, n, keys, state, key, new[key][i])
             /\ \A key \in keys : HasBucket(new, key, state)
             /\ \A key, place : HasBucket(scores, key, place) => HasBucket(new, key, place)
<1> DEFINE new == Rescored(scores, log, n, keys, state)
           with(key) == Added(BucketsOf(scores, key), state, log, OfNight(log, n, key))
<1>1. /\ DOMAIN new = DOMAIN scores \cup keys
      /\ \A key \in keys : new[key] = with(key)
      /\ \A key \in DOMAIN scores : key \notin keys => new[key] = scores[key]
  BY DEF Rescored
<1>2. \A key \in keys : Grown(with(key), scores, log, n, keys, state, key)
  <2> HIDE DEF new
  <2> QED BY AddedBuckets
<1> HIDE DEF new, with
<1>3. ScoresTyped(new)
  <2>1. IsFiniteSet(DOMAIN scores)
    BY DEF ScoresTyped
  <2>2. IsFiniteSet(DOMAIN scores \cup keys)
    BY <2>1, FS_Union
  <2> QED BY <1>1, <1>2, <2>2 DEF ScoresTyped, Grown
<1>4. ASSUME NEW key \in DOMAIN new, NEW i \in DOMAIN new[key]
      PROVE  \/ Kept(scores, keys, state, key, new[key][i])
             \/ Raised(scores, log, n, keys, state, key, new[key][i])
             \/ Opened(scores, log, n, keys, state, key, new[key][i])
  <2>1. CASE key \in keys
    BY <1>1, <1>2, <2>1 DEF Grown
  <2>2. CASE key \notin keys
    <3>1. key \in DOMAIN scores /\ new[key] = scores[key]
      BY <1>1, <2>2
    <3>2. Kept(scores, keys, state, key, new[key][i])
      BY <2>2, <3>1 DEF Kept
    <3> QED BY <3>2
  <2> QED BY <2>1, <2>2
<1>5. \A key \in keys : HasBucket(new, key, state)
  BY <1>1, <1>2 DEF HasBucket, Grown
<1>6. ASSUME NEW key, NEW place, HasBucket(scores, key, place) PROVE HasBucket(new, key, place)
  <2>1. PICK i \in DOMAIN scores[key] : scores[key][i].env = place
    BY <1>6 DEF HasBucket
  <2>2. key \in DOMAIN scores /\ BucketsOf(scores, key) = scores[key]
    BY <1>6 DEF HasBucket, BucketsOf
  <2>3. i \in DOMAIN new[key] /\ new[key][i].env = place
    BY <1>1, <1>2, <2>1, <2>2 DEF Grown
  <2> QED BY <1>1, <2>2, <2>3 DEF HasBucket
<1> QED BY <1>3, <1>4, <1>5, <1>6 DEF new

\* What the sidecar of scores is after a night, with an environment or without.
AfterNight(scores, log, n, keys, state) ==
    IF state = NoEnvironment THEN scores ELSE Rescored(scores, log, n, keys, state)

LEMMA NightIsScored ==
  ASSUME NEW log, NEW n, NEW keys, IsFiniteSet(keys), NEW state \in Environments \cup {NoEnvironment}, NEW today,
         NightFollows(log, n, keys, state, today), NEW scores, ScoresTyped(scores)
  PROVE  LET new == AfterNight(scores, log, n, keys, state)
         IN  /\ ScoresTyped(new)
             /\ ScoresBacked(scores, log, n) => ScoresBacked(new, log, Len(log))
             /\ ScoresExact(scores, log, n) => ScoresExact(new, log, Len(log))
<1> DEFINE new == AfterNight(scores, log, n, keys, state)
<1>0. n \in Nat /\ Len(log) \in Nat /\ n <= Len(log) /\ ScoredLog(log)
  BY DEF NightFollows, ScoredLog
<1>1. CASE state = NoEnvironment
  <2>1. new = scores
    BY <1>1 DEF AfterNight
  <2>2. ASSUME ScoresBacked(scores, log, n) PROVE ScoresBacked(scores, log, Len(log))
    <3>1. Len(log) <= Len(log)
      BY <1>0
    <3> QED BY <1>0, <2>2, <3>1, ScoresGrow
  <2>3. ASSUME ScoresExact(scores, log, n) PROVE ScoresExact(scores, log, Len(log))
    <3>1. ASSUME NEW key \in DOMAIN scores, NEW i \in DOMAIN scores[key]
          PROVE  BucketExact(scores[key][i], log, OfBucket(log, Len(log), key, scores[key][i].env))
      <4>1. scores[key][i].env # state
        <5>1. scores[key][i].env \in Environments
          BY BucketsTyped
        <5>2. NoEnvironment \notin Environments
          BY SkillInputs
        <5> QED BY <1>1, <5>1, <5>2
      <4>2. OfBucket(log, Len(log), key, scores[key][i].env) = OfBucket(log, n, key, scores[key][i].env)
        BY <4>1, NightSplits
      <4>3. BucketExact(scores[key][i], log, OfBucket(log, n, key, scores[key][i].env))
        BY <2>3 DEF ScoresExact
      <4> QED BY <4>2, <4>3
    <3>2. ASSUME NEW i \in 1 .. Len(log), log[i].env # NoEnvironment PROVE HasBucket(scores, log[i].key, log[i].env)
      <4>1. i \in 1 .. n
        BY <1>0, <1>1, <3>2 DEF NightFollows
      <4> QED BY <2>3, <3>2, <4>1 DEF ScoresExact
    <3> QED BY <3>1, <3>2 DEF ScoresExact
  <2> QED BY <2>1, <2>2, <2>3
<1>2. CASE state # NoEnvironment
  <2>0. state \in Environments /\ new = Rescored(scores, log, n, keys, state)
    BY <1>2 DEF AfterNight
  <2> HIDE DEF new
  <2>1. /\ ScoresTyped(new)
        /\ \A key \in DOMAIN new : \A i \in DOMAIN new[key] :
             \/ Kept(scores, keys, state, key, new[key][i])
             \/ Raised(scores, log, n, keys, state, key, new[key][i])
             \/ Opened(scores, log, n, keys, state, key, new[key][i])
        /\ \A key \in keys : HasBucket(new, key, state)
        /\ \A key, place : HasBucket(scores, key, place) => HasBucket(new, key, place)
    BY <2>0, Rescoring
  <2>2. ASSUME ScoresBacked(scores, log, n) PROVE ScoresBacked(new, log, Len(log))
    <3> SUFFICES ASSUME NEW key \in DOMAIN new, NEW i \in DOMAIN new[key]
                 PROVE  BucketBacked(new[key][i], log, OfBucket(log, Len(log), key, new[key][i].env))
      BY DEF ScoresBacked
    <3>1. \/ Kept(scores, keys, state, key, new[key][i])
          \/ Raised(scores, log, n, keys, state, key, new[key][i])
          \/ Opened(scores, log, n, keys, state, key, new[key][i])
      BY <2>1
    <3> QED BY <2>2, <3>1, BucketsStayBacked
  <2>3. ASSUME ScoresExact(scores, log, n) PROVE ScoresExact(new, log, Len(log))
    <3>1. ASSUME NEW key \in DOMAIN new, NEW i \in DOMAIN new[key]
          PROVE  BucketExact(new[key][i], log, OfBucket(log, Len(log), key, new[key][i].env))
      <4>1. \/ Kept(scores, keys, state, key, new[key][i])
            \/ Raised(scores, log, n, keys, state, key, new[key][i])
            \/ Opened(scores, log, n, keys, state, key, new[key][i])
        BY <2>1
      <4> QED BY <1>2, <2>3, <4>1, BucketsStayExact
    <3>2. ASSUME NEW i \in 1 .. Len(log), log[i].env # NoEnvironment PROVE HasBucket(new, log[i].key, log[i].env)
      <4>1. CASE i \in 1 .. n
        BY <2>1, <2>3, <3>2, <4>1 DEF ScoresExact
      <4>2. CASE i \notin 1 .. n
        <5>1. i \in (n + 1) .. Len(log)
          BY <1>0, <4>2
        <5>2. log[i].key \in keys /\ log[i].env = state
          BY <5>1 DEF NightFollows
        <5> QED BY <2>1, <5>2
      <4> QED BY <4>1, <4>2
    <3> QED BY <3>1, <3>2 DEF ScoresExact
  <2> QED BY <2>1, <2>2, <2>3 DEF new
<1> QED BY <1>1, <1>2

-----------------------------------------------------------------------------
(* How often an environment was promoted in                                  *)

\* The keys with a bucket of an environment, and the entries made in it.
KeysOf(scores, place) == {key \in DOMAIN scores : \E i \in DOMAIN scores[key] : scores[key][i].env = place}
MadeIn(log, place) == {i \in 1 .. Len(log) : log[i].env = place}

\* The counts of the buckets of an environment.
CountsOf(counts, scores, place) ==
    \A key \in KeysOf(scores, place) : \E i \in DOMAIN scores[key] :
        scores[key][i].env = place /\ counts[key] = scores[key][i].count

\* They add up to the entries made in it.
LEMMA CountsAddUp ==
  ASSUME NEW log, ScoredLog(log), NEW scores, ScoresTyped(scores), ScoresExact(scores, log, Len(log)), NEW place,
         NEW counts, CountsOf(counts, scores, place)
  PROVE  /\ place \in Environments => SumOf(counts, KeysOf(scores, place)) = Cardinality(MadeIn(log, place))
         /\ place \notin Environments => SumOf(counts, KeysOf(scores, place)) = 0
<1> USE DEF CountsOf, KeysOf, MadeIn
<1> DEFINE keys == KeysOf(scores, place)
<1> DEFINE S == {i \in 1 .. Len(log) : log[i].env = place}
           f == [i \in S |-> log[i].key]
<1>1. CASE place \notin Environments
  <2>1. \A key \in DOMAIN scores : \A i \in DOMAIN scores[key] : scores[key][i].env \in Environments
    BY BucketsTyped
  <2>2. keys = {}
    BY <1>1, <2>1
  <2>3. SumOf(counts, {}) = 0
    BY SumOfNothing
  <2> QED BY <1>1, <2>2, <2>3
<1>2. CASE place \in Environments
  <2>0. place # NoEnvironment
    BY <1>2, SkillInputs
  <2>1. IsFiniteSet(S) /\ Len(log) \in Nat
    <3>1. Len(log) \in Nat
      BY DEF ScoredLog
    <3>2. IsFiniteSet(1 .. Len(log))
      BY <3>1, PlacesFinite
    <3> QED BY <3>1, <3>2, FS_Subset
  <2>2. IsFiniteSet(keys)
    <3>1. IsFiniteSet(DOMAIN scores) /\ keys \subseteq DOMAIN scores
      BY DEF ScoresTyped
    <3> QED BY <3>1, FS_Subset
  <2>3. ASSUME NEW key \in keys PROVE counts[key] = Cardinality(MappedTo(S, f, key))
    <3>1. PICK i \in DOMAIN scores[key] : scores[key][i].env = place /\ counts[key] = scores[key][i].count
      OBVIOUS
    <3>2. key \in DOMAIN scores
      OBVIOUS
    <3>3. scores[key][i].count = Cardinality(OfBucket(log, Len(log), key, place))
      BY <3>1, <3>2 DEF ScoresExact, BucketExact
    <3>4. OfBucket(log, Len(log), key, place) = MappedTo(S, f, key)
      BY DEF OfBucket, OfKey, MappedTo
    <3> QED BY <3>1, <3>3, <3>4
  <2>4. MappedInto(S, f, keys) = S
    <3>1. ASSUME NEW i \in S PROVE f[i] \in keys
      <4>1. HasBucket(scores, log[i].key, log[i].env)
        BY <2>0 DEF ScoresExact
      <4>2. f[i] = log[i].key /\ log[i].env = place
        OBVIOUS
      <4> QED BY <4>1, <4>2 DEF HasBucket
    <3> QED BY <3>1 DEF MappedInto
  <2> HIDE DEF S, f
  <2>5. SumOf(counts, keys) = Cardinality(MappedInto(S, f, keys))
    BY <2>1, <2>2, <2>3, SumOfParts
  <2> QED BY <1>2, <2>4, <2>5 DEF S
<1> QED BY <1>1, <1>2

-----------------------------------------------------------------------------
(* The sidecars follow the log                                               *)

NightPlaces == Environments \cup {NoEnvironment}

\* A fragment has neither key nor target.
EntryType == [key : STRING \cup {""}, target : STRING \cup {""}, blast : {"SELF", "TENANT", "GLOBAL"},
              fulfills : SUBSET STRING, env : NightPlaces, day : Nat, hint : Nat]

MemoryTyped ==
    /\ day \in Nat /\ step \in {"idle", "append", "reuse", "env", "tree"}
    /\ batch \in Seq(SkillType) /\ env \in NightPlaces /\ \A i \in DOMAIN batch : batch[i].key # ""
    /\ entries \in Seq(EntryType) /\ ScoresTyped(env_scores)
    /\ disturbed \in BOOLEAN

BatchKeys == {batch[i].key : i \in DOMAIN batch}

\* How much of the log the sidecars have read: all, or all but the night.
Before == Len(entries) - Len(batch)
ReuseRead == IF step = "reuse" THEN Before ELSE Len(entries)
ScoresRead == IF step \in {"reuse", "env"} THEN Before ELSE Len(entries)

\* Between the log and the sidecars the log ends with the night.
NightIsWritten == step \in {"reuse", "env"} => NightFollows(entries, Before, BatchKeys, env, day)

\* What an undisturbed night counts as earlier is of an earlier day.
DaysPass ==
    /\ \A i \in 1 .. Len(entries) : entries[i].day <= day
    /\ ~disturbed /\ step \in {"idle", "append", "reuse"} => \A i \in 1 .. ReuseRead : entries[i].day < day

SidecarsHold ==
    /\ ReuseBacked(reuse, entries, ReuseRead) /\ ScoresBacked(env_scores, entries, ScoresRead)
    /\ ~disturbed => ReuseExact(reuse, entries, ReuseRead) /\ ScoresExact(env_scores, entries, ScoresRead)

\* What was written in part is of a disturbed night.
WholeLines == ~disturbed => partial = {} /\ \A i \in 1 .. Len(entries) : entries[i].key # ""

MemoryInv == MemoryTyped /\ NightIsWritten /\ DaysPass /\ SidecarsHold /\ WholeLines

LEMMA EntriesScored ==
  ASSUME NEW log \in Seq(EntryType)
  PROVE  /\ ScoredLog(log) /\ Len(log) \in Nat /\ DOMAIN log = 1 .. Len(log)
         /\ \A i \in 1 .. Len(log) : log[i].env \in NightPlaces /\ log[i].day \in Nat
<1>1. Len(log) \in Nat /\ DOMAIN log = 1 .. Len(log) /\ \A i \in 1 .. Len(log) : log[i] \in EntryType
  BY LenProperties, ElementOfSeq
<1> QED BY <1>1 DEF ScoredLog, EntryType

LEMMA MemoryStarts == MemoryInit => MemoryInv
<1> SUFFICES ASSUME MemoryInit PROVE MemoryInv
  OBVIOUS
<1>1. Len(<<>>) = 0 /\ <<>> \in Seq(SkillType) /\ <<>> \in Seq(EntryType) /\ DOMAIN <<>> = {} /\ IsFiniteSet({})
  BY EmptySeq, FS_EmptySet
<1>2. ReuseRead = 0 /\ ScoresRead = 0 /\ Len(entries) = 0
  BY <1>1 DEF MemoryInit, ReuseRead, ScoresRead
<1>3. MemoryTyped
  BY <1>1 DEF MemoryInit, MemoryTyped, ScoresTyped, NightPlaces
<1>4. NightIsWritten /\ DaysPass
  BY <1>2 DEF MemoryInit, NightIsWritten, DaysPass
<1>5. \A key : OfKey(entries, 0, key) = {}
  BY DEF OfKey
<1>6. ReuseBacked(reuse, entries, 0) /\ ReuseExact(reuse, entries, 0)
  BY <1>1, <1>5 DEF MemoryInit, ReuseBacked, ReuseExact, OnTwoDays
<1>7. ScoresBacked(env_scores, entries, 0) /\ ScoresExact(env_scores, entries, 0)
  BY <1>1 DEF MemoryInit, ScoresBacked, ScoresExact
<1>8. WholeLines
  BY <1>2 DEF MemoryInit, WholeLines
<1> QED BY <1>2, <1>3, <1>4, <1>6, <1>7, <1>8 DEF MemoryInv, SidecarsHold

\* The state as the steps read it.
LEMMA MemoryFacts ==
  ASSUME MemoryInv
  PROVE  /\ ScoredLog(entries) /\ Len(entries) \in Nat /\ DOMAIN entries = 1 .. Len(entries)
         /\ \A i \in 1 .. Len(entries) : entries[i].env \in NightPlaces /\ entries[i].day \in Nat
         /\ Len(batch) \in Nat /\ DOMAIN batch = 1 .. Len(batch) /\ \A i \in 1 .. Len(batch) : batch[i] \in SkillType
         /\ ReuseRead \in Nat /\ ReuseRead <= Len(entries)
         /\ ScoresRead \in Nat /\ ScoresRead <= Len(entries)
         /\ day \in Nat
<1>1. entries \in Seq(EntryType) /\ batch \in Seq(SkillType) /\ day \in Nat
  BY DEF MemoryInv, MemoryTyped
<1>2. Len(batch) \in Nat /\ DOMAIN batch = 1 .. Len(batch) /\ \A i \in 1 .. Len(batch) : batch[i] \in SkillType
  BY <1>1, LenProperties, ElementOfSeq
<1>3. step \in {"reuse", "env"} => Before \in Nat /\ Before <= Len(entries)
  BY DEF MemoryInv, NightIsWritten, NightFollows
<1>4. /\ ScoredLog(entries) /\ Len(entries) \in Nat /\ DOMAIN entries = 1 .. Len(entries)
      /\ \A i \in 1 .. Len(entries) : entries[i].env \in NightPlaces /\ entries[i].day \in Nat
  BY <1>1, EntriesScored
<1> QED BY <1>1, <1>2, <1>3, <1>4 DEF ReuseRead, ScoresRead

\* Whatever the sidecars have read, all of the log backs them.
LEMMA AllBacks ==
  ASSUME MemoryInv
  PROVE  ReuseBacked(reuse, entries, Len(entries)) /\ ScoresBacked(env_scores, entries, Len(entries))
<1>1. ReuseBacked(reuse, entries, ReuseRead) /\ ScoresBacked(env_scores, entries, ScoresRead) /\ ScoresTyped(env_scores)
  BY DEF MemoryInv, SidecarsHold, MemoryTyped
<1>2. Len(entries) <= Len(entries)
  BY MemoryFacts
<1> QED BY <1>1, <1>2, MemoryFacts, ReuseGrows, ScoresGrow

\* An undisturbed night finds every line as it was written.
LEMMA LinesReadable ==
  ASSUME MemoryInv, ~disturbed, NEW i \in 1 .. Len(entries)
  PROVE  Legible(i)
<1>1. partial = {} /\ entries[i].key # ""
  BY DEF MemoryInv, WholeLines
<1>2. Fragment(entries[i].day).key = ""
  BY DEF Fragment
<1>3. entries[i] # Fragment(entries[i].day)
  BY <1>1, <1>2
<1> QED BY <1>1, <1>3 DEF Legible

LEMMA PromoteKeeps == MemoryInv /\ Promote => MemoryInv'
<1> SUFFICES ASSUME MemoryInv, Promote PROVE MemoryInv'
  OBVIOUS
<1>1. /\ step = "idle" /\ step' = "append" /\ batch' \in SkillBatches /\ env' \in NightPlaces
      /\ UNCHANGED <<day, entries, partial, reuse, env_scores, disturbed>>
  BY DEF Promote, NightPlaces, log_file
<1>2. MemoryTyped'
  BY <1>1, SkillInputs DEF MemoryInv, MemoryTyped
<1>3. ReuseRead = Len(entries) /\ ScoresRead = Len(entries) /\ ReuseRead' = Len(entries) /\ ScoresRead' = Len(entries)
  BY <1>1 DEF ReuseRead, ScoresRead
<1>4. NightIsWritten' /\ DaysPass'
  BY <1>1, <1>3 DEF MemoryInv, NightIsWritten, DaysPass
<1>5. SidecarsHold' /\ WholeLines'
  BY <1>1, <1>3 DEF MemoryInv, SidecarsHold, WholeLines
<1> QED BY <1>2, <1>4, <1>5 DEF MemoryInv

LEMMA BuildSkillTreeKeeps == MemoryInv /\ BuildSkillTree => MemoryInv'
<1> SUFFICES ASSUME MemoryInv, BuildSkillTree PROVE MemoryInv'
  OBVIOUS
<1>1. /\ step \in {"idle", "tree"} /\ day' = day + 1 /\ step' = "idle" /\ batch' = <<>> /\ env' = NoEnvironment
      /\ UNCHANGED <<entries, partial, reuse, env_scores, disturbed>>
  BY DEF BuildSkillTree, log_file
<1>2. MemoryTyped'
  <2>1. <<>> \in Seq(SkillType) /\ DOMAIN <<>> = {}
    BY EmptySeq
  <2>2. batch' \in Seq(SkillType) /\ \A i \in DOMAIN batch' : batch'[i].key # ""
    BY <1>1, <2>1
  <2>3. env' \in NightPlaces
    BY <1>1 DEF NightPlaces
  <2>4. day' \in Nat /\ step' \in {"idle", "append", "reuse", "env", "tree"}
    <3>1. day \in Nat
      BY MemoryFacts
    <3> QED BY <1>1, <3>1
  <2>5. entries' \in Seq(EntryType) /\ ScoresTyped(env_scores') /\ disturbed' \in BOOLEAN
    BY <1>1 DEF MemoryInv, MemoryTyped
  <2> QED BY <2>2, <2>3, <2>4, <2>5 DEF MemoryTyped
<1>3. ReuseRead = Len(entries) /\ ScoresRead = Len(entries) /\ ReuseRead' = Len(entries) /\ ScoresRead' = Len(entries)
  BY <1>1 DEF ReuseRead, ScoresRead
<1>4. NightIsWritten'
  BY <1>1 DEF NightIsWritten
<1>5. \A i \in 1 .. Len(entries) : entries[i].day <= day /\ entries[i].day \in Nat /\ day \in Nat
  BY MemoryFacts DEF MemoryInv, DaysPass
<1>6. DaysPass'
  BY <1>1, <1>3, <1>5 DEF DaysPass
<1>7. SidecarsHold' /\ WholeLines'
  BY <1>1, <1>3 DEF MemoryInv, SidecarsHold, WholeLines
<1> QED BY <1>2, <1>4, <1>6, <1>7 DEF MemoryInv

\* A log and its night.
LEMMA EntryTyped ==
  ASSUME MemoryInv, NEW skill \in SkillType
  PROVE  BuildEntry(skill) \in EntryType /\ BuildEntry(skill).key = skill.key
         /\ BuildEntry(skill).env = env /\ BuildEntry(skill).day = day
<1>1. skill.delta \in Nat /\ ReuseCount(skill.key) \in Nat /\ env \in NightPlaces /\ day \in Nat
  <2>1. \A key \in DOMAIN reuse : reuse[key] \in Nat
    BY DEF MemoryInv, SidecarsHold, ReuseBacked
  <2> QED BY <2>1 DEF ReuseCount, SkillType, MemoryInv, MemoryTyped
<1> DEFINE used == ReuseCount(skill.key)
           least == (IF skill.delta < 10 THEN skill.delta ELSE 10) * 400
                     + (IF skill.lines > 0 THEN 4000 ELSE 0) + (IF skill.fulfills = {} THEN 0 ELSE 1000)
           num == 10 * (least * (used + 1) + 2000 * used)
           den == 11 * (used + 1)
<1>2. least \in Nat
  BY <1>1
<1>3. ComputeHintScore(skill, used) = Round(num, den)
  BY DEF ComputeHintScore
<1>4. num \in Nat /\ den \in Nat \ {0}
  <2> HIDE DEF least
  <2>1. used + 1 \in Nat \ {0}
    BY <1>1
  <2>2. \A x, y \in Nat : x * y \in Nat
    OBVIOUS
  <2>3. least * (used + 1) \in Nat
    BY <1>2, <2>1, <2>2
  <2> QED BY <1>1, <2>1, <2>3
<1>5. Round(num, den) \in Nat
  <2> HIDE DEF num, den
  <2>1. 2 * num + den \in Nat /\ 2 * den \in Nat \ {0}
    BY <1>4
  <2>2. \A x \in Nat, y \in Nat \ {0} : x \div y \in Nat
    OBVIOUS
  <2> QED BY <2>1, <2>2 DEF Round
<1>6. ComputeHintScore(skill, used) \in Nat
  BY <1>3, <1>5
<1> HIDE DEF used, least, num, den
<1>7. BuildEntry(skill) \in EntryType
  BY <1>1, <1>6 DEF BuildEntry, EntryType, SkillType, used
<1>8. BuildEntry(skill).key = skill.key /\ BuildEntry(skill).env = env /\ BuildEntry(skill).day = day
  BY DEF BuildEntry
<1> QED BY <1>7, <1>8

LEMMA NightTyped ==
  ASSUME MemoryInv
  PROVE  /\ NightEntries \in Seq(EntryType) /\ Len(NightEntries) = Len(batch)
         /\ \A i \in 1 .. Len(batch) :
              /\ NightEntries[i].key = batch[i].key /\ NightEntries[i].key # ""
              /\ NightEntries[i].env = env /\ NightEntries[i].day = day
<1> DEFINE k == Len(batch)
<1>1. k \in Nat /\ DOMAIN batch = 1 .. k /\ \A i \in 1 .. k : batch[i] \in SkillType
  BY MemoryFacts
<1> HIDE DEF k
<1>2. \A i \in 1 .. k : BuildEntry(batch[i]) \in EntryType
  BY <1>1, EntryTyped
<1>3. NightEntries = [i \in 1 .. k |-> BuildEntry(batch[i])]
  BY <1>1 DEF NightEntries
<1>4. NightEntries \in [1 .. k -> EntryType]
  BY <1>2, <1>3
<1>5. NightEntries \in Seq(EntryType)
  BY <1>1, <1>4, SeqDef
<1>6. DOMAIN NightEntries = 1 .. Len(NightEntries) /\ Len(NightEntries) \in Nat
  BY <1>5, LenProperties
<1>7. Len(NightEntries) = k
  BY <1>1, <1>3, <1>6
<1>8. \A i \in 1 .. k : batch[i].key # ""
  BY <1>1 DEF MemoryInv, MemoryTyped
<1>9. ASSUME NEW i \in 1 .. k
      PROVE  /\ NightEntries[i].key = batch[i].key /\ NightEntries[i].key # ""
             /\ NightEntries[i].env = env /\ NightEntries[i].day = day
  <2>1. NightEntries[i] = BuildEntry(batch[i]) /\ batch[i] \in SkillType
    BY <1>1, <1>3
  <2>2. BuildEntry(batch[i]).key = batch[i].key /\ BuildEntry(batch[i]).env = env /\ BuildEntry(batch[i]).day = day
    BY <2>1, EntryTyped
  <2> QED BY <1>8, <2>1, <2>2
<1> QED BY <1>5, <1>7, <1>9 DEF k

\* A longer log.
LEMMA EntriesGrow ==
  ASSUME NEW log \in Seq(EntryType), NEW written \in Seq(EntryType)
  PROVE  LET longer == log \o written IN
         /\ longer \in Seq(EntryType) /\ Len(log) \in Nat /\ Len(written) \in Nat /\ Len(longer) = Len(log) + Len(written)
         /\ \A i \in 1 .. Len(log) : longer[i] = log[i]
         /\ \A i \in (Len(log) + 1) .. Len(longer) :
              i - Len(log) \in 1 .. Len(written) /\ longer[i] = written[i - Len(log)]
<1>1. log \in Seq(EntryType) /\ written \in Seq(EntryType)
  OBVIOUS
<1>2. /\ log \o written \in Seq(EntryType)
      /\ Len(log \o written) = Len(log) + Len(written)
      /\ \A i \in 1 .. Len(log) + Len(written) :
           (log \o written)[i] = IF i <= Len(log) THEN log[i] ELSE written[i - Len(log)]
  BY ONLY <1>1, ConcatProperties, Z3T(30)
<1>3. Len(log) \in Nat /\ Len(written) \in Nat
  BY <1>1, LenProperties
<1> DEFINE longer == log \o written
           a == Len(log)
           b == Len(written)
<1>4. /\ longer \in Seq(EntryType) /\ Len(longer) = a + b /\ a \in Nat /\ b \in Nat
      /\ \A i \in 1 .. a + b : longer[i] = IF i <= a THEN log[i] ELSE written[i - a]
  BY <1>2, <1>3
<1> HIDE DEF a, b, longer
<1>5. \A i \in 1 .. a : longer[i] = log[i]
  BY ONLY <1>4
<1>6. \A i \in (a + 1) .. (a + b) : i - a \in 1 .. b /\ longer[i] = written[i - a]
  BY ONLY <1>4
<1> QED BY <1>4, <1>5, <1>6 DEF a, b, longer

\* What an append that breaks off has written.
LEMMA PartTyped ==
  ASSUME MemoryInv, AppendPart
  PROVE  \E written \in Seq(EntryType) :
            entries' = entries \o written /\ \A i \in 1 .. Len(written) : written[i].day = day
<1>1. PICK m \in 0 .. Len(batch), ends \in {"line", "open", "torn"} :
        entries' = entries \o (SubSeq(NightEntries, 1, m) \o (IF ends = "torn" THEN <<Fragment(day)>> ELSE <<>>))
  BY DEF AppendPart
<1> DEFINE whole == SubSeq(NightEntries, 1, m)
           rest == IF ends = "torn" THEN <<Fragment(day)>> ELSE <<>>
<1>2. /\ NightEntries \in Seq(EntryType) /\ Len(NightEntries) = Len(batch) /\ Len(batch) \in Nat
      /\ \A i \in 1 .. Len(batch) : NightEntries[i].day = day
  BY NightTyped, MemoryFacts
<1>3. whole \in Seq(EntryType) /\ Len(whole) = m /\ m \in Nat /\ \A i \in 1 .. m : whole[i] = NightEntries[i]
  <2>1. \A i \in 1 .. m : NightEntries[i] \in EntryType
    BY <1>2, ElementOfSeq
  <2>2. 1 \in Int /\ m \in Nat
    BY <1>2
  <2> QED BY <1>2, <2>1, <2>2, SubSeqProperties
<1>4. Fragment(day) \in EntryType /\ Fragment(day).day = day
  <2>1. day \in Nat /\ NoEnvironment \in NightPlaces /\ {} \in SUBSET STRING
    BY MemoryFacts DEF NightPlaces
  <2> QED BY <2>1 DEF Fragment, EntryType
<1>5. rest \in Seq(EntryType) /\ Len(rest) \in Nat /\ \A i \in 1 .. Len(rest) : rest[i].day = day
  BY <1>4
<1> HIDE DEF whole, rest
<1>6. /\ whole \o rest \in Seq(EntryType)
      /\ Len(whole \o rest) = Len(whole) + Len(rest)
      /\ \A i \in 1 .. Len(whole) + Len(rest) :
           (whole \o rest)[i] = IF i <= Len(whole) THEN whole[i] ELSE rest[i - Len(whole)]
  <2>1. whole \in Seq(EntryType) /\ rest \in Seq(EntryType)
    BY <1>3, <1>5
  <2> QED BY ONLY <2>1, ConcatProperties, Z3T(30)
<1>7. ASSUME NEW i \in 1 .. Len(whole \o rest) PROVE (whole \o rest)[i].day = day
  <2>1. CASE i <= m
    <3>1. (whole \o rest)[i] = NightEntries[i] /\ i \in 1 .. Len(batch)
      BY <1>2, <1>3, <1>5, <1>6, <2>1
    <3> QED BY <1>2, <3>1
  <2>2. CASE ~(i <= m)
    <3>1. (whole \o rest)[i] = rest[i - m] /\ i - m \in 1 .. Len(rest)
      BY <1>3, <1>5, <1>6, <2>2
    <3> QED BY <1>5, <3>1
  <2> QED BY <2>1, <2>2
<1>8. entries' = entries \o (whole \o rest)
  BY <1>1 DEF whole, rest
<1> QED BY <1>6, <1>7, <1>8

\* What is left of a write is backed by what is left of the log.
LEMMA PartIsBacked ==
  ASSUME MemoryInv, PartWritten
  PROVE  /\ entries' \in Seq(EntryType) /\ ScoresTyped(env_scores')
         /\ \A i \in 1 .. Len(entries') : entries'[i].day <= day
         /\ ReuseBacked(reuse', entries', Len(entries')) /\ ScoresBacked(env_scores', entries', Len(entries'))
<1>0. /\ entries \in Seq(EntryType) /\ ScoresTyped(env_scores) /\ \A i \in 1 .. Len(entries) : entries[i].day <= day
      /\ ReuseBacked(reuse, entries, Len(entries)) /\ ScoresBacked(env_scores, entries, Len(entries))
      /\ Len(entries) \in Nat /\ day \in Nat
  BY AllBacks, MemoryFacts DEF MemoryInv, MemoryTyped, DaysPass
<1>1. CASE AppendPart /\ UNCHANGED <<reuse, env_scores>>
  <2>1. PICK written \in Seq(EntryType) : entries' = entries \o written /\ \A i \in 1 .. Len(written) : written[i].day = day
    BY <1>1, PartTyped
  <2> DEFINE n == Len(entries)
  <2>2. /\ entries' \in Seq(EntryType) /\ Len(written) \in Nat /\ Len(entries') = n + Len(written)
        /\ \A i \in 1 .. n : entries'[i] = entries[i]
        /\ \A i \in (n + 1) .. Len(entries') : i - n \in 1 .. Len(written) /\ entries'[i] = written[i - n]
    BY <1>0, <2>1, EntriesGrow
  <2> HIDE DEF n
  <2>3. n \in Nat /\ Len(entries') \in Nat /\ n <= Len(entries') /\ Len(entries') <= Len(entries')
    BY <1>0, <2>2 DEF n
  <2>4. ASSUME NEW i \in 1 .. Len(entries') PROVE entries'[i].day <= day
    <3>1. CASE i \in 1 .. n
      BY <1>0, <2>2, <3>1 DEF n
    <3>2. CASE i \in (n + 1) .. Len(entries')
      <4>1. entries'[i].day = day
        BY <2>1, <2>2, <3>2
      <4> QED BY <1>0, <4>1
    <3> QED BY <2>3, <3>1, <3>2
  <2>5. SameStart(entries, entries', n)
    BY <2>2 DEF SameStart
  <2>6. ReuseBacked(reuse, entries', n) /\ ScoresBacked(env_scores, entries', n)
    BY <1>0, <2>3, <2>5, StartDecides DEF n
  <2>7. ScoredLog(entries')
    BY <2>2, EntriesScored
  <2>8. ReuseBacked(reuse, entries', Len(entries')) /\ ScoresBacked(env_scores, entries', Len(entries'))
    BY <1>0, <2>3, <2>6, <2>7, ReuseGrows, ScoresGrow
  <2> QED BY <1>0, <1>1, <2>2, <2>4, <2>8
<1>2. CASE UNCHANGED entries /\ reuse' \in {reuse, <<>>} /\ env_scores' \in {env_scores, <<>>}
  <2>1. DOMAIN <<>> = {} /\ IsFiniteSet({})
    BY FS_EmptySet
  <2>2. ReuseBacked(<<>>, entries, Len(entries)) /\ ScoresBacked(<<>>, entries, Len(entries)) /\ ScoresTyped(<<>>)
    BY <2>1 DEF ReuseBacked, ScoresBacked, ScoresTyped
  <2> QED BY <1>0, <1>2, <2>2
<1> QED BY <1>1, <1>2 DEF PartWritten, log_file

LEMMA WriteFailsKeeps == MemoryInv /\ (WriteFails \/ ResumeNight) => MemoryInv'
<1> SUFFICES ASSUME MemoryInv, WriteFails \/ ResumeNight PROVE MemoryInv'
  OBVIOUS
<1>1. /\ step' \in {"tree", "append"} /\ disturbed' = TRUE /\ UNCHANGED <<day, batch, env>>
      /\ PartWritten \/ UNCHANGED <<entries, reuse, env_scores>>
  BY DEF WriteFails, ResumeNight, log_file
<1>2. /\ entries' \in Seq(EntryType) /\ ScoresTyped(env_scores')
      /\ \A i \in 1 .. Len(entries') : entries'[i].day <= day
      /\ ReuseBacked(reuse', entries', Len(entries')) /\ ScoresBacked(env_scores', entries', Len(entries'))
  <2>1. CASE PartWritten
    BY <2>1, PartIsBacked
  <2>2. CASE UNCHANGED <<entries, reuse, env_scores>>
    BY <2>2, AllBacks DEF MemoryInv, MemoryTyped, DaysPass
  <2> QED BY <1>1, <2>1, <2>2
<1>3. MemoryTyped'
  BY <1>1, <1>2 DEF MemoryInv, MemoryTyped
<1>4. ReuseRead' = Len(entries') /\ ScoresRead' = Len(entries')
  BY <1>1 DEF ReuseRead, ScoresRead
<1>5. NightIsWritten' /\ DaysPass' /\ WholeLines'
  BY <1>1, <1>2 DEF NightIsWritten, DaysPass, WholeLines
<1>6. SidecarsHold'
  BY <1>1, <1>2, <1>4 DEF SidecarsHold
<1> QED BY <1>3, <1>5, <1>6 DEF MemoryInv

LEMMA AppendEntriesKeeps == MemoryInv /\ AppendEntries => MemoryInv'
<1> SUFFICES ASSUME MemoryInv, AppendEntries PROVE MemoryInv'
  OBVIOUS
<1> DEFINE n == Len(entries)
           k == Len(batch)
<1>1. /\ step = "append" /\ step' = IF batch = <<>> THEN "tree" ELSE "reuse"
      /\ entries' = entries \o NightEntries
      /\ UNCHANGED <<day, batch, env, partial, reuse, env_scores, disturbed>>
  BY DEF AppendEntries
<1>2. n \in Nat /\ k \in Nat /\ DOMAIN batch = 1 .. k
  BY MemoryFacts
<1>4. /\ entries' \in Seq(EntryType) /\ Len(entries') = n + k
      /\ \A i \in 1 .. n : entries'[i] = entries[i]
      /\ \A i \in (n + 1) .. (n + k) : i - n \in 1 .. k /\ entries'[i] = NightEntries[i - n]
  <2>1. /\ NightEntries \in Seq(EntryType) /\ Len(NightEntries) = k /\ entries \in Seq(EntryType)
        /\ entries' = entries \o NightEntries
    BY <1>1, NightTyped DEF MemoryInv, MemoryTyped
  <2>2. /\ entries' \in Seq(EntryType) /\ Len(entries') = n + Len(NightEntries)
        /\ \A i \in 1 .. n : entries'[i] = entries[i]
        /\ \A i \in (n + 1) .. Len(entries') : i - n \in 1 .. Len(NightEntries) /\ entries'[i] = NightEntries[i - n]
    BY <2>1, EntriesGrow
  <2>3. Len(NightEntries) = k
    BY <2>1
  <2> QED BY <2>2, <2>3
<1>5. \A i \in (n + 1) .. (n + k) : \E j \in 1 .. k :
        /\ j = i - n /\ entries'[i].key = batch[j].key /\ entries'[i].env = env /\ entries'[i].day = day
  <2> SUFFICES ASSUME NEW i \in (n + 1) .. (n + k)
               PROVE  \E j \in 1 .. k : j = i - n /\ entries'[i].key = batch[j].key /\ entries'[i].env = env /\ entries'[i].day = day
    OBVIOUS
  <2>1. i - n \in 1 .. k /\ entries'[i] = NightEntries[i - n]
    BY <1>4
  <2> HIDE DEF n
  <2> QED BY <2>1, NightTyped
<1> HIDE DEF n, k
<1>6. MemoryTyped'
  BY <1>1, <1>4 DEF MemoryInv, MemoryTyped
<1>7. SameStart(entries, entries', n)
  BY <1>4 DEF SameStart
<1>8. ReuseRead = n /\ ScoresRead = n
  BY <1>1 DEF ReuseRead, ScoresRead, n
<1>9. ReuseRead' = n /\ ScoresRead' = n /\ (batch # <<>> => Before' = n)
  <2>1. CASE batch = <<>>
    <3>1. k = 0
      BY <2>1, EmptySeq DEF k
    <3> QED BY <1>1, <1>2, <1>4, <2>1, <3>1 DEF ReuseRead, ScoresRead
  <2>2. CASE batch # <<>>
    <3>1. Len(batch') = k
      BY <1>1 DEF k
    <3>2. Before' = n
      BY <1>2, <1>4, <3>1 DEF Before
    <3> QED BY <1>1, <2>2, <3>2 DEF ReuseRead, ScoresRead
  <2> QED BY <2>1, <2>2
<1>10. NightIsWritten'
  <2>1. CASE batch = <<>>
    BY <1>1, <2>1 DEF NightIsWritten
  <2>2. CASE batch # <<>>
    <3>1. ScoredLog(entries') /\ n <= Len(entries')
      BY <1>2, <1>4, EntriesScored
    <3>2. BatchKeys' = {batch[j].key : j \in 1 .. k}
      BY <1>1, <1>2 DEF BatchKeys
    <3>3. \A i \in (n + 1) .. Len(entries') : entries'[i].key \in BatchKeys' /\ entries'[i].env = env /\ entries'[i].day = day
      BY <1>4, <1>5, <3>2
    <3>4. ASSUME NEW key \in BatchKeys' PROVE \E i \in (n + 1) .. Len(entries') : entries'[i].key = key
      <4>1. PICK j \in 1 .. k : key = batch[j].key
        BY <3>2
      <4>2. n + j \in (n + 1) .. (n + k) /\ (n + j) - n = j
        BY <1>2
      <4> QED BY <1>4, <1>5, <4>1, <4>2
    <3>5. NightFollows(entries', n, BatchKeys', env, day)
      BY <1>2, <3>1, <3>3, <3>4 DEF NightFollows
    <3> QED BY <1>1, <1>9, <2>2, <3>5 DEF NightIsWritten
  <2> QED BY <2>1, <2>2
<1>11. DaysPass'
  <2>0. \A i \in 1 .. Len(entries') : i \in 1 .. n \/ i \in (n + 1) .. (n + k)
    BY <1>2, <1>4
  <2>1. ASSUME NEW i \in 1 .. Len(entries') PROVE entries'[i].day <= day
    <3>1. CASE i \in 1 .. n
      BY <1>4, <3>1 DEF MemoryInv, DaysPass, n
    <3>2. CASE i \in (n + 1) .. (n + k)
      <4>1. entries'[i].day = day /\ day \in Nat
        BY <1>5, <3>2, MemoryFacts
      <4> QED BY <4>1
    <3> QED BY <2>0, <3>1, <3>2
  <2>2. ~disturbed => \A i \in 1 .. n : entries[i].day < day
    BY <1>1, <1>8 DEF MemoryInv, DaysPass
  <2> QED BY <1>1, <1>4, <1>9, <2>1, <2>2 DEF DaysPass
<1>12. SidecarsHold'
  <2>1. /\ ReuseBacked(reuse, entries, n) /\ ScoresBacked(env_scores, entries, n)
        /\ ~disturbed => ReuseExact(reuse, entries, n) /\ ScoresExact(env_scores, entries, n)
    BY <1>8 DEF MemoryInv, SidecarsHold
  <2>2. /\ ReuseBacked(reuse, entries', n) /\ ScoresBacked(env_scores, entries', n)
        /\ ~disturbed => ReuseExact(reuse, entries', n) /\ ScoresExact(env_scores, entries', n)
    BY <1>2, <1>7, <2>1, StartDecides
  <2> QED BY <1>1, <1>9, <2>2 DEF SidecarsHold
<1>13. WholeLines'
  <2> SUFFICES ASSUME ~disturbed PROVE partial = {} /\ \A i \in 1 .. Len(entries') : entries'[i].key # ""
    BY <1>1 DEF WholeLines
  <2>1. partial = {} /\ \A i \in 1 .. n : entries[i].key # ""
    BY DEF MemoryInv, WholeLines, n
  <2>2. ASSUME NEW i \in 1 .. Len(entries') PROVE entries'[i].key # ""
    <3>1. CASE i \in 1 .. n
      BY <1>4, <2>1, <3>1
    <3>2. CASE i \in (n + 1) .. (n + k)
      <4>1. i - n \in 1 .. k /\ entries'[i] = NightEntries[i - n]
        BY <1>4, <3>2
      <4>2. \A j \in 1 .. k : NightEntries[j].key # ""
        BY NightTyped DEF k
      <4>3. PICK j \in 1 .. k : entries'[i] = NightEntries[j]
        BY <4>1
      <4>4. NightEntries[j].key # ""
        BY <4>2
      <4> QED BY <4>3, <4>4
    <3>3. Len(entries') = n + k
      BY <1>4
    <3>4. i \in 1 .. n \/ i \in (n + 1) .. (n + k)
      BY <1>2, <3>3
    <3> QED BY <3>1, <3>2, <3>4
  <2> QED BY <2>1, <2>2
<1> QED BY <1>6, <1>10, <1>11, <1>12, <1>13 DEF MemoryInv

LEMMA UpdateReuseStatsKeeps == MemoryInv /\ UpdateReuseStats => MemoryInv'
<1> SUFFICES ASSUME MemoryInv, UpdateReuseStats PROVE MemoryInv'
  OBVIOUS
<1> DEFINE read(key) == {i \in EntriesOf(key) : i <= Len(entries) - Len(batch) /\ Legible(i)}
           counted == {key \in BatchKeys : Cardinality(read(key)) > 0}
           seen == {i \in DOMAIN entries : Legible(i)}
<1>1. /\ step = "reuse" /\ step' = "env"
      /\ UNCHANGED <<day, batch, env, entries, partial, env_scores, disturbed>>
  BY DEF UpdateReuseStats, log_file
<1>2. NightFollows(entries, Before, BatchKeys, env, day) /\ ReuseRead = Before /\ ScoresRead = Before
  BY <1>1 DEF MemoryInv, NightIsWritten, ReuseRead, ScoresRead
<1>3. reuse' = Recounted(reuse, entries, Before, BatchKeys, seen)
  <2>1. reuse' = [key \in DOMAIN reuse \cup counted |->
                    ReuseCount(key) + (IF key \in BatchKeys THEN Cardinality(read(key)) ELSE 0)]
    BY DEF UpdateReuseStats, BatchKeys
  <2>2. \A key : read(key) = OfKey(entries, Before, key) \cap seen
    <3>1. Before = Len(entries) - Len(batch) /\ Before \in Nat /\ Before <= Len(entries) /\ DOMAIN entries = 1 .. Len(entries) /\ Len(entries) \in Nat
      BY <1>2, MemoryFacts DEF Before, NightFollows
    <3> QED BY <3>1 DEF EntriesOf, OfKey
  <2>3. \A key : ReuseCount(key) = CountOf(reuse, key)
    BY DEF ReuseCount, CountOf
  <2>4. counted = {key \in BatchKeys : Cardinality(OfKey(entries, Before, key) \cap seen) > 0}
    BY <2>2
  <2> HIDE DEF counted, read, seen
  <2> QED BY <2>1, <2>2, <2>3, <2>4 DEF Recounted
<1>4. MemoryTyped'
  BY <1>1 DEF MemoryInv, MemoryTyped
<1>5. ReuseRead' = Len(entries) /\ ScoresRead' = Before /\ Before' = Before /\ BatchKeys' = BatchKeys
  BY <1>1 DEF ReuseRead, ScoresRead, Before, BatchKeys
<1>6. NightIsWritten' /\ DaysPass' /\ WholeLines'
  BY <1>1, <1>2, <1>5 DEF MemoryInv, NightIsWritten, DaysPass, WholeLines
<1>7. SidecarsHold'
  <2>1. ReuseBacked(reuse', entries, Len(entries))
    <3>1. ReuseBacked(reuse, entries, Before)
      BY <1>2 DEF MemoryInv, SidecarsHold
    <3> HIDE DEF seen, read, counted
    <3> QED BY <1>2, <1>3, <3>1, RecountIsBacked
  <2>2. ASSUME ~disturbed PROVE ReuseExact(reuse', entries, Len(entries))
    <3>1. ReuseExact(reuse, entries, Before) /\ \A i \in 1 .. Before : entries[i].day < day
      BY <1>1, <1>2, <2>2 DEF MemoryInv, SidecarsHold, DaysPass
    <3>2. day \in Int /\ \A i \in 1 .. Before : entries[i].day \in Int
      <4>1. Before \in Nat /\ Before <= Len(entries) /\ Len(entries) \in Nat
        BY <1>2, MemoryFacts DEF NightFollows
      <4> QED BY <4>1, MemoryFacts
    <3>3. 1 .. Before \subseteq seen
      BY <1>2, <2>2, LinesReadable, MemoryFacts DEF NightFollows
    <3> HIDE DEF seen, read, counted
    <3> QED BY <1>2, <1>3, <3>1, <3>2, <3>3, RecountIsExact
  <2> QED BY <1>1, <1>2, <1>5, <2>1, <2>2 DEF MemoryInv, SidecarsHold
<1> QED BY <1>4, <1>6, <1>7 DEF MemoryInv

LEMMA UpdateEnvScoresKeeps == MemoryInv /\ UpdateEnvScores => MemoryInv'
<1> SUFFICES ASSUME MemoryInv, UpdateEnvScores PROVE MemoryInv'
  OBVIOUS
<1>1. /\ step = "env" /\ step' = "tree"
      /\ UNCHANGED <<day, batch, env, entries, partial, reuse, disturbed>>
  BY DEF UpdateEnvScores, log_file
<1>2. NightFollows(entries, Before, BatchKeys, env, day) /\ ReuseRead = Len(entries) /\ ScoresRead = Before
  BY <1>1 DEF MemoryInv, NightIsWritten, ReuseRead, ScoresRead
<1>3. env_scores' = AfterNight(env_scores, entries, Before, BatchKeys, env)
  <2>1. env_scores' = IF env = NoEnvironment THEN env_scores
                      ELSE [key \in DOMAIN env_scores \cup BatchKeys |->
                              IF key \in BatchKeys
                              THEN AddToBuckets(Buckets(key), {i \in EntriesOf(key) : i > Len(entries) - Len(batch)})
                              ELSE env_scores[key]]
    BY DEF UpdateEnvScores, BatchKeys
  <2>2. \A key : {i \in EntriesOf(key) : i > Len(entries) - Len(batch)} = OfNight(entries, Before, key)
    <3>1. Before = Len(entries) - Len(batch) /\ DOMAIN entries = 1 .. Len(entries)
      BY MemoryFacts DEF Before
    <3> QED BY <3>1 DEF EntriesOf, OfNight, OfKey
  <2>3. \A key : Buckets(key) = BucketsOf(env_scores, key)
    BY DEF Buckets, BucketsOf
  <2>4. \A buckets, places : AddToBuckets(buckets, places) = Added(buckets, env, entries, places)
    BY DEF AddToBuckets, Added, Total, Scores
  <2> QED BY <2>1, <2>2, <2>3, <2>4 DEF AfterNight, Rescored
<1>4. ScoresTyped(env_scores) /\ env \in NightPlaces /\ batch \in Seq(SkillType)
  BY DEF MemoryInv, MemoryTyped
<1>5. IsFiniteSet(BatchKeys)
  <2> DEFINE f == [i \in DOMAIN batch |-> batch[i].key]
  <2>1. IsFiniteSet(DOMAIN batch)
    BY MemoryFacts, PlacesFinite
  <2>2. f \in Surjection(DOMAIN batch, BatchKeys)
    BY DEF Surjection, BatchKeys
  <2> HIDE DEF f
  <2> QED BY <2>1, <2>2, FS_Surjection
<1>6. /\ ScoresTyped(env_scores')
      /\ ScoresBacked(env_scores, entries, Before) => ScoresBacked(env_scores', entries, Len(entries))
      /\ ScoresExact(env_scores, entries, Before) => ScoresExact(env_scores', entries, Len(entries))
  BY <1>2, <1>3, <1>4, <1>5, NightIsScored DEF NightPlaces
<1>7. MemoryTyped'
  BY <1>1, <1>6 DEF MemoryInv, MemoryTyped
<1>8. ReuseRead' = Len(entries) /\ ScoresRead' = Len(entries)
  BY <1>1 DEF ReuseRead, ScoresRead
<1>9. NightIsWritten' /\ DaysPass' /\ WholeLines'
  BY <1>1 DEF MemoryInv, NightIsWritten, DaysPass, WholeLines
<1>10. SidecarsHold'
  BY <1>1, <1>2, <1>6, <1>8 DEF MemoryInv, SidecarsHold
<1> QED BY <1>7, <1>9, <1>10 DEF MemoryInv

LEMMA MemoryStutters == MemoryInv /\ UNCHANGED memory_vars => MemoryInv'
<1> SUFFICES ASSUME MemoryInv, UNCHANGED memory_vars PROVE MemoryInv'
  OBVIOUS
<1>1. UNCHANGED <<day, step, batch, env, entries, partial, reuse, env_scores, disturbed>>
  BY DEF memory_vars, log_file
<1>2. MemoryTyped' /\ WholeLines'
  BY <1>1 DEF MemoryInv, MemoryTyped, WholeLines
<1>3. NightIsWritten' /\ DaysPass' /\ SidecarsHold'
  BY <1>1 DEF MemoryInv, NightIsWritten, DaysPass, SidecarsHold, ReuseRead, ScoresRead, Before, BatchKeys
<1> QED BY <1>2, <1>3 DEF MemoryInv

\* What holds at every step of a night's end.
LEMMA MemoryHolds == MemorySpec => []MemoryInv
<1>1. MemoryInv /\ [MemoryNext]_memory_vars => MemoryInv'
  BY PromoteKeeps, AppendEntriesKeeps, UpdateReuseStatsKeeps, UpdateEnvScoresKeeps, WriteFailsKeeps,
     BuildSkillTreeKeeps, MemoryStutters DEF MemoryNext
<1> QED BY MemoryStarts, <1>1, PTL DEF MemorySpec

LEMMA LogIsRead ==
  ASSUME MemoryInv
  PROVE  /\ \A key : EntriesOf(key) = OfKey(entries, Len(entries), key)
         /\ \A key, place : {j \in EntriesOf(key) : entries[j].env = place} = OfBucket(entries, Len(entries), key, place)
         /\ \A places : Total(places) = Scores(entries, places)
<1>1. DOMAIN entries = 1 .. Len(entries)
  BY MemoryFacts
<1> QED BY <1>1 DEF EntriesOf, OfKey, OfBucket, Total, Scores

\* The mastery of an environment is the promotions made in it.
LEMMA MasteryIsEarned ==
  ASSUME MemoryInv, ScoresExact(env_scores, entries, Len(entries)), NEW place \in NightPlaces
  PROVE  Mastery(place).promotions = IF place = NoEnvironment THEN 0
           ELSE Cardinality({i \in DOMAIN entries : entries[i].env = place})
<1> DEFINE keys == {key \in DOMAIN env_scores : InBucket(key, place) # {}}
           counts == [key \in keys |-> env_scores[key][CHOOSE i \in InBucket(key, place) : TRUE].count]
<1>1. Mastery(place).promotions = SumOf(counts, keys)
  BY DEF Mastery
<1>2. keys = KeysOf(env_scores, place)
  BY DEF KeysOf, InBucket, Buckets
<1>3. ASSUME NEW key \in keys
      PROVE  \E i \in DOMAIN env_scores[key] : env_scores[key][i].env = place /\ counts[key] = env_scores[key][i].count
  <2> DEFINE i == CHOOSE j \in InBucket(key, place) : TRUE
  <2>1. i \in InBucket(key, place)
    OBVIOUS
  <2>2. i \in DOMAIN env_scores[key] /\ env_scores[key][i].env = place
    BY <2>1 DEF InBucket, Buckets
  <2>3. counts[key] = env_scores[key][i].count
    OBVIOUS
  <2> QED BY <2>2, <2>3
<1>4. ScoredLog(entries) /\ ScoresTyped(env_scores)
  BY MemoryFacts DEF MemoryInv, MemoryTyped
<1> HIDE DEF keys, counts
<1>5. /\ place \in Environments => SumOf(counts, keys) = Cardinality(MadeIn(entries, place))
      /\ place \notin Environments => SumOf(counts, keys) = 0
  <2>1. CountsOf(counts, env_scores, place)
    BY <1>2, <1>3 DEF CountsOf
  <2> QED BY <1>2, <1>4, <2>1, CountsAddUp
<1>6. place \in Environments <=> place # NoEnvironment
  BY SkillInputs DEF NightPlaces
<1>7. DOMAIN entries = 1 .. Len(entries)
  BY MemoryFacts
<1> QED BY <1>1, <1>5, <1>6, <1>7 DEF MadeIn

LEMMA SidecarsAreBacked == MemoryInv => SidecarsBackedByLog
<1> SUFFICES ASSUME MemoryInv PROVE SidecarsBackedByLog
  OBVIOUS
<1> DEFINE n == Len(entries)
<1>1. ReuseBacked(reuse, entries, n) /\ ScoresBacked(env_scores, entries, n)
  BY AllBacks
<1>2. step = "idle" /\ ~disturbed => ReuseExact(reuse, entries, n) /\ ScoresExact(env_scores, entries, n)
  BY DEF MemoryInv, SidecarsHold, ReuseRead, ScoresRead
<1> HIDE DEF n
<1>3. /\ \A key : EntriesOf(key) = OfKey(entries, n, key)
      /\ \A key, place : {j \in EntriesOf(key) : entries[j].env = place} = OfBucket(entries, n, key, place)
      /\ \A places : Total(places) = Scores(entries, places)
  BY LogIsRead DEF n
<1>4. ASSUME NEW key \in DOMAIN reuse
      PROVE  LET m == Cardinality(EntriesOf(key)) IN reuse[key] > 0 /\ 2 * reuse[key] <= m * (m - 1)
  <2>1. reuse[key] \in Nat \ {0} /\ 2 * reuse[key] <= Cardinality(OfKey(entries, n, key)) * (Cardinality(OfKey(entries, n, key)) - 1)
    BY <1>1 DEF ReuseBacked
  <2> QED BY <1>3, <2>1
<1>5. ASSUME NEW key \in DOMAIN env_scores, NEW i \in DOMAIN env_scores[key]
      PROVE  LET bucket == env_scores[key][i]
                 inEnv == {j \in EntriesOf(key) : entries[j].env = bucket.env}
             IN  /\ bucket.count <= Cardinality(inEnv) /\ bucket.total <= Total(inEnv)
                 /\ step = "idle" /\ ~disturbed => bucket.count = Cardinality(inEnv) /\ bucket.total = Total(inEnv)
  <2> DEFINE bucket == env_scores[key][i]
             inEnv == {j \in EntriesOf(key) : entries[j].env = bucket.env}
  <2>1. inEnv = OfBucket(entries, n, key, bucket.env) /\ Total(inEnv) = Scores(entries, inEnv)
    BY <1>3
  <2>2. BucketBacked(bucket, entries, inEnv)
    BY <1>1, <2>1 DEF ScoresBacked
  <2>3. step = "idle" /\ ~disturbed => BucketExact(bucket, entries, inEnv)
    BY <1>2, <2>1 DEF ScoresExact
  <2> QED BY <2>1, <2>2, <2>3 DEF BucketBacked, BucketExact
<1>6. ASSUME step = "idle", ~disturbed, NEW k \in DOMAIN entries
      PROVE  LET e == entries[k]
             IN  /\ Legible(k)
                 /\ e.env # NoEnvironment => \E i \in DOMAIN Buckets(e.key) : Buckets(e.key)[i].env = e.env
                 /\ e.key \in DOMAIN reuse <=> \E i \in EntriesOf(e.key) : entries[i].day # e.day
                 /\ Mastery(e.env).promotions = IF e.env = NoEnvironment THEN 0
                      ELSE Cardinality({i \in DOMAIN entries : entries[i].env = e.env})
  <2> DEFINE e == entries[k]
  <2>1. ReuseExact(reuse, entries, n) /\ ScoresExact(env_scores, entries, n)
    BY <1>2, <1>6
  <2>2. k \in 1 .. n /\ e = entries[k]
    BY MemoryFacts DEF n
  <2>7. Legible(k)
    BY <1>6, <2>2, LinesReadable DEF n
  <2> HIDE DEF e
  <2>3. e.env \in NightPlaces
    BY <2>2, MemoryFacts DEF n
  <2>4. e.env # NoEnvironment => \E i \in DOMAIN Buckets(e.key) : Buckets(e.key)[i].env = e.env
    BY <2>1, <2>2 DEF ScoresExact, HasBucket, Buckets
  <2>5. e.key \in DOMAIN reuse <=> \E i \in EntriesOf(e.key) : entries[i].day # e.day
    <3>1. k \in OfKey(entries, n, e.key) /\ entries[k].day = e.day
      BY <2>2 DEF OfKey
    <3>2. OnTwoDays(entries, n, e.key) <=> \E i \in OfKey(entries, n, e.key) : entries[i].day # e.day
      BY <3>1 DEF OnTwoDays
    <3>3. e.key \in DOMAIN reuse <=> OnTwoDays(entries, n, e.key)
      BY <2>1 DEF ReuseExact
    <3>4. EntriesOf(e.key) = OfKey(entries, n, e.key)
      BY <1>3
    <3> QED BY <3>2, <3>3, <3>4
  <2>6. Mastery(e.env).promotions = IF e.env = NoEnvironment THEN 0
          ELSE Cardinality({i \in DOMAIN entries : entries[i].env = e.env})
    BY <2>1, <2>3, MasteryIsEarned DEF n
  <2> QED BY <2>4, <2>5, <2>6, <2>7 DEF e
<1> QED BY <1>4, <1>5, <1>6 DEF SidecarsBackedByLog

\* The sidecars count no entry that was not appended whole to the log of promotions,
\* whatever write failed or line was torn or night was done twice, and undisturbed they
\* count all of it: for any promotions, environments and number of nights.
THEOREM SidecarsFollowLog == MemorySpec => []SidecarsBackedByLog
BY MemoryHolds, SidecarsAreBacked, PTL

=============================================================================
