---------------------------- MODULE Tools_proofs ----------------------------
(***************************************************************************)
(* Theorems about the tools around the nightly controller, for every value *)
(* of their constants and any number of runs, kills and failures: the PR   *)
(* submitter, the comparison gate, the dispatch gate with its watch, and   *)
(* the caretaker. Each tool has its specification, and its part of this    *)
(* module can be read alone.                                               *)
(***************************************************************************)
EXTENDS ComparisonGate, PrSubmitter, Dispatch, Caretaker,
        SequenceTheorems, FiniteSetTheorems, TLAPS

(***************************************************************************)
(* The PR submitter                                                        *)
(***************************************************************************)

-----------------------------------------------------------------------------
(* Lists without repetition                                                  *)

Distinct(s) == \A i, j \in DOMAIN s : s[i] = s[j] => i = j

LEMMA TailOfDistinct ==
  ASSUME NEW S, NEW s \in Seq(S), s # <<>>, Distinct(s)
  PROVE  /\ Tail(s) \in Seq(S) /\ Distinct(Tail(s)) /\ Head(s) \in S
         /\ Head(s) \in Range(s) /\ Head(s) \notin Range(Tail(s))
         /\ Range(s) = {Head(s)} \cup Range(Tail(s))
<1>1. /\ Tail(s) \in Seq(S) /\ Head(s) = s[1] /\ Len(s) \in Nat \ {0} /\ Head(s) \in S
      /\ DOMAIN s = 1 .. Len(s) /\ DOMAIN Tail(s) = 1 .. Len(s) - 1
      /\ \A i \in 1 .. Len(s) - 1 : Tail(s)[i] = s[i + 1]
  OBVIOUS
<1>2. Distinct(Tail(s)) /\ Head(s) \notin Range(Tail(s))
  BY <1>1 DEF Distinct, Range
<1>3. Range(Tail(s)) \subseteq Range(s) /\ Head(s) \in Range(s)
  BY <1>1 DEF Range
<1>4. ASSUME NEW i \in DOMAIN s, s[i] # Head(s)
      PROVE  s[i] \in Range(Tail(s))
  <2>1. i - 1 \in 1 .. Len(s) - 1 /\ Tail(s)[i - 1] = s[i]
    BY <1>1, <1>4
  <2> QED BY <1>1, <2>1 DEF Range
<1> QED BY <1>1, <1>2, <1>3, <1>4 DEF Range

-----------------------------------------------------------------------------
(* Types                                                                     *)

Types ==
    /\ PrTypeOK
    /\ todo \in Seq(Skills) /\ Distinct(todo)
    /\ pr_batch.gate \in Seq(Skills) /\ Distinct(pr_batch.gate)
    /\ unmerged \in BOOLEAN
    /\ pc \notin {"idle", "next"} => todo # <<>>

LEMMA SkillType ==
  ASSUME Types, pc \notin {"idle", "next"}
  PROVE  Skill \in Skills /\ Skill \in Range(todo) /\ Skill \notin Range(Tail(todo))
BY TailOfDistinct DEF Types, Skill

-----------------------------------------------------------------------------
(* The working directory                                                     *)

\* The submission in hand has misread the tree.
Misread == <<Skill, runs>> \in misread

\* What the skill in hand adds to its branch is its own patch, unless it misread the tree.
DirectoryInv ==
    /\ pc = "checkout" => tree = {} \/ Misread
    /\ pc = "apply" => head = Skill /\ Skill \in DOMAIN local /\ local[Skill].patches = {} /\ (tree = {} \/ Misread)
    /\ pc = "commit" =>
         /\ head = Skill /\ Skill \in DOMAIN local /\ local[Skill].patches = {}
         /\ Skill \in tree /\ (tree = {Skill} \/ Misread)
    /\ pc \in {"push", "pull"} =>
         /\ Skill \in DOMAIN local /\ local[Skill].run = runs
         /\ Skill \in local[Skill].patches /\ (local[Skill].patches = {Skill} \/ Misread)
    /\ pc = "pull" => Skill \in DOMAIN remote /\ remote[Skill].run = runs

BranchInv == Types /\ DirectoryInv /\ OwnPatchOnly

LEMMA BranchInitially == PrInit => BranchInv
<1> SUFFICES ASSUME PrInit PROVE BranchInv
  OBVIOUS
<1>1. todo \in Seq(Skills) /\ pr_batch.gate \in Seq(Skills) /\ todo = <<>> /\ pr_batch.gate = <<>>
  BY EmptySeq DEF PrInit
<1>2. Distinct(todo) /\ Distinct(pr_batch.gate)
  BY <1>1 DEF Distinct
<1>3. DOMAIN remote = {} /\ DOMAIN local = {Main} /\ local[Main].patches = {}
  BY DEF PrInit, Base
<1> QED BY <1>1, <1>2, <1>3
        DEF PrInit, BranchInv, Types, PrTypeOK, DirectoryInv, OwnPatchOnly, Branches

LEMMA SubmitKeepsBranches ==
  ASSUME BranchInv, NEW b \in Batches, SubmitPromotedSkills(b)
  PROVE  BranchInv'
<1> USE DEF BranchInv, directory, repos
<1>1. b.gate \in Seq(Skills) /\ Distinct(b.gate)
  BY PrBatches DEF Distinct
<1>2. Types'
  BY <1>1 DEF SubmitPromotedSkills, Types, PrTypeOK
<1> QED BY <1>2 DEF SubmitPromotedSkills, DirectoryInv, OwnPatchOnly

\* The steps of a skill from the look at the tree to the pull request.
LEMMA AttemptKeepsBranches ==
  ASSUME BranchInv,
         Status \/ CheckoutNewBranch \/ Apply \/ Commit \/ Push \/ CreateGitHubPR
  PROVE  BranchInv'
<1> USE DEF BranchInv, Step, Fails
<1>1. UNCHANGED <<todo, pr_batch, original, Skill>>
  BY DEF Status, CheckoutNewBranch, Apply, Commit, Push, CreateGitHubPR, CallUnchanged, Skill
<1>2. Skill \in Skills /\ todo # <<>> /\ todo \in Seq(Skills)
  BY SkillType DEF Status, CheckoutNewBranch, Apply, Commit, Push, CreateGitHubPR, Types
<1>3. CASE Status
  <2>1. /\ UNCHANGED <<head, tree, unmerged, local, remote, prs, results, runs>>
        /\ pc = "status" /\ pc' \in {"checkout", "cleanup"} /\ misread \subseteq misread'
        /\ pc' = "checkout" => tree = {} \/ <<Skill, runs>> \in misread'
    BY <1>3 DEF Status, directory, repos
  <2>2. Types'
    BY <1>1, <1>2, <2>1 DEF Types, PrTypeOK
  <2>3. OwnPatchOnly'
    BY <2>1 DEF OwnPatchOnly
  <2>4. DirectoryInv'
    BY <1>1, <2>1 DEF DirectoryInv, Misread
  <2> QED BY <2>2, <2>3, <2>4
<1>4. CASE CheckoutNewBranch
  <2>1. UNCHANGED <<tree, unmerged, remote, prs, results, misread, runs>> /\ pc = "checkout"
    BY <1>4 DEF CheckoutNewBranch, CallUnchanged, history
  <2>2. CASE pc' = "apply"
    <3>1. /\ Skill \notin DOMAIN local /\ head' = Skill /\ pc' = "apply"
          /\ local' = [b \in DOMAIN local \cup {Skill} |-> IF b = Skill THEN Base ELSE local[b]]
      BY <1>4, <2>2 DEF CheckoutNewBranch
    <3>2. /\ DOMAIN local' = DOMAIN local \cup {Skill} /\ local'[Skill].patches = {}
          /\ \A b \in DOMAIN local' : local'[b].patches \subseteq Skills
      BY <3>1 DEF Base, Types, PrTypeOK
    <3>3. Types'
      BY <1>1, <1>2, <2>1, <3>1, <3>2 DEF Types, PrTypeOK, Branches
    <3>4. tree = {} \/ Misread
      BY <2>1 DEF DirectoryInv
    <3> QED BY <1>1, <2>1, <3>1, <3>2, <3>3, <3>4 DEF DirectoryInv, Misread, OwnPatchOnly
  <2>3. CASE pc' = "cleanup"
    <3>1. UNCHANGED <<head, local>>
      BY <1>4, <2>3 DEF CheckoutNewBranch
    <3>2. Types'
      BY <1>1, <1>2, <2>1, <2>3, <3>1 DEF Types, PrTypeOK
    <3> QED BY <1>1, <2>1, <2>3, <3>1, <3>2 DEF DirectoryInv, OwnPatchOnly
  <2> QED BY <1>4, <2>2, <2>3 DEF CheckoutNewBranch
<1>5. CASE Apply
  <2>1. /\ UNCHANGED <<head, local, remote, prs, results, misread, runs>>
        /\ pc = "apply" /\ pc' \in {"commit", "cleanup"} /\ unmerged' \in {unmerged, TRUE}
    BY <1>5 DEF Apply, CallUnchanged, repos, history
  <2>2. /\ tree' \in {tree, tree \cup {Skill}}
        /\ pc' = "commit" => tree' = tree \cup {Skill}
    BY <1>5 DEF Apply
  <2>3. Types'
    BY <1>1, <1>2, <2>1, <2>2 DEF Types, PrTypeOK
  <2>4. OwnPatchOnly'
    BY <2>1 DEF OwnPatchOnly
  <2>5. DirectoryInv'
    <3>1. head = Skill /\ Skill \in DOMAIN local /\ local[Skill].patches = {} /\ (tree = {} \/ Misread)
      BY <2>1 DEF DirectoryInv
    <3> QED BY <1>1, <2>1, <2>2, <3>1 DEF DirectoryInv, Misread
  <2> QED BY <2>3, <2>4, <2>5
<1>6. CASE Commit
  <2>1. UNCHANGED <<head, unmerged, remote, prs, results, misread, runs>> /\ pc = "commit"
    BY <1>6 DEF Commit, CallUnchanged, history
  <2>2. /\ head = Skill /\ Skill \in DOMAIN local /\ local[Skill].patches = {}
        /\ Skill \in tree /\ (tree = {Skill} \/ Misread) /\ tree \subseteq Skills
    BY <2>1 DEF DirectoryInv, Types, PrTypeOK
  <2>3. CASE pc' = "push"
    <3>1. /\ tree' = {} /\ DOMAIN local' = DOMAIN local
          /\ local'[Skill].patches = tree /\ local'[Skill].run = runs
          /\ \A b \in DOMAIN local \ {Skill} : local'[b] = local[b]
      <4>1. tree' = {} /\ local' = [local EXCEPT ![head] = [patches |-> @.patches \cup tree, run |-> runs]]
        BY <1>6, <2>3 DEF Commit
      <4>2. DOMAIN local' = DOMAIN local /\ \A b \in DOMAIN local \ {Skill} : local'[b] = local[b]
        BY <2>2, <4>1
      <4>3. local'[Skill] = [patches |-> local[Skill].patches \cup tree, run |-> runs]
        BY <2>2, <4>1
      <4> QED BY <2>2, <4>1, <4>2, <4>3
    <3>2. Types'
      BY <1>1, <1>2, <2>1, <2>2, <2>3, <3>1 DEF Types, PrTypeOK
    <3>3. OwnPatchOnly'
      BY <2>1 DEF OwnPatchOnly
    <3>4. DirectoryInv'
      BY <1>1, <2>1, <2>2, <2>3, <3>1 DEF DirectoryInv, Misread
    <3> QED BY <3>2, <3>3, <3>4
  <2>4. CASE pc' = "cleanup"
    <3>1. UNCHANGED <<local, tree>>
      BY <1>6, <2>4 DEF Commit
    <3>2. Types'
      BY <1>1, <1>2, <2>1, <2>4, <3>1 DEF Types, PrTypeOK
    <3> QED BY <1>1, <2>1, <2>4, <3>1, <3>2 DEF DirectoryInv, OwnPatchOnly
  <2> QED BY <1>6, <2>3, <2>4 DEF Commit
<1>7. CASE Push
  <2>1. /\ UNCHANGED <<head, tree, unmerged, local, prs, results, misread, runs>> /\ pc = "push"
        /\ pc' \in {"pull", "cleanup"}
    BY <1>7 DEF Push, CallUnchanged, directory, history
  <2>2. \/ UNCHANGED remote /\ pc' = "cleanup"
        \/ /\ DOMAIN remote' = DOMAIN remote \cup {Skill} /\ remote'[Skill] = local[Skill]
           /\ \A b \in DOMAIN remote \ {Skill} : remote'[b] = remote[b]
    BY <1>7 DEF Push, Pushed
  <2>3. Types'
    BY <1>1, <1>2, <2>1, <2>2 DEF Types, PrTypeOK
  <2>4. /\ Skill \in DOMAIN local /\ local[Skill].run = runs
        /\ Skill \in local[Skill].patches /\ (local[Skill].patches = {Skill} \/ Misread)
    BY <2>1 DEF DirectoryInv
  <2>5. OwnPatchOnly'
    BY <2>1, <2>2, <2>4 DEF OwnPatchOnly, Misread
  <2>6. DirectoryInv'
    BY <1>1, <2>1, <2>2, <2>4 DEF DirectoryInv, Misread
  <2> QED BY <2>3, <2>5, <2>6
<1>8. CASE CreateGitHubPR
  <2>1. /\ UNCHANGED <<head, tree, unmerged, local, remote, misread, runs>> /\ pc = "pull"
        /\ pc' \in {"restore", "cleanup"} /\ prs' \subseteq prs \cup {Skill}
        /\ results' \subseteq results \cup {[skill |-> Skill, status |-> "created"]}
    BY <1>8 DEF CreateGitHubPR, Report, directory, history
  <2>2. Types'
    BY <1>1, <1>2, <2>1 DEF Types, PrTypeOK, DirectoryInv
  <2> QED BY <1>1, <2>1, <2>2 DEF DirectoryInv, OwnPatchOnly
<1> QED BY <1>3, <1>4, <1>5, <1>6, <1>7, <1>8

LEMMA EndKeepsBranches ==
  ASSUME BranchInv, NextSkill \/ Cleanup \/ Restore
  PROVE  BranchInv'
<1> USE DEF BranchInv, Step, directory, repos
<1>1. CASE NextSkill
  <2>1. Types'
    BY <1>1 DEF NextSkill, Types, PrTypeOK
  <2> QED BY <1>1, <2>1 DEF NextSkill, DirectoryInv, OwnPatchOnly, history
<1>2. CASE Cleanup
  <2>1. /\ UNCHANGED <<pr_batch, todo, original, head, tree, unmerged, remote, prs, misread, Skill>>
        /\ pc = "cleanup" /\ pc' = "restore"
        /\ results' = results \cup {[skill |-> Skill, status |-> "failed"]}
    BY <1>2 DEF Cleanup, Report, Skill, history
  <2>2. \/ head = Skill /\ UNCHANGED local
        \/ /\ head # Skill /\ DOMAIN local' = DOMAIN local \ {Skill}
           /\ \A b \in DOMAIN local' : local'[b] = local[b]
    BY <1>2 DEF Cleanup
  <2>3. Skill \in Skills /\ Skill # Main
    BY <2>1, SkillType, PrBounds
  <2>4. Types'
    BY <2>1, <2>2, <2>3 DEF Types, PrTypeOK
  <2>5. DirectoryInv'
    BY <2>1, <2>2 DEF DirectoryInv
  <2> QED BY <2>1, <2>4, <2>5 DEF OwnPatchOnly
<1>3. CASE Restore
  <2>1. /\ UNCHANGED <<pr_batch, original, results, tree, unmerged, local, remote, prs, misread>>
        /\ pc = "restore" /\ pc' = "next" /\ todo' = Tail(todo)
        /\ head' \in IF unmerged \/ original \notin DOMAIN local THEN {head}
                      ELSE IF tree = {} THEN {original} ELSE {original, head}
    BY <1>3 DEF Restore, history
  <2>2. Tail(todo) \in Seq(Skills) /\ Distinct(Tail(todo))
    BY <2>1, TailOfDistinct DEF Types
  <2>3. Types'
    BY <2>1, <2>2 DEF Types, PrTypeOK
  <2> QED BY <2>1, <2>3 DEF DirectoryInv, OwnPatchOnly
<1> QED BY <1>1, <1>2, <1>3

LEMMA StepKeepsBranches == BranchInv /\ [PrNext]_pr_vars => BranchInv'
<1> SUFFICES ASSUME BranchInv, [PrNext]_pr_vars PROVE BranchInv'
  OBVIOUS
<1> USE DEF BranchInv, directory, repos, pr_call, history
<1>1. CASE Crash
  BY <1>1 DEF Crash, Types, PrTypeOK, DirectoryInv, OwnPatchOnly
<1>2. CASE OperatorCleans
  BY <1>2 DEF OperatorCleans, Types, PrTypeOK, DirectoryInv, OwnPatchOnly
<1>3. CASE UNCHANGED pr_vars
  BY <1>3 DEF pr_vars, Types, PrTypeOK, DirectoryInv, Misread, Skill, OwnPatchOnly
<1> QED BY <1>1, <1>2, <1>3, SubmitKeepsBranches, AttemptKeepsBranches, EndKeepsBranches
        DEF PrNext, Submitter

LEMMA BranchHolds == PrSpec => []BranchInv
BY BranchInitially, StepKeepsBranches, PTL DEF PrSpec

\* A pushed branch holds the patch of its skill, and no other unless a failing status hid
\* an unclean tree from the submission that pushed it, whatever a killed run, a conflict
\* or a failed commit left behind (pr_submitter.ts 153-324): a branch is made of the
\* remote base, and one that is there is never taken again.
THEOREM BranchesHoldOwnPatch == PrSpec => []OwnPatchOnly
BY BranchHolds, PTL DEF BranchInv

-----------------------------------------------------------------------------
(* Answers                                                                   *)

Answered == {r.skill : r \in results}
Gated == Range(pr_batch.gate)

\* What was answered to be created is a request for this call's commit.
CreatedHere ==
    \A r \in results : r.status = "created" =>
        r.skill \in prs /\ r.skill \in DOMAIN remote /\ remote[r.skill].run = runs

\* In a call, the skills that are done have one answer each.
AnswerInv ==
    /\ \A r, s \in results : r.skill = s.skill => r = s
    /\ pc # "idle" => Range(todo) \subseteq Gated
    /\ pc \notin {"idle", "restore"} => Answered = Gated \ Range(todo)
    /\ pc = "restore" => Answered = Gated \ Range(Tail(todo))
    /\ CreatedHere


LEMMA AnswersInitially == PrInit => AnswerInv
BY DEF PrInit, AnswerInv, CreatedHere

\* A step that adds no answer and takes no skill.
LEMMA NoAnswer ==
  ASSUME AnswerInv, CreatedHere', UNCHANGED <<results, todo, pr_batch>>, pc # "restore", pc' # "restore",
         pc = "idle" => pc' = "idle"
  PROVE  AnswerInv'
BY DEF AnswerInv, Answered, Gated

\* The skill in hand gets its answer.
LEMMA OneAnswer ==
  ASSUME AnswerInv, Types, NEW status, UNCHANGED <<todo, pr_batch>>,
         results' = results \cup {[skill |-> Skill, status |-> status]},
         pc \notin {"idle", "next", "restore"}, pc' = "restore", CreatedHere'
  PROVE  AnswerInv'
<1>1. Range(todo) = {Skill} \cup Range(Tail(todo)) /\ Skill \notin Range(Tail(todo))
  BY TailOfDistinct DEF Types, Skill
<1>2. Answered' = Answered \cup {Skill}
  <2> DEFINE answer == [skill |-> Skill, status |-> status]
  <2>1. answer.skill = Skill
    OBVIOUS
  <2>2. ASSUME NEW x \in Answered' PROVE x \in Answered \cup {Skill}
    <3>1. PICK r \in results' : x = r.skill
      BY <2>2 DEF Answered
    <3>2. r \in results \/ r = answer
      OBVIOUS
    <3> HIDE DEF answer
    <3> QED BY <2>1, <3>1, <3>2 DEF Answered
  <2>3. answer \in results' /\ results \subseteq results'
    OBVIOUS
  <2> HIDE DEF answer
  <2>4. ASSUME NEW x \in Answered \cup {Skill} PROVE x \in Answered'
    BY <2>1, <2>3, <2>4 DEF Answered
  <2> QED BY <2>2, <2>4
<1>3. Answered = Gated \ Range(todo) /\ Skill \in Gated
  BY <1>1 DEF AnswerInv
<1>4. \A r \in results : r.skill # Skill
  BY <1>1, <1>3 DEF Answered
<1>5. \A r, s \in results' : r.skill = s.skill => r = s
  BY <1>4 DEF AnswerInv
<1>6. Answered' = Gated' \ Range(Tail(todo))'
  BY <1>1, <1>2, <1>3 DEF Gated
<1> QED BY <1>5, <1>6 DEF AnswerInv, Gated

\* What is pushed and requested stays, and what is answered to be created was.
LEMMA StepKeepsCreated ==
  ASSUME CreatedHere, BranchInv, [PrNext]_pr_vars
  PROVE  CreatedHere'
<1> USE DEF Step, Fails, CallUnchanged, repos, directory, history
<1>1. ASSUME NEW b \in Batches, SubmitPromotedSkills(b) PROVE CreatedHere'
  BY <1>1 DEF SubmitPromotedSkills, CreatedHere
<1>2. CASE Status \/ CheckoutNewBranch \/ Apply \/ Commit \/ NextSkill \/ Restore \/ Crash \/ OperatorCleans
  <2>1. UNCHANGED <<results, prs, remote, runs>>
    BY <1>2 DEF Status, CheckoutNewBranch, Apply, Commit, NextSkill, Restore, Crash, OperatorCleans, pr_call
  <2> QED BY <2>1 DEF CreatedHere
<1>3. CASE Push
  <2>1. UNCHANGED <<results, prs, runs>>
    BY <1>3 DEF Push
  <2>2. DOMAIN remote \subseteq DOMAIN remote' /\ \A b \in DOMAIN remote : remote'[b] = remote[b]
    BY <1>3 DEF Push, Pushed
  <2> QED BY <2>1, <2>2 DEF CreatedHere
<1>4. CASE CreateGitHubPR
  <2>1. UNCHANGED <<remote, runs>> /\ pc = "pull" /\ prs \subseteq prs'
        /\ (results' = results \/ (Skill \in prs' /\ results' = results \cup {[skill |-> Skill, status |-> "created"]}))
    BY <1>4 DEF CreateGitHubPR, Report
  <2>2. Skill \in DOMAIN remote /\ remote[Skill].run = runs
    BY <2>1 DEF BranchInv, DirectoryInv
  <2> DEFINE answer == [skill |-> Skill, status |-> "created"]
  <2>3. answer.skill = Skill
    OBVIOUS
  <2>4. results' = results \/ (Skill \in prs' /\ results' = results \cup {answer})
    BY <2>1
  <2> HIDE DEF answer
  <2> QED BY <2>1, <2>2, <2>3, <2>4 DEF CreatedHere
<1>5. CASE Cleanup
  <2> DEFINE answer == [skill |-> Skill, status |-> "failed"]
  <2>1. UNCHANGED <<remote, prs, runs>> /\ results' = results \cup {answer} /\ answer.status = "failed"
    BY <1>5 DEF Cleanup, Report
  <2> HIDE DEF answer
  <2> QED BY <2>1 DEF CreatedHere
<1>6. CASE UNCHANGED pr_vars
  BY <1>6 DEF pr_vars, pr_call, CreatedHere
<1> QED BY <1>1, <1>2, <1>3, <1>4, <1>5, <1>6 DEF PrNext, Submitter

LEMMA StepKeepsAnswers == AnswerInv /\ BranchInv /\ [PrNext]_pr_vars => AnswerInv'
<1> SUFFICES ASSUME AnswerInv, Types, CreatedHere', [PrNext]_pr_vars PROVE AnswerInv'
  BY StepKeepsCreated DEF BranchInv, AnswerInv
<1> USE DEF Step, Fails, CallUnchanged, pr_call
<1>1. ASSUME NEW b \in Batches, SubmitPromotedSkills(b)
      PROVE  AnswerInv'
  BY <1>1 DEF SubmitPromotedSkills, AnswerInv, Answered, Gated
<1>2. CASE Status \/ CheckoutNewBranch \/ Apply \/ Commit \/ Push \/ NextSkill
  BY <1>2, NoAnswer DEF Status, CheckoutNewBranch, Apply, Commit, Push, NextSkill
<1>3. CASE CreateGitHubPR
  <2>1. UNCHANGED <<todo, pr_batch>> /\ pc = "pull"
    BY <1>3 DEF CreateGitHubPR
  <2>2. CASE pc' = "restore"
    BY <1>3, <2>1, <2>2, OneAnswer DEF CreateGitHubPR, Report
  <2>3. CASE pc' = "cleanup"
    BY <1>3, <2>1, <2>3, NoAnswer DEF CreateGitHubPR
  <2> QED BY <1>3, <2>2, <2>3 DEF CreateGitHubPR
<1>4. CASE Cleanup
  BY <1>4, OneAnswer DEF Cleanup, Report
<1>5. CASE Restore
  <2>1. /\ UNCHANGED <<pr_batch, results>> /\ pc = "restore" /\ pc' = "next" /\ todo' = Tail(todo)
    BY <1>5 DEF Restore
  <2>2. Range(Tail(todo)) \subseteq Range(todo)
    BY <2>1, TailOfDistinct DEF Types
  <2> QED BY <2>1, <2>2 DEF AnswerInv, Answered, Gated
<1>6. CASE Crash
  BY <1>6 DEF Crash, AnswerInv
<1>7. CASE OperatorCleans
  BY <1>7, NoAnswer DEF OperatorCleans
<1>8. CASE UNCHANGED pr_vars
  BY <1>8 DEF pr_vars, AnswerInv, Answered, Gated
<1> QED BY <1>1, <1>2, <1>3, <1>4, <1>5, <1>6, <1>7, <1>8 DEF PrNext, Submitter

\* A call that comes to its end has answered exactly once for each skill of the gate,
\* and "created" only of a request for a commit of its own (pr_submitter.ts 166-321).
THEOREM CallsAnswerTruly == PrSpec => []AnswersAreTrue
<1>1. PrSpec => []AnswerInv
  BY AnswersInitially, StepKeepsAnswers, BranchHolds, PTL DEF PrSpec
<1>2. ASSUME AnswerInv PROVE AnswersAreTrue
  <2> SUFFICES ASSUME pc = "next", todo = <<>>, NEW i \in DOMAIN pr_batch.gate
               PROVE  \E r \in results : \A other \in results : other.skill = pr_batch.gate[i] <=> other = r
    BY <1>2 DEF AnswersAreTrue, AnswerInv, CreatedHere
  <2>1. Range(todo) = {}
    BY DEF Range
  <2>2. pr_batch.gate[i] \in Answered
    BY <1>2, <2>1 DEF AnswerInv, Gated, Range
  <2>3. PICK r \in results : r.skill = pr_batch.gate[i]
    BY <2>2 DEF Answered
  <2> QED BY <1>2, <2>3 DEF AnswerInv
<1> QED BY <1>1, <1>2, PTL

(***************************************************************************)
(* The comparison gate                                                     *)
(***************************************************************************)

-----------------------------------------------------------------------------
(* Types                                                                     *)

GateDecisions == {"ACCEPT", "REVIEW_REQUIRED", "REJECT"}
GateResult ==
    [run : Nat, prev : Nat, decision : GateDecisions, freeze : BOOLEAN, dry : BOOLEAN, human : BOOLEAN]
Line == [result : GateResult, readable : BOOLEAN]

GateTypes ==
    /\ gate = IdleGate \/ gate \in [step : {"freeze", "write", "append"}, result : GateResult]
    /\ decisions \in Seq(Line)
    /\ unended \in BOOLEAN /\ frozen \in BOOLEAN /\ gate_upset \in BOOLEAN
    /\ gate_runs \in Nat

LastLine == decisions[Len(decisions)]

\* A run that has passed its freeze has frozen what it should.
FreezeMade(result) == result.freeze => result.dry \/ frozen

\* Line i names the line above, if it can be read.
LineChained(i) ==
    decisions[i].readable =>
        /\ IF i = 1 THEN decisions[i].result.prev = 0
           ELSE decisions[i - 1].readable /\ decisions[i].result.prev = decisions[i - 1].result.run
        /\ FreezeMade(decisions[i].result)

\* What the chain rests on: a newline is missing only after the one failure, until
\* which every line can be read and the result file is the last line's.
LedgerInv ==
    /\ GateTypes
    /\ \A i \in DOMAIN decisions : LineChained(i)
    /\ gate.step \in {"write", "append"} => FreezeMade(gate.result)
    /\ unended => gate_upset /\ decisions # <<>>
    /\ ~gate_upset => \A i \in DOMAIN decisions : decisions[i].readable
    /\ ~gate_upset /\ gate.step = "append" => gate_result = gate.result
    /\ ~gate_upset /\ gate.step # "append" /\ decisions # <<>> => gate_result.run = LastLine.result.run

LEMMA LastIsLine ==
  ASSUME GateTypes, decisions # <<>>
  PROVE  Len(decisions) \in Nat \ {0} /\ DOMAIN decisions = 1 .. Len(decisions)
         /\ Len(decisions) \in DOMAIN decisions /\ LastLine \in Line
<1>1. Len(decisions) \in Nat \ {0} /\ DOMAIN decisions = 1 .. Len(decisions)
  BY EmptySeq, LenProperties DEF GateTypes
<1>2. Len(decisions) \in DOMAIN decisions
  BY <1>1
<1> QED BY <1>1, <1>2, ElementOfSeq DEF GateTypes, LastLine

\* What a new line may name: the last one, which can be read.
LEMMA LastHash ==
  ASSUME GateTypes, NEW prev \in LastLedgerHash
  PROVE  /\ prev \in Nat
         /\ decisions = <<>> => prev = 0
         /\ decisions # <<>> => LastLine.readable /\ prev = LastLine.result.run
<1>1. CASE decisions = <<>>
  BY <1>1 DEF LastLedgerHash
<1>2. CASE decisions # <<>>
  <2>1. LastLine.readable /\ prev = LastLine.result.run
    BY <1>2 DEF LastLedgerHash, LastLine
  <2> QED BY <1>2, <2>1, LastIsLine DEF Line, GateResult
<1> QED BY <1>1, <1>2

-----------------------------------------------------------------------------
(* One line more                                                             *)

\* A result of the run at hand, linked to the last line, is a line of the chain.
LEMMA Linked ==
  ASSUME LedgerInv, gate.step = "append", NEW prev \in LastLedgerHash, NEW whole \in BOOLEAN,
         decisions' = Append(decisions, [result |-> [gate.result EXCEPT !.prev = prev], readable |-> whole]),
         UNCHANGED frozen
  PROVE  /\ decisions' \in Seq(Line) /\ decisions' # <<>>
         /\ \A i \in DOMAIN decisions' : LineChained(i)'
         /\ LastLine'.result.run = gate.result.run
         /\ whole /\ (\A i \in DOMAIN decisions : decisions[i].readable)
              => \A i \in DOMAIN decisions' : decisions'[i].readable
<1> DEFINE line == [result |-> [gate.result EXCEPT !.prev = prev], readable |-> whole]
           n == Len(decisions)
<1>0. GateTypes /\ gate.result \in GateResult /\ prev \in Nat
  BY LastHash DEF LedgerInv, GateTypes, IdleGate
<1>1. /\ line \in Line /\ line.readable = whole
      /\ line.result.prev = prev /\ line.result.run = gate.result.run
      /\ line.result.freeze = gate.result.freeze /\ line.result.dry = gate.result.dry
  BY <1>0 DEF Line, GateResult
<1>2. /\ decisions' \in Seq(Line) /\ Len(decisions') = n + 1 /\ decisions' # <<>>
      /\ \A i \in 1 .. n : decisions'[i] = decisions[i]
      /\ decisions'[n + 1] = line
  <2> decisions' = Append(decisions, line)
    OBVIOUS
  <2> HIDE DEF line
  <2> QED BY <1>0, <1>1, AppendProperties DEF GateTypes
<1>3. n \in Nat /\ DOMAIN decisions = 1 .. n /\ DOMAIN decisions' = 1 .. n + 1
  BY <1>0, <1>2, LenProperties DEF GateTypes
<1>4. line.result.freeze => line.result.dry \/ frozen'
  BY <1>1 DEF LedgerInv, FreezeMade
<1>5. IF n = 0 THEN prev = 0 ELSE decisions[n].readable /\ prev = decisions[n].result.run
  BY <1>0, LastHash, EmptySeq, LastIsLine DEF LastLine, GateTypes
<1> HIDE DEF line, n
<1>6. ASSUME NEW i \in DOMAIN decisions'
      PROVE  LineChained(i)'
  <2>1. CASE i = n + 1
    <3>1. i - 1 = n
      BY <1>3, <2>1
    <3>2. n # 0 => decisions'[i - 1] = decisions[n]
      BY <1>2, <1>3, <3>1
    <3>3. n = 0 <=> i = 1
      BY <1>3, <2>1
    <3> QED BY <1>1, <1>2, <1>4, <1>5, <2>1, <3>1, <3>2, <3>3 DEF LineChained, FreezeMade
  <2>2. CASE i # n + 1
    <3>1. i \in 1 .. n /\ decisions'[i] = decisions[i] /\ (i # 1 => decisions'[i - 1] = decisions[i - 1])
      BY <1>2, <1>3, <2>2
    <3>2. LineChained(i)
      BY <1>3, <3>1 DEF LedgerInv
    <3> QED BY <3>1, <3>2 DEF LineChained, FreezeMade
  <2> QED BY <2>1, <2>2
<1>7. LastLine' = line
  BY <1>2 DEF LastLine
<1>8. ASSUME whole, \A i \in DOMAIN decisions : decisions[i].readable, NEW i \in DOMAIN decisions'
      PROVE  decisions'[i].readable
  BY <1>1, <1>2, <1>3, <1>8
<1> QED BY <1>1, <1>2, <1>6, <1>7, <1>8

\* A line that cannot be read takes the place of the last one.
LEMMA Glued ==
  ASSUME LedgerInv, decisions # <<>>, NEW line \in Line, ~line.readable,
         decisions' = Append(SubSeq(decisions, 1, Len(decisions) - 1), line), UNCHANGED frozen
  PROVE  decisions' \in Seq(Line) /\ \A i \in DOMAIN decisions' : LineChained(i)'
<1> DEFINE n == Len(decisions) - 1
           above == SubSeq(decisions, 1, n)
<1>1. n \in Nat /\ DOMAIN decisions = 1 .. n + 1
  BY LastIsLine DEF LedgerInv
<1>2. /\ above \in Seq(Line) /\ Len(above) = n
      /\ \A i \in 1 .. n : above[i] = decisions[i]
  <2>1. \A i \in 1 .. n : decisions[i] \in Line
    BY <1>1, ElementOfSeq DEF LedgerInv, GateTypes
  <2> HIDE DEF n
  <2>2. above \in Seq(Line) /\ Len(above) = (IF 1 <= n THEN n - 1 + 1 ELSE 0)
        /\ \A i \in 1 .. n - 1 + 1 : above[i] = decisions[1 + i - 1]
    BY <1>1, <2>1, SubSeqProperties
  <2> HIDE DEF above
  <2> QED BY <1>1, <2>2
<1>3. /\ decisions' \in Seq(Line) /\ Len(decisions') = n + 1
      /\ \A i \in 1 .. n : decisions'[i] = decisions[i]
      /\ decisions'[n + 1] = line
  <2> decisions' = Append(above, line)
    OBVIOUS
  <2> HIDE DEF above, n
  <2> QED BY <1>2, AppendProperties
<1>4. DOMAIN decisions' = 1 .. n + 1
  BY <1>3, LenProperties
<1> HIDE DEF n
<1>5. ASSUME NEW i \in DOMAIN decisions'
      PROVE  LineChained(i)'
  <2>1. CASE i = n + 1
    BY <1>3, <2>1 DEF LineChained
  <2>2. CASE i # n + 1
    <3>1. i \in 1 .. n /\ decisions'[i] = decisions[i] /\ (i # 1 => decisions'[i - 1] = decisions[i - 1])
      BY <1>1, <1>3, <1>4, <2>2
    <3>2. LineChained(i)
      BY <1>1, <3>1 DEF LedgerInv
    <3> QED BY <3>1, <3>2 DEF LineChained, FreezeMade
  <2> QED BY <2>1, <2>2
<1> QED BY <1>3, <1>5

-----------------------------------------------------------------------------
(* The invariant                                                             *)

LEMMA LedgerInitially == ComparisonInit => LedgerInv
<1> SUFFICES ASSUME ComparisonInit PROVE LedgerInv
  OBVIOUS
<1>1. GateTypes /\ gate.step = "idle" /\ decisions = <<>>
  BY EmptySeq DEF ComparisonInit, GateTypes, IdleGate
<1>2. DOMAIN decisions = {}
  BY <1>1
<1> QED BY <1>1, <1>2 DEF LedgerInv, ComparisonInit

\* A step that writes no line and unfreezes nothing keeps the chain.
LEMMA NoLine ==
  ASSUME LedgerInv, UNCHANGED decisions, frozen => frozen'
  PROVE  \A i \in DOMAIN decisions' : LineChained(i)'
BY DEF LedgerInv, LineChained, FreezeMade

LEMMA AppendKeepsLedger == LedgerInv /\ AppendDecisionLedger => LedgerInv'
<1> SUFFICES ASSUME LedgerInv, AppendDecisionLedger PROVE LedgerInv'
  OBVIOUS
<1>1. /\ gate.step = "append" /\ ~unended' /\ gate' = IdleGate
      /\ UNCHANGED <<gate_result, frozen, gate_runs, gate_upset>>
  BY DEF AppendDecisionLedger
<1>2. PICK prev \in LastLedgerHash :
        LET line == [result |-> [gate.result EXCEPT !.prev = prev], readable |-> ~unended]
        IN  decisions' = Append(IF unended THEN SubSeq(decisions, 1, Len(decisions) - 1) ELSE decisions, line)
  BY DEF AppendDecisionLedger
<1>3. GateTypes /\ gate.result \in GateResult
  BY <1>1 DEF LedgerInv, GateTypes, IdleGate
<1>4. CASE ~unended
  <2>1. decisions' = Append(decisions, [result |-> [gate.result EXCEPT !.prev = prev], readable |-> TRUE])
    BY <1>2, <1>4
  <2>2. /\ decisions' \in Seq(Line)
        /\ \A i \in DOMAIN decisions' : LineChained(i)'
        /\ LastLine'.result.run = gate.result.run
        /\ (\A i \in DOMAIN decisions : decisions[i].readable) => \A i \in DOMAIN decisions' : decisions'[i].readable
    BY <1>1, <2>1, Linked
  <2>3. GateTypes'
    BY <1>1, <1>3, <2>2 DEF GateTypes, AppendDecisionLedger
  <2> QED BY <1>1, <2>2, <2>3 DEF LedgerInv, IdleGate
<1>5. CASE unended
  <2> DEFINE line == [result |-> [gate.result EXCEPT !.prev = prev], readable |-> FALSE]
  <2>1. line \in Line /\ ~line.readable
    BY <1>3, LastHash DEF Line, GateResult
  <2>2. decisions' = Append(SubSeq(decisions, 1, Len(decisions) - 1), line)
    BY <1>2, <1>5
  <2> HIDE DEF line
  <2>3. gate_upset /\ decisions # <<>>
    BY <1>5 DEF LedgerInv
  <2>4. decisions' \in Seq(Line) /\ \A i \in DOMAIN decisions' : LineChained(i)'
    BY <1>1, <2>1, <2>2, <2>3, Glued
  <2>5. GateTypes'
    BY <1>1, <1>3, <2>4 DEF GateTypes, AppendDecisionLedger
  <2> QED BY <1>1, <2>3, <2>4, <2>5 DEF LedgerInv, IdleGate
<1> QED BY <1>3, <1>4, <1>5 DEF GateTypes

LEMMA DeathKeepsLedger == LedgerInv /\ RunDies => LedgerInv'
<1> SUFFICES ASSUME LedgerInv, RunDies PROVE LedgerInv'
  OBVIOUS
<1>1. GateTypes /\ gate' = IdleGate /\ gate_upset' /\ UNCHANGED <<frozen, gate_runs>>
  BY DEF RunDies, LedgerInv
<1>2. CASE UNCHANGED <<decisions, unended>>
  <2>1. \A i \in DOMAIN decisions' : LineChained(i)'
    BY <1>1, <1>2, NoLine
  <2> QED BY <1>1, <1>2, <2>1 DEF LedgerInv, GateTypes, IdleGate
<1>3. ASSUME gate.step = "append", unended' = TRUE, NEW prev \in LastLedgerHash, NEW whole \in BOOLEAN,
             decisions' = Append(decisions, [result |-> [gate.result EXCEPT !.prev = prev], readable |-> whole])
      PROVE  LedgerInv'
  <2>1. /\ decisions' \in Seq(Line) /\ decisions' # <<>>
        /\ \A i \in DOMAIN decisions' : LineChained(i)'
    BY <1>1, <1>3, Linked
  <2> QED BY <1>1, <1>3, <2>1 DEF LedgerInv, GateTypes, IdleGate
<1> QED BY <1>2, <1>3 DEF RunDies

\* What a run finds is a result.
LEMMA FoundIsResult ==
  ASSUME GateTypes, RunGate
  PROVE  gate' \in [step : {"freeze"}, result : GateResult] /\ gate_runs' \in Nat
<1>1. \A table, rules : EnforceComparisonPolicy(table, rules) \in GateDecisions
  BY DEF EnforceComparisonPolicy, GateDecisions
<1>2. gate_runs' \in Nat
  BY DEF RunGate, GateTypes
<1>3. PICK table \in Tables, before \in Tables \cup {NoTable}, raw \in Profiles, dry \in BOOLEAN :
        LET rules == NormalizePolicy(raw)
            decision == EnforceComparisonPolicy(table, rules)
            risky == before # NoTable /\ HighestRisk(before, table) \in rules.freeze_on_risk_levels
        IN  gate' = [step |-> "freeze",
                     result |-> [run |-> gate_runs', prev |-> 0, decision |-> decision,
                                 freeze |-> decision = "REJECT" \/ risky, dry |-> dry,
                                 human |-> decision \in rules.requires_human_on_decisions]]
  BY DEF RunGate
<1> QED BY <1>1, <1>2, <1>3 DEF GateResult

LEMMA StepKeepsLedger == LedgerInv /\ [ComparisonNext]_comparison_vars => LedgerInv'
<1> SUFFICES ASSUME LedgerInv, [ComparisonNext]_comparison_vars PROVE LedgerInv'
  OBVIOUS
<1>0. GateTypes
  BY DEF LedgerInv
<1>1. CASE RunGate
  <2>1. UNCHANGED <<decisions, unended, gate_result, frozen, gate_upset>> /\ gate.step = "idle"
    BY <1>1 DEF RunGate
  <2>2. \A i \in DOMAIN decisions' : LineChained(i)'
    BY <2>1, NoLine
  <2> QED BY <1>0, <1>1, <2>1, <2>2, FoundIsResult DEF LedgerInv, GateTypes, LastLine
<1>2. CASE TriggerSystemFreeze
  <2>1. /\ UNCHANGED <<decisions, unended, gate_result, gate_runs, gate_upset>> /\ gate.step = "freeze"
        /\ frozen' = (frozen \/ (gate.result.freeze /\ ~gate.result.dry))
        /\ gate' = [gate EXCEPT !.step = "write"]
    BY <1>2 DEF TriggerSystemFreeze
  <2>2. \A i \in DOMAIN decisions' : LineChained(i)'
    BY <2>1, NoLine
  <2>3. /\ gate' \in [step : {"write"}, result : GateResult] /\ gate'.result = gate.result
        /\ gate.result \in GateResult /\ frozen' \in BOOLEAN
    BY <1>0, <2>1 DEF GateTypes, IdleGate
  <2>4. FreezeMade(gate.result)'
    BY <2>1, <2>3 DEF FreezeMade, GateResult
  <2> QED BY <1>0, <2>1, <2>2, <2>3, <2>4 DEF LedgerInv, GateTypes, LastLine
<1>3. CASE WriteGateResult
  <2>1. /\ UNCHANGED <<decisions, unended, frozen, gate_runs, gate_upset>> /\ gate.step = "write"
        /\ gate_result' = gate.result /\ gate' = [gate EXCEPT !.step = "append"]
    BY <1>3 DEF WriteGateResult
  <2>2. \A i \in DOMAIN decisions' : LineChained(i)'
    BY <2>1, NoLine
  <2>3. gate' \in [step : {"append"}, result : GateResult] /\ gate'.result = gate.result
    BY <1>0, <2>1 DEF GateTypes, IdleGate
  <2>4. FreezeMade(gate.result)'
    BY <2>1, <2>3 DEF LedgerInv, FreezeMade
  <2> QED BY <1>0, <2>1, <2>2, <2>3, <2>4 DEF LedgerInv, GateTypes
<1>4. CASE AppendDecisionLedger
  BY <1>4, AppendKeepsLedger
<1>5. CASE LedgerUnreadable
  <2>1. /\ UNCHANGED <<decisions, unended, gate_result, frozen, gate_runs, gate_upset>>
        /\ gate.step = "append" /\ LastLedgerHash = {} /\ gate' = IdleGate
    BY <1>5 DEF LedgerUnreadable
  <2>2. \A i \in DOMAIN decisions' : LineChained(i)'
    BY <2>1, NoLine
  <2>3. decisions # <<>> /\ ~LastLine.readable
    BY <2>1 DEF LastLedgerHash, LastLine
  <2>4. gate_upset
    BY <1>0, <2>3, LastIsLine DEF LedgerInv, LastLine
  <2> QED BY <1>0, <2>1, <2>2, <2>4 DEF LedgerInv, GateTypes, IdleGate
<1>6. CASE RunDies
  BY <1>6, DeathKeepsLedger
<1>7. CASE UNCHANGED comparison_vars
  BY <1>7 DEF comparison_vars, LedgerInv, GateTypes, LineChained, FreezeMade, LastLine
<1> QED BY <1>1, <1>2, <1>3, <1>4, <1>5, <1>6, <1>7 DEF ComparisonNext

\* The decision ledger stays evidence (comparison_gate_cli.ts 106-222): each line that
\* can be read names the line above, which can be read too, wherever a run died or a
\* write was cut short; what a line says should freeze was frozen first; and until
\* something fails the result file is what the last line says.
THEOREM LedgerStaysChained == ComparisonSpec => []DecisionsChained
<1>1. LedgerInv => DecisionsChained
  BY DEF LedgerInv, DecisionsChained, LineChained, FreezeMade, LastLine
<1> QED BY <1>1, LedgerInitially, StepKeepsLedger, PTL DEF ComparisonSpec

(***************************************************************************)
(* The dispatch gate and its watch                                         *)
(***************************************************************************)

Refusals == {"missing_required_context", "schema_validation_failed", "unknown_dispatch_failure"}
AuditLine == [event : Nat, result : {"validated"} \cup Refusals, readable : BOOLEAN]
GateStatuses == {"ATTENTION_REQUIRED", "PASS", "WATCH", "FAIL", "PENDING_BASELINE"}
GateActions == {"manual_review_required", "add_weekly_review_note", "wait_for_baseline_completion",
                "monitor_dispatch_data", "none"}
GateRecord == [status : GateStatuses, action : GateActions, read : Nat]

CallTypes ==
    /\ call \in [step : {"idle", "validate", "dispatch", "refused"}, request : Requests \cup {None},
                 reason : {"none"} \cup Refusals]
    /\ requests \in Nat
    /\ audit \in Seq(AuditLine)
    /\ fragment \in BOOLEAN /\ upset \in BOOLEAN

\* The request in hand has no line before it is validated or refused, and it is
\* delivered last of all. A line is lost to a reader only when something had failed.
CallInv ==
    /\ CallTypes
    /\ \A i \in DOMAIN audit : audit[i].event <= requests
    /\ call.step \in {"validate", "refused"} => \A i \in DOMAIN audit : audit[i].event # requests
    /\ call.step = "refused" => call.reason \in Refusals
    /\ call.step = "dispatch" =>
         /\ \E i \in DOMAIN audit : /\ audit[i].event = requests /\ audit[i].result = "validated"
                                    /\ ~upset => audit[i].readable
         /\ \A i \in DOMAIN audit : audit[i].event = requests => audit[i].result = "validated"
    /\ \A d \in delivered : d.event <= requests /\ (call.step # "idle" => d.event < requests)
    /\ ~upset => ~fragment /\ \A i \in DOMAIN audit : audit[i].readable

DeliveryInv == CallInv /\ DeliveredIsAudited

\* One line more.
LEMMA OneLineMore ==
  ASSUME CallTypes, NEW result \in {"validated"} \cup Refusals, AppendAudit(result)
  PROVE  /\ audit' \in Seq(AuditLine) /\ Len(audit') = Len(audit) + 1 /\ Len(audit) \in Nat
         /\ DOMAIN audit = 1 .. Len(audit) /\ DOMAIN audit' = DOMAIN audit \cup {Len(audit) + 1}
         /\ \A i \in DOMAIN audit : audit'[i] = audit[i]
         /\ LET line == audit'[Len(audit) + 1]
            IN  line.event = requests /\ line.result = result /\ line.readable = ~fragment
         /\ fragment' = FALSE
<1> DEFINE line == [event |-> requests, result |-> result, readable |-> ~fragment]
<1>1. line \in AuditLine /\ line.event = requests /\ line.result = result /\ line.readable = ~fragment
  BY DEF CallTypes, AuditLine
<1>2. audit' = Append(audit, line) /\ fragment' = FALSE
  BY DEF AppendAudit
<1> HIDE DEF line
<1>3. /\ audit' \in Seq(AuditLine) /\ Len(audit') = Len(audit) + 1
      /\ \A i \in 1 .. Len(audit) : audit'[i] = audit[i]
      /\ audit'[Len(audit) + 1] = line
  BY <1>1, <1>2, AppendProperties DEF CallTypes
<1>4. Len(audit) \in Nat /\ DOMAIN audit = 1 .. Len(audit) /\ DOMAIN audit' = 1 .. Len(audit) + 1
  BY <1>3, LenProperties DEF CallTypes
<1>5. 1 .. Len(audit) + 1 = 1 .. Len(audit) \cup {Len(audit) + 1}
  BY <1>4
<1> QED BY <1>1, <1>2, <1>3, <1>4, <1>5

LEMMA DeliveryInitially == DispatchInit => DeliveryInv
<1> SUFFICES ASSUME DispatchInit PROVE DeliveryInv
  OBVIOUS
<1>1. audit = <<>> /\ audit \in Seq(AuditLine) /\ DOMAIN audit = {} /\ delivered = {}
  BY EmptySeq DEF DispatchInit
<1> QED BY <1>1 DEF DispatchInit, DeliveryInv, CallInv, CallTypes, DeliveredIsAudited

\* A line of the request in hand takes nothing from those delivered before it.
LEMMA OldDeliveries ==
  ASSUME DeliveryInv, call.step # "idle", NEW result \in {"validated"} \cup Refusals, AppendAudit(result),
         UNCHANGED <<delivered, upset>>
  PROVE  DeliveredIsAudited'
<1> SUFFICES ASSUME NEW d \in delivered
             PROVE  /\ \E i \in DOMAIN audit' : /\ audit'[i].event = d.event /\ audit'[i].result = "validated"
                                                /\ ~upset => audit'[i].readable
                    /\ \A i \in DOMAIN audit' : audit'[i].event = d.event => audit'[i].result = "validated"
  BY DEF DeliveryInv, DeliveredIsAudited
<1>1. CallTypes /\ d.event < requests /\ d.event # requests
  BY DEF DeliveryInv, CallInv, CallTypes
<1>2. /\ \E i \in DOMAIN audit : /\ audit[i].event = d.event /\ audit[i].result = "validated"
                                 /\ ~upset => audit[i].readable
      /\ \A i \in DOMAIN audit : audit[i].event = d.event => audit[i].result = "validated"
  BY DEF DeliveryInv, DeliveredIsAudited
<1>3. /\ DOMAIN audit' = DOMAIN audit \cup {Len(audit) + 1}
      /\ \A i \in DOMAIN audit : audit'[i] = audit[i]
      /\ audit'[Len(audit) + 1].event = requests
  BY <1>1, OneLineMore
<1> QED BY <1>1, <1>2, <1>3

\* What deletes or changes something global is of high risk.
LEMMA GlobalChangesWarned ==
  ASSUME NEW request, request.blast = "GLOBAL", request.operation \in {"DELETE", "UPDATE"}
  PROVE  /\ InjectedCapsules(request) = Prohibitions + (IF Uncorrected # {} THEN 1 ELSE 0)
         /\ NegativePrecedents(request) \subseteq Uncorrected
         /\ \A i \in Uncorrected \ NegativePrecedents(request) : Cardinality(Ahead(i)) >= MaxPrecedents
<1>1. RiskLevel(request) \in {"high", "critical"}
  BY DEF RiskLevel, RiskOrder
<1>2. ASSUME NEW i \in Uncorrected \ NegativePrecedents(request) PROVE Cardinality(Ahead(i)) >= MaxPrecedents
  <2>1. DOMAIN Rejections = 1 .. Len(Rejections) /\ Len(Rejections) \in Nat /\ MaxPrecedents \in Nat
    BY DispatchInputs, LenProperties
  <2>2. IsFiniteSet(DOMAIN Rejections)
    <3>1. 1 \in Int /\ Len(Rejections) \in Int
      BY <2>1
    <3>2. IsFiniteSet(1 .. Len(Rejections))
      BY ONLY <3>1, FS_Interval
    <3> QED BY <2>1, <3>2
  <2>3. Ahead(i) \subseteq DOMAIN Rejections
    BY DEF Ahead, Uncorrected
  <2>4. Cardinality(Ahead(i)) \in Nat
    BY <2>2, <2>3, FS_Subset, FS_CardinalityType
  <2>5. ~(Cardinality(Ahead(i)) < MaxPrecedents)
    BY <1>1 DEF NegativePrecedents
  <2> QED BY <2>1, <2>4, <2>5
<1> QED BY <1>1, <1>2 DEF InjectedCapsules, NegativePrecedents

LEMMA ValidateKeepsDeliveries == DeliveryInv /\ ValidateAndAudit => DeliveryInv'
<1> SUFFICES ASSUME DeliveryInv, ValidateAndAudit PROVE DeliveryInv'
  OBVIOUS
<1>1. /\ CallTypes /\ call.step = "validate" /\ AppendAudit("validated")
      /\ call' = [call EXCEPT !.step = "dispatch"] /\ UNCHANGED <<requests, delivered, upset>>
  BY DEF DeliveryInv, CallInv, ValidateAndAudit
<1>2. /\ audit' \in Seq(AuditLine) /\ DOMAIN audit' = DOMAIN audit \cup {Len(audit) + 1}
      /\ \A i \in DOMAIN audit : audit'[i] = audit[i]
      /\ audit'[Len(audit) + 1].event = requests /\ audit'[Len(audit) + 1].result = "validated"
      /\ audit'[Len(audit) + 1].readable = ~fragment /\ fragment' = FALSE
  BY <1>1, OneLineMore
<1>3. CallTypes' /\ call'.step = "dispatch"
  BY <1>1, <1>2 DEF CallTypes
<1>4. DeliveredIsAudited'
  BY <1>1, OldDeliveries
<1>5. \A i \in DOMAIN audit : audit[i].event <= requests /\ audit[i].event # requests
  BY <1>1 DEF DeliveryInv, CallInv
<1>6. \A i \in DOMAIN audit' : audit'[i].event <= requests
  BY <1>1, <1>2, <1>5 DEF CallTypes
<1>7. /\ \E i \in DOMAIN audit' : /\ audit'[i].event = requests /\ audit'[i].result = "validated"
                                  /\ ~upset => audit'[i].readable
      /\ \A i \in DOMAIN audit' : audit'[i].event = requests => audit'[i].result = "validated"
      /\ ~upset => \A i \in DOMAIN audit' : audit'[i].readable
  BY <1>2, <1>5 DEF DeliveryInv, CallInv
<1> QED BY <1>1, <1>2, <1>3, <1>4, <1>6, <1>7 DEF DeliveryInv, CallInv

LEMMA AuditFailureKeepsDeliveries == DeliveryInv /\ AuditFailure => DeliveryInv'
<1> SUFFICES ASSUME DeliveryInv, AuditFailure PROVE DeliveryInv'
  OBVIOUS
<1>1. /\ CallTypes /\ call.step = "refused" /\ AppendAudit(call.reason) /\ call.reason \in Refusals
      /\ call' = [call EXCEPT !.step = "idle"] /\ UNCHANGED <<requests, delivered, upset>>
  BY DEF DeliveryInv, CallInv, AuditFailure
<1>2. /\ audit' \in Seq(AuditLine) /\ DOMAIN audit' = DOMAIN audit \cup {Len(audit) + 1}
      /\ \A i \in DOMAIN audit : audit'[i] = audit[i]
      /\ audit'[Len(audit) + 1].event = requests
      /\ audit'[Len(audit) + 1].readable = ~fragment /\ fragment' = FALSE
  BY <1>1, OneLineMore
<1>3. CallTypes' /\ call'.step = "idle"
  BY <1>1, <1>2 DEF CallTypes
<1>4. DeliveredIsAudited'
  BY <1>1, OldDeliveries
<1>6. \A i \in DOMAIN audit' : audit'[i].event <= requests
  BY <1>1, <1>2 DEF CallTypes, DeliveryInv, CallInv
<1>7. ~upset => \A i \in DOMAIN audit' : audit'[i].readable
  BY <1>2 DEF DeliveryInv, CallInv
<1> QED BY <1>1, <1>2, <1>3, <1>4, <1>6, <1>7 DEF DeliveryInv, CallInv

LEMMA StepKeepsDeliveries == DeliveryInv /\ [DispatchNext]_dispatch_vars => DeliveryInv'
<1> SUFFICES ASSUME DeliveryInv, [DispatchNext]_dispatch_vars PROVE DeliveryInv'
  OBVIOUS
<1>0. CallTypes
  BY DEF DeliveryInv, CallInv
<1> USE DEF caller_vars
<1>1. CASE Orchestrate
  <2>1. /\ UNCHANGED <<audit, fragment, delivered, upset>> /\ requests' = requests + 1
        /\ call' \in [step : {"validate"}, request : Requests, reason : {"none"}]
    BY <1>1 DEF Orchestrate
  <2>2. CallTypes' /\ call'.step = "validate" /\ DeliveredIsAudited'
    BY <1>0, <2>1 DEF CallTypes, DeliveryInv, DeliveredIsAudited
  <2>3. \A i \in DOMAIN audit : audit[i].event \in Nat /\ audit[i].event <= requests
    <3>1. \A i \in DOMAIN audit : audit[i] \in AuditLine
      BY <1>0 DEF CallTypes
    <3> QED BY <3>1 DEF DeliveryInv, CallInv, AuditLine
  <2>4. \A d \in delivered : d.event \in Nat
    BY <2>3 DEF DeliveryInv, DeliveredIsAudited
  <2>5. requests \in Nat /\ \A d \in delivered : d.event <= requests
    BY <1>0 DEF DeliveryInv, CallInv, CallTypes
  <2> QED BY <2>1, <2>2, <2>3, <2>4, <2>5 DEF DeliveryInv, CallInv
<1>2. CASE ValidateAndAudit
  BY <1>2, ValidateKeepsDeliveries
<1>3. CASE Refuse
  <2>1. /\ UNCHANGED <<requests, audit, fragment, delivered, upset>> /\ call.step = "validate"
        /\ call' = [call EXCEPT !.step = "refused", !.reason = Refusal(call.request)]
        /\ Refusal(call.request) \in Refusals
    BY <1>3 DEF Refuse, Refusal, Refusals
  <2>2. CallTypes' /\ call'.step = "refused" /\ call'.reason \in Refusals
    BY <1>0, <2>1 DEF CallTypes
  <2> QED BY <2>1, <2>2 DEF DeliveryInv, CallInv, DeliveredIsAudited
<1>4. CASE AuditFailure
  BY <1>4, AuditFailureKeepsDeliveries
<1>5. CASE AppendFails
  <2>1. /\ UNCHANGED <<requests, audit, delivered>> /\ fragment' \in {fragment, TRUE} /\ upset' = TRUE
        /\ call.step \in {"validate", "refused"}
        /\ \/ call' = [call EXCEPT !.step = "refused", !.reason = "unknown_dispatch_failure"] /\ call.step = "validate"
           \/ call' = [call EXCEPT !.step = "idle"]
    BY <1>5 DEF AppendFails
  <2>2. /\ CallTypes'
        /\ \/ call'.step = "refused" /\ call'.reason \in Refusals /\ call.step = "validate"
           \/ call'.step = "idle"
    BY <1>0, <2>1 DEF CallTypes, Refusals
  <2> QED BY <2>1, <2>2 DEF DeliveryInv, CallInv, DeliveredIsAudited
<1>6. CASE OrchestrateAndDispatch
  <2>1. /\ UNCHANGED <<requests, audit, fragment, upset>> /\ call.step = "dispatch"
        /\ call' = [call EXCEPT !.step = "idle"]
    BY <1>6 DEF OrchestrateAndDispatch
  <2>2. CallTypes' /\ call'.step = "idle"
    BY <1>0, <2>1 DEF CallTypes
  <2>3. ASSUME NEW d \in delivered', d \notin delivered
        PROVE  /\ d.event = requests /\ d.request = call.request
               /\ d.injected = InjectedCapsules(d.request) /\ d.precedents = NegativePrecedents(d.request)
    BY <1>6, <2>3 DEF OrchestrateAndDispatch
  <2>4. DeliveredIsAudited'
    BY <2>1, <2>3, GlobalChangesWarned DEF DeliveryInv, CallInv, DeliveredIsAudited
  <2>5. \A d \in delivered' : d.event <= requests
    BY <1>0, <2>3 DEF DeliveryInv, CallInv, CallTypes
  <2> QED BY <2>1, <2>2, <2>4, <2>5 DEF DeliveryInv, CallInv
<1>7. CASE CallerDies
  <2>1. /\ UNCHANGED <<requests, audit, delivered>> /\ fragment' \in {fragment, TRUE} /\ upset' = TRUE
        /\ call' = [call EXCEPT !.step = "idle"]
    BY <1>7 DEF CallerDies
  <2>2. CallTypes' /\ call'.step = "idle"
    BY <1>0, <2>1 DEF CallTypes
  <2> QED BY <2>1, <2>2 DEF DeliveryInv, CallInv, DeliveredIsAudited
<1>8. ASSUME UNCHANGED <<caller_vars>>, upset' \in {upset, TRUE}
      PROVE  DeliveryInv'
  <2>1. /\ call' = call /\ requests' = requests /\ audit' = audit /\ fragment' = fragment
        /\ delivered' = delivered /\ (~upset' => ~upset) /\ upset' \in BOOLEAN
    BY <1>0, <1>8 DEF CallTypes
  <2>2. DeliveredIsAudited'
    BY <2>1 DEF DeliveryInv, DeliveredIsAudited
  <2>3. CallTypes'
    BY <1>0, <2>1 DEF CallTypes
  <2> QED BY <2>1, <2>2, <2>3 DEF DeliveryInv, CallInv
<1>9. CASE CountDispatches \/ CompleteReview \/ RunOnce \/ SaveArtifact \/ AppendGateAudit \/ RefreshPrevious
           \/ RefreshLatest \/ RefreshFails \/ UpdateTemplate \/ WatcherDies \/ UNCHANGED dispatch_vars
  BY <1>8, <1>9 DEF CountDispatches, CompleteReview, RunOnce, SaveArtifact, AppendGateAudit, RefreshPrevious,
     RefreshLatest, RefreshFails, UpdateTemplate, WatcherDies, dispatch_vars
<1> QED BY <1>1, <1>2, <1>3, <1>4, <1>5, <1>6, <1>7, <1>9 DEF DispatchNext

LEMMA DeliveriesHold == DispatchSpec => []DeliveryInv
BY DeliveryInitially, StepKeepsDeliveries, PTL DEF DispatchSpec

\* A record is handed on only with a line of its own that says it was validated, and
\* none that says otherwise, whatever append failed or caller died
\* (dynamic_prompt_orchestrator.ts); a request to delete or change something global is
\* put with every rule, and with the rejections but for those the cut leaves out.
THEOREM DeliveriesAudited == DispatchSpec => []DeliveredIsAudited
BY DeliveriesHold, PTL DEF DeliveryInv

-----------------------------------------------------------------------------
(* What the gate is told                                                     *)

\* The lines of the first n that can be read.
Parsed(n) == {i \in 1 .. n : audit[i].readable}

\* The counts are those of a beginning of the log.
Counted(t) ==
    LET failed == {i \in Parsed(t.read) : audit[i].result # "validated"}
        ready == {i \in Parsed(t.read) : audit[i].result = "validated"}
        missing == {i \in Parsed(t.read) : audit[i].result = "missing_required_context"}
    IN  /\ t.read \in 0 .. Len(audit)
        /\ t.parsed = Cardinality(Parsed(t.read))
        /\ t.ready = Cardinality(ready) /\ t.failed = Cardinality(failed)
        /\ t.missing = Cardinality(missing)

\* What a record says of the beginning it was computed from.
ToldTruth(g) ==
    /\ g.read \in 0 .. Len(audit)
    /\ g.action = "manual_review_required" <=>
          \E i \in Parsed(g.read) : audit[i].result = "missing_required_context"
    /\ g.action = "none" => Parsed(g.read) # {} /\ \A i \in Parsed(g.read) : audit[i].result = "validated"

GateInv ==
    /\ telemetry # None => Counted(telemetry)
    /\ watch.step \in {"artifact", "audit"} => watch.record \in GateRecord /\ ToldTruth(watch.record)
    /\ gates \in Seq(GateRecord)
    /\ \A g \in DOMAIN gates : ToldTruth(gates[g])

LEMMA GatesInitially == DispatchInit => GateInv
<1> SUFFICES ASSUME DispatchInit PROVE GateInv
  OBVIOUS
<1>1. gates \in Seq(GateRecord) /\ DOMAIN gates = {}
  BY EmptySeq DEF DispatchInit
<1> QED BY <1>1 DEF DispatchInit, GateInv, IdleWatch

\* The log only grows: what is true of a beginning of it stays true.
LEMMA BeginningsStay ==
  ASSUME CallTypes, [DispatchNext]_dispatch_vars, NEW n \in 0 .. Len(audit)
  PROVE  n \in 0 .. Len(audit)' /\ Parsed(n)' = Parsed(n) /\ \A i \in 1 .. n : audit'[i] = audit[i]
<1>1. /\ Len(audit) \in Nat /\ Len(audit)' \in Nat /\ Len(audit) <= Len(audit)'
      /\ \A i \in 1 .. Len(audit) : audit'[i] = audit[i]
  <2>1. CASE UNCHANGED audit
    BY <2>1, LenProperties DEF CallTypes
  <2>2. ASSUME NEW result, AppendAudit(result)
        PROVE  /\ Len(audit) \in Nat /\ Len(audit)' = Len(audit) + 1
               /\ \A i \in 1 .. Len(audit) : audit'[i] = audit[i]
    <3> DEFINE line == [event |-> requests, result |-> result, readable |-> ~fragment]
    <3>1. audit' = Append(audit, line)
      BY <2>2 DEF AppendAudit
    <3> HIDE DEF line
    <3>2. Len(audit) \in Nat /\ audit \in Seq(AuditLine \cup {line}) /\ line \in AuditLine \cup {line}
      <4>1. audit \in [1 .. Len(audit) -> AuditLine] /\ Len(audit) \in Nat
        BY LenProperties DEF CallTypes
      <4>2. audit \in [1 .. Len(audit) -> AuditLine \cup {line}]
        BY <4>1
      <4> QED BY <4>1, <4>2, SeqDef
    <3> QED BY <3>1, <3>2, AppendProperties
  <2>3. CASE ValidateAndAudit \/ AuditFailure
    BY <2>2, <2>3 DEF ValidateAndAudit, AuditFailure
  <2>4. CASE ~(ValidateAndAudit \/ AuditFailure)
    <3>1. UNCHANGED audit
      BY <2>4 DEF DispatchNext, dispatch_vars, caller_vars, Orchestrate, Refuse, AppendFails,
         OrchestrateAndDispatch, CallerDies, CountDispatches, CompleteReview, RunOnce, SaveArtifact,
         AppendGateAudit, RefreshPrevious, RefreshLatest, RefreshFails, UpdateTemplate, WatcherDies
    <3> QED BY <2>1, <3>1
  <2> QED BY <2>3, <2>4
<1>2. n \in 0 .. Len(audit)' /\ \A i \in 1 .. n : i \in 1 .. Len(audit)
  BY <1>1
<1> QED BY <1>1, <1>2 DEF Parsed

\* What was counted and told stays so.
LEMMA TruthStays ==
  ASSUME CallTypes, [DispatchNext]_dispatch_vars
  PROVE  /\ \A t : Counted(t) => Counted(t)'
         /\ \A g : ToldTruth(g) => ToldTruth(g)'
<1>1. ASSUME NEW t, Counted(t) PROVE Counted(t)'
  <2>1. t.read \in 0 .. Len(audit)
    BY <1>1 DEF Counted
  <2>2. /\ t.read \in 0 .. Len(audit)' /\ Parsed(t.read)' = Parsed(t.read)
        /\ \A i \in 1 .. t.read : audit'[i] = audit[i]
    BY <2>1, BeginningsStay
  <2>4. /\ {i \in Parsed(t.read) : audit[i].result # "validated"}'
             = {i \in Parsed(t.read) : audit[i].result # "validated"}
        /\ {i \in Parsed(t.read) : audit[i].result = "validated"}'
             = {i \in Parsed(t.read) : audit[i].result = "validated"}
        /\ {i \in Parsed(t.read) : audit[i].result = "missing_required_context"}'
             = {i \in Parsed(t.read) : audit[i].result = "missing_required_context"}
    BY <2>2 DEF Parsed
  <2> QED BY <1>1, <2>2, <2>4, Zenon DEF Counted
<1>2. ASSUME NEW g, ToldTruth(g) PROVE ToldTruth(g)'
  <2>1. g.read \in 0 .. Len(audit)
    BY <1>2 DEF ToldTruth
  <2>2. /\ g.read \in 0 .. Len(audit)' /\ Parsed(g.read)' = Parsed(g.read)
        /\ \A i \in Parsed(g.read) : audit'[i] = audit[i]
    BY <2>1, BeginningsStay DEF Parsed
  <2> QED BY <1>2, <2>2 DEF ToldTruth
<1> QED BY <1>1, <1>2

LEMMA LogIsSeq == CallTypes => Len(audit) \in Nat /\ DOMAIN audit = 1 .. Len(audit)
BY LenProperties DEF CallTypes

\* The counts of the whole log, taken now.
LEMMA CountIsTrue == CallTypes /\ CountDispatches => Counted(telemetry)'
<1> SUFFICES ASSUME CallTypes, CountDispatches PROVE Counted(telemetry)'
  OBVIOUS
<1>1. /\ UNCHANGED audit /\ telemetry'.read = Len(audit)
      /\ telemetry'.parsed = Cardinality(Readable(audit))
      /\ telemetry'.ready = Cardinality({i \in Readable(audit) : audit[i].result = "validated"})
      /\ telemetry'.failed = Cardinality({i \in Readable(audit) : audit[i].result # "validated"})
      /\ telemetry'.missing = Cardinality({i \in Readable(audit) : audit[i].result = "missing_required_context"})
  BY DEF CountDispatches, caller_vars
<1>2. Len(audit) \in 0 .. Len(audit) /\ Readable(audit) = Parsed(Len(audit))
  BY LogIsSeq DEF Readable, Parsed
<1>3. Parsed(Len(audit))' = Parsed(Len(audit))
  BY <1>1 DEF Parsed
<1> QED BY <1>1, <1>2, <1>3 DEF Counted

\* The numbers decide as the lines they count would.
LEMMA NumbersTell ==
  ASSUME NEW t, Counted(t), CallTypes
  PROVE  /\ {t.read, t.parsed, t.ready, t.failed, t.missing} \subseteq Nat
         /\ t.missing > 0 <=> \E i \in Parsed(t.read) : audit[i].result = "missing_required_context"
         /\ t.parsed # 0 => Parsed(t.read) # {}
         /\ t.failed = 0 => \A i \in Parsed(t.read) : audit[i].result = "validated"
<1> DEFINE parsed == Parsed(t.read)
           ready == {i \in parsed : audit[i].result = "validated"}
           failed == {i \in parsed : audit[i].result # "validated"}
           missing == {i \in parsed : audit[i].result = "missing_required_context"}
<1>1. /\ t.read \in 0 .. Len(audit) /\ t.parsed = Cardinality(parsed) /\ t.ready = Cardinality(ready)
      /\ t.failed = Cardinality(failed) /\ t.missing = Cardinality(missing)
  BY DEF Counted
<1>2. t.read \in Nat /\ IsFiniteSet(parsed) /\ IsFiniteSet(ready) /\ IsFiniteSet(failed) /\ IsFiniteSet(missing)
  <2>1. t.read \in Nat
    BY <1>1, LogIsSeq
  <2>2. IsFiniteSet(1 .. t.read)
    BY <2>1, FS_Interval
  <2>3. parsed \subseteq 1 .. t.read /\ ready \subseteq 1 .. t.read /\ failed \subseteq 1 .. t.read /\ missing \subseteq 1 .. t.read
    BY DEF Parsed
  <2> HIDE DEF parsed, ready, failed, missing
  <2> QED BY <2>1, <2>2, <2>3, FS_Subset
<1>3. (failed = {} => \A i \in parsed : audit[i].result = "validated")
      /\ (missing # {} <=> \E i \in parsed : audit[i].result = "missing_required_context")
  OBVIOUS
<1> HIDE DEF ready, failed, missing
<1>4. /\ Cardinality(parsed) \in Nat /\ Cardinality(ready) \in Nat /\ Cardinality(failed) \in Nat
      /\ Cardinality(missing) \in Nat
      /\ Cardinality(parsed) = 0 <=> parsed = {}
      /\ Cardinality(failed) = 0 <=> failed = {} 
      /\ Cardinality(missing) = 0 <=> missing = {}
  BY <1>2, FS_CardinalityType, FS_EmptySet
<1> QED BY <1>1, <1>2, <1>3, <1>4

LEMMA RunTellsTruth ==
  ASSUME CallTypes, GateInv, RunOnce
  PROVE  (watch.record \in GateRecord /\ ToldTruth(watch.record))'
<1> DEFINE status == GateStatus(BaselineAssessment, Signal)
<1>1. /\ UNCHANGED audit
      /\ watch'.record = [status |-> status, action |-> RequiredAction(status, Signal),
                          read |-> IF telemetry = None THEN 0 ELSE telemetry.read]
  BY DEF RunOnce, caller_vars
<1>2. /\ status \in GateStatuses
      /\ status = "ATTENTION_REQUIRED" <=> Signal = "hard_attention"
      /\ RequiredAction(status, Signal) \in GateActions
  <2>1. Signal # "hard_attention" => status \in {"PASS", "WATCH", "FAIL", "PENDING_BASELINE"}
    BY DEF GateStatus
  <2>2. Signal = "hard_attention" => status = "ATTENTION_REQUIRED"
    BY DEF GateStatus
  <2> HIDE DEF status
  <2>3. RequiredAction(status, Signal) \in GateActions
    BY DEF RequiredAction, GateActions
  <2> QED BY <2>1, <2>2, <2>3 DEF GateStatuses
<1>3. /\ RequiredAction(status, Signal) = "manual_review_required" <=> Signal = "hard_attention"
      /\ RequiredAction(status, Signal) = "none" =>
            Signal \notin {"hard_attention", "review_required"} /\ telemetry # None /\ telemetry.parsed # 0
  BY <1>2 DEF RequiredAction
<1> HIDE DEF status
<1>4. ASSUME NEW g, g.read = (IF telemetry = None THEN 0 ELSE telemetry.read),
             g.action = RequiredAction(status, Signal)
      PROVE  g.read \in Nat /\ ToldTruth(g)
  <2>1. CASE telemetry = None
    <3>1. Signal = "ok" /\ Parsed(0) = {} /\ 0 \in 0 .. Len(audit)
      BY <2>1, LogIsSeq DEF Signal, Parsed
    <3> QED BY <1>3, <1>4, <2>1, <3>1 DEF ToldTruth
  <2>2. CASE telemetry # None
    <3>1. /\ {telemetry.read, telemetry.parsed, telemetry.ready, telemetry.failed, telemetry.missing} \subseteq Nat
          /\ telemetry.missing > 0 <=> \E i \in Parsed(telemetry.read) : audit[i].result = "missing_required_context"
          /\ telemetry.parsed # 0 => Parsed(telemetry.read) # {}
          /\ telemetry.failed = 0 => \A i \in Parsed(telemetry.read) : audit[i].result = "validated"
      BY <2>2, NumbersTell DEF GateInv
    <3>2. /\ Signal = "hard_attention" <=> telemetry.missing > 0
          /\ Signal \notin {"hard_attention", "review_required"} => telemetry.failed = 0
      BY <2>2, <3>1 DEF Signal
    <3>3. telemetry.read \in 0 .. Len(audit)
      BY <2>2 DEF GateInv, Counted
    <3> QED BY <1>3, <1>4, <2>2, <3>1, <3>2, <3>3 DEF ToldTruth
  <2> QED BY <2>1, <2>2
<1>5. /\ watch'.record.read = (IF telemetry = None THEN 0 ELSE telemetry.read)
      /\ watch'.record.action = RequiredAction(status, Signal)
      /\ watch'.record.status = status
  BY <1>1
<1>6. ToldTruth(watch'.record) /\ watch'.record.read \in Nat
  BY <1>4, <1>5
<1>7. watch'.record \in GateRecord
  BY <1>1, <1>2, <1>5, <1>6 DEF GateRecord
<1>8. ToldTruth(watch'.record) => ToldTruth(watch.record)'
  BY <1>1 DEF ToldTruth, Parsed
<1> QED BY <1>6, <1>7, <1>8

\* A step that counts nothing, computes nothing and records no gate.
LEMMA GatesFrame ==
  ASSUME GateInv, CallTypes, [DispatchNext]_dispatch_vars, UNCHANGED <<telemetry, gates>>,
         watch'.step \in {"artifact", "audit"} =>
            watch.step \in {"artifact", "audit"} /\ watch'.record = watch.record
  PROVE  GateInv'
<1>1. /\ \A t : Counted(t) => Counted(t)'
      /\ \A g : ToldTruth(g) => ToldTruth(g)'
  BY TruthStays
<1> QED BY <1>1 DEF GateInv

LEMMA StepKeepsGates == CallTypes /\ GateInv /\ [DispatchNext]_dispatch_vars => GateInv'
<1> SUFFICES ASSUME CallTypes, GateInv, [DispatchNext]_dispatch_vars PROVE GateInv'
  OBVIOUS
<1>0. /\ \A t : Counted(t) => Counted(t)'
      /\ \A g : ToldTruth(g) => ToldTruth(g)'
  BY TruthStays
<1>1. CASE CountDispatches
  <2>1. UNCHANGED <<watch, gates>> /\ Counted(telemetry)'
    BY <1>1, CountIsTrue DEF CountDispatches, watcher_vars
  <2> QED BY <1>0, <2>1 DEF GateInv
<1>2. CASE RunOnce
  <2>1. (watch.record \in GateRecord /\ ToldTruth(watch.record))' /\ UNCHANGED <<telemetry, gates>>
    BY <1>2, RunTellsTruth DEF RunOnce
  <2> QED BY <1>0, <2>1 DEF GateInv
<1>3. CASE AppendGateAudit
  <2>1. /\ gates' = Append(gates, watch.record) /\ watch'.step \notin {"artifact", "audit"}
        /\ UNCHANGED telemetry /\ watch.record \in GateRecord /\ ToldTruth(watch.record)
    BY <1>3 DEF AppendGateAudit, GateInv
  <2>2. /\ gates' \in Seq(GateRecord) /\ Len(gates') = Len(gates) + 1
        /\ \A g \in 1 .. Len(gates) : gates'[g] = gates[g]
        /\ gates'[Len(gates) + 1] = watch.record
    BY <2>1, AppendProperties DEF GateInv
  <2>3. Len(gates) \in Nat /\ DOMAIN gates = 1 .. Len(gates) /\ DOMAIN gates' = 1 .. Len(gates) + 1
    BY <2>2, LenProperties DEF GateInv
  <2>4. ASSUME NEW g \in DOMAIN gates' PROVE ToldTruth(gates'[g])
    <3>1. CASE g = Len(gates) + 1
      BY <2>1, <2>2, <3>1
    <3>2. CASE g # Len(gates) + 1
      <4>1. g \in DOMAIN gates /\ gates'[g] = gates[g]
        BY <2>2, <2>3, <3>2
      <4> QED BY <4>1 DEF GateInv
    <3> QED BY <3>1, <3>2
  <2>5. ASSUME NEW g \in DOMAIN gates' PROVE ToldTruth(gates[g])'
    <3>1. UNCHANGED audit
      BY <1>3 DEF AppendGateAudit, caller_vars
    <3> QED BY <2>4, <3>1 DEF ToldTruth, Parsed
  <2> QED BY <1>0, <2>1, <2>2, <2>5 DEF GateInv
<1>4. CASE SaveArtifact
  <2>1. UNCHANGED <<telemetry, gates>> /\ watch.step = "artifact" /\ watch'.record = watch.record
    BY <1>4 DEF SaveArtifact
  <2> QED BY <2>1, GatesFrame
<1>5. CASE Orchestrate \/ ValidateAndAudit \/ Refuse \/ AuditFailure \/ AppendFails \/ OrchestrateAndDispatch
           \/ CallerDies \/ CompleteReview \/ UNCHANGED dispatch_vars
  <2>1. UNCHANGED <<telemetry, gates, watch>>
    BY <1>5 DEF Orchestrate, ValidateAndAudit, Refuse, AuditFailure, AppendFails, OrchestrateAndDispatch,
       CallerDies, CompleteReview, dispatch_vars, watcher_vars
  <2> QED BY <2>1, GatesFrame
<1>6. CASE RefreshPrevious \/ RefreshLatest \/ RefreshFails \/ UpdateTemplate \/ WatcherDies
  <2>1. UNCHANGED <<telemetry, gates>>
    BY <1>6 DEF RefreshPrevious, RefreshLatest, RefreshFails, UpdateTemplate, WatcherDies
  <2>2. IdleWatch.step = "idle"
    BY DEF IdleWatch
  <2>3. CASE RefreshPrevious
    <3>1. watch'.step = "latest"
      BY <2>3 DEF RefreshPrevious, GateInv
    <3> QED BY <2>1, <3>1, GatesFrame
  <2>4. CASE RefreshLatest
    <3>1. watch'.step = "report"
      BY <2>4 DEF RefreshLatest, GateInv
    <3> QED BY <2>1, <3>1, GatesFrame
  <2>5. CASE RefreshFails
    <3>1. watch' = IdleWatch \/ watch' = [watch EXCEPT !.step = "report", !.before = None]
      BY <2>5 DEF RefreshFails
    <3>2. watch.step \notin {"artifact", "audit"}
      BY <2>5 DEF RefreshFails
    <3>3. CASE watch' = [watch EXCEPT !.step = "report", !.before = None]
      BY <2>1, <3>2, <3>3, GatesFrame
    <3>4. CASE watch' = IdleWatch
      BY <2>1, <2>2, <3>4, GatesFrame
    <3> QED BY <3>1, <3>3, <3>4
  <2>6. CASE UpdateTemplate \/ WatcherDies
    <3>1. watch'.step = "idle"
      BY <2>2, <2>6 DEF UpdateTemplate, WatcherDies
    <3> QED BY <2>1, <3>1, GatesFrame
  <2> QED BY <1>6, <2>3, <2>4, <2>5, <2>6
<1> QED BY <1>1, <1>2, <1>3, <1>4, <1>5, <1>6 DEF DispatchNext

\* A recorded gate asks for attention exactly when the log it was computed from shows
\* a dispatch without context, and for nothing only when every dispatch there was
\* validated (watch_week2_baseline_fixation.py), however the log grew since and
\* whichever run of the watcher died.
THEOREM GatesTellTheTruth == DispatchSpec => []RefusalsReachGate
<1>1. DispatchSpec => []GateInv
  <2>1. DeliveryInv => CallTypes
    BY DEF DeliveryInv, CallInv
  <2> QED BY <2>1, DeliveriesHold, GatesInitially, StepKeepsGates, PTL DEF DispatchSpec
<1>2. ASSUME GateInv, CallTypes PROVE RefusalsReachGate
  <2> SUFFICES ASSUME NEW g \in DOMAIN gates
               PROVE  LET seen == SubSeq(audit, 1, gates[g].read)
                      IN  /\ gates[g].action = "manual_review_required" <=>
                                \E i \in Readable(seen) : seen[i].result = "missing_required_context"
                          /\ gates[g].action = "none" =>
                                /\ Readable(seen) # {}
                                /\ \A i \in Readable(seen) : seen[i].result = "validated"
    BY DEF RefusalsReachGate
  <2> DEFINE n == gates[g].read
             seen == SubSeq(audit, 1, n)
  <2>1. ToldTruth(gates[g]) /\ n \in 0 .. Len(audit)
    BY <1>2 DEF GateInv, ToldTruth
  <2>2. DOMAIN seen = 1 .. n /\ \A i \in 1 .. n : seen[i] = audit[i]
    <3>1. n \in Nat /\ \A i \in 1 .. n : audit[i] \in AuditLine
      BY <1>2, <2>1, LogIsSeq, ElementOfSeq DEF CallTypes
    <3> HIDE DEF n
    <3>2. seen \in Seq(AuditLine) /\ Len(seen) = (IF 1 <= n THEN n - 1 + 1 ELSE 0)
          /\ \A i \in 1 .. n - 1 + 1 : seen[i] = audit[1 + i - 1]
      BY <3>1, SubSeqProperties
    <3> HIDE DEF seen
    <3> QED BY <3>1, <3>2, LenProperties
  <2> HIDE DEF seen
  <2>3. Readable(seen) = Parsed(n)
    BY <2>2 DEF Readable, Parsed
  <2>4. \A i \in Parsed(n) : seen[i] = audit[i]
    BY <2>2 DEF Parsed
  <2> QED BY <2>1, <2>3, <2>4 DEF ToldTruth, seen
<1>3. DeliveryInv => CallTypes
  BY DEF DeliveryInv, CallInv
<1> QED BY <1>1, <1>2, <1>3, DeliveriesHold, PTL

(***************************************************************************)
(* The caretaker                                                           *)
(***************************************************************************)

CiRuns == {OldRuns[i] : i \in DOMAIN OldRuns} \cup [workflow : {"ci"}, conclusion : {"success", "failure"}]
FindingIds == Nat \X Nat
Memos == [memos : SUBSET FindingIds, log : SUBSET FindingIds]
Written == loose \cup index.memos \cup UNION {committed[b].memos : b \in DOMAIN committed}

CareTypes ==
    /\ night \in Nat
    /\ part \in {"idle", "next", "create", "write", "commit", "push", "return"}
    /\ safe \in Seq(FindingIds)
    /\ loose \subseteq FindingIds /\ action_log \subseteq FindingIds
    /\ index \in Memos
    /\ Trunk \in DOMAIN committed /\ DOMAIN committed \subseteq FindingIds \cup {Trunk}
    /\ \A b \in DOMAIN committed : committed[b] \in Memos
    /\ branch \in DOMAIN committed
    /\ ci_runs \in Seq(CiRuns) /\ IsFiniteSet(pulls)

\* Findings of the run that have no memo yet, and no branch.
Unwritten == Range(IF part \in {"commit", "push"} THEN Tail(safe) ELSE safe)
Unbranched == Range(IF part \in {"write", "commit", "push"} THEN Tail(safe) ELSE safe)

\* No memo is in two places, and main has none.
PlacesDisjoint ==
    /\ committed[Trunk] = Nothing
    /\ loose \cap index.memos = {}
    /\ \A b \in DOMAIN committed : committed[b].memos \cap (loose \cup index.memos) = {}
    /\ \A b, c \in DOMAIN committed : b # c => committed[b].memos \cap committed[c].memos = {}
    /\ action_log \subseteq Written

\* What is to come is new, and what is in hand is where the steps so far have put it.
WorkInHand ==
    /\ Distinct(safe) /\ \A f \in Range(safe) : f[1] = night
    /\ \A f \in Written \cup (DOMAIN committed \ {Trunk}) : f[1] <= night
    /\ Unwritten \cap Written = {} /\ Unbranched \cap DOMAIN committed = {}
    /\ part \in {"create", "write", "commit", "push"} => safe # <<>>
    /\ part = "create" => branch = Trunk
    /\ part \in {"write", "commit", "push"} => branch = Finding
    /\ part = "commit" => Finding \in index.memos \cup loose
    /\ part = "push" => Finding \in committed[branch].memos \cup loose

\* A pull request has the memo of its finding.
PullsHaveMemos ==
    \A r \in acted :
        r.pull => \/ r.finding \in loose
                  \/ r.finding \in DOMAIN committed /\ r.finding \in committed[r.finding].memos

MemoInv == CareTypes /\ PlacesDisjoint /\ WorkInHand /\ PullsHaveMemos

LEMMA MemosInitially == CaretakerInit => MemoInv
<1> SUFFICES ASSUME CaretakerInit PROVE MemoInv
  OBVIOUS
<1>1. /\ safe = <<>> /\ safe \in Seq(FindingIds) /\ Range(safe) = {} /\ Distinct(safe)
      /\ DOMAIN committed = {Trunk} /\ committed[Trunk] = Nothing /\ Nothing \in Memos
      /\ Nothing.memos = {} /\ Nothing.log = {}
  BY EmptySeq DEF CaretakerInit, Range, Distinct, Nothing, Memos
<1>2. ci_runs \in Seq(CiRuns) /\ IsFiniteSet(pulls)
  <2>1. Seq({OldRuns[i] : i \in DOMAIN OldRuns}) \subseteq Seq(CiRuns)
    BY SeqMonotonic DEF CiRuns
  <2> QED BY <2>1, CaretakerInputs DEF CaretakerInit
<1>3. Written = {}
  BY <1>1 DEF CaretakerInit, Written
<1> QED BY <1>1, <1>2, <1>3
        DEF CaretakerInit, MemoInv, CareTypes, PlacesDisjoint, WorkInHand, PullsHaveMemos, Unwritten, Unbranched

-----------------------------------------------------------------------------
(* The findings of a run                                                     *)

LEMMA TimesIsSeq ==
  ASSUME NEW S, NEW x \in S, NEW n \in Nat
  PROVE  Times(n, x) \in Seq(S)
<1>1. Times(n, x) \in [1 .. n -> S]
  BY DEF Times
<1> QED BY <1>1, SeqDef

Found == [tier : {"SELF"}, type : {"CI_FAILURE", "CI_FLAKY", "OPEN_PR_STALE", "GOVERNANCE_STALE"}]

LEMMA BuiltIsSeq ==
  ASSUME CareTypes, NEW runs_listed, NEW pulls_listed
  PROVE  BuildFindings(runs_listed, pulls_listed) \in Seq(Found)
<1> DEFINE failed == {i \in DOMAIN ci_runs : ci_runs[i].conclusion = "failure"}
           names == {ci_runs[i].workflow : i \in DOMAIN ci_runs}
           flaky == {w \in names :
                      LET runs_of == RunsOf(w)
                      IN  Len(runs_of) >= 2 /\ runs_of[1].conclusion = "success" /\ runs_of[2].conclusion = "failure"}
           stale == IF pulls_listed THEN {p \in pulls : night + 1 - p.touched > 2} ELSE {}
           count == Cardinality(failed)
           most == IF count < 3 THEN count ELSE 3
           found(type) == [tier |-> "SELF", type |-> type]
           rules == IF GovernanceStale THEN <<found("GOVERNANCE_STALE")>> ELSE <<>>
<1>1. IsFiniteSet(failed) /\ IsFiniteSet(flaky) /\ IsFiniteSet(stale)
  <2>1. Len(ci_runs) \in Nat /\ DOMAIN ci_runs = 1 .. Len(ci_runs)
    BY LenProperties DEF CareTypes
  <2>2. IsFiniteSet(DOMAIN ci_runs)
    BY <2>1, FS_Interval
  <2>3. IsFiniteSet(names)
    <3> DEFINE f == [i \in DOMAIN ci_runs |-> ci_runs[i].workflow]
    <3>1. f \in Surjection(DOMAIN ci_runs, names)
      BY DEF Surjection
    <3> HIDE DEF f, names
    <3> QED BY <2>2, <3>1, FS_Surjection
  <2>4. failed \subseteq DOMAIN ci_runs /\ flaky \subseteq names /\ stale \subseteq pulls /\ IsFiniteSet(pulls)
    BY DEF CareTypes
  <2> HIDE DEF failed, names, flaky, stale
  <2> QED BY <2>2, <2>3, <2>4, FS_Subset
<1>2. count \in Nat /\ most \in Nat /\ Cardinality(flaky) \in Nat /\ Cardinality(stale) \in Nat
  <2> HIDE DEF failed, flaky, stale
  <2> QED BY <1>1, FS_CardinalityType
<1>3. /\ found("CI_FAILURE") \in Found /\ found("CI_FLAKY") \in Found
      /\ found("OPEN_PR_STALE") \in Found /\ found("GOVERNANCE_STALE") \in Found
  BY DEF Found
<1>4. rules \in Seq(Found)
  BY <1>3
<1>5. BuildFindings(runs_listed, pulls_listed)
        = IF ~runs_listed THEN <<>>
          ELSE Times(most, found("CI_FAILURE")) \o Times(Cardinality(flaky), found("CI_FLAKY"))
               \o Times(Cardinality(stale), found("OPEN_PR_STALE")) \o rules
  BY DEF BuildFindings
<1> HIDE DEF failed, flaky, stale, count, most, found, rules
<1>6. /\ Times(most, found("CI_FAILURE")) \in Seq(Found)
      /\ Times(Cardinality(flaky), found("CI_FLAKY")) \in Seq(Found)
      /\ Times(Cardinality(stale), found("OPEN_PR_STALE")) \in Seq(Found)
  BY <1>2, <1>3, TimesIsSeq
<1> QED BY <1>4, <1>5, <1>6, EmptySeq, ConcatProperties

\* There are finitely many to act on.
LEMMA ActsAreCounted ==
  ASSUME CareTypes, NEW runs_listed, NEW pulls_listed, NEW others \in Elsewhere
  PROVE  ToAct(BuildFindings(runs_listed, pulls_listed) \o others) \in Nat
<1> DEFINE built == BuildFindings(runs_listed, pulls_listed)
           findings == built \o others
           S == Found \cup {others[i] : i \in DOMAIN others}
           acts == {i \in DOMAIN findings : Actionable(findings[i])}
<1>1. built \in Seq(S) /\ others \in Seq(S)
  <2>1. Seq(Found) \subseteq Seq(S) /\ Seq({others[i] : i \in DOMAIN others}) \subseteq Seq(S)
    BY SeqMonotonic
  <2> QED BY <2>1, BuiltIsSeq, CaretakerInputs
<1> HIDE DEF built, S
<1>2. findings \in Seq(S)
  BY <1>1, ConcatProperties
<1> HIDE DEF findings
<1>3. Len(findings) \in Nat /\ DOMAIN findings = 1 .. Len(findings)
  BY <1>2, LenProperties
<1>4. IsFiniteSet(DOMAIN findings)
  BY <1>3, FS_Interval
<1>5. Cardinality(acts) \in Nat
  <2>1. acts \subseteq DOMAIN findings
    OBVIOUS
  <2> HIDE DEF acts
  <2> QED BY <1>4, <2>1, FS_Subset, FS_CardinalityType
<1> QED BY <1>5 DEF findings, built, ToAct

-----------------------------------------------------------------------------
(* The steps                                                                 *)

LEMMA HandAndRest ==
  ASSUME CareTypes, WorkInHand, safe # <<>>
  PROVE  /\ Finding \in FindingIds /\ Finding[1] = night /\ Finding # Trunk
         /\ Range(safe) = {Finding} \cup Range(Tail(safe)) /\ Finding \notin Range(Tail(safe))
         /\ Tail(safe) \in Seq(FindingIds) /\ Distinct(Tail(safe))
<1>1. /\ Finding \in FindingIds /\ Finding \in Range(safe)
      /\ Range(safe) = {Finding} \cup Range(Tail(safe)) /\ Finding \notin Range(Tail(safe))
      /\ Tail(safe) \in Seq(FindingIds) /\ Distinct(Tail(safe))
  BY TailOfDistinct DEF CareTypes, WorkInHand, Finding
<1>2. Finding # Trunk
  BY <1>1, CaretakerInputs DEF FindingIds
<1> QED BY <1>1, <1>2 DEF WorkInHand

\* A finding that is done with leaves the rest as new as it was.
LEMMA NextFinding ==
  ASSUME CareTypes, WorkInHand, safe # <<>>, part \in {"next", "create", "write", "commit", "push"},
         safe' = Tail(safe), part' \in {"next", "return"}, night' = night,
         Written' \subseteq Written \cup {Finding}, DOMAIN committed' = DOMAIN committed
  PROVE  WorkInHand'
<1>1. /\ Range(safe) = {Finding} \cup Range(Tail(safe)) /\ Finding \notin Range(Tail(safe))
      /\ Distinct(Tail(safe)) /\ Finding[1] = night
  BY HandAndRest
<1>2. /\ Unwritten' = Range(Tail(safe)) /\ Unbranched' = Range(Tail(safe))
      /\ Range(Tail(safe)) \subseteq Unwritten /\ Range(Tail(safe)) \subseteq Unbranched
  BY <1>1 DEF Unwritten, Unbranched
<1>3. night <= night /\ night \in Nat
  BY DEF CareTypes
<1> QED BY <1>1, <1>2, <1>3 DEF WorkInHand

\* A step that adds no pull request and takes no memo away.
LEMMA PullsStay ==
  ASSUME PullsHaveMemos, loose \subseteq loose', DOMAIN committed \subseteq DOMAIN committed',
         \A b \in DOMAIN committed : committed[b].memos \subseteq committed'[b].memos,
         \A r \in acted' : r.pull => r \in acted
  PROVE  PullsHaveMemos'
BY DEF PullsHaveMemos

LEMMA RecordsNoPull ==
  ASSUME NEW commit, NEW next, Recorded(commit, FALSE, next)
  PROVE  safe' = Tail(safe) /\ part' = next /\ \A r \in acted' : r.pull => r \in acted
<1> DEFINE record == [finding |-> Finding, commit |-> commit, pull |-> FALSE]
<1>1. acted' = acted \cup {record} /\ safe' = Tail(safe) /\ part' = next
  BY DEF Recorded
<1>2. record.pull = FALSE
  OBVIOUS
<1> HIDE DEF record
<1> QED BY <1>1, <1>2

\* A step in which a finding is given up, and git left as it is.
LEMMA GivenUp ==
  ASSUME MemoInv, safe # <<>>, part \in {"next", "create", "write", "commit", "push"},
         UNCHANGED <<directory_of, night>>, ci_runs' \in Seq(CiRuns), IsFiniteSet(pulls'),
         NEW commit, NEW next \in {"next", "return"}, Recorded(commit, FALSE, next)
  PROVE  MemoInv'
<1>1. safe' = Tail(safe) /\ part' = next /\ \A r \in acted' : r.pull => r \in acted
  BY RecordsNoPull
<1>2. Tail(safe) \in Seq(FindingIds)
  BY HandAndRest DEF MemoInv
<1>3. CareTypes'
  BY <1>1, <1>2 DEF MemoInv, CareTypes, directory_of
<1>4. Written' = Written
  BY DEF Written, directory_of
<1>5. PlacesDisjoint'
  BY <1>4 DEF MemoInv, PlacesDisjoint, directory_of
<1>6. WorkInHand'
  BY <1>1, <1>4, NextFinding DEF MemoInv, directory_of
<1>7. PullsHaveMemos'
  BY <1>1, PullsStay DEF MemoInv, directory_of
<1> QED BY <1>3, <1>5, <1>6, <1>7 DEF MemoInv

\* Back on main, every memo is where it was.
LEMMA MainKeepsPlaces ==
  ASSUME CareTypes, PlacesDisjoint, BackToMain
  PROVE  /\ PlacesDisjoint' /\ Written' = Written /\ branch' = Trunk
         /\ UNCHANGED <<committed, index, loose>> /\ action_log' \subseteq action_log
         /\ branch' \in DOMAIN committed'
<1>1. UNCHANGED <<committed, index, loose>> /\ branch' = Trunk /\ action_log' \subseteq action_log
  BY DEF BackToMain
<1>2. Written' = Written
  BY <1>1 DEF Written
<1> QED BY <1>1, <1>2 DEF PlacesDisjoint, CareTypes

LEMMA StartKeepsMemos == MemoInv /\ StartRun => MemoInv'
<1> SUFFICES ASSUME MemoInv, StartRun PROVE MemoInv'
  OBVIOUS
<1>1. /\ night' = night + 1 /\ part' = "next" /\ acted' = {} /\ part = "idle"
      /\ UNCHANGED <<ci_runs, pulls, branch, committed, index, loose, action_log>>
  BY DEF StartRun, directory_of
<1>2. PICK n \in Nat : safe' = [i \in 1 .. n |-> <<night', i>>] \/ (safe' = <<>> /\ n = 0)
  <2>1. PICK runs_listed \in BOOLEAN, pulls_listed \in BOOLEAN, others \in Elsewhere :
          safe' = IF mode'.execute /\ ~mode'.dry_run
                  THEN [i \in 1 .. ToAct(BuildFindings(runs_listed, pulls_listed) \o others) |-> <<night', i>>]
                  ELSE <<>>
    BY DEF StartRun
  <2> DEFINE n == ToAct(BuildFindings(runs_listed, pulls_listed) \o others)
  <2>2. n \in Nat
    BY ActsAreCounted DEF MemoInv
  <2>3. safe' = [i \in 1 .. n |-> <<night', i>>] \/ safe' = <<>>
    BY <2>1
  <2> HIDE DEF n
  <2>4. 0 \in Nat
    OBVIOUS
  <2> QED BY <2>2, <2>3, <2>4
<1>3. night \in Nat /\ night' \in Nat
  BY <1>1 DEF MemoInv, CareTypes
<1>4. /\ safe' \in Seq(FindingIds) /\ DOMAIN safe' = 1 .. n
      /\ \A i \in 1 .. n : safe'[i] = <<night', i>>
  <2>1. CASE safe' = [i \in 1 .. n |-> <<night', i>>]
    <3>1. safe' \in [1 .. n -> FindingIds]
      BY <1>3, <2>1 DEF FindingIds
    <3> QED BY <2>1, <3>1, SeqDef
  <2>2. CASE safe' = <<>> /\ n = 0
    BY <2>2, EmptySeq
  <2> QED BY <1>2, <2>1, <2>2
<1>5. Distinct(safe)' /\ \A f \in Range(safe') : f[1] = night'
  BY <1>4 DEF Distinct, Range
<1>6. CareTypes'
  BY <1>1, <1>3, <1>4 DEF MemoInv, CareTypes
<1>7. Written' = Written
  BY <1>1 DEF Written
<1>8. PlacesDisjoint'
  BY <1>1, <1>7 DEF MemoInv, PlacesDisjoint
<1>9. ASSUME NEW f \in Range(safe') PROVE f \notin Written /\ f \notin DOMAIN committed
  <2>1. f[1] = night' /\ f \in FindingIds
    BY <1>4, <1>5, <1>9 DEF Range, FindingIds
  <2>2. f \in Written \cup (DOMAIN committed \ {Trunk}) => f[1] <= night
    BY DEF MemoInv, WorkInHand
  <2>3. ~(f[1] <= night)
    BY <1>1, <1>3, <2>1
  <2>4. f # Trunk
    BY <2>1, CaretakerInputs DEF FindingIds
  <2> QED BY <2>2, <2>3, <2>4
<1>10. \A f \in Written \cup (DOMAIN committed \ {Trunk}) : f[1] <= night'
  <2> SUFFICES ASSUME NEW f \in Written \cup (DOMAIN committed \ {Trunk}) PROVE f[1] <= night'
    OBVIOUS
  <2>1. f \in FindingIds
    BY DEF MemoInv, CareTypes, Written, Memos
  <2>2. f[1] <= night /\ f[1] \in Nat
    BY <2>1 DEF MemoInv, WorkInHand, FindingIds
  <2> QED BY <1>1, <1>3, <2>2
<1>11. WorkInHand'
  BY <1>1, <1>5, <1>7, <1>9, <1>10 DEF WorkInHand, Unwritten, Unbranched
<1>12. PullsHaveMemos'
  BY <1>1 DEF PullsHaveMemos
<1> QED BY <1>6, <1>8, <1>11, <1>12 DEF MemoInv

LEMMA CheckoutKeepsMemos == MemoInv /\ CheckoutMain => MemoInv'
<1> SUFFICES ASSUME MemoInv, CheckoutMain PROVE MemoInv'
  OBVIOUS
<1>1. part = "next" /\ safe # <<>> /\ UNCHANGED <<night, ci_runs, pulls>>
  BY DEF CheckoutMain, Acts, observed
<1>2. CASE BackToMain /\ To("create")
  <2>1. /\ PlacesDisjoint' /\ Written' = Written /\ branch' = Trunk
        /\ UNCHANGED <<committed, index, loose>> /\ action_log' \subseteq action_log
        /\ branch' \in DOMAIN committed'
    BY <1>2, MainKeepsPlaces DEF MemoInv
  <2>2. part' = "create" /\ UNCHANGED <<safe, acted>>
    BY <1>2 DEF To
  <2>3. CareTypes'
    BY <1>1, <2>1, <2>2 DEF MemoInv, CareTypes
  <2>4. WorkInHand'
    BY <1>1, <2>1, <2>2 DEF MemoInv, WorkInHand, Unwritten, Unbranched
  <2>5. PullsHaveMemos'
    BY <2>1, <2>2, PullsStay DEF MemoInv
  <2> QED BY <2>1, <2>3, <2>4, <2>5 DEF MemoInv
<1>3. CASE Recorded(FALSE, FALSE, "next") /\ UNCHANGED directory_of
  <2>1. ci_runs' \in Seq(CiRuns) /\ IsFiniteSet(pulls')
    BY <1>1 DEF MemoInv, CareTypes
  <2> QED BY <1>1, <1>3, <2>1, GivenUp
<1> QED BY <1>2, <1>3 DEF CheckoutMain

LEMMA CreateKeepsMemos == MemoInv /\ CreateBranch => MemoInv'
<1> SUFFICES ASSUME MemoInv, CreateBranch PROVE MemoInv'
  OBVIOUS
<1>1. part = "create" /\ safe # <<>> /\ UNCHANGED <<night, ci_runs, pulls>>
  BY DEF CreateBranch, Acts, observed
<1>2. ASSUME To("write"), branch' = Finding,
             committed' = [b \in DOMAIN committed \cup {Finding} |->
                             IF b = Finding THEN committed[branch] ELSE committed[b]],
             UNCHANGED <<index, loose, action_log>>
      PROVE  MemoInv'
  <2>1. /\ Finding \in FindingIds /\ Finding[1] = night /\ Finding # Trunk
        /\ Range(safe) = {Finding} \cup Range(Tail(safe)) /\ Finding \notin Range(Tail(safe))
    BY <1>1, HandAndRest DEF MemoInv
  <2>2. /\ committed[branch] = Nothing /\ Finding \notin DOMAIN committed
        /\ Nothing \in Memos /\ Nothing.memos = {}
    BY <1>1, <2>1 DEF MemoInv, WorkInHand, PlacesDisjoint, Unbranched, Nothing, Memos
  <2>3. /\ DOMAIN committed' = DOMAIN committed \cup {Finding} /\ committed'[Finding] = Nothing
        /\ \A b \in DOMAIN committed : committed'[b] = committed[b]
    BY <1>2, <2>2
  <2>4. Written' = Written
    <3>1. UNION {committed[b].memos : b \in DOMAIN committed}'
            = UNION {committed[b].memos : b \in DOMAIN committed}
      <4>1. \A b \in DOMAIN committed' : committed'[b].memos = IF b = Finding THEN {} ELSE committed[b].memos
        BY <2>2, <2>3
      <4>2. ASSUME NEW f, NEW b \in DOMAIN committed', f \in committed'[b].memos
            PROVE  b \in DOMAIN committed /\ f \in committed[b].memos
        BY <2>3, <4>1, <4>2
      <4>3. ASSUME NEW f, NEW b \in DOMAIN committed, f \in committed[b].memos
            PROVE  b \in DOMAIN committed' /\ f \in committed'[b].memos
        BY <2>3, <4>3
      <4> QED BY <4>2, <4>3
    <3> QED BY <1>2, <3>1 DEF Written
  <2>5. part' = "write" /\ UNCHANGED <<safe, acted, Finding>>
    BY <1>2 DEF To, Finding
  <2>6. CareTypes'
    BY <1>1, <1>2, <2>1, <2>2, <2>3, <2>5 DEF MemoInv, CareTypes
  <2>7. PlacesDisjoint'
    <3>1. \A b \in DOMAIN committed' : committed'[b].memos = IF b = Finding THEN {} ELSE committed[b].memos
      BY <2>2, <2>3
    <3> QED BY <1>2, <2>1, <2>2, <2>3, <2>4, <3>1 DEF MemoInv, CareTypes, PlacesDisjoint
  <2>8. WorkInHand'
    <3>1. Unwritten' = Unwritten /\ Unbranched' = Range(Tail(safe)) /\ Unbranched = Range(safe)
      BY <1>1, <2>5 DEF Unwritten, Unbranched
    <3>2. Unbranched' \cap DOMAIN committed' = {}
      BY <2>1, <2>3, <3>1 DEF MemoInv, WorkInHand
    <3>3. night \in Nat
      BY DEF MemoInv, CareTypes
    <3>4. \A f \in Written' \cup (DOMAIN committed' \ {Trunk}) : f[1] <= night'
      BY <1>1, <2>1, <2>3, <2>4, <3>3 DEF MemoInv, WorkInHand
    <3> QED BY <1>1, <1>2, <2>4, <2>5, <3>1, <3>2, <3>4 DEF MemoInv, WorkInHand
  <2>9. PullsHaveMemos'
    BY <1>2, <2>3, <2>5, PullsStay DEF MemoInv
  <2> QED BY <2>6, <2>7, <2>8, <2>9 DEF MemoInv
<1>3. CASE Recorded(FALSE, FALSE, "next") /\ UNCHANGED directory_of
  <2>1. ci_runs' \in Seq(CiRuns) /\ IsFiniteSet(pulls')
    BY <1>1 DEF MemoInv, CareTypes
  <2> QED BY <1>1, <1>3, <2>1, GivenUp
<1> QED BY <1>2, <1>3 DEF CreateBranch

\* A memo is written to a place of its own, and the log has a line for it.
LEMMA WriteKeepsPlaces ==
  ASSUME MemoInv, part = "write", safe # <<>>, action_log' = action_log \cup {Finding},
         UNCHANGED <<branch, committed>>,
         \/ index' = [memos |-> index.memos \cup {Finding}, log |-> action_log'] /\ UNCHANGED loose
         \/ loose' = loose \cup {Finding} /\ UNCHANGED index
  PROVE  /\ PlacesDisjoint' /\ Written' = Written \cup {Finding} /\ Finding \in (index.memos \cup loose)'
         /\ loose \subseteq loose' /\ loose' \subseteq FindingIds /\ action_log' \subseteq FindingIds
         /\ index' \in Memos
<1>1. Finding \in FindingIds /\ Finding \in Range(safe)
  BY HandAndRest DEF MemoInv
<1>2. Finding \notin Written
  BY <1>1 DEF MemoInv, WorkInHand, Unwritten
<1>3. /\ index.memos \subseteq FindingIds /\ index \in Memos /\ action_log \subseteq FindingIds /\ loose \subseteq FindingIds
  BY DEF MemoInv, CareTypes, Memos
<1>4. /\ loose' \cup index'.memos = loose \cup index.memos \cup {Finding}
      /\ loose \subseteq loose' /\ loose' \subseteq loose \cup {Finding}
      /\ index'.memos \subseteq index.memos \cup {Finding}
      /\ loose' = loose \/ index'.memos = index.memos
  OBVIOUS
<1>5. index' \in Memos
  BY <1>1, <1>3 DEF Memos
<1>6. Written' = Written \cup {Finding}
  BY <1>4 DEF Written
<1>7. \A b \in DOMAIN committed : Finding \notin committed[b].memos
  BY <1>2 DEF Written
<1>8. Finding \notin loose /\ Finding \notin index.memos
  BY <1>2 DEF Written
<1>9. PlacesDisjoint'
  <2>1. /\ committed[Trunk] = Nothing /\ loose \cap index.memos = {} /\ action_log \subseteq Written
        /\ \A b \in DOMAIN committed : committed[b].memos \cap (loose \cup index.memos) = {}
        /\ \A b, c \in DOMAIN committed : b # c => committed[b].memos \cap committed[c].memos = {}
    BY DEF MemoInv, PlacesDisjoint
  <2>2. loose' \cap index'.memos = {}
    BY <1>4, <1>8, <2>1
  <2>3. \A b \in DOMAIN committed : committed[b].memos \cap (loose' \cup index'.memos) = {}
    BY <1>4, <1>7, <2>1
  <2>4. action_log' \subseteq Written'
    BY <1>6, <2>1
  <2> QED BY <2>1, <2>2, <2>3, <2>4 DEF PlacesDisjoint
<1> QED BY <1>1, <1>3, <1>4, <1>5, <1>6, <1>9

LEMMA WriteKeepsMemos == MemoInv /\ WriteMemo => MemoInv'
<1> SUFFICES ASSUME MemoInv, WriteMemo PROVE MemoInv'
  OBVIOUS
<1>1. /\ part = "write" /\ safe # <<>> /\ UNCHANGED <<night, ci_runs, pulls, branch, committed>>
      /\ action_log' = action_log \cup {Finding}
      /\ \/ index' = [memos |-> index.memos \cup {Finding}, log |-> action_log'] /\ UNCHANGED loose
         \/ loose' = loose \cup {Finding} /\ UNCHANGED index
      /\ To("commit") \/ Recorded(FALSE, FALSE, "return")
  BY DEF WriteMemo, Acts, observed
<1>2. /\ PlacesDisjoint' /\ Written' = Written \cup {Finding} /\ Finding \in (index.memos \cup loose)'
      /\ loose \subseteq loose' /\ loose' \subseteq FindingIds /\ action_log' \subseteq FindingIds
      /\ index' \in Memos
  BY <1>1, WriteKeepsPlaces
<1>3. /\ Finding \in FindingIds /\ Finding[1] = night /\ Tail(safe) \in Seq(FindingIds)
      /\ Range(safe) = {Finding} \cup Range(Tail(safe)) /\ Finding \notin Range(Tail(safe))
  BY <1>1, HandAndRest DEF MemoInv
<1>4. CASE To("commit")
  <2>1. part' = "commit" /\ UNCHANGED <<safe, acted, Finding>>
    BY <1>4 DEF To, Finding
  <2>2. CareTypes'
    BY <1>1, <1>2, <2>1 DEF MemoInv, CareTypes
  <2>3. Unwritten' = Range(Tail(safe)) /\ Unwritten = Range(safe) /\ Unbranched' = Unbranched
    BY <1>1, <2>1 DEF Unwritten, Unbranched
  <2>4. Unwritten' \cap Written' = {}
    BY <1>2, <1>3, <2>3 DEF MemoInv, WorkInHand
  <2>5. \A f \in Written' \cup (DOMAIN committed' \ {Trunk}) : f[1] <= night'
    <3>1. night \in Nat
      BY DEF MemoInv, CareTypes
    <3> QED BY <1>1, <1>2, <1>3, <3>1 DEF MemoInv, WorkInHand
  <2>6. WorkInHand'
    BY <1>1, <1>2, <2>1, <2>3, <2>4, <2>5 DEF MemoInv, WorkInHand
  <2>7. PullsHaveMemos'
    BY <1>1, <1>2, <2>1, PullsStay DEF MemoInv
  <2> QED BY <1>2, <2>2, <2>6, <2>7 DEF MemoInv
<1>5. CASE Recorded(FALSE, FALSE, "return")
  <2>1. safe' = Tail(safe) /\ part' = "return" /\ \A r \in acted' : r.pull => r \in acted
    BY <1>5, RecordsNoPull
  <2>2. CareTypes'
    BY <1>1, <1>2, <1>3, <2>1 DEF MemoInv, CareTypes
  <2>3. WorkInHand'
    BY <1>1, <1>2, <2>1, NextFinding DEF MemoInv
  <2>4. PullsHaveMemos'
    BY <1>1, <1>2, <2>1, PullsStay DEF MemoInv
  <2> QED BY <1>2, <2>2, <2>3, <2>4 DEF MemoInv
<1> QED BY <1>1, <1>4, <1>5

\* The index moves into the branch as a whole.
LEMMA CommitKeepsPlaces ==
  ASSUME MemoInv, branch # Trunk, index' = Nothing, UNCHANGED <<branch, loose, action_log>>,
         committed' = [committed EXCEPT ![branch] =
                         [memos |-> @.memos \cup index.memos, log |-> @.log \cup index.log]]
  PROVE  /\ PlacesDisjoint' /\ Written' = Written /\ DOMAIN committed' = DOMAIN committed
         /\ \A b \in DOMAIN committed' : committed'[b] \in Memos
         /\ \A b \in DOMAIN committed : committed[b].memos \subseteq committed'[b].memos
         /\ committed'[branch].memos = committed[branch].memos \cup index.memos
         /\ index' \in Memos
<1> DEFINE now == [memos |-> committed[branch].memos \cup index.memos, log |-> committed[branch].log \cup index.log]
<1>1. branch \in DOMAIN committed /\ index \in Memos /\ committed[branch] \in Memos
  BY DEF MemoInv, CareTypes
<1>2. now \in Memos /\ now.memos = committed[branch].memos \cup index.memos
  BY <1>1 DEF Memos
<1>3. Nothing \in Memos /\ index'.memos = {}
  BY DEF Nothing, Memos
<1>4. committed' = [committed EXCEPT ![branch] = now]
  OBVIOUS
<1> HIDE DEF now
<1>5. /\ DOMAIN committed' = DOMAIN committed /\ committed'[branch] = now
      /\ \A b \in DOMAIN committed : b # branch => committed'[b] = committed[b]
  BY <1>1, <1>4
<1>6. /\ \A b \in DOMAIN committed' : committed'[b] \in Memos
      /\ \A b \in DOMAIN committed :
            committed'[b].memos = IF b = branch THEN committed[branch].memos \cup index.memos ELSE committed[b].memos
  BY <1>2, <1>5 DEF MemoInv, CareTypes
<1>7. Written' = Written
  <2>1. ASSUME NEW b \in DOMAIN committed' PROVE committed'[b].memos \subseteq Written
    <3>1. index.memos \subseteq Written /\ committed[branch].memos \subseteq Written /\ committed[b].memos \subseteq Written
      BY <1>1, <1>5 DEF Written
    <3> QED BY <1>5, <1>6, <3>1
  <2>2. ASSUME NEW b \in DOMAIN committed PROVE committed[b].memos \subseteq Written'
    <3>1. committed'[b].memos \subseteq Written'
      BY <1>5 DEF Written
    <3> QED BY <1>6, <3>1
  <2>3. loose \subseteq Written /\ loose \subseteq Written' /\ index.memos \subseteq Written'
    <3>1. committed'[branch].memos \subseteq Written'
      BY <1>1, <1>5 DEF Written
    <3> QED BY <1>1, <1>6, <3>1 DEF Written
  <2>4. Written' \subseteq Written
    BY <1>3, <2>1, <2>3 DEF Written
  <2>5. Written \subseteq Written'
    BY <2>2, <2>3 DEF Written
  <2> QED BY <2>4, <2>5
<1>8. PlacesDisjoint'
  <2>1. /\ committed[Trunk] = Nothing /\ loose \cap index.memos = {} /\ action_log \subseteq Written
        /\ \A b \in DOMAIN committed : committed[b].memos \cap (loose \cup index.memos) = {}
        /\ \A b, c \in DOMAIN committed : b # c => committed[b].memos \cap committed[c].memos = {}
    BY DEF MemoInv, PlacesDisjoint
  <2>2. committed'[Trunk] = Nothing
    BY <1>5, <2>1 DEF MemoInv, CareTypes
  <2>3. loose' \cap index'.memos = {} /\ loose' = loose
    BY <1>3
  <2>4. \A b \in DOMAIN committed' : committed'[b].memos \cap (loose' \cup index'.memos) = {}
    BY <1>1, <1>3, <1>5, <1>6, <2>1
  <2>5. \A b, c \in DOMAIN committed' : b # c => committed'[b].memos \cap committed'[c].memos = {}
    BY <1>1, <1>5, <1>6, <2>1
  <2> QED BY <1>7, <2>1, <2>2, <2>3, <2>4, <2>5 DEF PlacesDisjoint
<1> QED BY <1>1, <1>3, <1>5, <1>6, <1>7, <1>8

LEMMA CommitKeepsMemos == MemoInv /\ CommitMemo => MemoInv'
<1> SUFFICES ASSUME MemoInv, CommitMemo PROVE MemoInv'
  OBVIOUS
<1>1. part = "commit" /\ safe # <<>> /\ UNCHANGED <<night, ci_runs, pulls>>
  BY DEF CommitMemo, Acts, observed
<1>2. ASSUME To("push"), index' = Nothing, UNCHANGED <<branch, loose, action_log>>,
             committed' = [committed EXCEPT ![branch] =
                             [memos |-> @.memos \cup index.memos, log |-> @.log \cup index.log]]
      PROVE  MemoInv'
  <2>1. branch = Finding /\ branch # Trunk
    BY <1>1, HandAndRest DEF MemoInv, WorkInHand
  <2>2. /\ PlacesDisjoint' /\ Written' = Written /\ DOMAIN committed' = DOMAIN committed
        /\ \A b \in DOMAIN committed' : committed'[b] \in Memos
        /\ \A b \in DOMAIN committed : committed[b].memos \subseteq committed'[b].memos
        /\ committed'[branch].memos = committed[branch].memos \cup index.memos
        /\ index' \in Memos
    BY <1>2, <2>1, CommitKeepsPlaces
  <2>3. part' = "push" /\ UNCHANGED <<safe, acted, Finding>>
    BY <1>2 DEF To, Finding
  <2>4. CareTypes'
    BY <1>1, <1>2, <2>2, <2>3 DEF MemoInv, CareTypes
  <2>5. WorkInHand'
    <3>1. Unwritten' = Unwritten /\ Unbranched' = Unbranched
      BY <1>1, <2>3 DEF Unwritten, Unbranched
    <3> QED BY <1>1, <1>2, <2>2, <2>3, <3>1 DEF MemoInv, WorkInHand
  <2>6. PullsHaveMemos'
    BY <1>2, <2>2, <2>3, PullsStay DEF MemoInv
  <2> QED BY <2>2, <2>4, <2>5, <2>6 DEF MemoInv
<1>3. CASE Recorded(FALSE, FALSE, "return") /\ UNCHANGED directory_of
  <2>1. ci_runs' \in Seq(CiRuns) /\ IsFiniteSet(pulls')
    BY <1>1 DEF MemoInv, CareTypes
  <2> QED BY <1>1, <1>3, <2>1, GivenUp
<1> QED BY <1>2, <1>3 DEF CommitMemo

\* A run more in the list that GitHub shows.
LEMMA OneRunMore ==
  ASSUME ci_runs \in Seq(CiRuns), NEW jobs,
         ci_runs' = SubSeq(<<[workflow |-> "ci", conclusion |-> MergeGate(jobs)]>> \o ci_runs,
                           1, IF Len(ci_runs) < 10 THEN Len(ci_runs) + 1 ELSE 10)
  PROVE  ci_runs' \in Seq(CiRuns)
<1> DEFINE run == [workflow |-> "ci", conclusion |-> MergeGate(jobs)]
           m == IF Len(ci_runs) < 10 THEN Len(ci_runs) + 1 ELSE 10
<1>1. run \in CiRuns
  BY DEF CiRuns, MergeGate
<1> HIDE DEF run
<1>2. <<run>> \in Seq(CiRuns) /\ Len(<<run>>) = 1
  BY <1>1
<1>3. Len(ci_runs) \in Nat
  BY LenProperties
<1>4. /\ <<run>> \o ci_runs \in Seq(CiRuns) /\ Len(<<run>> \o ci_runs) = 1 + Len(ci_runs)
  BY <1>2, ConcatProperties
<1>5. m \in Int /\ 1 .. m \subseteq 1 .. Len(<<run>> \o ci_runs)
  BY <1>3, <1>4
<1>6. \A i \in 1 .. m : (<<run>> \o ci_runs)[i] \in CiRuns
  BY <1>4, <1>5, ElementOfSeq
<1> HIDE DEF m
<1>7. SubSeq(<<run>> \o ci_runs, 1, m) \in Seq(CiRuns)
  BY <1>5, <1>6, SubSeqProperties
<1> QED BY <1>7 DEF run, m

LEMMA PushKeepsMemos == MemoInv /\ PushAndOpen => MemoInv'
<1> SUFFICES ASSUME MemoInv, PushAndOpen PROVE MemoInv'
  OBVIOUS
<1>1. part = "push" /\ safe # <<>> /\ UNCHANGED <<night, directory_of>>
  BY DEF PushAndOpen, MemoInv, WorkInHand
<1>2. ci_runs' \in Seq(CiRuns)
  <2>1. ci_runs \in Seq(CiRuns)
    BY DEF MemoInv, CareTypes
  <2> QED BY <2>1, OneRunMore DEF PushAndOpen
<1>3. IsFiniteSet(pulls')
  <2>1. pulls' = pulls \/ pulls' = pulls \cup {[head |-> Finding, touched |-> night]}
    BY DEF PushAndOpen
  <2>2. IsFiniteSet(pulls)
    BY DEF MemoInv, CareTypes
  <2> QED BY <2>1, <2>2, FS_AddElement
<1>4. CASE Recorded(TRUE, FALSE, "return")
  BY <1>1, <1>2, <1>3, <1>4, GivenUp
<1>5. CASE Recorded(TRUE, TRUE, "return")
  <2> DEFINE record == [finding |-> Finding, commit |-> TRUE, pull |-> TRUE]
  <2>1. safe' = Tail(safe) /\ part' = "return" /\ acted' = acted \cup {record} /\ record.finding = Finding
    BY <1>5 DEF Recorded
  <2> HIDE DEF record
  <2>2. Tail(safe) \in Seq(FindingIds)
    BY <1>1, HandAndRest DEF MemoInv
  <2>3. CareTypes'
    BY <1>1, <1>2, <1>3, <2>1, <2>2 DEF MemoInv, CareTypes, directory_of
  <2>4. Written' = Written
    BY <1>1 DEF Written, directory_of
  <2>5. PlacesDisjoint'
    BY <1>1, <2>4 DEF MemoInv, PlacesDisjoint, directory_of
  <2>6. WorkInHand'
    BY <1>1, <2>1, <2>4, NextFinding DEF MemoInv, directory_of
  <2>7. Finding \in loose \/ (Finding \in DOMAIN committed /\ Finding \in committed[Finding].memos)
    BY <1>1 DEF MemoInv, WorkInHand, CareTypes
  <2>8. PullsHaveMemos'
    BY <1>1, <2>1, <2>7 DEF MemoInv, PullsHaveMemos, directory_of
  <2> QED BY <2>3, <2>5, <2>6, <2>8 DEF MemoInv
<1> QED BY <1>4, <1>5 DEF PushAndOpen

LEMMA ReturnKeepsMemos == MemoInv /\ ReturnToMain => MemoInv'
<1> SUFFICES ASSUME MemoInv, ReturnToMain PROVE MemoInv'
  OBVIOUS
<1>1. part = "return" /\ part' = "next" /\ UNCHANGED <<night, ci_runs, pulls, safe, acted>>
  BY DEF ReturnToMain, observed
<1>2. /\ PlacesDisjoint' /\ Written' = Written /\ UNCHANGED <<committed, index, loose>>
      /\ action_log' \subseteq action_log /\ branch' \in DOMAIN committed'
  <2>1. CASE BackToMain
    BY <2>1, MainKeepsPlaces DEF MemoInv
  <2>2. CASE UNCHANGED directory_of
    <3>1. Written' = Written
      BY <2>2 DEF Written, directory_of
    <3> QED BY <2>2, <3>1 DEF MemoInv, PlacesDisjoint, CareTypes, directory_of
  <2> QED BY <2>1, <2>2 DEF ReturnToMain
<1>3. CareTypes'
  BY <1>1, <1>2 DEF MemoInv, CareTypes
<1>4. WorkInHand'
  BY <1>1, <1>2 DEF MemoInv, WorkInHand, Unwritten, Unbranched
<1>5. PullsHaveMemos'
  BY <1>1, <1>2, PullsStay DEF MemoInv
<1> QED BY <1>2, <1>3, <1>4, <1>5 DEF MemoInv

LEMMA EndKeepsMemos == MemoInv /\ (EndRun \/ Killed) => MemoInv'
<1> SUFFICES ASSUME MemoInv, EndRun \/ Killed PROVE MemoInv'
  OBVIOUS
<1>1. /\ part' = "idle" /\ safe' = <<>> /\ UNCHANGED <<night, ci_runs, pulls, acted>>
      /\ UNCHANGED <<branch, committed, index, loose, action_log>>
  BY DEF EndRun, Killed, observed, directory_of
<1>2. safe' \in Seq(FindingIds) /\ Range(safe') = {} /\ Distinct(safe)'
  BY <1>1, EmptySeq DEF Range, Distinct
<1>3. Written' = Written
  BY <1>1 DEF Written
<1>4. CareTypes'
  BY <1>1, <1>2 DEF MemoInv, CareTypes
<1>5. PlacesDisjoint'
  BY <1>1, <1>3 DEF MemoInv, PlacesDisjoint
<1>6. WorkInHand'
  BY <1>1, <1>2, <1>3 DEF MemoInv, WorkInHand, Unwritten, Unbranched
<1>7. PullsHaveMemos'
  BY <1>1 DEF MemoInv, PullsHaveMemos
<1> QED BY <1>4, <1>5, <1>6, <1>7 DEF MemoInv

LEMMA StepKeepsMemos == MemoInv /\ [CaretakerNext]_caretaker_vars => MemoInv'
<1> SUFFICES ASSUME MemoInv, [CaretakerNext]_caretaker_vars PROVE MemoInv'
  OBVIOUS
<1>1. CASE UNCHANGED caretaker_vars
  <2>1. UNCHANGED <<night, part, safe, acted, ci_runs, pulls, branch, committed, index, loose, action_log>>
    BY <1>1 DEF caretaker_vars
  <2> QED BY <2>1 DEF MemoInv, CareTypes, PlacesDisjoint, WorkInHand, PullsHaveMemos, Written, Unwritten,
          Unbranched, Finding
<1> QED BY <1>1, StartKeepsMemos, CheckoutKeepsMemos, CreateKeepsMemos, WriteKeepsMemos, CommitKeepsMemos,
        PushKeepsMemos, ReturnKeepsMemos, EndKeepsMemos DEF CaretakerNext

\* Disjoint places are places counted once.
LEMMA DisjointIsOnce ==
  ASSUME PlacesDisjoint, NEW f \in Written
  PROVE  Cardinality({b \in DOMAIN committed : f \in committed[b].memos})
         + (IF f \in index.memos THEN 1 ELSE 0) + (IF f \in loose THEN 1 ELSE 0) = 1
<1> DEFINE branches == {b \in DOMAIN committed : f \in committed[b].memos}
<1>1. CASE \E b \in DOMAIN committed : f \in committed[b].memos
  <2>1. PICK b \in DOMAIN committed : f \in committed[b].memos
    BY <1>1
  <2>2. branches = {b} /\ f \notin index.memos /\ f \notin loose
    BY <2>1 DEF PlacesDisjoint
  <2>3. Cardinality(branches) = 1
    BY <2>2, FS_Singleton
  <2> QED BY <2>2, <2>3
<1>2. CASE ~ \E b \in DOMAIN committed : f \in committed[b].memos
  <2>1. branches = {}
    BY <1>2
  <2>2. Cardinality(branches) = 0
    BY <2>1, FS_EmptySet
  <2>3. f \in index.memos \/ f \in loose
    BY <1>2 DEF Written
  <2>4. ~(f \in index.memos /\ f \in loose)
    BY DEF PlacesDisjoint
  <2> QED BY <2>2, <2>3, <2>4
<1> QED BY <1>1, <1>2

\* No memo is lost or written twice: each is loose, staged, or in one branch, whatever
\* git command failed and wherever a run was killed (repo_caretaker.ts 604-812); the log
\* has no line without a memo; and a pull request has the memo of its finding unless git
\* could not take that.
THEOREM MemosStayWhole == CaretakerSpec => []MemosKeptOnce
<1>1. MemoInv => MemosKeptOnce
  <2> SUFFICES ASSUME MemoInv PROVE MemosKeptOnce
    OBVIOUS
  <2>1. \A f \in Written : Cardinality({b \in DOMAIN committed : f \in committed[b].memos})
                           + (IF f \in index.memos THEN 1 ELSE 0) + (IF f \in loose THEN 1 ELSE 0) = 1
    BY DisjointIsOnce DEF MemoInv
  <2>2. action_log \subseteq Written
    BY DEF MemoInv, PlacesDisjoint
  <2>3. \A r \in acted : r.pull /\ r.finding \notin loose => r.finding \in committed[r.finding].memos
    BY DEF MemoInv, PullsHaveMemos
  <2> QED BY <2>1, <2>2, <2>3 DEF MemosKeptOnce, Written
<1> QED BY <1>1, MemosInitially, StepKeepsMemos, PTL DEF CaretakerSpec

=============================================================================
