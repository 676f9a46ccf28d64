----------------------------- MODULE PrSubmitter -----------------------------
(***************************************************************************)
(* tools/pr_submitter.ts: for every skill that the gate promoted, a branch *)
(* from the remote base, its patch, a commit, a push and a draft PR; then  *)
(* back to the branch the process found.  Git and GitHub are external:     *)
(* their part is what these commands do to the working directory, the two  *)
(* repositories and the list of pull requests.  A submission is repeated   *)
(* when a cycle is resumed, and may be killed between two commands.        *)
(***************************************************************************)
EXTENDS Integers, Sequences, FiniteSets

CONSTANTS
    Batches,      \* what one submission is given: [gate |-> <<skills>>, injected |-> {skills}]
    Skills,       \* promoted skills; a skill stands for its branch and its patch
    Main,         \* the base branch
    Detached,     \* the directory is on no branch: rev-parse prints "HEAD"
    MaxRuns,      \* bound: submissions
    MaxCrashes,   \* bound: of them killed
    CanConflict   \* whether git apply --3way may stop at a conflict

ASSUME PrBounds == Main \notin Skills /\ Detached \notin Skills \cup {Main} /\ {MaxRuns, MaxCrashes} \subseteq Nat
\* A gate promotes a skill once: each promotion draws an id of its own.
ASSUME PrBatches ==
    \A b \in Batches : /\ b.gate \in Seq(Skills) /\ DOMAIN b = {"gate", "injected"}
                       /\ \A i, j \in DOMAIN b.gate : b.gate[i] = b.gate[j] => i = j

VARIABLES
    pc, pr_batch, todo, original, results,   \* the call: its step, input, rest of gate_results
    head, tree, unmerged,                 \* the working directory: branch, uncommitted patches
    local, remote, prs,                   \* branch -> what it adds to the base; branches with a PR
    misread,                              \* <<skill, run>>: a failing status hid an unclean tree
    runs, crashes                         \* counters

pr_call == <<pc, pr_batch, todo, original, results>>
directory == <<head, tree, unmerged>>
repos == <<local, remote, prs>>
history == <<misread, runs, crashes>>
pr_vars == <<pr_call, directory, repos, history>>

Skill == Head(todo)

\* A branch adds patches to the base, in a commit of some submission.
Base == [patches |-> {}, run |-> 0]
Branches == Skills \cup {Main}

\* The directory and both repositories hold branches and patches of promoted skills.
PrTypeOK ==
    /\ pc \in {"idle", "next", "status", "checkout", "apply", "commit", "push", "pull", "cleanup", "restore"}
    /\ head \in DOMAIN local \cup {Detached} /\ Main \in DOMAIN local
    /\ DOMAIN local \subseteq Branches /\ DOMAIN remote \subseteq Skills
    /\ \A b \in DOMAIN local : local[b].patches \subseteq Skills
    /\ tree \subseteq Skills /\ prs \subseteq DOMAIN remote
    /\ \A r \in results : r.skill \in Skills /\ r.status \in {"created", "failed"}

PrInit ==
    /\ pc = "idle" /\ pr_batch = [gate |-> <<>>, injected |-> {}] /\ todo = <<>>
    /\ original = Main /\ results = {}
    /\ head \in {Main, Detached} /\ tree = {} /\ unmerged = FALSE
    /\ local = [b \in {Main} |-> Base] /\ remote = [b \in {} |-> Base] /\ prs = {}
    /\ misread = {} /\ runs = 0 /\ crashes = 0

-----------------------------------------------------------------------------
\* rev-parse names the branch to return to: the one found, whatever it is, "HEAD" when
\* there is none, or the base branch when the command fails.
\* The injected skills are in promoted_skills only: the loop does not see them.
SubmitPromotedSkills(b) ==
    /\ pc = "idle" /\ runs < MaxRuns
    /\ runs' = runs + 1
    /\ pr_batch' = b /\ todo' = b.gate /\ results' = {}
    /\ original' \in {head, Main}
    /\ pc' = "next"
    /\ UNCHANGED <<directory, repos, misread, crashes>>

NextSkill ==
    /\ pc = "next"
    /\ pc' = IF todo = <<>> THEN "idle" ELSE "status"
    /\ UNCHANGED <<pr_batch, todo, original, results, directory, repos, history>>

Step(from, to) == pc = from /\ pc' = to
Fails(from) == pc = from /\ pc' = "cleanup"
CallUnchanged == UNCHANGED <<pr_batch, todo, original, results, history>>

\* An unclean working tree fails the skill; a status that fails prints nothing, and is
\* taken for a clean one.
Status ==
    /\ \/ tree = {} /\ Step("status", "checkout") /\ UNCHANGED misread
       \/ tree # {} /\ Fails("status") /\ UNCHANGED misread
       \/ tree # {} /\ Step("status", "checkout") /\ misread' = misread \cup {<<Skill, runs>>}
    /\ UNCHANGED <<pr_batch, todo, original, results, directory, repos, runs, crashes>>

\* Mutant: the branch is made where the directory is.
CheckoutNewBranch_FromHead ==
    /\ Step("checkout", "apply") /\ Skill \notin DOMAIN local /\ ~unmerged
    /\ head' = Skill
    /\ local' = [b \in DOMAIN local \cup {Skill} |->
                   IF b # Skill THEN local[b] ELSE IF head \in DOMAIN local THEN local[head] ELSE Base]
    /\ CallUnchanged /\ UNCHANGED <<tree, unmerged, remote, prs>>

\* checkout -b from origin/base, which refuses a branch that exists and an unmerged
\* index; uncommitted changes come along or prevent it.
CheckoutNewBranch ==
    /\ pc = "checkout"
    /\ \/ /\ Skill \notin DOMAIN local /\ ~unmerged
          /\ Step("checkout", "apply")
          /\ head' = Skill
          /\ local' = [b \in DOMAIN local \cup {Skill} |-> IF b = Skill THEN Base ELSE local[b]]
       \/ Fails("checkout") /\ UNCHANGED <<head, local>>
    /\ CallUnchanged /\ UNCHANGED <<tree, unmerged, remote, prs>>

\* The patch applies, is refused as a whole, or stops at a conflict that stays in
\* the index and in the files.
Apply ==
    /\ pc = "apply"
    /\ \/ /\ Step("apply", "commit")
          /\ tree' = tree \cup {Skill}
          /\ UNCHANGED <<unmerged>>
       \/ Fails("apply") /\ UNCHANGED <<tree, unmerged>>
       \/ /\ CanConflict /\ Fails("apply")
          /\ tree' = tree \cup {Skill}
          /\ unmerged' = TRUE
    /\ CallUnchanged /\ UNCHANGED <<head, repos>>

\* add -A and commit take everything in the tree; a hook may refuse.
Commit ==
    /\ pc = "commit"
    /\ \/ /\ Step("commit", "push")
          /\ local' = [local EXCEPT ![head] = [patches |-> @.patches \cup tree, run |-> runs]]
          /\ tree' = {}
       \/ Fails("commit") /\ UNCHANGED <<local, tree>>
    /\ CallUnchanged /\ UNCHANGED <<head, unmerged, remote, prs>>

Pushed == remote' = [b \in DOMAIN remote \cup {Skill} |-> IF b = Skill THEN local[Skill] ELSE remote[b]]

\* Mutant: the push is not looked at.
Push_Unchecked ==
    /\ Step("push", "pull")
    /\ (Skill \notin DOMAIN remote /\ Pushed) \/ UNCHANGED remote
    /\ CallUnchanged /\ UNCHANGED <<directory, local, prs>>

\* A branch that was pushed before has another commit, and is refused: no fast-forward.
\* A push may be reported as failed and have arrived.
Push ==
    /\ pc = "push"
    /\ \/ Skill \notin DOMAIN remote /\ Pushed /\ pc' \in {"pull", "cleanup"}
       \/ Fails("push") /\ UNCHANGED remote
    /\ CallUnchanged /\ UNCHANGED <<directory, local, prs>>

Report(status) == results' = results \cup {[skill |-> Skill, status |-> status]}

\* The request succeeds, is refused, or succeeds and the answer is lost.
CreateGitHubPR ==
    /\ pc = "pull"
    /\ \/ Step("pull", "restore") /\ prs' = prs \cup {Skill} /\ Report("created")
       \/ Fails("pull") /\ prs' \in {prs, prs \cup {Skill}} /\ UNCHANGED results
    /\ UNCHANGED <<pr_batch, todo, original, directory, local, remote, history>>

\* branch -D, which git refuses for the branch that is checked out.
Cleanup ==
    /\ Step("cleanup", "restore")
    /\ local' = IF head = Skill THEN local ELSE [b \in DOMAIN local \ {Skill} |-> local[b]]
    /\ Report("failed")
    /\ UNCHANGED <<pr_batch, todo, original, directory, remote, prs, history>>

\* checkout of the original branch: refused with an unmerged index, or when a cleanup
\* has deleted it, and no change when it is "HEAD"; changes that were not committed come
\* along or prevent it.  Its result is not looked at.
Restore ==
    /\ Step("restore", "next")
    /\ todo' = Tail(todo)
    /\ head' \in IF unmerged \/ original \notin DOMAIN local THEN {head}
                 ELSE IF tree = {} THEN {original} ELSE {original, head}
    /\ UNCHANGED <<pr_batch, original, results, tree, unmerged, repos, history>>

-----------------------------------------------------------------------------
\* The process is killed between two commands.
Crash ==
    /\ pc # "idle" /\ crashes < MaxCrashes
    /\ pc' = "idle" /\ crashes' = crashes + 1
    /\ UNCHANGED <<pr_batch, todo, original, results, directory, repos, misread, runs>>

\* Someone cleans the directory between two nights.
OperatorCleans ==
    /\ pc = "idle"
    /\ head' \in {Main, Detached} /\ tree' = {} /\ unmerged' = FALSE
    /\ UNCHANGED <<pr_call, repos, history>>

Submitter ==
    \/ NextSkill \/ Status \/ CheckoutNewBranch \/ Apply \/ Commit \/ Push
    \/ CreateGitHubPR \/ Cleanup \/ Restore

PrNext == (\E b \in Batches : SubmitPromotedSkills(b)) \/ Submitter \/ Crash \/ OperatorCleans

PrSpec == PrInit /\ [][PrNext]_pr_vars

-----------------------------------------------------------------------------
\* A pushed branch holds the patch of its skill, and no other unless the submission
\* that pushed it misread the tree: whatever earlier skills, killed runs, conflicts,
\* failed commits and checkouts left in the directory, and wherever it was.
OwnPatchOnly ==
    \A b \in DOMAIN remote :
        b \in remote[b].patches /\ (remote[b].patches = {b} \/ <<b, remote[b].run>> \in misread)

\* The answers of a call are true, over retries of what an earlier call pushed, deleted
\* or left half done: a call that returns has exactly one for each skill the gate
\* promoted, failures among them or not, and "created" only of a pull request whose
\* branch is the commit this call made.
AnswersAreTrue ==
    pc = "next" /\ todo = <<>> =>
        /\ \A i \in DOMAIN pr_batch.gate :
             \E r \in results : \A other \in results : other.skill = pr_batch.gate[i] <=> other = r
        /\ \A r \in results : r.status = "created" =>
             r.skill \in prs /\ r.skill \in DOMAIN remote /\ remote[r.skill].run = runs

=============================================================================
