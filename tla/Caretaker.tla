------------------------------ MODULE Caretaker -----------------------------
(***************************************************************************)
(* tools/repo_caretaker.ts: one night observes the repositories, sorts     *)
(* what it finds, reports it, queues what it defers, and opens a draft PR  *)
(* with a memo for every failed CI run of its own repository.  The PR runs *)
(* CI, whose verdict is Constitution's, and the next night sees that run   *)
(* too.  Git and GitHub are external: their part is what the      *)
(* commands do to branches, index and working directory.                   *)
(***************************************************************************)
EXTENDS Constitution, FiniteSets

CONSTANTS
    Modes,            \* flags of a run: [execute, dry_run]
    OldRuns,          \* CI runs before the first night, latest first: [workflow, conclusion]
    OldPulls,         \* nights on which the open pull requests were last touched
    Elsewhere,        \* findings in the other repositories: sequences of [tier, type]
    GovernanceStale,  \* the constitution has not been touched for thirty days
    JobResults,       \* what the CI jobs of a branch report: [lint, schema, invariants, governance]
    Trunk,            \* main
    MaxNights,        \* bound: nights
    MaxGitFailures,   \* bound: commands that fail
    MaxKills          \* bound: runs killed half-way

\* A branch named after a finding is never main; GitHub and the other repositories
\* answer with lists.
ASSUME CaretakerInputs ==
    /\ Trunk \notin Nat \X Nat
    /\ IsFiniteSet(OldPulls)
    /\ OldRuns \in Seq({OldRuns[i] : i \in DOMAIN OldRuns})
    /\ \A others \in Elsewhere : others \in Seq({others[i] : i \in DOMAIN others})

VARIABLES
    night, part, mode,    \* the run, the part of it that comes next, its flags
    safe,                 \* findings it will act on, numbered by night and place
    deferred,             \* lines in the defer queue
    acted,                \* action records of the run: [finding, commit, pull]
    ci_runs, pulls,       \* GitHub: the latest runs, and the night of each open PR
    branch,               \* HEAD
    committed,            \* branch -> [memos, log] it adds to main
    index,                \* [memos, log] staged
    loose, action_log,    \* memos on disk git does not know; lines in caretaker_actions.jsonl
    git_failures, kills   \* counters

caretaker_vars == <<night, part, mode, safe, deferred, acted, ci_runs, pulls, branch, committed,
                    index, loose, action_log, git_failures, kills>>
observed == <<night, mode, ci_runs, pulls, deferred>>
directory_of == <<branch, committed, index, loose, action_log>>

Nothing == [memos |-> {}, log |-> {}]

CaretakerInit ==
    /\ night = 0 /\ part = "idle" /\ mode = [execute |-> FALSE, dry_run |-> FALSE]
    /\ safe = <<>> /\ deferred = 0 /\ acted = {}
    /\ ci_runs = OldRuns /\ pulls = OldPulls
    /\ branch = Trunk /\ committed = [b \in {Trunk} |-> Nothing]
    /\ index = Nothing /\ loose = {} /\ action_log = {}
    /\ git_failures = 0 /\ kills = 0

-----------------------------------------------------------------------------
(* Observe and classify                                                      *)

Times(n, finding) == [i \in 1..n |-> finding]
RunsOf(workflow) == SelectSeq(ci_runs, LAMBDA r : r.workflow = workflow)

\* At most three failures; a workflow whose last run passed after one that failed;
\* pull requests untouched for over two days; and the constitution.
BuildFindings(runs_listed, pulls_listed) ==
    LET failed == Cardinality({i \in DOMAIN ci_runs : ci_runs[i].conclusion = "failure"})
        flaky == {w \in {ci_runs[i].workflow : i \in DOMAIN ci_runs} :
                    LET runs == RunsOf(w)
                    IN  Len(runs) >= 2 /\ runs[1].conclusion = "success" /\ runs[2].conclusion = "failure"}
        stale == IF pulls_listed THEN {p \in pulls : night + 1 - p.touched > 2} ELSE {}
        found(type) == [tier |-> "SELF", type |-> type]
    IN  IF ~runs_listed THEN <<>>
        ELSE Times(IF failed < 3 THEN failed ELSE 3, found("CI_FAILURE"))
             \o Times(Cardinality(flaky), found("CI_FLAKY"))
             \o Times(Cardinality(stale), found("OPEN_PR_STALE"))
             \o (IF GovernanceStale THEN <<found("GOVERNANCE_STALE")>> ELSE <<>>)

ClassifyFinding(finding) ==
    CASE finding.tier = "PRODUCTION" -> "HUMAN_REVIEW"
      [] finding.type = "GOVERNANCE_STALE" /\ finding.tier # "PRODUCTION" -> "HUMAN_REVIEW"
      [] finding.type \in {"CI_FAILURE", "OPEN_PR_STALE"} /\ finding.tier = "SELF" -> "SAFE_AUTO_PR"
      [] OTHER -> "DEFER"

\* A stale pull request is counted as safe, but its hint is a comment: nobody acts on it.
Actionable(finding) == ClassifyFinding(finding) = "SAFE_AUTO_PR" /\ finding.type = "CI_FAILURE"

\* How many it acts on, and how many it queues.
ToAct(findings) == Cardinality({i \in DOMAIN findings : Actionable(findings[i])})
ToDefer(findings) ==
    Cardinality({i \in DOMAIN findings : ClassifyFinding(findings[i]) \in {"DEFER", "HUMAN_REVIEW"}})

\* The two lists may fail to load, each on its own.  The report and the queue are
\* appended to; only --execute queues and acts, and a dry run writes nothing.
StartRun ==
    /\ part = "idle" /\ night < MaxNights
    /\ night' = night + 1
    /\ mode' \in Modes
    /\ \E runs_listed, pulls_listed \in BOOLEAN : \E others \in Elsewhere :
         LET findings == BuildFindings(runs_listed, pulls_listed) \o others
         IN  /\ deferred' = IF mode'.execute /\ ~mode'.dry_run THEN deferred + ToDefer(findings) ELSE deferred
             /\ safe' = IF mode'.execute /\ ~mode'.dry_run
                        THEN [i \in 1..ToAct(findings) |-> <<night', i>>] ELSE <<>>
    /\ part' = "next" /\ acted' = {}
    /\ UNCHANGED <<ci_runs, pulls, directory_of, git_failures, kills>>

-----------------------------------------------------------------------------
(* Act                                                                       *)

Finding == Head(safe)
Acts(from) == part = from /\ safe # <<>> /\ UNCHANGED <<observed, kills>>
To(next) == part' = next /\ UNCHANGED <<safe, acted>>

\* The finding is done with; what became of it is recorded.
Recorded(commit, pull, next) ==
    /\ acted' = acted \cup {[finding |-> Finding, commit |-> commit, pull |-> pull]}
    /\ safe' = Tail(safe) /\ part' = next

Works == UNCHANGED git_failures
Refused == git_failures < MaxGitFailures /\ git_failures' = git_failures + 1

\* Git does not leave a commit that has the log while the log on disk differs from it.
Stuck == committed[branch].log \notin {{}, action_log}

\* To main, which knows neither the log nor the memos: what was committed goes from
\* the disk, what was not stays.
BackToMain ==
    /\ branch' = Trunk
    /\ action_log' = IF committed[branch].log = {} THEN action_log ELSE {}
    /\ UNCHANGED <<committed, index, loose>>

\* Mutant: the run goes on from wherever it is.
CheckoutMain_Unchecked ==
    /\ Acts("next")
    /\ \/ ~Stuck /\ Works /\ BackToMain /\ To("create")
       \/ (IF Stuck THEN Works ELSE Refused) /\ To("create") /\ UNCHANGED directory_of

CheckoutMain ==
    /\ Acts("next")
    /\ \/ ~Stuck /\ Works /\ BackToMain /\ To("create")
       \/ (IF Stuck THEN Works ELSE Refused) /\ Recorded(FALSE, FALSE, "next") /\ UNCHANGED directory_of

\* The branch starts from HEAD and takes index and disk along.
CreateBranch ==
    /\ Acts("create")
    /\ \/ /\ Works /\ To("write") /\ branch' = Finding
          /\ committed' = [b \in DOMAIN committed \cup {Finding} |->
                             IF b = Finding THEN committed[branch] ELSE committed[b]]
          /\ UNCHANGED <<index, loose, action_log>>
       \/ Refused /\ Recorded(FALSE, FALSE, "next") /\ UNCHANGED directory_of

\* A line in the log, the memo, and git add of both, whose result is not looked at.
\* Anything staged, of this finding or of an earlier one, is enough to go on.
WriteMemo ==
    /\ Acts("write")
    /\ action_log' = action_log \cup {Finding}
    /\ UNCHANGED <<branch, committed>>
    /\ \/ /\ index' = [memos |-> index.memos \cup {Finding}, log |-> action_log']
          /\ UNCHANGED loose
          /\ \/ Works /\ To("commit")
             \/ Refused /\ Recorded(FALSE, FALSE, "return")
       \/ /\ loose' = loose \cup {Finding}
          /\ UNCHANGED index
          /\ Refused
          /\ IF index = Nothing THEN Recorded(FALSE, FALSE, "return") ELSE To("commit")

\* The index as a whole, with what failed commits left in it; a commit that
\* fails leaves it staged.
CommitMemo ==
    /\ Acts("commit")
    /\ \/ /\ Works /\ To("push")
          /\ committed' = [committed EXCEPT ![branch] =
                             [memos |-> @.memos \cup index.memos, log |-> @.log \cup index.log]]
          /\ index' = Nothing
          /\ UNCHANGED <<branch, loose, action_log>>
       \/ Refused /\ Recorded(FALSE, FALSE, "return") /\ UNCHANGED directory_of

\* Pushed, the branch has CI and, if GitHub takes it, a draft pull request.
\* The list of runs is ten long.
PushAndOpen ==
    /\ part = "push" /\ UNCHANGED <<night, mode, deferred, kills, directory_of>>
    /\ \/ Refused /\ Recorded(TRUE, FALSE, "return") /\ UNCHANGED <<ci_runs, pulls>>
       \/ /\ \E jobs \in JobResults :
               ci_runs' = SubSeq(<<[workflow |-> "ci", conclusion |-> MergeGate(jobs)]>> \o ci_runs,
                                 1, IF Len(ci_runs) < 10 THEN Len(ci_runs) + 1 ELSE 10)
          /\ \/ Works /\ Recorded(TRUE, TRUE, "return") /\ pulls' = pulls \cup {[head |-> Finding, touched |-> night]}
             \/ Refused /\ Recorded(TRUE, FALSE, "return") /\ UNCHANGED pulls

\* Nobody looks whether it worked.
ReturnToMain ==
    /\ part = "return" /\ part' = "next"
    /\ \/ ~Stuck /\ Works /\ BackToMain
       \/ (IF Stuck THEN Works ELSE Refused) /\ UNCHANGED directory_of
    /\ UNCHANGED <<observed, safe, acted, kills>>

\* The run result is written.
EndRun ==
    /\ part = "next" /\ safe = <<>>
    /\ part' = "idle"
    /\ UNCHANGED <<observed, safe, acted, directory_of, git_failures, kills>>

Killed ==
    /\ part # "idle" /\ kills < MaxKills
    /\ part' = "idle" /\ kills' = kills + 1 /\ safe' = <<>>
    /\ UNCHANGED <<observed, acted, directory_of, git_failures>>

CaretakerNext ==
    \/ StartRun \/ CheckoutMain \/ CreateBranch \/ WriteMemo \/ CommitMemo \/ PushAndOpen
    \/ ReturnToMain \/ EndRun \/ Killed

CaretakerSpec == CaretakerInit /\ [][CaretakerNext]_caretaker_vars

-----------------------------------------------------------------------------
\* Each memo is in one place, whatever commands failed and wherever a run was
\* killed: loose on disk, in the index, or in one branch. So no branch repeats what
\* another proposes and no line of the log is without its memo; and a pull request
\* has the memo of its finding unless git could not take that.
MemosKeptOnce ==
    LET written == loose \cup index.memos \cup UNION {committed[b].memos : b \in DOMAIN committed}
        places(f) == Cardinality({b \in DOMAIN committed : f \in committed[b].memos})
                     + (IF f \in index.memos THEN 1 ELSE 0) + (IF f \in loose THEN 1 ELSE 0)
    IN  /\ \A f \in written : places(f) = 1
        /\ action_log \subseteq written
        /\ \A r \in acted : r.pull /\ r.finding \notin loose => r.finding \in committed[r.finding].memos

=============================================================================
