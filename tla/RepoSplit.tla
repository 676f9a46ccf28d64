------------------------------ MODULE RepoSplit ------------------------------
(***************************************************************************)
(* tools/repo_split_mcp and the PowerShell scripts it runs.  A client      *)
(* plans, previews, obtains a confirmation and executes a phase of the     *)
(* split.  The server keeps plans, previews, confirmations and executions  *)
(* in memory; scripts are processes of their own, several at once, that    *)
(* copy, clone, move and delete files.                                     *)
(***************************************************************************)
EXTENDS Integers, Sequences, FiniteSets

CONSTANTS
    Calls,          \* calls of execute_confirmed
    RawPlan,        \* layout -> what repo_split_plan.ps1 prints: [path, repo, mode, include, deferred]
    ReportFiles,    \* the reports repo_split_archive.ps1 moves
    PlanInputs,     \* inputs of repo_split.plan: <<layout, includeDeferred>>
    PreviewInputs,  \* inputs of repo_split.preview: [layout, phase, planHash]
    ConfirmInputs,  \* inputs of repo_split.create_confirmation
    ExecuteInputs,  \* inputs of repo_split.execute_confirmed, without the confirmation
    Ttl,            \* lifetime of a confirmation, in clock steps
    MaxClock,       \* bound: the clock
    MaxConfirmations, MaxPreviews,  \* bounds: stored confirmations and previews
    MaxRestarts,    \* bound: server restarts
    None

VARIABLES
    plans, previews, confirmations, executions,   \* server memory; confirmations by id
    issued,                        \* every confirmation ever made, by id
    clock, life,                   \* time, and the number of server starts
    scratch, archived, copied,     \* paths in the scratch checkout, in its archive, at their targets
    clones,                        \* repo -> the commands its temporary clone has seen
    calls,                         \* execute_confirmed and its script
    started, deleted               \* history: executions that began, paths deleted

memory == <<plans, previews, confirmations, executions>>
files == <<scratch, archived, copied, clones>>
history == <<issued, started, deleted>>
vars == <<memory, clock, life, files, calls, history>>

Layout == DOMAIN RawPlan
RawEntries == UNION {RawPlan[l] : l \in Layout}

-----------------------------------------------------------------------------
(* The plan                                                                  *)

Disposition(e) == IF e.include THEN "migrate" ELSE IF e.deferred THEN "deferred" ELSE "exclude"
MigrationMode(e) == IF e.include THEN e.mode ELSE "exclude"

NormalizePlanEntry(e) ==
    [path |-> e.path, repo |-> e.repo, mode |-> MigrationMode(e), disposition |-> Disposition(e)]

LoadPlan(layout, includeDeferred) ==
    {e \in {NormalizePlanEntry(r) : r \in RawPlan[layout]} :
        includeDeferred \/ e.disposition # "deferred"}

\* A hash stands for what was hashed.
PlanHash(layout, includeDeferred) == LoadPlan(layout, includeDeferred)

\* What a phase of the scripts works on.
CopyItems(layout) == {e \in RawPlan[layout] : e.include /\ e.mode = "copy"}
FilterRepos(layout) == {e.repo : e \in {e \in RawPlan[layout] : e.include /\ e.mode = "filter-repo"}}

ExcludedPaths(layout) == {e.path : e \in {e \in RawPlan[layout] : ~e.include}}

WorkOf(phase, layout) ==
    CASE phase = "copy" -> {e.path : e \in CopyItems(layout)}
      [] phase = "filter-repo" -> FilterRepos(layout)
      [] phase = "archive" -> ReportFiles \cup ExcludedPaths(layout)

\* Both layouts include the same paths and leave out the same ones (repo_split_plan.ps1
\* 76-155), and the reports are no entries; zod checks the inputs (server.ts 34-64).
ASSUME PlanByPath ==
    /\ \A e, f \in RawEntries : e.path = f.path => (e.include <=> f.include)
    /\ \A e \in RawEntries : e.path \notin ReportFiles
    /\ None \notin UNION {FilterRepos(l) : l \in Layout}
ASSUME InputsValidated ==
    \A x \in ExecuteInputs : /\ x.phase \in {"copy", "filter-repo", "archive"} /\ x.layout \in Layout
                             /\ x.excludedAction \in {"keep", "archive", "delete"}

InitialPaths == {e.path : e \in RawEntries} \cup ReportFiles

\* What the script runs for a repository, in its order.
Commands == <<"clone", "filter-repo", "remote remove", "remote add", "branch">>
Scopes == {"copy", "filter-repo", "archive", "full-run"}

\* Memory, files and calls hold what their readers expect.
TypeOK ==
    /\ plans \subseteq [input : PlanInputs, planHash : {PlanHash(p[1], p[2]) : p \in PlanInputs}]
    /\ previews \subseteq [input : PreviewInputs, degraded : BOOLEAN]
    /\ confirmations \subseteq DOMAIN issued
    /\ \A i \in DOMAIN issued : issued[i].scope \in Scopes
    /\ \A x \in executions : x.input \in ExecuteInputs /\ x.warned \in BOOLEAN
    /\ clock \in 0 .. MaxClock /\ life \in Nat
    /\ {scratch, archived, deleted} \subseteq SUBSET InitialPaths
    /\ \A r \in DOMAIN clones : clones[r] \subseteq {Commands[i] : i \in DOMAIN Commands}

IdleCall == [pc |-> "idle", input |-> None, todo |-> {}, repo |-> None, warned |-> FALSE, life |-> 0]

Init ==
    /\ plans = {} /\ previews = {} /\ confirmations = {} /\ issued = <<>> /\ executions = {}
    /\ clock = 0 /\ life = 1
    /\ scratch = InitialPaths /\ archived = {} /\ copied = {}
    /\ clones = [r \in UNION {FilterRepos(l) : l \in Layout} |-> {}]
    /\ calls = [c \in Calls |-> IdleCall]
    /\ started = {} /\ deleted = {}

-----------------------------------------------------------------------------
(* The tools that change no files                                            *)

Plan(input) ==
    /\ plans' = plans \cup {[input |-> input, planHash |-> PlanHash(input[1], input[2])]}
    /\ UNCHANGED <<previews, confirmations, executions, clock, life, files, calls, history>>

\* The script with -WhatIf: it writes nothing, and warns or fails as it would.  A
\* warning also comes of operations that are not counted as they were normalised.
PreviewFails(phase, layout) == phase = "copy" /\ ~ WorkOf(phase, layout) \subseteq scratch

PreviewDegraded(phase, layout) ==
    \/ phase = "archive" /\ ~ WorkOf(phase, layout) \subseteq scratch
    \/ phase = "filter-repo" /\ \E r \in FilterRepos(layout) : clones[r] # {}

Preview(input) ==
    /\ Cardinality(previews) < MaxPreviews
    /\ ~PreviewFails(input.phase, input.layout)
    /\ \E miscounted \in BOOLEAN : previews' = previews \cup
           {[input |-> input, degraded |-> miscounted \/ PreviewDegraded(input.phase, input.layout)]}
    /\ UNCHANGED <<plans, confirmations, executions, clock, life, files, calls, history>>


\* createConfirmation checks none of its input against plans or previews.
CreateConfirmation(input) ==
    /\ Len(issued) < MaxConfirmations
    /\ issued' = Append(issued,
           [planHash |-> input.planHash, phase |-> input.phase, scope |-> input.scope,
            preview |-> input.preview, expiresAt |-> clock + Ttl, life |-> life])
    /\ confirmations' = confirmations \cup {Len(issued) + 1}
    /\ UNCHANGED <<plans, previews, executions, clock, life, files, calls, started, deleted>>

-----------------------------------------------------------------------------
(* execute_confirmed                                                         *)

IsConfirmationExpired(confirmation) == confirmation.expiresAt <= clock

\* No input schema offers a snapshot, so requireState sees the 'confirmed' that
\* executeConfirmed makes up; the preview is compared only if the caller names one.
Authorises(id, input) ==
    /\ id \in confirmations
    /\ issued[id].planHash = input.planHash
    /\ issued[id].phase = input.phase \/ issued[id].scope = "full-run"
    /\ ~IsConfirmationExpired(issued[id])
    /\ input.preview = None \/ issued[id].preview = input.preview

FirstStep(phase) == IF phase = "copy" THEN "preflight" ELSE phase

ExecuteConfirmed(c, id, input) ==
    /\ calls[c].pc = "idle"
    /\ Authorises(id, input)
    /\ started' = started \cup {[id |-> id, input |-> input, at |-> clock, life |-> life]}
    /\ calls' = [calls EXCEPT ![c] = [IdleCall EXCEPT !.pc = FirstStep(input.phase), !.life = life,
                     !.input = input, !.todo = WorkOf(input.phase, input.layout)]]
    /\ UNCHANGED <<memory, issued, clock, life, files, deleted>>

ToStep(c, pc) == calls' = [calls EXCEPT ![c].pc = pc]
Worked(c, item) == calls' = [calls EXCEPT ![c].todo = @ \ {item}]
Warned(c, item) == calls' = [calls EXCEPT ![c].todo = @ \ {item}, ![c].warned = TRUE]
ElsewhereUnchanged == UNCHANGED <<memory, issued, clock, life, started>>

(* repo_split_copy.ps1: all sources are there, or nothing is copied.          *)
CopyPreflight(c) ==
    /\ calls[c].pc = "preflight"
    /\ ToStep(c, IF calls[c].todo \subseteq scratch THEN "copy" ELSE "failed")
    /\ ElsewhereUnchanged /\ UNCHANGED <<files, deleted>>

CopyItem(c, path) ==
    /\ calls[c].pc = "copy" /\ path \in calls[c].todo
    /\ \E e \in CopyItems(calls[c].input.layout) :
          /\ e.path = path
          /\ copied' = copied \cup {<<path, e.repo>>}
    /\ Worked(c, path)
    /\ ElsewhereUnchanged /\ UNCHANGED <<scratch, archived, clones, deleted>>

(* repo_split_filter_repo.ps1                                                 *)

\* Mutant: a clone that is already there is passed over in silence.
FilterRepo_NoWarning(c, repo) ==
    /\ calls[c].pc = "filter-repo" /\ calls[c].repo = None /\ repo \in calls[c].todo
    /\ IF clones[repo] # {}
         THEN Worked(c, repo)
         ELSE calls' = [calls EXCEPT ![c].repo = repo]
    /\ ElsewhereUnchanged /\ UNCHANGED <<files, deleted>>

\* A clone that is there already is left as it is, with a warning.
FilterRepo(c, repo) ==
    /\ calls[c].pc = "filter-repo" /\ calls[c].repo = None /\ repo \in calls[c].todo
    /\ IF clones[repo] # {}
         THEN Warned(c, repo)
         ELSE calls' = [calls EXCEPT ![c].repo = repo]
    /\ ElsewhereUnchanged /\ UNCHANGED <<files, deleted>>

\* git clone refuses a directory that another script made in the meantime.
Clone(c) ==
    /\ calls[c].pc = "filter-repo" /\ calls[c].repo # None
    /\ IF clones[calls[c].repo] = {}
         THEN clones' = [clones EXCEPT ![calls[c].repo] = {"clone"}] /\ ToStep(c, "rewrite")
         ELSE ToStep(c, "failed") /\ UNCHANGED clones
    /\ ElsewhereUnchanged /\ UNCHANGED <<scratch, archived, copied, deleted>>

\* Mutant: the target is configured before the history is filtered.
NextCommand_TargetFirst(done) ==
    LET order == <<"clone", "remote remove", "remote add", "filter-repo", "branch">>
    IN  order[Cardinality(done) + 1]

NextCommand(done) == Commands[Cardinality(done) + 1]

GitCommand(c) ==
    /\ calls[c].pc = "rewrite"
    /\ LET repo == calls[c].repo IN
       /\ clones' = [clones EXCEPT ![repo] = @ \cup {NextCommand(@)}]
       /\ calls' = IF Cardinality(clones'[repo]) < Len(Commands) THEN calls
                   ELSE [calls EXCEPT ![c].pc = "filter-repo", ![c].repo = None, ![c].todo = @ \ {repo}]
    /\ ElsewhereUnchanged /\ UNCHANGED <<scratch, archived, copied, deleted>>

\* A command that fails is thrown, and ends the script where it is.
GitFails(c) ==
    /\ calls[c].pc = "rewrite" \/ calls[c].repo # None
    /\ ToStep(c, "failed")
    /\ ElsewhereUnchanged /\ UNCHANGED <<files, deleted>>

(* repo_split_archive.ps1: reports are moved, excluded paths kept, moved or   *)
(* deleted; what is missing is warned about.                                  *)

\* Mutant: the reports are treated as the excluded paths are.
Action_Uniform(c, path) == calls[c].input.excludedAction

Action(c, path) == IF path \in ReportFiles THEN "archive" ELSE calls[c].input.excludedAction

ArchiveItem(c, path) ==
    /\ calls[c].pc = "archive" /\ path \in calls[c].todo /\ Action(c, path) # "keep"
    /\ IF path \in scratch
         THEN /\ scratch' = scratch \ {path}
              /\ IF Action(c, path) = "archive"
                   THEN archived' = archived \cup {path} /\ UNCHANGED deleted
                   ELSE deleted' = deleted \cup {path} /\ UNCHANGED archived
              /\ Worked(c, path)
         ELSE Warned(c, path) /\ UNCHANGED <<scratch, archived, deleted>>
    /\ ElsewhereUnchanged /\ UNCHANGED <<copied, clones>>

KeepItem(c, path) ==
    /\ calls[c].pc = "archive" /\ path \in calls[c].todo
    /\ Action(c, path) = "keep"
    /\ Worked(c, path)
    /\ ElsewhereUnchanged /\ UNCHANGED <<files, deleted>>

\* Copy-Item, Move-Item and Remove-Item report an error and the script goes on.
ItemFails(c, path) ==
    /\ calls[c].pc \in {"copy", "archive"} /\ path \in calls[c].todo
    /\ Worked(c, path)
    /\ ElsewhereUnchanged /\ UNCHANGED <<files, deleted>>

\* Exit code 0 is recorded as an execution, if the server that asked still runs.
ScriptEnds(c) ==
    /\ calls[c].pc \in {"copy", "filter-repo", "archive"}
    /\ calls[c].todo = {} /\ calls[c].repo = None
    /\ executions' = IF calls[c].life # life THEN executions ELSE executions \cup
           {[input |-> calls[c].input, warned |-> calls[c].warned]}
    /\ calls' = [calls EXCEPT ![c] = [IdleCall EXCEPT !.pc = "done"]]
    /\ UNCHANGED <<plans, previews, confirmations, issued, clock, life, files, started, deleted>>

\* Another exit code is an error to the caller, and no artifact.
ScriptFailed(c) ==
    /\ calls[c].pc = "failed"
    /\ calls' = [calls EXCEPT ![c] = [IdleCall EXCEPT !.pc = "done"]]
    /\ ElsewhereUnchanged /\ UNCHANGED <<files, deleted>>

-----------------------------------------------------------------------------
Tick ==
    /\ clock < MaxClock
    /\ clock' = clock + 1
    /\ UNCHANGED <<memory, life, files, calls, history>>

\* All stores are Maps of the process.
ServerDies ==
    /\ life <= MaxRestarts
    /\ life' = life + 1
    /\ plans' = {} /\ previews' = {} /\ executions' = {} /\ confirmations' = {}

\* Scripts that run go on without the server.
Restart == ServerDies /\ UNCHANGED <<clock, files, calls, history>>

\* runPowerShell listens to no 'error': a script that cannot be spawned ends the server,
\* and the call is never answered.
SpawnFails(c, id, input) ==
    /\ calls[c].pc = "idle"
    /\ Authorises(id, input)
    /\ ServerDies
    /\ calls' = [calls EXCEPT ![c] = [IdleCall EXCEPT !.pc = "done"]]
    /\ UNCHANGED <<clock, files, history>>

Script(c) ==
    \/ CopyPreflight(c) \/ Clone(c) \/ GitCommand(c) \/ GitFails(c)
    \/ ScriptEnds(c) \/ ScriptFailed(c)
    \/ \E path \in calls[c].todo :
          CopyItem(c, path) \/ FilterRepo(c, path) \/ ArchiveItem(c, path) \/ KeepItem(c, path)
             \/ ItemFails(c, path)

Next ==
    \/ \E input \in PlanInputs : Plan(input)
    \/ \E input \in PreviewInputs : Preview(input)
    \/ \E input \in ConfirmInputs : CreateConfirmation(input)
    \/ \E c \in Calls, id \in confirmations, input \in ExecuteInputs :
          ExecuteConfirmed(c, id, input) \/ SpawnFails(c, id, input)
    \/ \E c \in Calls : Script(c)
    \/ Tick \/ Restart

\* No script is bound to end: runPowerShell has no timeout.
Spec == Init /\ [][Next]_vars

-----------------------------------------------------------------------------
\* Whatever phases run, together, again or half-way, every path of the checkout
\* is still there, in the archive, or an excluded one that an execution was asked to
\* delete; what a phase of any layout migrates has not moved.
NothingLost ==
    /\ scratch \cup archived \cup deleted = InitialPaths
    /\ deleted \subseteq UNION {ExcludedPaths(l) : l \in Layout}
    /\ deleted # {} => \E s \in started : s.input.excludedAction = "delete"
    /\ \A e \in RawEntries : e.include => e.path \in scratch

\* A clone whose remote is the target repository holds the filtered history only:
\* no failure, race or retry lets the whole history be pushed.
FilteredBeforeTarget ==
    \A r \in DOMAIN clones : "remote add" \in clones[r] => {"filter-repo", "remote remove"} \subseteq clones[r]

\* A filter-repo execution without warnings has finished every clone itself; one
\* that found a clone, perhaps half made, is recorded as completed but warned.
CleanRunIsComplete ==
    \A x \in executions :
        x.input.phase = "filter-repo" /\ ~x.warned =>
            \A r \in FilterRepos(x.input.layout) : Cardinality(clones[r]) = Len(Commands)

=============================================================================
