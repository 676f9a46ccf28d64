--------------------------- MODULE RepoSplit_proofs ---------------------------
(***************************************************************************)
(* Theorems about RepoSplit, for every plan whose layouts agree on what    *)
(* they include, and any number of scripts at once.                        *)
(***************************************************************************)
EXTENDS RepoSplit, FiniteSetTheorems, TLAPS

-----------------------------------------------------------------------------
(* Calls                                                                     *)

Repos == UNION {FilterRepos(l) : l \in Layout}
Steps == {"idle", "done", "failed", "preflight", "copy", "filter-repo", "rewrite", "archive"}
CallRecord ==
    [pc : Steps, input : ExecuteInputs \cup {None}, todo : SUBSET (InitialPaths \cup Repos),
     repo : Repos \cup {None}, warned : BOOLEAN, life : Nat]

\* A script works on what its phase has in the layout, for an execution that started.
AtWork(k) ==
    /\ IF k.pc \in {"idle", "done"} THEN k.repo = None ELSE k.input \in ExecuteInputs
    /\ k.pc \in {"preflight", "copy"} => k.input.phase = "copy"
    /\ k.pc = "archive" =>
        k.input.phase = "archive" /\ k.todo \subseteq ReportFiles \cup ExcludedPaths(k.input.layout)
    /\ k.pc \in {"filter-repo", "rewrite"} =>
        /\ k.input.phase = "filter-repo" /\ k.todo \subseteq FilterRepos(k.input.layout)
        /\ k.repo \in k.todo \cup {None}
    /\ k.pc = "rewrite" => k.repo # None

CallInv ==
    /\ calls \in [Calls -> CallRecord] /\ life \in Nat
    /\ \A c \in Calls : AtWork(calls[c])
    /\ \A c \in Calls : calls[c].pc = "archive" => \E s \in started : s.input = calls[c].input

LEMMA WorkTyped ==
  ASSUME NEW x \in ExecuteInputs
  PROVE  /\ WorkOf(x.phase, x.layout) \subseteq InitialPaths \cup Repos
         /\ x.phase = "archive" => WorkOf(x.phase, x.layout) = ReportFiles \cup ExcludedPaths(x.layout)
         /\ x.phase = "filter-repo" => WorkOf(x.phase, x.layout) = FilterRepos(x.layout)
<1>1. x.phase \in {"copy", "filter-repo", "archive"} /\ x.layout \in Layout
  BY InputsValidated
<1>2. RawPlan[x.layout] \subseteq RawEntries
  BY <1>1 DEF RawEntries
<1>3. FilterRepos(x.layout) \subseteq Repos
  BY <1>1 DEF Repos
<1>4. {e.path : e \in CopyItems(x.layout)} \cup ExcludedPaths(x.layout) \cup ReportFiles \subseteq InitialPaths
  BY <1>2 DEF CopyItems, ExcludedPaths, InitialPaths
<1> QED BY <1>1, <1>3, <1>4 DEF WorkOf

\* A step of one script, after which it is at work as it should, keeps the others so.
LEMMA OneCall ==
  ASSUME CallInv, NEW c \in Calls, NEW k \in CallRecord, calls' = [calls EXCEPT ![c] = k],
         started \subseteq started', UNCHANGED life, AtWork(k),
         k.pc = "archive" => \E s \in started' : s.input = k.input
  PROVE  CallInv'
<1>1. calls' \in [Calls -> CallRecord] /\ life' \in Nat
  BY DEF CallInv
<1>2. ASSUME NEW d \in Calls
      PROVE  /\ AtWork(calls'[d])
             /\ calls'[d].pc = "archive" => \E s \in started' : s.input = calls'[d].input
  BY DEF CallInv
<1> QED BY <1>1, <1>2 DEF CallInv, AtWork

LEMMA ScriptKeepsCalls ==
  ASSUME CallInv, NEW c \in Calls, Script(c)
  PROVE  CallInv'
<1> DEFINE k == calls[c]
<1>0. k \in CallRecord /\ AtWork(k) /\ (k.pc = "archive" => \E s \in started : s.input = k.input)
  BY DEF CallInv
<1>1. started' = started /\ UNCHANGED life
  BY DEF Script, CopyPreflight, Clone, GitCommand, GitFails, ScriptEnds, ScriptFailed, CopyItem, FilterRepo,
         ArchiveItem, KeepItem, ItemFails, ElsewhereUnchanged
<1>2. ASSUME NEW pc \in {"copy", "failed", "rewrite"}, ToStep(c, pc), k.pc \notin {"idle", "done"}, pc = "copy" => k.pc = "preflight",
             pc = "rewrite" => k.pc = "filter-repo" /\ k.repo # None
      PROVE  CallInv'
  <2> DEFINE new == [k EXCEPT !.pc = pc]
  <2>1. calls' = [calls EXCEPT ![c] = new]
    BY <1>2 DEF ToStep
  <2>2. new \in CallRecord /\ AtWork(new) /\ new.pc = pc
    BY <1>0, <1>2 DEF CallRecord, Steps, AtWork
  <2> HIDE DEF new
  <2> QED BY <1>1, <2>1, <2>2, OneCall, <1>2
<1>3. ASSUME NEW item, Worked(c, item) \/ Warned(c, item), k.pc \in {"copy", "archive"} \/ k.repo = None
      PROVE  CallInv'
  <2>1. PICK warned \in BOOLEAN :
            calls' = [calls EXCEPT ![c] = [k EXCEPT !.todo = @ \ {item}, !.warned = warned]]
    <3>1. CASE Worked(c, item)
      <4>1. [k EXCEPT !.todo = @ \ {item}] = [k EXCEPT !.todo = @ \ {item}, !.warned = k.warned] /\ k.warned \in BOOLEAN
        BY <1>0 DEF CallRecord
      <4> QED BY <3>1, <4>1 DEF Worked
    <3>2. CASE Warned(c, item)
      BY <3>2 DEF Warned
    <3> QED BY <1>3, <3>1, <3>2
  <2> DEFINE new == [k EXCEPT !.todo = @ \ {item}, !.warned = warned]
  <2>2. new \in CallRecord /\ AtWork(new) /\ new.pc = k.pc /\ new.input = k.input
    BY <1>0, <1>3 DEF CallRecord, AtWork
  <2> HIDE DEF new
  <2>3. calls' = [calls EXCEPT ![c] = new]
    BY <2>1 DEF new
  <2> QED BY <1>0, <1>1, <2>2, <2>3, OneCall
<1>4. CASE ScriptEnds(c) \/ ScriptFailed(c)
  <2> DEFINE new == [IdleCall EXCEPT !.pc = "done"]
  <2>1. calls' = [calls EXCEPT ![c] = new]
    BY <1>4 DEF ScriptEnds, ScriptFailed
  <2>2. new \in CallRecord /\ AtWork(new) /\ new.pc = "done"
    BY DEF CallRecord, Steps, AtWork, IdleCall
  <2> HIDE DEF new
  <2> QED BY <1>1, <2>1, <2>2, OneCall
<1>5. ASSUME NEW repo \in k.todo, k.pc = "filter-repo", calls' = [calls EXCEPT ![c].repo = repo]
      PROVE  CallInv'
  <2> DEFINE new == [k EXCEPT !.repo = repo]
  <2>1. calls' = [calls EXCEPT ![c] = new]
    BY <1>5
  <2>2. new \in CallRecord /\ AtWork(new) /\ new.pc = "filter-repo"
    <3>1. repo \in Repos
      BY <1>0, <1>5, InputsValidated DEF AtWork, Repos
    <3> QED BY <1>0, <1>5, <3>1 DEF CallRecord, AtWork
  <2> HIDE DEF new
  <2> QED BY <1>1, <2>1, <2>2, OneCall
<1>6. CASE GitCommand(c)
  <2>1. CASE calls' = calls
    BY <1>1, <2>1 DEF CallInv
  <2>2. CASE calls' # calls
    <3> DEFINE new == [k EXCEPT !.pc = "filter-repo", !.repo = None, !.todo = @ \ {k.repo}]
    <3>1. calls' = [calls EXCEPT ![c] = new] /\ k.pc = "rewrite"
      BY <1>6, <2>2 DEF GitCommand
    <3>2. new \in CallRecord /\ AtWork(new) /\ new.pc = "filter-repo"
      BY <1>0, <3>1 DEF CallRecord, Steps, AtWork
    <3> HIDE DEF new
    <3> QED BY <1>1, <3>1, <3>2, OneCall
  <2> QED BY <2>1, <2>2
<1>7. CASE CopyPreflight(c) \/ Clone(c) \/ GitFails(c)
  <2>1. CASE CopyPreflight(c)
    BY <1>2, <2>1 DEF CopyPreflight
  <2>2. CASE Clone(c)
    BY <1>2, <2>2 DEF Clone
  <2>3. CASE GitFails(c)
    BY <1>0, <1>2, <2>3 DEF GitFails, AtWork
  <2> QED BY <1>7, <2>1, <2>2, <2>3
<1>8. ASSUME NEW path \in k.todo,
             CopyItem(c, path) \/ FilterRepo(c, path) \/ ArchiveItem(c, path) \/ KeepItem(c, path) \/ ItemFails(c, path)
      PROVE  CallInv'
  <2>1. CASE FilterRepo(c, path)
    BY <1>3, <1>5, <2>1 DEF FilterRepo
  <2>2. CASE ArchiveItem(c, path)
    BY <1>3, <2>2 DEF ArchiveItem
  <2>3. CASE CopyItem(c, path) \/ KeepItem(c, path) \/ ItemFails(c, path)
    BY <1>3, <2>3 DEF CopyItem, KeepItem, ItemFails
  <2> QED BY <1>8, <2>1, <2>2, <2>3
<1> QED BY <1>4, <1>6, <1>7, <1>8 DEF Script
LEMMA CallsInitially == Init => CallInv
BY DEF Init, CallInv, IdleCall, CallRecord, Steps, AtWork

LEMMA StepKeepsCalls == CallInv /\ [Next]_vars => CallInv'
<1> SUFFICES ASSUME CallInv, [Next]_vars PROVE CallInv'
  OBVIOUS
<1>1. ASSUME NEW c \in Calls, NEW id \in confirmations, NEW x \in ExecuteInputs, ExecuteConfirmed(c, id, x)
      PROVE  CallInv'
  <2> DEFINE work == WorkOf(x.phase, x.layout)
             new == [IdleCall EXCEPT !.pc = FirstStep(x.phase), !.life = life,
                                    !.input = x, !.todo = work]
  <2>1. calls' = [calls EXCEPT ![c] = new] /\ UNCHANGED life
    BY <1>1 DEF ExecuteConfirmed, memory
  <2>2. new \in CallRecord /\ AtWork(new) /\ new.input = x
    <3>1. /\ x.phase \in {"copy", "filter-repo", "archive"} /\ life \in Nat
          /\ work \subseteq InitialPaths \cup Repos
          /\ x.phase = "archive" => work = ReportFiles \cup ExcludedPaths(x.layout)
          /\ x.phase = "filter-repo" => work = FilterRepos(x.layout)
      BY WorkTyped, InputsValidated DEF CallInv
    <3> HIDE DEF work
    <3>2. /\ new \in CallRecord /\ new.pc = FirstStep(x.phase) /\ new.input = x
          /\ new.todo = work /\ new.repo = None
      BY <3>1 DEF IdleCall, FirstStep, CallRecord, Steps
    <3>3. FirstStep(x.phase) = IF x.phase = "copy" THEN "preflight" ELSE x.phase
      BY DEF FirstStep
    <3> HIDE DEF new
    <3> QED BY <3>1, <3>2, <3>3 DEF AtWork
  <2>3. started \subseteq started' /\ \E s \in started' : s.input = x
    <3> DEFINE execution == [id |-> id, input |-> x, at |-> clock, life |-> life]
    <3>1. started' = started \cup {execution} /\ execution.input = x
      BY <1>1 DEF ExecuteConfirmed
    <3> HIDE DEF execution
    <3> QED BY <3>1
  <2> HIDE DEF new
  <2> QED BY <2>1, <2>2, <2>3, OneCall
<1>2. ASSUME NEW c \in Calls, Script(c)
      PROVE  CallInv'
  BY <1>2, ScriptKeepsCalls
<1>3. CASE \/ \E input \in PlanInputs : Plan(input)
           \/ \E input \in PreviewInputs : Preview(input)
           \/ \E input \in ConfirmInputs : CreateConfirmation(input)
           \/ Tick \/ UNCHANGED vars
  <2>1. UNCHANGED <<calls, started, life>>
    BY <1>3 DEF Plan, Preview, CreateConfirmation, Tick, vars, history, memory, files
  <2> QED BY <2>1 DEF CallInv
<1>4. CASE Restart
  BY <1>4 DEF Restart, ServerDies, CallInv, history
<1>5. ASSUME NEW c \in Calls, NEW id \in confirmations, NEW x \in ExecuteInputs, SpawnFails(c, id, x)
      PROVE  CallInv'
  <2>1. /\ calls' = [calls EXCEPT ![c] = [IdleCall EXCEPT !.pc = "done"]]
        /\ life' = life + 1 /\ UNCHANGED started
    BY <1>5 DEF SpawnFails, ServerDies, history
  <2> DEFINE new == [IdleCall EXCEPT !.pc = "done"]
  <2>2. new \in CallRecord /\ AtWork(new) /\ new.pc = "done"
    BY DEF CallRecord, Steps, AtWork, IdleCall
  <2> HIDE DEF new
  <2>3. calls' \in [Calls -> CallRecord] /\ life' \in Nat
    BY <2>1, <2>2 DEF CallInv, new
  <2>4. \A d \in Calls : calls'[d] = new \/ calls'[d] = calls[d]
    BY <2>1 DEF CallInv, new
  <2>5. ASSUME NEW d \in Calls
        PROVE  /\ AtWork(calls'[d])
               /\ calls'[d].pc = "archive" => \E s \in started' : s.input = calls'[d].input
    <3>1. calls'[d] = new \/ calls'[d] = calls[d]
      BY <2>4
    <3> QED BY <2>1, <2>2, <3>1 DEF CallInv
  <2> HIDE DEF new
  <2> QED BY <2>3, <2>5 DEF CallInv, AtWork
<1> QED BY <1>1, <1>2, <1>3, <1>4, <1>5 DEF Next

-----------------------------------------------------------------------------
(* Files                                                                     *)

\* A path that may leave the checkout is one that no layout includes.
Movable(path) == path \in ReportFiles \cup UNION {ExcludedPaths(l) : l \in Layout}

FileInv ==
    /\ CallInv
    /\ scratch \subseteq InitialPaths
    /\ NothingLost
    /\ \A path \in InitialPaths : Movable(path) \/ path \in scratch

LEMMA IncludedStays ==
  ASSUME NEW e \in RawEntries, e.include
  PROVE  e.path \in InitialPaths /\ ~Movable(e.path)
<1>1. e.path \notin ReportFiles
  BY PlanByPath
<1>2. ASSUME NEW l \in Layout, e.path \in ExcludedPaths(l)
      PROVE  FALSE
  <2>1. PICK f \in RawPlan[l] : ~f.include /\ f.path = e.path
    BY <1>2 DEF ExcludedPaths
  <2>2. f \in RawEntries
    BY DEF RawEntries
  <2> QED BY <2>1, <2>2, PlanByPath
<1> QED BY <1>1, <1>2 DEF InitialPaths, Movable

LEMMA FilesInitially == Init => FileInv
BY CallsInitially, IncludedStays DEF Init, FileInv, NothingLost

LEMMA ArchiveKeepsFiles ==
  ASSUME FileInv, NEW c \in Calls, NEW path \in calls[c].todo, ArchiveItem(c, path)
  PROVE  FileInv'
<1> DEFINE k == calls[c]
<1>0. CallInv'
  BY StepKeepsCalls DEF FileInv, Next, Script
<1>1. /\ k.pc = "archive" /\ Action(c, path) # "keep" /\ UNCHANGED started
      /\ k.input \in ExecuteInputs /\ k.todo \subseteq ReportFiles \cup ExcludedPaths(k.input.layout)
      /\ \E s \in started : s.input = k.input
  BY DEF FileInv, CallInv, AtWork, ArchiveItem, ElsewhereUnchanged
<1>2. Movable(path) /\ (path \in ReportFiles \/ path \in UNION {ExcludedPaths(l) : l \in Layout})
  BY <1>1, InputsValidated DEF Movable
<1>3. CASE path \in scratch
  <2>1. scratch' = scratch \ {path}
    BY <1>3 DEF ArchiveItem
  <2>2. CASE Action(c, path) = "archive"
    <3>1. archived' = archived \cup {path} /\ deleted' = deleted
      BY <1>3, <2>2 DEF ArchiveItem
    <3>2. scratch' \cup archived' \cup deleted' = InitialPaths
      BY <1>3, <2>1, <3>1 DEF FileInv, NothingLost
    <3>3. \A p \in InitialPaths : Movable(p) \/ p \in scratch'
      BY <1>2, <2>1 DEF FileInv
    <3>4. \A e \in RawEntries : e.include => e.path \in scratch'
      BY <3>3, IncludedStays
    <3> QED BY <1>0, <1>1, <2>1, <3>1, <3>2, <3>3, <3>4 DEF FileInv, NothingLost, Movable
  <2>3. CASE Action(c, path) # "archive"
    <3>1. archived' = archived /\ deleted' = deleted \cup {path}
      BY <1>3, <2>3 DEF ArchiveItem
    <3>2. path \notin ReportFiles /\ k.input.excludedAction = "delete"
      BY <1>1, <2>3, InputsValidated DEF Action
    <3>3. \E s \in started' : s.input.excludedAction = "delete"
      BY <1>1, <3>2
    <3> QED BY <1>0, <1>2, <1>3, <2>1, <3>1, <3>2, <3>3, IncludedStays DEF FileInv, NothingLost
  <2> QED BY <2>2, <2>3
<1>4. CASE path \notin scratch
  <2>1. UNCHANGED <<scratch, archived, deleted>>
    BY <1>4 DEF ArchiveItem
  <2> QED BY <1>0, <1>1, <2>1 DEF FileInv, NothingLost
<1> QED BY <1>3, <1>4

LEMMA StepKeepsFiles == FileInv /\ [Next]_vars => FileInv'
<1> SUFFICES ASSUME FileInv, [Next]_vars PROVE FileInv'
  OBVIOUS
<1>0. CallInv'
  BY StepKeepsCalls DEF FileInv
<1>1. CASE \E c \in Calls : \E path \in calls[c].todo : ArchiveItem(c, path)
  BY <1>1, ArchiveKeepsFiles
<1>2. CASE ~ \E c \in Calls : \E path \in calls[c].todo : ArchiveItem(c, path)
  <2>1. UNCHANGED <<scratch, archived, deleted>> /\ started \subseteq started'
    <3>1. ASSUME NEW c \in Calls, Script(c)
          PROVE  UNCHANGED <<scratch, archived, deleted>> /\ started' = started
      BY <1>2, <3>1 DEF Script, CopyPreflight, Clone, GitCommand, GitFails, ScriptEnds, ScriptFailed,
         CopyItem, FilterRepo, KeepItem, ItemFails, ElsewhereUnchanged, files
    <3>2. ASSUME NEW c \in Calls, NEW id \in confirmations, NEW x \in ExecuteInputs, ExecuteConfirmed(c, id, x)
          PROVE  UNCHANGED <<scratch, archived, deleted>> /\ started \subseteq started'
      BY <3>2 DEF ExecuteConfirmed, files
    <3>3. CASE \/ \E input \in PlanInputs : Plan(input)
               \/ \E input \in PreviewInputs : Preview(input)
               \/ \E input \in ConfirmInputs : CreateConfirmation(input)
               \/ Tick \/ Restart \/ UNCHANGED vars
      BY <3>3 DEF Plan, Preview, CreateConfirmation, Tick, Restart, vars, history, files
    <3>4. ASSUME NEW c \in Calls, NEW id \in confirmations, NEW x \in ExecuteInputs, SpawnFails(c, id, x)
          PROVE  UNCHANGED <<scratch, archived, deleted>> /\ started \subseteq started'
      BY <3>4 DEF SpawnFails, files, history
    <3> QED BY <3>1, <3>2, <3>3, <3>4 DEF Next
  <2> QED BY <1>0, <2>1 DEF FileInv, NothingLost
<1> QED BY <1>1, <1>2

LEMMA FilesHold == Spec => []FileInv
BY FilesInitially, StepKeepsFiles, PTL DEF Spec

\* Whatever phases of whatever layouts run, together, again or cut short, every path of
\* the checkout is there, in the archive, or an excluded one that was to be deleted, and
\* what a layout migrates has not moved (repo_split_copy, _filter_repo, _archive.ps1).
THEOREM SplitLosesNothing == Spec => []NothingLost
BY FilesHold, PTL DEF FileInv

-----------------------------------------------------------------------------
(* Clones                                                                    *)

\* What a clone has seen after n commands.
Done(n) == {Commands[i] : i \in 1 .. n}

LEMMA UpToFive == \A n \in 0 .. 5 : n = 0 \/ n = 1 \/ n = 2 \/ n = 3 \/ n = 4 \/ n = 5
OBVIOUS

LEMMA DoneSets ==
    /\ Done(0) = {} /\ Done(1) = {"clone"} /\ Done(2) = {"clone", "filter-repo"}
    /\ Done(3) = {"clone", "filter-repo", "remote remove"}
    /\ Done(4) = {"clone", "filter-repo", "remote remove", "remote add"}
    /\ Done(5) = {"clone", "filter-repo", "remote remove", "remote add", "branch"}
<1>1. /\ 1 .. 0 = {} /\ 1 .. 1 = {1} /\ 1 .. 2 = {1, 2} /\ 1 .. 3 = {1, 2, 3} /\ 1 .. 4 = {1, 2, 3, 4}
      /\ 1 .. 5 = {1, 2, 3, 4, 5}
  OBVIOUS
<1>2. /\ Commands[1] = "clone" /\ Commands[2] = "filter-repo" /\ Commands[3] = "remote remove"
      /\ Commands[4] = "remote add" /\ Commands[5] = "branch"
  BY DEF Commands
<1>3. /\ Done(0) = {} /\ Done(1) = {Commands[1]} /\ Done(2) = {Commands[1], Commands[2]}
  BY <1>1 DEF Done
<1>4. Done(3) = {Commands[1], Commands[2], Commands[3]}
  BY <1>1 DEF Done
<1>5. Done(4) = {Commands[1], Commands[2], Commands[3], Commands[4]}
  BY <1>1 DEF Done
<1>6. Done(5) = {Commands[1], Commands[2], Commands[3], Commands[4], Commands[5]}
  BY <1>1 DEF Done
<1> QED BY <1>2, <1>3, <1>4, <1>5, <1>6

\* The next command of a clone is the one after those it has seen.
LEMMA DoneCounts ==
    /\ \A n \in 0 .. 5 : IsFiniteSet(Done(n)) /\ Cardinality(Done(n)) = n
    /\ \A n \in 0 .. 4 : Done(n + 1) = Done(n) \cup {NextCommand(Done(n))}
    /\ Len(Commands) = 5
<1>1. Len(Commands) = 5
  BY DEF Commands
<1>2. IsFiniteSet(Done(0)) /\ Cardinality(Done(0)) = 0
  BY DoneSets, FS_EmptySet
<1>3. ASSUME NEW n \in 0 .. 4, IsFiniteSet(Done(n)), Cardinality(Done(n)) = n
      PROVE  /\ IsFiniteSet(Done(n + 1)) /\ Cardinality(Done(n + 1)) = n + 1
             /\ Done(n + 1) = Done(n) \cup {NextCommand(Done(n))}
  <2>1. Done(n + 1) = Done(n) \cup {Commands[n + 1]}
    BY DEF Done
  <2>2. Commands[n + 1] \notin Done(n)
    <3>1. n = 0 \/ n = 1 \/ n = 2 \/ n = 3 \/ n = 4
      OBVIOUS
    <3>2. /\ Commands[1] = "clone" /\ Commands[2] = "filter-repo" /\ Commands[3] = "remote remove"
          /\ Commands[4] = "remote add" /\ Commands[5] = "branch"
      BY DEF Commands
    <3>3. /\ Commands[1] \notin Done(0) /\ Commands[2] \notin Done(1) /\ Commands[3] \notin Done(2)
          /\ Commands[4] \notin Done(3) /\ Commands[5] \notin Done(4)
      BY <3>2, DoneSets
    <3>4. 0 + 1 = 1 /\ 1 + 1 = 2 /\ 2 + 1 = 3 /\ 3 + 1 = 4 /\ 4 + 1 = 5
      OBVIOUS
    <3> QED BY <3>1, <3>3, <3>4, Zenon
  <2>3. NextCommand(Done(n)) = Commands[n + 1]
    BY <1>3 DEF NextCommand
  <2> QED BY <1>3, <2>1, <2>2, <2>3, FS_AddElement
<1>4. \A n \in 0 .. 4 : n \in 0 .. 5
  OBVIOUS
<1>5. /\ IsFiniteSet(Done(1)) /\ Cardinality(Done(1)) = 1
  BY <1>2, <1>3
<1>6. /\ IsFiniteSet(Done(2)) /\ Cardinality(Done(2)) = 2
  BY <1>3, <1>5
<1>7. /\ IsFiniteSet(Done(3)) /\ Cardinality(Done(3)) = 3
  BY <1>3, <1>6
<1>8. /\ IsFiniteSet(Done(4)) /\ Cardinality(Done(4)) = 4
  BY <1>3, <1>7
<1>9. /\ IsFiniteSet(Done(5)) /\ Cardinality(Done(5)) = 5
  BY <1>3, <1>8
<1>10. \A n \in 0 .. 5 : IsFiniteSet(Done(n)) /\ Cardinality(Done(n)) = n
  BY <1>2, <1>5, <1>6, <1>7, <1>8, <1>9, UpToFive
<1> QED BY <1>1, <1>3, <1>4, <1>10

Partial == {Done(n) : n \in 1 .. 4}
Complete(r) == clones[r] = Done(5)

FilterWork(k) == FilterRepos(k.input.layout)

\* A clone under way is one script's; a script that saw no other's has finished what
\* it has taken off its list.
CloneInv ==
    /\ CallInv
    /\ clones \in [Repos -> {Done(n) : n \in 0 .. 5}]
    /\ \A c \in Calls : calls[c].pc = "rewrite" => clones[calls[c].repo] \in Partial
    /\ \A c, d \in Calls :
         calls[c].pc = "rewrite" /\ calls[d].pc = "rewrite" /\ calls[c].repo = calls[d].repo => c = d
    /\ \A c \in Calls : calls[c].pc \in {"filter-repo", "rewrite"} /\ ~calls[c].warned =>
         \A r \in FilterWork(calls[c]) \ calls[c].todo : Complete(r)
    /\ \A x \in executions : x.input.phase = "filter-repo" /\ ~x.warned =>
         \A r \in FilterRepos(x.input.layout) : Complete(r)

LEMMA PartialIs ==
  ASSUME NEW s \in Partial
  PROVE  s # {} /\ s # Done(5) /\ s \in {Done(n) : n \in 0 .. 5}
<1>1. PICK n \in 1 .. 4 : s = Done(n)
  BY DEF Partial
<1>2. Cardinality(Done(n)) = n /\ Cardinality(Done(5)) = 5 /\ Cardinality(Done(0)) = 0
  BY DoneCounts
<1>3. Done(0) = {}
  BY DoneSets
<1> QED BY <1>1, <1>2, <1>3

LEMMA ClonesInitially == Init => CloneInv
<1> SUFFICES ASSUME Init PROVE CloneInv
  OBVIOUS
<1>1. CallInv
  BY CallsInitially
<1>2. Done(0) = {}
  BY DoneSets
<1>3. clones \in [Repos -> {Done(n) : n \in 0 .. 5}]
  BY <1>2 DEF Init, Repos
<1> QED BY <1>1, <1>3 DEF Init, CloneInv, IdleCall

\* A step of one script that is not on a clone keeps every clone, if what it takes off
\* its list unwarned is complete.
LEMMA OffClone ==
  ASSUME CloneInv, CallInv', NEW c \in Calls, UNCHANGED <<clones, executions>>,
         \A d \in Calls \ {c} : calls'[d] = calls[d],
         calls'[c].pc = "rewrite" => calls[c].pc = "rewrite" /\ calls'[c].repo = calls[c].repo,
         calls'[c].pc \in {"filter-repo", "rewrite"} /\ ~calls'[c].warned =>
             \A r \in FilterWork(calls'[c]) \ calls'[c].todo : Complete(r)
  PROVE  CloneInv'
<1>1. \A d \in Calls : calls'[d].pc = "rewrite" => calls[d].pc = "rewrite" /\ calls'[d].repo = calls[d].repo
  OBVIOUS
<1>2. \A d \in Calls : calls'[d].pc = "rewrite" => clones'[calls'[d].repo] \in Partial
  BY <1>1 DEF CloneInv
<1>3. \A d, e \in Calls :
         calls'[d].pc = "rewrite" /\ calls'[e].pc = "rewrite" /\ calls'[d].repo = calls'[e].repo => d = e
  BY <1>1 DEF CloneInv
<1>4. ASSUME NEW d \in Calls, calls'[d].pc \in {"filter-repo", "rewrite"}, ~calls'[d].warned,
             NEW r \in FilterWork(calls'[d]) \ calls'[d].todo
      PROVE  Complete(r)
  <2>1. CASE d = c
    BY <1>4, <2>1
  <2>2. CASE d # c
    <3>1. calls'[d] = calls[d]
      BY <2>2
    <3> QED BY <1>4, <3>1 DEF CloneInv
  <2> QED BY <2>1, <2>2
<1> QED BY <1>2, <1>3, <1>4 DEF CloneInv, Complete, FilterWork, Partial
\* A command of one script on its clone keeps the others, and what was complete.
LEMMA OnClone ==
  ASSUME CloneInv, CallInv', NEW c \in Calls, UNCHANGED executions,
         \A d \in Calls \ {c} : calls'[d] = calls[d],
         NEW repo \in Repos, clones[repo] # Done(5),
         \A d \in Calls \ {c} : calls[d].pc = "rewrite" => calls[d].repo # repo,
         NEW n \in 1 .. 5, clones' = [clones EXCEPT ![repo] = Done(n)],
         calls'[c].pc = "rewrite" => calls'[c].repo = repo /\ n # 5,
         calls'[c].pc \in {"filter-repo", "rewrite"} /\ ~calls'[c].warned =>
             \A r \in FilterWork(calls'[c]) \ calls'[c].todo : Complete(r) \/ (r = repo /\ n = 5)
  PROVE  CloneInv'
<1>1. /\ clones' \in [Repos -> {Done(m) : m \in 0 .. 5}] /\ clones'[repo] = Done(n)
      /\ \A r : r # repo => clones'[r] = clones[r]
  <2>1. n \in 0 .. 5
    OBVIOUS
  <2> QED BY <2>1 DEF CloneInv
<1>2. \A r : Complete(r) => Complete(r)'
  BY <1>1 DEF Complete
<1>3. ASSUME NEW d \in Calls, calls'[d].pc = "rewrite"
      PROVE  clones'[calls'[d].repo] \in Partial
  <2>1. CASE d = c
    <3>1. n \in 1 .. 4
      BY <1>3, <2>1
    <3> QED BY <1>1, <1>3, <2>1, <3>1 DEF Partial
  <2>2. CASE d # c
    BY <1>1, <1>3, <2>2 DEF CloneInv
  <2> QED BY <2>1, <2>2
<1>4. ASSUME NEW d \in Calls, NEW e \in Calls,
             calls'[d].pc = "rewrite", calls'[e].pc = "rewrite", calls'[d].repo = calls'[e].repo
      PROVE  d = e
  <2>1. CASE d = c \/ e = c
    BY <1>4, <2>1
  <2>2. CASE d # c /\ e # c
    BY <1>4, <2>2 DEF CloneInv
  <2> QED BY <2>1, <2>2
<1>5. ASSUME NEW d \in Calls, calls'[d].pc \in {"filter-repo", "rewrite"}, ~calls'[d].warned,
             NEW r \in FilterWork(calls'[d]) \ calls'[d].todo
      PROVE  Complete(r)'
  <2>1. CASE d = c
    BY <1>1, <1>2, <1>5, <2>1 DEF Complete
  <2>2. CASE d # c
    <3>1. calls'[d] = calls[d]
      BY <2>2
    <3> QED BY <1>2, <1>5, <3>1 DEF CloneInv
  <2> QED BY <2>1, <2>2
<1>6. \A x \in executions' : x.input.phase = "filter-repo" /\ ~x.warned =>
         \A r \in FilterRepos(x.input.layout) : Complete(r)'
  BY <1>2 DEF CloneInv
<1> QED BY <1>1, <1>3, <1>4, <1>5, <1>6 DEF CloneInv, Complete, FilterWork

\* The call a script works on, and the others.
LEMMA CallsOf ==
  ASSUME CallInv, NEW c \in Calls, NEW k, calls' = [calls EXCEPT ![c] = k]
  PROVE  calls'[c] = k /\ \A d \in Calls \ {c} : calls'[d] = calls[d]
BY DEF CallInv

LEMMA CloneKeepsClones ==
  ASSUME CloneInv, NEW c \in Calls, Clone(c)
  PROVE  CloneInv'
<1> DEFINE k == calls[c]
           repo == k.repo
<1>1. CallInv /\ CallInv' /\ k \in CallRecord /\ AtWork(k)
  BY StepKeepsCalls DEF CloneInv, CallInv, Next, Script
<1>2. /\ k.pc = "filter-repo" /\ repo # None /\ repo \in k.todo /\ repo \in Repos
      /\ UNCHANGED executions
  BY <1>1 DEF Clone, AtWork, CallRecord, ElsewhereUnchanged, memory
<1>3. CASE clones[repo] = {}
  <2> DEFINE new == [k EXCEPT !.pc = "rewrite"]
  <2>1. calls' = [calls EXCEPT ![c] = new] /\ clones' = [clones EXCEPT ![repo] = {"clone"}]
    BY <1>3 DEF Clone, ToStep
  <2>2. new.pc = "rewrite" /\ new.repo = repo /\ new.warned = k.warned /\ new.input = k.input /\ new.todo = k.todo
    BY <1>1 DEF CallRecord
  <2> HIDE DEF new
  <2>3. calls'[c] = new /\ \A d \in Calls \ {c} : calls'[d] = calls[d]
    BY <1>1, <2>1, CallsOf
  <2>4. {} # Done(5) /\ {"clone"} = Done(1)
    BY DoneSets
  <2>5. \A d \in Calls \ {c} : calls[d].pc = "rewrite" => calls[d].repo # repo
    BY <1>3, PartialIs DEF CloneInv
  <2>6. calls'[c].pc \in {"filter-repo", "rewrite"} /\ ~calls'[c].warned =>
             \A r \in FilterWork(calls'[c]) \ calls'[c].todo : Complete(r)
    BY <1>2, <2>2, <2>3 DEF CloneInv, FilterWork
  <2>7. PICK n \in 1 .. 5 : n = 1
    OBVIOUS
  <2>8. n # 5 /\ clones[repo] # Done(5) /\ calls'[c].repo = repo
    BY <1>3, <2>2, <2>3, <2>4, <2>7
  <2>9. clones' = [clones EXCEPT ![repo] = Done(n)]
    BY <2>1, <2>4, <2>7
  <2> HIDE DEF k, repo
  <2> QED BY <1>1, <1>2, <2>3, <2>5, <2>6, <2>8, <2>9, OnClone
<1>4. CASE clones[repo] # {}
  <2>1. ToStep(c, "failed") /\ UNCHANGED clones
    BY <1>4 DEF Clone
  <2>2. calls'[c].pc = "failed" /\ \A d \in Calls \ {c} : calls'[d] = calls[d]
    BY <1>1, <2>1 DEF ToStep, CallInv, CallRecord
  <2> QED BY <1>1, <1>2, <2>1, <2>2, OffClone
<1> QED BY <1>3, <1>4

LEMMA CommandKeepsClones ==
  ASSUME CloneInv, NEW c \in Calls, GitCommand(c)
  PROVE  CloneInv'
<1> DEFINE k == calls[c]
           repo == k.repo
<1>1. CallInv /\ CallInv' /\ k \in CallRecord /\ AtWork(k)
  BY StepKeepsCalls DEF CloneInv, CallInv, Next, Script
<1>2. /\ k.pc = "rewrite" /\ repo \in k.todo /\ repo \in Repos
      /\ UNCHANGED executions
  BY <1>1 DEF GitCommand, AtWork, CallRecord, ElsewhereUnchanged, memory
<1>3. clones[repo] \in Partial /\ repo \in DOMAIN clones
  BY <1>2 DEF CloneInv
<1>4. PICK n \in 1 .. 4 : clones[repo] = Done(n)
  BY <1>3 DEF Partial
<1>5. n \in 0 .. 4 /\ n + 1 \in 1 .. 5 /\ n + 1 \in 0 .. 5
  OBVIOUS
<1>6. clones' = [clones EXCEPT ![repo] = Done(n + 1)]
  BY <1>4, <1>5, DoneCounts DEF GitCommand
<1>7. Cardinality(clones'[repo]) = n + 1
  BY <1>3, <1>5, <1>6, DoneCounts
<1>8. \A d \in Calls \ {c} : calls[d].pc = "rewrite" => calls[d].repo # repo
  BY <1>2 DEF CloneInv
<1>9. clones[repo] # Done(5)
  BY <1>3, PartialIs
<1>10. CASE n + 1 < 5
  <2>1. calls' = calls
    BY <1>7, <1>10, DoneCounts DEF GitCommand
  <2>2. ~k.warned => \A r \in FilterWork(k) \ k.todo : Complete(r)
    BY <1>2 DEF CloneInv
  <2> DEFINE m == n + 1
  <2>3. m \in 1 .. 5 /\ m # 5 /\ clones' = [clones EXCEPT ![repo] = Done(m)]
    BY <1>5, <1>6, <1>10
  <2> HIDE DEF m
  <2> QED BY <1>1, <1>2, <1>8, <1>9, <2>1, <2>2, <2>3, OnClone
<1>11. CASE ~(n + 1 < 5)
  <2> DEFINE new == [k EXCEPT !.pc = "filter-repo", !.repo = None, !.todo = @ \ {repo}]
  <2>1. calls' = [calls EXCEPT ![c] = new]
    BY <1>7, <1>11, DoneCounts DEF GitCommand
  <2>2. n + 1 = 5
    BY <1>5, <1>11
  <2>3. new.pc = "filter-repo" /\ new.warned = k.warned /\ new.input = k.input /\ new.todo = k.todo \ {repo}
    BY <1>1 DEF CallRecord
  <2> HIDE DEF new
  <2>4. calls'[c] = new /\ \A d \in Calls \ {c} : calls'[d] = calls[d]
    BY <1>1, <2>1, CallsOf
  <2>5. ~k.warned => \A r \in FilterWork(k) \ k.todo : Complete(r)
    BY <1>2 DEF CloneInv
  <2>6. calls'[c].pc \in {"filter-repo", "rewrite"} /\ ~calls'[c].warned =>
             \A r \in FilterWork(calls'[c]) \ calls'[c].todo : Complete(r) \/ r = repo
    BY <2>3, <2>4, <2>5 DEF FilterWork
  <2>7. PICK m \in 1 .. 5 : m = 5
    OBVIOUS
  <2>8. /\ clones' = [clones EXCEPT ![repo] = Done(m)] /\ calls'[c].pc # "rewrite"
        /\ calls'[c].pc \in {"filter-repo", "rewrite"} /\ ~calls'[c].warned =>
             \A r \in FilterWork(calls'[c]) \ calls'[c].todo : Complete(r) \/ (r = repo /\ m = 5)
    BY <1>6, <2>2, <2>3, <2>4, <2>6, <2>7
  <2> HIDE DEF k, repo
  <2> QED BY <1>1, <1>2, <1>8, <1>9, <2>4, <2>8, OnClone
<1> QED BY <1>10, <1>11
LEMMA ScriptKeepsClones ==
  ASSUME CloneInv, NEW c \in Calls, Script(c)
  PROVE  CloneInv'
<1> DEFINE k == calls[c]
<1>1. CallInv /\ CallInv' /\ k \in CallRecord /\ AtWork(k)
  BY StepKeepsCalls DEF CloneInv, CallInv, Next
<1>2. CASE CopyPreflight(c) \/ GitFails(c) \/ ScriptFailed(c)
  <2>1. UNCHANGED <<clones, executions>>
    BY <1>2 DEF CopyPreflight, GitFails, ScriptFailed, ElsewhereUnchanged, files, memory
  <2>2. calls'[c].pc \in {"copy", "failed", "done"} /\ \A d \in Calls \ {c} : calls'[d] = calls[d]
    BY <1>1, <1>2 DEF CopyPreflight, GitFails, ScriptFailed, ToStep, CallInv, CallRecord, IdleCall
  <2> QED BY <1>1, <2>1, <2>2, OffClone
<1>3. ASSUME NEW path \in k.todo,
             CopyItem(c, path) \/ ArchiveItem(c, path) \/ KeepItem(c, path) \/ ItemFails(c, path)
      PROVE  CloneInv'
  <2>1. UNCHANGED <<clones, executions>> /\ (Worked(c, path) \/ Warned(c, path)) /\ k.pc \in {"copy", "archive"}
    BY <1>3 DEF CopyItem, ArchiveItem, KeepItem, ItemFails, ElsewhereUnchanged, files, memory
  <2>2. calls'[c].pc = k.pc /\ \A d \in Calls \ {c} : calls'[d] = calls[d]
    BY <1>1, <2>1 DEF Worked, Warned, CallInv, CallRecord
  <2> QED BY <1>1, <2>1, <2>2, OffClone
<1>4. ASSUME NEW repo \in k.todo, FilterRepo(c, repo)
      PROVE  CloneInv'
  <2>1. UNCHANGED <<clones, executions>> /\ k.pc = "filter-repo"
    BY <1>4 DEF FilterRepo, ElsewhereUnchanged, files, memory
  <2>2. CASE Warned(c, repo)
    <3>1. calls'[c].pc = k.pc /\ calls'[c].warned /\ \A d \in Calls \ {c} : calls'[d] = calls[d]
      BY <1>1, <2>2 DEF Warned, CallInv, CallRecord
    <3> QED BY <1>1, <2>1, <3>1, OffClone
  <2>3. CASE calls' = [calls EXCEPT ![c].repo = repo]
    <3>1. /\ calls'[c].pc = k.pc /\ calls'[c].warned = k.warned /\ calls'[c].input = k.input
          /\ calls'[c].todo = k.todo /\ \A d \in Calls \ {c} : calls'[d] = calls[d]
      BY <1>1, <2>3 DEF CallInv, CallRecord
    <3>2. calls'[c].pc \in {"filter-repo", "rewrite"} /\ ~calls'[c].warned =>
             \A r \in FilterWork(calls'[c]) \ calls'[c].todo : Complete(r)
      BY <2>1, <3>1 DEF CloneInv, FilterWork
    <3> QED BY <1>1, <2>1, <3>1, <3>2, OffClone
  <2> QED BY <1>4, <2>2, <2>3 DEF FilterRepo
<1>5. CASE ScriptEnds(c)
  <2>1. /\ k.pc \in {"copy", "filter-repo", "archive"} /\ k.todo = {} /\ UNCHANGED clones
        /\ executions' \subseteq executions \cup {[input |-> k.input, warned |-> k.warned]}
    BY <1>5 DEF ScriptEnds, files
  <2>2. calls'[c].pc = "done" /\ \A d \in Calls \ {c} : calls'[d] = calls[d]
    BY <1>1, <1>5 DEF ScriptEnds, CallInv, IdleCall
  <2>3. ASSUME NEW x \in executions', x.input.phase = "filter-repo", ~x.warned,
               NEW r \in FilterRepos(x.input.layout)
        PROVE  Complete(r)
    <3>1. CASE x \in executions
      BY <2>3, <3>1 DEF CloneInv
    <3>2. CASE x.input = k.input /\ x.warned = k.warned
      <4>1. k.pc = "filter-repo" /\ ~k.warned
        BY <1>1, <2>1, <2>3, <3>2 DEF AtWork
      <4>2. r \in FilterWork(k) \ k.todo
        BY <2>1, <3>2 DEF FilterWork
      <4> QED BY <4>1, <4>2 DEF CloneInv
    <3> QED BY <2>1, <3>1, <3>2
  <2>4. /\ \A d \in Calls : calls'[d].pc = "rewrite" => d # c /\ calls'[d] = calls[d]
        /\ \A d \in Calls : calls'[d].pc \in {"filter-repo", "rewrite"} => calls'[d] = calls[d]
    BY <2>2
  <2> QED BY <1>1, <2>1, <2>3, <2>4 DEF CloneInv, Complete, FilterWork
<1> QED BY <1>2, <1>3, <1>4, <1>5, CloneKeepsClones, CommandKeepsClones DEF Script

LEMMA StepKeepsClones == CloneInv /\ [Next]_vars => CloneInv'
<1> SUFFICES ASSUME CloneInv, [Next]_vars PROVE CloneInv'
  OBVIOUS
<1>0. CallInv /\ CallInv'
  BY StepKeepsCalls DEF CloneInv
<1>1. ASSUME NEW c \in Calls, NEW id \in confirmations, NEW x \in ExecuteInputs, ExecuteConfirmed(c, id, x)
      PROVE  CloneInv'
  <2> DEFINE new == [IdleCall EXCEPT !.pc = FirstStep(x.phase), !.life = life,
                                     !.input = x, !.todo = WorkOf(x.phase, x.layout)]
  <2>1. calls' = [calls EXCEPT ![c] = new] /\ UNCHANGED <<clones, executions>>
    BY <1>1 DEF ExecuteConfirmed, memory, files
  <2>2. new.pc # "rewrite" /\ new.input = x /\ new.todo = WorkOf(x.phase, x.layout)
        /\ (new.pc = "filter-repo" => x.phase = "filter-repo")
    BY InputsValidated DEF IdleCall, FirstStep
  <2> HIDE DEF new
  <2>3. calls'[c] = new /\ \A d \in Calls \ {c} : calls'[d] = calls[d]
    BY <1>0, <2>1, CallsOf
  <2>4. calls'[c].pc \in {"filter-repo", "rewrite"} => FilterWork(calls'[c]) \ calls'[c].todo = {}
    BY <2>2, <2>3, WorkTyped DEF FilterWork
  <2> QED BY <1>0, <2>1, <2>2, <2>3, <2>4, OffClone
<1>2. ASSUME NEW c \in Calls, Script(c)
      PROVE  CloneInv'
  BY <1>2, ScriptKeepsClones
<1>3. CASE \/ \E input \in PlanInputs : Plan(input)
           \/ \E input \in PreviewInputs : Preview(input)
           \/ \E input \in ConfirmInputs : CreateConfirmation(input)
           \/ Tick \/ Restart \/ UNCHANGED vars
  <2>1. UNCHANGED <<calls, clones>> /\ executions' \subseteq executions
    BY <1>3 DEF Plan, Preview, CreateConfirmation, Tick, Restart, ServerDies, vars, history,
                memory, files
  <2> QED BY <1>0, <2>1 DEF CloneInv, Complete, FilterWork
<1>4. ASSUME NEW c \in Calls, NEW id \in confirmations, NEW x \in ExecuteInputs, SpawnFails(c, id, x)
      PROVE  CloneInv'
  <2>1. /\ calls' = [calls EXCEPT ![c] = [IdleCall EXCEPT !.pc = "done"]]
        /\ clones' = clones /\ executions' = {}
    BY <1>4 DEF SpawnFails, ServerDies, files
  <2>2. calls'[c].pc = "done" /\ \A d \in Calls \ {c} : calls'[d] = calls[d]
    BY <1>0, <2>1 DEF CallInv, IdleCall
  <2> QED BY <1>0, <2>1, <2>2 DEF CloneInv, Complete, FilterWork
<1> QED BY <1>1, <1>2, <1>3, <1>4 DEF Next

LEMMA ClonesHold == Spec => []CloneInv
BY ClonesInitially, StepKeepsClones, PTL DEF Spec

\* No failure, race or retry makes a clone of the whole history point at the target: the
\* history is filtered and the old remote removed first (repo_split_filter_repo.ps1 125-135).
THEOREM FilteredFirst == Spec => []FilteredBeforeTarget
<1>1. CloneInv => FilteredBeforeTarget
  <2> SUFFICES ASSUME CloneInv, NEW r \in Repos, "remote add" \in clones[r]
               PROVE  {"filter-repo", "remote remove"} \subseteq clones[r]
    BY DEF CloneInv, FilteredBeforeTarget
  <2>1. PICK n \in 0 .. 5 : clones[r] = Done(n)
    BY DEF CloneInv
  <2>2. ASSUME NEW m \in 0 .. 5, "remote add" \in Done(m)
        PROVE  {"filter-repo", "remote remove"} \subseteq Done(m)
    <3>1. m = 0 \/ m = 1 \/ m = 2 \/ m = 3 => "remote add" \notin Done(m)
      BY DoneSets
    <3>2. m = 4 \/ m = 5
      BY <2>2, <3>1, UpToFive
    <3> QED BY <3>2, DoneSets
  <2> QED BY <2>1, <2>2
<1> QED BY <1>1, ClonesHold, PTL

\* An execution recorded without a warning stands for clones that are finished, each by
\* its own script, however many ran at once (executeConfirmed.ts, repo_split_filter_repo.ps1).
THEOREM CleanRunsAreComplete == Spec => []CleanRunIsComplete
<1>1. CloneInv => CleanRunIsComplete
  BY DoneCounts DEF CloneInv, Complete, CleanRunIsComplete
<1> QED BY <1>1, ClonesHold, PTL

=============================================================================
