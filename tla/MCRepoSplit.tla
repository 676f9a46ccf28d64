----------------------------- MODULE MCRepoSplit -----------------------------
(* A small plan in both layouts, and the calls of a client.                   *)
EXTENDS RepoSplit

PlanEntry(path, repo, mode, include, deferred) ==
    [path |-> path, repo |-> repo, mode |-> mode, include |-> include, deferred |-> deferred]

SmallPlan ==
    [recommended |-> {PlanEntry("manuals", "docs", "copy", TRUE, FALSE),
                      PlanEntry("core", "core", "filter-repo", TRUE, FALSE),
                      PlanEntry("later", "", "exclude", FALSE, TRUE)},
     minimal |-> {PlanEntry("manuals", "core", "copy", TRUE, FALSE),
                  PlanEntry("core", "core", "filter-repo", TRUE, FALSE),
                  PlanEntry("later", "", "exclude", FALSE, TRUE)}]

Hash(l) == {[path |-> e.path, repo |-> e.repo, mode |-> e.mode,
             disposition |-> IF e.include THEN "migrate" ELSE "deferred"] : e \in SmallPlan[l]}

Reports == {"report"}

Previewed == [layout |-> "recommended", phase |-> "archive", planHash |-> Hash("recommended")]
SomePlans == {<<"recommended", FALSE>>}
SomePreviews == {Previewed}

SomeConfirms ==
    {[planHash |-> Hash("recommended"), phase |-> "archive", scope |-> "full-run", preview |-> Previewed],
     [planHash |-> Hash("recommended"), phase |-> "filter-repo", scope |-> "filter-repo", preview |-> None]}

Exec(phase, layout, action, preview) ==
    [phase |-> phase, layout |-> layout, planHash |-> Hash("recommended"),
     excludedAction |-> action, preview |-> preview]

SomeExecutions ==
    {Exec("archive", "recommended", "archive", Previewed), Exec("archive", "minimal", "delete", None),
     Exec("archive", "recommended", "keep", None),
     Exec("filter-repo", "recommended", "keep", None), Exec("copy", "minimal", "keep", None)}

=============================================================================
