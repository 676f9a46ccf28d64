----------------------------- MODULE HumanReview -----------------------------
(***************************************************************************)
(* The human review store, tools/human_review_writer.ts: applyReviewDecision *)
(* by several reviewers, and the two places where the nightly runner uses  *)
(* the store, the injection of approvals and the merge of deferred patches.*)
(*                                                                         *)
(* The reviewers' calls run in one process: a store method runs to its end *)
(* without an await, the callers await between them.  The runner is another*)
(* process, and nothing locks the files: between the read and the write of *)
(* a method of one process come the steps of the other.                    *)
(***************************************************************************)
EXTENDS Integers, FiniteSets

CONSTANTS
    Patch,            \* patches that Phase C may defer to a human
    Copies,           \* bound: decisions an operator may make on a patch, per verdict
    Reviewers,        \* calls of applyReviewDecision that may be under way at once
    MaxCalls,         \* bound: calls of applyReviewDecision that pass validation
    MaxUpsets,        \* bound: calls that throw or whose process ends
    MayFail           \* who may fail: "reviewer", "runner"

ASSUME ReviewBounds == Copies \in Nat \ {0} /\ {MaxCalls, MaxUpsets} \subseteq Nat
ASSUME ReviewSwitches == MayFail \subseteq {"reviewer", "runner"}

Verdict == {"APPROVE", "REJECT"}

\* makeReviewDecision draws a new decision_id for each (n).
Decision == [patch : Patch, verdict : Verdict, n : 1 .. Copies]
Approval == {dec \in Decision : dec.verdict = "APPROVE"}
Entry == [patch : Patch, dec : Approval, nth : Nat]

VARIABLES
    \* the store
    reviewQueue,  \* review_queue.json: pending
    approved,     \* approved_pending.json: entries [patch, decision, nth approval of the patch]
    rejected,     \* rejection_audit.json
    records,      \* decisions/decision_<id>.json
    \* the processes
    call,         \* each reviewer's call: where it is, its decision, the queue and list it read
    night,        \* the runner: where it is, approvals read, ids to remove, list and queue read
    \* the runner's checkpoint and report
    open,         \* patches deferred by the cycle that is not reported yet
    promotions,   \* how often a report showed a patch as promoted by approval
    \* history
    deferred,     \* patches the gate ever deferred to a human
    verdicts,     \* decisions whose verdict was appended to a list
    approvals,    \* how many approvals of a patch were appended
    taken,        \* decisions whose approval a night read
    erased,       \* patches that a queue written by a call left out because it had not read them
    wiped,        \* decisions whose entry the runner wrote over, or removed, without having read it
    revived,      \* entries of a patch that an append wrote back after their removal
    begun, upsets

store_vars == <<reviewQueue, approved, rejected, records>>
cycle_vars == <<open, promotions, deferred>>
races == <<erased, wiped, revived>>
counts == <<verdicts, approvals, taken>>
review_vars == <<store_vars, call, night, cycle_vars, counts, races, begun, upsets>>

NoCall == [at |-> "idle"]
Call == {NoCall} \cup [at : {"verdict", "append", "queue", "record"}, dec : Decision,
                      seen : SUBSET Patch, list : SUBSET Entry]

NoNight == [at |-> "idle", entries |-> {}, todo |-> {}, list |-> {}, snap |-> {}]

(* Approvals and rejections are kept in their own lists.                      *)
ReviewTypeOK ==
    /\ reviewQueue \subseteq Patch
    /\ approved \subseteq Entry
    /\ rejected \subseteq Decision \ Approval
    /\ records \subseteq Decision
    /\ call \in [Reviewers -> Call]
    /\ night \in [at : {"idle", "remove", "rewrite", "read", "write", "report"}, entries : SUBSET Entry,
                  todo : SUBSET Patch, list : SUBSET Entry, snap : SUBSET Patch]
    /\ open \subseteq deferred /\ deferred \subseteq Patch
    /\ {promotions, approvals, revived} \subseteq [Patch -> Nat]
    /\ verdicts \subseteq Decision /\ {taken, wiped} \subseteq SUBSET Approval
    /\ erased \subseteq Patch
    /\ begun \in 0 .. MaxCalls /\ upsets \in 0 .. MaxUpsets

ReviewInit ==
    /\ reviewQueue = {} /\ approved = {} /\ rejected = {} /\ records = {}
    /\ call = [r \in Reviewers |-> NoCall]
    /\ night = NoNight
    /\ open = {} /\ deferred = {}
    /\ promotions = [p \in Patch |-> 0]
    /\ verdicts = {} /\ taken = {} /\ erased = {} /\ wiped = {}
    /\ approvals = [p \in Patch |-> 0] /\ revived = [p \in Patch |-> 0]
    /\ begun = 0 /\ upsets = 0

Of(entries, p) == {e \in entries : e.patch = p}
Patches(entries) == {e.patch : e \in entries}
Decisions(entries) == {e.dec : e \in entries}

-----------------------------------------------------------------------------
(* applyReviewDecision                                                       *)

\* No other call is within a store method.
Undisturbed(r) == \A s \in Reviewers \ {r} : call[s].at # "append"

Moves(r, from, to) ==
    /\ Undisturbed(r)
    /\ call[r].at = from
    /\ call' = [call EXCEPT ![r] = IF to = "idle" THEN NoCall ELSE [@ EXCEPT !.at = to]]

Begins(r, dec) ==
    /\ Undisturbed(r)
    /\ call[r] = NoCall
    /\ dec.patch \in reviewQueue
    /\ begun < MaxCalls /\ begun' = begun + 1
    /\ call' = [call EXCEPT ![r] = [at |-> "verdict", dec |-> dec, seen |-> reviewQueue, list |-> {}]]

\* Mutants: the queue is written first; the record is saved first.
Submit_DequeuesFirst(r, dec) ==
    /\ Begins(r, dec)
    /\ reviewQueue' = reviewQueue \ {dec.patch}
    /\ UNCHANGED <<approved, rejected, records, night, cycle_vars, counts, races, upsets>>

Submit_RecordsFirst(r, dec) ==
    /\ Begins(r, dec)
    /\ records' = records \cup {dec}
    /\ UNCHANGED <<reviewQueue, approved, rejected, night, cycle_vars, counts, races, upsets>>

\* Read the queue and validate: a decision on a patch that is not pending
\* throws before anything is written.  The queue to be written is fixed here.
Submit(r, dec) ==
    /\ Begins(r, dec)
    /\ UNCHANGED <<store_vars, night, cycle_vars, counts, races, upsets>>

\* appendRejectionAudit: no other process touches the audit.
AppendRejection(r) ==
    /\ Moves(r, "verdict", "queue")
    /\ call[r].dec.verdict = "REJECT"
    /\ rejected' = rejected \cup {call[r].dec}
    /\ verdicts' = verdicts \cup {call[r].dec}
    /\ UNCHANGED <<reviewQueue, approved, records, night, cycle_vars, approvals, taken, races, begun, upsets>>

\* appendApprovedPendingEntry reads the list and writes it back with the entry.
ReadApproved(r) ==
    /\ Undisturbed(r)
    /\ call[r].at = "verdict" /\ call[r].dec.verdict = "APPROVE"
    /\ call' = [call EXCEPT ![r].at = "append", ![r].list = approved]
    /\ UNCHANGED <<store_vars, night, cycle_vars, counts, races, begun, upsets>>

AppendApproved(r) ==
    LET dec == call[r].dec
        list == call[r].list
        entry == [patch |-> dec.patch, dec |-> dec, nth |-> approvals[dec.patch] + 1]
    IN
    /\ Moves(r, "append", "queue")
    /\ approved' = list \cup {entry}
    /\ approvals' = [approvals EXCEPT ![dec.patch] = @ + 1]
    /\ verdicts' = verdicts \cup {dec}
    /\ revived' = [p \in Patch |-> revived[p] + Cardinality(Of(list \ approved, p))]
    /\ UNCHANGED <<reviewQueue, rejected, records, night, cycle_vars, taken, erased, wiped, begun, upsets>>

WriteQueue(r) ==
    /\ Moves(r, "queue", "record")
    /\ reviewQueue' = call[r].seen \ {call[r].dec.patch}
    /\ erased' = erased \cup (reviewQueue \ call[r].seen)
    /\ UNCHANGED <<approved, rejected, records, night, cycle_vars, counts, wiped, revived, begun, upsets>>

\* A record that exists is not overwritten: the call throws.
SaveRecord(r) ==
    /\ Moves(r, "record", "idle")
    /\ records' = records \cup {call[r].dec}
    /\ UNCHANGED <<reviewQueue, approved, rejected, night, cycle_vars, counts, races, begun, upsets>>

\* A store method throws, or the process ends; what was written stays.
ReviewerFails(r) ==
    /\ "reviewer" \in MayFail /\ upsets < MaxUpsets
    /\ call[r] # NoCall
    /\ call' = [call EXCEPT ![r] = NoCall]
    /\ upsets' = upsets + 1
    /\ UNCHANGED <<store_vars, night, cycle_vars, counts, races, begun>>

-----------------------------------------------------------------------------
(* The runner in PROMOTING                                                   *)

\* A cycle, new or resumed, reads the approvals.  A resumed one defers what its
\* saved gate decision deferred, a new one patches of its own.
StartNight ==
    /\ night.at = "idle"
    /\ \E own \in SUBSET (Patch \ deferred) :
          /\ open # {} => own = {}
          /\ open' = open \cup own
          /\ deferred' = deferred \cup own
    /\ night' = [NoNight EXCEPT !.at = IF approved = {} THEN "read" ELSE "remove",
                                !.entries = approved, !.todo = Patches(approved)]
    /\ taken' = taken \cup Decisions(approved)
    /\ UNCHANGED <<store_vars, call, promotions, verdicts, approvals, races, begun, upsets>>

\* removeApprovedPendingEntry reads the list and writes it back without any entry
\* of the patch.
ReadRemoval ==
    /\ night.at = "remove"
    /\ night' = [night EXCEPT !.list = approved, !.at = "rewrite"]
    /\ UNCHANGED <<store_vars, call, cycle_vars, counts, races, begun, upsets>>

\* Mutant: one entry of the patch is removed.
Without_OneOnly(p, list) ==
    IF Of(list, p) = {} THEN list ELSE list \ {CHOOSE e \in Of(list, p) : TRUE}

Without(p, list) == {e \in list : e.patch # p}

RemoveApproved ==
    /\ night.at = "rewrite"
    /\ \E p \in night.todo :
          /\ approved' = Without(p, night.list)
          /\ night' = [night EXCEPT !.todo = @ \ {p}, !.list = {},
                                    !.at = IF night.todo = {p} THEN "read" ELSE "remove"]
          /\ wiped' = wiped \cup Decisions(approved \ night.list)
                           \cup Decisions(Of(approved, p) \ night.entries)
    /\ UNCHANGED <<reviewQueue, rejected, records, call, cycle_vars, counts, erased, revived, begun, upsets>>

ReadReviewQueue ==
    /\ night.at = "read"
    /\ night' = [night EXCEPT !.snap = reviewQueue, !.at = IF open = {} THEN "report" ELSE "write"]
    /\ UNCHANGED <<store_vars, call, cycle_vars, counts, races, begun, upsets>>

\* mergeIntoReviewQueue adds what is not pending already.
WriteMerged ==
    /\ night.at = "write"
    /\ reviewQueue' = night.snap \cup open
    /\ night' = [night EXCEPT !.at = "report"]
    /\ UNCHANGED <<approved, rejected, records, call, cycle_vars, counts, races, begun, upsets>>

\* Every entry that was read is one promoted skill.
ReportPromotions ==
    /\ night.at = "report"
    /\ promotions' = [p \in Patch |-> promotions[p] + Cardinality(Of(night.entries, p))]
    /\ open' = {}
    /\ night' = NoNight
    /\ UNCHANGED <<store_vars, call, deferred, counts, races, begun, upsets>>

RunnerFails ==
    /\ "runner" \in MayFail /\ upsets < MaxUpsets
    /\ night.at # "idle"
    /\ night' = NoNight
    /\ upsets' = upsets + 1
    /\ UNCHANGED <<store_vars, call, cycle_vars, counts, races, begun>>

-----------------------------------------------------------------------------
ApplyReviewDecision(r) ==
    AppendRejection(r) \/ ReadApproved(r) \/ AppendApproved(r) \/ WriteQueue(r) \/ SaveRecord(r)
ReviewRunner ==
    StartNight \/ ReadRemoval \/ RemoveApproved \/ ReadReviewQueue \/ WriteMerged \/ ReportPromotions

ReviewNext ==
    \/ \E r \in Reviewers : \/ \E dec \in Decision : Submit(r, dec)
                            \/ ApplyReviewDecision(r)
                            \/ ReviewerFails(r)
    \/ ReviewRunner
    \/ RunnerFails

ReviewSpec == ReviewInit /\ [][ReviewNext]_review_vars

-----------------------------------------------------------------------------
HasVerdict(p) == \E dec \in verdicts : dec.patch = p

\* A patch deferred to a human by a reported cycle leaves the queue only with a
\* verdict on disk, or because a call wrote a queue it had read before the runner
\* put the patch there: no other order of two calls, no failure loses it.
NotDropped == \A p \in deferred \ open : p \in reviewQueue \/ HasVerdict(p) \/ p \in erased

\* An approval waits in the list or was taken up by a night, unless the runner wrote
\* the list over it, or removed it with an older one, without having read it.
HandedOver(dec) == dec \in taken \cup wiped \cup Decisions(approved)

Logged(dec) == IF dec.verdict = "REJECT" THEN dec \in rejected ELSE HandedOver(dec)

\* A decision record tells the truth, however calls, nights and failures interleave:
\* its REJECT is in the audit, its APPROVE was handed to the runner.
RecordTrue == \A dec \in records : Logged(dec)

\* A report promotes a patch at most once for each approval of it, and for each time
\* an append wrote a removed entry back, also when failing runners read the same
\* entries again.
PromotedByApproval ==
    \A p \in Patch : promotions[p] <= approvals[p] + revived[p]

=============================================================================
