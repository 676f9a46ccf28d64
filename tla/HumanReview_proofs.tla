------------------------- MODULE HumanReview_proofs -------------------------
(***************************************************************************)
(* Theorems about HumanReview, for every set of patches and reviewers and  *)
(* every number of failures, with the runner between any read and write of *)
(* a call.                                                                 *)
(***************************************************************************)
EXTENDS HumanReview, FiniteSetTheorems, TLAPS

Types ==
    /\ call \in [Reviewers -> Call]
    /\ night = [at |-> night.at, entries |-> night.entries, todo |-> night.todo,
                list |-> night.list, snap |-> night.snap]
    /\ night.at \in {"idle", "remove", "rewrite", "read", "write", "report"}
    /\ night.entries \subseteq Entry /\ night.list \subseteq Entry /\ night.snap \subseteq Patch
    /\ reviewQueue \subseteq Patch /\ open \subseteq Patch
    /\ approved \subseteq Entry /\ approvals \in [Patch -> Nat]
    /\ \A r \in Reviewers : call[r].at = "append" => call[r].dec \in Approval

\* What a step of a call does to the call.
LEMMA CallFields ==
  ASSUME NEW r \in Reviewers, call[r] \in Call, call[r] # NoCall
  PROVE  /\ call[r] = [at |-> call[r].at, dec |-> call[r].dec, seen |-> call[r].seen,
                       list |-> call[r].list]
         /\ call[r].at \in {"verdict", "append", "queue", "record"}
         /\ call[r].dec \in Decision /\ call[r].seen \subseteq Patch /\ call[r].list \subseteq Entry
         /\ call[r].dec.patch \in Patch
BY DEF Call, Decision

LEMMA IdleIsIdle ==
  ASSUME NEW r, call[r] = NoCall
  PROVE  call[r].at = "idle"
BY DEF NoCall

LEMMA InitTypes == ReviewInit => Types
BY DEF ReviewInit, Types, NoNight, NoCall, Call

-----------------------------------------------------------------------------
(* The steps, as the invariants see them.                                    *)

\* A call goes on, and only it.
Goes(r, c) == call' = [call EXCEPT ![r] = c] /\ c \in Call

LEMMA SubmitGoes ==
  ASSUME Types, NEW r \in Reviewers, NEW dec \in Decision, Submit(r, dec)
  PROVE  \E c \in Call : Goes(r, c) /\ c.at = "verdict" /\ c.dec = dec
<1> DEFINE c == [at |-> "verdict", dec |-> dec, seen |-> reviewQueue, list |-> {}]
<1>1. c \in Call
  BY DEF Call, Types
<1> QED BY <1>1 DEF Submit, Begins, Goes

LEMMA AppendRejectionGoes ==
  ASSUME Types, NEW r \in Reviewers, AppendRejection(r)
  PROVE  /\ \E c \in Call : Goes(r, c) /\ c.at = "queue" /\ c.dec = call[r].dec
         /\ call[r].at = "verdict" /\ call[r].dec \in Decision
<1> DEFINE c == [call[r] EXCEPT !.at = "queue"]
<1>1. call[r].at = "verdict" /\ call[r] # NoCall /\ call[r] \in Call /\ call' = [call EXCEPT ![r] = c]
  BY IdleIsIdle DEF AppendRejection, Moves, Types
<1>2. c \in Call /\ c.at = "queue" /\ c.dec = call[r].dec
  BY <1>1, CallFields DEF Call
<1> QED BY <1>1, <1>2, CallFields DEF Goes

LEMMA ReadApprovedGoes ==
  ASSUME Types, NEW r \in Reviewers, ReadApproved(r)
  PROVE  /\ \E c \in Call : Goes(r, c) /\ c.at = "append" /\ c.dec = call[r].dec /\ c.list = approved
         /\ call[r].dec \in Approval
<1> DEFINE c == [call[r] EXCEPT !.at = "append", !.list = approved]
<1>1. call[r].at = "verdict" /\ call[r] # NoCall /\ call[r] \in Call
  BY IdleIsIdle DEF ReadApproved, Types
<1>2. call' = [call EXCEPT ![r] = c]
  BY <1>1 DEF ReadApproved, Types
<1>3. c \in Call /\ c.at = "append" /\ c.dec = call[r].dec /\ c.list = approved
  BY <1>1, CallFields DEF Call, Types
<1> QED BY <1>1, <1>2, <1>3, CallFields DEF Goes, ReadApproved, Approval

LEMMA AppendApprovedGoes ==
  ASSUME Types, NEW r \in Reviewers, AppendApproved(r)
  PROVE  /\ \E c \in Call : Goes(r, c) /\ c.at = "queue" /\ c.dec = call[r].dec
         /\ call[r].at = "append" /\ call[r].dec \in Decision /\ call[r].dec.patch \in Patch
         /\ call[r].list \subseteq Entry /\ call[r].dec \in Approval
<1> DEFINE c == [call[r] EXCEPT !.at = "queue"]
<1>1. call[r].at = "append" /\ call[r] # NoCall /\ call[r] \in Call /\ call' = [call EXCEPT ![r] = c]
  BY IdleIsIdle DEF AppendApproved, Moves, Types
<1>2. c \in Call /\ c.at = "queue" /\ c.dec = call[r].dec
  BY <1>1, CallFields DEF Call
<1>3. call[r].dec \in Approval
  BY <1>1 DEF Types
<1> QED BY <1>1, <1>2, <1>3, CallFields DEF Goes

LEMMA WriteQueueGoes ==
  ASSUME Types, NEW r \in Reviewers, WriteQueue(r)
  PROVE  /\ \E c \in Call : Goes(r, c) /\ c.at = "record" /\ c.dec = call[r].dec
         /\ call[r].at = "queue" /\ call[r].seen \subseteq Patch
<1> DEFINE c == [call[r] EXCEPT !.at = "record"]
<1>1. call[r].at = "queue" /\ call[r] # NoCall /\ call[r] \in Call /\ call' = [call EXCEPT ![r] = c]
  BY IdleIsIdle DEF WriteQueue, Moves, Types
<1>2. c \in Call /\ c.at = "record" /\ c.dec = call[r].dec
  BY <1>1, CallFields DEF Call
<1> QED BY <1>1, <1>2, CallFields DEF Goes

LEMMA CallEnds ==
  ASSUME Types, NEW r \in Reviewers, SaveRecord(r) \/ ReviewerFails(r)
  PROVE  Goes(r, NoCall) /\ NoCall \in Call /\ NoCall.at = "idle"
BY DEF SaveRecord, Moves, ReviewerFails, Goes, NoCall, Call

-----------------------------------------------------------------------------
LEMMA CallTypes ==
  ASSUME Types, NEW r \in Reviewers,
         (\E dec \in Decision : Submit(r, dec)) \/ ApplyReviewDecision(r) \/ ReviewerFails(r)
  PROVE  Types'
<1> USE DEF store_vars, cycle_vars, races, counts
<1>1. CASE \E dec \in Decision : Submit(r, dec)
  <2>1. UNCHANGED <<night, reviewQueue, open, approved, approvals>>
    BY <1>1 DEF Submit
  <2> QED BY <1>1, <2>1, SubmitGoes DEF Types, Goes
<1>2. CASE AppendRejection(r)
  <2>1. UNCHANGED <<night, reviewQueue, open, approved, approvals>>
    BY <1>2 DEF AppendRejection
  <2> QED BY <1>2, <2>1, AppendRejectionGoes DEF Types, Goes
<1>3. CASE ReadApproved(r)
  <2>1. UNCHANGED <<night, reviewQueue, open, approved, approvals>>
    BY <1>3 DEF ReadApproved
  <2> QED BY <1>3, <2>1, ReadApprovedGoes DEF Types, Goes
<1>4. CASE AppendApproved(r)
  <2> DEFINE dec == call[r].dec
             entry == [patch |-> dec.patch, dec |-> dec, nth |-> approvals[dec.patch] + 1]
  <2>1. /\ UNCHANGED <<night, reviewQueue, open>> /\ approved' = call[r].list \cup {entry}
        /\ approvals' = [approvals EXCEPT ![dec.patch] = @ + 1]
    BY <1>4 DEF AppendApproved
  <2>2. /\ dec.patch \in Patch /\ dec \in Approval /\ call[r].list \subseteq Entry
        /\ \E c \in Call : Goes(r, c) /\ c.at = "queue" /\ c.dec = dec
    BY <1>4, AppendApprovedGoes
  <2>3. approvals[dec.patch] \in Nat /\ approvals' \in [Patch -> Nat]
    BY <2>1, <2>2 DEF Types
  <2>4. entry \in Entry
    BY <2>2, <2>3 DEF Entry
  <2> HIDE DEF entry
  <2> QED BY <2>1, <2>2, <2>3, <2>4 DEF Types, Goes
<1>5. CASE WriteQueue(r)
  <2>1. UNCHANGED <<night, open, approved, approvals>> /\ reviewQueue' \subseteq call[r].seen
    BY <1>5 DEF WriteQueue
  <2> QED BY <1>5, <2>1, WriteQueueGoes DEF Types, Goes
<1>6. CASE SaveRecord(r) \/ ReviewerFails(r)
  <2>1. UNCHANGED <<night, reviewQueue, open, approved, approvals>>
    BY <1>6 DEF SaveRecord, ReviewerFails
  <2> QED BY <1>6, <2>1, CallEnds DEF Types, Goes
<1> QED BY <1>1, <1>2, <1>3, <1>4, <1>5, <1>6 DEF ApplyReviewDecision

\* What the runner leaves alone.
LEMMA NightLeaves ==
  ASSUME ReviewRunner \/ RunnerFails
  PROVE  UNCHANGED <<call, verdicts, approvals, rejected, records, erased, revived>>
BY DEF ReviewRunner, StartNight, ReadRemoval, RemoveApproved, ReadReviewQueue, WriteMerged,
       ReportPromotions, RunnerFails, store_vars, cycle_vars, races, counts

LEMMA RemovalStep ==
  ASSUME Types, RemoveApproved
  PROVE  \E p \in night.todo :
            /\ approved' = Without(p, night.list)
            /\ wiped' = wiped \cup Decisions(approved \ night.list)
                              \cup Decisions(Of(approved, p) \ night.entries)
            /\ night.at = "rewrite" /\ night'.at \in {"read", "remove"}
            /\ night'.at = "read" => night.todo = {p}
            /\ night' = [at |-> night'.at, entries |-> night.entries, todo |-> night.todo \ {p},
                         list |-> {}, snap |-> night.snap]
            /\ UNCHANGED <<reviewQueue, open, deferred, promotions, taken>>
<1>1. PICK p \in night.todo :
        /\ approved' = Without(p, night.list)
        /\ night' = [night EXCEPT !.todo = @ \ {p}, !.list = {},
                                  !.at = IF night.todo = {p} THEN "read" ELSE "remove"]
        /\ wiped' = wiped \cup Decisions(approved \ night.list)
                          \cup Decisions(Of(approved, p) \ night.entries)
  BY DEF RemoveApproved
<1>2. night.at = "rewrite" /\ UNCHANGED <<reviewQueue, open, deferred, promotions, taken>>
  BY DEF RemoveApproved, cycle_vars, counts
<1>3. night = [at |-> night.at, entries |-> night.entries, todo |-> night.todo,
               list |-> night.list, snap |-> night.snap]
  BY DEF Types
<1>4. night' = [at |-> IF night.todo = {p} THEN "read" ELSE "remove", entries |-> night.entries,
                todo |-> night.todo \ {p}, list |-> {}, snap |-> night.snap]
  BY <1>1, <1>3
<1> QED BY <1>1, <1>2, <1>4

LEMMA NightTypes ==
  ASSUME Types, ReviewRunner \/ RunnerFails
  PROVE  Types'
<1> USE DEF store_vars, cycle_vars
<1>1. UNCHANGED <<call, approvals>>
  BY NightLeaves
<1>2. CASE StartNight
  BY <1>1, <1>2 DEF StartNight, NoNight, Types
<1>3. CASE ReadRemoval \/ ReadReviewQueue
  BY <1>1, <1>3 DEF ReadRemoval, ReadReviewQueue, Types
<1>4. CASE RemoveApproved
  <2>1. PICK p \in night.todo :
          /\ approved' = Without(p, night.list) /\ night'.at \in {"read", "remove"}
          /\ night' = [at |-> night'.at, entries |-> night.entries, todo |-> night.todo \ {p},
                       list |-> {}, snap |-> night.snap]
          /\ UNCHANGED <<reviewQueue, open>>
    BY <1>4, RemovalStep
  <2>2. /\ night'.entries = night.entries /\ night'.list = {} /\ night'.snap = night.snap
        /\ night'.todo = night.todo \ {p} /\ approved' \subseteq night.list
    BY <2>1 DEF Without
  <2> QED BY <1>1, <2>1, <2>2 DEF Types
<1>5. CASE WriteMerged
  BY <1>1, <1>5 DEF WriteMerged, Types
<1>6. CASE ReportPromotions \/ RunnerFails
  BY <1>1, <1>6 DEF ReportPromotions, RunnerFails, NoNight, Types
<1> QED BY <1>2, <1>3, <1>4, <1>5, <1>6 DEF ReviewRunner

LEMMA StepTypes == Types /\ [ReviewNext]_review_vars => Types'
<1>1. Types /\ UNCHANGED review_vars => Types'
  BY DEF review_vars, store_vars, cycle_vars, counts, races, Types
<1> QED BY <1>1, CallTypes, NightTypes DEF ReviewNext

-----------------------------------------------------------------------------
(* The queue.                                                                *)

Kept(p) == p \in reviewQueue \/ HasVerdict(p) \/ p \in erased

\* A call that writes the queue has its verdict on disk; the queue the runner writes
\* lacks only patches that have a verdict or were erased before it read; what it
\* reports is in the queue again.
ReviewInv ==
    /\ Types
    /\ \A r \in Reviewers : call[r].at \in {"queue", "record"} => call[r].dec \in verdicts
    /\ night.at = "write" =>
          \A p \in deferred \ open : p \in night.snap \/ HasVerdict(p) \/ p \in erased
    /\ night.at = "report" => \A p \in open : Kept(p)
    /\ NotDropped

LEMMA InitReview == ReviewInit => ReviewInv
BY InitTypes DEF ReviewInit, ReviewInv, NotDropped, NoNight, NoCall

\* The queue, the history and the night stay as they are or grow.
LEMMA QueueGrows ==
  ASSUME ReviewInv, Types', UNCHANGED <<night, open, deferred>>,
         verdicts \subseteq verdicts',
         \A p \in reviewQueue : Kept(p)', erased \subseteq erased',
         \A r \in Reviewers : call'[r].at \in {"queue", "record"} => call'[r].dec \in verdicts'
  PROVE  ReviewInv'
<1>1. \A p : HasVerdict(p) => HasVerdict(p)'
  BY DEF HasVerdict
<1>2. \A p : Kept(p) => Kept(p)'
  BY <1>1 DEF Kept
<1>3. \A p \in deferred \ open : Kept(p)
  BY DEF ReviewInv, NotDropped, Kept
<1>4. NotDropped'
  BY <1>2, <1>3 DEF NotDropped, Kept
<1> QED BY <1>1, <1>2, <1>4 DEF ReviewInv

LEMMA CallKeepsQueue ==
  ASSUME ReviewInv, Types', NEW r \in Reviewers,
         (\E dec \in Decision : Submit(r, dec)) \/ ApplyReviewDecision(r) \/ ReviewerFails(r)
  PROVE  ReviewInv'
<1> USE DEF store_vars, cycle_vars, races, counts
<1>1. UNCHANGED <<night, open, deferred>> /\ verdicts \subseteq verdicts' /\ erased \subseteq erased'
  BY DEF Submit, ApplyReviewDecision, AppendRejection, ReadApproved, AppendApproved, WriteQueue,
         SaveRecord, ReviewerFails
<1>2. \A p : HasVerdict(p) => HasVerdict(p)'
  BY <1>1 DEF HasVerdict
<1>3. Types /\ \A s \in Reviewers : call[s].at \in {"queue", "record"} => call[s].dec \in verdicts
  BY DEF ReviewInv
<1>4. \A p \in reviewQueue : Kept(p)'
  <2>1. CASE WriteQueue(r)
    <3>1. /\ call[r].at = "queue" /\ reviewQueue' = call[r].seen \ {call[r].dec.patch}
          /\ erased' = erased \cup (reviewQueue \ call[r].seen)
      BY <2>1 DEF WriteQueue, Moves
    <3>2. HasVerdict(call[r].dec.patch)
      BY <1>3, <3>1 DEF HasVerdict
    <3> QED BY <1>2, <3>1, <3>2 DEF Kept
  <2>2. CASE ~ WriteQueue(r)
    <3>1. reviewQueue' = reviewQueue
      BY <2>2 DEF Submit, ApplyReviewDecision, AppendRejection, ReadApproved, AppendApproved,
                  SaveRecord, ReviewerFails
    <3> QED BY <3>1 DEF Kept
  <2> QED BY <2>1, <2>2
<1>5. \A s \in Reviewers : call'[s].at \in {"queue", "record"} => call'[s].dec \in verdicts'
  <2>0. call \in [Reviewers -> Call]
    BY <1>3 DEF Types
  <2>1. CASE \E dec \in Decision : Submit(r, dec)
    BY <1>1, <1>3, <2>0, <2>1, SubmitGoes DEF Goes
  <2>2. CASE AppendRejection(r)
    <3>1. verdicts' = verdicts \cup {call[r].dec}
      BY <2>2 DEF AppendRejection
    <3> QED BY <1>3, <2>0, <2>2, <3>1, AppendRejectionGoes DEF Goes
  <2>3. CASE ReadApproved(r)
    BY <1>1, <1>3, <2>0, <2>3, ReadApprovedGoes DEF Goes
  <2>4. CASE AppendApproved(r)
    <3>1. verdicts' = verdicts \cup {call[r].dec}
      BY <2>4 DEF AppendApproved
    <3> QED BY <1>3, <2>0, <2>4, <3>1, AppendApprovedGoes DEF Goes
  <2>5. CASE WriteQueue(r)
    BY <1>1, <1>3, <2>0, <2>5, WriteQueueGoes DEF Goes
  <2>6. CASE SaveRecord(r) \/ ReviewerFails(r)
    BY <1>1, <1>3, <2>0, <2>6, CallEnds DEF Goes
  <2> QED BY <2>1, <2>2, <2>3, <2>4, <2>5, <2>6 DEF ApplyReviewDecision
<1> QED BY <1>1, <1>4, <1>5, QueueGrows

LEMMA NightKeepsQueue ==
  ASSUME ReviewInv, Types', ReviewRunner \/ RunnerFails
  PROVE  ReviewInv'
<1> USE DEF store_vars, cycle_vars
<1>1. UNCHANGED <<call, verdicts, erased>>
  BY NightLeaves
<1>2. \A p : HasVerdict(p) <=> HasVerdict(p)'
  BY <1>1 DEF HasVerdict
<1>3. /\ Types /\ \A p \in deferred \ open : Kept(p)
      /\ night = [at |-> night.at, entries |-> night.entries, todo |-> night.todo,
                  list |-> night.list, snap |-> night.snap]
      /\ \A r \in Reviewers : call[r].at \in {"queue", "record"} => call[r].dec \in verdicts
      /\ night.at = "write" =>
            \A p \in deferred \ open : p \in night.snap \/ HasVerdict(p) \/ p \in erased
      /\ night.at = "report" => \A p \in open : Kept(p)
  BY DEF ReviewInv, NotDropped, Kept, Types
<1>4. CASE StartNight
  <2>1. /\ night'.at \in {"read", "remove"} /\ reviewQueue' = reviewQueue
        /\ deferred' \ open' \subseteq deferred \ open
    BY <1>4 DEF StartNight, NoNight
  <2> QED BY <1>1, <1>2, <1>3, <2>1 DEF ReviewInv, NotDropped, Kept
<1>5. CASE ReadRemoval \/ RemoveApproved
  <2>1. night'.at \in {"rewrite", "read", "remove"} /\ UNCHANGED <<reviewQueue, open, deferred>>
    <3>1. CASE ReadRemoval
      BY <1>3, <3>1 DEF ReadRemoval
    <3>2. CASE RemoveApproved
      BY <1>3, <3>2, RemovalStep
    <3> QED BY <1>5, <3>1, <3>2
  <2> QED BY <1>1, <1>2, <1>3, <2>1 DEF ReviewInv, NotDropped, Kept
<1>6. CASE ReadReviewQueue
  <2>1. /\ UNCHANGED <<reviewQueue, open, deferred>> /\ night'.snap = reviewQueue
        /\ night'.at = IF open = {} THEN "report" ELSE "write"
    BY <1>3, <1>6 DEF ReadReviewQueue
  <2> QED BY <1>1, <1>2, <1>3, <2>1 DEF ReviewInv, NotDropped, Kept
<1>7. CASE WriteMerged
  <2>1. /\ UNCHANGED <<open, deferred>> /\ reviewQueue' = night.snap \cup open
        /\ night.at = "write" /\ night'.at = "report"
    BY <1>3, <1>7 DEF WriteMerged
  <2> QED BY <1>1, <1>2, <1>3, <2>1 DEF ReviewInv, NotDropped, Kept
<1>8. CASE ReportPromotions
  <2>1. /\ UNCHANGED <<reviewQueue, deferred>> /\ open' = {} /\ night.at = "report"
        /\ night'.at = "idle"
    BY <1>8 DEF ReportPromotions, NoNight
  <2> QED BY <1>1, <1>2, <1>3, <2>1 DEF ReviewInv, NotDropped, Kept
<1>9. CASE RunnerFails
  <2>1. UNCHANGED <<reviewQueue, open, deferred>> /\ night'.at = "idle"
    BY <1>9 DEF RunnerFails, NoNight
  <2> QED BY <1>1, <1>2, <1>3, <2>1 DEF ReviewInv, NotDropped, Kept
<1> QED BY <1>4, <1>5, <1>6, <1>7, <1>8, <1>9 DEF ReviewRunner

LEMMA StepReview == ReviewInv /\ [ReviewNext]_review_vars => ReviewInv'
<1> SUFFICES ASSUME ReviewInv, [ReviewNext]_review_vars PROVE ReviewInv'
  OBVIOUS
<1>1. Types'
  BY StepTypes DEF ReviewInv
<1>2. CASE UNCHANGED review_vars
  BY <1>1, <1>2 DEF review_vars, store_vars, cycle_vars, counts, races, ReviewInv, NotDropped, Kept,
                    HasVerdict
<1> QED BY <1>1, <1>2, CallKeepsQueue, NightKeepsQueue DEF ReviewNext

\* Whatever calls of applyReviewDecision and nights interleave and fail
\* (human_review_writer.ts 208-268, 343-364; nightly_loop_runner.ts 1450-1485), a deferred
\* patch leaves the review queue only with its verdict on disk, unless a call wrote a
\* queue it had read before the patch was there.
THEOREM DeferredNotDropped == ReviewSpec => []NotDropped
<1>1. ReviewInv => NotDropped
  BY DEF ReviewInv
<1> QED BY <1>1, InitReview, StepReview, PTL DEF ReviewSpec

-----------------------------------------------------------------------------
(* The lists and the records.                                                *)

LEMMA InDecisions ==
  ASSUME NEW S, NEW dec
  PROVE  dec \in Decisions(S) <=> \E e \in S : e.dec = dec
BY DEF Decisions

\* The list the runner is going to cut is still there; the list a call is going to
\* extend has all that is there.
ListsInv ==
    /\ night.at = "rewrite" => night.list \subseteq approved
    /\ \A r \in Reviewers : call[r].at = "append" => approved \subseteq call[r].list

RecordInv ==
    /\ Types
    /\ ListsInv
    /\ Decisions(night.entries) \subseteq taken
    /\ \A r \in Reviewers : call[r].at \in {"queue", "record"} => Logged(call[r].dec)
    /\ RecordTrue

LEMMA RecordInitially == ReviewInit => RecordInv
BY InitTypes DEF ReviewInit, RecordInv, ListsInv, RecordTrue, NoNight, NoCall, Decisions

\* What is logged stays logged when the lists grow.
LEMMA LogGrows ==
  ASSUME RecordInv, Types', ListsInv', Decisions(night'.entries) \subseteq taken',
         rejected \subseteq rejected', \A dec : HandedOver(dec) => HandedOver(dec)',
         \A r \in Reviewers : \A d : call'[r].at \in {"queue", "record"} /\ d = call'[r].dec =>
            Logged(d)' \/ (call[r].at \in {"queue", "record"} /\ d = call[r].dec),
         \A dec \in records' : dec \in records \/ Logged(dec)
  PROVE  RecordInv'
<1>1. \A dec : Logged(dec) => Logged(dec)'
  BY DEF Logged
<1>2. RecordTrue'
  BY <1>1 DEF RecordInv, RecordTrue
<1>3. ASSUME NEW r \in Reviewers, call'[r].at \in {"queue", "record"}
      PROVE  Logged(call[r].dec)'
  <2>1. PICK d : d = call'[r].dec
    OBVIOUS
  <2>2. Logged(d)'
    BY <1>1, <1>3, <2>1 DEF RecordInv
  <2> QED BY <2>1, <2>2 DEF Logged, HandedOver
<1> QED BY <1>2, <1>3 DEF RecordInv

LEMMA CallKeepsRecords ==
  ASSUME RecordInv, Types', NEW r \in Reviewers,
         (\E dec \in Decision : Submit(r, dec)) \/ ApplyReviewDecision(r) \/ ReviewerFails(r)
  PROVE  RecordInv'
<1> USE DEF store_vars, cycle_vars, races, counts
<1>1. UNCHANGED <<night, taken, wiped>> /\ rejected \subseteq rejected'
  BY DEF Submit, ApplyReviewDecision, AppendRejection, ReadApproved, AppendApproved, WriteQueue,
         SaveRecord, ReviewerFails
<1>2. Types /\ ListsInv /\ call \in [Reviewers -> Call] /\ Decisions(night.entries) \subseteq taken
  BY DEF RecordInv, Types
<1>3. CASE AppendApproved(r)
  <2> DEFINE dec == call[r].dec
             entry == [patch |-> dec.patch, dec |-> dec, nth |-> approvals[dec.patch] + 1]
  <2>1. /\ approved' = call[r].list \cup {entry} /\ records' = records /\ call[r].at = "append"
        /\ \A s \in Reviewers \ {r} : call[s].at # "append"
    BY <1>3 DEF AppendApproved, Moves, Undisturbed
  <2>2. PICK c \in Call : Goes(r, c) /\ c.at = "queue" /\ c.dec = dec /\ dec \in Approval
    BY <1>2, <1>3, AppendApprovedGoes
  <2>3. approved \subseteq approved' /\ entry \in approved' /\ entry.dec = dec
    BY <1>2, <2>1 DEF ListsInv
  <2> HIDE DEF entry
  <2>4. \A d : HandedOver(d) => HandedOver(d)'
    BY <1>1, <2>3, InDecisions DEF HandedOver
  <2>5. ASSUME NEW d, d = dec
        PROVE  HandedOver(d)' /\ d.verdict = "APPROVE"
    BY <2>2, <2>3, <2>5, InDecisions DEF HandedOver, Approval
  <2>6. ListsInv'
    BY <1>1, <1>2, <2>1, <2>2, <2>3 DEF ListsInv, Goes
  <2>7. \A s \in Reviewers : s # r => call'[s] = call[s]
    BY <2>2 DEF Goes
  <2>8. call'[r] = c
    BY <1>2, <2>2 DEF Goes
  <2>9. \A s \in Reviewers : \A d : call'[s].at \in {"queue", "record"} /\ d = call'[s].dec =>
            Logged(d)' \/ (call[s].at \in {"queue", "record"} /\ d = call[s].dec)
    BY <2>2, <2>5, <2>7, <2>8 DEF Logged
  <2> QED BY <1>1, <1>2, <2>1, <2>4, <2>6, <2>9, LogGrows
<1>4. CASE ~ AppendApproved(r)
  <2>1. approved' = approved
    BY <1>4 DEF Submit, ApplyReviewDecision, AppendRejection, ReadApproved, WriteQueue, SaveRecord,
                ReviewerFails
  <2>2. \A d : HandedOver(d) <=> HandedOver(d)'
    BY <1>1, <2>1 DEF HandedOver
  <2>3. ASSUME NEW c \in Call, Goes(r, c), c.at = "append" => c.list = approved
        PROVE  ListsInv'
    BY <1>1, <1>2, <2>1, <2>3 DEF ListsInv, Goes
  <2>4. ASSUME NEW c \in Call, Goes(r, c),
               \A d : c.at \in {"queue", "record"} /\ d = c.dec =>
                  Logged(d)' \/ (call[r].at \in {"queue", "record"} /\ d = call[r].dec)
        PROVE  \A s \in Reviewers : \A d : call'[s].at \in {"queue", "record"} /\ d = call'[s].dec =>
                  Logged(d)' \/ (call[s].at \in {"queue", "record"} /\ d = call[s].dec)
    <3>1. call'[r] = c /\ \A s \in Reviewers : s # r => call'[s] = call[s]
      BY <1>2, <2>4 DEF Goes
    <3> QED BY <2>4, <3>1
  <2>5. CASE \E dec \in Decision : Submit(r, dec)
    <3>1. records' = records
      BY <2>5 DEF Submit
    <3>2. PICK c \in Call : Goes(r, c) /\ c.at = "verdict"
      BY <1>2, <2>5, SubmitGoes
    <3> QED BY <1>1, <1>2, <2>2, <2>3, <2>4, <3>1, <3>2, LogGrows
  <2>6. CASE AppendRejection(r)
    <3>1. records' = records /\ rejected' = rejected \cup {call[r].dec} /\ call[r].dec.verdict = "REJECT"
      BY <2>6 DEF AppendRejection
    <3>2. PICK c \in Call : Goes(r, c) /\ c.at = "queue" /\ c.dec = call[r].dec
      BY <1>2, <2>6, AppendRejectionGoes
    <3>3. Logged(c.dec)'
      BY <3>1, <3>2 DEF Logged
    <3> QED BY <1>1, <1>2, <2>2, <2>3, <2>4, <3>1, <3>2, <3>3, LogGrows
  <2>7. CASE ReadApproved(r)
    <3>1. records' = records
      BY <2>7 DEF ReadApproved
    <3>2. PICK c \in Call : Goes(r, c) /\ c.at = "append" /\ c.list = approved
      BY <1>2, <2>7, ReadApprovedGoes
    <3> QED BY <1>1, <1>2, <2>2, <2>3, <2>4, <3>1, <3>2, LogGrows
  <2>8. CASE WriteQueue(r)
    <3>1. records' = records
      BY <2>8 DEF WriteQueue
    <3>2. PICK c \in Call : Goes(r, c) /\ c.at = "record" /\ c.dec = call[r].dec
      BY <1>2, <2>8, WriteQueueGoes
    <3>3. call[r].at = "queue"
      BY <1>2, <2>8, WriteQueueGoes
    <3> QED BY <1>1, <1>2, <2>2, <2>3, <2>4, <3>1, <3>2, <3>3, LogGrows
  <2>9. CASE SaveRecord(r) \/ ReviewerFails(r)
    <3>1. Goes(r, NoCall) /\ NoCall \in Call /\ NoCall.at = "idle"
      BY <1>2, <2>9, CallEnds
    <3>2. \A dec \in records' : dec \in records \/ Logged(dec)
      BY <2>9 DEF SaveRecord, Moves, ReviewerFails, RecordInv
    <3> QED BY <1>1, <1>2, <2>2, <2>3, <2>4, <3>1, <3>2, LogGrows
  <2> QED BY <1>4, <2>5, <2>6, <2>7, <2>8, <2>9 DEF ApplyReviewDecision
<1> QED BY <1>3, <1>4

LEMMA NightKeepsRecords ==
  ASSUME RecordInv, Types', ReviewRunner \/ RunnerFails
  PROVE  RecordInv'
<1> USE DEF store_vars, cycle_vars, races, counts
<1>1. UNCHANGED <<call, rejected, records>>
  BY NightLeaves
<1>2. Types /\ ListsInv /\ Decisions(night.entries) \subseteq taken
  BY DEF RecordInv
<1>3. ASSUME ListsInv', Decisions(night'.entries) \subseteq taken',
             \A dec : HandedOver(dec) => HandedOver(dec)'
      PROVE  RecordInv'
  BY <1>1, <1>3, LogGrows
<1>4. CASE RemoveApproved
  <2>1. PICK p \in night.todo :
          /\ approved' = Without(p, night.list)
          /\ wiped' = wiped \cup Decisions(approved \ night.list)
                            \cup Decisions(Of(approved, p) \ night.entries)
          /\ night.at = "rewrite" /\ night'.at \in {"read", "remove"}
          /\ night' = [at |-> night'.at, entries |-> night.entries, todo |-> night.todo \ {p},
                       list |-> {}, snap |-> night.snap]
          /\ taken' = taken
    BY <1>2, <1>4, RemovalStep
  <2>2. night'.entries = night.entries
    BY <2>1
  <2>3. approved' \subseteq approved
    BY <1>2, <2>1 DEF ListsInv, Without
  <2>4. ASSUME NEW dec, HandedOver(dec)
        PROVE  HandedOver(dec)'
    <3>1. CASE dec \in taken \cup wiped
      BY <2>1, <3>1 DEF HandedOver
    <3>2. CASE dec \in Decisions(approved)
      <4>1. PICK e \in approved : e.dec = dec
        BY <3>2, InDecisions
      <4>2. CASE e \notin night.list
        BY <2>1, <4>1, <4>2, InDecisions DEF HandedOver
      <4>3. CASE e \in night.list /\ e.patch # p
        <5>1. e \in approved'
          BY <2>1, <4>3 DEF Without
        <5> QED BY <4>1, <5>1, InDecisions DEF HandedOver
      <4>4. CASE e.patch = p
        <5>1. e \in Of(approved, p)
          BY <4>4 DEF Of
        <5> QED BY <1>2, <2>1, <4>1, <5>1, InDecisions DEF HandedOver
      <4> QED BY <4>2, <4>3, <4>4
    <3> QED BY <2>4, <3>1, <3>2 DEF HandedOver
  <2>5. ListsInv'
    BY <1>1, <1>2, <2>1, <2>3 DEF ListsInv
  <2> QED BY <1>2, <1>3, <2>1, <2>2, <2>4, <2>5
<1>5. CASE StartNight
  <2>1. /\ UNCHANGED <<approved, wiped>> /\ taken' = taken \cup Decisions(approved)
        /\ night'.entries = approved /\ night'.at \in {"read", "remove"}
    BY <1>5 DEF StartNight, NoNight
  <2> QED BY <1>1, <1>2, <1>3, <2>1 DEF ListsInv, HandedOver
<1>6. CASE ReadRemoval
  <2>1. /\ UNCHANGED <<approved, wiped, taken>> /\ night'.entries = night.entries
        /\ night'.list = approved
    BY <1>2, <1>6 DEF ReadRemoval, Types
  <2> QED BY <1>1, <1>2, <1>3, <2>1 DEF ListsInv, HandedOver
<1>7. CASE ReadReviewQueue \/ WriteMerged
  <2>1. /\ UNCHANGED <<approved, wiped, taken>> /\ night'.entries = night.entries
        /\ night'.at \in {"report", "write"}
    BY <1>2, <1>7 DEF ReadReviewQueue, WriteMerged, Types
  <2> QED BY <1>1, <1>2, <1>3, <2>1 DEF ListsInv, HandedOver
<1>8. CASE ReportPromotions \/ RunnerFails
  <2>1. /\ UNCHANGED <<approved, wiped, taken>> /\ night'.entries = {} /\ night'.at = "idle"
    BY <1>8 DEF ReportPromotions, RunnerFails, NoNight
  <2> QED BY <1>1, <1>2, <1>3, <2>1 DEF ListsInv, HandedOver, Decisions
<1> QED BY <1>4, <1>5, <1>6, <1>7, <1>8 DEF ReviewRunner

LEMMA StepRecord == RecordInv /\ [ReviewNext]_review_vars => RecordInv'
<1> SUFFICES ASSUME RecordInv, [ReviewNext]_review_vars PROVE RecordInv'
  OBVIOUS
<1>1. Types'
  BY StepTypes DEF RecordInv
<1>2. CASE UNCHANGED review_vars
  BY <1>1, <1>2 DEF review_vars, store_vars, cycle_vars, counts, races, RecordInv, ListsInv,
                    RecordTrue, Logged, HandedOver
<1> QED BY <1>1, <1>2, CallKeepsRecords, NightKeepsRecords DEF ReviewNext

\* A decision record is true of the lists, however calls, nights and failures interleave
\* (human_review_writer.ts 232-268, 414-430): its verdict was appended before, and an
\* approval leaves the list only into the hands of a night, or as an entry the runner
\* had not read.
THEOREM RecordsTellTheTruth == ReviewSpec => []RecordTrue
<1>1. RecordInv => RecordTrue
  BY DEF RecordInv
<1> QED BY <1>1, RecordInitially, StepRecord, PTL DEF ReviewSpec

-----------------------------------------------------------------------------
(* Approvals.                                                                *)

\* Where a night has not removed a patch yet, its entries are still there to be read
\* again; where it has, they are its own to report.
Promised(p) ==
    IF night.at # "idle" /\ p \notin night.todo
    THEN promotions[p] + Cardinality(Of(night.entries, p)) + Cardinality(Of(approved, p))
    ELSE promotions[p] + Cardinality(Of(approved, p))

\* What could be promoted of a patch.
Due(p) == approvals[p] + revived[p]

FiniteLists ==
    /\ IsFiniteSet(approved) /\ IsFiniteSet(night.entries) /\ IsFiniteSet(night.list)
    /\ \A r \in Reviewers : call[r].at = "append" => IsFiniteSet(call[r].list)

Counters == {promotions, approvals, revived} \subseteq [Patch -> Nat]

\* While a patch is to be removed, all the night read of it is still in the list, and in
\* the copy of it that will be written.
TodoInv ==
    /\ night.at \in {"read", "write", "report"} => night.todo = {}
    /\ night.at # "idle" => \A p \in night.todo : Of(night.entries, p) \subseteq approved
    /\ night.at = "rewrite" => \A p \in night.todo : Of(night.entries, p) \subseteq night.list

ApprovalInv ==
    /\ RecordInv
    /\ FiniteLists
    /\ Counters
    /\ TodoInv
    /\ \A p \in Patch : Promised(p) <= Due(p)

LEMMA OfFinite ==
  ASSUME NEW S, IsFiniteSet(S), NEW p
  PROVE  IsFiniteSet(Of(S, p)) /\ Cardinality(Of(S, p)) \in Nat
<1>1. Of(S, p) \in SUBSET S
  BY DEF Of
<1> QED BY <1>1, FS_Subset, FS_CardinalityType

LEMMA OfSubset ==
  ASSUME NEW S, IsFiniteSet(S), NEW U \in SUBSET S, NEW p
  PROVE  Cardinality(Of(U, p)) <= Cardinality(Of(S, p))
<1>1. Of(U, p) \in SUBSET Of(S, p)
  BY DEF Of
<1> QED BY <1>1, OfFinite, FS_Subset

\* A list that an entry is appended to has, of each patch, what the other list has, what
\* that one lacks, and perhaps the entry.
LEMMA OfAppended ==
  ASSUME NEW L, IsFiniteSet(L), NEW A, IsFiniteSet(A), NEW entry, NEW p
  PROVE  LET lost == Cardinality(Of(L \ A, p))
             n == Cardinality(Of(L \cup {entry}, p))
         IN /\ n \in Nat /\ lost \in Nat
            /\ n <= Cardinality(Of(A, p)) + lost + (IF entry.patch = p THEN 1 ELSE 0)
<1> DEFINE S == Of(L, p)
           U == Of(A, p)
<1>1. IsFiniteSet(S) /\ IsFiniteSet(U) /\ Cardinality(S) \in Nat /\ Cardinality(U) \in Nat
  BY OfFinite
<1>2. Of(L \ A, p) = S \ U
  BY DEF Of
<1>3. /\ IsFiniteSet(S \ U) /\ IsFiniteSet(S \cap U)
      /\ Cardinality(S \ U) = Cardinality(S) - Cardinality(S \cap U)
      /\ Cardinality(S \cap U) \in Nat /\ Cardinality(S \ U) \in Nat
      /\ Cardinality(S \cap U) <= Cardinality(U)
  <2>1. S \cap U \in SUBSET U /\ S \cap U \in SUBSET S /\ S \ U \in SUBSET S
    OBVIOUS
  <2>2. IsFiniteSet(S \cap U) /\ Cardinality(S \cap U) <= Cardinality(U) /\ IsFiniteSet(S \ U)
    BY <1>1, <2>1, FS_Subset
  <2>3. Cardinality(S \ U) = Cardinality(S) - Cardinality(S \cap U)
    BY <1>1, FS_Difference
  <2> HIDE DEF S, U
  <2> QED BY <2>2, <2>3, FS_CardinalityType
<1>4. Cardinality(S) <= Cardinality(U) + Cardinality(Of(L \ A, p)) /\ Cardinality(Of(L \ A, p)) \in Nat
  <2>1. Cardinality(Of(L \ A, p)) = Cardinality(S \ U)
    BY <1>2
  <2> QED BY <1>1, <1>3, <2>1
<1>5. CASE entry.patch = p
  <2>1. Of(L \cup {entry}, p) = S \cup {entry}
    BY <1>5 DEF Of
  <2>2. Cardinality(S \cup {entry}) \in {Cardinality(S), Cardinality(S) + 1}
    <3> HIDE DEF S
    <3> QED BY <1>1, FS_AddElement
  <2>3. Cardinality(Of(L \cup {entry}, p)) \in {Cardinality(S), Cardinality(S) + 1}
    BY <2>1, <2>2
  <2> QED BY <1>1, <1>4, <1>5, <2>3
<1>6. CASE entry.patch # p
  <2>1. Of(L \cup {entry}, p) = S
    BY <1>6 DEF Of
  <2>2. Cardinality(Of(L \cup {entry}, p)) = Cardinality(S)
    BY <2>1
  <2> QED BY <1>1, <1>4, <1>6, <2>2
<1> QED BY <1>5, <1>6

LEMMA ApprovalsInitially == ReviewInit => ApprovalInv
<1> SUFFICES ASSUME ReviewInit PROVE ApprovalInv
  OBVIOUS
<1>1. \A p : Of({}, p) = {}
  BY DEF Of
<1>2. \A p \in Patch : Promised(p) = 0 /\ Due(p) = 0
  BY <1>1, FS_EmptySet DEF ReviewInit, Promised, Due, NoNight
<1>3. FiniteLists
  BY FS_EmptySet DEF ReviewInit, FiniteLists, NoNight, NoCall
<1> QED BY <1>1, <1>2, <1>3, RecordInitially DEF ReviewInit, ApprovalInv, Counters, TodoInv, NoNight

\* What is promised of a patch is never less than what was reported.
LEMMA ReportedWithin ==
  ASSUME ApprovalInv, NEW p \in Patch
  PROVE  /\ promotions[p] \in Nat /\ approvals[p] \in Nat /\ revived[p] \in Nat
         /\ Cardinality(Of(approved, p)) \in Nat /\ Cardinality(Of(night.entries, p)) \in Nat
         /\ Promised(p) \in Nat /\ Due(p) \in Nat
         /\ promotions[p] + Cardinality(Of(approved, p)) <= Promised(p)
         /\ promotions[p] + Cardinality(Of(approved, p)) <= Due(p)
<1>1. /\ promotions[p] \in Nat /\ approvals[p] \in Nat /\ revived[p] \in Nat
      /\ Cardinality(Of(approved, p)) \in Nat /\ Cardinality(Of(night.entries, p)) \in Nat
  BY OfFinite DEF ApprovalInv, FiniteLists, Counters
<1>2. promotions[p] + Cardinality(Of(approved, p)) <= Promised(p) /\ Promised(p) <= Due(p)
  BY <1>1 DEF ApprovalInv, Promised
<1>3. Promised(p) \in Nat /\ Due(p) \in Nat
  BY <1>1 DEF Promised, Due
<1> QED BY <1>1, <1>2, <1>3

\* A step that leaves the list alone, and the night, unless it ends it unreported.
LEMMA NothingPromised ==
  ASSUME ApprovalInv, RecordInv', UNCHANGED <<approved, promotions, approvals, revived>>,
         night' = night \/ night' = NoNight, FiniteLists'
  PROVE  ApprovalInv'
<1>1. CASE night' = night
  BY <1>1 DEF ApprovalInv, Promised, Due, Counters, TodoInv
<1>2. CASE night' = NoNight
  <2>1. \A p \in Patch : Promised(p)' = promotions[p] + Cardinality(Of(approved, p))
    BY <1>2 DEF Promised, NoNight
  <2>2. \A p \in Patch : Promised(p)' <= Due(p)'
    BY <2>1, ReportedWithin DEF Due
  <2> QED BY <1>2, <2>2 DEF ApprovalInv, Counters, TodoInv, NoNight
<1> QED BY <1>1, <1>2

LEMMA CallKeepsApprovals ==
  ASSUME ApprovalInv, RecordInv', NEW r \in Reviewers,
         \/ \E dec \in Decision : Submit(r, dec)
         \/ AppendRejection(r) \/ ReadApproved(r) \/ WriteQueue(r) \/ SaveRecord(r) \/ ReviewerFails(r)
  PROVE  ApprovalInv'
<1> USE DEF store_vars, cycle_vars, races, counts
<1>1. UNCHANGED <<approved, promotions, approvals, revived, night>>
  BY DEF Submit, AppendRejection, ReadApproved, WriteQueue, SaveRecord, ReviewerFails
<1>2. Types /\ FiniteLists /\ call \in [Reviewers -> Call]
  BY DEF ApprovalInv, RecordInv, Types
<1>3. \E c \in Call : Goes(r, c) /\ (c.at = "append" => c.list = approved)
  <2>1. CASE \E dec \in Decision : Submit(r, dec)
    BY <1>2, <2>1, SubmitGoes
  <2>2. CASE AppendRejection(r)
    BY <1>2, <2>2, AppendRejectionGoes
  <2>3. CASE ReadApproved(r)
    BY <1>2, <2>3, ReadApprovedGoes
  <2>4. CASE WriteQueue(r)
    BY <1>2, <2>4, WriteQueueGoes
  <2>5. CASE SaveRecord(r) \/ ReviewerFails(r)
    BY <1>2, <2>5, CallEnds
  <2> QED BY <2>1, <2>2, <2>3, <2>4, <2>5
<1>4. FiniteLists'
  BY <1>1, <1>2, <1>3 DEF FiniteLists, Goes
<1> QED BY <1>1, <1>4, NothingPromised

LEMMA AppendKeepsApprovals ==
  ASSUME ApprovalInv, RecordInv', NEW r \in Reviewers, AppendApproved(r)
  PROVE  ApprovalInv'
<1> DEFINE dec == call[r].dec
           L == call[r].list
           entry == [patch |-> dec.patch, dec |-> dec, nth |-> approvals[dec.patch] + 1]
<1>1. /\ approved' = L \cup {entry} /\ approvals' = [approvals EXCEPT ![dec.patch] = @ + 1]
      /\ revived' = [p \in Patch |-> revived[p] + Cardinality(Of(L \ approved, p))]
      /\ UNCHANGED <<night, promotions>>
  BY DEF AppendApproved, cycle_vars
<1>2. Types /\ FiniteLists /\ call \in [Reviewers -> Call] /\ Counters /\ TodoInv /\ ListsInv
  BY DEF ApprovalInv, RecordInv, Types
<1>3. /\ call[r].at = "append" /\ dec.patch \in Patch
      /\ \E c \in Call : Goes(r, c) /\ c.at = "queue"
  BY <1>2, AppendApprovedGoes
<1>4. IsFiniteSet(L) /\ IsFiniteSet(approved) /\ approved \subseteq L
  BY <1>2, <1>3 DEF FiniteLists, ListsInv
<1>5. entry.patch = dec.patch
  OBVIOUS
<1> HIDE DEF entry, L
<1>6. IsFiniteSet(approved')
  BY <1>1, <1>4, FS_AddElement
<1>7. FiniteLists'
  BY <1>1, <1>2, <1>3, <1>6 DEF FiniteLists, Goes
<1>8. ASSUME NEW p \in Patch
      PROVE  revived'[p] \in Nat /\ approvals'[p] \in Nat /\ Promised(p)' <= Due(p)'
  <2> DEFINE lost == Cardinality(Of(L \ approved, p))
             n == Cardinality(Of(approved', p))
             one == IF entry.patch = p THEN 1 ELSE 0
  <2>1. n \in Nat /\ lost \in Nat /\ n <= Cardinality(Of(approved, p)) + lost + one
    BY <1>1, <1>4, OfAppended
  <2>2. approvals'[p] = approvals[p] + one /\ revived'[p] = revived[p] + lost
    BY <1>1, <1>2, <1>3, <1>5 DEF Counters
  <2>3. /\ promotions[p] \in Nat /\ approvals[p] \in Nat /\ revived[p] \in Nat
        /\ Cardinality(Of(approved, p)) \in Nat /\ Cardinality(Of(night.entries, p)) \in Nat
        /\ Promised(p) <= Due(p)
    BY ReportedWithin DEF ApprovalInv
  <2>4. one \in {0, 1}
    OBVIOUS
  <2> HIDE DEF one, lost
  <2>5. Due(p)' = Due(p) + lost + one
    BY <2>1, <2>2, <2>3, <2>4 DEF Due
  <2>6. CASE night.at # "idle" /\ p \notin night.todo
    <3>1. /\ Promised(p)' = promotions[p] + Cardinality(Of(night.entries, p)) + n
          /\ Promised(p) = promotions[p] + Cardinality(Of(night.entries, p)) + Cardinality(Of(approved, p))
      BY <1>1, <2>6 DEF Promised
    <3> HIDE DEF n
    <3> QED BY <2>1, <2>2, <2>3, <2>4, <2>5, <3>1 DEF Due
  <2>7. CASE ~ (night.at # "idle" /\ p \notin night.todo)
    <3>1. /\ Promised(p)' = promotions[p] + n
          /\ Promised(p) = promotions[p] + Cardinality(Of(approved, p))
      BY <1>1, <2>7 DEF Promised
    <3> HIDE DEF n
    <3> QED BY <2>1, <2>2, <2>3, <2>4, <2>5, <3>1 DEF Due
  <2> QED BY <2>6, <2>7
<1>9. Counters'
  <2>1. revived' \in [Patch -> Nat]
    BY <1>1, <1>8
  <2>2. approvals' \in [Patch -> Nat]
    BY <1>1, <1>2, <1>3, <1>8 DEF Counters
  <2> QED BY <1>1, <1>2, <2>1, <2>2 DEF Counters
<1>10. TodoInv'
  BY <1>1, <1>2, <1>4 DEF TodoInv
<1> QED BY <1>7, <1>8, <1>9, <1>10 DEF ApprovalInv

LEMMA NightKeepsApprovals ==
  ASSUME ApprovalInv, RecordInv', ReviewRunner \/ RunnerFails
  PROVE  ApprovalInv'
<1> USE DEF store_vars, cycle_vars
<1>1. UNCHANGED <<call, approvals, revived>>
  BY NightLeaves
<1>2. /\ Types /\ FiniteLists /\ Counters /\ TodoInv /\ ListsInv
      /\ night = [at |-> night.at, entries |-> night.entries, todo |-> night.todo,
                  list |-> night.list, snap |-> night.snap]
  BY DEF ApprovalInv, RecordInv, Types
<1>3. ASSUME FiniteLists', Counters', TodoInv', \A p \in Patch : Promised(p)' <= Due(p)
      PROVE  ApprovalInv'
  BY <1>1, <1>3 DEF ApprovalInv, Due
<1>4. CASE StartNight
  <2>1. /\ night'.entries = approved /\ night'.todo = Patches(approved) /\ night'.list = {}
        /\ UNCHANGED <<approved, promotions>>
        /\ night'.at = IF approved = {} THEN "read" ELSE "remove"
    BY <1>4 DEF StartNight, NoNight
  <2>2. ASSUME NEW p \in Patch
        PROVE  Promised(p)' <= Due(p)
    <3>1. p \notin night'.todo => Of(approved, p) = {}
      BY <2>1 DEF Patches, Of
    <3>2. p \notin night'.todo => Promised(p)' = promotions[p] + 0 + Cardinality(Of(approved, p))
      BY <2>1, <3>1, FS_EmptySet DEF Promised
    <3>3. p \in night'.todo => Promised(p)' = promotions[p] + Cardinality(Of(approved, p))
      BY <2>1 DEF Promised
    <3> QED BY <3>2, <3>3, ReportedWithin
  <2>3. TodoInv'
    BY <2>1 DEF TodoInv, Patches, Of
  <2>4. FiniteLists'
    BY <1>1, <1>2, <2>1, FS_EmptySet DEF FiniteLists
  <2> QED BY <1>1, <1>2, <1>3, <2>1, <2>2, <2>3, <2>4 DEF Counters
<1>5. CASE RemoveApproved
  <2>1. PICK q \in night.todo :
          /\ approved' = Without(q, night.list)
          /\ night.at = "rewrite" /\ night'.at \in {"read", "remove"}
          /\ night'.at = "read" => night.todo = {q}
          /\ night' = [at |-> night'.at, entries |-> night.entries, todo |-> night.todo \ {q},
                       list |-> {}, snap |-> night.snap]
          /\ promotions' = promotions
    BY <1>2, <1>5, RemovalStep
  <2>2. /\ night'.entries = night.entries /\ night'.todo = night.todo \ {q} /\ night'.list = {}
        /\ night'.at # "idle"
    BY <2>1
  <2>3. approved' \in SUBSET approved /\ IsFiniteSet(approved')
    <3>1. approved' \in SUBSET approved
      BY <1>2, <2>1 DEF ListsInv, Without
    <3> QED BY <1>2, <3>1, FS_Subset DEF FiniteLists
  <2>4. ASSUME NEW p \in Patch
        PROVE  Promised(p)' <= Due(p)
    <3>1. CASE p = q
      <4>1. Of(approved', p) = {}
        BY <2>1, <3>1 DEF Of, Without
      <4>2. Promised(p)' = promotions[p] + Cardinality(Of(night.entries, p)) + 0
        BY <2>1, <2>2, <3>1, <4>1, FS_EmptySet DEF Promised
      <4>3. Of(night.entries, p) \in SUBSET Of(approved, p)
        BY <1>2, <2>1, <3>1 DEF TodoInv, Of
      <4>4. Cardinality(Of(night.entries, p)) <= Cardinality(Of(approved, p))
        BY <1>2, <4>3, OfFinite, FS_Subset DEF FiniteLists
      <4> QED BY <4>2, <4>4, ReportedWithin
    <3>2. CASE p # q
      <4>1. Cardinality(Of(approved', p)) <= Cardinality(Of(approved, p)) /\ Cardinality(Of(approved', p)) \in Nat
        BY <1>2, <2>3, OfSubset, OfFinite DEF FiniteLists
      <4>2. p \in night'.todo <=> p \in night.todo
        BY <2>2, <3>2
      <4>3. Promised(p)' <= Promised(p)
        BY <2>1, <2>2, <4>1, <4>2, ReportedWithin DEF Promised
      <4>4. Promised(p)' \in Nat
        BY <2>1, <2>2, <4>1, ReportedWithin DEF Promised
      <4> QED BY <4>3, <4>4, ReportedWithin DEF ApprovalInv
    <3> QED BY <3>1, <3>2
  <2>5. TodoInv'
    <3>1. \A p \in night'.todo : Of(night'.entries, p) \subseteq approved'
      BY <1>2, <2>1, <2>2 DEF TodoInv, Of, Without
    <3> QED BY <2>1, <2>2, <3>1 DEF TodoInv
  <2>6. FiniteLists'
    BY <1>1, <1>2, <2>2, <2>3, FS_EmptySet DEF FiniteLists
  <2> QED BY <1>1, <1>2, <1>3, <2>1, <2>4, <2>5, <2>6 DEF Counters
<1>6. CASE ReadRemoval \/ ReadReviewQueue \/ WriteMerged
  <2>1. /\ UNCHANGED <<approved, promotions>> /\ night.at # "idle" /\ night'.at # "idle"
        /\ night'.entries = night.entries /\ night'.todo = night.todo
        /\ night'.list \in {night.list, approved}
        /\ night'.at \in {"read", "write", "report"} => night.at \in {"read", "write", "report"}
        /\ night'.at = "rewrite" => night'.list = approved
    BY <1>2, <1>6 DEF ReadRemoval, ReadReviewQueue, WriteMerged
  <2>2. \A p \in Patch : Promised(p)' = Promised(p)
    BY <2>1 DEF Promised
  <2>3. \A p \in Patch : Promised(p)' <= Due(p)
    BY <2>2 DEF ApprovalInv
  <2>4. FiniteLists'
    BY <1>1, <1>2, <2>1 DEF FiniteLists
  <2>5. TodoInv'
    BY <1>2, <2>1 DEF TodoInv
  <2> QED BY <1>1, <1>2, <1>3, <2>1, <2>3, <2>4, <2>5 DEF Counters
<1>7. CASE ReportPromotions
  <2>1. /\ UNCHANGED approved /\ night.at = "report" /\ night.todo = {} /\ night' = NoNight
        /\ promotions' = [p \in Patch |-> promotions[p] + Cardinality(Of(night.entries, p))]
    BY <1>2, <1>7 DEF ReportPromotions, TodoInv
  <2>2. promotions' \in [Patch -> Nat]
    BY <2>1, ReportedWithin
  <2>3. \A p \in Patch : Promised(p)' = Promised(p)
    BY <2>1 DEF Promised, NoNight
  <2>4. \A p \in Patch : Promised(p)' <= Due(p)
    BY <2>3 DEF ApprovalInv
  <2>5. FiniteLists'
    BY <1>1, <1>2, <2>1, FS_EmptySet DEF FiniteLists, NoNight
  <2> QED BY <1>1, <1>2, <1>3, <2>1, <2>2, <2>4, <2>5 DEF TodoInv, NoNight, Counters
<1>8. CASE RunnerFails
  <2>1. UNCHANGED <<approved, promotions>> /\ night' = NoNight
    BY <1>8 DEF RunnerFails
  <2>2. FiniteLists'
    BY <1>1, <1>2, <2>1, FS_EmptySet DEF FiniteLists, NoNight
  <2> QED BY <1>1, <2>1, <2>2, NothingPromised
<1> QED BY <1>4, <1>5, <1>6, <1>7, <1>8 DEF ReviewRunner

LEMMA StepKeepsApprovals == ApprovalInv /\ [ReviewNext]_review_vars => ApprovalInv'
<1> SUFFICES ASSUME ApprovalInv, [ReviewNext]_review_vars PROVE ApprovalInv'
  OBVIOUS
<1>1. RecordInv'
  BY StepRecord DEF ApprovalInv
<1>2. CASE UNCHANGED review_vars
  <2>1. UNCHANGED <<call, night, approved, promotions, approvals, revived>>
    BY <1>2 DEF review_vars, store_vars, cycle_vars, counts, races
  <2>2. FiniteLists'
    BY <2>1 DEF ApprovalInv, FiniteLists
  <2> QED BY <1>1, <2>1, <2>2, NothingPromised
<1> QED BY <1>1, <1>2, CallKeepsApprovals, AppendKeepsApprovals, NightKeepsApprovals
        DEF ReviewNext, ApplyReviewDecision

\* A report promotes a patch at most once per approval and per entry that an append wrote
\* back, also when a runner that failed has the same entries read again, and when decisions
\* are written between its reads and writes (human_review_writer.ts 414-430,
\* nightly_loop_runner.ts 1384-1417).
THEOREM PromotionsWithinApprovals == ReviewSpec => []PromotedByApproval
<1>1. ApprovalInv => PromotedByApproval
  <2> SUFFICES ASSUME ApprovalInv, NEW p \in Patch PROVE promotions[p] <= approvals[p] + revived[p]
    BY DEF PromotedByApproval
  <2> QED BY ReportedWithin DEF Due
<1> QED BY <1>1, ApprovalsInitially, StepKeepsApprovals, PTL DEF ReviewSpec

=============================================================================
