------------------------ MODULE OpenClawQueue_proofs ------------------------
(***************************************************************************)
(* Theorems about OpenClawQueue, for every set of requests, every number   *)
(* of cycles and crashes, and whatever appends and renames fail.           *)
(***************************************************************************)
EXTENDS OpenClawQueue, SequenceTheorems, TLAPS

-----------------------------------------------------------------------------
(* Lines of a file                                                           *)

Entries(s) == {s[i] : i \in DOMAIN s}

LEMMA EntriesOfEmpty == Entries(<<>>) = {}
BY DEF Entries

LEMMA EntriesOfAppend ==
  ASSUME NEW S, NEW s \in Seq(S), NEW e \in S
  PROVE  /\ Append(s, e) \in Seq(S) /\ Append(s, e) # s
         /\ Entries(Append(s, e)) = Entries(s) \cup {e}
<1>1. /\ Append(s, e) \in Seq(S) /\ Len(Append(s, e)) = Len(s) + 1 /\ Len(s) \in Nat
      /\ DOMAIN s = 1 .. Len(s) /\ DOMAIN Append(s, e) = 1 .. Len(s) + 1
      /\ \A i \in 1 .. Len(s) : Append(s, e)[i] = s[i]
      /\ Append(s, e)[Len(s) + 1] = e
  OBVIOUS
<1>2. Entries(Append(s, e)) \subseteq Entries(s) \cup {e}
  BY <1>1 DEF Entries
<1>3. e \in Entries(Append(s, e)) /\ Entries(s) \subseteq Entries(Append(s, e))
  BY <1>1 DEF Entries
<1>4. Append(s, e) # s
  <2>1. Len(Append(s, e)) # Len(s)
    BY AppendProperties, LenProperties
  <2> QED BY <2>1, Zenon
<1>5. Entries(Append(s, e)) = Entries(s) \cup {e}
  BY <1>2, <1>3, Zenon
<1> QED BY <1>1, <1>4, <1>5

LEMMA EntriesOfTail ==
  ASSUME NEW S, NEW s \in Seq(S), s # <<>>
  PROVE  /\ Tail(s) \in Seq(S) /\ Head(s) \in S /\ Len(s) \in Nat \ {0}
         /\ Len(s) > 1 <=> Tail(s) # <<>>
         /\ Entries(s) = {Head(s)} \cup Entries(Tail(s))
<1>1. /\ Tail(s) \in Seq(S) /\ Head(s) = s[1] /\ Len(s) \in Nat \ {0} /\ Head(s) \in S
      /\ DOMAIN s = 1 .. Len(s) /\ DOMAIN Tail(s) = 1 .. Len(s) - 1
      /\ \A i \in 1 .. Len(s) - 1 : Tail(s)[i] = s[i + 1]
  OBVIOUS
<1>2. Len(s) > 1 <=> Tail(s) # <<>>
  <2>1. Len(Tail(s)) = Len(s) - 1 /\ Len(<<>>) = 0 /\ Len(s) \in Nat
    BY HeadTailProperties, EmptySeq, LenProperties
  <2>2. Tail(s) # <<>> => Len(Tail(s)) \in Nat \ {0}
    BY EmptySeq, HeadTailProperties
  <2>3. CASE Tail(s) = <<>>
    <3>1. Len(s) - 1 = 0 /\ Len(s) \in Nat
      BY <2>1, <2>3, Zenon
    <3>2. \A n \in Nat : n - 1 = 0 => ~(n > 1)
      OBVIOUS
    <3> QED BY <2>3, <3>1, <3>2, Zenon
  <2>4. CASE Tail(s) # <<>>
    BY <2>1, <2>2, <2>4
  <2> QED BY <2>3, <2>4
<1>3. Entries(Tail(s)) \subseteq Entries(s) /\ Head(s) \in Entries(s)
  BY <1>1 DEF Entries
<1>4. ASSUME NEW i \in DOMAIN s, s[i] # Head(s)
      PROVE  s[i] \in Entries(Tail(s))
  <2>1. i - 1 \in 1 .. Len(s) - 1 /\ Tail(s)[i - 1] = s[i]
    BY <1>1, <1>4
  <2> QED BY <1>1, <2>1 DEF Entries
<1> QED BY <1>1, <1>2, <1>3, <1>4 DEF Entries

-----------------------------------------------------------------------------
(* Types                                                                     *)

\* A cycle has begun when the runner works or a state other than OBSERVING is saved.
CycleBegun == pc # "idle" \/ state # "OBSERVING" => cycle \in Cycles

\* The runner holds lines while it judges them, and only then.
LinesHeld == pc \in {"readAudit", "consider"} <=> lines # <<>>

Types == QueueTypeOK /\ CycleBegun /\ LinesHeld

LEMMA TypesInitially == QueueInit => Types
<1> SUFFICES ASSUME QueueInit PROVE Types
  OBVIOUS
<1>1. archive \in [Cycles -> Seq(Requests)] /\ <<>> \in Seq(Requests)
  BY DEF QueueInit
<1>2. CycleBegun /\ LinesHeld
  BY DEF QueueInit, CycleBegun, LinesHeld
<1>3. audit \in [Requests -> {"none"} \cup GatewayVerdict]
  BY DEF QueueInit
<1>4. queue \in Seq(Requests) /\ lines \in Seq(Requests)
  BY DEF QueueInit
<1>5. /\ cycle \in 0 .. MaxCycles /\ crashes \in 0 .. MaxCrashes
      /\ f018 \in [Requests -> Nat] /\ cli \in [Requests -> {"new", "passed", "done"}]
  BY QueueBounds DEF QueueInit
<1>6. QueueTypeOK
  BY <1>1, <1>3, <1>4, <1>5 DEF QueueInit, QueueTypeOK
<1> QED BY <1>2, <1>6 DEF Types

LEMMA VerdictType == \A q : EvaluateGateway(q) \in GatewayVerdict
BY DEF EvaluateGateway, GatewayVerdict

LEMMA CLITypes ==
  ASSUME Types, NEW q \in Requests, CLI(q)
  PROVE  Types'
<1> USE DEF Types, CycleBegun, LinesHeld, runner, queue_history
<1>1. CASE Process(q)
  <2>1. audit' \in [Requests -> {"none"} \cup GatewayVerdict] /\ unlogged' \subseteq Requests
    BY <1>1, VerdictType DEF QueueTypeOK, Process, VerdictLogged, VerdictNotLogged
  <2>2. cli' \in [Requests -> {"new", "passed", "done"}]
    BY <1>1 DEF QueueTypeOK, Process
  <2> QED BY <1>1, <2>1, <2>2 DEF QueueTypeOK, Process
<1>2. CASE HandlePassed(q)
  <2>1. queue' \in Seq(Requests)
    BY <1>2, EntriesOfAppend DEF QueueTypeOK, HandlePassed
  <2> QED BY <1>2, <2>1 DEF QueueTypeOK, HandlePassed
<1> QED BY <1>1, <1>2 DEF CLI

LEMMA RunnerTypes ==
  ASSUME Types, Runner \/ Crash
  PROVE  Types'
<1> USE QueueBounds DEF Types, CycleBegun, LinesHeld, queue_files, runner, queue_history, Cycles
<1>1. CASE Hypothesize
  BY <1>1 DEF QueueTypeOK, Hypothesize
<1>2. CASE ReadQueue
  BY <1>2 DEF QueueTypeOK, ReadQueue
<1>3. CASE ReadAudit
  BY <1>3 DEF QueueTypeOK, ReadAudit
<1>4. CASE Consider
  <2>1. /\ Tail(lines) \in Seq(Requests) /\ Head(lines) \in Requests
        /\ Len(lines) > 1 <=> Tail(lines) # <<>>
    BY <1>4, EntriesOfTail DEF QueueTypeOK, Consider
  <2>2. candidates' \subseteq Requests
    BY <1>4, <2>1 DEF QueueTypeOK, Consider
  <2>4. f018' \in [Requests -> Nat]
    <3>1. f018' = f018 \/ f018' = [f018 EXCEPT ![Head(lines)] = @ + 1]
      BY <1>4 DEF Consider
    <3> QED BY <2>1, <3>1 DEF QueueTypeOK
  <2>3. skipped' \subseteq Requests
    BY <1>4, <2>1 DEF QueueTypeOK, Consider
  <2> QED BY <1>4, <2>1, <2>2, <2>3, <2>4 DEF QueueTypeOK, Consider
<1>5. CASE Rename
  <2>1. archive' \in [Cycles -> Seq(Requests)]
    BY <1>5 DEF QueueTypeOK, Rename
  <2> QED BY <1>5, <2>1 DEF QueueTypeOK, Rename
<1>6. CASE RenameFails
  BY <1>6 DEF QueueTypeOK, RenameFails
<1>7. CASE EnterTesting
  BY <1>7 DEF QueueTypeOK, EnterTesting
<1>8. CASE TestAndReport
  <2>1. tested' \subseteq Cycles \X Requests /\ promoted' \subseteq Requests
    BY <1>8 DEF QueueTypeOK, TestAndReport
  <2> QED BY <1>8, <2>1 DEF QueueTypeOK, TestAndReport
<1>9. CASE Crash
  BY <1>9 DEF QueueTypeOK, Crash
<1> QED BY <1>1, <1>2, <1>3, <1>4, <1>5, <1>6, <1>7, <1>8, <1>9 DEF Runner

LEMMA StepTypes == Types /\ [QueueNext]_queue_vars => Types'
<1>1. Types /\ UNCHANGED queue_vars => Types'
  BY DEF Types, QueueTypeOK, CycleBegun, LinesHeld, queue_vars, queue_files, runner, queue_history
<1> QED BY <1>1, CLITypes, RunnerTypes DEF QueueNext

\* Files and locals keep the shape their readers take for granted, and a runner at
\* work or a saved state belongs to a cycle (openclaw_cli.ts; runner 725-881).
THEOREM TypeCorrect == QueueSpec => []Types
BY TypesInitially, StepTypes, PTL DEF QueueSpec

-----------------------------------------------------------------------------
(* The inductive invariant                                                   *)

Passed(q) == EvaluateGateway(q) = "PASS"

\* A decided request is in the log with its verdict, unless the append failed.
DecisionsLogged ==
    \A q \in Requests :
        /\ cli[q] # "new" => audit[q] = EvaluateGateway(q) \/ q \in unlogged
        /\ cli[q] = "passed" => Passed(q)

\* Lines and candidates are of requests that passed and whose CLI has ended.
FromPassed ==
    \A q \in Entries(queue) \cup Entries(lines) \cup candidates : cli[q] = "done" /\ Passed(q)

\* The runner judges a line when it has read the log after the queue.
LinesCorrelated == pc = "consider" => \A q \in Entries(lines) : q \in passIds \/ q \in unlogged

\* Candidates are the runner's from the first judgement to the report, and
\* without a failed rename they are not in the queue when they are tested.
CandidatesTaken ==
    /\ pc \in {"idle", "readQueue", "readAudit"} => candidates = {}
    /\ pc \in {"testing", "sandbox"} /\ ~kept => candidates \cap Entries(queue) = {}

\* Without a failed rename, what was tested comes back nowhere.
TestedIsGone ==
    ~kept => \A x \in tested : /\ x[2] \notin Entries(queue) \cup Entries(lines) \cup candidates
                               /\ cli[x[2]] = "done"

QueueInv ==
    /\ Types
    /\ DecisionsLogged /\ FromPassed /\ LinesCorrelated
    /\ CandidatesTaken /\ TestedIsGone
    /\ NoFalseBypass /\ TestedOnce

LEMMA QueueInvInitially == QueueInit => QueueInv
<1> SUFFICES ASSUME QueueInit PROVE QueueInv
  OBVIOUS
<1>1. Entries(queue) = {} /\ Entries(lines) = {}
  BY EntriesOfEmpty DEF QueueInit
<1> QED BY <1>1, TypesInitially
        DEF QueueInit, QueueInv, DecisionsLogged, FromPassed, LinesCorrelated,
            CandidatesTaken, TestedIsGone, NoFalseBypass, TestedOnce

-----------------------------------------------------------------------------
(* A CLI's steps                                                             *)

LEMMA ProcessKeeps ==
  ASSUME QueueInv, NEW q \in Requests, Process(q)
  PROVE  QueueInv'
<1> USE DEF QueueInv, runner
<1>1. Types'
  BY CLITypes DEF CLI
<1>2. /\ cli[q] = "new" /\ cli'[q] = IF Passed(q) THEN "passed" ELSE "done"
      /\ \A r \in Requests \ {q} : cli'[r] = cli[r]
      /\ UNCHANGED <<queue, lines, candidates, f018, tested, pc, kept, passIds>>
      /\ unlogged \subseteq unlogged'
  BY DEF Types, QueueTypeOK, Process, VerdictLogged, VerdictNotLogged, Passed
<1>3. /\ audit'[q] = EvaluateGateway(q) \/ q \in unlogged'
      /\ \A r \in Requests \ {q} : audit'[r] = audit[r]
  BY DEF Types, QueueTypeOK, Process, VerdictLogged, VerdictNotLogged
<1>4. /\ Entries(queue) \cup Entries(lines) \cup candidates \subseteq Requests
      /\ \A x \in tested : x[2] \in Requests
  BY DEF Types, QueueTypeOK, Entries
<1>5. DecisionsLogged'
  BY <1>2, <1>3 DEF DecisionsLogged, Passed
<1>6. q \notin Entries(queue) \cup Entries(lines) \cup candidates
  BY <1>2 DEF FromPassed
<1>7. UNCHANGED <<Entries(queue), Entries(lines)>>
  BY <1>2
<1>8. FromPassed' /\ LinesCorrelated' /\ CandidatesTaken'
  BY <1>2, <1>4, <1>6, <1>7
     DEF FromPassed, LinesCorrelated, CandidatesTaken, Passed
<1>9. TestedIsGone'
  BY <1>2, <1>4, <1>7 DEF TestedIsGone
<1>10. NoFalseBypass' /\ TestedOnce'
  BY <1>2 DEF NoFalseBypass, TestedOnce
<1> QED BY <1>1, <1>5, <1>8, <1>9, <1>10

LEMMA HandlePassedKeeps ==
  ASSUME QueueInv, NEW q \in Requests, HandlePassed(q)
  PROVE  QueueInv'
<1> USE DEF QueueInv, runner
<1>1. Types'
  BY CLITypes DEF CLI
<1>2. /\ cli[q] = "passed" /\ cli'[q] = "done" /\ Passed(q)
      /\ \A r \in Requests \ {q} : cli'[r] = cli[r]
      /\ UNCHANGED <<lines, candidates, f018, audit, unlogged, tested, pc, kept, passIds>>
  BY DEF Types, QueueTypeOK, HandlePassed, DecisionsLogged
<1>3. /\ q.action = "enqueue_candidate" => Entries(queue') = Entries(queue) \cup {q}
      /\ q.action # "enqueue_candidate" => queue' = queue
  BY EntriesOfAppend DEF HandlePassed, Types, QueueTypeOK
<1>4. Entries(queue') \subseteq Entries(queue) \cup {q} /\ Entries(queue) \subseteq Entries(queue')
  BY <1>3
<1>5. UNCHANGED Entries(lines) /\ Entries(queue)' = Entries(queue')
  BY <1>2
<1>6. /\ Entries(queue) \cup Entries(lines) \cup candidates \subseteq Requests
      /\ \A x \in tested : x[2] \in Requests
  BY DEF Types, QueueTypeOK, Entries
<1>7. DecisionsLogged' /\ LinesCorrelated'
  BY <1>2, <1>5 DEF DecisionsLogged, Passed, LinesCorrelated
<1>8. FromPassed'
  BY <1>2, <1>4, <1>5, <1>6 DEF FromPassed, Passed
<1>9. q \notin candidates /\ ~kept => \A x \in tested : x[2] # q
  BY <1>2 DEF FromPassed, TestedIsGone
<1>11. CandidatesTaken'
  BY <1>2, <1>4, <1>5 DEF CandidatesTaken, FromPassed
<1>12. TestedIsGone'
  <2> SUFFICES ASSUME ~kept', NEW x \in tested'
               PROVE  /\ x[2] \notin Entries(queue') \cup Entries(lines) \cup candidates
                      /\ cli'[x[2]] = "done"
    BY <1>2, <1>5 DEF TestedIsGone
  <2>1. x \in tested /\ ~kept /\ x[2] \in Requests /\ cli[x[2]] = "done" /\ x[2] # q
    BY <1>2, <1>6 DEF TestedIsGone
  <2> QED BY <1>2, <1>4, <2>1 DEF TestedIsGone
<1>13. NoFalseBypass' /\ TestedOnce'
  BY <1>2 DEF NoFalseBypass, TestedOnce
<1> QED BY <1>1, <1>7, <1>8, <1>11, <1>12, <1>13

-----------------------------------------------------------------------------
(* The runner's steps                                                        *)

LEMMA HypothesizeKeeps == QueueInv /\ Hypothesize => QueueInv'
<1> SUFFICES ASSUME QueueInv, Hypothesize PROVE QueueInv'
  OBVIOUS
<1> USE DEF QueueInv, queue_history
<1>1. Types'
  BY RunnerTypes DEF Runner
<1>2. /\ UNCHANGED <<audit, queue, lines, cli, f018, candidates, tested,
                     unlogged, kept>>
      /\ pc = "idle" /\ pc' = "readQueue"
  BY DEF Hypothesize
<1> QED BY <1>1, <1>2
        DEF DecisionsLogged, FromPassed, LinesCorrelated, CandidatesTaken,
            TestedIsGone, NoFalseBypass, TestedOnce, Passed, Entries

LEMMA ReadQueueKeeps == QueueInv /\ ReadQueue => QueueInv'
<1> SUFFICES ASSUME QueueInv, ReadQueue PROVE QueueInv'
  OBVIOUS
<1> USE DEF QueueInv, queue_history, queue_files
<1>1. Types'
  BY RunnerTypes DEF Runner
<1>2. /\ UNCHANGED <<audit, queue, cli, f018, candidates, tested, unlogged, kept>>
      /\ lines' = queue /\ candidates = {}
      /\ pc' \in {"readAudit", "testing"}
  BY DEF ReadQueue, CandidatesTaken
<1>3. Entries(lines)' = Entries(queue) /\ Entries(queue)' = Entries(queue)
  BY <1>2
<1>4. DecisionsLogged' /\ FromPassed' /\ LinesCorrelated'
  BY <1>2, <1>3
     DEF DecisionsLogged, FromPassed, LinesCorrelated, Passed
<1>5. CandidatesTaken' /\ TestedIsGone'
  BY <1>2, <1>3 DEF CandidatesTaken, TestedIsGone
<1>6. NoFalseBypass' /\ TestedOnce'
  BY <1>2 DEF NoFalseBypass, TestedOnce
<1> QED BY <1>1, <1>4, <1>5, <1>6

LEMMA ReadAuditKeeps == QueueInv /\ ReadAudit => QueueInv'
<1> SUFFICES ASSUME QueueInv, ReadAudit PROVE QueueInv'
  OBVIOUS
<1> USE DEF QueueInv, queue_history, queue_files
<1>1. Types'
  BY RunnerTypes DEF Runner
<1>2. /\ UNCHANGED <<audit, queue, lines, cli, f018, candidates, tested,
                     unlogged, kept>>
      /\ pc = "readAudit" /\ pc' = "consider"
  BY DEF ReadAudit
<1>3. UNCHANGED <<Entries(lines), Entries(queue)>>
  BY <1>2
<1>4. LinesCorrelated'
  <2>1. Entries(lines) \subseteq Requests
    BY DEF Types, QueueTypeOK, Entries
  <2>2. \A q \in Entries(lines) : audit[q] = "PASS" \/ q \in unlogged
    BY <2>1 DEF DecisionsLogged, FromPassed, Passed
  <2>3. \A q \in Requests : audit[q] = "PASS" => q \in passIds'
    BY DEF ReadAudit
  <2> QED BY <1>2, <1>3, <2>1, <2>2, <2>3 DEF LinesCorrelated
<1>5. DecisionsLogged' /\ FromPassed'
  BY <1>2, <1>3 DEF DecisionsLogged, FromPassed, Passed
<1>6. CandidatesTaken' /\ TestedIsGone'
  BY <1>2, <1>3 DEF CandidatesTaken, TestedIsGone
<1>7. NoFalseBypass' /\ TestedOnce'
  BY <1>2 DEF NoFalseBypass, TestedOnce
<1> QED BY <1>1, <1>4, <1>5, <1>6, <1>7

LEMMA ConsiderKeeps == QueueInv /\ Consider => QueueInv'
<1> SUFFICES ASSUME QueueInv, Consider PROVE QueueInv'
  OBVIOUS
<1> USE DEF QueueInv
<1> DEFINE q == Head(lines)
<1>1. Types'
  BY RunnerTypes DEF Runner
<1>2. /\ UNCHANGED <<audit, queue, cli, tested, unlogged, kept, passIds>>
      /\ pc = "consider" /\ lines' = Tail(lines)
      /\ candidates \subseteq candidates' /\ candidates' \subseteq candidates \cup {q}
      /\ \A r \in Requests : f018'[r] > 0 => f018[r] > 0 \/ (r = q /\ q \notin passIds)
  BY DEF Consider, Types, QueueTypeOK
<1>3. /\ Entries(lines) = {q} \cup Entries(lines') /\ q \in Requests
      /\ Len(lines) > 1 <=> lines' # <<>>
  BY <1>2, EntriesOfTail DEF Types, QueueTypeOK, LinesHeld
<1>4. pc' = IF Len(lines) > 1 THEN "consider" ELSE IF candidates' = {} THEN "testing" ELSE "rename"
  BY DEF Consider
<1>5. Entries(queue)' = Entries(queue) /\ Entries(lines)' = Entries(lines')
  BY <1>2
<1>6. DecisionsLogged'
  BY <1>2 DEF DecisionsLogged, Passed
<1>7. FromPassed'
  BY <1>2, <1>3, <1>5 DEF FromPassed, Passed
<1>8. LinesCorrelated'
  BY <1>2, <1>3, <1>5 DEF LinesCorrelated
<1>10. CandidatesTaken'
  BY <1>4 DEF CandidatesTaken
<1>11. TestedIsGone'
  BY <1>2, <1>3, <1>5 DEF TestedIsGone
<1>12. NoFalseBypass'
  BY <1>2, <1>3 DEF NoFalseBypass, LinesCorrelated
<1>13. TestedOnce'
  BY <1>2 DEF TestedOnce
<1> QED BY <1>1, <1>6, <1>7, <1>8, <1>10, <1>11, <1>12, <1>13

LEMMA RenameKeeps == QueueInv /\ (Rename \/ RenameFails) => QueueInv'
<1> SUFFICES ASSUME QueueInv, Rename \/ RenameFails PROVE QueueInv'
  OBVIOUS
<1> USE DEF QueueInv, queue_files, queue_history
<1>1. Types'
  BY RunnerTypes DEF Runner
<1>2. /\ UNCHANGED <<audit, cli, lines, f018, candidates, tested, unlogged>>
      /\ pc = "rename" /\ pc' = "testing"
  BY DEF Rename, RenameFails
<1>3. \/ queue' = <<>> /\ kept' = kept
      \/ queue' = queue /\ kept'
  BY DEF Rename, RenameFails
<1>4. /\ Entries(queue)' \subseteq Entries(queue)
      /\ Entries(lines)' = Entries(lines) /\ Entries(lines) = {}
      /\ ~kept' => Entries(queue)' = {} /\ ~kept
  BY <1>2, <1>3, EntriesOfEmpty DEF Types, LinesHeld
<1>5. DecisionsLogged' /\ FromPassed' /\ LinesCorrelated'
  BY <1>2, <1>4
     DEF DecisionsLogged, FromPassed, LinesCorrelated, Passed
<1>6. CandidatesTaken' /\ TestedIsGone'
  BY <1>2, <1>4 DEF CandidatesTaken, TestedIsGone
<1>7. NoFalseBypass' /\ TestedOnce'
  BY <1>2, <1>4 DEF NoFalseBypass, TestedOnce
<1> QED BY <1>1, <1>5, <1>6, <1>7

LEMMA EnterTestingKeeps == QueueInv /\ EnterTesting => QueueInv'
<1> SUFFICES ASSUME QueueInv, EnterTesting PROVE QueueInv'
  OBVIOUS
<1> USE DEF QueueInv, queue_history
<1>1. Types'
  BY RunnerTypes DEF Runner
<1>2. /\ UNCHANGED <<audit, queue, lines, cli, f018, candidates, tested,
                     unlogged, kept>>
      /\ pc = "testing" /\ pc' = "sandbox"
  BY DEF EnterTesting
<1> QED BY <1>1, <1>2
        DEF DecisionsLogged, FromPassed, LinesCorrelated, CandidatesTaken,
            TestedIsGone, NoFalseBypass, TestedOnce, Passed, Entries

LEMMA TestAndReportKeeps == QueueInv /\ TestAndReport => QueueInv'
<1> SUFFICES ASSUME QueueInv, TestAndReport PROVE QueueInv'
  OBVIOUS
<1> USE DEF QueueInv
<1>1. Types'
  BY RunnerTypes DEF Runner
<1>2. /\ UNCHANGED <<audit, queue, lines, cli, f018, unlogged, kept>>
      /\ pc = "sandbox" /\ pc' = "idle" /\ candidates' = {}
      /\ tested' = tested \cup ({cycle} \X candidates)
  BY DEF TestAndReport
<1>3. /\ UNCHANGED <<Entries(queue), Entries(lines)>>
      /\ Entries(lines) = {}
  BY <1>2, EntriesOfEmpty DEF Types, LinesHeld
<1>4. \A x \in tested' : x \in tested \/ (x[1] = cycle /\ x[2] \in candidates /\ x = <<cycle, x[2]>>)
  BY <1>2
<1>5. DecisionsLogged' /\ FromPassed' /\ LinesCorrelated'
  BY <1>2, <1>3
     DEF DecisionsLogged, FromPassed, LinesCorrelated, Passed
<1>6. CandidatesTaken'
  BY <1>2 DEF CandidatesTaken
<1>7. TestedIsGone'
  BY <1>2, <1>3, <1>4 DEF CandidatesTaken, TestedIsGone, FromPassed
<1>8. TestedOnce'
  BY <1>2, <1>4 DEF TestedOnce, TestedIsGone
<1>9. NoFalseBypass'
  BY <1>2 DEF NoFalseBypass
<1> QED BY <1>1, <1>5, <1>6, <1>7, <1>8, <1>9

LEMMA CrashKeeps == QueueInv /\ Crash => QueueInv'
<1> SUFFICES ASSUME QueueInv, Crash PROVE QueueInv'
  OBVIOUS
<1> USE DEF QueueInv, queue_files
<1>1. Types'
  BY RunnerTypes
<1>2. /\ UNCHANGED <<audit, queue, cli, f018, tested, unlogged, kept>>
      /\ pc' = "idle" /\ lines' = <<>> /\ candidates' = {}
  BY DEF Crash
<1>3. Entries(queue)' = Entries(queue) /\ Entries(lines)' = {}
  BY <1>2, EntriesOfEmpty
<1>4. DecisionsLogged' /\ FromPassed' /\ LinesCorrelated'
  BY <1>2, <1>3
     DEF DecisionsLogged, FromPassed, LinesCorrelated, Passed
<1>5. CandidatesTaken' /\ TestedIsGone'
  BY <1>2, <1>3 DEF CandidatesTaken, TestedIsGone
<1>6. NoFalseBypass' /\ TestedOnce'
  BY <1>2 DEF NoFalseBypass, TestedOnce
<1> QED BY <1>1, <1>4, <1>5, <1>6

-----------------------------------------------------------------------------
LEMMA StepKeeps == QueueInv /\ [QueueNext]_queue_vars => QueueInv'
<1> SUFFICES ASSUME QueueInv, [QueueNext]_queue_vars PROVE QueueInv'
  OBVIOUS
<1>1. CASE \E q \in Requests : CLI(q)
  BY <1>1, ProcessKeeps, HandlePassedKeeps DEF CLI
<1>2. CASE Runner \/ Crash
  BY <1>2, HypothesizeKeeps, ReadQueueKeeps, ReadAuditKeeps, ConsiderKeeps, RenameKeeps,
     EnterTestingKeeps, TestAndReportKeeps, CrashKeeps DEF Runner
<1>3. CASE UNCHANGED queue_vars
  <2>1. Types'
    BY <1>3, StepTypes DEF QueueInv
  <2> QED BY <1>3, <2>1
          DEF QueueInv, queue_vars, queue_files, runner, queue_history, DecisionsLogged, FromPassed,
              LinesCorrelated, CandidatesTaken, TestedIsGone, NoFalseBypass,
              TestedOnce, Passed, Entries
<1> QED BY <1>1, <1>2, <1>3 DEF QueueNext

LEMMA QueueInvHolds == QueueSpec => []QueueInv
BY QueueInvInitially, StepKeeps, PTL DEF QueueSpec

\* A request whose verdict is in the log is never counted as F-018: the CLI logs before
\* it enqueues, and the runner reads the queue before the log (cli 312-347, runner
\* 725-881), wherever either is interrupted.
THEOREM LoggedIsNoBypass == QueueSpec => []NoFalseBypass
BY QueueInvHolds, PTL DEF QueueInv

\* Unless a rename fails, a candidate is tested in one cycle only, however often crashes
\* make a cycle read the queue again (runner 860-881).
THEOREM RequestsTestedOnce == QueueSpec => []TestedOnce
BY QueueInvHolds, PTL DEF QueueInv

=============================================================================
