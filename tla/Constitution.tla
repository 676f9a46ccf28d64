----------------------------- MODULE Constitution ---------------------------
(***************************************************************************)
(* What CI says of a branch: tools/verify_constitution.ts checks the       *)
(* repository against its constitution, stateMachineValidatorCli.ts its    *)
(* workflows, and tools/merge_gate.ts makes one verdict of the jobs.       *)
(* Operators only.                                                         *)
(*                                                                         *)
(* A failure code is the sequence of its words, the number first; a path   *)
(* is a sequence as well. A repository is a record:                        *)
(*   constitution  is the file there?                                      *)
(*   directory     is constitution/invariants there?                       *)
(*   declared, registered, sovereign, untrusted  what the constitution     *)
(*                 lists: invariants, failure codes, paths                 *)
(*   files         of the invariants: [name, fields], a name being the set *)
(*                 of invariants it contains                               *)
(*   referenced    failure codes in the sources                            *)
(*   ledgers       of phase14/data: the sequences of their lines           *)
(*   workflow      the file that tools/workflow_runtime validates: its top *)
(*                 keys, the states it allows, its workflows; a workflow   *)
(*                 has stages, a stage a flow and decisions, and each an   *)
(*                 id if it is `named`                                     *)
(***************************************************************************)
EXTENDS Integers, Sequences

StartsWith(path, prefix) ==
    Len(prefix) <= Len(path) /\ SubSeq(path, 1, Len(prefix)) = prefix

Related(a, b) == StartsWith(a, b) \/ StartsWith(b, a)

InvariantFilesMissing(repo) ==
    repo.declared \ UNION {f.name : f \in IF repo.directory THEN repo.files ELSE {}}

\* A registered family covers its members, and a member its family.
UnregisteredCodes(repo) ==
    {c \in repo.referenced : \A r \in repo.registered : ~Related(c, r)}

TrustOverlaps(repo) == {p \in repo.sovereign : \E u \in repo.untrusted : Related(p, u)}

CorruptLedgers(repo) == {l \in repo.ledgers : \E i \in DOMAIN l : l[i] = "corrupt"}

InvariantFields == {"id", "slug", "severity", "statement"}

IncompleteFiles(repo) ==
    {f \in IF repo.directory THEN repo.files ELSE {} : f.fields # InvariantFields}

\* Without a constitution nothing else is looked at.
VerifyConstitution(repo) ==
    IF ~repo.constitution THEN {"SCHEMA_MISSING"}
    ELSE {v \in {"INVARIANT_FILE_MISSING"} : InvariantFilesMissing(repo) # {}}
         \cup {v \in {"FAILURE_CODE_UNREGISTERED"} : UnregisteredCodes(repo) # {}}
         \cup {v \in {"TRUST_BOUNDARY_OVERLAP"} : TrustOverlaps(repo) # {}}
         \cup {v \in {"LEDGER_CORRUPT"} : CorruptLedgers(repo) # {}}
         \cup {v \in {"INVARIANT_FIELD_MISSING"} : IncompleteFiles(repo) # {}}
         \cup {v \in {"SCHEMA_MISSING"} : ~repo.directory}

\* The job runs it twice: to succeed, and for the artifact, which may get lost.
InvariantsJob(repo, uploaded) ==
    [result |-> IF VerifyConstitution(repo) = {} THEN "success" ELSE "failure",
     artifact |-> IF uploaded THEN VerifyConstitution(repo) ELSE {}]

-----------------------------------------------------------------------------
(* The schema of the workflows                                               *)

\* A decision may only lead to states of its stage.
DecisionErrors(decision, stage) ==
    IF ~decision.named THEN {"DECISION_ID_MISSING"}
    ELSE {e \in {"DECISION_FAILURE_CODES_MISSING"} : decision.failure_codes = {}}
         \cup {e \in {"DECISION_EVIDENCE_FIELDS_MISSING"} : decision.evidence_fields = {}}
         \cup {e \in {"DECISION_ALLOWED_STATE_OUT_OF_STAGE_FLOW"} :
                 \E s \in decision.allowed : \A i \in DOMAIN stage.flow : stage.flow[i] # s}

StageErrors(stage, states) ==
    IF ~stage.named THEN {"STAGE_ID_MISSING"}
    ELSE LET visited == {stage.flow[i] : i \in DOMAIN stage.flow}
         IN  {e \in {"STATE_FLOW_MISSING"} : visited = {}}
             \cup {e \in {"STATE_FLOW_START_INVALID"} : ~StartsWith(stage.flow, <<"PENDING">>)}
             \cup {e \in {"STATE_FLOW_RUNNING_MISSING"} : "RUNNING" \notin visited}
             \cup {e \in {"STATE_ENUM_REFERENCE_INVALID"} : ~(visited \subseteq states)}
             \cup {e \in {"DECISION_POINTS_MISSING"} : stage.decisions = {}}
             \cup UNION {DecisionErrors(d, stage) : d \in stage.decisions}

WorkflowErrors(doc) ==
    {e \in {"MISSING_TOP_LEVEL_KEY"} : ~({"version", "workflow_family", "common", "workflows"} \subseteq doc.keys)}
    \cup {e \in {"STATE_ENUM_MISSING"} : doc.states = {}}
    \cup {e \in {"WORKFLOWS_MISSING"} : doc.workflows = {}}
    \cup UNION {IF ~w.named THEN {"WORKFLOW_ID_MISSING"}
                ELSE IF w.stages = {} THEN {"WORKFLOW_STAGES_MISSING"}
                ELSE UNION {StageErrors(stage, doc.states) : stage \in w.stages} : w \in doc.workflows}

\* Its last step wants the sample of a bad event refused; it takes any failure of
\* the command for that.
SchemaJob(doc, refused) == IF WorkflowErrors(doc) = {} /\ refused THEN "success" ELSE "failure"

-----------------------------------------------------------------------------
(* The merge gate                                                            *)

\* Each job that did not succeed; for the invariants, what the artifact lists, if
\* it is there and lists anything.
GateViolations(jobs) ==
    {job \in {"lint", "schema", "governance"} : jobs[job] # "success"}
    \cup (IF jobs.invariants.result = "success" THEN {}
          ELSE IF jobs.invariants.artifact = {} THEN {"invariants"} ELSE jobs.invariants.artifact)

MergeGate(jobs) == IF GateViolations(jobs) = {} THEN "success" ELSE "failure"

=============================================================================
