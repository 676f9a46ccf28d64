--------------------------- MODULE OpenClawGateway ---------------------------
(***************************************************************************)
(* The rules of the gateway (tools/openclaw_gateway.ts), which read a      *)
(* request and nothing else: the first rule that matches decides.          *)
(***************************************************************************)

WriteActions == {"enqueue_candidate", "human_review"}

GatewayVerdict == {"PASS", "REJECT", "HARD_REJECT"}

\* evaluateGateway: the first rule that matches decides.
EvaluateGateway(q) ==
    IF q.risk = "HIGH" THEN "HARD_REJECT"
    ELSE IF q.action = "unknown" THEN "HARD_REJECT"
    ELSE IF q.touches = "kernel" THEN "HARD_REJECT"
    ELSE IF q.action = "enqueue_candidate" /\ q.touches = "benchmark" THEN "HARD_REJECT"
    ELSE IF q.risk # (IF q.action \in WriteActions THEN "MEDIUM" ELSE "LOW") THEN "REJECT"
    ELSE IF q.action = "enqueue_candidate" /\ q.payload # "complete" THEN "HARD_REJECT"
    ELSE "PASS"

=============================================================================
