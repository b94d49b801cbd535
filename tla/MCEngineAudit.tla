----------------------------- MODULE MCEngineAudit -----------------------------
(***************************************************************************)
(* Small instances of EngineAudit: requests on two engine processes, one of *)
(* them a workflow that presents two roles, under policies that accept or   *)
(* refuse these roles; and a workflow that presents one of them twice.      *)
(***************************************************************************)
EXTENDS EngineAudit, TLC

CONSTANTS e1, e2, w1, w2, p1, p2, payer, reviewer, auditor

MCPresents ==
  [r \in Requests |-> CASE r = w1 -> <<payer, reviewer>>
                       [] r = w2 -> <<payer, reviewer, payer>>
                       [] OTHER -> <<>>]
MCProcOf == [r \in Requests |-> IF r = e2 THEN p2 ELSE p1]

MCPolicy(combinator, threshold, required) ==
  [combinator |-> combinator, threshold |-> threshold, required |-> required]

MCPolicies == {
  MCPolicy("requireAll", 0, {payer, reviewer}),
  MCPolicy("requireAny", 0, {payer, reviewer}),
  MCPolicy("threshold", 1, {payer, reviewer}),
  MCPolicy("requireAll", 0, {payer, reviewer, auditor}),
  MCPolicy("requireAll", 0, {payer})}

MCTwoOfTwo == {MCPolicy("threshold", 2, {payer, reviewer})}
================================================================================
