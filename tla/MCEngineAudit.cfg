\* An evaluation on each of two processes and a workflow, with a failing
\* statement and a crash.
CONSTANTS
  e1 = e1  e2 = e2  w1 = w1  w2 = w2
  p1 = p1  p2 = p2
  payer = payer  reviewer = reviewer  auditor = auditor
  NoKey = NoKey
  Requests = {e1, e2, w1}
  Workflows = {w1}
  Fieldless = {e1}
  Roles = {payer, reviewer, auditor}
  Procs = {p1, p2}
  Presents <- MCPresents
  Policies <- MCPolicies
  ProcOf <- MCProcOf
  MaxCrashes = 1
  MaxFaults = 1
SPECIFICATION FairSpec
INVARIANTS
  TypeOK
  DecisionOnRecord
  SignaturesResolvable
  ChargedNotDenied
  SigningFailureLeavesNoRow
  WorkflowBacked
PROPERTIES
  RequestAnswered
