\* A workflow with two credentials for one role, under a threshold of two
\* roles, no failure.
CONSTANTS
  e1 = e1  e2 = e2  w1 = w1  w2 = w2
  p1 = p1  p2 = p2
  payer = payer  reviewer = reviewer  auditor = auditor
  NoKey = NoKey
  Requests = {w2}
  Workflows = {w2}
  Fieldless = {}
  Roles = {payer, reviewer, auditor}
  Procs = {p1, p2}
  Presents <- MCPresents
  Policies <- MCTwoOfTwo
  ProcOf <- MCProcOf
  MaxCrashes = 0
  MaxFaults = 0
SPECIFICATION Spec
INVARIANTS
  ThresholdByRoles
