\* Two first requests race for the signing key, without any other failure.
CONSTANTS
  e1 = e1  e2 = e2  w1 = w1  w2 = w2
  p1 = p1  p2 = p2
  payer = payer  reviewer = reviewer  auditor = auditor
  NoKey = NoKey
  Requests = {e1, e2, w1}
  Workflows = {w1}
  Fieldless = {e1}
  Roles = {payer, reviewer, auditor}
  Procs = {p1, p2}
  Presents <- MCPresents
  Policies <- MCPolicies
  ProcOf <- MCProcOf
  MaxCrashes = 0
  MaxFaults = 0
SPECIFICATION Spec
INVARIANTS
  SigningFailureReported
