SPECIFICATION Spec
CONSTANTS
  m1 = m1
  m2 = m2
  m3 = m3
  m4 = m4
  key = key
  p1 = p1
  p2 = p2
  Nobody = Nobody
  Calls = {m1,m2,m3,m4}
  Keys = {key}
  Procs = {p1, p2}
  KeyOf <- MCKeyOf
  ProcOf <- MCProcOf
  MaxCrashes = 0
  MaxFaults = 0
  MaxOutages = 0
INVARIANT
  FinalIsReplayed
