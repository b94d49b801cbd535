SPECIFICATION Spec
CONSTANTS
  c1 = c1
  c2 = c2
  c3 = c3
  uses = uses
  spend = spend
  key = key
  NoKey = NoKey
  Nobody = Nobody
  Calls = {c1, c2, c3}
  Bases = {uses, spend}
  Forever = {spend}
  IdemKeys = {key}
  Cands <- MCCands
  Idem <- MCIdem
  PoolSize = 2
  MaxClock = 0
  MaxFaults = 0
INVARIANT
  NoDoubleCharge
