SPECIFICATION FairSpec
CONSTANTS
  m1 = m1
  m2 = m2
  m3 = m3
  m4 = m4
  key = key
  p1 = p1
  p2 = p2
  Nobody = Nobody
  Calls = {m1,m2,m3}
  Keys = {key}
  Procs = {p1, p2}
  KeyOf <- MCKeyOf
  ProcOf <- MCProcOf
  MaxCrashes = 1
  MaxFaults = 1
  MaxOutages = 1
INVARIANTS
  TypeOK
  OneEvaluation
  AnswersAgree
  PersistedBeforeAnswer
  ReplayedUnlessFailed
  PendingExplained
PROPERTIES
  EveryMessageAnswered
