SPECIFICATION FairSpec
CONSTANTS
  s1 = s1
  s2 = s2
  s3 = s3
  p1 = p1
  p2 = p2
  Nobody = Nobody
  Tasks = {t1, t2}
  Procs = {p1, p2}
  Slots = {s1, s2, s3}
  Home <- TwoAndOne
  ClientStatuses = {"cancelled"}
  MaxCalls = 3
  MaxFaults = 1
INVARIANTS AckedWritesAreDurable OutcomeComesWithStatus
PROPERTY CallsEnd
CHECK_DEADLOCK FALSE
