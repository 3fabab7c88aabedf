SPECIFICATION Spec
CONSTANTS
  s1 = s1
  s2 = s2
  s3 = s3
  p1 = p1
  p2 = p2
  Nobody = Nobody
  Tasks = {t1, t2}
  Procs = {p1, p2}
  Slots = {s1, s2, s3}
  Home <- TwoAndOne
  ClientStatuses = {"cancelled", "running"}
  MaxCalls = 3
  MaxFaults = 1
PROPERTY PatchChangesOnlyItsFields
CHECK_DEADLOCK FALSE
