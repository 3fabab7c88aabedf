SPECIFICATION Spec
CONSTANTS
  Levels = {"episodic", "semantic"}
  Semantic = "semantic"
  Entities = {x}
  EntityCap = 1
  Given = {1}
  s1 = s1  s2 = s2  s3 = s3
  p1 = p1  p2 = p2
  Nobody = Nobody
  Procs = {p1, p2}
  Slots = {s1, s2}
  Home <- OneEach
  MaxNodes = 3
  MaxCalls = 3
  MaxErrors = 0
  MaxCrashes = 1
INVARIANTS OnlyGivenAndSourcesDangle NeighboursAreMutual EntityEdgesAreIndexed TemporalGraphIsAForest
CHECK_DEADLOCK FALSE
