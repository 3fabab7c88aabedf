SPECIFICATION Spec
CONSTANTS
  Levels = {"episodic", "semantic"}
  Episodic = "episodic"
  Semantic = "semantic"
  Entities = {"ada"}
  Times = {1, 2}
  EntityCap = 1
  MaxNodes = 3
INVARIANTS NothingDangles NeighboursAreMutual EntityEdgesAreIndexed TemporalGraphIsAForest SourcesAreOriginals
PROPERTY OnlyDeleteCutsEdges
CHECK_DEADLOCK FALSE
