SPECIFICATION FairSpec
CONSTANTS
  Slots = {r, s, t}
  Free = Free
  MaxConns = 5
  MaxLoops = 3
  MaxErrors = 1
INVARIANTS UsedInItsLoop OneWorker ScriptIsOver
PROPERTY CallsEnd
CHECK_DEADLOCK FALSE
