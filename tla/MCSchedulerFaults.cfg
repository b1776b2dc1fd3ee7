SPECIFICATION Spec
CONSTANTS
  h1 = h1
  h2 = h2
  w1 = w1
  w2 = w2
  Handlers = {h1}
  Workers = {w1, w2}
  MaxVersions = 2
  MaxTries = 2
  MaxCrashes = 1
  Faults = {"handlerFails", "lostLock", "acquisitionError", "dbFailure", "slowReconcile"}
SYMMETRY Symmetry
INVARIANTS
  NoConcurrentExecution
  ExecutionAccounted
PROPERTIES
  TerminalIsFinal
  VersionRespected
  RunsOnlyWhenDue
CHECK_DEADLOCK FALSE
