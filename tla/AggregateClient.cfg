SPECIFICATION Spec
CONSTANTS
  Callers = {c1, c2}
  Tasks = {c1, c2, k1, k2}
  Closers = {k1, k2}
  Users <- UsersDef
  Scopes <- ScopesDef
  MemoryIds = {"m1", "m2", "m3", "m4"}
  MinRows = 2
  Stores <- StoresDef
  Artifacts = {"free", "managed"}
  StoredAtFirst <- StoredAtFirstDef
  Documents = {d}
  Entities <- EntitiesDef
  Settings = {"extraction_prompt", "decay_enabled"}
  Memories = {"m"}
  MaxNamed = 1
  MaxActors = 2
  None = None
INVARIANTS AnswerTellsFate CloseIsBestEffort
PROPERTIES HandleAsAsked HandleTellsTruth StorageAnswerIsTrue EntitiesAsAsked
SYMMETRY Alike
CHECK_DEADLOCK FALSE
