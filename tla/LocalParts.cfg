SPECIFICATION LocalSpec
CONSTANTS
  None = None
  Kinds = {"atomicmemory", "mem0", "hindsight"}
  Memories = {1, 2, 3, 4, 5}
  Lists <- ListsDef
  Limits = {1, 2, 3}
  OneLimit = {"mem0"}
  MaxChanges = 3
  Listeners = {"first", "second"}
  MaxRegistered = 3
  MaxDepth = 2
  MaxEmits = 2
  Blank = " "
  DefaultTopK = 2
  MaxResults = 2
  DefaultThreshold = 10
  RerankingEnabled = TRUE
  MaxUserLength = 2
  MaxQueryLength = 2
  MaxContentLength = 3
  MaxSearchLimit = 3
  MaxHitContent = 3
  MaxTotalContent = 5
  DefaultLimit = 2
  Characters = {"a", " "}
  Texts <- TextsDef
  ChunkOptions <- ChunkOptionsDef
  GroupCalls <- GroupCallsDef
  Pools <- PoolsDef
  SearchCalls <- SearchCallsDef
  Hits <- HitsDef
  Pages <- PagesDef
  ToolCalls <- ToolCallsDef
  Users <- UsersDef
  Facts <- FactsDef
  FactLists <- FactListsDef
  FilterConfigs <- FilterConfigsDef
  DefaultPatterns <- DefaultPatternsDef
  ResultPages <- ResultPagesDef
  WireMemories <- WireMemoriesDef
  Requests <- RequestsDef
  Ingests <- IngestsDef
  IngestAnswers <- IngestAnswersDef
INVARIANTS EachRowOnce EmitReachesAll SearchReturnsTheBest NothingLostUntold CodecRoundTrips
PROPERTY WalkEnds
CHECK_DEADLOCK FALSE
