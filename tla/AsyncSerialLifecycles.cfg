SPECIFICATION FairSerialSpec
CONSTANTS
  r1 = r1 r2 = r2 c1 = c1 c2 = c2 c3 = c3
  Names <- MCNames
  Default = 1
  Registries <- MCRegistries
  Runs = {r1, r2}
  Calls = {c1, c2, c3}
  None = None
INVARIANTS SharedRun EndsUninitialized NoProviderForgotten
PROPERTIES ImplementsContract CallsReturn
CHECK_DEADLOCK FALSE
