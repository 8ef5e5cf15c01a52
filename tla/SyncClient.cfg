SPECIFICATION FairSpec
CONSTANTS
  r1 = r1 r2 = r2 t1 = t1 t2 = t2 t3 = t3
  Names <- MCNames
  Default = 1
  Registries <- MCRegistries
  Runs = {r1, r2}
  Threads = {t1, t2}
  Main = t1
  None = None
INVARIANTS CommittedWhole OperationsOnOpened NoProviderForgotten
PROPERTIES ImplementsContract CallsReturn
