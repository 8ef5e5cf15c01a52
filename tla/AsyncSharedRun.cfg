SPECIFICATION Spec
CONSTANTS
  r1 = r1 r2 = r2 r3 = r3 c1 = c1 c2 = c2 c3 = c3
  Names <- MCNames
  Default = 1
  Registries <- MCRegistries
  Runs = {r1, r2, r3}
  Calls = {c1, c2}
  None = None
SYMMETRY MCSymmetry
INVARIANT SharedRun
CHECK_DEADLOCK FALSE
