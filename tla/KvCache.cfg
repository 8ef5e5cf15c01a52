SPECIFICATION Spec
CONSTANTS
  u1 = u1 u2 = u2 k1 = k1 k2 = k2 v1 = v1 v2 = v2
  Users = {u1, u2}
  Keys = {k1, k2}
  Values = {v1, v2}
  TTLs <- MCTTLs
  MaxNow = 2
  Never = Never
  None = None
SYMMETRY MCSymmetry
INVARIANTS ReadsWereAlive KeysWereAlive
PROPERTIES LostOnlyToStaleEviction
