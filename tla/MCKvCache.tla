----------------------------- MODULE MCKvCache -----------------------------
(* Instances of KvCache for TLC. *)
EXTENDS KvCache, TLC

CONSTANTS u1, u2, k1, k2, v1, v2

MCTTLs == {1, Never}
MCSymmetry == Permutations(Users) \cup Permutations(Keys) \cup Permutations(Values)
=============================================================================
