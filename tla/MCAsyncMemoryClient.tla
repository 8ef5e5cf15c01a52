------------------------ MODULE MCAsyncMemoryClient ------------------------
(* Instances of AsyncMemoryClient for TLC. *)
EXTENDS AsyncMemoryClient, TLC

CONSTANTS r1, r2, r3, c1, c2, c3

MCNames == 1..2
\* The registry may lack a factory for either provider.
MCRegistries == {{1, 2}, {1}, {2}}

MCSymmetry == Permutations(Runs) \cup Permutations(Calls)
=============================================================================
