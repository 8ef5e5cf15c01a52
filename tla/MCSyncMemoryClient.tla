------------------------ MODULE MCSyncMemoryClient ------------------------
(* Instances of SyncMemoryClient for TLC. *)
EXTENDS SyncMemoryClient

CONSTANTS r1, r2, t1, t2, t3

MCNames == 1..2
\* The registry may lack a factory for either provider, or for both.
MCRegistries == {{1, 2}, {2}, {}}
=============================================================================
