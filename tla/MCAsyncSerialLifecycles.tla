---------------------- MODULE MCAsyncSerialLifecycles ----------------------
(* Instances of AsyncSerialLifecycles for TLC. *)
EXTENDS AsyncSerialLifecycles

CONSTANTS r1, r2, c1, c2, c3

MCNames == 1..2
MCRegistries == {{1, 2}, {1}, {2}}
=============================================================================
