--------------------------- MODULE MCRedisInstances ---------------------------
(* Small instances of RedisInstances for TLC. *)
EXTENDS RedisInstances, TLC
CONSTANTS r1, r2, p1, p2

Interchangeable == Permutations(Passwords)
=============================================================================
