---------------------------- MODULE MCPlatforms ----------------------------
(* Small instances of Platforms for TLC. *)
EXTENDS Platforms, TLC
CONSTANTS shop, blog, ann, bob, r1, r2

\* Every domain has a configuration name of its own.
OwnNames == [d \in Domains |-> d]
Symmetry == Permutations(Requests) \cup Permutations(Domains) \cup Permutations(Usernames)
=============================================================================
