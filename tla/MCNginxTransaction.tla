------------------------- MODULE MCNginxTransaction -------------------------
(* Small instances of NginxTransaction for TLC. *)
EXTENDS NginxTransaction, TLC
CONSTANTS shop, shopOld, blog, r1, r2, v1, v2, bad

\* shop was renamed: the files shop and shopOld mention the same domains.
MCOverlap  == {<<shop, shopOld>>, <<shopOld, shop>>}
NoOverlap  == {}
MCAccepted == {v1, v2, CatchallContent, StockContent}
RequestSymmetry == Permutations(Requests)
=============================================================================
