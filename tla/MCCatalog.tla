----------------------------- MODULE MCCatalog -----------------------------
EXTENDS Catalog, TLC

CONSTANTS s1, s2, p1, p2, d1, d2, r1, r2

MCThread == {s1, s2}
MCPath == {p1, p2}
MCDirectory == {d1, d2}
MCInDir == p1 :> d1 @@ p2 :> d2
MCRequest == {r1, r2}
MCMaxWrites == 2

(* The two paths may change places together with their directories.        *)
Mirror == p1 :> p2 @@ p2 :> p1 @@ d1 :> d2 @@ d2 :> d1

Symmetry == Permutations(MCThread) \cup Permutations(MCRequest) \cup {Mirror}
=============================================================================
