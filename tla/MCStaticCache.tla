--------------------------- MODULE MCStaticCache ---------------------------
(* StaticCache for a few requests.  Entries are interchangeable, and so are *)
(* handlers.                                                               *)
EXTENDS StaticCache, TLC

Symmetry == Permutations(Entries) \cup Permutations(Reqs)
=============================================================================
