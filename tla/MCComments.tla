----------------------------- MODULE MCComments -----------------------------
(* Small instances of Comments for TLC. *)
EXTENDS Comments, TLC

CONSTANTS alice, bob, c1, c2, r1, r2

Symmetry == Permutations({alice, bob}) \cup Permutations({r1, r2})
=============================================================================
