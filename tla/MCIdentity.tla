----------------------------- MODULE MCIdentity -----------------------------
(* A small instance of Identity for TLC. *)
EXTENDS Identity, TLC

CONSTANTS ann, bob, bobby, n1, n2, c1, k1, r1, r2

\* Ann has a number to herself; bob and bobby are two subjects with one number.
MCNumbers == ann :> {n1} @@ bob :> {n2} @@ bobby :> {n2}

Symmetry == Permutations({r1, r2})
=============================================================================
