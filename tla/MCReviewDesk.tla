---------------------------- MODULE MCReviewDesk ----------------------------
(* A small instance of ReviewDesk for TLC. *)
EXTENDS ReviewDesk, TLC

CONSTANTS v1, v2, universal, alice, nobody, ann, ben

MCRank == [v \in Versions |-> IF v = v1 THEN 1 ELSE 2]
=============================================================================
