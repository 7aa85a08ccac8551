--------------------------- MODULE MCCatalogReads ---------------------------
(* Small instance of CatalogReads for TLC. *)
EXTENDS CatalogReads, TLC

CONSTANTS v1, v2, universal, linux, alice, r1

MCRank == v1 :> 1 @@ v2 :> 2
=============================================================================
