----------------------------- MODULE MCRotation -----------------------------
(***************************************************************************)
(* The rotation of the scanner over the small chain.                       *)
(***************************************************************************)
EXTENDS MCIndexer, IndexerRotation
=============================================================================
