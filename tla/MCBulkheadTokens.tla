-------------------------- MODULE MCBulkheadTokens --------------------------
(* Small instances of BulkheadTokens for TLC.                              *)
EXTENDS BulkheadTokens, TLC

ChildSymmetry == Permutations(Tasks \ {Root})
=============================================================================
