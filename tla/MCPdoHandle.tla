----------------------------- MODULE MCPdoHandle -----------------------------
(* Bounded instances of PdoHandle for TLC.                                  *)
EXTENDS PdoHandle, TLC

WorkSymmetry == Permutations(Work)
=============================================================================
