----------------------------- MODULE MCPdoDriver -----------------------------
(* Bounded instances of PdoDriver for TLC.                                  *)
EXTENDS PdoDriver, TLC

DriverSymmetry == Permutations(Work) \cup Permutations(Obj) \cup Permutations(Stmt)
=============================================================================
