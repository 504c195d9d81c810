------------------------------ MODULE MCPerlDbd ------------------------------
(* Bounded instance of PerlDbd for TLC.                                     *)
EXTENDS PerlDbd, TLC

Symmetry == Permutations(Work) \cup Permutations(Sth)
=============================================================================
