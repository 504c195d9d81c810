---------------------------- MODULE MCRubyAdapter ----------------------------
(* Bounded instance of RubyAdapter for TLC.                                 *)
EXTENDS RubyAdapter, TLC

Symmetry == Permutations(Work) \cup Permutations(Stmt) \cup Permutations(Key)
=============================================================================
