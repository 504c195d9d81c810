----------------------------- MODULE MCPhpNuodb -----------------------------
(* Bounded instance of PhpNuodb for TLC.                                    *)
EXTENDS PhpNuodb, TLC

PhpSymmetry == Permutations(Hash) \cup Permutations(Conn) \cup Permutations(Res)
=============================================================================
