---------------------------- MODULE MCNetProvider ----------------------------
(* Bounded instance of NetProvider for TLC.                                 *)
EXTENDS NetProvider
=============================================================================
