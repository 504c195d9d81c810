--------------------------- MODULE MCNetConnection ---------------------------
(* Bounded instance of NetConnection for TLC.                               *)
EXTENDS NetConnection
=============================================================================
