---------------------------- MODULE MCDriverData ----------------------------
(* Bounded instance of DriverData for TLC.                                  *)
EXTENDS DriverData

\* Two names, one the beginning of the other.
MCParamName == {<<"a">>, <<"a", "b">>}

\* Literals with all that the rewriting looks at.
MCLiteral == {<<>>, <<"'">>, <<":", "a">>, <<"a", "'">>, <<"?">>}

\* Whole numbers in the range of a short, of an int, and of neither.
MCWhole == {-4, -1, 0, 2}
=============================================================================
