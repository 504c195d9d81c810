------------------------ MODULE TransactionContract ------------------------
(***************************************************************************)
(* What a driver promises about the work of one database session, whatever *)
(* its handles do: work takes effect at once in auto mode; in manual mode  *)
(* it is unsettled until a commit publishes all of it or a rollback        *)
(* discards all of it; turning auto mode on either publishes the unsettled *)
(* work or leaves it unsettled; a session that ends discards it; what is   *)
(* published stays published.                                              *)
(***************************************************************************)
CONSTANT Work

VARIABLES live, auto, unsettled, published

cvars == <<live, auto, unsettled, published>>

ContractInit ==
  /\ live = FALSE
  /\ auto = TRUE
  /\ unsettled = {}
  /\ published = {}

Start ==
  /\ ~live
  /\ live' = TRUE
  /\ auto' = TRUE
  /\ unsettled' = {}
  /\ UNCHANGED published

Do(w) ==
  /\ live
  /\ IF auto THEN published' = published \cup {w} /\ UNCHANGED unsettled
             ELSE unsettled' = unsettled \cup {w} /\ UNCHANGED published
  /\ UNCHANGED <<live, auto>>

Publish ==
  /\ live
  /\ published' = published \cup unsettled
  /\ unsettled' = {}
  /\ UNCHANGED <<live, auto>>

Discard ==
  /\ live
  /\ unsettled' = {}
  /\ UNCHANGED <<live, auto, published>>

SetMode(b) ==
  /\ live
  /\ auto' = b
  /\ \/ UNCHANGED <<unsettled, published>>
     \/ b /\ published' = published \cup unsettled /\ unsettled' = {}
  /\ UNCHANGED live

\* The mode of a session that has ended means nothing.
SetModeOfEnded(b) ==
  /\ ~live
  /\ auto' = b
  /\ UNCHANGED <<live, unsettled, published>>

End ==
  /\ live
  /\ live' = FALSE
  /\ unsettled' = {}
  /\ UNCHANGED <<auto, published>>

ContractNext ==
  \/ Start \/ Publish \/ Discard \/ End
  \/ \E w \in Work : Do(w)
  \/ \E b \in BOOLEAN : SetMode(b) \/ SetModeOfEnded(b)

ContractSpec == ContractInit /\ [][ContractNext]_cvars
=============================================================================
