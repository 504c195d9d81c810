-------------------------- MODULE NuoSession_proofs --------------------------
(***************************************************************************)
(* What the session operators preserve, for the proofs of the drivers.     *)
(***************************************************************************)
EXTENDS NuoSession, TLAPS

\* Every library call maps a session to a session.
LEMMA SessionClosed ==
  ASSUME NEW W, NEW s \in SessionType(W)
  PROVE  /\ \A w \in W : Execute(s, w) \in SessionType(W)
         /\ Commit(s) \in SessionType(W)
         /\ Rollback(s) \in SessionType(W)
         /\ Disconnect(s) \in SessionType(W)
         /\ \A b \in BOOLEAN : SetAutoCommitResults(s, b) \subseteq SessionType(W)
BY DEF SessionType, Execute, Commit, Rollback, Disconnect, SetAutoCommitResults

\* No library call takes back what is durable, and only a rollback and a
\* disconnection discard what is pending.
LEMMA SessionKeeps ==
  ASSUME NEW W, NEW s \in SessionType(W)
  PROVE  /\ \A w \in W : /\ s.durable \subseteq Execute(s, w).durable
                         /\ s.pending \subseteq Execute(s, w).pending
                         /\ w \in Execute(s, w).pending \cup Execute(s, w).durable
                         /\ s.autocommit => w \in Execute(s, w).durable
         /\ Commit(s).durable = s.durable \cup s.pending
         /\ Rollback(s).durable = s.durable
         /\ Disconnect(s).durable = s.durable
BY DEF SessionType, Execute, Commit, Rollback, Disconnect

\* Only SetAutoCommit changes the mode of a session.
LEMMA SessionMode ==
  ASSUME NEW W, NEW s \in SessionType(W)
  PROVE  /\ \A w \in W : Execute(s, w).autocommit = s.autocommit
         /\ Commit(s).autocommit = s.autocommit
         /\ Rollback(s).autocommit = s.autocommit
         /\ Disconnect(s).autocommit = s.autocommit
BY DEF SessionType, Execute, Commit, Rollback, Disconnect
=============================================================================
