----------------------------- MODULE NuoSession -----------------------------
(***************************************************************************)
(* One session of the NuoDB client library, as the drivers see it.  The    *)
(* library is not part of the repository: its behaviour is what the        *)
(* drivers' own tests rely on.  With autocommit on (the state of a fresh   *)
(* connection) a statement is durable when its call returns and rollback   *)
(* has no effect; with autocommit off work is pending until commit, and    *)
(* rollback or disconnection discards it.                                  *)
(*                                                                         *)
(* A session is a record; the module has operators only, so that every     *)
(* driver keeps a session in a variable of its own.                        *)
(***************************************************************************)

SessionType(Work) == [open : BOOLEAN, autocommit : BOOLEAN,
                      pending : SUBSET Work, durable : SUBSET Work]

NewSession(auto) == [open |-> TRUE, autocommit |-> auto,
                     pending |-> {}, durable |-> {}]

NoSession == [open |-> FALSE, autocommit |-> FALSE,
              pending |-> {}, durable |-> {}]

\* A statement that the server executed.
Execute(s, w) == IF s.autocommit
                 THEN [s EXCEPT !.durable = s.durable \cup {w}]
                 ELSE [s EXCEPT !.pending = s.pending \cup {w}]

Commit(s) == [s EXCEPT !.durable = s.durable \cup s.pending, !.pending = {}]

Rollback(s) == [s EXCEPT !.pending = {}]

\* Nothing in the repository says what enabling autocommit does to pending
\* work: it may commit it (the JDBC rule) or leave it for a later commit.
SetAutoCommitResults(s, b) ==
  IF b THEN {[s EXCEPT !.autocommit = TRUE],
             [Commit(s) EXCEPT !.autocommit = TRUE]}
       ELSE {[s EXCEPT !.autocommit = FALSE]}

Disconnect(s) == [Rollback(s) EXCEPT !.open = FALSE]

=============================================================================
