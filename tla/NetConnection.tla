---------------------------- MODULE NetConnection ----------------------------
(***************************************************************************)
(* The connection of the .NET provider (NuoDbConnection) with its          *)
(* transaction object (NuoDbTransaction), as one application thread uses   *)
(* them.  Every library call may throw, and a call that throws has no      *)
(* effect on the session; each action is one method with all its outcomes. *)
(*                                                                         *)
(* plain, scoped, runs and restoreFailed are history: the statements that  *)
(* ran to their end outside and inside a transaction, how often the server *)
(* ran each, and whether setAutoCommit(true) has ever thrown.              *)
(***************************************************************************)
EXTENDS NuoSession, Naturals

CONSTANTS Work,          \* statements the application may run
          AutoDefault    \* autocommit of a fresh library session

ASSUME ConnectionAssumption == AutoDefault \in BOOLEAN

VARIABLES configured,      \* m_database, m_username and m_password are set
          open,            \* m_connection # NULL
          disposed,        \* m_disposed
          inTransaction,   \* m_inTransaction
          session,
          txn,             \* the transaction object the application holds
          plain, scoped, runs, restoreFailed

nvars == <<configured, open, disposed, inTransaction, session, txn, plain, scoped, runs, restoreFailed>>

\* begun is FALSE once the connection it was begun on has been closed, and then
\* nothing more is kept of it;
\* connection is whether m_connection is set; last is how the last call of
\* Commit or Rollback on the object ended.
NoTransaction == [begun |-> FALSE, connection |-> FALSE, last |-> "none"]

ConnectionTypeOK ==
  /\ configured \in BOOLEAN
  /\ open \in BOOLEAN
  /\ disposed \in BOOLEAN
  /\ inTransaction \in BOOLEAN
  /\ session \in SessionType(Work)
  /\ txn \in [begun : BOOLEAN, connection : BOOLEAN, last : {"none", "returned", "threw"}]
  /\ plain \subseteq Work
  /\ scoped \subseteq Work
  /\ runs \in [Work -> 0..2]
  /\ restoreFailed \in BOOLEAN

\* Constructed without a connection string, or with one.
ConnectionInit ==
  /\ configured \in BOOLEAN
  /\ open = FALSE
  /\ disposed = FALSE
  /\ inTransaction = FALSE
  /\ session = NoSession
  /\ txn = NoTransaction
  /\ plain = {} /\ scoped = {}
  /\ runs = [w \in Work |-> 0]
  /\ restoreFailed = FALSE

-----------------------------------------------------------------------------
\* A new library connection on the same database.
Connected == [NewSession(AutoDefault) EXCEPT !.durable = session.durable]

\* ParseConnectionString forgets every option and then takes the items in turn,
\* up to the first that is malformed: what is set when it throws stays, and so
\* does what is missing when it returns.
Parsed == BOOLEAN

\* ConnectionString::set, which does not ask whether the connection is open.
SetConnectionString ==
  /\ configured' \in Parsed
  /\ UNCHANGED <<open, disposed, inTransaction, session, txn, plain, scoped, runs, restoreFailed>>

\* OpenConnection; the schema, which ChangeDatabase gives too, is taken to be
\* there.
Open ==
  /\ ~open /\ configured
  /\ open' = TRUE
  /\ session' = Connected
  /\ UNCHANGED <<configured, disposed, inTransaction, txn, plain, scoped, runs, restoreFailed>>

\* CommitTransaction and RollbackTransaction on an open connection; ended is the
\* session after the library's commit or rollback.  Nothing to do, that call
\* throws, the restoration of autocommit throws, or all is done.
EndTransaction(ended) ==
  IF ~inTransaction THEN {[done |-> TRUE, inTxn |-> FALSE, s |-> session]}
  ELSE {[done |-> FALSE, inTxn |-> TRUE, s |-> session],
        [done |-> FALSE, inTxn |-> FALSE, s |-> ended]}
       \cup {[done |-> TRUE, inTxn |-> FALSE, s |-> r] : r \in SetAutoCommitResults(ended, TRUE)}

\* The outcome that leaves the session out of autocommit.
Unrestored(r) == ~r.done /\ ~r.inTxn

\* Mutant: autocommit is restored before the transaction is rolled back.
RestoreFirst ==
  {[done |-> TRUE, inTxn |-> FALSE, s |-> Rollback(r)] :
     r \in IF inTransaction THEN SetAutoCommitResults(session, TRUE) ELSE {session}}

\* RollbackTransaction; when it is done the connection is deleted.
CloseResults == EndTransaction(Rollback(session))

\* The members after outcome r of Close; done is its continuation.
AfterClose(r) ==
  /\ inTransaction' = r.inTxn
  /\ restoreFailed' = (restoreFailed \/ Unrestored(r))
  /\ txn' = IF r.inTxn THEN txn ELSE NoTransaction
  /\ scoped' = IF r.inTxn THEN scoped ELSE {}

\* Close on a connection that is not open throws and changes nothing.
CloseConnection ==
  /\ open
  /\ \E r \in CloseResults :
       /\ AfterClose(r)
       /\ open' = ~r.done
       /\ session' = IF r.done THEN Disconnect(r.s) ELSE r.s
  /\ UNCHANGED <<configured, disposed, plain, runs>>

\* Close, and then the connection to the other schema may not come about, as the
\* server refuses it or the connection string was set in the meantime.
ChangeDatabase ==
  /\ open
  /\ \E r \in CloseResults, reopened \in BOOLEAN :
       /\ reopened => r.done /\ configured
       /\ AfterClose(r)
       /\ open' = (reopened \/ ~r.done)
       /\ session' = IF reopened THEN [Connected EXCEPT !.durable = r.s.durable]
                     ELSE IF r.done THEN Disconnect(r.s) ELSE r.s
  /\ UNCHANGED <<configured, disposed, plain, runs>>

\* ~NuoDbConnection: nothing the second time, even if the connection has been
\* opened again; on a closed connection it throws.
Dispose ==
  /\ open /\ ~disposed
  /\ \E r \in CloseResults :
       /\ AfterClose(r)
       /\ open' = ~r.done
       /\ disposed' = r.done
       /\ session' = IF r.done THEN Disconnect(r.s) ELSE r.s
  /\ UNCHANGED <<configured, plain, runs>>

-----------------------------------------------------------------------------
\* Mutant: the flag is not raised.
BeginWithoutFlag ==
  /\ open /\ ~inTransaction
  /\ session' \in SetAutoCommitResults(session, FALSE)
  /\ txn' = [NoTransaction EXCEPT !.begun = TRUE]
  /\ scoped' = {}
  /\ UNCHANGED <<configured, open, disposed, inTransaction, plain, runs, restoreFailed>>

\* Mutant: the isolation level is checked after autocommit has been turned off.
BeginChecksLate ==
  /\ open /\ ~inTransaction
  /\ inTransaction' = TRUE
  /\ session' \in SetAutoCommitResults(session, FALSE)
  /\ \/ txn' = [NoTransaction EXCEPT !.begun = TRUE] /\ scoped' = {}
     \/ UNCHANGED <<txn, scoped>>
  /\ UNCHANGED <<configured, open, disposed, plain, runs, restoreFailed>>

\* The flag is raised before setAutoCommit(false), which may throw: then there
\* is no transaction object.  The object does not keep its connection.
BeginTransaction ==
  /\ open /\ ~inTransaction
  /\ inTransaction' = TRUE
  /\ \/ /\ session' \in SetAutoCommitResults(session, FALSE)
        /\ txn' = [NoTransaction EXCEPT !.begun = TRUE]
        /\ scoped' = {}
     \/ UNCHANGED <<session, txn, scoped>>
  /\ UNCHANGED <<configured, open, disposed, plain, runs, restoreFailed>>

\* NuoDbTransaction::Commit and Rollback.
TransactionEnds(ended) ==
  /\ txn.begun
  /\ IF txn.connection
     THEN \E r \in EndTransaction(ended) :
            /\ inTransaction' = r.inTxn
            /\ session' = r.s
            /\ restoreFailed' = (restoreFailed \/ Unrestored(r))
            /\ scoped' = IF r.inTxn THEN scoped ELSE {}
            /\ txn' = [txn EXCEPT !.begun = r.inTxn,
                                    !.last = IF r.done THEN "returned" ELSE "threw"]
     ELSE /\ txn' = [txn EXCEPT !.last = "threw"]
          /\ UNCHANGED <<inTransaction, session, restoreFailed, scoped>>
  /\ UNCHANGED <<configured, open, disposed, plain, runs>>

TransactionCommit == TransactionEnds(Commit(session))
TransactionRollback == TransactionEnds(Rollback(session))

-----------------------------------------------------------------------------
\* Mutant: the result of the prepared statement is read by executing it again.
TimesThrice(parameters) == IF parameters THEN 2 ELSE 3

\* NuoDbCommand::Execute runs a command without parameters as a plain statement
\* and then again as a prepared one.
Times(parameters) == IF parameters THEN 1 ELSE 2

\* A statement that runs to its end; one not run before.
RunCommand(w, parameters) ==
  /\ open /\ runs[w] = 0
  /\ session' = Execute(session, w)
  /\ runs' = [runs EXCEPT ![w] = Times(parameters)]
  /\ IF txn.begun THEN scoped' = scoped \cup {w} /\ UNCHANGED plain
                  ELSE plain' = plain \cup {w} /\ UNCHANGED scoped
  /\ UNCHANGED <<configured, open, disposed, inTransaction, txn, restoreFailed>>

\* ... or that fails as a prepared one, after the plain statement has run.
RunCommandFails(w) ==
  /\ open /\ runs[w] = 0
  /\ session' = Execute(session, w)
  /\ runs' = [runs EXCEPT ![w] = 1]
  /\ UNCHANGED <<configured, open, disposed, inTransaction, txn, plain, scoped, restoreFailed>>

ConnectionNext ==
  \/ SetConnectionString \/ Open \/ CloseConnection \/ ChangeDatabase \/ Dispose
  \/ BeginTransaction \/ TransactionCommit \/ TransactionRollback
  \/ \E w \in Work : RunCommandFails(w) \/ \E p \in BOOLEAN : RunCommand(w, p)

ConnectionSpec == ConnectionInit /\ [][ConnectionNext]_nvars

-----------------------------------------------------------------------------
\* With the library's default, and as long as setAutoCommit(true) has not
\* thrown, what succeeded outside a transaction is durable, whatever was begun,
\* abandoned, closed, reopened or changed before (m_inTransaction and the mode
\* of the session are two pieces of state that Close has to bring back in step).
PlainWorkIsDurable ==
  AutoDefault /\ ~restoreFailed => plain \subseteq session.durable

\* While the application holds a transaction that has begun, the connection
\* knows it and the session holds its work back: nothing of it is durable.
TransactionIsIsolated ==
  txn.begun => /\ open /\ inTransaction /\ ~session.autocommit
               /\ scoped \subseteq session.pending \ session.durable

\* Losing the connection on purpose (Close, ChangeDatabase, Dispose) publishes
\* nothing of an open transaction: rollback comes before setAutoCommit(true),
\* which may commit.
CloseDiscards ==
  [][ CloseConnection \/ ChangeDatabase \/ Dispose
        => scoped \cap session'.durable = {} ]_nvars

\* "Commits the database transaction.": a Commit that is called on a begun
\* transaction ends it.
CommitEndsTransaction ==
  [][ TransactionCommit => ~inTransaction' ]_nvars

\* "Executes a SQL statement against a connection object.": once.
RunsOnce == \A w \in plain \cup scoped : runs[w] = 1
=============================================================================
