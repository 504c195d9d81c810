------------------------------ MODULE PdoDriver ------------------------------
(***************************************************************************)
(* The PHP PDO driver: a database handle (PdoHandle) and the statements    *)
(* made on it (PdoStatement), as a script uses them together.  Whether an  *)
(* execute reaches the server is decided here by the C++ object it runs    *)
(* (an empty one returns at once), not by the state of the handle; that    *)
(* the two agree is checked: the composition implements HandleSpec.        *)
(***************************************************************************)
EXTENDS PdoHandle, PdoStatement

dvars == <<hvars, svars>>

DriverInit == HandleInit /\ StatementInit

\* The library creates a statement only on a connection.
Created(k) == IF connected THEN k ELSE "empty"

-----------------------------------------------------------------------------
\* Calls on the handle alone.
HandleCall ==
  /\ fault = "none"
  /\ \/ ConnectOk \/ ConnectFailed \/ Attach
     \/ BeginTransaction \/ CommitTransaction \/ RollBack
     \/ \E b \in BOOLEAN : SetAutoCommit(b)
     \/ EndRequest /\ \A s \in Stmt : ~stmt[s].used
  /\ UNCHANGED svars

\* PDO closes the handle when nothing refers to it any more.
CloseHandle == Close /\ DeleteHandle

\* Mutant: preparing does not open the implicit transaction.
PrepareOnly(s, o, k) ==
  /\ handle = "live"
  /\ PrepareStmt(s, o, Created(k))
  /\ prepared' = TRUE
  /\ UNCHANGED <<handle, connected, in_txn, auto_commit, session, acked, phantom, scope>>

\* PDO::prepare, and PDO::query before it executes.
PrepareStatement(s, o, k) == Prepare(TRUE) /\ PrepareStmt(s, o, Created(k))

PrepareFails ==
  \/ \E o \in Obj : Prepare(FALSE) /\ PrepareRefused(o)
  \/ handle = "live" /\ PrepareTooLong /\ UNCHANGED hvars

\* PDOStatement::execute reporting success.
RunStatement(s, w) ==
  /\ handle = "live" /\ Fresh(w)
  /\ ExecuteOk(s)
  /\ session' = IF obj[stmt[s].obj].kind = "empty" THEN session ELSE Execute(session, w)
  /\ Acknowledge(w)
  /\ UNCHANGED <<handle, connected, in_txn, auto_commit, prepared>>

\* ... and reporting failure; an INSERT may have run all the same.
RunFails(s) ==
  /\ handle = "live"
  /\ ExecuteThrows(s)
  /\ \/ UNCHANGED hvars
     \/ obj[stmt[s].obj].kind = "insert" /\ \E w \in Work : FailedAfterEffect(w)

\* PDO::exec, whose statement object nobody owns.
Exec(o, k, w) == ExecOk(w) /\ ExecStmt(o, Created(k))

ExecFails(o, k) ==
  /\ handle = "live" /\ connected
  /\ \/ ExecRefused /\ ExecStmt(o, "empty")
     \/ ExecStmtFailed(o, k) /\ UNCHANGED hvars
     \/ k = "insert" /\ ExecStmtFailed(o, k) /\ \E w \in Work : FailedAfterEffect(w)

StatementCall ==
  /\ handle = "live"
  /\ (\E s \in Stmt : StmtStep(s)) \/ LastInsertId \/ LastInsertIdOfDeleted
  /\ UNCHANGED hvars

DriverNext ==
  \/ HandleCall \/ CloseHandle
  \/ \E s \in Stmt, o \in Obj, k \in Kind : PrepareStatement(s, o, k)
  \/ PrepareFails
  \/ \E s \in Stmt : RunFails(s) \/ \E w \in Work : RunStatement(s, w)
  \/ \E o \in Obj, k \in Kind : ExecFails(o, k) \/ \E w \in Work : Exec(o, k, w)
  \/ StatementCall

DriverSpec == DriverInit /\ [][DriverNext]_dvars

-----------------------------------------------------------------------------
\* A statement in the script's hands is empty (so that execute reports success
\* without running anything) exactly when the handle has no connection: a
\* statement the library refused never gets there.
EmptyOnlyWithoutConnection ==
  \A s \in Stmt : Holds(s) => (obj[stmt[s].obj].kind = "empty" <=> ~connected)

\* rollBack undoes what was acknowledged inside the transaction it ends.
RollBackUndoes ==
  [][ RollBack => scope \cap session'.durable = {} ]_dvars
=============================================================================
