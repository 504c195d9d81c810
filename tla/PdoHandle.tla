------------------------------ MODULE PdoHandle ------------------------------
(***************************************************************************)
(* The database handle of the PHP PDO driver: the transaction flags that   *)
(* PDO keeps in the dbh (in_txn, auto_commit), the driver's connection and *)
(* the library session behind it.                                          *)
(*                                                                         *)
(* One PHP process uses the handle, one call at a time; each action is one *)
(* PDO method.  Every library call may throw, and a call that throws has   *)
(* no effect on the session.  acked, phantom and scope are history: the    *)
(* statements the application was told had run, those of them that no      *)
(* server ever saw, and those that ran in the open transaction.            *)
(***************************************************************************)
EXTENDS NuoSession

CONSTANTS Work,         \* statements the application may run
          AutoDefault   \* autocommit of a fresh library session

ASSUME HandleAssumption == AutoDefault \in BOOLEAN

VARIABLES handle,       \* "none", "live" (held by a script), "cached" (persistent)
          connected,    \* PdoNuoDbHandle::_con is not NULL
          in_txn,
          auto_commit,
          session,
          prepared,     \* the script has prepared a statement
          acked,
          phantom,
          scope

hvars == <<handle, connected, in_txn, auto_commit, session, prepared,
           acked, phantom, scope>>

HandleTypeOK ==
  /\ handle \in {"none", "live", "cached"}
  /\ connected \in BOOLEAN
  /\ in_txn \in BOOLEAN
  /\ auto_commit \in BOOLEAN
  /\ session \in SessionType(Work)
  /\ prepared \in BOOLEAN
  /\ acked \subseteq Work
  /\ phantom \subseteq Work
  /\ scope \subseteq Work

HandleInit ==
  /\ handle = "none"
  /\ connected = FALSE
  /\ in_txn = FALSE
  /\ auto_commit = TRUE
  /\ session = NoSession
  /\ prepared = FALSE
  /\ acked = {}
  /\ phantom = {}
  /\ scope = {}

-----------------------------------------------------------------------------
\* What the library may have done when a call has returned or thrown.
CommitOutcomes(s) == {s, Commit(s)}
RollbackOutcomes(s) == {s, Rollback(s)}

\* Mutant: the flag tested is the one set for the duration of the call.
CommitIfAutoInsideCall(s, inTxn, auto) ==
  IF auto THEN CommitOutcomes(s) ELSE RollbackOutcomes(s)

\* Mutant: the two branches exchanged.
CommitIfAutoSwapped(s, inTxn, auto) ==
  CASE inTxn /\ ~auto -> CommitOutcomes(s)
    [] inTxn /\ auto  -> RollbackOutcomes(s)
    [] ~inTxn         -> {s}

\* pdo_nuodb_db_handle_commit_if_auto with the given flags; the status of the
\* commit or rollback it makes is dropped.
CommitIfAuto(s, inTxn, auto) ==
  CASE inTxn /\ auto  -> CommitOutcomes(s)
    [] inTxn /\ ~auto -> RollbackOutcomes(s)
    [] ~inTxn         -> {s}

\* A statement not run before; it takes effect only if there is a connection
\* (without one the driver's statement object is empty and does nothing).
Fresh(w) == w \notin acked \cup session.pending \cup session.durable
Effect(w) == IF connected THEN Execute(session, w) ELSE session

\* The application is told that w succeeded.
Acknowledge(w) ==
  /\ acked' = acked \cup {w}
  /\ phantom' = IF connected THEN phantom ELSE phantom \cup {w}
  /\ scope' = IF in_txn THEN scope \cup {w} ELSE scope

-----------------------------------------------------------------------------
\* new PDO(...): the factory reports success even when it could not connect;
\* the exception it raises keeps the script from getting the object, but PDO
\* keeps the persistent handle for the next script.
ConnectOk ==
  /\ handle = "none"
  /\ handle' = "live"
  /\ connected' = TRUE
  /\ session' = [NewSession(AutoDefault) EXCEPT !.durable = session.durable]
  /\ auto_commit' = TRUE
  /\ UNCHANGED <<in_txn, prepared, acked, phantom, scope>>

ConnectFailed ==
  /\ handle = "none"
  /\ handle' = "cached"
  /\ UNCHANGED <<connected, in_txn, auto_commit, session, prepared, acked, phantom, scope>>

\* new PDO(...) that finds a persistent handle: PDO resets auto_commit.
Attach ==
  /\ handle = "cached"
  /\ handle' = "live"
  /\ auto_commit' = TRUE
  /\ UNCHANGED <<connected, in_txn, session, prepared, acked, phantom, scope>>

\* Mutant: begin takes the session out of autocommit, and nothing puts it back.
BeginLeavesAutoOff ==
  /\ handle = "live" /\ ~in_txn
  /\ in_txn' = TRUE
  /\ scope' = {}
  /\ session' \in SetAutoCommitResults(session, FALSE)
  /\ UNCHANGED <<handle, connected, auto_commit, prepared, acked, phantom>>

\* PDO::beginTransaction: refused by PDO while in_txn; nuodb_handle_begin
\* itself does nothing.
BeginTransaction ==
  /\ handle = "live" /\ ~in_txn
  /\ in_txn' = TRUE
  /\ scope' = {}
  /\ UNCHANGED <<handle, connected, auto_commit, session, prepared, acked, phantom>>

\* PDO::commit and PDO::rollBack that succeed; one that fails changes nothing.
CommitTransaction ==
  /\ handle = "live" /\ in_txn
  /\ session' = Commit(session)
  /\ in_txn' = FALSE
  /\ scope' = {}
  /\ UNCHANGED <<handle, connected, auto_commit, prepared, acked, phantom>>

RollBack ==
  /\ handle = "live" /\ in_txn
  /\ session' = Rollback(session)
  /\ in_txn' = FALSE
  /\ scope' = {}
  /\ UNCHANGED <<handle, connected, auto_commit, prepared, acked, phantom>>

\* PDO::prepare opens a transaction before it knows whether the library takes
\* the statement (got): a refusal leaves the transaction open.
Prepare(got) ==
  /\ handle = "live"
  /\ connected \/ got
  /\ in_txn' = (in_txn \/ auto_commit)
  /\ scope' = IF in_txn' /\ ~in_txn THEN {} ELSE scope
  /\ prepared' = (prepared \/ got)
  /\ UNCHANGED <<handle, connected, auto_commit, session, acked, phantom>>

\* PDOStatement::execute that reports success.
ExecutePrepared(w) ==
  /\ handle = "live" /\ prepared /\ Fresh(w)
  /\ session' = Effect(w)
  /\ Acknowledge(w)
  /\ UNCHANGED <<handle, connected, in_txn, auto_commit, prepared>>

\* PDO::exec.  in_txn is 1 while the statement runs and is put back on every
\* path, so it does not change here; what follows the statement depends on
\* its value before the call.
ExecOk(w) ==
  /\ handle = "live" /\ Fresh(w)
  /\ session' \in CommitIfAuto(Effect(w), in_txn, auto_commit)
  /\ Acknowledge(w)
  /\ UNCHANGED <<handle, connected, in_txn, auto_commit, prepared>>

\* The library refuses to prepare the statement of an exec: the object is then
\* empty, its execute returns as if it had run, and the transaction is settled.
ExecRefused ==
  /\ handle = "live" /\ connected
  /\ session' \in CommitIfAuto(session, in_txn, auto_commit)
  /\ UNCHANGED <<handle, connected, in_txn, auto_commit, prepared, acked, phantom, scope>>

\* An INSERT that ran, but whose generated keys could not be read: execute and
\* exec report a failure, and exec returns before it settles the transaction.
FailedAfterEffect(w) ==
  /\ handle = "live" /\ connected /\ Fresh(w)
  /\ session' = Execute(session, w)
  /\ UNCHANGED <<handle, connected, in_txn, auto_commit, prepared, acked, phantom, scope>>

\* PDO::setAttribute(PDO::ATTR_AUTOCOMMIT, b) with a new value; enabling it
\* inside a transaction, or a commit that fails, changes nothing.
SetAutoCommit(b) ==
  /\ handle = "live" /\ b # auto_commit
  /\ in_txn => ~b
  /\ session' = IF in_txn THEN Commit(session) ELSE session
  /\ scope' = IF in_txn THEN {} ELSE scope
  /\ in_txn' = FALSE
  /\ auto_commit' = b
  /\ UNCHANGED <<handle, connected, prepared, acked, phantom>>

\* Mutant: the handle is taken from the script and not kept for the next one.
EndRequestReleases ==
  /\ handle = "live"
  /\ handle' = "released"
  /\ in_txn' = FALSE
  /\ prepared' = FALSE
  /\ scope' = {}
  /\ UNCHANGED <<connected, auto_commit, session, acked, phantom>>

\* The script drops a persistent handle: PDO rolls an open transaction back,
\* whether or not the library manages to.
EndRequest ==
  /\ handle = "live"
  /\ handle' = "cached"
  /\ session' \in IF in_txn THEN RollbackOutcomes(session) ELSE {session}
  /\ in_txn' = FALSE
  /\ prepared' = FALSE
  /\ scope' = {}
  /\ UNCHANGED <<connected, auto_commit, acked, phantom>>

\* nuodb_handle_closer.  PDO may already have rolled back and cleared in_txn.
Close ==
  /\ handle # "none"
  /\ \E cleared \in BOOLEAN :
       \E s \in IF cleared /\ in_txn THEN RollbackOutcomes(session)
                ELSE CommitIfAuto(session, in_txn, auto_commit) :
         session' = Disconnect(s)
  /\ handle' = "none"
  /\ connected' = FALSE
  /\ in_txn' = FALSE
  /\ prepared' = FALSE
  /\ scope' = {}
  /\ UNCHANGED <<auto_commit, acked, phantom>>

HandleNext ==
  \/ ConnectOk \/ ConnectFailed \/ Attach
  \/ BeginTransaction \/ CommitTransaction \/ RollBack
  \/ \E got \in BOOLEAN : Prepare(got)
  \/ \E w \in Work : ExecutePrepared(w) \/ ExecOk(w) \/ FailedAfterEffect(w)
  \/ ExecRefused
  \/ \E b \in BOOLEAN : SetAutoCommit(b)
  \/ EndRequest \/ Close

HandleSpec == HandleInit /\ [][HandleNext]_hvars

-----------------------------------------------------------------------------
\* With the library's default (autocommit on), a statement the application was
\* told had run, and that some server saw, is durable: no sequence of exec,
\* execute, beginTransaction, setAttribute, failures and persistent reuse
\* leaves it pending or loses it (pdo_nuodb_db_handle_doer, commit_if_auto).
AcknowledgedIsDurable == AutoDefault => acked \ phantom \subseteq session.durable

\* While a transaction is open in auto-commit mode, nothing acknowledged inside
\* it has been lost, whatever the library's autocommit is: the implicit commits
\* of exec may publish it early, but no path discards it before the end.
OpenWorkSurvives ==
  auto_commit /\ in_txn =>
    scope \ phantom \subseteq session.pending \cup session.durable

\* A call made with no transaction open never loses acknowledged work while the
\* script keeps the handle: only commit_if_auto can discard, and it must look
\* at the flag as it was before exec raised it.
IdleLosesNothing ==
  [][ ~in_txn /\ handle = "live" /\ handle' = "live" =>
        acked \cap (session.pending \cup session.durable)
          \subseteq session'.pending \cup session'.durable ]_hvars
=============================================================================
