----------------------------- MODULE RubyNative -----------------------------
(***************************************************************************)
(* The Ruby extension: one native connection behind WrapConnection and the *)
(* native statements behind WrapStatement and WrapPreparedStatement.  A    *)
(* method makes one library call and turns an SQLException into a Ruby     *)
(* error, so it is the set of its outcomes: whether it returned, and the   *)
(* native side afterwards.  A call that raised has had no effect.  Two     *)
(* methods differ: ping answers false instead, and getType of the metadata *)
(* has no try block, so that an exception there ends the process (nothing  *)
(* follows it, and it is no outcome).                                      *)
(*                                                                         *)
(* Releasing a wrapper (the garbage collector) deletes the wrapper only;   *)
(* the native object stays as it is, open or closed, and so a release is   *)
(* no step here.  The module has operators only, on a record: the session, *)
(* whether the server has dropped it, and the statements that are open.    *)
(***************************************************************************)
EXTENDS NuoSession

NativeType(Work, Stmt) ==
  [session : SessionType(Work), lost : BOOLEAN, open : SUBSET Stmt]

Returned(n) == [ok |-> TRUE, n |-> n]
Raised(n) == [ok |-> FALSE, n |-> n]

\* What a library call needs.
Reachable(n) == n.session.open /\ ~n.lost

\* A call that would leave n as m.
Attempt(n, m) == {Raised(n)} \cup IF Reachable(n) THEN {Returned(m)} ELSE {}

-----------------------------------------------------------------------------
\* createSqlConnection, on a database whose durable work is given.
CreateSqlConnection(durable) ==
  [session |-> [NewSession(TRUE) EXCEPT !.durable = durable], lost |-> FALSE, open |-> {}]

\* disconnect: closing a session the server has dropped closes it too.
CloseConnection(n) ==
  {Raised(n)} \cup
    IF n.session.open THEN {Returned([n EXCEPT !.session = Disconnect(n.session), !.open = {}])}
                      ELSE {}

\* ping answers, it never raises; an exception of the library's ping, which a
\* working connection may throw too, is the answer false.
Ping(n) == {FALSE, Reachable(n)}

\* createStatement and prepare, giving the native statement s.
CreateStatement(n, s) == Attempt(n, [n EXCEPT !.open = n.open \cup {s}])

\* close of a statement.
CloseStatement(n, s) == Attempt(n, [n EXCEPT !.open = n.open \ {s}])

\* execute of a statement that does the one piece of work in ws on the server,
\* or only reads (ws empty); a closed statement raises.
ExecuteStatement(n, s, ws) ==
  {Raised(n)} \cup
    IF ~Reachable(n) \/ s \notin n.open THEN {}
    ELSE IF ws = {} THEN {Returned(n)}
    ELSE {Returned([n EXCEPT !.session = Execute(n.session, w)]) : w \in ws}

\* getResultSet, getUpdateCount and getGeneratedKeys of a statement that ran.
TakeResults(n) == Attempt(n, n)

\* next and getMetaData of a result set, and the getters of its metadata.
ReadRow(n) == Attempt(n, n)
ReadMetaData(n) == Attempt(n, n)

\* autocommit=
SetAutoCommit(n, b) ==
  {Raised(n)} \cup
    IF Reachable(n) THEN {Returned([n EXCEPT !.session = s]) : s \in SetAutoCommitResults(n.session, b)}
                    ELSE {}

\* autocommit? asks the library, and may raise.
HasAutoCommit(n) == n.session.autocommit

CommitNative(n) == Attempt(n, [n EXCEPT !.session = Commit(n.session)])

RollbackNative(n) == Attempt(n, [n EXCEPT !.session = Rollback(n.session)])

\* The server drops the connection: unsettled work is gone.
Drop(n) == [n EXCEPT !.lost = TRUE, !.session = Rollback(n.session)]
=============================================================================
