------------------------------- MODULE PerlDbd -------------------------------
(***************************************************************************)
(* The Perl driver DBD::NuoDB: one database handle and its statement       *)
(* handles, in the process that connected and in a child it may fork.      *)
(* dbdimp.cpp does the work; the glue that DBI generates for the driver    *)
(* (NuoDB.knowngood.xsi.h) decides when it is called.                      *)
(*                                                                         *)
(* A call that throws has no effect on the session.  A call whose only     *)
(* effect is an error text is no action: fetch, bind_param, analyze,       *)
(* version, commit and rollback without a connection, and finish, which    *)
(* never reaches the driver because no statement handle is ever marked     *)
(* active.  AutoCommit set without a connection does more than that.       *)
(*                                                                         *)
(* threw and unsafe are history: some close has thrown; some child was     *)
(* forked without InactiveDestroy.                                         *)
(***************************************************************************)
EXTENDS NuoSession, Naturals

CONSTANTS Work,     \* pieces of work the application may run
          Sth,      \* statement handles
          MaxExec   \* bound: executions of a statement handle

ASSUME PerlAssumption == MaxExec \in Nat

VARIABLES dbh,       \* imp_dbh_t of each process
          sth,       \* imp_sth_t of each process
          dirty,     \* PL_dirty of each process: global destruction
          inactive,  \* InactiveDestroy of the child's handles
          session,
          prepared,  \* statements that are open in the library
          execs,     \* how often each statement was executed
          threw, unsafe

pvars == <<dbh, sth, dirty, inactive, session, prepared, execs, threw, unsafe>>

Process == {"parent", "child"}

NoDbh == [held |-> FALSE, conn |-> FALSE, active |-> FALSE, auto |-> TRUE]

\* rs is the execution whose result set the handle reads, 0 for NULL.
NoSth == [held |-> FALSE, pstmt |-> FALSE, rs |-> 0]

PerlTypeOK ==
  /\ dbh \in [Process -> [held : BOOLEAN, conn : BOOLEAN, active : BOOLEAN, auto : BOOLEAN]]
  /\ sth \in [Process -> [Sth -> [held : BOOLEAN, pstmt : BOOLEAN, rs : 0..MaxExec]]]
  /\ dirty \in [Process -> BOOLEAN]
  /\ inactive \in BOOLEAN
  /\ session \in SessionType(Work)
  /\ prepared \subseteq Sth
  /\ execs \in [Sth -> 0..MaxExec]
  /\ threw \in BOOLEAN
  /\ unsafe \in BOOLEAN

PerlInit ==
  /\ dbh = [p \in Process |-> NoDbh]
  /\ sth = [p \in Process |-> [s \in Sth |-> NoSth]]
  /\ dirty = [p \in Process |-> FALSE]
  /\ inactive = FALSE
  /\ session = NoSession
  /\ prepared = {}
  /\ execs = [s \in Sth |-> 0]
  /\ threw = FALSE
  /\ unsafe = FALSE

-----------------------------------------------------------------------------
HoldsSth(p) == \E s \in Sth : sth[p][s].held

Fresh(w) == w \notin session.pending \cup session.durable

\* The application's own calls need a connection, and succeed only on a session
\* that nobody has closed.
Usable == dbh["parent"].held /\ dbh["parent"].conn /\ session.open /\ ~dirty["parent"]

\* dbd_db_login6_sv; DBI has the AutoCommit flag on in a new handle.  A login
\* that fails leaves no handle.
Login ==
  /\ \A p \in Process : ~dbh[p].held /\ ~HoldsSth(p)
  /\ ~session.open /\ ~dirty["parent"]
  /\ dbh' = [dbh EXCEPT !["parent"] = [held |-> TRUE, conn |-> TRUE, active |-> TRUE, auto |-> TRUE]]
  /\ session' = [NewSession(TRUE) EXCEPT !.durable = session.durable]
  /\ UNCHANGED <<sth, dirty, inactive, prepared, execs, threw, unsafe>>

\* Mutant: the flag is stored before the call, which throws.
StoreFlagFirst(b) ==
  /\ Usable
  /\ session' \in SetAutoCommitResults(session, b) \cup {session}
  /\ dbh' = [dbh EXCEPT !["parent"].auto = b]
  /\ UNCHANGED <<sth, dirty, inactive, prepared, execs, threw, unsafe>>

\* dbd_db_STORE_attrib: the flag follows the call.
StoreAutoCommit(b) ==
  /\ Usable
  /\ session' \in SetAutoCommitResults(session, b)
  /\ dbh' = [dbh EXCEPT !["parent"].auto = b]
  /\ UNCHANGED <<sth, dirty, inactive, prepared, execs, threw, unsafe>>

\* ... and without a connection the call is refused, but it leaves DBI the value
\* -900, which DBI takes for "off", whatever was asked.
StoreWithoutConnection ==
  /\ dbh["parent"].held /\ ~dbh["parent"].conn /\ ~dirty["parent"]
  /\ dbh' = [dbh EXCEPT !["parent"].auto = FALSE]
  /\ UNCHANGED <<sth, dirty, inactive, session, prepared, execs, threw, unsafe>>

CommitDbh ==
  /\ Usable
  /\ session' = Commit(session)
  /\ UNCHANGED <<dbh, sth, dirty, inactive, prepared, execs, threw, unsafe>>

RollbackDbh ==
  /\ Usable
  /\ session' = Rollback(session)
  /\ UNCHANGED <<dbh, sth, dirty, inactive, prepared, execs, threw, unsafe>>

-----------------------------------------------------------------------------
\* The library closes what was made on a session it closes.
PreparedAfter(s) == IF s.open THEN prepared ELSE {}

\* dbd_db_disconnect: done says whether close returned.
Closed(s, done) == IF done THEN Disconnect(s) ELSE s

\* disconnect of the glue: the handle is inactive afterwards, but when close
\* threw it keeps its connection, and all calls but disconnect still use it.
DisconnectDbh(done) ==
  /\ dbh["parent"].held /\ dbh["parent"].active /\ ~dirty["parent"]
  /\ done => session.open
  /\ session' = Closed(session, done)
  /\ dbh' = [dbh EXCEPT !["parent"].active = FALSE, !["parent"].conn = ~done]
  /\ prepared' = PreparedAfter(session')
  /\ threw' = (threw \/ ~done)
  /\ UNCHANGED <<sth, dirty, inactive, execs, unsafe>>

\* Mutant: InactiveDestroy is not looked at.
ShutsAlways(p) == dbh[p].active

\* InactiveDestroy clears the active flag first.
Shuts(p) == dbh[p].active /\ ~(p = "child" /\ inactive)

\* Mutant: the handle is destroyed without a disconnect.
ShutdownOnlyRollsBack(p) ==
  {[s |-> IF dbh[p].auto THEN session ELSE Rollback(session), done |-> TRUE]}

\* Rolls back unless AutoCommit is on, which may throw ...
RollbackBefore(p) ==
  IF dbh[p].auto \/ ~session.open THEN {session} ELSE {session, Rollback(session)}

\* ... then closes, which may throw and does on a session closed before.
CloseReturns == IF session.open THEN BOOLEAN ELSE {FALSE}

\* DESTROY of the glue on an active handle.
ShutdownResults(p) ==
  {[s |-> Closed(r, done), done |-> done] : r \in RollbackBefore(p), done \in CloseReturns}

\* DESTROY and dbd_db_destroy.  A handle outlives its statement handles, except
\* in global destruction.
DestroyDbh(p) ==
  /\ dbh[p].held
  /\ dirty[p] \/ ~HoldsSth(p)
  /\ dbh' = [dbh EXCEPT ![p].held = FALSE, ![p].conn = FALSE, ![p].active = FALSE]
  /\ \/ Shuts(p) /\ \E r \in ShutdownResults(p) :
                       session' = r.s /\ threw' = (threw \/ ~r.done)
     \/ ~Shuts(p) /\ UNCHANGED <<session, threw>>
  /\ prepared' = PreparedAfter(session')
  /\ UNCHANGED <<sth, dirty, inactive, execs, unsafe>>

-----------------------------------------------------------------------------
\* dbd_st_prepare_sv.
Prepare(s) ==
  /\ Usable
  /\ ~sth["parent"][s].held /\ ~sth["child"][s].held /\ s \notin prepared
  /\ sth' = [sth EXCEPT !["parent"][s] = [held |-> TRUE, pstmt |-> TRUE, rs |-> 0]]
  /\ prepared' = prepared \cup {s}
  /\ execs' = [execs EXCEPT ![s] = 0]
  /\ UNCHANGED <<dbh, dirty, inactive, session, threw, unsafe>>

\* The library has the statement but its parameters cannot be had: prepare
\* returns no handle, Perl destroys the one it had at once, and that close throws.
PrepareThrows(s) ==
  /\ Usable
  /\ ~sth["parent"][s].held /\ ~sth["child"][s].held /\ s \notin prepared
  /\ prepared' = prepared \cup {s} /\ threw' = TRUE
  /\ UNCHANGED <<dbh, sth, dirty, inactive, session, execs, unsafe>>

\* selectall_arrayref and selectrow_arrayref of a text, and DBI's do: a handle the
\* application never sees is prepared, executed, read and destroyed.  Each of
\* these may throw; the work may be done all the same.
SelectNew(s, w) ==
  /\ Usable /\ Fresh(w)
  /\ ~sth["parent"][s].held /\ ~sth["child"][s].held /\ s \notin prepared
  /\ session' \in {session, Execute(session, w)}
  /\ \/ UNCHANGED <<prepared, threw>>
     \/ prepared' = prepared \cup {s} /\ threw' = TRUE
  /\ UNCHANGED <<dbh, sth, dirty, inactive, execs, unsafe>>

\* Mutant: the number of the next execution.
ReadsNextResult(s, rs) == sth' = [sth EXCEPT !["parent"][s].rs = rs + 1]

\* Mutant: the pointer is replaced only when there is a new result.
ReadsNewResult(s, rs) ==
  IF rs = 0 THEN UNCHANGED sth ELSE sth' = [sth EXCEPT !["parent"][s].rs = rs]

\* Every execute drops the result set of the one before it, unclosed.
ReadsResult(s, rs) == sth' = [sth EXCEPT !["parent"][s].rs = rs]

\* dbd_st_execute of a query.  It reports failure when the metadata throws,
\* but the result can be fetched all the same.
ExecuteQuery(s) ==
  /\ Usable
  /\ sth["parent"][s].held /\ execs[s] < MaxExec
  /\ execs' = [execs EXCEPT ![s] = @ + 1]
  /\ ReadsResult(s, execs'[s])
  /\ UNCHANGED <<dbh, dirty, inactive, session, prepared, threw, unsafe>>

\* ... of anything else: the work is done; there may be no generated keys, or
\* getting them throws.
ExecuteWork(s, w, keys) ==
  /\ Usable /\ Fresh(w)
  /\ sth["parent"][s].held /\ execs[s] < MaxExec
  /\ session' = Execute(session, w)
  /\ execs' = [execs EXCEPT ![s] = @ + 1]
  /\ ReadsResult(s, IF keys THEN execs'[s] ELSE 0)
  /\ UNCHANGED <<dbh, dirty, inactive, prepared, threw, unsafe>>

\* ... that throws, as on a session that somebody else closed.
ExecuteThrows(s) ==
  /\ dbh["parent"].held /\ dbh["parent"].conn /\ ~dirty["parent"]
  /\ sth["parent"][s].held /\ execs[s] < MaxExec
  /\ execs' = [execs EXCEPT ![s] = @ + 1]
  /\ ReadsResult(s, 0)
  /\ UNCHANGED <<dbh, dirty, inactive, session, prepared, threw, unsafe>>

\* Mutant: only the result set is closed.
CloseResultOnly(s) == UNCHANGED <<prepared, threw>>

\* What dbd_st_destroy does with a connection: the result set, then the
\* statement, whichever process asks; a result set that throws keeps both.
CloseStatement(s) ==
  \/ session.open /\ prepared' = prepared \ {s} /\ UNCHANGED threw
  \/ threw' = TRUE /\ UNCHANGED prepared

\* InactiveDestroy of a statement handle changes nothing here: it clears a flag
\* that is never set.
DestroySth(p, s) ==
  /\ sth[p][s].held
  /\ sth' = [sth EXCEPT ![p][s] = NoSth]
  /\ \/ dbh[p].conn /\ CloseStatement(s)
     \/ ~dbh[p].conn /\ UNCHANGED <<prepared, threw>>
  /\ UNCHANGED <<dbh, dirty, inactive, session, execs, unsafe>>

-----------------------------------------------------------------------------
\* The child gets a copy of every handle on the same session, and destroys them
\* as DBI's InactiveDestroy says.
Fork(safe) ==
  /\ dbh["parent"].held /\ ~dbh["child"].held /\ ~HoldsSth("child") /\ ~dirty["parent"]
  /\ dbh' = [dbh EXCEPT !["child"] = dbh["parent"]]
  /\ sth' = [sth EXCEPT !["child"] = sth["parent"]]
  /\ dirty' = [dirty EXCEPT !["child"] = FALSE]
  /\ inactive' = safe
  /\ unsafe' = (unsafe \/ ~safe)
  /\ UNCHANGED <<session, prepared, execs, threw>>

\* A process ends: what is left is destroyed in any order.
Exit(p) ==
  /\ ~dirty[p] /\ dbh[p].held
  /\ dirty' = [dirty EXCEPT ![p] = TRUE]
  /\ UNCHANGED <<dbh, sth, inactive, session, prepared, execs, threw, unsafe>>

PerlNext ==
  \/ Login \/ StoreWithoutConnection \/ CommitDbh \/ RollbackDbh
  \/ \E b \in BOOLEAN : StoreAutoCommit(b) \/ DisconnectDbh(b) \/ Fork(b)
  \/ \E s \in Sth : Prepare(s) \/ PrepareThrows(s) \/ ExecuteQuery(s) \/ ExecuteThrows(s)
  \/ \E s \in Sth, w \in Work : SelectNew(s, w) \/ \E keys \in BOOLEAN : ExecuteWork(s, w, keys)
  \/ \E p \in Process : DestroyDbh(p) \/ Exit(p) \/ \E s \in Sth : DestroySth(p, s)

PerlSpec == PerlInit /\ [][PerlNext]_pvars

-----------------------------------------------------------------------------
\* A statement handle reads the result of its latest execution or none: an
\* execute that fails at any point leaves no older result to fetch from
\* (rs = NULL before the call in dbd_st_execute).
ResultIsCurrent ==
  \A s \in Sth : sth["parent"][s].rs \in {0, execs[s]}

\* A session without a connected handle is closed: only a close that threw leaves
\* one open; and the session of an active handle is open: only a child without
\* InactiveDestroy closes it.  Whatever the order of disconnect, DESTROY, fork and
\* the two exits.
SessionFollowsHandle ==
  /\ session.open /\ ~dbh["parent"].conn => threw
  /\ ~session.open /\ dbh["parent"].active => unsafe

\* A statement is closed with its handle or with its session, also when
\* global destruction takes the database handle first and dbd_st_destroy finds
\* no connection.
StatementsAreClosed ==
  \A s \in prepared : sth["parent"][s].held \/ threw

\* dbd_db_FETCH_attrib
AutoCommit == dbh["parent"].auto

Contract == INSTANCE TransactionContract
  WITH live <- session.open, auto <- AutoCommit,
       unsettled <- session.pending, published <- session.durable

\* The driver keeps the promise of TransactionContract with the AutoCommit
\* attribute the application reads, which is DBI's flag and not the session's:
\* setting it on a handle without a connection, which DBI turns into "off", never
\* meets an open session.
ImplementsContract == Contract!ContractSpec
=============================================================================
