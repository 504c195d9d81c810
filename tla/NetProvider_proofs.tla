-------------------------- MODULE NetProvider_proofs --------------------------
(***************************************************************************)
(* Theorems of NetProvider, for any set of statements, readers and result  *)
(* sets and either autocommit default of the library.                      *)
(***************************************************************************)
EXTENDS NetProvider, NuoSession_proofs

\* With the library's default, a connection that has no begun transaction is in
\* autocommit, unless its restoration has thrown.
AutoAtRest == AutoDefault /\ ~restoreFailed /\ open /\ ~txn.begun => session.autocommit

\* What was not run is nowhere on the server.
UnrunIsAbsent == \A w \in Work : runs[w] = 0 => w \notin session.pending \cup session.durable

\* The object never has its connection, and work is in scope only while it has
\* begun.
ScopeIsOpen == ~txn.connection /\ (~txn.begun => scoped = {})

\* What keeps the properties of the connection: m_inTransaction, the object and
\* the mode of the session in step.
ConnectionInv ==
  /\ ConnectionTypeOK
  /\ AutoAtRest /\ UnrunIsAbsent /\ ScopeIsOpen
  /\ PlainWorkIsDurable
  /\ TransactionIsIsolated

\* How RollbackTransaction may end: with the transaction as it was, or rolled
\* back, and then in autocommit unless the restoration threw.
LEMMA CloseOutcomes ==
  ASSUME ConnectionInv, NEW r \in CloseResults
  PROVE  /\ r.s \in SessionType(Work) /\ r.done \in BOOLEAN /\ r.inTxn \in BOOLEAN
         /\ r.done => ~r.inTxn
         /\ r.inTxn => inTransaction /\ r.s = session
         /\ session.durable = r.s.durable
         /\ r.s.pending \subseteq session.pending
         /\ inTransaction /\ ~r.inTxn /\ ~Unrestored(r) => r.s.autocommit
         /\ ~inTransaction => r.s = session
<1>1. session \in SessionType(Work)
  BY DEF ConnectionInv, ConnectionTypeOK
<1>2. Rollback(session) \in SessionType(Work)
  BY <1>1, SessionClosed
<1>3. CASE ~inTransaction
  <2>1. r = [done |-> TRUE, inTxn |-> FALSE, s |-> session]
    BY <1>3 DEF CloseResults, EndTransaction
  <2>2. session.pending \subseteq session.pending
    OBVIOUS
  <2> QED BY <1>1, <1>3, <2>1
<1>4. CASE inTransaction
  <2>0. \/ r = [done |-> FALSE, inTxn |-> TRUE, s |-> session]
        \/ r = [done |-> FALSE, inTxn |-> FALSE, s |-> Rollback(session)]
        \/ \E q \in SetAutoCommitResults(Rollback(session), TRUE) :
              r = [done |-> TRUE, inTxn |-> FALSE, s |-> q]
    BY <1>4 DEF CloseResults, EndTransaction
  <2>1. CASE r = [done |-> FALSE, inTxn |-> TRUE, s |-> session]
    BY <1>1, <1>4, <2>1
  <2>2. CASE r = [done |-> FALSE, inTxn |-> FALSE, s |-> Rollback(session)]
    <3>1. Rollback(session).durable = session.durable /\ Rollback(session).pending = {}
      BY <1>1 DEF Rollback, SessionType
    <3> QED BY <1>2, <1>4, <2>2, <3>1 DEF Unrestored
  <2>3. ASSUME NEW q \in SetAutoCommitResults(Rollback(session), TRUE),
               r = [done |-> TRUE, inTxn |-> FALSE, s |-> q]
        PROVE  /\ r.s \in SessionType(Work) /\ r.done = TRUE /\ r.inTxn = FALSE /\ r.s.autocommit
               /\ r.s.durable = session.durable /\ r.s.pending = {}
    <3>1. /\ q \in SessionType(Work) /\ q.autocommit
          /\ q.durable = session.durable /\ q.pending = {}
      <4> DEFINE t == Rollback(session)
      <4>1. t \in SessionType(Work) /\ t.durable = session.durable /\ t.pending = {}
        BY <1>1 DEF Rollback, SessionType
      <4> HIDE DEF t
      <4>2. Commit(t) \in SessionType(Work) /\ Commit(t).durable = t.durable /\ Commit(t).pending = {}
        BY <4>1 DEF Commit, SessionType
      <4>3. q = [t EXCEPT !.autocommit = TRUE] \/ q = [Commit(t) EXCEPT !.autocommit = TRUE]
        BY DEF SetAutoCommitResults, t
      <4> QED BY <4>1, <4>2, <4>3 DEF SessionType
    <3> QED BY <2>3, <3>1
  <2>4. CASE \E q \in SetAutoCommitResults(Rollback(session), TRUE) :
               r = [done |-> TRUE, inTxn |-> FALSE, s |-> q]
    <3>1. /\ r.s \in SessionType(Work) /\ r.done = TRUE /\ r.inTxn = FALSE /\ r.s.autocommit
          /\ r.s.durable = session.durable /\ r.s.pending = {}
      BY <2>3, <2>4
    <3> QED BY <1>4, <3>1
  <2> QED BY <2>0, <2>1, <2>2, <2>4
<1> QED BY <1>3, <1>4

\* The members after a close that ended as r, on whatever connection is left.
LEMMA CloseKeepsInv ==
  ASSUME ConnectionInv, NEW r \in CloseResults, AfterClose(r),
         session' \in SessionType(Work), configured' = configured,
         open' \in BOOLEAN, disposed' \in BOOLEAN, plain' = plain, runs' = runs,
         r.inTxn => open' /\ session' = session /\ open,
         session'.durable = session.durable,
         session'.pending \subseteq session.pending,
         open' => \/ session'.autocommit = r.s.autocommit
                  \/ session'.autocommit = AutoDefault,
         open
  PROVE  ConnectionInv' /\ scoped \cap session'.durable = {}
<1>0. /\ r.s \in SessionType(Work) /\ r.done \in BOOLEAN /\ r.inTxn \in BOOLEAN
      /\ r.inTxn => inTransaction /\ r.s = session
      /\ inTransaction /\ ~r.inTxn /\ ~Unrestored(r) => r.s.autocommit
      /\ ~inTransaction => r.s = session
  BY CloseOutcomes
<1>t. ConnectionTypeOK /\ ConnectionTypeOK'
  BY <1>0 DEF ConnectionInv, ConnectionTypeOK, AfterClose, Unrestored, NoTransaction
<1>s. ScopeIsOpen'
  BY <1>0 DEF ConnectionInv, ConnectionTypeOK, ScopeIsOpen, AfterClose, NoTransaction
<1>u. UnrunIsAbsent'
  BY <1>t DEF ConnectionInv, ConnectionTypeOK, SessionType, UnrunIsAbsent
<1>p. PlainWorkIsDurable'
  BY DEF ConnectionInv, PlainWorkIsDurable, AfterClose
<1>i. TransactionIsIsolated' /\ scoped \cap session'.durable = {}
  <2>1. scoped \cap session.durable = {}
    BY DEF ConnectionInv, ScopeIsOpen, TransactionIsIsolated
  <2>2. CASE r.inTxn
    BY <1>0, <2>1, <2>2 DEF ConnectionInv, TransactionIsIsolated, AfterClose, NoTransaction
  <2>3. CASE ~r.inTxn
    BY <1>0, <1>t, <2>1, <2>3 DEF ConnectionTypeOK, TransactionIsIsolated, AfterClose, NoTransaction
  <2> QED BY <2>2, <2>3, <1>0
<1>a. AutoAtRest'
  <2> SUFFICES ASSUME AutoDefault, ~restoreFailed', open', ~txn'.begun PROVE session'.autocommit
    BY DEF AutoAtRest
  <2>1. ~restoreFailed /\ ~Unrestored(r)
    BY DEF AfterClose
  <2>2. CASE r.inTxn
    BY <1>0, <2>1, <2>2 DEF ConnectionInv, AutoAtRest, AfterClose, NoTransaction
  <2>3. CASE ~r.inTxn
    <3>1. r.s.autocommit
      <4>1. CASE inTransaction
        BY <1>0, <2>1, <2>3, <4>1
      <4>2. CASE ~inTransaction
        BY <1>0, <2>1, <4>2 DEF ConnectionInv, AutoAtRest, TransactionIsIsolated
      <4> QED BY <1>t, <4>1, <4>2 DEF ConnectionTypeOK
    <3> QED BY <3>1
  <2> QED BY <2>2, <2>3, <1>0
<1> QED BY <1>t, <1>s, <1>u, <1>p, <1>i, <1>a DEF ConnectionInv

\* The calls that give the connection up keep the invariant and publish nothing of
\* its transaction.
LEMMA CloseStep ==
  ASSUME ConnectionInv, CloseConnection \/ ChangeDatabase \/ Dispose
  PROVE  ConnectionInv' /\ scoped \cap session'.durable = {}
<1>0. /\ ConnectionTypeOK /\ AutoAtRest /\ UnrunIsAbsent /\ ScopeIsOpen
      /\ PlainWorkIsDurable /\ TransactionIsIsolated
  BY DEF ConnectionInv
<1>t. session \in SessionType(Work) /\ configured \in BOOLEAN /\ open \in BOOLEAN
  BY <1>0 DEF ConnectionTypeOK
<1>c. ASSUME NEW r \in CloseResults
      PROVE  /\ r.done \in BOOLEAN /\ (r.done => ~r.inTxn) /\ (r.inTxn => r.s = session)
             /\ r.s \in SessionType(Work)
             /\ Disconnect(r.s) \in SessionType(Work)
             /\ Disconnect(r.s).durable = session.durable /\ Disconnect(r.s).pending = {}
             /\ r.s.durable = session.durable /\ r.s.pending \subseteq session.pending
  BY CloseOutcomes, SessionClosed DEF Disconnect, Rollback, SessionType
<1>1. CASE CloseConnection
  <2>1. PICK r \in CloseResults :
          /\ AfterClose(r)
          /\ open' = ~r.done
          /\ session' = IF r.done THEN Disconnect(r.s) ELSE r.s
    BY <1>1 DEF CloseConnection
  <2>2. /\ open /\ open' \in BOOLEAN /\ disposed' \in BOOLEAN
        /\ configured' = configured /\ plain' = plain /\ runs' = runs
    BY <1>0, <1>1, <1>c, <2>1 DEF CloseConnection, ConnectionTypeOK
  <2> QED BY <1>c, <2>1, <2>2, CloseKeepsInv
<1>2. CASE Dispose
  <2>1. PICK r \in CloseResults :
          /\ AfterClose(r)
          /\ open' = ~r.done
          /\ disposed' = r.done
          /\ session' = IF r.done THEN Disconnect(r.s) ELSE r.s
    BY <1>2 DEF Dispose
  <2>2. /\ open /\ open' \in BOOLEAN /\ disposed' \in BOOLEAN
        /\ configured' = configured /\ plain' = plain /\ runs' = runs
    BY <1>2, <1>c, <2>1 DEF Dispose
  <2> QED BY <1>c, <2>1, <2>2, CloseKeepsInv
<1>3. CASE ChangeDatabase
  <2>1. PICK r \in CloseResults, reopened \in BOOLEAN :
          /\ reopened => r.done /\ configured
          /\ AfterClose(r)
          /\ open' = (reopened \/ ~r.done)
          /\ session' = IF reopened THEN [Connected EXCEPT !.durable = r.s.durable]
                        ELSE IF r.done THEN Disconnect(r.s) ELSE r.s
    BY <1>3 DEF ChangeDatabase
  <2>2. /\ open /\ open' \in BOOLEAN /\ disposed' \in BOOLEAN
        /\ configured' = configured /\ plain' = plain /\ runs' = runs
    BY <1>0, <1>3, <1>c, <2>1 DEF ChangeDatabase, ConnectionTypeOK
  <2>3. CASE reopened
    <3>1. /\ session' \in SessionType(Work) /\ session'.autocommit = AutoDefault
          /\ session'.durable = session.durable /\ session'.pending = {}
      BY <1>t, <1>c, <2>1, <2>3, ConnectionAssumption DEF Connected, NewSession, SessionType
    <3>2. ~r.inTxn
      BY <1>c, <2>1, <2>3
    <3> QED BY <2>1, <2>2, <3>1, <3>2, CloseKeepsInv
  <2>4. CASE ~reopened
    BY <1>c, <2>1, <2>2, <2>4, CloseKeepsInv
  <2> QED BY <2>3, <2>4
<1> QED BY <1>1, <1>2, <1>3

\* Every call of the connection or its transaction keeps the invariant.
LEMMA ConnectionStep ==
  ASSUME ConnectionInv, ConnectionNext
  PROVE  ConnectionInv'
<1>0. /\ ConnectionTypeOK /\ AutoAtRest /\ UnrunIsAbsent /\ ScopeIsOpen
      /\ PlainWorkIsDurable /\ TransactionIsIsolated
  BY DEF ConnectionInv
<1>t. session \in SessionType(Work) /\ configured \in BOOLEAN /\ open \in BOOLEAN
  BY <1>0 DEF ConnectionTypeOK
<1>4. CASE SetConnectionString
  BY <1>0, <1>4 DEF SetConnectionString, Parsed, ConnectionInv, ConnectionTypeOK, AutoAtRest,
     UnrunIsAbsent, ScopeIsOpen, PlainWorkIsDurable, TransactionIsIsolated
<1>5. CASE Open
  <2>1. /\ session' \in SessionType(Work) /\ session'.autocommit = AutoDefault
        /\ session'.durable = session.durable /\ session'.pending = {}
    BY <1>t, <1>5, ConnectionAssumption DEF Open, Connected, NewSession, SessionType
  <2>2. ~txn.begun
    BY <1>0, <1>5 DEF Open, TransactionIsIsolated
  <2> QED BY <1>0, <1>5, <2>1, <2>2 DEF Open, ConnectionInv, ConnectionTypeOK, AutoAtRest,
     UnrunIsAbsent, ScopeIsOpen, PlainWorkIsDurable, TransactionIsIsolated
<1>6. CASE BeginTransaction
  <2>1. CASE UNCHANGED <<session, txn, scoped>>
    BY <1>0, <1>6, <2>1 DEF BeginTransaction, ConnectionInv, ConnectionTypeOK, AutoAtRest,
       UnrunIsAbsent, ScopeIsOpen, PlainWorkIsDurable, TransactionIsIsolated
  <2>2. CASE /\ session' \in SetAutoCommitResults(session, FALSE)
             /\ txn' = [NoTransaction EXCEPT !.begun = TRUE]
             /\ scoped' = {}
    <3>1. /\ session' \in SessionType(Work) /\ session'.autocommit = FALSE
          /\ session'.durable = session.durable /\ session'.pending = session.pending
      BY <1>t, <2>2 DEF SetAutoCommitResults, SessionType
    <3>2. txn' = [begun |-> TRUE, connection |-> FALSE, last |-> "none"]
      BY <2>2 DEF NoTransaction
    <3>3. /\ inTransaction' = TRUE /\ open' = open /\ open
          /\ UNCHANGED <<configured, disposed, plain, runs, restoreFailed>>
      BY <1>6 DEF BeginTransaction
    <3>4. ConnectionTypeOK'
      <4>1. txn' \in [begun : BOOLEAN, connection : BOOLEAN, last : {"none", "returned", "threw"}]
        BY <3>2
      <4>2. scoped' \subseteq Work
        BY <2>2
      <4> QED BY <1>0, <3>1, <3>3, <4>1, <4>2 DEF ConnectionTypeOK
    <3>5. AutoAtRest' /\ UnrunIsAbsent' /\ ScopeIsOpen' /\ PlainWorkIsDurable' /\ TransactionIsIsolated'
      BY <1>0, <2>2, <3>1, <3>2, <3>3 DEF AutoAtRest, UnrunIsAbsent, ScopeIsOpen,
         PlainWorkIsDurable, TransactionIsIsolated
    <3> QED BY <3>4, <3>5 DEF ConnectionInv
  <2> QED BY <1>6, <2>1, <2>2 DEF BeginTransaction
<1>7. CASE TransactionCommit \/ TransactionRollback
  <2>1. txn.begun /\ ~txn.connection
    BY <1>0, <1>7 DEF TransactionCommit, TransactionRollback, TransactionEnds, ScopeIsOpen
  <2>2. /\ txn' = [txn EXCEPT !.last = "threw"]
        /\ UNCHANGED <<inTransaction, session, restoreFailed, scoped>>
        /\ UNCHANGED <<configured, open, disposed, plain, runs>>
    BY <1>7, <2>1 DEF TransactionCommit, TransactionRollback, TransactionEnds
  <2>3. /\ txn' \in [begun : BOOLEAN, connection : BOOLEAN, last : {"none", "returned", "threw"}]
        /\ txn'.begun = txn.begun /\ txn'.connection = txn.connection
    BY <1>0, <2>2 DEF ConnectionTypeOK
  <2> QED BY <1>0, <2>2, <2>3 DEF ConnectionInv, ConnectionTypeOK, AutoAtRest,
     UnrunIsAbsent, ScopeIsOpen, PlainWorkIsDurable, TransactionIsIsolated
<1>8. ASSUME NEW w \in Work, open, runs[w] = 0, session' = Execute(session, w),
             NEW n \in {1, 2}, runs' = [runs EXCEPT ![w] = n],
             UNCHANGED <<configured, open, disposed, inTransaction, txn, restoreFailed>>,
             \/ txn.begun /\ scoped' \in {scoped, scoped \cup {w}} /\ plain' = plain
             \/ ~txn.begun /\ plain' \in {plain, plain \cup {w}} /\ scoped' = scoped
      PROVE  ConnectionInv'
  <2>1. /\ session' \in SessionType(Work) /\ session'.autocommit = session.autocommit
        /\ session.autocommit => /\ session'.durable = session.durable \cup {w}
                                 /\ session'.pending = session.pending
        /\ ~session.autocommit => /\ session'.pending = session.pending \cup {w}
                                  /\ session'.durable = session.durable
    BY <1>t, <1>8 DEF Execute, SessionType
  <2>2. runs' \in [Work -> 0..2] /\ runs'[w] # 0 /\ \A v \in Work \ {w} : runs'[v] = runs[v]
    BY <1>0, <1>8 DEF ConnectionTypeOK
  <2>3. w \notin session.pending \cup session.durable
    BY <1>0, <1>8 DEF UnrunIsAbsent
  <2>4. ConnectionTypeOK'
    BY <1>0, <1>8, <2>1, <2>2 DEF ConnectionTypeOK
  <2>5. AutoAtRest' /\ ScopeIsOpen'
    BY <1>0, <1>8, <2>1 DEF AutoAtRest, ScopeIsOpen
  <2>6. UnrunIsAbsent'
    BY <1>0, <2>1, <2>2 DEF UnrunIsAbsent
  <2>7. PlainWorkIsDurable'
    BY <1>0, <1>8, <2>1 DEF AutoAtRest, PlainWorkIsDurable
  <2>8. TransactionIsIsolated'
    BY <1>0, <1>8, <2>1, <2>3 DEF TransactionIsIsolated
  <2> QED BY <2>4, <2>5, <2>6, <2>7, <2>8 DEF ConnectionInv
<1>9. ASSUME NEW w \in Work, NEW p \in BOOLEAN, RunCommand(w, p) PROVE ConnectionInv'
  BY <1>8, <1>9 DEF RunCommand, Times
<1>10. ASSUME NEW w \in Work, RunCommandFails(w) PROVE ConnectionInv'
  BY <1>8, <1>10 DEF RunCommandFails
<1> QED BY <1>4, <1>5, <1>6, <1>7, <1>9, <1>10, CloseStep DEF ConnectionNext

-----------------------------------------------------------------------------
\* Seen from the connection, a step of either thread is one of its own calls, the
\* finalization of the connection, or nothing.
LEMMA ConnectionView ==
  ASSUME [ProviderNext]_vars
  PROVE  ConnectionNext \/ FinalizeConnection \/ UNCHANGED nvars
<1>1. CASE ConnectionCall
  BY <1>1 DEF ConnectionCall, ConnectionNext
<1>2. CASE StartExecute \/ ExecuteOnDeleted \/ DisposeCommand \/ DropConnection \/ FinalizeCommand
  BY <1>2 DEF StartExecute, ExecuteOnDeleted, DisposeCommand, DropConnection, FinalizeCommand, Die
<1>3. CASE ExecuteFails
  BY <1>3 DEF ExecuteFails, ConnectionNext
<1>4. ASSUME NEW w \in Work, NEW p \in BOOLEAN,
             ExecuteCommand(w, p) \/ \E r \in Reader, c \in BOOLEAN : ExecuteReader(w, p, r, c)
      PROVE  ConnectionNext
  BY <1>4 DEF ExecuteCommand, ExecuteReader, ConnectionNext
<1>5. ASSUME NEW r \in Reader, AppCloseReader(r) \/ DropReader(r) \/ FinalizeReader(r)
      PROVE  CloseConnection \/ UNCHANGED nvars
  BY <1>5 DEF AppCloseReader, DropReader, FinalizeReader, CloseReader, Die
<1>6. CASE UNCHANGED vars
  BY <1>6 DEF vars
<1> QED BY <1>1, <1>2, <1>3, <1>4, <1>5, <1>6 DEF ProviderNext, Finalizer, ConnectionNext

\* The finalizer takes the connection away with its transaction.
LEMMA FinalizeStep ==
  ASSUME ConnectionInv, FinalizeConnection
  PROVE  ConnectionInv'
<1>1. /\ ConnectionTypeOK /\ UnrunIsAbsent /\ PlainWorkIsDurable
  BY DEF ConnectionInv
<1>2. /\ session' \in SessionType(Work)
      /\ session'.durable = session.durable /\ session'.pending = {}
  BY <1>1, SessionClosed DEF FinalizeConnection, ConnectionTypeOK, Disconnect, Rollback, SessionType
<1>3. /\ open' = FALSE /\ txn' = NoTransaction /\ scoped' = {}
      /\ UNCHANGED <<configured, disposed, inTransaction, plain, runs, restoreFailed>>
  BY DEF FinalizeConnection
<1>4. ConnectionTypeOK'
  BY <1>1, <1>2, <1>3 DEF ConnectionTypeOK, NoTransaction
<1> QED BY <1>1, <1>2, <1>3, <1>4 DEF ConnectionInv, AutoAtRest, UnrunIsAbsent, ScopeIsOpen,
  PlainWorkIsDurable, TransactionIsIsolated, NoTransaction

LEMMA ConnectionInvariant == ProviderSpec => []ConnectionInv
<1>1. ProviderInit => ConnectionInv
  <2> SUFFICES ASSUME ConnectionInit PROVE ConnectionInv
    BY DEF ProviderInit
  <2>1. /\ session \in SessionType(Work) /\ session.pending = {} /\ session.durable = {}
    BY DEF ConnectionInit, NoSession, SessionType
  <2>2. /\ txn \in [begun : BOOLEAN, connection : BOOLEAN, last : {"none", "returned", "threw"}]
        /\ ~txn.begun /\ ~txn.connection
    BY DEF ConnectionInit, NoTransaction
  <2>3. ConnectionTypeOK
    <3>1. runs \in [Work -> 0..2]
      BY DEF ConnectionInit
    <3>2. plain \subseteq Work /\ scoped \subseteq Work
      BY DEF ConnectionInit
    <3> QED BY <2>1, <2>2, <3>1, <3>2 DEF ConnectionInit, ConnectionTypeOK
  <2> QED BY <2>1, <2>2, <2>3 DEF ConnectionInit, ConnectionInv,
    AutoAtRest, UnrunIsAbsent, ScopeIsOpen, PlainWorkIsDurable, TransactionIsIsolated
<1>2. ConnectionInv /\ [ProviderNext]_vars => ConnectionInv'
  <2> SUFFICES ASSUME ConnectionInv, [ProviderNext]_vars PROVE ConnectionInv'
    OBVIOUS
  <2>1. CASE UNCHANGED nvars
    BY <2>1 DEF nvars, ConnectionInv, ConnectionTypeOK, AutoAtRest, UnrunIsAbsent, ScopeIsOpen,
       PlainWorkIsDurable, TransactionIsIsolated
  <2> QED BY <2>1, ConnectionView, ConnectionStep, FinalizeStep
<1> QED BY <1>1, <1>2, PTL DEF ProviderSpec

\* Work done outside a transaction is durable, whatever either thread does, for
\* every set of statements: as long as autocommit was restored after each
\* transaction, and with the library's default.
THEOREM PlainWorkStaysDurable == ProviderSpec => []PlainWorkIsDurable
<1>1. ConnectionInv => PlainWorkIsDurable
  BY DEF ConnectionInv
<1> QED BY <1>1, ConnectionInvariant, PTL

\* A transaction the application holds is open in the session, with its work
\* pending, whatever either thread does.
THEOREM TransactionStaysIsolated == ProviderSpec => []TransactionIsIsolated
<1>1. ConnectionInv => TransactionIsIsolated
  BY DEF ConnectionInv
<1> QED BY <1>1, ConnectionInvariant, PTL

\* Giving the connection up publishes nothing of an open transaction, in every
\* history of the provider.
THEOREM ClosingDiscards == ProviderSpec => CloseDiscards
<1>1. ConnectionInv => [CloseConnection \/ ChangeDatabase \/ Dispose
                          => scoped \cap session'.durable = {}]_nvars
  BY CloseStep
<1> QED BY <1>1, ConnectionInvariant, PTL DEF CloseDiscards

-----------------------------------------------------------------------------
\* What a new result set, and the next value of a reader, can be.
LEMMA Handed ==
  ASSUME ProviderTypeOK, NEW x \in Unused
  PROVE  x \in Result /\ x \notin live /\ x # command /\ \A r \in Reader : reader[r].results # x
BY DEF Unused

LEMMA ReaderStep ==
  ASSUME ProviderTypeOK, NEW r \in Reader, NEW ok \in BOOLEAN
  PROVE  /\ [reader EXCEPT ![r].results = NULL, ![r].isClosed = ok] \in [Reader -> ReaderType]
         /\ [reader EXCEPT ![r].state = "dropped"] \in [Reader -> ReaderType]
         /\ [reader EXCEPT ![r] = NoReader] \in [Reader -> ReaderType]
<1>1. reader \in [Reader -> ReaderType] /\ reader[r] \in ReaderType /\ NoReader \in ReaderType
  BY DEF ProviderTypeOK, ReaderType, NoReader
<1>2. /\ [reader[r] EXCEPT !.results = NULL, !.isClosed = ok] \in ReaderType
      /\ [reader[r] EXCEPT !.state = "dropped"] \in ReaderType
  BY <1>1 DEF ReaderType
<1> QED BY <1>1, <1>2

\* Type correctness of the whole provider.
THEOREM ProviderTypeCorrect == ProviderSpec => []ProviderTypeOK
<1>1. ProviderInit /\ ConnectionInv => ProviderTypeOK
  <2> SUFFICES ASSUME ProviderInit, ConnectionInv PROVE ProviderTypeOK
    OBVIOUS
  <2>1. NoReader \in ReaderType
    BY DEF NoReader, ReaderType
  <2>2. reader \in [Reader -> ReaderType]
    BY <2>1 DEF ProviderInit
  <2>3. ConnectionTypeOK
    BY DEF ConnectionInv
  <2> QED BY <2>2, <2>3 DEF ProviderInit, ProviderTypeOK
<1>2. ProviderTypeOK /\ ConnectionInv' /\ [ProviderNext]_vars => ProviderTypeOK'
  <2> SUFFICES ASSUME ProviderTypeOK, ConnectionInv', [ProviderNext]_vars PROVE ProviderTypeOK'
    OBVIOUS
  <2>0. ConnectionTypeOK'
    BY DEF ConnectionInv
  <2>d. ASSUME NEW f \in {"double delete", "use after delete", "finalizer threw"}, Die(f)
        PROVE  ProviderTypeOK'
    BY <2>0, <2>d DEF Die, ProviderTypeOK
  <2>1. CASE ConnectionCall
    BY <2>0, <2>1 DEF ConnectionCall, pvars, ProviderTypeOK
  <2>2. CASE StartExecute
    BY <2>0, <2>d, <2>2 DEF StartExecute, Delete, ProviderTypeOK
  <2>3. CASE ExecuteOnDeleted
    BY <2>d, <2>3 DEF ExecuteOnDeleted
  <2>4. ASSUME NEW w \in Work, NEW p \in BOOLEAN, ExecuteCommand(w, p) PROVE ProviderTypeOK'
    BY <2>0, <2>4, Handed DEF ExecuteCommand, EndExecute, ProviderTypeOK
  <2>5. CASE ExecuteFails
    BY <2>0, <2>5, Handed DEF ExecuteFails, EndExecute, ProviderTypeOK
  <2>6. ASSUME NEW w \in Work, NEW p \in BOOLEAN, NEW r \in Reader, NEW c \in BOOLEAN,
               ExecuteReader(w, p, r, c)
        PROVE  ProviderTypeOK'
    <3>1. PICK x \in Unused, built \in BOOLEAN :
            /\ live' = live \cup {x}
            /\ command' = IF built THEN NULL ELSE x
            /\ reader' = [reader EXCEPT ![r] =
                 [state |-> IF built THEN "held" ELSE "dropped", built |-> built,
                  closesConnection |-> c, results |-> x, isClosed |-> FALSE]]
            /\ lapses' = IF built THEN lapses ELSE lapses \cup {"constructor threw"}
      BY <2>6 DEF ExecuteReader
    <3>2. [state |-> IF built THEN "held" ELSE "dropped", built |-> built,
           closesConnection |-> c, results |-> x, isClosed |-> FALSE] \in ReaderType
      BY Handed DEF ReaderType
    <3>3. reader' \in [Reader -> ReaderType]
      BY <3>1, <3>2 DEF ProviderTypeOK
    <3> QED BY <2>0, <2>6, <3>1, <3>3, Handed DEF ExecuteReader, EndExecute, ProviderTypeOK
  <2>7. CASE DisposeCommand
    BY <2>0, <2>d, <2>7 DEF DisposeCommand, Delete, ProviderTypeOK
  <2>8. ASSUME NEW r \in Reader, AppCloseReader(r) PROVE ProviderTypeOK'
    <3>1. PICK ok \in BOOLEAN :
            /\ CloseReader(r, ok)
            /\ reader' = [reader EXCEPT ![r].results = NULL, ![r].isClosed = ok]
      BY <2>8 DEF AppCloseReader
    <3>2. live' \subseteq Result
      BY <3>1 DEF CloseReader, Delete, ProviderTypeOK
    <3>3. reader' \in [Reader -> ReaderType]
      BY <3>1, ReaderStep
    <3> QED BY <2>0, <2>8, <3>2, <3>3 DEF AppCloseReader, ProviderTypeOK
  <2>9. ASSUME NEW r \in Reader, DropReader(r) PROVE ProviderTypeOK'
    BY <2>0, <2>9, ReaderStep DEF DropReader, ProviderTypeOK
  <2>10. CASE DropConnection
    BY <2>0, <2>10 DEF DropConnection, ProviderTypeOK
  <2>11. ASSUME NEW r \in Reader, FinalizeReader(r) PROVE ProviderTypeOK'
    BY <2>0, <2>d, <2>11, ReaderStep DEF FinalizeReader, CloseReader, Delete, ProviderTypeOK
  <2>12. CASE FinalizeConnection
    BY <2>0, <2>12 DEF FinalizeConnection, ProviderTypeOK
  <2>13. CASE FinalizeCommand
    BY <2>0, <2>d, <2>13 DEF FinalizeCommand, Delete, ProviderTypeOK
  <2>14. CASE UNCHANGED vars
    BY <2>0, <2>14 DEF vars, pvars, ProviderTypeOK
  <2> QED BY <2>1, <2>2, <2>3, <2>4, <2>5, <2>6, <2>7, <2>8, <2>9, <2>10, <2>11, <2>12, <2>13,
    <2>14 DEF ProviderNext, Finalizer
<1> QED BY <1>1, <1>2, ConnectionInvariant, PTL DEF ProviderSpec

-----------------------------------------------------------------------------
\* The command and the readers hold different result sets, all of them live.
OneOwner ==
  /\ command \in live \cup {NULL}
  /\ \A r \in Reader : reader[r].results \in live \cup {NULL}
  /\ \A r \in Reader : reader[r].results # NULL =>
       /\ reader[r].results # command
       /\ \A q \in Reader \ {r} : reader[q].results # reader[r].results

LEMMA OneOwnerIsMeant ==
  ASSUME ProviderTypeOK
  PROVE  ResultsHaveOneOwner <=> ("constructor threw" \notin lapses => OneOwner)
BY ProviderAssumption DEF ResultsHaveOneOwner, OneOwner, Stale, ProviderTypeOK, ReaderType

\* Deleting what one reader holds, which then holds nothing, leaves the others
\* theirs.
LEMMA ReaderGivesUp ==
  ASSUME ProviderTypeOK, OneOwner, NEW r \in Reader, command' = command,
         reader' \in [Reader -> ReaderType], reader'[r].results = NULL,
         \A q \in Reader \ {r} : reader'[q] = reader[q],
         live' \in {live, live \ {reader[r].results}}
  PROVE  OneOwner'
<1>1. live \subseteq Result /\ NULL \notin live
  BY ProviderAssumption DEF ProviderTypeOK
<1> QED BY <1>1 DEF OneOwner

\* A result set has one owner, which does not hold it once it is deleted, unless
\* a reader's constructor has thrown; whatever the order of the two threads.
THEOREM ResultsKeepOneOwner == ProviderSpec => []ResultsHaveOneOwner
<1>1. ProviderInit => ResultsHaveOneOwner
  BY DEF ProviderInit, ResultsHaveOneOwner, Stale, NoReader
<1>2. ProviderTypeOK /\ ProviderTypeOK' /\ ResultsHaveOneOwner /\ [ProviderNext]_vars
        => ResultsHaveOneOwner'
  <2> SUFFICES ASSUME ProviderTypeOK, ProviderTypeOK', ResultsHaveOneOwner, [ProviderNext]_vars,
                      "constructor threw" \notin lapses'
               PROVE  OneOwner'
    BY DEF ResultsHaveOneOwner, OneOwner, Stale
  <2>0. /\ live \subseteq Result /\ NULL \notin live
        /\ reader' \in [Reader -> ReaderType] /\ reader \in [Reader -> ReaderType]
    BY ProviderAssumption DEF ProviderTypeOK
  <2>1. "constructor threw" \notin lapses
    <3>1. lapses \subseteq lapses'
      BY DEF ProviderNext, Finalizer, ConnectionCall, StartExecute, ExecuteOnDeleted, ExecuteFails,
         ExecuteCommand, ExecuteReader, DisposeCommand, AppCloseReader, DropReader, DropConnection,
         FinalizeReader, FinalizeConnection, FinalizeCommand, Die, EndExecute, vars, pvars
    <3> QED BY <3>1
  <2>2. OneOwner
    BY <2>1, OneOwnerIsMeant
  <2>3. CASE UNCHANGED <<live, command, reader>>
    BY <2>2, <2>3 DEF OneOwner
  <2>4. CASE live' = live \ {command} /\ command' = NULL /\ reader' = reader
    BY <2>0, <2>2, <2>4 DEF OneOwner
  <2>5. ASSUME NEW x \in Unused, live' = live \cup {x}, command' = x, reader' = reader
        PROVE  OneOwner'
    BY <2>0, <2>2, <2>5, Handed DEF OneOwner
  <2>6. ASSUME NEW w \in Work, NEW p \in BOOLEAN, NEW r \in Reader, NEW c \in BOOLEAN,
               ExecuteReader(w, p, r, c)
        PROVE  OneOwner'
    <3>1. PICK x \in Unused, built \in BOOLEAN :
            /\ live' = live \cup {x}
            /\ command' = IF built THEN NULL ELSE x
            /\ reader' = [reader EXCEPT ![r] =
                 [state |-> IF built THEN "held" ELSE "dropped", built |-> built,
                  closesConnection |-> c, results |-> x, isClosed |-> FALSE]]
            /\ lapses' = IF built THEN lapses ELSE lapses \cup {"constructor threw"}
      BY <2>6 DEF ExecuteReader
    <3>2. command' = NULL
      BY <3>1
    <3>3. reader'[r].results = x /\ \A q \in Reader \ {r} : reader'[q] = reader[q]
      BY <2>0, <3>1
    <3> QED BY <2>0, <2>2, <3>1, <3>2, <3>3, Handed DEF OneOwner
  <2>7. ASSUME NEW r \in Reader, AppCloseReader(r) PROVE OneOwner'
    <3>1. PICK ok \in BOOLEAN :
            /\ CloseReader(r, ok)
            /\ reader' = [reader EXCEPT ![r].results = NULL, ![r].isClosed = ok]
      BY <2>7 DEF AppCloseReader
    <3>2. live' \in {live, live \ {reader[r].results}}
      BY <3>1 DEF CloseReader, Delete
    <3>3. command' = command
      BY <2>7 DEF AppCloseReader
    <3>4. reader'[r].results = NULL /\ \A q \in Reader \ {r} : reader'[q] = reader[q]
      BY <2>0, <3>1 DEF ReaderType
    <3> QED BY <2>0, <2>2, <3>2, <3>3, <3>4, ReaderGivesUp
  <2>8. ASSUME NEW r \in Reader, DropReader(r) PROVE OneOwner'
    <3>1. live' = live /\ command' = command /\ reader' = [reader EXCEPT ![r].state = "dropped"]
      BY <2>8 DEF DropReader
    <3>2. \A q \in Reader : reader'[q].results = reader[q].results
      BY <2>0, <3>1 DEF ReaderType
    <3> QED BY <2>2, <3>1, <3>2 DEF OneOwner
  <2>9. ASSUME NEW r \in Reader, FinalizeReader(r) PROVE OneOwner'
    <3>1. CASE Die("double delete")
      BY <2>3, <3>1 DEF Die
    <3>2. CASE /\ \E ok \in BOOLEAN : CloseReader(r, ok)
               /\ reader' = [reader EXCEPT ![r] = NoReader]
               /\ command' = command
      <4>1. live' \in {live, live \ {reader[r].results}}
        BY <3>2 DEF CloseReader, Delete
      <4>2. reader'[r].results = NULL /\ \A q \in Reader \ {r} : reader'[q] = reader[q]
        BY <2>0, <3>2 DEF NoReader
      <4> QED BY <2>0, <2>2, <3>2, <4>1, <4>2, ReaderGivesUp
    <3> QED BY <2>9, <3>1, <3>2 DEF FinalizeReader
  <2>10. CASE ConnectionCall \/ ExecuteOnDeleted \/ DropConnection \/ FinalizeConnection
              \/ UNCHANGED vars
    BY <2>3, <2>10 DEF ConnectionCall, ExecuteOnDeleted, DropConnection, FinalizeConnection, Die,
       vars, pvars
  <2>11. CASE StartExecute \/ DisposeCommand \/ FinalizeCommand
    BY <2>3, <2>4, <2>11 DEF StartExecute, DisposeCommand, FinalizeCommand, Delete, Die
  <2>12. ASSUME NEW w \in Work, NEW p \in BOOLEAN, ExecuteCommand(w, p) PROVE OneOwner'
    BY <2>3, <2>5, <2>12 DEF ExecuteCommand
  <2>13. CASE ExecuteFails
    BY <2>3, <2>5, <2>13 DEF ExecuteFails
  <2> QED BY <2>6, <2>7, <2>8, <2>9, <2>10, <2>11, <2>12, <2>13 DEF ProviderNext, Finalizer
<1> QED BY <1>1, <1>2, ProviderTypeCorrect, PTL DEF ProviderSpec

-----------------------------------------------------------------------------
\* While a command runs the application holds its connection; and as long as
\* nothing has gone wrong that connection is open, and a reader that waits for
\* its finalizer has closed its connection already or never will.
ThreadsApart ==
  /\ executing => reachable
  /\ lapses = {} => /\ executing => open
                    /\ \A r \in Reader : reader[r].state = "dropped" /\ reader[r].closesConnection
                                           => reader[r].isClosed

\* What keeps the two threads safe from each other.
SafetyInv == ProviderTypeOK /\ ResultsHaveOneOwner /\ ThreadsApart /\ ClosedReadersAreSafe

\* With readers that are closed before they are let go of, and constructors that
\* do not throw, no order of the two threads deletes twice, deletes the
\* connection under a running command, or throws in a finalizer.
THEOREM ThreadsAreSafe == ProviderSpec => []ClosedReadersAreSafe
<1>1. ProviderInit => ThreadsApart /\ ClosedReadersAreSafe
  BY DEF ProviderInit, ThreadsApart, ClosedReadersAreSafe, NoReader
<1>2. SafetyInv /\ [ProviderNext]_vars => ThreadsApart' /\ ClosedReadersAreSafe'
  <2> SUFFICES ASSUME SafetyInv, [ProviderNext]_vars PROVE ThreadsApart' /\ ClosedReadersAreSafe'
    OBVIOUS
  <2> DEFINE Waits(r) == reader[r].state = "dropped" /\ reader[r].closesConnection
                           => reader[r].isClosed
  <2>0. /\ reader \in [Reader -> ReaderType] /\ open \in BOOLEAN /\ executing \in BOOLEAN
        /\ reachable \in BOOLEAN
    BY DEF SafetyInv, ProviderTypeOK, ConnectionTypeOK
  <2>1. /\ executing => reachable
        /\ lapses = {} => /\ executing => open
                          /\ \A r \in Reader : Waits(r)
                          /\ fault = "none"
    BY DEF SafetyInv, ThreadsApart, ClosedReadersAreSafe
  <2>2. lapses = {} => OneOwner
    BY OneOwnerIsMeant DEF SafetyInv
  <2>s. lapses = {} => ~Stale(command) /\ \A r \in Reader : ~Stale(reader[r].results)
    BY <2>2 DEF OneOwner, Stale
  <2>3. CASE /\ UNCHANGED <<reader, lapses, fault>>
             /\ reachable' = reachable /\ executing' = executing
             /\ executing => open' = open
    BY <2>1, <2>3 DEF ThreadsApart, ClosedReadersAreSafe
  <2>4. CASE ConnectionCall
    BY <2>3, <2>4 DEF ConnectionCall, App, pvars
  <2>5. CASE UNCHANGED vars
    BY <2>3, <2>5 DEF vars, nvars, pvars
  <2>6. CASE StartExecute
    <3>1. CASE Stale(command)
      <4>1. lapses' = lapses /\ executing' = executing /\ reachable' = reachable
        BY <2>6, <3>1 DEF StartExecute, Die, Delete
      <4>2. lapses # {}
        BY <2>s, <3>1
      <4> QED BY <2>1, <4>1, <4>2 DEF ThreadsApart, ClosedReadersAreSafe
    <3>2. CASE ~Stale(command)
      BY <2>1, <2>6, <3>2 DEF StartExecute, App, nvars, ThreadsApart, ClosedReadersAreSafe
    <3> QED BY <3>1, <3>2
  <2>7. CASE ExecuteOnDeleted
    BY <2>1, <2>7 DEF ExecuteOnDeleted, Running, Die, ThreadsApart, ClosedReadersAreSafe
  <2>8. ASSUME EndExecute, reader' = reader, lapses' = lapses PROVE ThreadsApart' /\ ClosedReadersAreSafe'
    BY <2>1, <2>8 DEF EndExecute, ThreadsApart, ClosedReadersAreSafe
  <2>9. ASSUME NEW w \in Work, NEW p \in BOOLEAN, ExecuteCommand(w, p)
        PROVE  ThreadsApart' /\ ClosedReadersAreSafe'
    BY <2>8, <2>9 DEF ExecuteCommand
  <2>10. CASE ExecuteFails
    BY <2>8, <2>10 DEF ExecuteFails
  <2>11. ASSUME NEW w \in Work, NEW p \in BOOLEAN, NEW r \in Reader, NEW c \in BOOLEAN,
                ExecuteReader(w, p, r, c)
         PROVE  ThreadsApart' /\ ClosedReadersAreSafe'
    <3>1. PICK x \in Unused, built \in BOOLEAN :
            /\ reader' = [reader EXCEPT ![r] =
                 [state |-> IF built THEN "held" ELSE "dropped", built |-> built,
                  closesConnection |-> c, results |-> x, isClosed |-> FALSE]]
            /\ lapses' = IF built THEN lapses ELSE lapses \cup {"constructor threw"}
      BY <2>11 DEF ExecuteReader
    <3>2. lapses' = {} => lapses = {} /\ built
      BY <3>1
    <3>3. built => reader'[r].state = "held"
      BY <2>0, <3>1
    <3>4. \A q \in Reader \ {r} : reader'[q] = reader[q]
      BY <2>0, <3>1
    <3>5. ~executing' /\ fault' = fault
      BY <2>11 DEF ExecuteReader, EndExecute
    <3> QED BY <2>1, <3>2, <3>3, <3>4, <3>5 DEF ThreadsApart, ClosedReadersAreSafe
  <2>12. CASE DisposeCommand
    <3>1. CASE Stale(command)
      <4>1. lapses' = lapses /\ executing' = executing /\ reachable' = reachable
        BY <2>12, <3>1 DEF DisposeCommand, Die, Delete
      <4>2. lapses # {}
        BY <2>s, <3>1
      <4> QED BY <2>1, <4>1, <4>2 DEF ThreadsApart, ClosedReadersAreSafe
    <3>2. CASE ~Stale(command)
      BY <2>3, <2>12, <3>2 DEF DisposeCommand, nvars
    <3> QED BY <3>1, <3>2
  <2>13. ASSUME NEW r \in Reader, AppCloseReader(r) PROVE ThreadsApart' /\ ClosedReadersAreSafe'
    <3>1. PICK ok \in BOOLEAN : reader' = [reader EXCEPT ![r].results = NULL, ![r].isClosed = ok]
      BY <2>13 DEF AppCloseReader
    <3>2. /\ ~executing /\ reader[r].state = "held"
          /\ UNCHANGED <<executing, reachable, lapses, fault>>
      BY <2>13 DEF AppCloseReader
    <3>3. reader'[r].state = "held" /\ \A q \in Reader \ {r} : reader'[q] = reader[q]
      BY <2>0, <3>1, <3>2 DEF ReaderType
    <3> QED BY <2>1, <3>2, <3>3 DEF ThreadsApart, ClosedReadersAreSafe
  <2>14. ASSUME NEW r \in Reader, DropReader(r) PROVE ThreadsApart' /\ ClosedReadersAreSafe'
    <3>1. /\ reader' = [reader EXCEPT ![r].state = "dropped"]
          /\ lapses' = IF reader[r].closesConnection /\ ~reader[r].isClosed
                       THEN lapses \cup {"reader dropped"} ELSE lapses
          /\ ~executing /\ UNCHANGED <<executing, reachable, fault>>
      BY <2>14 DEF DropReader
    <3>2. /\ reader'[r].closesConnection = reader[r].closesConnection
          /\ reader'[r].isClosed = reader[r].isClosed
          /\ \A q \in Reader \ {r} : reader'[q] = reader[q]
      BY <2>0, <3>1 DEF ReaderType
    <3>3. lapses' = {} => lapses = {} /\ (reader[r].closesConnection => reader[r].isClosed)
      BY <3>1
    <3> QED BY <2>1, <3>1, <3>2, <3>3 DEF ThreadsApart, ClosedReadersAreSafe
  <2>15. CASE DropConnection
    BY <2>1, <2>15 DEF DropConnection, App, ThreadsApart, ClosedReadersAreSafe
  <2>16. ASSUME NEW r \in Reader, FinalizeReader(r) PROVE ThreadsApart' /\ ClosedReadersAreSafe'
    <3>1. CASE Stale(reader[r].results) /\ Die("double delete")
      BY <2>1, <2>s, <3>1 DEF Die, nvars, ThreadsApart, ClosedReadersAreSafe
    <3>2. ASSUME NEW ok \in BOOLEAN, CloseReader(r, ok),
                 fault' = IF ok THEN "none" ELSE "finalizer threw",
                 reader' = [reader EXCEPT ![r] = NoReader],
                 UNCHANGED <<executing, reachable, lapses>>
          PROVE  ThreadsApart' /\ ClosedReadersAreSafe'
      <4>1. lapses = {} => ok /\ UNCHANGED nvars
        BY <2>0, <2>1, <2>16, <3>2 DEF CloseReader, FinalizeReader
      <4>2. reader'[r].state = "none" /\ \A q \in Reader \ {r} : reader'[q] = reader[q]
        BY <2>0, <3>2 DEF NoReader
      <4>3. lapses = {} => fault' = "none" /\ open' = open
        BY <3>2, <4>1 DEF nvars
      <4> QED BY <2>1, <3>2, <4>2, <4>3 DEF ThreadsApart, ClosedReadersAreSafe
    <3> QED BY <2>16, <3>1, <3>2 DEF FinalizeReader
  <2>17. CASE FinalizeConnection
    BY <2>1, <2>17 DEF FinalizeConnection, Abandoned, ThreadsApart, ClosedReadersAreSafe
  <2>18. CASE FinalizeCommand
    <3>1. CASE Stale(command)
      <4>1. lapses' = lapses /\ executing' = executing /\ reachable' = reachable
        BY <2>18, <3>1 DEF FinalizeCommand, Die, Delete
      <4>2. lapses # {}
        BY <2>s, <3>1
      <4> QED BY <2>1, <4>1, <4>2 DEF ThreadsApart, ClosedReadersAreSafe
    <3>2. CASE ~Stale(command)
      BY <2>3, <2>18, <3>2 DEF FinalizeCommand, nvars
    <3> QED BY <3>1, <3>2
  <2> QED BY <2>4, <2>5, <2>6, <2>7, <2>9, <2>10, <2>11, <2>12, <2>13, <2>14, <2>15, <2>16, <2>17,
    <2>18 DEF ProviderNext, Finalizer
<1> QED BY <1>1, <1>2, ProviderTypeCorrect, ResultsKeepOneOwner, PTL DEF ProviderSpec, SafetyInv
=============================================================================
