--------------------------- MODULE PerlDbd_proofs ---------------------------
(***************************************************************************)
(* Theorems of PerlDbd, for any work, any statement handles and any number *)
(* of executions.                                                          *)
(***************************************************************************)
EXTENDS PerlDbd, NuoSession_proofs

\* What a shutdown makes of a session: itself, or one rolled back, or either of
\* them disconnected; when it returned there is no session left.
LEMMA ShutdownChoices ==
  ASSUME NEW p \in Process, NEW r \in ShutdownResults(p)
  PROVE  /\ r.done \in BOOLEAN
         /\ \/ r.s = session
            \/ session.open /\ r.s = Rollback(session)
            \/ session.open /\ r.s \in {Disconnect(session), Disconnect(Rollback(session))}
         /\ r.done => r.s \in {Disconnect(session), Disconnect(Rollback(session))}
<1>1. PICK q \in RollbackBefore(p), done \in CloseReturns :
        r = [s |-> Closed(q, done), done |-> done]
  BY DEF ShutdownResults
<1>2. q = session \/ (session.open /\ q = Rollback(session))
  BY DEF RollbackBefore
<1>3. done \in BOOLEAN /\ (done => session.open)
  BY DEF CloseReturns
<1>4. r.done = done /\ r.s = Closed(q, done)
  BY <1>1
<1> QED BY <1>2, <1>3, <1>4 DEF Closed

LEMMA ShutdownKeepsType ==
  ASSUME PerlTypeOK, NEW p \in Process, NEW r \in ShutdownResults(p)
  PROVE  r.s \in SessionType(Work) /\ r.done \in BOOLEAN
<1>1. session \in SessionType(Work) /\ Rollback(session) \in SessionType(Work)
  BY SessionClosed DEF PerlTypeOK
<1>2. Disconnect(session) \in SessionType(Work) /\ Disconnect(Rollback(session)) \in SessionType(Work)
  BY <1>1, SessionClosed
<1> QED BY <1>1, <1>2, ShutdownChoices

\* Results are numbered from 0.
LEMMA NoSthIsTyped ==
  0 \in 0..MaxExec /\ NoSth \in [held : BOOLEAN, pstmt : BOOLEAN, rs : 0..MaxExec]
<1>1. 0 \in 0..MaxExec
  BY PerlAssumption
<1> QED BY <1>1 DEF NoSth

LEMMA SthReadsResult ==
  ASSUME PerlTypeOK, NEW s \in Sth, NEW rs \in 0..MaxExec, ReadsResult(s, rs)
  PROVE  sth' \in [Process -> [Sth -> [held : BOOLEAN, pstmt : BOOLEAN, rs : 0..MaxExec]]]
<1>1. sth \in [Process -> [Sth -> [held : BOOLEAN, pstmt : BOOLEAN, rs : 0..MaxExec]]]
  BY DEF PerlTypeOK
<1>2. sth' = [sth EXCEPT !["parent"][s].rs = rs]
  BY DEF ReadsResult
<1> QED BY <1>1, <1>2 DEF Process

\* Type correctness of the driver.
THEOREM PerlTypeCorrect == PerlSpec => []PerlTypeOK
<1>1. PerlInit => PerlTypeOK
  <2>1. NoSession \in SessionType(Work)
    BY DEF NoSession, SessionType
  <2>2. NoDbh \in [held : BOOLEAN, conn : BOOLEAN, active : BOOLEAN, auto : BOOLEAN]
    BY DEF NoDbh
  <2>3. [p \in Process |-> [s \in Sth |-> NoSth]]
           \in [Process -> [Sth -> [held : BOOLEAN, pstmt : BOOLEAN, rs : 0..MaxExec]]]
    BY NoSthIsTyped
  <2>4. [s \in Sth |-> 0] \in [Sth -> 0..MaxExec]
    BY NoSthIsTyped
  <2> QED BY <2>1, <2>2, <2>3, <2>4 DEF PerlInit, PerlTypeOK
<1>2. PerlTypeOK /\ [PerlNext]_pvars => PerlTypeOK'
  <2> SUFFICES ASSUME PerlTypeOK, [PerlNext]_pvars PROVE PerlTypeOK'
    OBVIOUS
  <2> USE PerlAssumption
  <2>0. /\ Commit(session) \in SessionType(Work)
        /\ Rollback(session) \in SessionType(Work)
        /\ Disconnect(session) \in SessionType(Work)
        /\ \A w \in Work : Execute(session, w) \in SessionType(Work)
        /\ \A b \in BOOLEAN : SetAutoCommitResults(session, b) \subseteq SessionType(Work)
    BY SessionClosed DEF PerlTypeOK
  <2>1. CASE Login
    BY <2>1 DEF Login, PerlTypeOK, NewSession, SessionType, Process
  <2>2. CASE CommitDbh
    BY <2>0, <2>2 DEF CommitDbh, PerlTypeOK
  <2>3. CASE RollbackDbh
    BY <2>0, <2>3 DEF RollbackDbh, PerlTypeOK
  <2>4. ASSUME NEW b \in BOOLEAN, StoreAutoCommit(b) PROVE PerlTypeOK'
    BY <2>0, <2>4 DEF StoreAutoCommit, PerlTypeOK, Process
  <2>5. ASSUME NEW b \in BOOLEAN, DisconnectDbh(b) PROVE PerlTypeOK'
    <3>0. session' = session \/ session' = Disconnect(session)
      BY <2>5 DEF DisconnectDbh, Closed
    <3>1. session' \in SessionType(Work) /\ threw' \in BOOLEAN
      <4>1. session \in SessionType(Work)
        BY DEF PerlTypeOK
      <4>2. threw' \in BOOLEAN
        BY <2>5 DEF DisconnectDbh, PerlTypeOK
      <4> QED BY <2>0, <3>0, <4>1, <4>2
    <3>2. dbh' \in [Process -> [held : BOOLEAN, conn : BOOLEAN, active : BOOLEAN, auto : BOOLEAN]]
      <4>1. dbh \in [Process -> [held : BOOLEAN, conn : BOOLEAN, active : BOOLEAN, auto : BOOLEAN]]
        BY DEF PerlTypeOK
      <4>2. dbh' = [dbh EXCEPT !["parent"].active = FALSE, !["parent"].conn = ~b]
        BY <2>5 DEF DisconnectDbh
      <4> QED BY <4>1, <4>2 DEF Process
    <3>3. prepared' = prepared \/ prepared' = {}
      BY <2>5 DEF DisconnectDbh, PreparedAfter
    <3>4. UNCHANGED <<sth, dirty, inactive, execs, unsafe>>
      BY <2>5 DEF DisconnectDbh
    <3> QED BY <3>1, <3>2, <3>3, <3>4 DEF PerlTypeOK
  <2>6. ASSUME NEW b \in BOOLEAN, Fork(b) PROVE PerlTypeOK'
    BY <2>6 DEF Fork, PerlTypeOK, Process
  <2>7. ASSUME NEW s \in Sth, Prepare(s) PROVE PerlTypeOK'
    BY <2>7 DEF Prepare, PerlTypeOK, Process
  <2>8. ASSUME NEW s \in Sth, PrepareThrows(s) PROVE PerlTypeOK'
    BY <2>8 DEF PrepareThrows, PerlTypeOK
  <2>9. ASSUME NEW s \in Sth, ExecuteQuery(s) PROVE PerlTypeOK'
    <3>1. execs' \in [Sth -> 0..MaxExec] /\ execs'[s] \in 0..MaxExec
      BY <2>9 DEF ExecuteQuery, PerlTypeOK
    <3>2. sth' \in [Process -> [Sth -> [held : BOOLEAN, pstmt : BOOLEAN, rs : 0..MaxExec]]]
      BY <2>9, <3>1, SthReadsResult DEF ExecuteQuery
    <3> QED BY <2>9, <3>1, <3>2 DEF ExecuteQuery, PerlTypeOK
  <2>10. ASSUME NEW s \in Sth, ExecuteThrows(s) PROVE PerlTypeOK'
    <3>1. execs' \in [Sth -> 0..MaxExec] /\ 0 \in 0..MaxExec
      BY <2>10 DEF ExecuteThrows, PerlTypeOK
    <3>2. sth' \in [Process -> [Sth -> [held : BOOLEAN, pstmt : BOOLEAN, rs : 0..MaxExec]]]
      BY <2>10, <3>1, SthReadsResult DEF ExecuteThrows
    <3> QED BY <2>10, <3>1, <3>2 DEF ExecuteThrows, PerlTypeOK
  <2>11. ASSUME NEW s \in Sth, NEW w \in Work, NEW keys \in BOOLEAN, ExecuteWork(s, w, keys)
         PROVE  PerlTypeOK'
    <3>1. /\ execs' \in [Sth -> 0..MaxExec]
          /\ (IF keys THEN execs'[s] ELSE 0) \in 0..MaxExec
      BY <2>11 DEF ExecuteWork, PerlTypeOK
    <3>2. sth' \in [Process -> [Sth -> [held : BOOLEAN, pstmt : BOOLEAN, rs : 0..MaxExec]]]
      BY <2>11, <3>1, SthReadsResult DEF ExecuteWork
    <3>3. session' \in SessionType(Work)
      BY <2>0, <2>11 DEF ExecuteWork
    <3> QED BY <2>11, <3>1, <3>2, <3>3 DEF ExecuteWork, PerlTypeOK
  <2>12. ASSUME NEW p \in Process, DestroyDbh(p) PROVE PerlTypeOK'
    <3>1. session' \in SessionType(Work) /\ threw' \in BOOLEAN
      <4>1. CASE \E r \in ShutdownResults(p) : session' = r.s /\ threw' = (threw \/ ~r.done)
        BY <4>1, ShutdownKeepsType DEF PerlTypeOK
      <4>2. CASE UNCHANGED <<session, threw>>
        BY <4>2 DEF PerlTypeOK
      <4> QED BY <4>1, <4>2, <2>12 DEF DestroyDbh
    <3>2. dbh' \in [Process -> [held : BOOLEAN, conn : BOOLEAN, active : BOOLEAN, auto : BOOLEAN]]
      <4>1. dbh \in [Process -> [held : BOOLEAN, conn : BOOLEAN, active : BOOLEAN, auto : BOOLEAN]]
        BY DEF PerlTypeOK
      <4>2. dbh' = [dbh EXCEPT ![p].held = FALSE, ![p].conn = FALSE, ![p].active = FALSE]
        BY <2>12 DEF DestroyDbh
      <4> QED BY <4>1, <4>2
    <3>3. prepared' = prepared \/ prepared' = {}
      BY <2>12 DEF DestroyDbh, PreparedAfter
    <3>4. UNCHANGED <<sth, dirty, inactive, execs, unsafe>>
      BY <2>12 DEF DestroyDbh
    <3> QED BY <3>1, <3>2, <3>3, <3>4 DEF PerlTypeOK
  <2>13. ASSUME NEW p \in Process, Exit(p) PROVE PerlTypeOK'
    BY <2>13 DEF Exit, PerlTypeOK
  <2>14. ASSUME NEW p \in Process, NEW s \in Sth, DestroySth(p, s) PROVE PerlTypeOK'
    <3>1. sth' \in [Process -> [Sth -> [held : BOOLEAN, pstmt : BOOLEAN, rs : 0..MaxExec]]]
      BY <2>14, NoSthIsTyped DEF DestroySth, PerlTypeOK
    <3> QED BY <3>1, <2>14 DEF DestroySth, CloseStatement, PerlTypeOK
  <2>15. ASSUME NEW s \in Sth, NEW w \in Work, SelectNew(s, w) PROVE PerlTypeOK'
    BY <2>0, <2>15 DEF SelectNew, PerlTypeOK
  <2>16. CASE UNCHANGED pvars
    BY <2>16 DEF pvars, PerlTypeOK
  <2>17. CASE StoreWithoutConnection
    BY <2>17 DEF StoreWithoutConnection, PerlTypeOK, Process
  <2> QED BY <2>1, <2>2, <2>3, <2>4, <2>5, <2>6, <2>7, <2>8, <2>9, <2>10, <2>11,
             <2>12, <2>13, <2>14, <2>15, <2>16, <2>17 DEF PerlNext
<1> QED BY <1>1, <1>2, PTL DEF PerlSpec

-----------------------------------------------------------------------------
\* No failure leaves a statement handle with the result set of an earlier
\* execution.
THEOREM ResultsAreCurrent == PerlSpec => []ResultIsCurrent
<1>1. PerlInit => ResultIsCurrent
  BY DEF PerlInit, ResultIsCurrent, NoSth, Process
<1>2. PerlTypeOK /\ ResultIsCurrent /\ [PerlNext]_pvars => ResultIsCurrent'
  <2> SUFFICES ASSUME PerlTypeOK, ResultIsCurrent, [PerlNext]_pvars PROVE ResultIsCurrent'
    OBVIOUS
  \* Only a statement handle of the parent that is made or executed matters.
  <2>1. ASSUME NEW s \in Sth, Prepare(s) PROVE ResultIsCurrent'
    BY <2>1 DEF Prepare, ResultIsCurrent, PerlTypeOK, Process
  <2>6. ASSUME NEW s \in Sth, ExecuteQuery(s) PROVE ResultIsCurrent'
    BY <2>6 DEF ExecuteQuery, ReadsResult, ResultIsCurrent, PerlTypeOK, Process
  <2>7. ASSUME NEW s \in Sth, ExecuteThrows(s) PROVE ResultIsCurrent'
    BY <2>7 DEF ExecuteThrows, ReadsResult, ResultIsCurrent, PerlTypeOK, Process
  <2>2. ASSUME NEW s \in Sth, NEW w \in Work, NEW keys \in BOOLEAN, ExecuteWork(s, w, keys)
        PROVE  ResultIsCurrent'
    BY <2>2 DEF ExecuteWork, ReadsResult, ResultIsCurrent, PerlTypeOK, Process
  <2>3. ASSUME NEW p \in Process, NEW s \in Sth, DestroySth(p, s) PROVE ResultIsCurrent'
    BY <2>3 DEF DestroySth, NoSth, ResultIsCurrent, PerlTypeOK, Process
  <2>4. ASSUME NEW b \in BOOLEAN, Fork(b) PROVE ResultIsCurrent'
    BY <2>4 DEF Fork, ResultIsCurrent, PerlTypeOK, Process
  <2>5. CASE UNCHANGED <<sth, execs>>
    BY <2>5 DEF ResultIsCurrent
  <2> QED
    BY <2>1, <2>2, <2>3, <2>4, <2>5, <2>6, <2>7
    DEF PerlNext, pvars, Login, CommitDbh, RollbackDbh, StoreAutoCommit, StoreWithoutConnection,
        DisconnectDbh, PrepareThrows, SelectNew, DestroyDbh, Exit
<1> QED BY <1>1, <1>2, PerlTypeCorrect, PTL DEF PerlSpec

-----------------------------------------------------------------------------
\* An active handle has its connection; a connection belongs to a held handle.
HandlesMatch ==
  \A p \in Process : /\ dbh[p].active => dbh[p].conn
                     /\ dbh[p].conn => dbh[p].held

\* A handle that is connected but no longer active is one whose close threw, or
\* the child's.
InactiveMeansThrew ==
  dbh["parent"].conn /\ ~dbh["parent"].active => threw

\* A child that would close the session was forked without InactiveDestroy.
ChildIsKnown == dbh["child"].held /\ ~inactive => unsafe

ClosedInv == HandlesMatch /\ InactiveMeansThrew /\ ChildIsKnown /\ SessionFollowsHandle

\* Whichever order of disconnect, destruction, fork and exit: a session is open
\* without a connected handle only after a close that threw, and closed under an
\* active handle only by a child without InactiveDestroy.
THEOREM LostSessionFollowsHandle == PerlSpec => []SessionFollowsHandle
<1>1. PerlInit => ClosedInv
  BY DEF PerlInit, ClosedInv, HandlesMatch, InactiveMeansThrew, ChildIsKnown, SessionFollowsHandle,
         NoDbh, NoSession, Process
<1>2. PerlTypeOK /\ ClosedInv /\ [PerlNext]_pvars => ClosedInv'
  <2> SUFFICES ASSUME PerlTypeOK, ClosedInv, [PerlNext]_pvars PROVE ClosedInv'
    OBVIOUS
  <2> USE DEF ClosedInv, HandlesMatch, InactiveMeansThrew, ChildIsKnown, SessionFollowsHandle
  <2>0. /\ Commit(session).open = session.open
        /\ Rollback(session).open = session.open
        /\ Disconnect(session).open = FALSE
        /\ Disconnect(Rollback(session)).open = FALSE
        /\ \A w \in Work : Execute(session, w).open = session.open
        /\ \A b \in BOOLEAN : \A r \in SetAutoCommitResults(session, b) : r.open = session.open
    BY DEF PerlTypeOK, SessionType, Commit, Rollback, Disconnect, Execute, SetAutoCommitResults
  <2>1. CASE Login
    <3>1. session'.open
      BY <2>1 DEF Login, NewSession
    <3>2. ~dbh'["child"].held
      BY <2>1 DEF Login, PerlTypeOK, Process
    <3> QED BY <3>1, <3>2, <2>1 DEF Login, PerlTypeOK, Process
  <2>2. ASSUME NEW b \in BOOLEAN, StoreAutoCommit(b) PROVE ClosedInv'
    BY <2>0, <2>2 DEF StoreAutoCommit, PerlTypeOK, Process
  <2>3. ASSUME NEW b \in BOOLEAN, DisconnectDbh(b) PROVE ClosedInv'
    BY <2>0, <2>3 DEF DisconnectDbh, Closed, PerlTypeOK, Process
  <2>4. ASSUME NEW b \in BOOLEAN, Fork(b) PROVE ClosedInv'
    BY <2>4 DEF Fork, PerlTypeOK, Process
  <2>5. ASSUME NEW p \in Process, DestroyDbh(p) PROVE ClosedInv'
    <3>1. HandlesMatch'
      BY <2>5 DEF DestroyDbh, PerlTypeOK, Process
    <3>2. CASE UNCHANGED <<session, threw>> /\ ~Shuts(p)
      <4>1. CASE p = "parent"
        <5>1. ~dbh[p].active
          BY <3>2, <4>1 DEF Shuts
        <5>2. ~dbh'["parent"].conn /\ ~dbh'["parent"].active /\ dbh'["child"] = dbh["child"]
          BY <2>5, <4>1 DEF DestroyDbh, PerlTypeOK, Process
        <5>3. session.open => threw
          BY <4>1, <5>1 DEF Process
        <5> QED BY <5>2, <5>3, <3>1, <3>2, <2>5 DEF DestroyDbh
      <4>2. CASE p = "child"
        <5>1. dbh'["parent"] = dbh["parent"] /\ ~dbh'["child"].held
          BY <2>5, <4>2 DEF DestroyDbh, PerlTypeOK, Process
        <5> QED BY <5>1, <3>1, <3>2, <2>5 DEF DestroyDbh
      <4> QED BY <4>1, <4>2 DEF Process
    <3>3. ASSUME NEW r \in ShutdownResults(p), Shuts(p), session' = r.s, threw' = (threw \/ ~r.done)
          PROVE  ClosedInv'
      <4>1. session'.open => threw'
        BY <2>0, <3>3, ShutdownChoices DEF PerlTypeOK
      <4>2. threw => threw'
        BY <3>3
      <4>3. CASE p = "parent"
        <5>1. ~dbh'["parent"].conn /\ ~dbh'["parent"].active /\ dbh'["child"] = dbh["child"]
          BY <2>5, <4>3 DEF DestroyDbh, PerlTypeOK, Process
        <5> QED BY <5>1, <4>1, <3>1, <2>5 DEF DestroyDbh
      <4>4. CASE p = "child"
        <5>1. unsafe
          BY <3>3, <4>4 DEF Shuts, Process
        <5>2. dbh'["parent"] = dbh["parent"] /\ ~dbh'["child"].held
          BY <2>5, <4>4 DEF DestroyDbh, PerlTypeOK, Process
        <5> QED BY <5>1, <5>2, <4>1, <4>2, <3>1, <2>5 DEF DestroyDbh
      <4> QED BY <4>3, <4>4 DEF Process
    <3> QED BY <3>2, <3>3, <2>5 DEF DestroyDbh
  <2>6. ASSUME dbh' = dbh, session'.open = session.open, threw => threw',
                inactive' = inactive, unsafe' = unsafe
         PROVE  ClosedInv'
    BY <2>6
  <2>7. CASE CommitDbh \/ RollbackDbh
    BY <2>0, <2>6, <2>7 DEF CommitDbh, RollbackDbh
  <2>8. ASSUME NEW s \in Sth, Prepare(s) \/ PrepareThrows(s) \/ ExecuteQuery(s) \/ ExecuteThrows(s)
        PROVE  ClosedInv'
    BY <2>6, <2>8 DEF Prepare, PrepareThrows, ExecuteQuery, ExecuteThrows
  <2>9. ASSUME NEW s \in Sth, NEW w \in Work, NEW keys \in BOOLEAN, ExecuteWork(s, w, keys)
        PROVE  ClosedInv'
    BY <2>0, <2>6, <2>9 DEF ExecuteWork
  <2>10. ASSUME NEW p \in Process, Exit(p) PROVE ClosedInv'
    BY <2>6, <2>10 DEF Exit
  <2>11. ASSUME NEW p \in Process, NEW s \in Sth, DestroySth(p, s) PROVE ClosedInv'
    BY <2>6, <2>11 DEF DestroySth, CloseStatement
  <2>12. ASSUME NEW s \in Sth, NEW w \in Work, SelectNew(s, w) PROVE ClosedInv'
    BY <2>0, <2>6, <2>12 DEF SelectNew
  <2>13. CASE UNCHANGED pvars
    BY <2>6, <2>13 DEF pvars
  <2>14. CASE StoreWithoutConnection
    BY <2>14 DEF StoreWithoutConnection, PerlTypeOK, Process
  <2> QED BY <2>1, <2>2, <2>3, <2>4, <2>5, <2>7, <2>8, <2>9, <2>10, <2>11, <2>12, <2>13, <2>14
          DEF PerlNext
<1>3. ClosedInv => SessionFollowsHandle
  BY DEF ClosedInv
<1> QED BY <1>1, <1>2, <1>3, PerlTypeCorrect, PTL DEF PerlSpec

-----------------------------------------------------------------------------
\* No statement outlives its session in the library.
PreparedInv == (~session.open => prepared = {}) /\ StatementsAreClosed

\* A statement whose handle is gone is closed, also when global destruction took
\* the database handle first, unless a close threw.
THEOREM LostStatementsAreClosed == PerlSpec => []StatementsAreClosed
<1>1. PerlInit => PreparedInv
  BY DEF PerlInit, PreparedInv, StatementsAreClosed
<1>2. PerlTypeOK /\ SessionFollowsHandle /\ PreparedInv /\ [PerlNext]_pvars => PreparedInv'
  <2> SUFFICES ASSUME PerlTypeOK, SessionFollowsHandle, PreparedInv, [PerlNext]_pvars
               PROVE  PreparedInv'
    OBVIOUS
  <2> USE DEF PreparedInv, StatementsAreClosed
  \* Handles of the parent stay, statements are only closed.
  <2>1. ASSUME prepared' \subseteq prepared, threw => threw', ~session'.open => prepared' = {},
               \A s \in Sth : sth["parent"][s].held => sth'["parent"][s].held
        PROVE  PreparedInv'
    BY <2>1 DEF PerlTypeOK
  <2>2. ASSUME UNCHANGED <<prepared, sth, threw>>, session'.open = session.open
        PROVE  PreparedInv'
    BY <2>1, <2>2
  <2>3. CASE Login
    BY <2>3 DEF Login
  <2>4. CASE CommitDbh \/ RollbackDbh
    BY <2>2, <2>4 DEF CommitDbh, RollbackDbh, Commit, Rollback, PerlTypeOK, SessionType
  <2>5. ASSUME NEW b \in BOOLEAN, StoreAutoCommit(b) PROVE PreparedInv'
    BY <2>2, <2>5 DEF StoreAutoCommit, SetAutoCommitResults, Commit, PerlTypeOK, SessionType
  <2>6. ASSUME NEW b \in BOOLEAN, DisconnectDbh(b) PROVE PreparedInv'
    BY <2>1, <2>6 DEF DisconnectDbh, PreparedAfter
  <2>7. ASSUME NEW b \in BOOLEAN, Fork(b) PROVE PreparedInv'
    BY <2>1, <2>7 DEF Fork, PerlTypeOK, Process
  <2>8. ASSUME NEW s \in Sth, Prepare(s) PROVE PreparedInv'
    BY <2>8 DEF Prepare, Usable, PerlTypeOK, Process
  <2>9. ASSUME NEW s \in Sth, PrepareThrows(s) PROVE PreparedInv'
    BY <2>9 DEF PrepareThrows, Usable
  <2>10. ASSUME NEW s \in Sth, NEW rs, ReadsResult(s, rs) PROVE
           \A t \in Sth : sth["parent"][t].held => sth'["parent"][t].held
    BY <2>10 DEF ReadsResult, PerlTypeOK, Process
  <2>11. ASSUME NEW s \in Sth, ExecuteQuery(s) PROVE PreparedInv'
    BY <2>1, <2>10, <2>11 DEF ExecuteQuery
  <2>12. ASSUME NEW s \in Sth, ExecuteThrows(s) PROVE PreparedInv'
    BY <2>1, <2>10, <2>12 DEF ExecuteThrows
  <2>13. ASSUME NEW s \in Sth, NEW w \in Work, NEW keys \in BOOLEAN, ExecuteWork(s, w, keys)
         PROVE  PreparedInv'
    <3>1. session'.open = session.open
      BY <2>13 DEF ExecuteWork, Execute, PerlTypeOK, SessionType
    <3>2. UNCHANGED <<prepared, threw>>
      BY <2>13 DEF ExecuteWork
    <3>3. \A t \in Sth : sth["parent"][t].held => sth'["parent"][t].held
      BY <2>10, <2>13 DEF ExecuteWork
    <3> QED BY <2>1, <3>1, <3>2, <3>3
  <2>14. ASSUME NEW p \in Process, DestroyDbh(p) PROVE PreparedInv'
    <3>1. threw => threw'
      BY <2>14 DEF DestroyDbh
    <3> QED BY <2>1, <2>14, <3>1 DEF DestroyDbh, PreparedAfter
  <2>15. ASSUME NEW p \in Process, Exit(p) PROVE PreparedInv'
    BY <2>2, <2>15 DEF Exit
  <2>16. ASSUME NEW p \in Process, NEW s \in Sth, DestroySth(p, s) PROVE PreparedInv'
    <3>1. prepared' \subseteq prepared /\ (threw => threw') /\ session' = session
      BY <2>16 DEF DestroySth, CloseStatement
    <3>2. \A t \in Sth : t # s => sth'["parent"][t] = sth["parent"][t]
      BY <2>16 DEF DestroySth, PerlTypeOK, Process
    <3>3. p = "child" => sth'["parent"] = sth["parent"]
      BY <2>16 DEF DestroySth, PerlTypeOK, Process
    <3>4. p = "parent" => s \notin prepared' \/ threw'
      <4>1. CASE dbh[p].conn
        BY <4>1, <2>16 DEF DestroySth, CloseStatement
      <4>2. CASE p = "parent" /\ ~dbh[p].conn
        BY <4>2, <3>1 DEF SessionFollowsHandle
      <4> QED BY <4>1, <4>2
    <3> QED BY <3>1, <3>2, <3>3, <3>4 DEF Process, PerlTypeOK
  <2>17. ASSUME NEW s \in Sth, NEW w \in Work, SelectNew(s, w) PROVE PreparedInv'
    <3>1. session'.open = session.open /\ session.open /\ UNCHANGED sth
      BY <2>17 DEF SelectNew, Usable, Execute, PerlTypeOK, SessionType
    <3>2. UNCHANGED <<prepared, threw>> \/ threw'
      BY <2>17 DEF SelectNew
    <3> QED BY <3>1, <3>2
  <2>18. CASE UNCHANGED pvars
    BY <2>2, <2>18 DEF pvars
  <2>19. CASE StoreWithoutConnection
    BY <2>2, <2>19 DEF StoreWithoutConnection
  <2> QED BY <2>3, <2>4, <2>5, <2>6, <2>7, <2>8, <2>9, <2>11, <2>12, <2>13, <2>14,
             <2>15, <2>16, <2>17, <2>18, <2>19 DEF PerlNext
<1>3. PreparedInv => StatementsAreClosed
  BY DEF PreparedInv
<1> QED BY <1>1, <1>2, <1>3, PerlTypeCorrect, LostSessionFollowsHandle, PTL DEF PerlSpec

-----------------------------------------------------------------------------
\* DBI's flag is the session's mode while there is a session.
FlagIsTrue == session.open => session.autocommit = dbh["parent"].auto

\* A handle of the application that has no connection has no open session.
EndedWithoutConnection ==
  dbh["parent"].held /\ ~dbh["parent"].conn => ~session.open

\* The refinement needs, besides the flag, that AutoCommit is set without a
\* connection only when the session has ended, and that a session that has ended
\* has nothing pending.
RefineInv ==
  /\ FlagIsTrue
  /\ EndedWithoutConnection
  /\ ~session.open => session.pending = {}

\* DBD::NuoDB implements TransactionContract: what the application does through
\* its handles, in either process, is what the contract allows.
THEOREM PerlRefinesContract == PerlSpec => ImplementsContract
<1>1. PerlInit => RefineInv /\ Contract!ContractInit
  BY DEF PerlInit, RefineInv, FlagIsTrue, EndedWithoutConnection, NoSession, NoDbh, Process, Contract!ContractInit, AutoCommit
<1>2. PerlTypeOK /\ RefineInv /\ [PerlNext]_pvars
        => RefineInv' /\ [Contract!ContractNext]_(Contract!cvars)
  <2> SUFFICES ASSUME PerlTypeOK, RefineInv, [PerlNext]_pvars
               PROVE  RefineInv' /\ [Contract!ContractNext]_(Contract!cvars)
    OBVIOUS
  <2> USE DEF RefineInv, FlagIsTrue, EndedWithoutConnection, AutoCommit
  <2>0. session \in SessionType(Work) /\ dbh["parent"].auto \in BOOLEAN
    BY DEF PerlTypeOK, Process
  <2>1. CASE Login
    <3>1. Contract!Start
      BY <2>0, <2>1 DEF Login, Contract!Start, NewSession, PerlTypeOK, SessionType, Process
    <3> QED BY <3>1, <2>0, <2>1 DEF Login, Contract!ContractNext, NewSession, PerlTypeOK, SessionType, Process
  <2>2. CASE CommitDbh
    BY <2>0, <2>2 DEF CommitDbh, Commit, SessionType, Usable, Contract!Publish, Contract!ContractNext
  <2>3. CASE RollbackDbh
    BY <2>0, <2>3 DEF RollbackDbh, Rollback, SessionType, Usable, Contract!Discard, Contract!ContractNext
  <2>4. ASSUME NEW b \in BOOLEAN, StoreAutoCommit(b)
        PROVE  RefineInv' /\ Contract!SetMode(b)
    BY <2>0, <2>4 DEF StoreAutoCommit, SetAutoCommitResults, Commit, SessionType, Usable,
                      Contract!SetMode, PerlTypeOK, Process
  <2>5. ASSUME NEW b \in BOOLEAN, DisconnectDbh(b)
        PROVE  RefineInv' /\ [Contract!ContractNext]_(Contract!cvars)
    <3>1. /\ dbh'["parent"].auto = dbh["parent"].auto
          /\ dbh["parent"].held /\ dbh'["parent"].conn = ~b
      BY <2>5 DEF DisconnectDbh, PerlTypeOK, Process
    <3>2. CASE b
      BY <2>0, <2>5, <3>1, <3>2 DEF DisconnectDbh, Closed, Disconnect, Rollback, SessionType,
                               Contract!End, Contract!ContractNext
    <3>3. CASE ~b
      BY <2>0, <2>5, <3>1, <3>3 DEF DisconnectDbh, Closed, Contract!cvars
    <3> QED BY <3>2, <3>3
  <2>6. ASSUME NEW s \in Sth, NEW w \in Work, NEW keys \in BOOLEAN, ExecuteWork(s, w, keys)
        PROVE  RefineInv' /\ Contract!Do(w)
    BY <2>0, <2>6 DEF ExecuteWork, Execute, SessionType, Usable, Contract!Do
  <2>7. ASSUME NEW p \in Process, DestroyDbh(p)
        PROVE  RefineInv' /\ [Contract!ContractNext]_(Contract!cvars)
    <3>1. /\ dbh'["parent"].auto = dbh["parent"].auto
          /\ dbh'["parent"].held => dbh["parent"].held /\ dbh'["parent"].conn = dbh["parent"].conn
      BY <2>7 DEF DestroyDbh, PerlTypeOK, Process
    <3>2. CASE UNCHANGED <<session, threw>>
      BY <3>1, <3>2 DEF Contract!cvars
    <3>3. ASSUME NEW r \in ShutdownResults(p), session' = r.s
          PROVE  RefineInv' /\ [Contract!ContractNext]_(Contract!cvars)
      <4>1. \/ session' = session
            \/ session.open /\ session' = Rollback(session)
            \/ session.open /\ session' \in {Disconnect(session), Disconnect(Rollback(session))}
        BY <3>3, ShutdownChoices
      <4>2. CASE session' = session
        BY <4>2, <3>1 DEF Contract!cvars
      <4>3. CASE session.open /\ session' = Rollback(session)
        BY <2>0, <3>1, <4>3 DEF Rollback, SessionType, Contract!Discard, Contract!ContractNext
      <4>4. CASE session.open /\ session' \in {Disconnect(session), Disconnect(Rollback(session))}
        BY <2>0, <3>1, <4>4 DEF Disconnect, Rollback, SessionType, Contract!End, Contract!ContractNext
      <4> QED BY <4>1, <4>2, <4>3, <4>4
    <3> QED BY <3>2, <3>3, <2>7 DEF DestroyDbh
  <2>8. ASSUME session' = session, dbh'["parent"] = dbh["parent"]
        PROVE  RefineInv' /\ UNCHANGED Contract!cvars
    BY <2>8 DEF Contract!cvars
  <2>9. ASSUME NEW b \in BOOLEAN, Fork(b) PROVE RefineInv' /\ UNCHANGED Contract!cvars
    BY <2>8, <2>9 DEF Fork, PerlTypeOK, Process
  <2>10. ASSUME NEW s \in Sth, Prepare(s) \/ PrepareThrows(s) \/ ExecuteQuery(s) \/ ExecuteThrows(s)
         PROVE  RefineInv' /\ UNCHANGED Contract!cvars
    BY <2>8, <2>10 DEF Prepare, PrepareThrows, ExecuteQuery, ExecuteThrows
  <2>11. ASSUME NEW p \in Process, Exit(p) \/ \E s \in Sth : DestroySth(p, s)
         PROVE  RefineInv' /\ UNCHANGED Contract!cvars
    BY <2>8, <2>11 DEF Exit, DestroySth
  <2>12. ASSUME NEW s \in Sth, NEW w \in Work, SelectNew(s, w)
         PROVE  RefineInv' /\ (Contract!Do(w) \/ UNCHANGED Contract!cvars)
    <3>1. CASE session' = Execute(session, w)
      BY <2>0, <2>12, <3>1 DEF SelectNew, Execute, SessionType, Usable, Contract!Do
    <3>2. CASE session' = session
      BY <2>8, <2>12, <3>2 DEF SelectNew
    <3> QED BY <3>1, <3>2, <2>12 DEF SelectNew
  <2>13. CASE UNCHANGED pvars
    BY <2>8, <2>13 DEF pvars
  <2>14. CASE StoreWithoutConnection
    <3>1. RefineInv' /\ Contract!SetModeOfEnded(FALSE)
      BY <2>0, <2>14 DEF StoreWithoutConnection, PerlTypeOK, Process, Contract!SetModeOfEnded
    <3> QED  BY <3>1 DEF Contract!ContractNext
  <2> QED BY <2>1, <2>2, <2>3, <2>4, <2>5, <2>6, <2>7, <2>9, <2>10, <2>11, <2>12, <2>13, <2>14
          DEF PerlNext, Contract!ContractNext
<1> QED BY <1>1, <1>2, PerlTypeCorrect, PTL DEF PerlSpec, ImplementsContract, Contract!ContractSpec
=============================================================================
