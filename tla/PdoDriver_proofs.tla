-------------------------- MODULE PdoDriver_proofs --------------------------
(***************************************************************************)
(* Theorems of the PDO driver: of its database handle (PdoHandle), for any *)
(* set of statements and either autocommit default of the library; of its  *)
(* statements (PdoStatement), for any number of statement handles and of   *)
(* object addresses; then that handle and statements together (PdoDriver)  *)
(* implement the specifications of both, and what follows from that.       *)
(***************************************************************************)
EXTENDS PdoDriver, NuoSession_proofs

\* commit_if_auto leaves the session alone, commits it or rolls it back, and
\* rolls back only a transaction that is open in manual mode.
LEMMA CommitIfAutoChoices ==
  ASSUME NEW s, NEW t \in BOOLEAN, NEW a \in BOOLEAN, NEW r \in CommitIfAuto(s, t, a)
  PROVE  r = s \/ r = Commit(s) \/ (t /\ ~a /\ r = Rollback(s))
BY DEF CommitIfAuto, CommitOutcomes, RollbackOutcomes

\* Type correctness of the handle.
THEOREM HandleTypeCorrect == HandleSpec => []HandleTypeOK
<1>1. HandleInit => HandleTypeOK
  <2>1. NoSession \in SessionType(Work)
    BY DEF NoSession, SessionType
  <2> QED BY <2>1 DEF HandleInit, HandleTypeOK
<1>2. HandleTypeOK /\ [HandleNext]_hvars => HandleTypeOK'
  <2> SUFFICES ASSUME HandleTypeOK, [HandleNext]_hvars PROVE HandleTypeOK'
    OBVIOUS
  <2> USE HandleAssumption DEF HandleTypeOK
  <2>0. /\ Commit(session) \in SessionType(Work)
        /\ Rollback(session) \in SessionType(Work)
        /\ \A w \in Work : Execute(session, w) \in SessionType(Work)
        /\ \A w \in Work : Effect(w) \in SessionType(Work)
    BY SessionClosed DEF Effect
  <2>1. \A s \in SessionType(Work), t, a \in BOOLEAN :
          /\ CommitIfAuto(s, t, a) \subseteq SessionType(Work)
          /\ RollbackOutcomes(s) \subseteq SessionType(Work)
    BY SessionClosed DEF CommitIfAuto, CommitOutcomes, RollbackOutcomes
  <2>2. CASE ConnectOk
    BY <2>2 DEF ConnectOk, NewSession, SessionType
  <2>3. CASE ConnectFailed
    BY <2>3 DEF ConnectFailed
  <2>4. CASE Attach
    BY <2>4 DEF Attach
  <2>5. CASE BeginTransaction
    BY <2>5 DEF BeginTransaction
  <2>6. CASE CommitTransaction
    BY <2>0, <2>6 DEF CommitTransaction
  <2>7. CASE RollBack
    BY <2>0, <2>7 DEF RollBack
  <2>8. ASSUME NEW got \in BOOLEAN, Prepare(got) PROVE HandleTypeOK'
    BY <2>8 DEF Prepare
  <2>9. ASSUME NEW w \in Work, ExecutePrepared(w) PROVE HandleTypeOK'
    BY <2>0, <2>9 DEF ExecutePrepared, Acknowledge
  <2>10. ASSUME NEW w \in Work, ExecOk(w) PROVE HandleTypeOK'
    <3>1. session' \in SessionType(Work)
      BY <2>0, <2>1, <2>10 DEF ExecOk
    <3> QED BY <3>1, <2>10 DEF ExecOk, Acknowledge
  <2>11. ASSUME NEW w \in Work, FailedAfterEffect(w) PROVE HandleTypeOK'
    BY <2>0, <2>11 DEF FailedAfterEffect
  <2>12. CASE ExecRefused
    BY <2>1, <2>12 DEF ExecRefused
  <2>13. ASSUME NEW b \in BOOLEAN, SetAutoCommit(b) PROVE HandleTypeOK'
    BY <2>0, <2>13 DEF SetAutoCommit
  <2>14. CASE EndRequest
    BY <2>1, <2>14 DEF EndRequest
  <2>15. CASE Close
    <3>1. PICK s \in SessionType(Work) : session' = Disconnect(s)
      BY <2>1, <2>15 DEF Close
    <3>2. session' \in SessionType(Work)
      BY <3>1, SessionClosed
    <3> QED BY <3>2, <2>15 DEF Close
  <2>16. CASE UNCHANGED hvars
    BY <2>16 DEF hvars
  <2> QED
    BY <2>2, <2>3, <2>4, <2>5, <2>6, <2>7, <2>8, <2>9, <2>10, <2>11, <2>12,
       <2>13, <2>14, <2>15, <2>16 DEF HandleNext
<1> QED BY <1>1, <1>2, PTL DEF HandleSpec

-----------------------------------------------------------------------------
\* A library that starts in autocommit is never taken out of it: begin is
\* empty, and no other call of the driver touches the mode.
StaysAuto == AutoDefault => (connected => session.autocommit)

\* What keeps AcknowledgedIsDurable: an acknowledged statement ran on a session
\* in autocommit, or on none at all.
DurableInv == HandleTypeOK /\ StaysAuto /\ AcknowledgedIsDurable

\* With the library's default, everything the application was told had run and
\* some server saw is durable, in every history of the handle.
THEOREM AcknowledgedWorkIsDurable == HandleSpec => []AcknowledgedIsDurable
<1>1. HandleInit => StaysAuto /\ AcknowledgedIsDurable
  BY DEF HandleInit, StaysAuto, AcknowledgedIsDurable
<1>2. DurableInv /\ HandleTypeOK' /\ [HandleNext]_hvars
        => StaysAuto' /\ AcknowledgedIsDurable'
  <2> SUFFICES ASSUME DurableInv, HandleTypeOK', [HandleNext]_hvars, AutoDefault
               PROVE  /\ connected' => session'.autocommit
                      /\ (acked \ phantom)' \subseteq session'.durable
    BY DEF StaysAuto, AcknowledgedIsDurable
  <2>0. /\ session \in SessionType(Work)
        /\ connected => session.autocommit
        /\ acked \ phantom \subseteq session.durable
    BY DEF DurableInv, HandleTypeOK, StaysAuto, AcknowledgedIsDurable
  \* A call that acknowledges nothing.
  <2>1. ASSUME session'.autocommit = session.autocommit,
               session.durable \subseteq session'.durable,
               acked' = acked, phantom' = phantom,
               connected' => connected
        PROVE  /\ connected' => session'.autocommit
               /\ (acked \ phantom)' \subseteq session'.durable
    BY <2>0, <2>1
  <2>2. \A s \in SessionType(Work), t, a \in BOOLEAN :
          \A r \in CommitIfAuto(s, t, a) \cup RollbackOutcomes(s) :
            /\ r \in SessionType(Work)
            /\ r.autocommit = s.autocommit
            /\ s.durable \subseteq r.durable
    <3> TAKE s \in SessionType(Work), t \in BOOLEAN, a \in BOOLEAN
    <3> TAKE r \in CommitIfAuto(s, t, a) \cup RollbackOutcomes(s)
    <3>1. r = s \/ r = Commit(s) \/ r = Rollback(s)
      BY CommitIfAutoChoices DEF RollbackOutcomes
    <3>2. CASE r = s
      BY <3>2
    <3>3. CASE r = Commit(s)
      BY <3>3, SessionClosed, SessionKeeps, SessionMode
    <3>4. CASE r = Rollback(s)
      BY <3>4, SessionClosed, SessionKeeps, SessionMode
    <3> QED BY <3>1, <3>2, <3>3, <3>4
  <2>3. /\ \A w \in Work : /\ Effect(w) \in SessionType(Work)
                           /\ Effect(w).autocommit = session.autocommit
                           /\ session.durable \subseteq Effect(w).durable
                           /\ connected => w \in Effect(w).durable
    BY <2>0, SessionClosed, SessionKeeps, SessionMode DEF Effect
  <2>4. CASE ConnectOk
    BY <2>0, <2>4 DEF ConnectOk, NewSession
  <2>5. CASE ConnectFailed \/ Attach \/ BeginTransaction
             \/ (\E got \in BOOLEAN : Prepare(got)) \/ UNCHANGED hvars
    BY <2>1, <2>5 DEF ConnectFailed, Attach, BeginTransaction, Prepare, hvars
  <2>6. CASE CommitTransaction
    BY <2>0, <2>1, <2>6, SessionKeeps, SessionMode DEF CommitTransaction
  <2>7. CASE RollBack
    BY <2>0, <2>1, <2>7, SessionKeeps, SessionMode DEF RollBack
  <2>8. ASSUME NEW w \in Work, ExecutePrepared(w) \/ ExecOk(w)
        PROVE  /\ connected' => session'.autocommit
               /\ (acked \ phantom)' \subseteq session'.durable
    <3>1. /\ session'.autocommit = Effect(w).autocommit
          /\ Effect(w).durable \subseteq session'.durable
      <4>1. CASE ExecutePrepared(w)
        BY <4>1 DEF ExecutePrepared
      <4>2. CASE ExecOk(w)
        BY <2>2, <2>3, <4>2 DEF ExecOk, DurableInv, HandleTypeOK
      <4> QED BY <2>8, <4>1, <4>2
    <3>2. /\ connected' = connected
          /\ acked' = acked \cup {w}
          /\ phantom' = IF connected THEN phantom ELSE phantom \cup {w}
      BY <2>8 DEF ExecutePrepared, ExecOk, Acknowledge
    <3> QED BY <2>0, <2>3, <3>1, <3>2
  <2>9. ASSUME NEW w \in Work, FailedAfterEffect(w)
        PROVE  /\ connected' => session'.autocommit
               /\ (acked \ phantom)' \subseteq session'.durable
    BY <2>0, <2>1, <2>9, SessionKeeps, SessionMode DEF FailedAfterEffect
  <2>10. CASE ExecRefused
    BY <2>0, <2>1, <2>2, <2>10 DEF ExecRefused, DurableInv, HandleTypeOK
  <2>11. ASSUME NEW b \in BOOLEAN, SetAutoCommit(b)
         PROVE  /\ connected' => session'.autocommit
                /\ (acked \ phantom)' \subseteq session'.durable
    BY <2>0, <2>1, <2>11, SessionKeeps, SessionMode DEF SetAutoCommit
  <2>12. CASE EndRequest
    BY <2>0, <2>1, <2>2, <2>12 DEF EndRequest
  <2>13. CASE Close
    <3>1. PICK s \in SessionType(Work) : /\ session' = Disconnect(s)
                                         /\ s.autocommit = session.autocommit
                                         /\ session.durable \subseteq s.durable
      BY <2>0, <2>2, <2>13 DEF Close, DurableInv, HandleTypeOK
    <3>2. /\ session'.autocommit = session.autocommit
          /\ session.durable \subseteq session'.durable
      BY <3>1, SessionKeeps, SessionMode
    <3> QED BY <2>1, <2>13, <3>2 DEF Close
  <2> QED
    BY <2>4, <2>5, <2>6, <2>7, <2>8, <2>9, <2>10, <2>11, <2>12, <2>13 DEF HandleNext
<1>3. HandleSpec => [](DurableInv /\ AcknowledgedIsDurable)
  BY HandleTypeCorrect, <1>1, <1>2, PTL DEF HandleSpec, DurableInv
<1> QED BY <1>3, PTL
-----------------------------------------------------------------------------
\* A handle that no script holds has no transaction open: EndRequest and Close
\* clear the flag, and Attach relies on it when it resets auto_commit.
NoTransactionAtRest == handle # "live" => ~in_txn

\* While a transaction is open in auto-commit mode, the statements acknowledged
\* inside it are pending or durable, whatever the library's default is.
THEOREM OpenWorkIsKept == HandleSpec => []OpenWorkSurvives
<1> DEFINE Inv == NoTransactionAtRest /\ OpenWorkSurvives
<1>1. HandleInit => Inv
  BY DEF HandleInit, NoTransactionAtRest, OpenWorkSurvives
<1>2. HandleTypeOK /\ HandleTypeOK' /\ Inv /\ [HandleNext]_hvars => Inv'
  <2> SUFFICES ASSUME HandleTypeOK, HandleTypeOK', Inv, [HandleNext]_hvars
               PROVE  NoTransactionAtRest' /\ OpenWorkSurvives'
    OBVIOUS
  <2> DEFINE Kept(s) == s.pending \cup s.durable
  <2>0. /\ session \in SessionType(Work)
        /\ auto_commit \in BOOLEAN /\ in_txn \in BOOLEAN
        /\ handle # "live" => ~in_txn
        /\ auto_commit /\ in_txn => scope \ phantom \subseteq Kept(session)
    BY DEF HandleTypeOK, NoTransactionAtRest, OpenWorkSurvives
  <2>1. \A w \in Work : /\ Effect(w) \in SessionType(Work)
                        /\ Kept(session) \subseteq Kept(Effect(w))
                        /\ connected => w \in Kept(Effect(w))
    BY <2>0, SessionClosed, SessionKeeps DEF Effect
  <2>2. \A s \in SessionType(Work) :
          auto_commit /\ in_txn =>
            \A r \in CommitIfAuto(s, in_txn, auto_commit) : Kept(s) \subseteq Kept(r)
    <3> SUFFICES ASSUME NEW s \in SessionType(Work), auto_commit, in_txn,
                        NEW r \in CommitIfAuto(s, in_txn, auto_commit)
                 PROVE  Kept(s) \subseteq Kept(r)
      OBVIOUS
    <3>1. r = s \/ r = Commit(s)
      BY <2>0, CommitIfAutoChoices
    <3> QED BY <3>1, SessionKeeps
  <2>3. ASSUME in_txn' => in_txn /\ handle' = "live", scope' = scope, phantom' = phantom,
               auto_commit' = auto_commit,
               auto_commit /\ in_txn => Kept(session) \subseteq Kept(session')
        PROVE  NoTransactionAtRest' /\ OpenWorkSurvives'
    BY <2>0, <2>3 DEF NoTransactionAtRest, OpenWorkSurvives
  <2>4. ASSUME ~in_txn' \/ (scope' = {} /\ handle' = "live")
        PROVE  NoTransactionAtRest' /\ OpenWorkSurvives'
    BY <2>4 DEF NoTransactionAtRest, OpenWorkSurvives
  <2>5. CASE ConnectOk \/ ConnectFailed \/ Attach
    <3>1. ~in_txn'
      BY <2>0, <2>5 DEF ConnectOk, ConnectFailed, Attach
    <3> QED BY <2>4, <3>1
  <2>6. CASE BeginTransaction \/ CommitTransaction \/ RollBack
    BY <2>4, <2>6 DEF BeginTransaction, CommitTransaction, RollBack
  <2>7. ASSUME NEW got \in BOOLEAN, Prepare(got)
        PROVE  NoTransactionAtRest' /\ OpenWorkSurvives'
    BY <2>0, <2>7 DEF Prepare, NoTransactionAtRest, OpenWorkSurvives
  <2>8. ASSUME NEW w \in Work, ExecutePrepared(w) \/ ExecOk(w)
        PROVE  NoTransactionAtRest' /\ OpenWorkSurvives'
    <3>1. auto_commit /\ in_txn => Kept(Effect(w)) \subseteq Kept(session')
      BY <2>1, <2>2, <2>8 DEF ExecutePrepared, ExecOk
    <3>2. /\ scope' = IF in_txn THEN scope \cup {w} ELSE scope
          /\ phantom' = IF connected THEN phantom ELSE phantom \cup {w}
          /\ UNCHANGED <<handle, in_txn, auto_commit>> /\ handle = "live"
      BY <2>8 DEF ExecutePrepared, ExecOk, Acknowledge
    <3> QED BY <2>0, <2>1, <3>1, <3>2 DEF NoTransactionAtRest, OpenWorkSurvives
  <2>9. ASSUME NEW w \in Work, FailedAfterEffect(w)
        PROVE  NoTransactionAtRest' /\ OpenWorkSurvives'
    BY <2>0, <2>3, <2>9, SessionKeeps DEF FailedAfterEffect
  <2>10. CASE ExecRefused
    BY <2>0, <2>2, <2>3, <2>10 DEF ExecRefused
  <2>11. CASE (\E b \in BOOLEAN : SetAutoCommit(b)) \/ EndRequest \/ Close
    BY <2>4, <2>11 DEF SetAutoCommit, EndRequest, Close
  <2>12. CASE UNCHANGED hvars
    BY <2>12, <2>0 DEF hvars, NoTransactionAtRest, OpenWorkSurvives
  <2> QED
    BY <2>5, <2>6, <2>7, <2>8, <2>9, <2>10, <2>11, <2>12 DEF HandleNext
<1>3. HandleSpec => [](Inv /\ HandleTypeOK)
  BY HandleTypeCorrect, <1>1, <1>2, PTL DEF HandleSpec
<1> QED BY <1>3, PTL

-----------------------------------------------------------------------------
\* A call made with no transaction open discards nothing: exec hands
\* commit_if_auto the flag as it was before the call, not the one it raises.
THEOREM IdleCallsKeepWork == HandleSpec => IdleLosesNothing
<1> DEFINE Keeps == ~in_txn /\ handle = "live" /\ handle' = "live" =>
                      acked \cap (session.pending \cup session.durable)
                        \subseteq session'.pending \cup session'.durable
<1>1. HandleTypeOK /\ [HandleNext]_hvars => [Keeps]_hvars
  <2> SUFFICES ASSUME HandleTypeOK, HandleNext, ~in_txn, handle = "live", handle' = "live"
               PROVE  session.pending \cup session.durable
                        \subseteq session'.pending \cup session'.durable
    OBVIOUS
  <2>0. session \in SessionType(Work) /\ auto_commit \in BOOLEAN
    BY DEF HandleTypeOK
  <2>1. \A w \in Work : session.pending \cup session.durable
                          \subseteq Effect(w).pending \cup Effect(w).durable
    BY <2>0, SessionKeeps DEF Effect
  <2>2. \A s : CommitIfAuto(s, in_txn, auto_commit) = {s}
    BY <2>0 DEF CommitIfAuto
  <2>3. CASE \E w \in Work : ExecutePrepared(w) \/ ExecOk(w) \/ FailedAfterEffect(w)
    BY <2>0, <2>1, <2>2, <2>3, SessionKeeps DEF ExecutePrepared, ExecOk, FailedAfterEffect
  <2>4. CASE ExecRefused
    BY <2>2, <2>4 DEF ExecRefused
  <2>5. CASE BeginTransaction \/ (\E got \in BOOLEAN : Prepare(got))
             \/ (\E b \in BOOLEAN : SetAutoCommit(b))
    BY <2>5 DEF BeginTransaction, Prepare, SetAutoCommit
  <2> QED
    BY <2>3, <2>4, <2>5 DEF HandleNext, ConnectOk, ConnectFailed, Attach,
       CommitTransaction, RollBack, EndRequest, Close
<1> QED BY HandleTypeCorrect, <1>1, PTL DEF HandleSpec, IdleLosesNothing

-----------------------------------------------------------------------------
LEMMA ObjectTypes ==
  ASSUME NEW k \in Kind \cup {"empty"}
  PROVE  /\ NewObject(k) \in ObjType
         /\ NoObject \in ObjType
         /\ DeletedObject \in ObjType
         /\ [NewObject(k) EXCEPT !.rs = (k = "select"), !.keys = (k = "insert")] \in ObjType
BY DEF NewObject, NoObject, DeletedObject, ObjType, Life

LEMMA StatementTypes ==
  /\ NoStmt \in StmtType
  /\ \A o \in Obj : NewStmt(o) \in StmtType
BY DEF NoStmt, NewStmt, StmtType

\* Running a statement gives its object a result set if it is a select, and
\* takes nothing from it.
LEMMA ResultsOfExecute ==
  ASSUME StatementTypeOK, NEW o \in Obj
  PROVE  /\ Results(o) \in ObjType
         /\ Results(o).life = obj[o].life
         /\ Results(o).kind = obj[o].kind
         /\ Results(o).rs = (obj[o].rs \/ obj[o].kind = "select")
BY DEF StatementTypeOK, Results, ObjType

-----------------------------------------------------------------------------
\* A handle that the script does not use has a cleared structure.
UnusedIsClear == \A s \in Stmt : ~stmt[s].used => stmt[s] = NoStmt

\* The inductive invariant: ownership is what makes the agreement between the
\* flags and the object survive what the other statements do.
OwnershipInv ==
  /\ StatementTypeOK
  /\ UnusedIsClear
  /\ ObjectsAreOwned
  /\ FetchFindsResults
  /\ CursorFlagIsExact

LEMMA InitOwnership == StatementInit => OwnershipInv
<1> SUFFICES ASSUME StatementInit PROVE OwnershipInv
  OBVIOUS
<1>1. StatementTypeOK
  BY ObjectTypes, StatementTypes DEF StatementInit, StatementTypeOK, Fault, Kind
<1>2. \A s \in Stmt : stmt[s] = NoStmt /\ stmt[s].obj = NULL /\ ~stmt[s].executed
  BY DEF StatementInit, NoStmt, NewStmt
<1> QED
  BY <1>1, <1>2 DEF OwnershipInv, UnusedIsClear, ObjectsAreOwned, FetchFindsResults,
     CursorFlagIsExact, Holds, IsLive

\* A step that stops the process changes nothing else.
LEMMA CrashOwnership ==
  ASSUME OwnershipInv, NEW f \in Fault, Crash(f)
  PROVE  OwnershipInv'
BY DEF OwnershipInv, Crash, StatementTypeOK, UnusedIsClear, ObjectsAreOwned,
       FetchFindsResults, CursorFlagIsExact, Holds, IsLive

\* A fresh object at an address that no statement owns disturbs nobody.
LEMMA AllocateOwnership ==
  ASSUME OwnershipInv, NEW o \in Obj, NEW object \in ObjType, Allocate(o, object),
         UNCHANGED <<stmt, fault>>
  PROVE  OwnershipInv'
<1> USE StatementAssumption
<1>1. \A s \in Stmt : stmt[s].obj # NULL /\ ~stmt[s].stale =>
        stmt[s].obj # o /\ obj'[stmt[s].obj] = obj[stmt[s].obj] /\ stmt[s].obj \in Obj
  BY DEF Allocate, OwnershipInv, ObjectsAreOwned, IsLive, StatementTypeOK, StmtType
<1>2. StatementTypeOK'
  BY DEF Allocate, OwnershipInv, StatementTypeOK
<1> QED
  BY <1>1, <1>2 DEF OwnershipInv, UnusedIsClear, ObjectsAreOwned, FetchFindsResults,
     CursorFlagIsExact, Holds, IsLive

\* A new statement gets an object of its own.
LEMMA PrepareOwnership ==
  ASSUME OwnershipInv, NEW s \in Stmt, NEW o \in Obj, NEW k \in Kind \cup {"empty"},
         PrepareStmt(s, o, k)
  PROVE  OwnershipInv'
<1> USE StatementAssumption
<1>1. /\ stmt' = [stmt EXCEPT ![s] = NewStmt(o)]
      /\ obj' = [obj EXCEPT ![o] = NewObject(k)]
      /\ last' = o /\ fault' = fault
      /\ ~IsLive(o)
  BY DEF PrepareStmt, Allocate
<1>2. StatementTypeOK'
  BY <1>1, ObjectTypes, StatementTypes DEF OwnershipInv, StatementTypeOK
<1>3. \A t \in Stmt \ {s} :
        /\ stmt'[t] = stmt[t]
        /\ stmt[t].obj # NULL /\ ~stmt[t].stale =>
             stmt[t].obj # o /\ obj'[stmt[t].obj] = obj[stmt[t].obj] /\ stmt[t].obj \in Obj
  BY <1>1 DEF OwnershipInv, ObjectsAreOwned, IsLive, StatementTypeOK, StmtType
<1>4. /\ stmt'[s] = NewStmt(o)
      /\ obj'[o] = NewObject(k)
      /\ NewObject(k).life = "live" /\ ~NewObject(k).rs
      /\ NewStmt(o).used /\ NewStmt(o).obj = o /\ ~NewStmt(o).stale
      /\ ~NewStmt(o).executed /\ ~NewStmt(o).cursor_open
  BY <1>1 DEF OwnershipInv, StatementTypeOK, NewStmt, NewObject
<1> QED
  BY <1>2, <1>3, <1>4 DEF OwnershipInv, UnusedIsClear, ObjectsAreOwned, FetchFindsResults,
     CursorFlagIsExact, Holds, IsLive

\* A statement whose object is given back: it no longer counts as an owner, and
\* PDO may not fetch from it.
LEMMA ReleaseOwnership ==
  ASSUME OwnershipInv, NEW s \in Stmt, NEW r \in StmtType, fault' \in Fault,
         stmt' = [stmt EXCEPT ![s] = r], UNCHANGED last,
         obj' = IF Holds(s) THEN [obj EXCEPT ![stmt[s].obj] = DeletedObject] ELSE obj,
         r.stale \/ r.obj = NULL, ~r.executed, r.used \/ r = NoStmt
  PROVE  OwnershipInv'
<1> USE StatementAssumption
<1>1. StatementTypeOK'
  BY ObjectTypes DEF OwnershipInv, StatementTypeOK, Holds, IsLive, StmtType
<1>2. \A t \in Stmt \ {s} :
        /\ stmt'[t] = stmt[t]
        /\ stmt[t].obj # NULL /\ ~stmt[t].stale =>
             obj'[stmt[t].obj] = obj[stmt[t].obj] /\ stmt[t].obj \in Obj
  BY DEF OwnershipInv, ObjectsAreOwned, Holds, IsLive, StatementTypeOK, StmtType
<1>3. stmt'[s] = r
  BY DEF OwnershipInv, StatementTypeOK
<1> QED
  BY <1>1, <1>2, <1>3 DEF OwnershipInv, UnusedIsClear, ObjectsAreOwned, FetchFindsResults,
     CursorFlagIsExact, Holds, IsLive

\* pdo_nuodb_stmt_delete gives back the object of the statement, if it has one.
LEMMA DeleteEffect ==
  ASSUME OwnershipInv, NEW s \in Stmt, NEW ptr \in Obj \cup {NULL}, NEW threw \in BOOLEAN,
         Delete(s, ptr, threw)
  PROVE  /\ obj' = IF Holds(s) THEN [obj EXCEPT ![stmt[s].obj] = DeletedObject] ELSE obj
         /\ threw \/ ptr = NULL
         /\ fault' \in Fault
BY DEF Delete, Holds, IsLive, OwnershipInv, StatementTypeOK, Fault

LEMMA DestroyOwnership ==
  ASSUME OwnershipInv, NEW s \in Stmt, Destroy(s)
  PROVE  OwnershipInv'
<1>1. PICK ptr \in Obj \cup {NULL}, threw \in BOOLEAN : Delete(s, ptr, threw)
  BY DEF Destroy
<1>2. NoStmt \in StmtType /\ NoStmt.obj = NULL /\ ~NoStmt.executed
  BY DEF NoStmt, NewStmt, StmtType
<1> QED BY <1>1, <1>2, DeleteEffect, ReleaseOwnership DEF Destroy

\* closeCursor: with neither cursor nor name there is nothing to release, and
\* the statement keeps its object.
LEMMA CloseCursorOwnership ==
  ASSUME OwnershipInv, NEW s \in Stmt, CloseCursor(s)
  PROVE  OwnershipInv'
<1>1. PICK ptr \in Obj \cup {NULL}, threw \in BOOLEAN :
        /\ IF stmt[s].named \/ stmt[s].cursor_open
           THEN Delete(s, ptr, threw)
           ELSE ptr = stmt[s].obj /\ threw = stmt[s].stale /\ UNCHANGED <<obj, fault>>
        /\ stmt' = [stmt EXCEPT ![s].obj = ptr, ![s].stale = threw, ![s].named = FALSE,
                                ![s].cursor_open = FALSE, ![s].executed = FALSE]
  BY DEF CloseCursor
<1> DEFINE r == [stmt[s] EXCEPT !.obj = ptr, !.stale = threw, !.named = FALSE,
                                !.cursor_open = FALSE, !.executed = FALSE]
<1>2. /\ stmt[s] \in StmtType /\ stmt[s].used /\ last' = last
      /\ stmt \in [Stmt -> StmtType]
  BY DEF CloseCursor, InUse, OwnershipInv, StatementTypeOK
<1>3. /\ r \in StmtType
      /\ r.obj = ptr /\ r.stale = threw /\ r.used
      /\ ~r.executed /\ ~r.cursor_open
  BY <1>2 DEF StmtType
<1>4. stmt' = [stmt EXCEPT ![s] = r]
  BY <1>1, <1>2
<1> HIDE DEF r
<1>5. CASE stmt[s].named \/ stmt[s].cursor_open
  <2>1. /\ obj' = IF Holds(s) THEN [obj EXCEPT ![stmt[s].obj] = DeletedObject] ELSE obj
        /\ threw \/ ptr = NULL
        /\ fault' \in Fault
    BY <1>1, <1>5, DeleteEffect
  <2> QED BY <1>2, <1>3, <1>4, <2>1, ReleaseOwnership
<1>6. CASE ~(stmt[s].named \/ stmt[s].cursor_open)
  <2>1. /\ obj' = obj /\ fault' = fault
        /\ ptr = stmt[s].obj /\ threw = stmt[s].stale
        /\ stmt'[s] = r
        /\ \A t \in Stmt \ {s} : stmt'[t] = stmt[t]
    BY <1>1, <1>4, <1>6 DEF OwnershipInv, StatementTypeOK
  <2>2. StatementTypeOK'
    BY <1>2, <1>3, <1>4, <2>1 DEF OwnershipInv, StatementTypeOK
  <2> QED
    BY <1>2, <1>3, <1>6, <2>1, <2>2 DEF OwnershipInv, UnusedIsClear, ObjectsAreOwned,
       FetchFindsResults, CursorFlagIsExact, Holds, IsLive
<1> QED BY <1>5, <1>6

-----------------------------------------------------------------------------
\* A call that changes neither the object of a statement nor what its flags say
\* about the result set.
LEMMA FlagOwnership ==
  ASSUME OwnershipInv, NEW s \in Stmt, NEW r \in StmtType,
         stmt' = [stmt EXCEPT ![s] = r], UNCHANGED <<obj, last, fault>>,
         r.used, r.obj = stmt[s].obj, r.stale = stmt[s].stale,
         r.cursor_open = stmt[s].cursor_open, r.executed = stmt[s].executed,
         ~r.exhausted => ~stmt[s].exhausted
  PROVE  OwnershipInv'
<1>1. stmt'[s] = r /\ \A t \in Stmt \ {s} : stmt'[t] = stmt[t]
  BY DEF OwnershipInv, StatementTypeOK
<1>2. StatementTypeOK'
  BY DEF OwnershipInv, StatementTypeOK
<1> QED
  BY <1>1, <1>2 DEF OwnershipInv, UnusedIsClear, ObjectsAreOwned, FetchFindsResults,
     CursorFlagIsExact, Holds, IsLive

LEMMA SettingsOwnership ==
  ASSUME OwnershipInv, NEW s \in Stmt, SetCursorName(s) \/ BindParam(s) \/ FetchEnd(s)
  PROVE  OwnershipInv'
<1>1. stmt[s] \in StmtType /\ stmt[s].used
  BY DEF OwnershipInv, StatementTypeOK, SetCursorName, BindParam, FetchEnd, Fetching, InUse
<1>2. CASE SetCursorName(s)
  <2>0. PICK named \in BOOLEAN : stmt' = [stmt EXCEPT ![s].named = named]
    BY <1>2 DEF SetCursorName
  <2> DEFINE r == [stmt[s] EXCEPT !.named = named]
  <2>1. r \in StmtType /\ stmt' = [stmt EXCEPT ![s] = r] /\ UNCHANGED <<obj, last, fault>>
    BY <1>1, <1>2, <2>0 DEF SetCursorName, StmtType
  <2>2. /\ r.used = stmt[s].used /\ r.obj = stmt[s].obj /\ r.stale = stmt[s].stale
        /\ r.cursor_open = stmt[s].cursor_open /\ r.executed = stmt[s].executed
        /\ r.exhausted = stmt[s].exhausted
    BY <1>1 DEF StmtType
  <2> HIDE DEF r
  <2> QED BY <1>1, <2>1, <2>2, FlagOwnership
<1>3. CASE BindParam(s)
  <2> DEFINE r == [stmt[s] EXCEPT !.bound = TRUE]
  <2>1. r \in StmtType /\ stmt' = [stmt EXCEPT ![s] = r] /\ UNCHANGED <<obj, last, fault>>
    BY <1>1, <1>3 DEF BindParam, StmtType
  <2>2. /\ r.used = stmt[s].used /\ r.obj = stmt[s].obj /\ r.stale = stmt[s].stale
        /\ r.cursor_open = stmt[s].cursor_open /\ r.executed = stmt[s].executed
        /\ r.exhausted = stmt[s].exhausted
    BY <1>1 DEF StmtType
  <2> HIDE DEF r
  <2> QED BY <1>1, <2>1, <2>2, FlagOwnership
<1>4. CASE FetchEnd(s)
  <2> DEFINE r == [stmt[s] EXCEPT !.exhausted = TRUE]
  <2>1. r \in StmtType /\ stmt' = [stmt EXCEPT ![s] = r] /\ UNCHANGED <<obj, last, fault>>
    BY <1>1, <1>4 DEF FetchEnd, StmtType
  <2>2. /\ r.used = stmt[s].used /\ r.obj = stmt[s].obj /\ r.stale = stmt[s].stale
        /\ r.cursor_open = stmt[s].cursor_open /\ r.executed = stmt[s].executed
        /\ r.exhausted
    BY <1>1 DEF StmtType
  <2> HIDE DEF r
  <2> QED BY <1>1, <2>1, <2>2, FlagOwnership
<1> QED BY <1>2, <1>3, <1>4

\* execute, whether it succeeds or loses the metadata: nobody else owns the
\* object, so only this statement's flags have to follow it.
LEMMA ExecuteOwnership ==
  ASSUME OwnershipInv, NEW s \in Stmt, ExecuteOk(s) \/ ExecuteThrowsLate(s)
  PROVE  OwnershipInv'
<1> USE StatementAssumption
<1> DEFINE o == stmt[s].obj
<1>1. /\ Holds(s) /\ stmt[s].used /\ o \in Obj /\ obj[o].life = "live"
      /\ stmt[s] \in StmtType
      /\ obj' = [obj EXCEPT ![o] = Results(o)]
      /\ UNCHANGED <<last, fault>>
  BY DEF ExecuteOk, ExecuteThrowsLate, InUse, Holds, IsLive, OwnershipInv, StatementTypeOK, StmtType
<1>2. /\ Results(o) \in ObjType /\ Results(o).life = "live"
      /\ Results(o).rs = (obj[o].rs \/ obj[o].kind = "select")
      /\ obj'[o] = Results(o)
  BY <1>1, ResultsOfExecute DEF OwnershipInv, StatementTypeOK
<1>3. PICK r \in StmtType :
        /\ stmt' = [stmt EXCEPT ![s] = r]
        /\ r.obj = o /\ ~r.stale /\ r.used
        /\ r.cursor_open = Results(o).rs
        /\ r.executed /\ ~r.exhausted => Results(o).rs
  <2>0. Results(o).rs \in BOOLEAN
    BY <1>2 DEF ObjType
  <2>1. CASE ExecuteOk(s)
    <3> DEFINE r == [stmt[s] EXCEPT !.executed = TRUE, !.cursor_open = Results(o).rs,
                                    !.exhausted = ~Results(o).rs]
    <3>1. stmt' = [stmt EXCEPT ![s] = r]
      BY <2>1 DEF ExecuteOk
    <3>2. /\ r \in StmtType
          /\ r.obj = o /\ r.stale = stmt[s].stale /\ r.used = stmt[s].used
          /\ r.cursor_open = Results(o).rs /\ r.exhausted = ~Results(o).rs
      BY <1>1, <2>0 DEF StmtType
    <3> HIDE DEF r
    <3> QED BY <1>1, <3>1, <3>2 DEF Holds
  <2>2. CASE ExecuteThrowsLate(s)
    <3> DEFINE r == [stmt[s] EXCEPT !.cursor_open = TRUE]
    <3>1. stmt' = [stmt EXCEPT ![s] = r] /\ obj[o].kind = "select"
      BY <2>2 DEF ExecuteThrowsLate
    <3>2. /\ r \in StmtType
          /\ r.obj = o /\ r.stale = stmt[s].stale /\ r.used = stmt[s].used
          /\ r.cursor_open = TRUE
      BY <1>1 DEF StmtType
    <3> HIDE DEF r
    <3> QED BY <1>1, <1>2, <2>0, <3>1, <3>2 DEF Holds
  <2> QED BY <2>1, <2>2
<1>4. \A t \in Stmt \ {s} :
        /\ stmt'[t] = stmt[t]
        /\ stmt[t].obj # NULL /\ ~stmt[t].stale =>
             stmt[t].obj # o /\ obj'[stmt[t].obj] = obj[stmt[t].obj] /\ stmt[t].obj \in Obj
  BY <1>1, <1>3 DEF OwnershipInv, ObjectsAreOwned, Holds, IsLive, StatementTypeOK, StmtType
<1>5. stmt'[s] = r
  BY <1>3 DEF OwnershipInv, StatementTypeOK
<1>6. StatementTypeOK'
  BY <1>1, <1>2, <1>3 DEF OwnershipInv, StatementTypeOK
<1>7. UnusedIsClear'
  BY <1>3, <1>4, <1>5 DEF OwnershipInv, UnusedIsClear
<1>8. ObjectsAreOwned'
  BY <1>1, <1>2, <1>3, <1>4, <1>5 DEF OwnershipInv, ObjectsAreOwned
<1>9. FetchFindsResults'
  BY <1>1, <1>2, <1>3, <1>4, <1>5 DEF OwnershipInv, FetchFindsResults, Holds, IsLive
<1>10. CursorFlagIsExact'
  BY <1>1, <1>2, <1>3, <1>4, <1>5 DEF OwnershipInv, CursorFlagIsExact, Holds, IsLive
<1> QED BY <1>6, <1>7, <1>8, <1>9, <1>10 DEF OwnershipInv

\* lastInsertId closes the keys of an object, and nothing else.
LEMMA LastIdOwnership ==
  ASSUME OwnershipInv, LastInsertId
  PROVE  OwnershipInv'
<1>1. /\ last \in Obj /\ obj' = [obj EXCEPT ![last].keys = FALSE]
      /\ UNCHANGED <<stmt, last, fault>>
  BY DEF LastInsertId, IsLive, OwnershipInv, StatementTypeOK
<1>2. \A o \in Obj : /\ obj'[o] \in ObjType
                     /\ obj'[o].life = obj[o].life /\ obj'[o].rs = obj[o].rs
  BY <1>1 DEF OwnershipInv, StatementTypeOK, ObjType
<1>3. StatementTypeOK'
  BY <1>1, <1>2 DEF OwnershipInv, StatementTypeOK
<1> QED
  BY <1>1, <1>2, <1>3 DEF OwnershipInv, StatementTypeOK, StmtType, UnusedIsClear,
     ObjectsAreOwned, FetchFindsResults, CursorFlagIsExact, Holds, IsLive

\* The handle goes only when no statement is in use.
LEMMA DeleteHandleOwnership ==
  ASSUME OwnershipInv, DeleteHandle
  PROVE  OwnershipInv'
<1>1. \A s \in Stmt : stmt[s].obj = NULL /\ ~stmt[s].executed
  BY DEF DeleteHandle, OwnershipInv, UnusedIsClear, NoStmt, NewStmt
<1>2. StatementTypeOK'
  BY ObjectTypes DEF DeleteHandle, OwnershipInv, StatementTypeOK, Kind
<1> QED
  BY <1>1, <1>2 DEF DeleteHandle, OwnershipInv, UnusedIsClear, ObjectsAreOwned,
     FetchFindsResults, CursorFlagIsExact, Holds, IsLive

-----------------------------------------------------------------------------
\* Every statement call preserves the ownership of the objects.
LEMMA StepOwnership == OwnershipInv /\ [StatementNext]_svars => OwnershipInv'
<1> SUFFICES ASSUME OwnershipInv, [StatementNext]_svars PROVE OwnershipInv'
  OBVIOUS
<1>1. ASSUME NEW s \in Stmt, NEW o \in Obj, NEW k \in Kind \cup {"empty"}, PrepareStmt(s, o, k)
      PROVE  OwnershipInv'
  BY <1>1, PrepareOwnership
<1>2. ASSUME NEW o \in Obj, PrepareRefused(o)
      PROVE  OwnershipInv'
  BY <1>2, AllocateOwnership, ObjectTypes DEF PrepareRefused, Kind
<1>3. ASSUME NEW o \in Obj, NEW k \in Kind \cup {"empty"}, ExecStmt(o, k) \/ ExecStmtFailed(o, k)
      PROVE  OwnershipInv'
  BY <1>3, AllocateOwnership, ObjectTypes DEF ExecStmt, ExecStmtFailed
<1>4. CASE \E f \in Fault : Crash(f)
  BY <1>4, CrashOwnership
<1>5. CASE PrepareTooLong \/ LastInsertIdOfDeleted
  BY <1>4, <1>5 DEF PrepareTooLong, LastInsertIdOfDeleted, Fault
<1>6. ASSUME NEW s \in Stmt,
             ExecuteOnNothing(s) \/ FetchThrows(s) \/ BindPositional(s)
      PROVE  OwnershipInv'
  BY <1>4, <1>6 DEF ExecuteOnNothing, FetchThrows, BindPositional, Fault
<1>7. ASSUME NEW s \in Stmt, StmtStep(s)
      PROVE  OwnershipInv'
  BY <1>6, <1>7, ExecuteOwnership, SettingsOwnership, CloseCursorOwnership, DestroyOwnership
  DEF StmtStep
<1>8. ASSUME NEW s \in Stmt, ExecuteOk(s)
      PROVE  OwnershipInv'
  BY <1>8, ExecuteOwnership
<1>9. CASE (\E s \in Stmt : ExecuteThrows(s)) \/ UNCHANGED svars
  <2>1. UNCHANGED svars
    BY <1>9 DEF ExecuteThrows
  <2> QED
    BY <2>1 DEF svars, OwnershipInv, StatementTypeOK, UnusedIsClear, ObjectsAreOwned,
       FetchFindsResults, CursorFlagIsExact, Holds, IsLive
<1> QED
  BY <1>1, <1>2, <1>3, <1>5, <1>7, <1>8, <1>9, LastIdOwnership, DeleteHandleOwnership
  DEF StatementNext

THEOREM OwnershipHolds == StatementSpec => []OwnershipInv
  BY InitOwnership, StepOwnership, PTL DEF StatementSpec

\* Type correctness of the statements and their objects.
THEOREM StatementTypeCorrect == StatementSpec => []StatementTypeOK
  BY OwnershipHolds, PTL DEF OwnershipInv

\* No object has two owners and no owner points at an object that is gone.
THEOREM StatementsOwnTheirObjects == StatementSpec => []ObjectsAreOwned
  BY OwnershipHolds, PTL DEF OwnershipInv

\* A fetch that is let through finds an open result set.
THEOREM FetchesFindResults == StatementSpec => []FetchFindsResults
  BY OwnershipHolds, PTL DEF OwnershipInv

\* cursor_open is exact.
THEOREM CursorFlagCorrect == StatementSpec => []CursorFlagIsExact
  BY OwnershipHolds, PTL DEF OwnershipInv

-----------------------------------------------------------------------------
(* The composition.                                                          *)

\* The script has statements only of a handle it has, and has prepared them.
ScriptPrepares == \A s \in Stmt : stmt[s].used => handle = "live" /\ prepared

\* What ties the two parts together: whether an object is empty tells whether
\* the handle has a connection.
DriverInv == OwnershipInv /\ ScriptPrepares /\ EmptyOnlyWithoutConnection

-----------------------------------------------------------------------------
LEMMA CreatedKind == \A k \in Kind : /\ Created(k) \in Kind \cup {"empty"}
                                     /\ Created(k) = "empty" <=> ~connected
BY DEF Created, Kind

\* Every call is a call of the statements, or leaves them alone.
LEMMA DriverStepsStatements == [DriverNext]_dvars => [StatementNext]_svars
<1> SUFFICES ASSUME [DriverNext]_dvars PROVE [StatementNext]_svars
  OBVIOUS
<1>1. CASE HandleCall
  BY <1>1 DEF HandleCall
<1>2. CASE CloseHandle
  BY <1>2 DEF CloseHandle, StatementNext
<1>3. ASSUME NEW s \in Stmt, NEW o \in Obj, NEW k \in Kind, PrepareStatement(s, o, k)
      PROVE  StatementNext
  BY <1>3, CreatedKind DEF PrepareStatement, StatementNext
<1>4. CASE PrepareFails
  BY <1>4 DEF PrepareFails, StatementNext
<1>5. ASSUME NEW s \in Stmt, RunFails(s) PROVE StatementNext
  BY <1>5 DEF RunFails, StatementNext
<1>6. ASSUME NEW s \in Stmt, NEW w \in Work, RunStatement(s, w) PROVE StatementNext
  BY <1>6 DEF RunStatement, StatementNext
<1>7. ASSUME NEW o \in Obj, NEW k \in Kind, NEW w \in Work, Exec(o, k, w) PROVE StatementNext
  BY <1>7, CreatedKind DEF Exec, StatementNext
<1>8. ASSUME NEW o \in Obj, NEW k \in Kind, ExecFails(o, k) PROVE StatementNext
  BY <1>8 DEF ExecFails, StatementNext
<1>9. CASE StatementCall
  BY <1>9 DEF StatementCall, StatementNext
<1>10. CASE UNCHANGED dvars
  BY <1>10 DEF dvars, svars
<1> QED BY <1>1, <1>2, <1>3, <1>4, <1>5, <1>6, <1>7, <1>8, <1>9, <1>10 DEF DriverNext

\* Every call is a call of the handle, or leaves it alone: what the object of a
\* statement does is what the state of the handle says.
LEMMA DriverStepsHandle ==
  ASSUME DriverInv, [DriverNext]_dvars
  PROVE  [HandleNext]_hvars
<1>1. CASE HandleCall
  BY <1>1 DEF HandleCall, HandleNext
<1>2. CASE CloseHandle
  BY <1>2 DEF CloseHandle, HandleNext
<1>3. ASSUME NEW s \in Stmt, NEW o \in Obj, NEW k \in Kind, PrepareStatement(s, o, k)
      PROVE  HandleNext
  BY <1>3 DEF PrepareStatement, HandleNext
<1>4. CASE PrepareFails
  BY <1>4 DEF PrepareFails, HandleNext
<1>5. ASSUME NEW s \in Stmt, RunFails(s) PROVE HandleNext \/ UNCHANGED hvars
  BY <1>5 DEF RunFails, HandleNext
<1>6. ASSUME NEW s \in Stmt, NEW w \in Work, RunStatement(s, w) PROVE HandleNext
  <2>1. Holds(s) /\ stmt[s].used
    BY <1>6 DEF RunStatement, ExecuteOk, InUse
  <2>2. prepared /\ (obj[stmt[s].obj].kind = "empty" <=> ~connected)
    BY <2>1 DEF DriverInv, ScriptPrepares, EmptyOnlyWithoutConnection
  <2>3. ExecutePrepared(w)
    BY <1>6, <2>2 DEF RunStatement, ExecutePrepared, Effect
  <2> QED BY <2>3 DEF HandleNext
<1>7. ASSUME NEW o \in Obj, NEW k \in Kind, NEW w \in Work, Exec(o, k, w) PROVE HandleNext
  BY <1>7 DEF Exec, HandleNext
<1>8. ASSUME NEW o \in Obj, NEW k \in Kind, ExecFails(o, k) PROVE HandleNext \/ UNCHANGED hvars
  BY <1>8 DEF ExecFails, HandleNext
<1>9. CASE StatementCall
  BY <1>9 DEF StatementCall
<1>10. CASE UNCHANGED dvars
  BY <1>10 DEF dvars, hvars
<1> QED BY <1>1, <1>2, <1>3, <1>4, <1>5, <1>6, <1>7, <1>8, <1>9, <1>10 DEF DriverNext

-----------------------------------------------------------------------------
\* A call after which every statement holds what it held, of the same kind.
LEMMA SameKinds ==
  ASSUME DriverInv, connected' = connected, handle' = handle, prepared => prepared',
         \A t \in Stmt : /\ stmt'[t].used => stmt[t].used
                         /\ Holds(t)' => Holds(t) /\ obj'[stmt'[t].obj].kind = obj[stmt[t].obj].kind
  PROVE  ScriptPrepares' /\ EmptyOnlyWithoutConnection'
BY DEF DriverInv, ScriptPrepares, EmptyOnlyWithoutConnection

\* An object that was free belongs to no statement.
LEMMA FreshObject ==
  ASSUME DriverInv, NEW o \in Obj, NEW x, Allocate(o, x), NEW t \in Stmt
  PROVE  Holds(t) => stmt[t].obj # o /\ obj'[stmt[t].obj] = obj[stmt[t].obj]
BY DEF DriverInv, OwnershipInv, StatementTypeOK, Allocate, Holds, IsLive


LEMMA AllocatedKinds ==
  ASSUME DriverInv, NEW o \in Obj, NEW x, Allocate(o, x), UNCHANGED stmt,
         connected' = connected, handle' = handle, prepared => prepared'
  PROVE  ScriptPrepares' /\ EmptyOnlyWithoutConnection'
<1>1. ASSUME NEW t \in Stmt, Holds(t)'
      PROVE  Holds(t) /\ obj'[stmt'[t].obj].kind = obj[stmt[t].obj].kind
  <2>1. ~stmt[t].stale /\ stmt[t].obj # NULL
    BY <1>1 DEF Holds, IsLive
  <2>2. Holds(t)
    BY <2>1 DEF DriverInv, OwnershipInv, ObjectsAreOwned, Holds, IsLive
  <2> QED BY <2>2, FreshObject
<1> QED BY <1>1, SameKinds

\* What a call on one statement does to the flags and the object of each.
LEMMA StatementKinds ==
  ASSUME DriverInv, NEW s \in Stmt, StmtStep(s) \/ ExecuteOk(s) \/ ExecuteThrows(s), NEW t \in Stmt
  PROVE  /\ stmt'[t].used => stmt[t].used
         /\ Holds(t)' => Holds(t) /\ obj'[stmt'[t].obj].kind = obj[stmt[t].obj].kind
<1>0. /\ stmt \in [Stmt -> StmtType] /\ obj \in [Obj -> ObjType] /\ stmt[t] \in StmtType
      /\ stmt[s] \in StmtType /\ NULL \notin Obj
  BY StatementAssumption DEF DriverInv, OwnershipInv, StatementTypeOK
<1>1. CASE UNCHANGED <<stmt, obj>>
  BY <1>1 DEF Holds, IsLive
<1>2. ASSUME UNCHANGED obj, stmt'[t].used = stmt[t].used, stmt'[t].obj = stmt[t].obj,
             stmt'[t].stale = stmt[t].stale
      PROVE  /\ stmt'[t].used => stmt[t].used
             /\ Holds(t)' => Holds(t) /\ obj'[stmt'[t].obj].kind = obj[stmt[t].obj].kind
  BY <1>2 DEF Holds, IsLive
<1>3. CASE ExecuteThrows(s) \/ ExecuteOnNothing(s) \/ FetchThrows(s) \/ BindPositional(s)
  BY <1>1, <1>3 DEF ExecuteThrows, ExecuteOnNothing, FetchThrows, BindPositional, Crash, svars
<1>4. CASE SetCursorName(s) \/ BindParam(s) \/ FetchEnd(s)
  <2>1. UNCHANGED obj
    BY <1>4 DEF SetCursorName, BindParam, FetchEnd
  <2>2. stmt'[t].used = stmt[t].used /\ stmt'[t].obj = stmt[t].obj /\ stmt'[t].stale = stmt[t].stale
    BY <1>0, <1>4 DEF SetCursorName, BindParam, FetchEnd, StmtType
  <2> QED BY <1>2, <2>1, <2>2
<1>5. CASE ExecuteOk(s) \/ ExecuteThrowsLate(s)
  <2>1. Holds(s) /\ obj' = [obj EXCEPT ![stmt[s].obj] = Results(stmt[s].obj)]
    BY <1>5 DEF ExecuteOk, ExecuteThrowsLate
  <2>2. stmt'[t].used = stmt[t].used /\ stmt'[t].obj = stmt[t].obj /\ stmt'[t].stale = stmt[t].stale
    BY <1>0, <1>5 DEF ExecuteOk, ExecuteThrowsLate, StmtType
  <2>3. stmt[s].obj \in Obj
    BY <1>0, <2>1 DEF Holds, IsLive, StmtType
  <2>4. \A o \in Obj : obj'[o].kind = obj[o].kind /\ obj'[o].life = obj[o].life
    BY <1>0, <2>1, <2>3, ResultsOfExecute DEF DriverInv, OwnershipInv
  <2>5. stmt[t].obj \in Obj \cup {NULL}
    BY <1>0 DEF StmtType
  <2> QED BY <2>2, <2>4, <2>5 DEF Holds, IsLive
<1>6. CASE Destroy(s) \/ CloseCursor(s)
  <2>1. /\ obj' = IF Holds(s) THEN [obj EXCEPT ![stmt[s].obj] = DeletedObject] ELSE obj
        /\ stmt'[s].stale \/ stmt'[s].obj = NULL
        /\ stmt[s].used
        /\ \A q \in Stmt \ {s} : stmt'[q] = stmt[q]
     \/ /\ obj' = obj
        /\ stmt'[t].used = stmt[t].used /\ stmt'[t].obj = stmt[t].obj
        /\ stmt'[t].stale = stmt[t].stale
    <3>1. CASE Destroy(s)
      <4>1. PICK ptr \in Obj \cup {NULL}, threw \in BOOLEAN : Delete(s, ptr, threw)
        BY <3>1 DEF Destroy
      <4>2. obj' = IF Holds(s) THEN [obj EXCEPT ![stmt[s].obj] = DeletedObject] ELSE obj
        BY <4>1, DeleteEffect DEF DriverInv
      <4>3. stmt'[s].obj = NULL /\ stmt[s].used /\ \A q \in Stmt \ {s} : stmt'[q] = stmt[q]
        BY <1>0, <3>1 DEF Destroy, InUse, NoStmt, NewStmt
      <4> QED BY <4>2, <4>3
    <3>2. CASE CloseCursor(s)
      <4>1. PICK ptr \in Obj \cup {NULL}, threw \in BOOLEAN :
              /\ IF stmt[s].named \/ stmt[s].cursor_open
                 THEN Delete(s, ptr, threw)
                 ELSE ptr = stmt[s].obj /\ threw = stmt[s].stale /\ UNCHANGED <<obj, fault>>
              /\ stmt' = [stmt EXCEPT ![s].obj = ptr, ![s].stale = threw, ![s].named = FALSE,
                                      ![s].cursor_open = FALSE, ![s].executed = FALSE]
        BY <3>2 DEF CloseCursor
      <4>2. /\ stmt'[s].obj = ptr /\ stmt'[s].stale = threw /\ stmt'[s].used = stmt[s].used
            /\ \A q \in Stmt \ {s} : stmt'[q] = stmt[q]
        BY <1>0, <4>1 DEF StmtType
      <4>3. stmt[s].used
        BY <3>2 DEF CloseCursor, InUse
      <4>4. CASE stmt[s].named \/ stmt[s].cursor_open
        BY <4>1, <4>2, <4>3, <4>4, DeleteEffect DEF DriverInv
      <4>5. CASE ~(stmt[s].named \/ stmt[s].cursor_open)
        BY <4>1, <4>2, <4>5
      <4> QED BY <4>4, <4>5
    <3> QED BY <1>6, <3>1, <3>2
  <2>2. CASE /\ obj' = IF Holds(s) THEN [obj EXCEPT ![stmt[s].obj] = DeletedObject] ELSE obj
             /\ stmt'[s].stale \/ stmt'[s].obj = NULL
             /\ stmt[s].used
             /\ \A q \in Stmt \ {s} : stmt'[q] = stmt[q]
    <3>1. CASE t = s
      BY <2>2, <3>1 DEF Holds, IsLive
    <3>2. CASE t # s
      <4>1. stmt'[t] = stmt[t]
        BY <2>2, <3>2
      <4>2. ASSUME Holds(t)' PROVE Holds(t) /\ obj'[stmt[t].obj].kind = obj[stmt[t].obj].kind
        <5>1. stmt[t].obj \in Obj /\ ~stmt[t].stale
          BY <1>0, <4>1, <4>2 DEF Holds, IsLive, StmtType
        <5>2. DeletedObject.life # "live"
          BY DEF DeletedObject, NoObject
        <5>3. obj'[stmt[t].obj] = obj[stmt[t].obj]
          BY <1>0, <2>2, <4>1, <4>2, <5>1, <5>2 DEF Holds, IsLive
        <5> QED BY <4>1, <4>2, <5>1, <5>3 DEF Holds, IsLive
      <4> QED BY <4>1, <4>2
    <3> QED BY <3>1, <3>2
  <2> QED BY <1>2, <2>1, <2>2
<1> QED BY <1>3, <1>4, <1>5, <1>6 DEF StmtStep

\* lastInsertId closes the keys of an object.
LEMMA LastIdKinds ==
  ASSUME DriverInv, LastInsertId, NEW t \in Stmt
  PROVE  Holds(t)' => Holds(t) /\ obj'[stmt'[t].obj].kind = obj[stmt[t].obj].kind
<1>1. /\ last \in Obj /\ obj' = [obj EXCEPT ![last].keys = FALSE] /\ UNCHANGED stmt
      /\ obj \in [Obj -> ObjType] /\ stmt[t].obj \in Obj \cup {NULL}
  BY DEF LastInsertId, IsLive, DriverInv, OwnershipInv, StatementTypeOK, StmtType
<1>2. \A o \in Obj : obj'[o].kind = obj[o].kind /\ obj'[o].life = obj[o].life
  BY <1>1 DEF ObjType
<1> QED BY <1>1, <1>2, StatementAssumption DEF Holds, IsLive

-----------------------------------------------------------------------------
LEMMA DriverInvariant == DriverSpec => []DriverInv
<1>1. DriverInit => DriverInv
  <2> SUFFICES ASSUME DriverInit PROVE DriverInv
    OBVIOUS
  <2>1. OwnershipInv
    BY InitOwnership DEF DriverInit
  <2>2. \A s \in Stmt : ~stmt[s].used /\ stmt[s].obj = NULL
    BY DEF DriverInit, StatementInit, NoStmt, NewStmt
  <2> QED BY <2>1, <2>2 DEF DriverInv, ScriptPrepares, EmptyOnlyWithoutConnection, Holds, IsLive
<1>2. DriverInv /\ [DriverNext]_dvars => DriverInv'
  <2> SUFFICES ASSUME DriverInv, [DriverNext]_dvars PROVE DriverInv'
    OBVIOUS
  <2>1. OwnershipInv'
    BY DriverStepsStatements, StepOwnership DEF DriverInv
  <2>2. SUFFICES ScriptPrepares' /\ EmptyOnlyWithoutConnection'
    BY <2>1 DEF DriverInv
  <2>3. ASSUME \A s \in Stmt : ~stmt'[s].used PROVE ScriptPrepares' /\ EmptyOnlyWithoutConnection'
    <3>1. \A s \in Stmt : stmt'[s].obj = NULL
      BY <2>1, <2>3 DEF OwnershipInv, UnusedIsClear, NoStmt, NewStmt
    <3> QED BY <2>3, <3>1 DEF ScriptPrepares, EmptyOnlyWithoutConnection, Holds, IsLive
  <2>4. ASSUME UNCHANGED <<stmt, obj, connected, handle, prepared>>
        PROVE  ScriptPrepares' /\ EmptyOnlyWithoutConnection'
    BY <2>4 DEF DriverInv, ScriptPrepares, EmptyOnlyWithoutConnection, Holds, IsLive
  <2>5. CASE HandleCall
    <3>1. UNCHANGED svars /\ UNCHANGED <<stmt, obj>>
      BY <2>5 DEF HandleCall, svars
    <3>2. CASE ConnectOk \/ ConnectFailed \/ Attach
      <4>1. \A s \in Stmt : ~stmt[s].used
        BY <3>2 DEF ConnectOk, ConnectFailed, Attach, DriverInv, ScriptPrepares
      <4> QED BY <2>3, <3>1, <4>1
    <3>3. CASE BeginTransaction \/ CommitTransaction \/ RollBack \/ \E b \in BOOLEAN : SetAutoCommit(b)
      BY <2>4, <3>1, <3>3 DEF BeginTransaction, CommitTransaction, RollBack, SetAutoCommit
    <3>4. CASE \A s \in Stmt : ~stmt[s].used
      BY <2>3, <3>1, <3>4
    <3> QED BY <2>5, <3>2, <3>3, <3>4 DEF HandleCall
  <2>6. CASE CloseHandle
    BY <2>3, <2>6 DEF CloseHandle, DeleteHandle
  <2>7. ASSUME NEW s \in Stmt, NEW o \in Obj, NEW k \in Kind, PrepareStatement(s, o, k)
        PROVE  ScriptPrepares' /\ EmptyOnlyWithoutConnection'
    <3>1. /\ handle' = handle /\ handle = "live" /\ prepared' /\ connected' = connected
          /\ stmt' = [stmt EXCEPT ![s] = NewStmt(o)]
          /\ Allocate(o, NewObject(Created(k))) /\ obj' = [obj EXCEPT ![o] = NewObject(Created(k))]
      BY <2>7 DEF PrepareStatement, Prepare, PrepareStmt, Allocate
    <3>2. stmt \in [Stmt -> StmtType] /\ obj \in [Obj -> ObjType]
      BY DEF DriverInv, OwnershipInv, StatementTypeOK
    <3>3. /\ stmt'[s].obj = o /\ obj'[o].kind = Created(k)
          /\ \A t \in Stmt \ {s} : stmt'[t] = stmt[t]
      BY <3>1, <3>2 DEF NewStmt, NewObject
    <3>4. ASSUME NEW t \in Stmt \ {s}, Holds(t)'
          PROVE  obj'[stmt'[t].obj].kind = "empty" <=> ~connected'
      <4>1. ~stmt[t].stale /\ stmt[t].obj # NULL
        BY <3>3, <3>4 DEF Holds, IsLive
      <4>2. Holds(t)
        BY <4>1 DEF DriverInv, OwnershipInv, ObjectsAreOwned, Holds, IsLive
      <4>3. obj'[stmt[t].obj] = obj[stmt[t].obj]
        BY <3>1, <4>2, FreshObject
      <4> QED BY <3>1, <3>3, <4>2, <4>3 DEF DriverInv, EmptyOnlyWithoutConnection
    <3>5. obj'[stmt'[s].obj].kind = "empty" <=> ~connected'
      BY <3>1, <3>3, CreatedKind
    <3> QED BY <3>1, <3>4, <3>5 DEF ScriptPrepares, EmptyOnlyWithoutConnection
  <2>8. CASE PrepareFails
    <3>1. ASSUME NEW o \in Obj, Prepare(FALSE), PrepareRefused(o)
          PROVE  ScriptPrepares' /\ EmptyOnlyWithoutConnection'
      BY <3>1, AllocatedKinds DEF Prepare, PrepareRefused
    <3>2. CASE PrepareTooLong /\ UNCHANGED hvars
      BY <2>4, <3>2 DEF PrepareTooLong, Crash, hvars
    <3> QED BY <2>8, <3>1, <3>2 DEF PrepareFails
  <2>9. ASSUME NEW s \in Stmt, NEW w \in Work, RunStatement(s, w)
        PROVE  ScriptPrepares' /\ EmptyOnlyWithoutConnection'
    BY <2>9, StatementKinds, SameKinds DEF RunStatement
  <2>10. ASSUME NEW s \in Stmt, RunFails(s)
         PROVE  ScriptPrepares' /\ EmptyOnlyWithoutConnection'
    <3>1. UNCHANGED <<stmt, obj>>
      BY <2>10 DEF RunFails, ExecuteThrows, svars
    <3>2. UNCHANGED <<connected, handle, prepared>>
      BY <2>10 DEF RunFails, FailedAfterEffect, hvars
    <3> QED BY <2>4, <3>1, <3>2
  <2>11. ASSUME NEW o \in Obj, NEW k \in Kind, NEW w \in Work, Exec(o, k, w)
         PROVE  ScriptPrepares' /\ EmptyOnlyWithoutConnection'
    BY <2>11, AllocatedKinds DEF Exec, ExecOk, ExecStmt
  <2>12. ASSUME NEW o \in Obj, NEW k \in Kind, ExecFails(o, k)
         PROVE  ScriptPrepares' /\ EmptyOnlyWithoutConnection'
    <3>1. UNCHANGED <<connected, handle, prepared>>
      BY <2>12 DEF ExecFails, ExecRefused, FailedAfterEffect, hvars
    <3>2. UNCHANGED stmt /\ \E x : Allocate(o, x)
      BY <2>12 DEF ExecFails, ExecStmt, ExecStmtFailed
    <3> QED BY <3>1, <3>2, AllocatedKinds
  <2>13. CASE StatementCall
    <3>1. UNCHANGED <<connected, handle, prepared>>
      BY <2>13 DEF StatementCall, hvars
    <3>2. ASSUME NEW s \in Stmt, StmtStep(s) PROVE ScriptPrepares' /\ EmptyOnlyWithoutConnection'
      BY <3>1, <3>2, StatementKinds, SameKinds
    <3>3. CASE LastInsertId
      <4>1. UNCHANGED stmt
        BY <3>3 DEF LastInsertId
      <4> QED BY <3>1, <3>3, <4>1, LastIdKinds, SameKinds
    <3>4. CASE LastInsertIdOfDeleted
      BY <2>4, <3>1, <3>4 DEF LastInsertIdOfDeleted, Crash
    <3> QED BY <2>13, <3>2, <3>3, <3>4 DEF StatementCall
  <2>14. CASE UNCHANGED dvars
    BY <2>4, <2>14 DEF dvars, hvars, svars
  <2> QED BY <2>5, <2>6, <2>7, <2>8, <2>9, <2>10, <2>11, <2>12, <2>13, <2>14 DEF DriverNext
<1> QED BY <1>1, <1>2, PTL DEF DriverSpec

\* By its shape, the driver does with statements only what their layer allows.
LEMMA DriverImplementsStatements == DriverSpec => StatementSpec
<1>1. DriverInit => StatementInit
  BY DEF DriverInit
<1> QED BY <1>1, DriverStepsStatements, PTL DEF DriverSpec, StatementSpec

\* The driver does with the handle only what the handle allows: that an execute
\* of an empty statement is one without a connection is what it takes.
THEOREM DriverImplementsHandle == DriverSpec => HandleSpec
<1>1. DriverInit => HandleInit
  BY DEF DriverInit
<1>2. DriverInv /\ [DriverNext]_dvars => [HandleNext]_hvars
  BY DriverStepsHandle
<1> QED BY <1>1, <1>2, DriverInvariant, PTL DEF DriverSpec, HandleSpec

\* Of the composed driver too: a statement owns its object and fetches from
\* results that are there, whatever the script does with the handle.
THEOREM DriverOwnsItsObjects ==
  DriverSpec => [](ObjectsAreOwned /\ FetchFindsResults /\ CursorFlagIsExact)
BY DriverImplementsStatements, StatementsOwnTheirObjects, FetchesFindResults, CursorFlagCorrect, PTL

\* A statement that reports success without running anything is met only on a
\* handle without connection.
THEOREM EmptyStatementsAreKnown == DriverSpec => []EmptyOnlyWithoutConnection
BY DriverInvariant, PTL DEF DriverInv

\* So what is proved of the handle alone holds of the driver.
THEOREM DriverKeepsWork == DriverSpec => []AcknowledgedIsDurable
BY DriverImplementsHandle, AcknowledgedWorkIsDurable, PTL
=============================================================================
