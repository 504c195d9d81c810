---------------------------- MODULE PdoStatement ----------------------------
(***************************************************************************)
(* The statements of the PHP PDO driver: PDOStatement handles with their   *)
(* driver structure (pdo_nuodb_stmt), and the C++ PdoNuoDbStatement        *)
(* objects that own the library's statement, result set and generated      *)
(* keys.  stmt[s].obj is S->stmt; last is PdoNuoDbHandle::_last_stmt.      *)
(*                                                                         *)
(* A fault is where the C and C++ code has no defined continuation: the    *)
(* process is then gone and no action is enabled.  stmt[s].stale is        *)
(* history: a close() of the library has thrown and S->stmt points at      *)
(* memory that was given back, whoever has it now.                         *)
(***************************************************************************)
EXTENDS FiniteSets

CONSTANTS Stmt,        \* PDOStatement handles of the script
          Obj,         \* addresses of PdoNuoDbStatement objects
          NULL

ASSUME StatementAssumption == NULL \notin Obj

VARIABLES stmt, obj, last, fault

svars == <<stmt, obj, last, fault>>

Kind == {"select", "insert", "other"}
Life == {"free", "live", "deleted"}
Fault == {"none", "double free", "use after free", "null pointer",
          "uncaught exception"}

\* "empty" is an object whose library statement was never created.
ObjType == [life : Life, kind : Kind \cup {"empty"}, rs : BOOLEAN, keys : BOOLEAN]
StmtType == [used : BOOLEAN, obj : Obj \cup {NULL}, stale : BOOLEAN, executed : BOOLEAN,
             exhausted : BOOLEAN, cursor_open : BOOLEAN, named : BOOLEAN,
             bound : BOOLEAN]

StatementTypeOK ==
  /\ stmt \in [Stmt -> StmtType]
  /\ obj \in [Obj -> ObjType]
  /\ last \in Obj \cup {NULL}
  /\ fault \in Fault

\* Mutant: the constructor leaves _stmt_type uninitialised.
NewObjectUninitialised(k) == [life |-> "live", kind |-> IF k = "other" THEN "garbage" ELSE k,
                              rs |-> FALSE, keys |-> FALSE]

\* PdoNuoDbStatement::PdoNuoDbStatement and createStatement; and no object.
NewObject(k) == [life |-> "live", kind |-> k, rs |-> FALSE, keys |-> FALSE]
NoObject == [life |-> "free", kind |-> "empty", rs |-> FALSE, keys |-> FALSE]
DeletedObject == [NoObject EXCEPT !.life = "deleted"]

\* nuodb_handle_preparer: a zeroed structure around the new object.
NewStmt(o) == [used |-> TRUE, obj |-> o, stale |-> FALSE, executed |-> FALSE, exhausted |-> FALSE,
               cursor_open |-> FALSE, named |-> FALSE, bound |-> FALSE]
NoStmt == [NewStmt(NULL) EXCEPT !.used = FALSE]

StatementInit ==
  /\ stmt = [s \in Stmt |-> NoStmt]
  /\ obj = [o \in Obj |-> NoObject]
  /\ last = NULL
  /\ fault = "none"

IsLive(o) == o # NULL /\ obj[o].life = "live"
\* S->stmt points at an object that is its own.
Holds(s) == ~stmt[s].stale /\ IsLive(stmt[s].obj)
InUse(s) == fault = "none" /\ stmt[s].used
Crash(f) == fault' = f /\ UNCHANGED <<stmt, obj, last>>

-----------------------------------------------------------------------------
\* PdoNuoDbHandle::createStatement: the newest object is the one lastInsertId
\* will ask.
Allocate(o, object) ==
  /\ fault = "none" /\ ~IsLive(o)
  /\ obj' = [obj EXCEPT ![o] = object]
  /\ last' = o

PrepareStmt(s, o, k) ==
  /\ ~stmt[s].used
  /\ Allocate(o, NewObject(k))
  /\ stmt' = [stmt EXCEPT ![s] = NewStmt(o)]
  /\ UNCHANGED fault

\* Mutant: no exception is raised, and the script gets the empty statement.
PrepareRefusedQuietly(o) ==
  \E s \in Stmt :
    /\ ~stmt[s].used
    /\ Allocate(o, NewObject("empty"))
    /\ stmt' = [stmt EXCEPT ![s] = NewStmt(o)]
    /\ UNCHANGED fault

\* The library throws in prepareStatement: the driver raises a PHP exception
\* and still returns a statement, which PDO destroys because of the exception.
PrepareRefused(o) ==
  /\ Allocate(o, DeletedObject)
  /\ UNCHANGED <<stmt, fault>>

\* SQL over the driver's limit: the failure path hands the destructor the
\* driver structure that was never allocated.
PrepareTooLong == fault = "none" /\ Crash("null pointer")

\* The object that exec creates is never deleted.
ExecStmt(o, k) ==
  /\ Allocate(o, [NewObject(k) EXCEPT !.rs = (k = "select"), !.keys = (k = "insert")])
  /\ UNCHANGED <<stmt, fault>>

\* The statement of an exec that threw: nothing is open, the object remains.
ExecStmtFailed(o, k) ==
  /\ Allocate(o, NewObject(k))
  /\ UNCHANGED <<stmt, fault>>

-----------------------------------------------------------------------------
\* Mutant: the pointer is not cleared when the object has been deleted.
DeleteKeepsPointer(s, ptr, threw) ==
  LET o == stmt[s].obj IN
  /\ ptr = o /\ ~threw
  /\ obj' = IF o = NULL THEN obj ELSE [obj EXCEPT ![o] = DeletedObject]
  /\ UNCHANGED fault

\* pdo_nuodb_stmt_delete; ptr is what S->stmt holds afterwards.  A close that
\* throws leaves the destructor early: the memory is gone, the later members
\* are not closed, and the pointer is not cleared.
Delete(s, ptr, threw) ==
  LET o == stmt[s].obj IN
  \/ o = NULL /\ ptr = NULL /\ ~threw /\ UNCHANGED <<obj, fault>>
  \/ /\ Holds(s) /\ ptr = (IF threw THEN o ELSE NULL)
     /\ threw => obj[o].kind # "empty"
     /\ obj' = [obj EXCEPT ![o] = DeletedObject]
     /\ UNCHANGED fault
  \/ /\ o # NULL /\ ~Holds(s) /\ ptr = o /\ threw
     /\ fault' = "double free"
     /\ UNCHANGED obj

\* nuodb_stmt_dtor
Destroy(s) ==
  /\ InUse(s)
  /\ \E ptr \in Obj \cup {NULL}, threw \in BOOLEAN : Delete(s, ptr, threw)
  /\ stmt' = [stmt EXCEPT ![s] = NoStmt]
  /\ UNCHANGED last

\* nuodb_stmt_cursor_closer; PDO then clears executed.
CloseCursor(s) ==
  /\ InUse(s)
  /\ \E ptr \in Obj \cup {NULL}, threw \in BOOLEAN :
       /\ IF stmt[s].named \/ stmt[s].cursor_open
          THEN Delete(s, ptr, threw)
          ELSE ptr = stmt[s].obj /\ threw = stmt[s].stale /\ UNCHANGED <<obj, fault>>
       /\ stmt' = [stmt EXCEPT ![s].obj = ptr, ![s].stale = threw, ![s].named = FALSE,
                               ![s].cursor_open = FALSE, ![s].executed = FALSE]
  /\ UNCHANGED last

\* nuodb_stmt_set_attribute(PDO::ATTR_CURSOR_NAME); an empty name is none.
SetCursorName(s) ==
  /\ InUse(s)
  /\ \E named \in BOOLEAN : stmt' = [stmt EXCEPT ![s].named = named]
  /\ UNCHANGED <<obj, last, fault>>

\* bindParam of a named parameter; the structure has room for named parameters
\* only, and one bound by position is stored through a null pointer.
BindParam(s) ==
  /\ InUse(s)
  /\ stmt' = [stmt EXCEPT ![s].bound = TRUE]
  /\ UNCHANGED <<obj, last, fault>>

BindPositional(s) == InUse(s) /\ Crash("null pointer")

-----------------------------------------------------------------------------
\* PdoNuoDbStatement::execute: the members are overwritten, whatever they held.
Results(o) == [obj[o] EXCEPT !.rs = @ \/ obj[o].kind = "select",
                             !.keys = @ \/ obj[o].kind = "insert"]

\* Mutant: cursor_open is raised for every statement that ran.
ExecuteOpensCursor(s) ==
  LET o == stmt[s].obj IN
  /\ InUse(s) /\ Holds(s)
  /\ obj' = [obj EXCEPT ![o] = Results(o)]
  /\ stmt' = [stmt EXCEPT ![s].executed = TRUE,
                          ![s].cursor_open = TRUE, ![s].exhausted = FALSE]
  /\ UNCHANGED <<last, fault>>

\* Mutant: a missing object counts as a statement that ran.
ExecuteIgnoresMissing(s) ==
  LET o == stmt[s].obj IN
  /\ InUse(s)
  /\ obj' = IF Holds(s) THEN [obj EXCEPT ![o] = Results(o)] ELSE obj
  /\ stmt' = [stmt EXCEPT ![s].executed = TRUE]
  /\ UNCHANGED <<last, fault>>

\* nuodb_stmt_execute reporting success.
ExecuteOk(s) ==
  LET o == stmt[s].obj IN
  /\ InUse(s) /\ Holds(s)
  /\ obj' = [obj EXCEPT ![o] = Results(o)]
  /\ stmt' = [stmt EXCEPT ![s].executed = TRUE,
                          ![s].cursor_open = Results(o).rs,
                          ![s].exhausted = ~Results(o).rs]
  /\ UNCHANGED <<last, fault>>

\* The library throws before it returns results, or an INSERT's generated keys
\* cannot be had: every flag and the previous result set stay as they were.
ExecuteThrows(s) ==
  /\ InUse(s) /\ Holds(s) /\ obj[stmt[s].obj].kind # "empty"
  /\ UNCHANGED svars

\* The result set is there, but its metadata is not: cursor_open is already
\* set, exhausted is not.
ExecuteThrowsLate(s) ==
  LET o == stmt[s].obj IN
  /\ InUse(s) /\ Holds(s) /\ obj[o].kind = "select"
  /\ obj' = [obj EXCEPT ![o] = Results(o)]
  /\ stmt' = [stmt EXCEPT ![s].cursor_open = TRUE]
  /\ UNCHANGED <<last, fault>>

\* After closeCursor has deleted the object, a bound parameter is stored
\* through the null pointer before execute can refuse; after a close that
\* threw, execute works on the deleted object.
ExecuteOnNothing(s) ==
  /\ InUse(s) /\ ~Holds(s)
  /\ \/ stmt[s].obj = NULL /\ stmt[s].bound /\ Crash("null pointer")
     \/ stmt[s].obj # NULL /\ Crash("use after free")

\* nuodb_stmt_fetch: PDO asks only an executed statement.  A row leaves the
\* state alone; next() is called outside any try block.
Fetching(s) == InUse(s) /\ stmt[s].executed /\ ~stmt[s].exhausted

FetchEnd(s) ==
  /\ Fetching(s) /\ Holds(s)
  /\ stmt' = [stmt EXCEPT ![s].exhausted = TRUE]
  /\ UNCHANGED <<obj, last, fault>>

FetchThrows(s) ==
  /\ Fetching(s) /\ Holds(s) /\ obj[stmt[s].obj].rs
  /\ Crash("uncaught exception")

\* PDO::lastInsertId reads the keys of the newest statement, and closes them.
LastInsertId ==
  /\ fault = "none" /\ IsLive(last) /\ obj[last].keys
  /\ obj' = [obj EXCEPT ![last].keys = FALSE]
  /\ UNCHANGED <<stmt, last, fault>>

LastInsertIdOfDeleted ==
  /\ fault = "none" /\ last # NULL /\ ~IsLive(last)
  /\ Crash("use after free")

\* pdo_nuodb_db_handle_delete, once PDO has destroyed every statement: the
\* objects of exec stay allocated, but nothing can reach them any more.
DeleteHandle ==
  /\ fault = "none" /\ \A s \in Stmt : ~stmt[s].used
  /\ obj' = [o \in Obj |-> NoObject]
  /\ last' = NULL
  /\ UNCHANGED <<stmt, fault>>

\* What a statement does without the handle's transaction being involved.
StmtStep(s) ==
  \/ ExecuteThrowsLate(s) \/ ExecuteOnNothing(s)
  \/ FetchEnd(s) \/ FetchThrows(s)
  \/ CloseCursor(s) \/ SetCursorName(s) \/ BindParam(s) \/ BindPositional(s)
  \/ Destroy(s)

StatementNext ==
  \/ \E s \in Stmt, o \in Obj, k \in Kind \cup {"empty"} : PrepareStmt(s, o, k)
  \/ \E o \in Obj : PrepareRefused(o)
  \/ PrepareTooLong
  \/ \E o \in Obj, k \in Kind \cup {"empty"} : ExecStmt(o, k) \/ ExecStmtFailed(o, k)
  \/ \E s \in Stmt : ExecuteOk(s) \/ ExecuteThrows(s) \/ StmtStep(s)
  \/ LastInsertId \/ LastInsertIdOfDeleted
  \/ DeleteHandle

StatementSpec == StatementInit /\ [][StatementNext]_svars

-----------------------------------------------------------------------------
\* Unless a close() of the library has thrown on it, a driver structure in use
\* points at an object that exists and that no other structure points at: no
\* sequence of closeCursor, execute, destruction and re-preparation frees an
\* object twice or runs a statement of somebody else (pdo_nuodb_stmt_delete).
ObjectsAreOwned ==
  \A s \in Stmt : stmt[s].obj # NULL /\ ~stmt[s].stale =>
    /\ obj[stmt[s].obj].life = "live"
    /\ \A t \in Stmt \ {s} : stmt[t].obj = stmt[s].obj => stmt[t].stale

\* A fetch that PDO and the driver let through finds the statement's own object
\* with an open result set: PDO's executed flag, the driver's exhausted flag
\* and the C++ object never disagree, whatever failed before, close() included
\* (pdo_nuodb_stmt_fetch itself checks nothing but exhausted).
FetchFindsResults ==
  \A s \in Stmt : stmt[s].executed /\ ~stmt[s].exhausted =>
    Holds(s) /\ obj[stmt[s].obj].rs

\* "successful execute opens a cursor": cursor_open says exactly whether the
\* statement's own object holds a result set, also after an execute that failed
\* halfway; closeCursor relies on it to decide whether to release anything.
CursorFlagIsExact ==
  \A s \in Stmt : Holds(s) => (stmt[s].cursor_open <=> obj[stmt[s].obj].rs)
=============================================================================
