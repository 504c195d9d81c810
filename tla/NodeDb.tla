------------------------------- MODULE NodeDb -------------------------------
(***************************************************************************)
(* The Node.js driver: one connection object and the results of its        *)
(* queries.  A result reads one row ahead of the application, which owns   *)
(* neither row: next frees the row it returned the time before.            *)
(*                                                                         *)
(* The caller is node-db, which is not in the repository: it may ask next  *)
(* of a result that has no more rows, and reads a result while others, and *)
(* the connection, are used.  A row is its number in the result.           *)
(*                                                                         *)
(* A library error is no node_db::Exception: where the exception           *)
(* specification of the driver's method does not admit it the process      *)
(* ends (dead); query catches it.  The process also ends when query goes   *)
(* through the null handle of a connection that is not alive, and it may   *)
(* end where a row is freed twice; what else becomes of the heap then is   *)
(* not modelled.                                                           *)
(***************************************************************************)
EXTENDS Naturals

CONSTANTS Res,      \* results the application may hold
          MaxRow,   \* bound: rows of a result
          MaxConn   \* bound: connections opened

ASSUME NodeAssumption == MaxRow \in Nat /\ MaxConn \in Nat

VARIABLES handle,    \* the library's connection, 0 when there is none
          alive,
          made,      \* connections made so far
          open,      \* connections made and not released
          result,    \* what each result object holds
          dead

nodeVars == <<handle, alive, made, open, result, dead>>

\* size is the number of rows the library has, read how many it has given; live
\* are the rows allocated.  History: twice are the rows freed when they no longer
\* were, past whether next was called with no row left.
NoResult == [conn |-> 0, size |-> 0, read |-> 0, previousRow |-> 0, nextRow |-> 0,
             rowNumber |-> 0, live |-> {}, twice |-> {}, past |-> FALSE]

NodeInit ==
  /\ handle = 0 /\ alive = FALSE
  /\ made = 0 /\ open = {}
  /\ result = [r \in Res |-> NoResult]
  /\ dead = FALSE

-----------------------------------------------------------------------------
\* Connection::close, a part of open too.
Released == IF alive THEN open \ {handle} ELSE open

CloseNode ==
  /\ ~dead
  /\ open' = Released
  /\ handle' = 0 /\ alive' = FALSE
  /\ UNCHANGED <<made, result, dead>>

\* A connection that cannot open its database is never released.
OpenNode(done) ==
  /\ ~dead /\ made < MaxConn
  /\ made' = made + 1
  /\ open' = Released \cup {made + 1}
  /\ handle' = IF done THEN made + 1 ELSE 0
  /\ alive' = done
  /\ UNCHANGED <<result, dead>>

-----------------------------------------------------------------------------
\* freeRow
FreeRow(x, row) ==
  IF row = 0 THEN x
  ELSE [x EXCEPT !.live = x.live \ {row}, !.twice = x.twice \cup ({row} \ x.live)]

\* row: the next row of the library in a new buffer, or none.
ReadRow(x) ==
  IF x.read = x.size THEN [x EXCEPT !.nextRow = 0]
  ELSE [x EXCEPT !.read = x.read + 1, !.nextRow = x.read + 1, !.live = x.live \cup {x.read + 1}]

\* The row read ahead becomes the row returned.
Advance(x) == ReadRow([x EXCEPT !.rowNumber = x.rowNumber + 1, !.previousRow = x.nextRow])

\* Mutant: the row returned before is freed only with the result.
NextKeepsPrevious(x) == IF x.nextRow = 0 THEN [x EXCEPT !.past = TRUE] ELSE Advance(x)

\* next: without a row ahead it returns NULL, and keeps the pointer it has freed.
NextOf(x) ==
  LET y == FreeRow(x, x.previousRow) IN
    IF x.nextRow = 0 THEN [y EXCEPT !.past = TRUE] ELSE Advance(y)

\* Whether the process outlives what was done to x.
Survives(x) == IF x.twice = {} THEN {TRUE} ELSE BOOLEAN

\* ... and a call of next, which may fail to read a row ahead, and does when the
\* connection has been released.
SurvivesNext(x) ==
  IF x.nextRow = 0 THEN Survives(NextOf(x)) ELSE IF x.conn \in open THEN BOOLEAN ELSE {FALSE}

\* query: a SELECT of n rows, whose first row the new result reads ahead.
Select(r, n) ==
  /\ ~dead /\ result[r] = NoResult
  /\ \E done \in IF alive THEN BOOLEAN ELSE {FALSE} :
       /\ dead' = ~done
       /\ result' = IF done THEN [result EXCEPT ![r] = ReadRow([NoResult EXCEPT !.conn = handle, !.size = n])]
                    ELSE result
  /\ UNCHANGED <<handle, alive, made, open>>

NextRow(r) ==
  /\ ~dead /\ result[r].conn # 0
  /\ \E done \in SurvivesNext(result[r]) :
       /\ dead' = ~done
       /\ result' = IF done THEN [result EXCEPT ![r] = NextOf(result[r])] ELSE result
  /\ UNCHANGED <<handle, alive, made, open>>

\* The destructor frees both rows.
Freed(x) == FreeRow(FreeRow(x, x.previousRow), x.nextRow)

DeleteResult(r) ==
  /\ ~dead /\ result[r].conn # 0
  /\ LET x == Freed(result[r]) IN
       /\ \E done \in Survives(x) : dead' = ~done
       /\ result' = [result EXCEPT ![r] = IF x.twice \cup x.live = {} THEN NoResult
                                          ELSE [x EXCEPT !.conn = 0]]
  /\ UNCHANGED <<handle, alive, made, open>>

NodeNext ==
  \/ CloseNode
  \/ \E done \in BOOLEAN : OpenNode(done)
  \/ \E r \in Res : NextRow(r) \/ DeleteResult(r) \/ \E n \in 0..MaxRow : Select(r, n)

NodeSpec == NodeInit /\ [][NodeNext]_nodeVars

-----------------------------------------------------------------------------
\* The application gets every row once and in order; whatever happens to the
\* connection, the row it was given last stays allocated until it asks for the
\* next, and no other row is kept.  A row is freed twice only when next was called
\* with no row left, and then only the last one (next, freeRow, free).
NodeRowsAreOwned ==
  \A r \in Res : LET x == result[r] IN
    /\ x.previousRow = x.rowNumber
    /\ x.nextRow = IF x.rowNumber = x.size THEN 0 ELSE x.rowNumber + 1
    /\ x.live = {x.previousRow, x.nextRow} \ (IF x.past THEN {0, x.size} ELSE {0})
    /\ x.twice \subseteq IF x.past THEN {x.size} ELSE {}
=============================================================================
