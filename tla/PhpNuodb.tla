------------------------------ MODULE PhpNuodb ------------------------------
(***************************************************************************)
(* The procedural PHP extension (php/nuodb_php.cpp): connections shared by *)
(* the scripts of one PHP process through conn_map, the results each       *)
(* connection keeps in a vector, and results_map, which knows the results  *)
(* that exist.  Each action is one function a script calls, or the end of  *)
(* its request; the process serves one request after another.              *)
(*                                                                         *)
(* A result remembers its place in the vector as an iterator, which is the *)
(* beginning of the buffer the vector had then; the buffer is named by its *)
(* capacity, which only grows.  A fault is undefined behaviour or an       *)
(* uncaught exception: the process is gone.  overlapped (a connection has  *)
(* had two results at once) and closeFailed (closing a result has thrown)  *)
(* are history.                                                            *)
(***************************************************************************)
EXTENDS Naturals, SequencesExt

CONSTANTS Hash,         \* database, user, password and schema of a connection
          Conn,         \* addresses of nuodb_connection_t
          Res,          \* addresses of nuodb_result_t
          NULL

ASSUME PhpAssumption == NULL \notin Conn

VARIABLES conn, conn_map, result, results_map, default_connection,
          links,        \* connections the script of this request was given
          handles,      \* results it was given
          overlapped, closeFailed, fault

vars == <<conn, conn_map, result, results_map, default_connection, links,
          handles, overlapped, closeFailed, fault>>

PhpTypeOK ==
  /\ \A c \in Conn : /\ conn[c].live \in BOOLEAN
                     /\ conn[c].r \in Seq(Res)
                     /\ conn[c].capacity \in Nat
                     /\ Len(conn[c].r) <= conn[c].capacity
  /\ conn_map \in [Hash -> Conn \cup {NULL}]
  /\ result \in [Res -> [live : BOOLEAN, nc : Conn \cup {NULL}, rs : BOOLEAN,
                         it : Nat]]
  /\ results_map \subseteq Res
  /\ default_connection \in Conn \cup {NULL}
  /\ links \subseteq Conn
  /\ handles \subseteq Res
  /\ overlapped \in BOOLEAN /\ closeFailed \in BOOLEAN
  /\ fault \in {"none", "stale iterator", "use after free", "null pointer", "uncaught exception"}

NewConn == [live |-> TRUE, r |-> <<>>, capacity |-> 0]
NoConn == [NewConn EXCEPT !.live = FALSE]
NoResult == [live |-> FALSE, nc |-> NULL, rs |-> FALSE, it |-> 0]

PhpInit ==
  /\ conn = [c \in Conn |-> NoConn]
  /\ conn_map = [h \in Hash |-> NULL]
  /\ result = [r \in Res |-> NoResult]
  /\ results_map = {}
  /\ default_connection = NULL
  /\ links = {} /\ handles = {}
  /\ overlapped = FALSE /\ closeFailed = FALSE
  /\ fault = "none"

Running == fault = "none"
Crash(f) == fault' = f /\ UNCHANGED <<conn, conn_map, result, results_map, default_connection,
                                      links, handles, overlapped, closeFailed>>

\* Mutant: the vector does not grow.
InsertedInPlace(v, r) == [v EXCEPT !.r = <<r>> \o v.r]

\* The vector after insert(begin, r): a full one moves to a buffer twice as big.
Grown(v) == IF Len(v.r) < v.capacity THEN v.capacity
            ELSE IF v.capacity = 0 THEN 1 ELSE 2 * v.capacity
Inserted(v, r) == [v EXCEPT !.r = <<r>> \o v.r, !.capacity = Grown(v)]

\* Whether erase(it) stays inside the vector.
Erasable(v, it) == it = v.capacity /\ v.r # <<>>

-----------------------------------------------------------------------------
\* nuodb_free_results: the elements that still exist are closed and deleted,
\* except the failed ones, whose closing throws, some after rs was closed.
FreeResults(c, failed, closed) ==
  LET found == ToSet(conn[c].r) \cap results_map
  IN  /\ failed \subseteq found
      /\ result' = [r \in Res |-> IF r \in found \ failed THEN NoResult
                                  ELSE [result[r] EXCEPT !.rs = @ /\ r \notin closed]]
      /\ results_map' = results_map \ (found \ failed)
      /\ closeFailed' = (closeFailed \/ failed # {})

\* nuodb_free_connection; if closing throws the connection stays, without
\* results, where nuodb_connect finds it.
FreeConnection(c, closed) ==
  /\ \E failed \in SUBSET ToSet(conn[c].r) :
       \E partly \in {{}, failed} : FreeResults(c, failed, partly)
  /\ conn' = [conn EXCEPT ![c] = IF closed THEN NoConn ELSE [conn[c] EXCEPT !.r = <<>>]]
  /\ conn_map' = IF closed THEN [h \in Hash |-> IF conn_map[h] = c THEN NULL ELSE conn_map[h]]
                 ELSE conn_map

\* nuodb_connect for a database that has a connection: it becomes no default.
ConnectAgain(h) ==
  /\ Running /\ conn_map[h] # NULL
  /\ links' = links \cup {conn_map[h]}
  /\ UNCHANGED <<conn, conn_map, result, results_map, default_connection, handles,
                 overlapped, closeFailed, fault>>

\* Mutant: every call makes a new connection.
ConnectAlways(h, c) ==
  /\ Running /\ ~conn[c].live
  /\ conn' = [conn EXCEPT ![c] = NewConn]
  /\ conn_map' = [conn_map EXCEPT ![h] = c]
  /\ default_connection' = IF default_connection = NULL THEN c ELSE default_connection
  /\ links' = links \cup {c}
  /\ UNCHANGED <<result, results_map, handles, overlapped, closeFailed, fault>>

\* nuodb_connect that opens a connection.  An address the script still holds
\* is not handed out again.
Connect(h, c) ==
  /\ Running /\ conn_map[h] = NULL /\ ~conn[c].live /\ c \notin links
  /\ \A r \in Res : result[r].nc # c
  /\ conn' = [conn EXCEPT ![c] = NewConn]
  /\ conn_map' = [conn_map EXCEPT ![h] = c]
  /\ default_connection' = IF default_connection = NULL THEN c ELSE default_connection
  /\ links' = links \cup {c}
  /\ UNCHANGED <<result, results_map, handles, overlapped, closeFailed, fault>>

\* ... and whose database cannot be opened, nor the connection closed: it stays
\* for the next nuodb_connect.  (If it can be closed, nothing is left of it.)
ConnectFails(h, c) ==
  /\ Running /\ conn_map[h] = NULL /\ ~conn[c].live /\ c \notin links
  /\ \A r \in Res : result[r].nc # c
  /\ conn' = [conn EXCEPT ![c] = NewConn]
  /\ conn_map' = [conn_map EXCEPT ![h] = c]
  /\ UNCHANGED <<result, results_map, default_connection, links, handles,
                 overlapped, closeFailed, fault>>

\* Mutant: the default connection is not reset.
DisconnectKeepsDefault(c) ==
  /\ Running /\ c \in links /\ conn[c].live
  /\ \E closed \in BOOLEAN : FreeConnection(c, closed)
  /\ UNCHANGED <<default_connection, links, handles, overlapped, fault>>

\* nuodb_disconnect
Disconnect(c) ==
  /\ Running /\ c \in links
  /\ \/ ~conn[c].live /\ Crash("use after free")
     \/ /\ conn[c].live
        /\ \E closed \in BOOLEAN : FreeConnection(c, closed)
        /\ default_connection' = IF c = default_connection THEN NULL ELSE default_connection
        /\ UNCHANGED <<links, handles, overlapped, fault>>

\* RSHUTDOWN and the RINIT of the next request: the default connection is
\* closed, the others stay open with what they have.
EndRequest ==
  /\ Running
  /\ IF default_connection = NULL
     THEN UNCHANGED <<conn, conn_map, result, results_map, closeFailed>>
     ELSE \E closed \in BOOLEAN : FreeConnection(default_connection, closed)
  /\ default_connection' = NULL
  /\ links' = {} /\ handles' = {}
  /\ UNCHANGED <<overlapped, fault>>

-----------------------------------------------------------------------------
\* The connection nuodb_query works on: the one given or the default.
Usable(c) == c \in links \/ c = default_connection

\* Mutant: the iterator is begin() as it was before the insertion.
SelectOldBegin(c, r) ==
  /\ Running /\ Usable(c) /\ conn[c].live
  /\ ~result[r].live /\ r \notin handles /\ \A d \in Conn : r \notin ToSet(conn[d].r)
  /\ conn' = [conn EXCEPT ![c] = Inserted(conn[c], r)]
  /\ result' = [result EXCEPT ![r] = [live |-> TRUE, nc |-> c, rs |-> TRUE,
                                      it |-> conn[c].capacity]]
  /\ results_map' = results_map \cup {r}
  /\ handles' = handles \cup {r}
  /\ overlapped' = (overlapped \/ conn[c].r # <<>>)
  /\ UNCHANGED <<conn_map, default_connection, links, closeFailed, fault>>

\* nuodb_query with a select.
Select(c, r) ==
  /\ Running /\ Usable(c) /\ conn[c].live
  /\ ~result[r].live /\ r \notin handles /\ \A d \in Conn : r \notin ToSet(conn[d].r)
  /\ conn' = [conn EXCEPT ![c] = Inserted(conn[c], r)]
  /\ result' = [result EXCEPT ![r] = [live |-> TRUE, nc |-> c, rs |-> TRUE,
                                      it |-> Grown(conn[c])]]
  /\ results_map' = results_map \cup {r}
  /\ handles' = handles \cup {r}
  /\ overlapped' = (overlapped \/ conn[c].r # <<>>)
  /\ UNCHANGED <<conn_map, default_connection, links, closeFailed, fault>>

\* Any query on a freed connection; one that is neither a select nor one of the
\* statements it knows (an update) registers a null result; one that throws is
\* followed by a rollback outside the try block.
QueryDies(c) ==
  /\ Running /\ Usable(c)
  /\ \/ ~conn[c].live /\ Crash("use after free")
     \/ conn[c].live /\ Crash("null pointer")
     \/ conn[c].live /\ Crash("uncaught exception")

\* Mutant: the result is deleted but stays in results_map.
FreeResultStays(r) ==
  LET c == result[r].nc IN
  /\ Running /\ r \in handles /\ r \in results_map
  /\ conn[c].live /\ Erasable(conn[c], result[r].it)
  /\ conn' = [conn EXCEPT ![c].r = Tail(@)]
  /\ result' = [result EXCEPT ![r] = NoResult]
  /\ UNCHANGED <<conn_map, results_map, default_connection, links, handles,
                 overlapped, closeFailed, fault>>

\* nuodb_free_result of a result that exists (nothing happens otherwise, nor
\* when its connection's vector is empty).
FreeResult(r) ==
  LET c == result[r].nc IN
  /\ Running /\ r \in handles /\ r \in results_map
  /\ \/ ~conn[c].live /\ Crash("use after free")
     \/ /\ conn[c].live /\ conn[c].r # <<>> /\ ~Erasable(conn[c], result[r].it)
        /\ Crash("stale iterator")
     \/ /\ conn[c].live /\ conn[c].r # <<>> /\ Erasable(conn[c], result[r].it)
        /\ conn' = [conn EXCEPT ![c].r = Tail(@)]
        /\ result' = [result EXCEPT ![r] = NoResult]
        /\ results_map' = results_map \ {r}
        /\ UNCHANGED <<conn_map, default_connection, links, handles,
                       overlapped, closeFailed, fault>>

\* ... where closing the result set throws, which leaves it set, or the commit or
\* the close of the statement after it.
FreeResultFails(r) ==
  /\ Running /\ r \in handles /\ r \in results_map
  /\ conn[result[r].nc].live /\ conn[result[r].nc].r # <<>>
  /\ \E rs \in {result[r].rs, FALSE} : result' = [result EXCEPT ![r].rs = rs]
  /\ closeFailed' = TRUE
  /\ UNCHANGED <<conn, conn_map, results_map, default_connection, links, handles,
                 overlapped, fault>>

\* Fetching from a result that exists changes nothing here.
FetchDies(r) ==
  /\ Running /\ r \in handles
  /\ \/ ~result[r].live /\ Crash("use after free")
     \/ result[r].live /\ ~result[r].rs /\ Crash("null pointer")

PhpNext ==
  \/ \E h \in Hash : ConnectAgain(h) \/ \E c \in Conn : Connect(h, c) \/ ConnectFails(h, c)
  \/ \E c \in Conn : Disconnect(c) \/ QueryDies(c) \/ \E r \in Res : Select(c, r)
  \/ \E r \in Res : FreeResult(r) \/ FreeResultFails(r) \/ FetchDies(r)
  \/ EndRequest

PhpSpec == PhpInit /\ [][PhpNext]_vars

-----------------------------------------------------------------------------
\* results_map holds exactly the results that exist, however many there were,
\* whatever threw and whatever became of the vectors: so nuodb_free_result and
\* the end of a connection never free a result twice.
MapIsExact == results_map = {r \in Res : result[r].live}

\* Every connection that exists is found under one hash, and nothing else is:
\* nuodb_connect neither returns a freed connection nor loses an open one, also
\* when opening or closing has failed.
ConnectionsAreFound ==
  /\ \A c \in Conn : conn[c].live <=> \E h \in Hash : conn_map[h] = c
  /\ \A g, h \in Hash : conn_map[g] = conn_map[h] /\ conn_map[g] # NULL => g = h

\* The default connection exists: neither disconnecting it, through this or
\* through an equal nuodb_connect, nor the end of a request leaves it dangling.
DefaultIsLive == default_connection # NULL => conn[default_connection].live

\* A process whose scripts never had two results on one connection at once,
\* and where no close has thrown, keeps the vectors exact, and so never erases
\* through a stale iterator.
OneResultIsSafe ==
  ~overlapped /\ ~closeFailed =>
    /\ fault # "stale iterator"
    /\ \A r \in results_map : LET c == result[r].nc IN
         conn[c].live /\ conn[c].r = <<r>> /\ Erasable(conn[c], result[r].it)

\* "pointer to connection r vector element": the iterator a result keeps is the
\* place of that result, at least where no close has thrown.
IteratorIsCurrent ==
  fault = "none" /\ ~closeFailed =>
    \A r \in results_map : LET v == conn[result[r].nc] IN
      Erasable(v, result[r].it) /\ Head(v.r) = r
=============================================================================
