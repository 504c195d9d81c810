--------------------------- MODULE PhpNuodb_proofs ---------------------------
(* What is proved of the registries of the procedural PHP extension, for any *)
(* databases, connections, results, and number of requests.                  *)
EXTENDS PhpNuodb, SequenceTheorems, TLAPS

ConnType == [live : BOOLEAN, r : Seq(Res), capacity : Nat]
ResultType == [live : BOOLEAN, nc : Conn \cup {NULL}, rs : BOOLEAN, it : Nat]

\* The types the registries rest on.
TypesInv ==
  /\ conn \in [Conn -> ConnType]
  /\ conn_map \in [Hash -> Conn \cup {NULL}]
  /\ result \in [Res -> ResultType]
  /\ results_map \subseteq Res
  /\ default_connection \in Conn \cup {NULL}
  /\ links \subseteq Conn

\* A result that exists knows its connection, if only by its address.
ResultsHaveConnections == \A r \in results_map : result[r].nc \in Conn

RegistryInv ==
  /\ TypesInv
  /\ MapIsExact
  /\ ConnectionsAreFound
  /\ DefaultIsLive
  /\ ResultsHaveConnections
  /\ OneResultIsSafe

-----------------------------------------------------------------------------
LEMMA FreshValues ==
  /\ NewConn \in ConnType /\ NewConn.live /\ NewConn.r = <<>>
  /\ NoConn \in ConnType /\ ~NoConn.live
  /\ NoResult \in ResultType /\ ~NoResult.live
<1>1. <<>> \in Seq(Res)
  BY EmptySeq
<1>2. NewConn \in ConnType /\ NewConn.live /\ NewConn.r = <<>>
  BY <1>1 DEF NewConn, ConnType
<1>3. NoConn \in ConnType /\ ~NoConn.live
  BY <1>2 DEF NoConn, ConnType
<1> QED BY <1>2, <1>3 DEF NoResult, ResultType

\* What insertion makes of a vector.
LEMMA InsertedVector ==
  ASSUME NEW v \in ConnType, NEW r \in Res
  PROVE  /\ Inserted(v, r) \in ConnType
         /\ Inserted(v, r).live = v.live
         /\ Inserted(v, r).capacity = Grown(v)
         /\ Grown(v) \in Nat
         /\ v.r = <<>> => Inserted(v, r).r = <<r>>
<1>1. Grown(v) \in Nat
  BY DEF Grown, ConnType
<1>2. v.r \in Seq(Res) /\ <<r>> \in Seq(Res)
  BY DEF ConnType
<1>3. <<r>> \o v.r \in Seq(Res) /\ (v.r = <<>> => <<r>> \o v.r = <<r>>)
  BY <1>2, ConcatProperties, ConcatEmptySeq
<1> QED BY <1>1, <1>3 DEF Inserted, ConnType

LEMMA OneElement ==
  ASSUME NEW r \in Res
  PROVE  /\ ToSet(<<r>>) = {r} /\ <<r>> # <<>> /\ Tail(<<r>>) = <<>>
         /\ \A q \in Res : <<q>> = <<r>> => q = r
BY DEF ToSet

\* A connection that is new to the maps, under a hash that had none.
LEMMA ConnectionEnters ==
  ASSUME RegistryInv, NEW h \in Hash, NEW c \in Conn,
         conn_map[h] = NULL, ~conn[c].live, \A r \in Res : result[r].nc # c,
         conn' = [conn EXCEPT ![c] = NewConn], conn_map' = [conn_map EXCEPT ![h] = c],
         default_connection' \in {default_connection, c},
         links' \subseteq Conn,
         UNCHANGED <<result, results_map, overlapped, closeFailed, fault>>
  PROVE  RegistryInv'
<1>0. /\ conn \in [Conn -> ConnType] /\ conn_map \in [Hash -> Conn \cup {NULL}]
      /\ NULL \notin Conn
  BY PhpAssumption DEF RegistryInv, TypesInv
<1>1. /\ conn'[c] = NewConn /\ \A d \in Conn \ {c} : conn'[d] = conn[d]
      /\ conn_map'[h] = c /\ \A g \in Hash \ {h} : conn_map'[g] = conn_map[g]
  BY <1>0
<1>2. TypesInv'
  BY <1>0, FreshValues DEF RegistryInv, TypesInv
<1>3. MapIsExact' /\ ResultsHaveConnections'
  BY DEF RegistryInv, MapIsExact, ResultsHaveConnections
<1>4. ConnectionsAreFound'
  <2>1. \A g \in Hash : conn_map[g] # c
    BY <1>0 DEF RegistryInv, ConnectionsAreFound
  <2> QED BY <1>0, <1>1, <2>1, FreshValues DEF RegistryInv, ConnectionsAreFound
<1>5. DefaultIsLive'
  BY <1>0, <1>1, <1>2, FreshValues DEF RegistryInv, DefaultIsLive, TypesInv
<1>6. OneResultIsSafe'
  <2>1. ASSUME NEW r \in results_map
        PROVE  result[r].nc \in Conn \ {c} /\ conn'[result[r].nc] = conn[result[r].nc]
    <3>1. r \in Res /\ result[r].nc \in Conn
      BY DEF RegistryInv, ResultsHaveConnections, TypesInv
    <3> QED BY <1>1, <3>1
  <2>2. ASSUME ~overlapped, ~closeFailed, NEW r \in results_map
        PROVE  LET d == result[r].nc IN
                 conn'[d].live /\ conn'[d].r = <<r>> /\ Erasable(conn'[d], result[r].it)
    <3>1. LET d == result[r].nc IN
            conn[d].live /\ conn[d].r = <<r>> /\ Erasable(conn[d], result[r].it)
      BY <2>2 DEF RegistryInv, OneResultIsSafe
    <3> QED BY <2>1, <3>1
  <2>3. ~overlapped /\ ~closeFailed => fault # "stale iterator"
    BY DEF RegistryInv, OneResultIsSafe
  <2> QED BY <2>2, <2>3 DEF OneResultIsSafe
<1> QED BY <1>2, <1>3, <1>4, <1>5, <1>6 DEF RegistryInv

\* Freeing a connection, whatever of it throws, when the default is reset with it.
LEMMA ConnectionLeaves ==
  ASSUME RegistryInv, NEW c \in Conn, conn[c].live, NEW closed \in BOOLEAN,
         FreeConnection(c, closed),
         default_connection' = IF c = default_connection THEN NULL ELSE default_connection,
         links' \subseteq Conn,
         UNCHANGED <<overlapped, fault>>
  PROVE  RegistryInv'
<1>0. /\ conn \in [Conn -> ConnType] /\ conn_map \in [Hash -> Conn \cup {NULL}]
      /\ result \in [Res -> ResultType] /\ results_map \subseteq Res /\ NULL \notin Conn
  BY PhpAssumption DEF RegistryInv, TypesInv
<1> DEFINE found == ToSet(conn[c].r) \cap results_map
<1>a. PICK failed \in SUBSET ToSet(conn[c].r) :
         \E partly \in {{}, failed} : FreeResults(c, failed, partly)
  BY DEF FreeConnection
<1>1. PICK partly \in {{}, failed} : FreeResults(c, failed, partly)
  BY <1>a
<1>2. /\ failed \subseteq found
      /\ result' = [r \in Res |-> IF r \in found \ failed THEN NoResult
                                  ELSE [result[r] EXCEPT !.rs = @ /\ r \notin partly]]
      /\ results_map' = results_map \ (found \ failed)
      /\ closeFailed' = (closeFailed \/ failed # {})
  BY <1>1 DEF FreeResults
<1>3. /\ conn' = [conn EXCEPT ![c] = IF closed THEN NoConn ELSE [conn[c] EXCEPT !.r = <<>>]]
      /\ conn_map' = IF closed THEN [h \in Hash |-> IF conn_map[h] = c THEN NULL ELSE conn_map[h]]
                     ELSE conn_map
  BY DEF FreeConnection
<1> HIDE DEF found
<1>4. /\ \A r \in found \ failed : r \in Res => result'[r] = NoResult
      /\ \A r \in Res \ (found \ failed) :
           /\ result'[r] \in ResultType
           /\ result'[r].live = result[r].live
           /\ result'[r].nc = result[r].nc /\ result'[r].it = result[r].it
  BY <1>0, <1>2 DEF ResultType
<1>5. /\ conn'[c].live = ~closed /\ conn'[c] \in ConnType
      /\ \A d \in Conn \ {c} : conn'[d] = conn[d]
  BY <1>0, <1>3, FreshValues DEF ConnType
<1>6. TypesInv'
  <2>1. result' \in [Res -> ResultType]
    BY <1>2, <1>4, FreshValues
  <2>2. conn' \in [Conn -> ConnType]
    BY <1>0, <1>3, <1>5
  <2>3. conn_map' \in [Hash -> Conn \cup {NULL}]
    BY <1>0, <1>3
  <2> QED BY <1>2, <2>1, <2>2, <2>3 DEF RegistryInv, TypesInv
<1>7. MapIsExact'
  <2>1. \A r \in Res : result[r].live <=> r \in results_map
    BY DEF RegistryInv, MapIsExact
  <2>2. \A r \in Res : r \in found \ failed => ~result'[r].live
    BY <1>4, FreshValues
  <2>3. \A r \in Res \ (found \ failed) : result'[r].live = result[r].live
    BY <1>4
  <2>4. results_map' = results_map \ (found \ failed)
    BY <1>2
  <2>5. ASSUME NEW r \in Res PROVE result'[r].live <=> r \in results_map'
    <3>1. CASE r \in found \ failed
      BY <2>2, <2>4, <3>1
    <3>2. CASE r \notin found \ failed
      BY <2>1, <2>3, <2>4, <3>2
    <3> QED BY <3>1, <3>2
  <2>6. results_map' \subseteq Res
    BY <1>0, <2>4
  <2>7. \A r : r \in results_map' <=> r \in Res /\ result'[r].live
    BY <2>5, <2>6
  <2> QED BY <2>7, Zenon DEF MapIsExact
<1>8. ConnectionsAreFound'
  <2>1. CASE closed
    <3>1. \A h \in Hash : conn_map'[h] = IF conn_map[h] = c THEN NULL ELSE conn_map[h]
      BY <1>3, <2>1
    <3>2. \A d \in Conn : conn[d].live <=> \E h \in Hash : conn_map[h] = d
      BY DEF RegistryInv, ConnectionsAreFound
    <3>3. \A d \in Conn : conn'[d].live <=> \E h \in Hash : conn_map'[h] = d
      <4>1. ~conn'[c].live /\ \A h \in Hash : conn_map'[h] # c
        BY <1>0, <1>5, <2>1, <3>1
      <4>2. \A d \in Conn \ {c} : \A h \in Hash : conn_map'[h] = d <=> conn_map[h] = d
        BY <1>0, <3>1
      <4> QED BY <1>5, <3>2, <4>1, <4>2
    <3>4. \A g, h \in Hash : conn_map[g] = conn_map[h] /\ conn_map[g] # NULL => g = h
      BY DEF RegistryInv, ConnectionsAreFound
    <3>5. \A g, h \in Hash : conn_map'[g] = conn_map'[h] /\ conn_map'[g] # NULL => g = h
      BY <3>1, <3>4
    <3> QED BY <3>3, <3>5 DEF ConnectionsAreFound
  <2>2. CASE ~closed
    BY <1>0, <1>3, <1>5, <2>2 DEF RegistryInv, ConnectionsAreFound
  <2> QED BY <2>1, <2>2
<1>9. DefaultIsLive'
  BY <1>0, <1>5 DEF RegistryInv, DefaultIsLive, TypesInv
<1>10. ResultsHaveConnections'
  BY <1>0, <1>2, <1>4 DEF RegistryInv, ResultsHaveConnections
<1>11. OneResultIsSafe'
  <2> SUFFICES ASSUME ~overlapped', ~closeFailed'
               PROVE  /\ fault' # "stale iterator"
                      /\ \A r \in results_map' : LET d == result'[r].nc IN
                           conn'[d].live /\ conn'[d].r = <<r>> /\ Erasable(conn'[d], result'[r].it)
    BY DEF OneResultIsSafe
  <2>1. ~overlapped /\ ~closeFailed /\ failed = {}
    BY <1>2
  <2>2. /\ fault # "stale iterator"
        /\ \A r \in results_map : LET d == result[r].nc IN
             conn[d].live /\ conn[d].r = <<r>> /\ Erasable(conn[d], result[r].it)
    BY <2>1 DEF RegistryInv, OneResultIsSafe
  <2>3. ASSUME NEW r \in results_map' PROVE r \in results_map /\ result'[r].nc = result[r].nc
               /\ result'[r].it = result[r].it /\ result[r].nc \in Conn /\ r \notin found
    BY <1>0, <1>2, <1>4, <2>1 DEF RegistryInv, ResultsHaveConnections
  <2>4. ASSUME NEW r \in results_map' PROVE result[r].nc # c
    <3>1. SUFFICES ASSUME result[r].nc = c PROVE FALSE
      OBVIOUS
    <3>2. conn[c].r = <<r>>
      BY <2>2, <2>3, <3>1
    <3>3. r \in found
      BY <1>0, <2>3, <3>2, OneElement DEF found
    <3> QED BY <2>3, <3>3
  <2>5. ASSUME NEW r \in results_map', NEW d, d = result'[r].nc
        PROVE  conn'[d].live /\ conn'[d].r = <<r>> /\ Erasable(conn'[d], result'[r].it)
    <3>1. conn'[d] = conn[result[r].nc] /\ result'[r].it = result[r].it
      BY <1>5, <2>3, <2>4, <2>5
    <3> QED BY <2>2, <2>3, <3>1
  <2> QED BY <2>2, <2>5
<1> QED BY <1>6, <1>7, <1>8, <1>9, <1>10, <1>11 DEF RegistryInv

\* A select gives a connection one more result.
LEMMA ResultEnters ==
  ASSUME RegistryInv, NEW c \in Conn, NEW r \in Res, Select(c, r)
  PROVE  RegistryInv'
<1>0. /\ conn \in [Conn -> ConnType] /\ result \in [Res -> ResultType] /\ results_map \subseteq Res
      /\ conn[c] \in ConnType /\ NULL \notin Conn
  BY PhpAssumption DEF RegistryInv, TypesInv
<1> DEFINE it == Grown(conn[c])
           new == [live |-> TRUE, nc |-> c, rs |-> TRUE, it |-> it]
<1>1. /\ conn' = [conn EXCEPT ![c] = Inserted(conn[c], r)]
      /\ result' = [result EXCEPT ![r] = new]
      /\ results_map' = results_map \cup {r}
      /\ overlapped' = (overlapped \/ conn[c].r # <<>>)
      /\ conn[c].live /\ ~result[r].live
      /\ UNCHANGED <<conn_map, default_connection, links, closeFailed, fault>>
  BY DEF Select
<1>2. new \in ResultType
  BY <1>0, InsertedVector DEF ResultType
<1>3. /\ result'[r] = new /\ \A q \in Res \ {r} : result'[q] = result[q]
      /\ conn'[c] = Inserted(conn[c], r) /\ \A d \in Conn \ {c} : conn'[d] = conn[d]
      /\ conn'[c].live
  BY <1>0, <1>1, InsertedVector
<1>4. TypesInv'
  BY <1>0, <1>1, <1>2, InsertedVector DEF RegistryInv, TypesInv
<1>5. MapIsExact' /\ ResultsHaveConnections'
  BY <1>0, <1>1, <1>3 DEF RegistryInv, MapIsExact, ResultsHaveConnections
<1>6. ConnectionsAreFound' /\ DefaultIsLive'
  <2>1. \A d \in Conn : conn'[d].live = conn[d].live
    BY <1>0, <1>1, <1>3, InsertedVector
  <2> QED BY <1>0, <1>1, <2>1 DEF RegistryInv, ConnectionsAreFound, DefaultIsLive, TypesInv
<1>7. OneResultIsSafe'
  <2> SUFFICES ASSUME ~overlapped', ~closeFailed'
               PROVE  /\ fault' # "stale iterator"
                      /\ \A q \in results_map' : LET d == result'[q].nc IN
                           conn'[d].live /\ conn'[d].r = <<q>> /\ Erasable(conn'[d], result'[q].it)
    BY DEF OneResultIsSafe
  <2>1. ~overlapped /\ ~closeFailed /\ conn[c].r = <<>>
    BY <1>1
  <2>2. /\ fault # "stale iterator"
        /\ \A q \in results_map : LET d == result[q].nc IN
             conn[d].live /\ conn[d].r = <<q>> /\ Erasable(conn[d], result[q].it)
    BY <2>1 DEF RegistryInv, OneResultIsSafe
  <2>3. /\ conn'[c].r = <<r>> /\ conn'[c].capacity = it
    BY <1>0, <1>3, <2>1, InsertedVector
  <2>4. conn'[c].live /\ conn'[c].r = <<r>> /\ Erasable(conn'[c], it)
    BY <1>3, <2>3, OneElement DEF Erasable
  <2>5. ASSUME NEW q \in results_map
        PROVE  q # r /\ result'[q] = result[q] /\ result[q].nc \in Conn \ {c}
    <3>1. result[q].live /\ q # r /\ result[q].nc \in Conn
      BY <1>0, <1>1 DEF RegistryInv, MapIsExact, ResultsHaveConnections
    <3>2. <<q>> # <<>>
      BY <1>0, OneElement
    <3> QED BY <1>0, <1>3, <2>1, <2>2, <3>1, <3>2
  <2>6. ASSUME NEW q \in results_map
        PROVE  LET d == result'[q].nc IN
                 conn'[d].live /\ conn'[d].r = <<q>> /\ Erasable(conn'[d], result'[q].it)
    <3>1. result'[q] = result[q] /\ conn'[result[q].nc] = conn[result[q].nc]
      BY <1>3, <2>5
    <3>2. LET d == result[q].nc IN
            conn[d].live /\ conn[d].r = <<q>> /\ Erasable(conn[d], result[q].it)
      BY <2>2
    <3> QED BY <3>1, <3>2
  <2>7. result'[r].nc = c /\ result'[r].it = it
    BY <1>3
  <2> HIDE DEF it, new
  <2> QED BY <1>1, <2>2, <2>4, <2>6, <2>7
<1> QED BY <1>4, <1>5, <1>6, <1>7 DEF RegistryInv

\* nuodb_free_result on an iterator that is good takes one result out.
LEMMA ResultLeaves ==
  ASSUME RegistryInv, NEW r \in results_map,
         conn[result[r].nc].live, Erasable(conn[result[r].nc], result[r].it),
         conn' = [conn EXCEPT ![result[r].nc].r = Tail(@)],
         result' = [result EXCEPT ![r] = NoResult],
         results_map' = results_map \ {r},
         UNCHANGED <<conn_map, default_connection, links, overlapped, closeFailed, fault>>
  PROVE  RegistryInv'
<1> DEFINE c == result[r].nc
<1>0. /\ conn \in [Conn -> ConnType] /\ result \in [Res -> ResultType] /\ results_map \subseteq Res
      /\ c \in Conn /\ conn[c] \in ConnType /\ NULL \notin Conn /\ conn[c].r # <<>>
  BY PhpAssumption DEF RegistryInv, TypesInv, ResultsHaveConnections, Erasable
<1> HIDE DEF c
<1>1. conn' = [conn EXCEPT ![c].r = Tail(@)]
  BY DEF c
<1>2. Tail(conn[c].r) \in Seq(Res)
  BY <1>0 DEF ConnType
<1>3. /\ conn'[c] \in ConnType /\ conn'[c].live = conn[c].live /\ conn'[c].r = Tail(conn[c].r)
      /\ \A d \in Conn \ {c} : conn'[d] = conn[d]
      /\ result'[r] = NoResult /\ \A q \in Res \ {r} : result'[q] = result[q]
  <2>1. conn'[c] = [conn[c] EXCEPT !.r = Tail(conn[c].r)]
    BY <1>0, <1>1
  <2>2. conn'[c] \in ConnType /\ conn'[c].live = conn[c].live /\ conn'[c].r = Tail(conn[c].r)
    BY <1>0, <1>2, <2>1 DEF ConnType
  <2>3. \A d \in Conn \ {c} : conn'[d] = conn[d]
    BY <1>0, <1>1
  <2>4. result'[r] = NoResult /\ \A q \in Res \ {r} : result'[q] = result[q]
    BY <1>0
  <2> QED BY <2>2, <2>3, <2>4
<1>4. TypesInv'
  <2>1. conn' \in [Conn -> ConnType]
    BY <1>0, <1>1, <1>3
  <2>2. result' \in [Res -> ResultType]
    BY <1>0, FreshValues
  <2> QED BY <2>1, <2>2 DEF RegistryInv, TypesInv
<1>5. MapIsExact' /\ ResultsHaveConnections'
  <2>1. MapIsExact'
    BY <1>0, <1>3, FreshValues DEF RegistryInv, MapIsExact
  <2>2. ResultsHaveConnections'
    BY <1>0, <1>3 DEF RegistryInv, ResultsHaveConnections
  <2> QED BY <2>1, <2>2
<1>6. ConnectionsAreFound' /\ DefaultIsLive'
  <2>1. \A d \in Conn : conn'[d].live = conn[d].live
    BY <1>0, <1>3
  <2> QED BY <1>0, <2>1 DEF RegistryInv, ConnectionsAreFound, DefaultIsLive, TypesInv
<1>7. OneResultIsSafe'
  <2> SUFFICES ASSUME ~overlapped, ~closeFailed PROVE OneResultIsSafe'
    BY DEF OneResultIsSafe
  <2>1. /\ fault # "stale iterator"
        /\ \A q \in results_map : LET d == result[q].nc IN
             conn[d].live /\ conn[d].r = <<q>> /\ Erasable(conn[d], result[q].it)
    BY DEF RegistryInv, OneResultIsSafe
  <2>2. ASSUME NEW q \in results_map \ {r}
        PROVE  result'[q] = result[q] /\ result[q].nc \in Conn \ {c}
    <3>1. result[q].nc \in Conn /\ q \in Res
      BY <1>0 DEF RegistryInv, ResultsHaveConnections
    <3>2. <<q>> # <<r>>
      BY <1>0, <3>1, OneElement
    <3>3. conn[c].r = <<r>> /\ conn[result[q].nc].r = <<q>>
      BY <2>1 DEF c
    <3> QED BY <1>3, <3>1, <3>2, <3>3
  <2>3. ASSUME NEW q \in results_map \ {r}
        PROVE  LET d == result'[q].nc IN
                 conn'[d].live /\ conn'[d].r = <<q>> /\ Erasable(conn'[d], result'[q].it)
    <3>1. conn'[result'[q].nc] = conn[result[q].nc] /\ result'[q] = result[q]
      BY <1>3, <2>2
    <3>2. q \in results_map
      OBVIOUS
    <3> QED BY <2>1, <3>1, <3>2
  <2> QED BY <2>1, <2>3 DEF OneResultIsSafe
<1> QED BY <1>4, <1>5, <1>6, <1>7 DEF RegistryInv

\* A fault other than a stale iterator disturbs nothing.
LEMMA CrashKeepsRegistries ==
  ASSUME RegistryInv, NEW f, f # "stale iterator", Crash(f)
  PROVE  RegistryInv'
BY DEF RegistryInv, TypesInv, MapIsExact, ConnectionsAreFound, DefaultIsLive,
       ResultsHaveConnections, OneResultIsSafe, Crash
-----------------------------------------------------------------------------
LEMMA RegistryInvariant == PhpSpec => []RegistryInv
<1>1. PhpInit => RegistryInv
  BY FreshValues, PhpAssumption DEF PhpInit, RegistryInv, TypesInv, MapIsExact, ConnectionsAreFound, DefaultIsLive,
     ResultsHaveConnections, OneResultIsSafe
<1>2. RegistryInv /\ [PhpNext]_vars => RegistryInv'
  <2> SUFFICES ASSUME RegistryInv, [PhpNext]_vars PROVE RegistryInv'
    OBVIOUS
  <2>0. /\ links \subseteq Conn /\ default_connection \in Conn \cup {NULL}
        /\ default_connection # NULL => conn[default_connection].live
        /\ conn_map \in [Hash -> Conn \cup {NULL}] /\ result \in [Res -> ResultType]
        /\ results_map \subseteq Res
    BY DEF RegistryInv, TypesInv, DefaultIsLive
  <2>1. ASSUME NEW L \in SUBSET Conn, links' = L,
               UNCHANGED <<conn, conn_map, result, results_map, default_connection, overlapped,
                           closeFailed, fault>>
        PROVE  RegistryInv'
    BY <2>1 DEF RegistryInv, TypesInv, MapIsExact, ConnectionsAreFound, DefaultIsLive,
       ResultsHaveConnections, OneResultIsSafe
  <2>2. ASSUME NEW h \in Hash, ConnectAgain(h) PROVE RegistryInv'
    <3>1. links \cup {conn_map[h]} \in SUBSET Conn
      BY <2>0, <2>2 DEF ConnectAgain
    <3> QED BY <2>1, <2>2, <3>1 DEF ConnectAgain
  <2>3. ASSUME NEW h \in Hash, NEW c \in Conn, Connect(h, c) PROVE RegistryInv'
    BY <2>0, <2>3, ConnectionEnters DEF Connect
  <2>4. ASSUME NEW h \in Hash, NEW c \in Conn, ConnectFails(h, c) PROVE RegistryInv'
    BY <2>0, <2>4, ConnectionEnters DEF ConnectFails
  <2>5. ASSUME NEW c \in Conn, Disconnect(c) PROVE RegistryInv'
    <3>1. CASE ~conn[c].live
      BY <2>5, <3>1, CrashKeepsRegistries DEF Disconnect
    <3>2. CASE conn[c].live
      <4>1. /\ \E closed \in BOOLEAN : FreeConnection(c, closed)
            /\ default_connection' = IF c = default_connection THEN NULL ELSE default_connection
            /\ UNCHANGED <<links, handles, overlapped, fault>>
        BY <2>5, <3>2 DEF Disconnect
      <4>2. PICK closed \in BOOLEAN : FreeConnection(c, closed)
        BY <4>1
      <4>3. links' \subseteq Conn /\ UNCHANGED <<overlapped, fault>>
        BY <2>0, <4>1
      <4> QED BY <3>2, <4>1, <4>2, <4>3, ConnectionLeaves
    <3> QED BY <3>1, <3>2
  <2>6. ASSUME NEW c \in Conn, QueryDies(c) PROVE RegistryInv'
    BY <2>6, CrashKeepsRegistries DEF QueryDies
  <2>7. ASSUME NEW c \in Conn, NEW r \in Res, Select(c, r) PROVE RegistryInv'
    BY <2>7, ResultEnters
  <2>8. ASSUME NEW r \in Res, FreeResult(r) PROVE RegistryInv'
    <3> DEFINE c == result[r].nc
    <3>1. CASE ~conn[c].live /\ Crash("use after free")
      BY <3>1, CrashKeepsRegistries
    <3>2. CASE conn[c].live /\ ~Erasable(conn[c], result[r].it) /\ Crash("stale iterator")
      <4>1. overlapped \/ closeFailed
        BY <2>8, <3>2 DEF FreeResult, RegistryInv, OneResultIsSafe
      <4> QED BY <3>2, <4>1 DEF RegistryInv, TypesInv, MapIsExact, ConnectionsAreFound,
            DefaultIsLive, ResultsHaveConnections, OneResultIsSafe, Crash
    <3>3. CASE /\ conn[c].live /\ Erasable(conn[c], result[r].it)
               /\ conn' = [conn EXCEPT ![c].r = Tail(@)]
               /\ result' = [result EXCEPT ![r] = NoResult]
               /\ results_map' = results_map \ {r}
               /\ UNCHANGED <<conn_map, default_connection, links, overlapped, closeFailed, fault>>
      BY <2>8, <3>3, ResultLeaves DEF FreeResult
    <3> QED BY <2>8, <3>1, <3>2, <3>3 DEF FreeResult
  <2>9. ASSUME NEW r \in Res, FreeResultFails(r) PROVE RegistryInv'
    <3>1. /\ result' \in [Res -> ResultType]
          /\ \A q \in Res : result'[q].live = result[q].live /\ result'[q].nc = result[q].nc
      <4>1. result \in [Res -> ResultType]
        BY <2>0
      <4>0. PICK rs \in {result[r].rs, FALSE} : result' = [result EXCEPT ![r].rs = rs]
        BY <2>9 DEF FreeResultFails
      <4>2. [result[r] EXCEPT !.rs = rs] \in ResultType
        BY <4>1 DEF ResultType
      <4> QED BY <4>0, <4>1, <4>2 DEF ResultType
    <3>2. closeFailed' /\ UNCHANGED <<conn, conn_map, results_map, default_connection, links>>
      BY <2>9 DEF FreeResultFails
    <3> QED BY <2>0, <3>1, <3>2 DEF RegistryInv, TypesInv, MapIsExact, ConnectionsAreFound, DefaultIsLive,
          ResultsHaveConnections, OneResultIsSafe
  <2>10. ASSUME NEW r \in Res, FetchDies(r) PROVE RegistryInv'
    BY <2>10, CrashKeepsRegistries DEF FetchDies
  <2>11. CASE EndRequest
    <3>1. CASE default_connection = NULL
      BY <2>1, <2>11, <3>1 DEF EndRequest
    <3>2. CASE default_connection # NULL
      <4>1. PICK closed \in BOOLEAN : FreeConnection(default_connection, closed)
        BY <2>11, <3>2 DEF EndRequest
      <4>2. links' \subseteq Conn /\ default_connection' = NULL /\ UNCHANGED <<overlapped, fault>>
        BY <2>11 DEF EndRequest
      <4> QED BY <2>0, <3>2, <4>1, <4>2, ConnectionLeaves
    <3> QED BY <3>1, <3>2
  <2>12. CASE UNCHANGED vars
    BY <2>0, <2>1, <2>12 DEF vars
  <2> QED BY <2>2, <2>3, <2>4, <2>5, <2>6, <2>7, <2>8, <2>9, <2>10, <2>11, <2>12 DEF PhpNext
<1> QED BY <1>1, <1>2, PTL DEF PhpSpec

\* results_map holds exactly the results that exist.
THEOREM ResultsMapIsExact == PhpSpec => []MapIsExact
BY RegistryInvariant, PTL DEF RegistryInv

\* A connection that exists is found under one hash, and nothing else is found.
THEOREM ConnectionsStayFound == PhpSpec => []ConnectionsAreFound
BY RegistryInvariant, PTL DEF RegistryInv

\* The default connection exists.
THEOREM DefaultStaysLive == PhpSpec => []DefaultIsLive
BY RegistryInvariant, PTL DEF RegistryInv

\* Scripts with one result at a time, and no close that throws, never meet a
\* stale iterator.
THEOREM OneResultStaysSafe == PhpSpec => []OneResultIsSafe
BY RegistryInvariant, PTL DEF RegistryInv
-----------------------------------------------------------------------------
\* The conjuncts of PhpTypeOK that the registries do not rest on.
VectorsFit == \A c \in Conn : Len(conn[c].r) <= conn[c].capacity

HistoryTypeOK ==
  /\ handles \subseteq Res
  /\ overlapped \in BOOLEAN /\ closeFailed \in BOOLEAN
  /\ fault \in {"none", "stale iterator", "use after free", "null pointer", "uncaught exception"}

\* A vector that replaces one of a connection, and fits its buffer.
LEMMA VectorChanges ==
  ASSUME RegistryInv, VectorsFit, NEW c \in Conn, NEW v, Len(v.r) <= v.capacity,
         conn' = [conn EXCEPT ![c] = v]
  PROVE  VectorsFit'
<1>1. conn'[c] = v /\ \A d \in Conn \ {c} : conn'[d] = conn[d]
  BY DEF RegistryInv, TypesInv
<1> QED BY <1>1 DEF VectorsFit

\* A vector is never longer than its buffer: a full one has moved to a buffer
\* twice as big before it grows.
LEMMA InsertionFits ==
  ASSUME NEW v \in ConnType, NEW r \in Res, Len(v.r) <= v.capacity
  PROVE  Len(Inserted(v, r).r) <= Inserted(v, r).capacity
<1>1. v.r \in Seq(Res) /\ v.capacity \in Nat /\ Len(v.r) \in Nat
  BY DEF ConnType
<1>2. Len(<<r>> \o v.r) = 1 + Len(v.r)
  BY <1>1
<1>3. 1 + Len(v.r) <= Grown(v)
  BY <1>1 DEF Grown
<1>4. Inserted(v, r).r = <<r>> \o v.r /\ Inserted(v, r).capacity = Grown(v)
  BY DEF Inserted, ConnType
<1> QED BY <1>2, <1>3, <1>4

LEMMA EmptyFits ==
  /\ Len(NewConn.r) <= NewConn.capacity
  /\ Len(NoConn.r) <= NoConn.capacity
  /\ \A v \in ConnType : LET e == [v EXCEPT !.r = <<>>] IN Len(e.r) <= e.capacity
  /\ \A v \in ConnType : v.r # <<>> /\ Len(v.r) <= v.capacity =>
       LET e == [v EXCEPT !.r = Tail(v.r)] IN Len(e.r) <= e.capacity
<1>1. Len(<<>>) = 0 /\ \A s \in Seq(Res) : s # <<>> => Len(Tail(s)) = Len(s) - 1 /\ Len(s) \in Nat
  OBVIOUS
<1>2. ASSUME NEW v \in ConnType
      PROVE  /\ [v EXCEPT !.r = <<>>].r = <<>> /\ [v EXCEPT !.r = <<>>].capacity = v.capacity
             /\ [v EXCEPT !.r = Tail(v.r)].r = Tail(v.r)
             /\ [v EXCEPT !.r = Tail(v.r)].capacity = v.capacity
             /\ v.capacity \in Nat /\ v.r \in Seq(Res)
  BY DEF ConnType
<1>3. NewConn.r = <<>> /\ NewConn.capacity = 0 /\ NoConn.r = <<>> /\ NoConn.capacity = 0
  BY DEF NewConn, NoConn
<1>4. ASSUME NEW v \in ConnType, v.r # <<>>, Len(v.r) <= v.capacity
      PROVE  Len([v EXCEPT !.r = Tail(v.r)].r) <= [v EXCEPT !.r = Tail(v.r)].capacity
  <2>1. Len(Tail(v.r)) = Len(v.r) - 1 /\ Len(v.r) \in Nat
    BY <1>1, <1>2, <1>4
  <2> QED BY <1>2, <1>4, <2>1
<1>5. ASSUME NEW v \in ConnType
      PROVE  Len([v EXCEPT !.r = <<>>].r) <= [v EXCEPT !.r = <<>>].capacity
  BY <1>1, <1>2
<1> QED BY <1>1, <1>3, <1>4, <1>5

LEMMA FreedVectorFits ==
  ASSUME RegistryInv, VectorsFit, HistoryTypeOK, NEW c \in Conn, NEW closed \in BOOLEAN,
         FreeConnection(c, closed)
  PROVE  VectorsFit' /\ closeFailed' \in BOOLEAN
<1>1. conn[c] \in ConnType
  BY DEF RegistryInv, TypesInv
<1>2. VectorsFit'
  <2>1. CASE closed
    <3>1. conn' = [conn EXCEPT ![c] = NoConn]
      BY <2>1 DEF FreeConnection
    <3> QED BY <3>1, EmptyFits, VectorChanges
  <2>2. CASE ~closed
    <3> DEFINE v == [conn[c] EXCEPT !.r = <<>>]
    <3>1. conn' = [conn EXCEPT ![c] = v]
      BY <2>2 DEF FreeConnection
    <3>2. Len(v.r) <= v.capacity
      BY <1>1, EmptyFits
    <3> HIDE DEF v
    <3> QED BY <3>1, <3>2, VectorChanges
  <2> QED BY <2>1, <2>2
<1>3. closeFailed' \in BOOLEAN
  <2>1. PICK failed : closeFailed' = (closeFailed \/ failed # {})
    BY DEF FreeConnection, FreeResults
  <2> QED BY <2>1 DEF HistoryTypeOK
<1> QED BY <1>2, <1>3

\* Type correctness of the extension: among others, no vector is longer than
\* the buffer its iterators point into.
THEOREM PhpTypeCorrect == PhpSpec => []PhpTypeOK
<1>1. PhpInit => VectorsFit /\ HistoryTypeOK
  BY EmptyFits DEF PhpInit, VectorsFit, HistoryTypeOK
<1>2. RegistryInv /\ VectorsFit /\ HistoryTypeOK /\ [PhpNext]_vars => VectorsFit' /\ HistoryTypeOK'
  <2> SUFFICES ASSUME RegistryInv, VectorsFit, HistoryTypeOK, [PhpNext]_vars
               PROVE  VectorsFit' /\ HistoryTypeOK'
    OBVIOUS
  <2>0. default_connection \in Conn \cup {NULL} /\ conn \in [Conn -> ConnType]
    BY DEF RegistryInv, TypesInv
  <2>1. ASSUME NEW h \in Hash, ConnectAgain(h) PROVE VectorsFit' /\ HistoryTypeOK'
    BY <2>1 DEF ConnectAgain, VectorsFit, HistoryTypeOK
  <2>2. ASSUME NEW h \in Hash, NEW c \in Conn, Connect(h, c) \/ ConnectFails(h, c)
        PROVE  VectorsFit' /\ HistoryTypeOK'
    <3>1. conn' = [conn EXCEPT ![c] = NewConn]
      BY <2>2 DEF Connect, ConnectFails
    <3>2. UNCHANGED <<handles, overlapped, closeFailed>> /\ fault' \in {fault, "uncaught exception"}
      BY <2>2 DEF Connect, ConnectFails
    <3> QED BY <3>1, <3>2, EmptyFits, VectorChanges DEF HistoryTypeOK
  <2>3. ASSUME NEW f \in {"stale iterator", "use after free", "null pointer", "uncaught exception"},
               Crash(f)
        PROVE  VectorsFit' /\ HistoryTypeOK'
    BY <2>3 DEF Crash, VectorsFit, HistoryTypeOK
  <2>4. ASSUME NEW c \in Conn, NEW closed \in BOOLEAN, FreeConnection(c, closed),
               handles' \subseteq Res, UNCHANGED <<overlapped, fault>>
        PROVE  VectorsFit' /\ HistoryTypeOK'
    BY <2>4, FreedVectorFits DEF HistoryTypeOK
  <2>5. ASSUME NEW c \in Conn, Disconnect(c) PROVE VectorsFit' /\ HistoryTypeOK'
    <3>1. CASE Crash("use after free")
      BY <2>3, <3>1
    <3>2. CASE (\E closed \in BOOLEAN : FreeConnection(c, closed)) /\ UNCHANGED <<handles, overlapped, fault>>
      BY <2>4, <3>2 DEF HistoryTypeOK
    <3> QED BY <2>5, <3>1, <3>2 DEF Disconnect
  <2>6. ASSUME NEW c \in Conn, QueryDies(c) PROVE VectorsFit' /\ HistoryTypeOK'
    BY <2>3, <2>6 DEF QueryDies
  <2>7. ASSUME NEW c \in Conn, NEW r \in Res, Select(c, r) PROVE VectorsFit' /\ HistoryTypeOK'
    <3>1. conn' = [conn EXCEPT ![c] = Inserted(conn[c], r)]
      BY <2>7 DEF Select
    <3>2. Len(Inserted(conn[c], r).r) <= Inserted(conn[c], r).capacity
      BY <2>0, InsertionFits DEF VectorsFit
    <3>3. VectorsFit'
      BY <3>1, <3>2, VectorChanges
    <3>4. /\ handles' = handles \cup {r} /\ overlapped' = (overlapped \/ conn[c].r # <<>>)
          /\ UNCHANGED <<closeFailed, fault>>
      BY <2>7 DEF Select
    <3> QED BY <3>3, <3>4 DEF HistoryTypeOK
  <2>8. ASSUME NEW r \in Res, FreeResult(r) PROVE VectorsFit' /\ HistoryTypeOK'
    <3> DEFINE c == result[r].nc
               v == [conn[c] EXCEPT !.r = Tail(conn[c].r)]
    <3>1. CASE \E f \in {"use after free", "stale iterator"} : Crash(f)
      BY <2>3, <3>1
    <3>2. CASE /\ conn[c].r # <<>> /\ conn' = [conn EXCEPT ![c].r = Tail(@)]
               /\ UNCHANGED <<handles, overlapped, closeFailed, fault>>
      <4>1. r \in results_map
        BY <2>8 DEF FreeResult
      <4>2. c \in Conn
        BY <4>1 DEF RegistryInv, ResultsHaveConnections
      <4>3. conn' = [conn EXCEPT ![c] = v]
        BY <3>2
      <4>4. Len(v.r) <= v.capacity
        BY <2>0, <3>2, <4>2, EmptyFits DEF VectorsFit
      <4> HIDE DEF c, v
      <4>5. VectorsFit'
        BY <4>2, <4>3, <4>4, VectorChanges
      <4> QED BY <3>2, <4>5 DEF HistoryTypeOK
    <3> QED BY <2>8, <3>1, <3>2 DEF FreeResult
  <2>9. ASSUME NEW r \in Res, FreeResultFails(r) PROVE VectorsFit' /\ HistoryTypeOK'
    BY <2>9 DEF FreeResultFails, VectorsFit, HistoryTypeOK
  <2>10. ASSUME NEW r \in Res, FetchDies(r) PROVE VectorsFit' /\ HistoryTypeOK'
    BY <2>3, <2>10 DEF FetchDies
  <2>11. CASE EndRequest
    <3>1. handles' \subseteq Res /\ UNCHANGED <<overlapped, fault>>
      BY <2>11 DEF EndRequest
    <3>2. CASE default_connection = NULL
      <4>1. UNCHANGED <<conn, closeFailed>>
        BY <2>11, <3>2 DEF EndRequest
      <4> QED BY <3>1, <4>1 DEF VectorsFit, HistoryTypeOK
    <3>3. CASE default_connection # NULL
      <4>1. PICK closed \in BOOLEAN : FreeConnection(default_connection, closed)
        BY <2>11, <3>3 DEF EndRequest
      <4> QED BY <2>0, <2>4, <3>1, <3>3, <4>1
    <3> QED BY <3>2, <3>3
  <2>12. CASE UNCHANGED vars
    BY <2>12 DEF vars, VectorsFit, HistoryTypeOK
  <2> QED BY <2>1, <2>2, <2>5, <2>6, <2>7, <2>8, <2>9, <2>10, <2>11, <2>12 DEF PhpNext
<1>3. RegistryInv /\ VectorsFit /\ HistoryTypeOK => PhpTypeOK
  BY DEF RegistryInv, TypesInv, VectorsFit, HistoryTypeOK, PhpTypeOK, ConnType, ResultType
<1> QED BY <1>1, <1>2, <1>3, RegistryInvariant, PTL DEF PhpSpec
=============================================================================
