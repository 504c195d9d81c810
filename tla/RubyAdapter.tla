----------------------------- MODULE RubyAdapter -----------------------------
(***************************************************************************)
(* The ActiveRecord adapter for NuoDB (nuodb_adapter.rb) on the native     *)
(* extension (RubyNative), with ActiveRecord as its caller: a transaction  *)
(* block calls begin_db_transaction, then commit_db_transaction, and when  *)
(* that raises, or the block did, rollback_db_transaction; reconnect! ends *)
(* the block.  AbstractAdapter's reconnect! sets active and its disconnect!*)
(* clears it.                                                              *)
(*                                                                         *)
(* A query reads its whole result before it returns.  When a column has a  *)
(* type the adapter does not know it raises although the statement has run.*)
(*                                                                         *)
(* The rest is history.  acked is the work the application may take for    *)
(* durable: done in autocommit, or committed; scope the work of the open   *)
(* transaction; manual whether a block ended with autocommit still off,    *)
(* and stranded what was done outside a block after that; strays the       *)
(* statements of this connection whose close raised, or was not tried      *)
(* because ping said no, when they left the pool or could not enter it;    *)
(* halfCleared whether a clear of the pool has raised on this connection,  *)
(* and cleared whether the application called clear_cache! itself.         *)
(***************************************************************************)
EXTENDS RubyNative, Sequences, Naturals, FiniteSets

CONSTANTS Work, Stmt,
          Key,       \* SQL texts, and the process id for statements without binds
          MaxPool    \* statement_limit

ASSUME AdapterAssumption == MaxPool \in Nat \ {0}

VARIABLES native,    \* @connection
          pool,      \* @statements: entries in order of insertion
          hasPool,   \* @statements is not nil
          active,    \* @active
          txn,       \* ActiveRecord's transaction block
          acked, scope, manual, stranded, strays, halfCleared, cleared

workVars == <<acked, scope, manual, stranded>>
avars == <<native, pool, hasPool, active, txn, workVars, strays, halfCleared, cleared>>

Entry == [key : Key, stmt : Stmt]

RubyTypeOK ==
  /\ native \in NativeType(Work, Stmt)
  /\ pool \in Seq(Entry)
  /\ hasPool \in BOOLEAN
  /\ active \in BOOLEAN
  /\ txn \in {"none", "open", "failed"}
  /\ acked \subseteq Work /\ scope \subseteq Work /\ stranded \subseteq Work
  /\ strays \subseteq Stmt
  /\ manual \in BOOLEAN /\ halfCleared \in BOOLEAN /\ cleared \in BOOLEAN

\* connect! in the constructor.
AdapterInit ==
  /\ native = CreateSqlConnection({})
  /\ pool = <<>> /\ hasPool = TRUE
  /\ active = TRUE
  /\ txn = "none"
  /\ acked = {} /\ scope = {} /\ stranded = {} /\ strays = {}
  /\ manual = FALSE /\ halfCleared = FALSE /\ cleared = FALSE

-----------------------------------------------------------------------------
Pooled == {pool[i].stmt : i \in DOMAIN pool}

\* cache[key]
Cached(k) == {e \in {pool[i] : i \in DOMAIN pool} : e.key = k}

\* dealloc: a connection that does not answer keeps its statements.  left is
\* what should have been closed and was not.
Dealloc(n, s) ==
  UNION {IF answers THEN {[ok |-> r.ok, n |-> r.n, left |-> IF r.ok THEN {} ELSE {s}] :
                            r \in CloseStatement(n, s)}
                    ELSE {[ok |-> TRUE, n |-> n, left |-> {s}]} : answers \in Ping(n)}

NoEviction(n) == {[ok |-> TRUE, n |-> n, left |-> {}, rest |-> pool]}

\* Mutant: one entry too many.
EvictLate(n) ==
  IF Len(pool) <= MaxPool THEN NoEviction(n)
  ELSE {[ok |-> r.ok, n |-> r.n, left |-> r.left, rest |-> Tail(pool)] : r \in Dealloc(n, Head(pool).stmt)}

\* Mutant: the evicted statement is forgotten, not closed.
EvictOpen(n) ==
  {[ok |-> TRUE, n |-> n, left |-> {}, rest |-> IF Len(pool) < MaxPool THEN pool ELSE Tail(pool)]}

\* Mutant: the oldest statement is closed and stays.
EvictInPlace(n) ==
  IF Len(pool) < MaxPool THEN NoEviction(n)
  ELSE {[ok |-> r.ok, n |-> r.n, left |-> r.left, rest |-> pool] : r \in Dealloc(n, Head(pool).stmt)}

\* []= makes room first: the oldest entry leaves the pool, then its statement is
\* closed.  One turn of the loop is enough, the pool being within its limit.
Evict(n) ==
  IF Len(pool) < MaxPool THEN NoEviction(n)
  ELSE {[ok |-> r.ok, n |-> r.n, left |-> r.left, rest |-> Tail(pool)] : r \in Dealloc(n, Head(pool).stmt)}

\* What statements[k] = entry makes of the pool once room was made, or not: the
\* new statement s is then outside.
Stored(e, s, entry) ==
  [ok |-> e.ok, n |-> e.n, left |-> IF e.ok THEN e.left ELSE e.left \cup {s},
   pool |-> IF e.ok THEN Append(e.rest, entry) ELSE e.rest]

Found(ok, n) == [ok |-> ok, n |-> n, left |-> {}, pool |-> pool]

\* Mutant: the entry is built the wrong way round.
StoreSwapped(k, s) ==
  UNION {IF r.ok THEN {Stored(e, s, [key |-> s, stmt |-> k]) : e \in Evict(r.n)} ELSE {Found(FALSE, r.n)} :
           r \in CreateStatement(native, s)}

\* statements[k] ||= {:stmt => ...}: s is the statement of k when the pool has
\* none.
Store(k, s) ==
  UNION {IF r.ok THEN {Stored(e, s, [key |-> k, stmt |-> s]) : e \in Evict(r.n)} ELSE {Found(FALSE, r.n)} :
           r \in CreateStatement(native, s)}

Lookup(k, s) == IF Cached(k) # {} THEN {Found(TRUE, native)} ELSE Store(k, s)

\* After the statement ran: the generated keys, the result set, the names of its
\* columns, all its rows; a column type that is not known raises, too.
ReadResults(n) ==
  {Raised(n)} \cup UNION {IF m.ok THEN ReadRow(m.n) ELSE {m} :
     m \in UNION {IF k.ok THEN ReadMetaData(k.n) ELSE {k} : k \in TakeResults(n)}}

\* execute, exec_query, tables, columns on key k: the work of ws is done, or
\* nothing; then all of it was read, or something raised.
Run(k, s, ws) ==
  /\ hasPool
  /\ Cached(k) # {} => [key |-> k, stmt |-> s] \in Cached(k)
  /\ Cached(k) = {} => s \notin native.open \cup Pooled
  /\ \E found \in Lookup(k, s) :
       \E r \in IF found.ok THEN ExecuteStatement(found.n, s, ws) ELSE {Raised(found.n)} :
       \E read \in IF r.ok THEN ReadResults(r.n) ELSE {r} :
         /\ pool' = found.pool
         /\ native' = read.n
         /\ strays' = strays \cup found.left
         /\ LET told == IF read.ok THEN ws ELSE {} IN
              /\ acked' = IF txn = "none" /\ ~manual THEN acked \cup told ELSE acked
              /\ stranded' = IF txn = "none" /\ manual THEN stranded \cup told ELSE stranded
              /\ scope' = IF txn = "open" THEN scope \cup told ELSE scope
  /\ UNCHANGED <<hasPool, active, txn, manual, halfCleared, cleared>>

Fresh(w) ==
  w \notin native.session.pending \cup native.session.durable \cup acked \cup scope \cup stranded

Query(k, s) == Run(k, s, {})

DoWork(k, s, w) == Fresh(w) /\ Run(k, s, {w})

-----------------------------------------------------------------------------
\* begin_db_transaction; when it raises there is no block.
BeginDb ==
  /\ txn = "none"
  /\ \E r \in IF Reachable(native) /\ ~HasAutoCommit(native) THEN {Returned(native)}
              ELSE SetAutoCommit(native, FALSE) :
       /\ native' = r.n
       /\ txn' = IF r.ok THEN "open" ELSE "none"
  /\ scope' = {}
  /\ UNCHANGED <<pool, hasPool, active, acked, manual, stranded, strays, halfCleared, cleared>>

\* autocommit = true unless autocommit?
Restore == IF Reachable(native) /\ HasAutoCommit(native) THEN {Returned(native)}
           ELSE SetAutoCommit(native, TRUE)

\* Mutant: autocommit is left as it is.
CommitResultsNoRestore == CommitNative(native)

\* commit_db_transaction
CommitResults == UNION {IF r.ok THEN CommitNative(r.n) ELSE {r} : r \in Restore}

\* rollback_db_transaction: autocommit first, and that may commit.
RollbackResults == UNION {IF r.ok THEN RollbackNative(r.n) ELSE {r} : r \in Restore}

CommitDb ==
  /\ txn = "open"
  /\ \E r \in CommitResults :
       /\ native' = r.n
       /\ txn' = IF r.ok THEN "none" ELSE "failed"
       /\ acked' = IF r.ok THEN acked \cup scope ELSE acked
       /\ scope' = IF r.ok THEN {} ELSE scope
       /\ manual' = (manual /\ ~r.ok)
  /\ UNCHANGED <<pool, hasPool, active, stranded, strays, halfCleared, cleared>>

RollbackDb ==
  /\ txn \in {"open", "failed"}
  /\ \E r \in RollbackResults :
       /\ native' = r.n
       /\ manual' = ~HasAutoCommit(r.n)
  /\ txn' = "none"
  /\ scope' = {}
  /\ UNCHANGED <<pool, hasPool, active, acked, stranded, strays, halfCleared, cleared>>

-----------------------------------------------------------------------------
\* StatementPool#clear: each statement is closed or, when ping says no, passed
\* over; the first close that raises ends it, and the pool keeps every entry.
ClearResults ==
  LET Without(closed) == [native EXCEPT !.open = native.open \ closed] IN
    {[ok |-> TRUE, n |-> Without(closed), left |-> Pooled \ closed] :
       closed \in IF Reachable(native) THEN SUBSET Pooled ELSE {{}}} \cup
    {[ok |-> FALSE, n |-> Without(closed), left |-> {}] :
       closed \in IF Reachable(native) /\ pool # <<>>
                  THEN SUBSET {pool[i].stmt : i \in 1..(Len(pool) - 1)} ELSE {}}

\* clear_cache!; on a pool that is nil it raises.
ClearCache ==
  /\ hasPool
  /\ \E r \in ClearResults :
       /\ native' = r.n
       /\ pool' = IF r.ok THEN <<>> ELSE pool
       /\ hasPool' = ~r.ok
       /\ strays' = strays \cup r.left
       /\ halfCleared' = (halfCleared \/ ~r.ok)
       /\ cleared' = (cleared \/ r.ok)
  /\ UNCHANGED <<active, txn, workVars>>

\* The native disconnect follows a clear; its error is rescued.
ThenClose(r) ==
  IF r.ok THEN {[r EXCEPT !.n = d.n] : d \in CloseConnection(r.n)} ELSE {r}

\* Mutant: a pool that is nil is taken for an empty one.
DisconnectWithoutPool == UNION {ThenClose(r) : r \in ClearResults}

\* disconnect!: a pool that is nil, or that cannot be cleared, ends it before the
\* native disconnect.
DisconnectResults ==
  IF hasPool THEN UNION {ThenClose(r) : r \in ClearResults}
             ELSE {[ok |-> FALSE, n |-> native, left |-> {}]}

DisconnectAdapter ==
  /\ \E r \in DisconnectResults :
       /\ native' = r.n
       /\ pool' = IF r.ok THEN <<>> ELSE pool
       /\ hasPool' = (hasPool /\ ~r.ok)
       /\ strays' = strays \cup r.left
       /\ halfCleared' = (halfCleared \/ (hasPool /\ ~r.ok))
       /\ manual' = ~HasAutoCommit(r.n)
  /\ active' = FALSE
  /\ txn' = "none" /\ scope' = {}
  /\ UNCHANGED <<acked, stranded, cleared>>

\* connect! after a disconnect that returned: a session whose disconnect raised
\* stays behind, unreachable.
Connected(n) == CreateSqlConnection(n.session.durable)

\* Mutant: active before the connection is there.
ReconnectActiveFirst ==
  /\ \E r \in DisconnectResults, made \in BOOLEAN :
       /\ made => r.ok
       /\ native' = IF made THEN Connected(r.n) ELSE r.n
       /\ pool' = IF r.ok THEN <<>> ELSE pool
       /\ hasPool' = IF r.ok THEN made ELSE hasPool
       /\ strays' = IF made THEN {} ELSE strays \cup r.left
       /\ halfCleared' = (~made /\ (halfCleared \/ (hasPool /\ ~r.ok)))
       /\ manual' = ~HasAutoCommit(native')
       /\ cleared' = (cleared /\ ~made)
  /\ active' = TRUE
  /\ txn' = "none" /\ scope' = {}
  /\ UNCHANGED <<acked, stranded>>

\* reconnect!, reset!
Reconnect ==
  /\ \E r \in DisconnectResults, made \in BOOLEAN :
       /\ made => r.ok
       /\ native' = IF made THEN Connected(r.n) ELSE r.n
       /\ pool' = IF r.ok THEN <<>> ELSE pool
       /\ hasPool' = IF r.ok THEN made ELSE hasPool
       /\ strays' = IF made THEN {} ELSE strays \cup r.left
       /\ halfCleared' = (~made /\ (halfCleared \/ (hasPool /\ ~r.ok)))
       /\ active' = made
       /\ manual' = ~HasAutoCommit(native')
       /\ cleared' = (cleared /\ ~made)
  /\ txn' = "none" /\ scope' = {}
  /\ UNCHANGED <<acked, stranded>>

\* The server drops the connection at any time.
LoseConnection ==
  /\ Reachable(native)
  /\ native' = Drop(native)
  /\ UNCHANGED <<pool, hasPool, active, txn, workVars, strays, halfCleared, cleared>>

AdapterNext ==
  \/ BeginDb \/ CommitDb \/ RollbackDb
  \/ ClearCache \/ DisconnectAdapter \/ Reconnect \/ LoseConnection
  \/ \E k \in Key, s \in Stmt : Query(k, s) \/ \E w \in Work : DoWork(k, s, w)

AdapterSpec == AdapterInit /\ [][AdapterNext]_avars

-----------------------------------------------------------------------------
\* A statement in the pool is open, so that a later query of the same text does
\* not run on a closed one; unless the connection is lost, or a close raised
\* while the pool was being cleared (StatementPool, dealloc).
PoolIsExact ==
  hasPool /\ ~native.lost /\ native.session.open /\ ~halfCleared => Pooled \subseteq native.open

\* The pool never holds more than statement_limit entries, and one for each key.
PoolIsBounded ==
  /\ Len(pool) <= MaxPool
  /\ \A i, j \in DOMAIN pool : pool[i].key = pool[j].key \/ pool[i].stmt = pool[j].stmt => i = j

\* Every open statement is in the pool, which alone will close it, but for those
\* whose own close raised or was skipped by a ping that failed, and those no room
\* could be made for: no other path of eviction, clearing and failure leaves a
\* statement outside (StatementPool#[]=, clear, dealloc).
StatementsArePooled ==
  Reachable(native) => native.open \subseteq Pooled \cup strays

\* Work that was committed, or done in autocommit outside a transaction, is
\* durable whatever failures, lost connections and reconnections surround it.
\* Work done after the end of a transaction raised and left autocommit off is
\* not meant: OutsideWorkIsDurable is about that.
CommittedIsDurable == acked \subseteq native.session.durable

\* Ending a transaction "turns on auto-committing": what the application does
\* outside one is durable when it is told so (rollback_db_transaction).
OutsideWorkIsDurable == acked \cup stranded \subseteq native.session.durable

\* An adapter that calls itself active has a pool and a connection to work with
\* (ActiveRecord only reconnects one that does not); the public clear_cache!
\* alone breaks that.
ActiveIsUsable == active /\ ~cleared => hasPool /\ native.session.open

\* An adapter that lost its pool never gets it back: disconnect! and reconnect!
\* raise on nil before they reach connect!.
NoPoolIsForever == [][ ~hasPool => ~hasPool' ]_avars
=============================================================================
