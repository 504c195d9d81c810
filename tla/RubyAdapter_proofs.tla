------------------------- MODULE RubyAdapter_proofs -------------------------
(***************************************************************************)
(* Proofs about the ActiveRecord adapter: its pool and the statements that *)
(* are open on the connection agree, and work the application may take for *)
(* durable is durable, for any number of keys, statements and entries.     *)
(*                                                                         *)
(* The pool half of the invariant needs the entries to be distinct, so     *)
(* that closing the oldest takes no other entry with it.  The durability   *)
(* half needs the mode of the session to be known between two blocks, and  *)
(* the work of a block to be held by the session until it ends.            *)
(***************************************************************************)
EXTENDS RubyAdapter, NuoSession_proofs, SequenceTheorems

\* The statements of a pool p, and the shape PoolIsBounded gives to it.
StmtsOf(p) == {p[i].stmt : i \in DOMAIN p}

Distinct(p) == \A i, j \in DOMAIN p : p[i].key = p[j].key \/ p[i].stmt = p[j].stmt => i = j

\* Outside a transaction, and unless a block ended with autocommit off, every
\* statement is durable when it returns.
AutoAtRest == txn = "none" /\ ~manual => native.session.autocommit

\* The work of the open transaction is pending, or durable already.
ScopeIsHeld ==
  txn = "open" /\ Reachable(native)
    => scope \subseteq native.session.pending \cup native.session.durable

PoolInv == PoolIsBounded /\ PoolIsExact /\ StatementsArePooled

WorkInv == AutoAtRest /\ ScopeIsHeld /\ CommittedIsDurable

AdapterInv == RubyTypeOK /\ PoolInv /\ WorkInv /\ ActiveIsUsable

-----------------------------------------------------------------------------
\* The pool without its oldest entry.
LEMMA TailOfPool ==
  ASSUME NEW p \in Seq(Entry), Distinct(p), p # <<>>
  PROVE  /\ Tail(p) \in Seq(Entry)
         /\ Head(p).stmt \in Stmt
         /\ Len(Tail(p)) = Len(p) - 1
         /\ Distinct(Tail(p))
         /\ StmtsOf(Tail(p)) = StmtsOf(p) \ {Head(p).stmt}
         /\ \A i \in DOMAIN Tail(p) : \E j \in DOMAIN p : Tail(p)[i] = p[j]
<1>1. /\ Tail(p) \in Seq(Entry)
      /\ Len(p) \in Nat /\ Len(p) > 0
      /\ Len(Tail(p)) = Len(p) - 1
      /\ \A i \in 1..(Len(p) - 1) : Tail(p)[i] = p[i + 1]
      /\ Head(p) = p[1] /\ p[1] \in Entry
      /\ DOMAIN p = 1..Len(p) /\ DOMAIN Tail(p) = 1..(Len(p) - 1)
  OBVIOUS
<1>2. Distinct(Tail(p))
  BY <1>1 DEF Distinct
<1>3. StmtsOf(Tail(p)) \subseteq StmtsOf(p) \ {Head(p).stmt}
  <2>1. \A i \in 1..(Len(p) - 1) : p[i + 1].stmt # p[1].stmt
    BY <1>1 DEF Distinct
  <2> QED  BY <1>1, <2>1 DEF StmtsOf
<1>4. StmtsOf(p) \ {Head(p).stmt} \subseteq StmtsOf(Tail(p))
  <2> SUFFICES ASSUME NEW i \in 1..Len(p), i # 1
               PROVE  p[i].stmt \in StmtsOf(Tail(p))
    BY <1>1 DEF StmtsOf
  <2>1. i - 1 \in DOMAIN Tail(p) /\ Tail(p)[i - 1] = p[i]
    BY <1>1
  <2> QED  BY <2>1 DEF StmtsOf
<1>5. \A i \in DOMAIN Tail(p) : i + 1 \in DOMAIN p /\ Tail(p)[i] = p[i + 1]
  BY <1>1
<1>6. Head(p).stmt \in Stmt
  BY <1>1 DEF Entry
<1> QED  BY <1>1, <1>2, <1>3, <1>4, <1>5, <1>6

\* The pool with a new entry.
LEMMA AppendToPool ==
  ASSUME NEW p \in Seq(Entry), Distinct(p), NEW k \in Key, NEW s \in Stmt,
         \A i \in DOMAIN p : p[i].key # k /\ p[i].stmt # s
  PROVE  LET q == Append(p, [key |-> k, stmt |-> s]) IN
           /\ q \in Seq(Entry)
           /\ Len(q) = Len(p) + 1
           /\ Distinct(q)
           /\ StmtsOf(q) = StmtsOf(p) \cup {s}
<1> DEFINE e == [key |-> k, stmt |-> s]
           q == Append(p, e)
<1>1. e \in Entry /\ e.key = k /\ e.stmt = s
  BY DEF Entry
<1>2. /\ q \in Seq(Entry)
      /\ Len(p) \in Nat
      /\ Len(q) = Len(p) + 1
      /\ DOMAIN p = 1..Len(p) /\ DOMAIN q = 1..(Len(p) + 1)
      /\ \A i \in 1..Len(p) : q[i] = p[i]
      /\ q[Len(p) + 1] = e
  BY <1>1, AppendProperties
<1> HIDE DEF q, e
<1>3. Distinct(q)
  BY <1>1, <1>2 DEF Distinct
<1>4. StmtsOf(q) = StmtsOf(p) \cup {s}
  BY <1>1, <1>2 DEF StmtsOf
<1> QED  BY <1>2, <1>3, <1>4 DEF q, e

-----------------------------------------------------------------------------
NT == NativeType(Work, Stmt)

\* A call returned, the connection being reachable, or raised without effect.
LEMMA Attempted ==
  ASSUME NEW n, NEW m, NEW r \in Attempt(n, m)
  PROVE  \/ r.ok = FALSE /\ r.n = n
         \/ r.ok = TRUE /\ r.n = m /\ Reachable(n)
<1>1. r = [ok |-> FALSE, n |-> n] \/ (Reachable(n) /\ r = [ok |-> TRUE, n |-> m])
  BY DEF Attempt, Returned, Raised
<1> QED  BY <1>1

\* Only the statements of the connection change when one is created or closed.
LEMMA StatementCalls ==
  ASSUME NEW n \in NT, NEW s \in Stmt
  PROVE  /\ \A r \in CreateStatement(n, s) :
              /\ r.ok \in BOOLEAN /\ r.n \in NT
              /\ r.n.session = n.session /\ r.n.lost = n.lost
              /\ IF r.ok THEN Reachable(n) /\ r.n.open = n.open \cup {s} ELSE r.n = n
         /\ \A r \in CloseStatement(n, s) :
              /\ r.ok \in BOOLEAN /\ r.n \in NT
              /\ r.n.session = n.session /\ r.n.lost = n.lost
              /\ IF r.ok THEN Reachable(n) /\ r.n.open = n.open \ {s} ELSE r.n = n
<1>1. \A S \in SUBSET Stmt :
        LET m == [n EXCEPT !.open = S] IN
          m \in NT /\ m.session = n.session /\ m.lost = n.lost /\ m.open = S
  BY DEF NT, NativeType
<1>2. n.open \cup {s} \in SUBSET Stmt /\ n.open \ {s} \in SUBSET Stmt
  BY DEF NT, NativeType
<1>3. ASSUME NEW r \in CreateStatement(n, s)
      PROVE  /\ r.ok \in BOOLEAN /\ r.n \in NT
             /\ r.n.session = n.session /\ r.n.lost = n.lost
             /\ IF r.ok THEN Reachable(n) /\ r.n.open = n.open \cup {s} ELSE r.n = n
  <2> DEFINE m == [n EXCEPT !.open = n.open \cup {s}]
  <2>1. m \in NT /\ m.session = n.session /\ m.lost = n.lost /\ m.open = n.open \cup {s}
    BY <1>1, <1>2
  <2>2. r \in Attempt(n, m)
    BY <1>3 DEF CreateStatement
  <2> HIDE DEF m
  <2>3. \/ r.ok = FALSE /\ r.n = n
        \/ r.ok = TRUE /\ r.n = m /\ Reachable(n)
    BY <2>2, Attempted
  <2> QED  BY <2>1, <2>3
<1>4. ASSUME NEW r \in CloseStatement(n, s)
      PROVE  /\ r.ok \in BOOLEAN /\ r.n \in NT
             /\ r.n.session = n.session /\ r.n.lost = n.lost
             /\ IF r.ok THEN Reachable(n) /\ r.n.open = n.open \ {s} ELSE r.n = n
  <2> DEFINE m == [n EXCEPT !.open = n.open \ {s}]
  <2>1. m \in NT /\ m.session = n.session /\ m.lost = n.lost /\ m.open = n.open \ {s}
    BY <1>1, <1>2
  <2>2. r \in Attempt(n, m)
    BY <1>4 DEF CloseStatement
  <2> HIDE DEF m
  <2>3. \/ r.ok = FALSE /\ r.n = n
        \/ r.ok = TRUE /\ r.n = m /\ Reachable(n)
    BY <2>2, Attempted
  <2> QED  BY <2>1, <2>3
<1> QED  BY <1>3, <1>4

\* Reading results changes nothing on the connection.
LEMMA ReadingIsQuiet ==
  ASSUME NEW n
  PROVE  \A r \in ReadResults(n) : r.ok \in BOOLEAN /\ r.n = n
<1>1. \A m : \A r \in Attempt(m, m) : r.ok \in BOOLEAN /\ r.n = m
  BY Attempted
<1>2. \A k \in TakeResults(n) : k.ok \in BOOLEAN /\ k.n = n
  BY <1>1 DEF TakeResults
<1> DEFINE meta == UNION {IF k.ok THEN ReadMetaData(k.n) ELSE {k} : k \in TakeResults(n)}
<1>3. \A m \in meta : m.ok \in BOOLEAN /\ m.n = n
  BY <1>1, <1>2 DEF ReadMetaData
<1> HIDE DEF meta
<1>4. \A r \in UNION {IF m.ok THEN ReadRow(m.n) ELSE {m} : m \in meta} :
        r.ok \in BOOLEAN /\ r.n = n
  BY <1>1, <1>3 DEF ReadRow
<1>5. Raised(n).ok \in BOOLEAN /\ Raised(n).n = n
  BY DEF Raised
<1> QED  BY <1>4, <1>5 DEF ReadResults, meta

\* A statement that runs leaves the statements alone, and does its work or none.
LEMMA ExecutingWorks ==
  ASSUME NEW n \in NT, NEW s \in Stmt, NEW ws \in SUBSET Work,
         NEW r \in ExecuteStatement(n, s, ws)
  PROVE  /\ r.ok \in BOOLEAN /\ r.n \in NT
         /\ r.n.lost = n.lost /\ r.n.open = n.open
         /\ r.n.session.open = n.session.open
         /\ r.n.session.autocommit = n.session.autocommit
         /\ n.session.durable \subseteq r.n.session.durable
         /\ n.session.pending \subseteq r.n.session.pending
         /\ r.ok => \A w \in ws : ws = {w} =>
              /\ w \in r.n.session.pending \cup r.n.session.durable
              /\ n.session.autocommit => w \in r.n.session.durable
<1>1. CASE r = Raised(n)
  BY <1>1 DEF Raised, NT, NativeType
<1>2. CASE r = Returned(n) /\ ws = {}
  BY <1>2 DEF Returned, NT, NativeType
<1>3. CASE \E w \in ws : r = Returned([n EXCEPT !.session = Execute(n.session, w)])
  <2>1. PICK w \in ws : r = Returned([n EXCEPT !.session = Execute(n.session, w)])
    BY <1>3
  <2>2. n.session \in SessionType(Work)
    BY DEF NT, NativeType
  <2>3. /\ Execute(n.session, w) \in SessionType(Work)
        /\ n.session.durable \subseteq Execute(n.session, w).durable
        /\ n.session.pending \subseteq Execute(n.session, w).pending
        /\ w \in Execute(n.session, w).pending \cup Execute(n.session, w).durable
        /\ n.session.autocommit => w \in Execute(n.session, w).durable
        /\ Execute(n.session, w).autocommit = n.session.autocommit
    <3>1. Execute(n.session, w) \in SessionType(Work)
      BY <2>2, SessionClosed
    <3>2. /\ n.session.durable \subseteq Execute(n.session, w).durable
          /\ n.session.pending \subseteq Execute(n.session, w).pending
          /\ w \in Execute(n.session, w).pending \cup Execute(n.session, w).durable
          /\ n.session.autocommit => w \in Execute(n.session, w).durable
      BY <2>2, SessionKeeps
    <3>3. Execute(n.session, w).autocommit = n.session.autocommit
      BY <2>2, SessionMode
    <3> QED BY <3>1, <3>2, <3>3
  <2>4. Execute(n.session, w).open = n.session.open
    BY <2>2 DEF Execute, SessionType
  <2>5. /\ r.ok = TRUE
        /\ r.n = [n EXCEPT !.session = Execute(n.session, w)]
        /\ r.n \in NT
        /\ r.n.session = Execute(n.session, w)
        /\ r.n.lost = n.lost /\ r.n.open = n.open
    BY <2>1, <2>3 DEF Returned, NT, NativeType
  <2> QED  BY <2>3, <2>4, <2>5
<1> QED  BY <1>1, <1>2, <1>3 DEF ExecuteStatement

-----------------------------------------------------------------------------
\* What a lookup may do to the connection: the session is untouched, and pool
\* and open statements agree after it as they did before, but for what it left.
Agrees(found) ==
  /\ found.ok \in BOOLEAN /\ found.n \in NT /\ found.left \subseteq Stmt
  /\ found.n.session = native.session /\ found.n.lost = native.lost
  /\ found.pool \in Seq(Entry)
  /\ Len(found.pool) <= MaxPool /\ Distinct(found.pool)
  /\ Pooled \subseteq native.open => StmtsOf(found.pool) \subseteq found.n.open
  /\ native.open \subseteq Pooled \cup strays
       => found.n.open \subseteq StmtsOf(found.pool) \cup strays \cup found.left

\* Deallocating a statement closes it, or leaves it.
LEMMA DeallocWorks ==
  ASSUME NEW n \in NT, NEW s \in Stmt, NEW r \in Dealloc(n, s)
  PROVE  /\ r.ok \in BOOLEAN /\ r.n \in NT
         /\ r.n.session = n.session /\ r.n.lost = n.lost
         /\ \/ r.ok /\ r.left = {} /\ r.n.open = n.open \ {s}
            \/ r.left = {s} /\ r.n = n
<1>1. CASE r = [ok |-> TRUE, n |-> n, left |-> {s}]
  BY <1>1
<1>2. CASE \E c \in CloseStatement(n, s) :
             r = [ok |-> c.ok, n |-> c.n, left |-> IF c.ok THEN {} ELSE {s}]
  <2>1. PICK c \in CloseStatement(n, s) :
          r = [ok |-> c.ok, n |-> c.n, left |-> IF c.ok THEN {} ELSE {s}]
    BY <1>2
  <2>2. /\ c.ok \in BOOLEAN /\ c.n \in NT
        /\ c.n.session = n.session /\ c.n.lost = n.lost
        /\ IF c.ok THEN c.n.open = n.open \ {s} ELSE c.n = n
    BY StatementCalls
  <2>3. r.ok = c.ok /\ r.n = c.n /\ r.left = IF c.ok THEN {} ELSE {s}
    BY <2>1
  <2> QED  BY <2>2, <2>3
<1> QED  BY <1>1, <1>2 DEF Dealloc

LEMMA StoreAgrees ==
  ASSUME RubyTypeOK, PoolIsBounded, NEW k \in Key, NEW s \in Stmt,
         Cached(k) = {}, s \notin native.open \cup Pooled,
         NEW found \in Store(k, s)
  PROVE  Agrees(found)
<1> USE AdapterAssumption
<1> DEFINE entry == [key |-> k, stmt |-> s]
<1>1. /\ native \in NT /\ pool \in Seq(Entry) /\ Len(pool) <= MaxPool /\ Len(pool) \in Nat
      /\ Distinct(pool) /\ Pooled = StmtsOf(pool)
  BY DEF RubyTypeOK, PoolIsBounded, Distinct, Pooled, StmtsOf, NT
<1>2. \A i \in DOMAIN pool : pool[i].key # k /\ pool[i].stmt # s
  BY DEF Cached, Pooled
<1>3. CASE \E r \in CreateStatement(native, s) : ~r.ok /\ found = Found(FALSE, r.n)
  <2> PICK r \in CreateStatement(native, s) : ~r.ok /\ found = Found(FALSE, r.n)
    BY <1>3
  <2>1. r.n = native
    BY <1>1, StatementCalls
  <2> QED  BY <1>1, <2>1 DEF Agrees, Found
<1>4. ASSUME NEW r \in CreateStatement(native, s), r.ok, NEW e \in Evict(r.n),
             found = Stored(e, s, entry)
      PROVE  Agrees(found)
  <2>1. /\ r.n \in NT /\ r.n.session = native.session /\ r.n.lost = native.lost
        /\ r.n.open = native.open \cup {s}
    BY <1>1, <1>4, StatementCalls
  <2>2. CASE Len(pool) < MaxPool
    <3> DEFINE q == Append(pool, entry)
    <3>1. e = [ok |-> TRUE, n |-> r.n, left |-> {}, rest |-> pool]
      BY <1>4, <2>2 DEF Evict, NoEviction
    <3>2. found.ok = TRUE /\ found.n = r.n /\ found.left = {} /\ found.pool = q
      BY <1>4, <3>1 DEF Stored
    <3>3. /\ q \in Seq(Entry) /\ Len(q) = Len(pool) + 1
          /\ Distinct(q) /\ StmtsOf(q) = StmtsOf(pool) \cup {s}
      BY <1>1, <1>2, AppendToPool
    <3> HIDE DEF q
    <3>4. Len(q) <= MaxPool
      BY <1>1, <2>2, <3>3
    <3> QED  BY <1>1, <2>1, <3>2, <3>3, <3>4 DEF Agrees
  <2>3. CASE ~(Len(pool) < MaxPool)
    <3>1. /\ pool # <<>> /\ Len(pool) = MaxPool
      BY <1>1, <2>3
    <3> DEFINE t == Tail(pool)
               h == Head(pool).stmt
               q == Append(t, entry)
    <3>2. /\ t \in Seq(Entry) /\ h \in Stmt /\ Len(t) = Len(pool) - 1
          /\ Distinct(t) /\ StmtsOf(t) = StmtsOf(pool) \ {h}
          /\ \A i \in DOMAIN t : \E j \in DOMAIN pool : t[i] = pool[j]
      BY <1>1, <3>1, TailOfPool
    <3>3. h \in StmtsOf(pool)
      BY <1>1, <3>1 DEF StmtsOf
    <3>4. h # s
      BY <1>1, <3>3
    <3>5. PICK c \in Dealloc(r.n, h) : e = [ok |-> c.ok, n |-> c.n, left |-> c.left, rest |-> t]
      BY <1>4, <2>3 DEF Evict
    <3> HIDE DEF t, h
    <3>6. /\ c.ok \in BOOLEAN /\ c.n \in NT
          /\ c.n.session = native.session /\ c.n.lost = native.lost
          /\ \/ c.ok /\ c.left = {} /\ c.n.open = (native.open \cup {s}) \ {h}
             \/ c.left = {h} /\ c.n.open = native.open \cup {s}
      BY <2>1, <3>2, <3>5, DeallocWorks
    <3>7. CASE c.ok
      <4>1. /\ q \in Seq(Entry) /\ Len(q) = Len(t) + 1
            /\ Distinct(q) /\ StmtsOf(q) = StmtsOf(t) \cup {s}
        <5>1. \A i \in DOMAIN t : t[i].key # k /\ t[i].stmt # s
          BY <1>2, <3>2
        <5> QED  BY <5>1, <3>2, AppendToPool
      <4>2. found.ok = TRUE /\ found.n = c.n /\ found.left = c.left /\ found.pool = q
        BY <1>4, <3>5, <3>7, <3>6 DEF Stored
      <4> HIDE DEF q
      <4>3. Len(q) <= MaxPool
        BY <1>1, <3>1, <3>2, <4>1
      <4> QED  BY <1>1, <3>2, <3>3, <3>4, <3>6, <4>1, <4>2, <4>3 DEF Agrees
    <3>8. CASE ~c.ok
      <4>1. found.ok = FALSE /\ found.n = c.n /\ found.left = {h} \cup {s} /\ found.pool = t
        BY <1>4, <3>5, <3>6, <3>8 DEF Stored
      <4> HIDE DEF q
      <4>2. Len(t) <= MaxPool
        BY <1>1, <3>1, <3>2
      <4> QED  BY <1>1, <3>2, <3>3, <3>6, <3>8, <4>1, <4>2 DEF Agrees
    <3> QED  BY <3>6, <3>7, <3>8
  <2> QED  BY <2>2, <2>3
<1>5. PICK r \in CreateStatement(native, s) :
        found \in IF r.ok THEN {Stored(e, s, entry) : e \in Evict(r.n)} ELSE {Found(FALSE, r.n)}
  BY DEF Store
<1>6. CASE r.ok
  <2> HIDE DEF entry
  <2>1. PICK e \in Evict(r.n) : found = Stored(e, s, entry)
    BY <1>5, <1>6
  <2> QED  BY <1>4, <1>6, <2>1
<1>7. CASE ~r.ok
  BY <1>3, <1>5, <1>7
<1> QED  BY <1>6, <1>7

LEMMA LookupAgrees ==
  ASSUME RubyTypeOK, PoolIsBounded, NEW k \in Key, NEW s \in Stmt,
         Cached(k) = {} => s \notin native.open \cup Pooled,
         NEW found \in Lookup(k, s)
  PROVE  Agrees(found)
<1>1. CASE Cached(k) = {}
  BY <1>1, StoreAgrees DEF Lookup
<1>2. CASE Cached(k) # {}
  <2>1. found.ok = TRUE /\ found.n = native /\ found.left = {} /\ found.pool = pool
    BY <1>2 DEF Lookup, Found
  <2>2. Distinct(pool) /\ StmtsOf(pool) = Pooled /\ Len(pool) <= MaxPool
    BY DEF PoolIsBounded, Distinct, StmtsOf, Pooled
  <2> QED  BY <2>1, <2>2 DEF Agrees, RubyTypeOK, NT
<1> QED  BY <1>1, <1>2

-----------------------------------------------------------------------------
\* m is n after calls about transactions: no durable work is lost.
Keeps(n, m) ==
  /\ m \in NT
  /\ m.lost = n.lost /\ m.open = n.open
  /\ m.session.open = n.session.open
  /\ n.session.durable \subseteq m.session.durable

LEMMA WithSession ==
  ASSUME NEW n \in NT, NEW s \in SessionType(Work),
         s.open = n.session.open, n.session.durable \subseteq s.durable
  PROVE  LET m == [n EXCEPT !.session = s] IN Keeps(n, m) /\ m.session = s
BY DEF Keeps, NT, NativeType

LEMMA AutocommitCall ==
  ASSUME NEW n \in NT, NEW b \in BOOLEAN, NEW r \in SetAutoCommit(n, b)
  PROVE  /\ r.ok \in BOOLEAN /\ Keeps(n, r.n)
         /\ n.session.pending \cup n.session.durable
              \subseteq r.n.session.pending \cup r.n.session.durable
         /\ IF r.ok THEN Reachable(n) /\ r.n.session.autocommit = b ELSE r.n = n
<1>1. CASE r = Raised(n)
  <2>1. r.ok = FALSE /\ r.n = n
    BY <1>1 DEF Raised
  <2> QED  BY <2>1 DEF Keeps
<1>2. CASE /\ Reachable(n)
           /\ \E s \in SetAutoCommitResults(n.session, b) :
                r = Returned([n EXCEPT !.session = s])
  <2>1. PICK s \in SetAutoCommitResults(n.session, b) : r = Returned([n EXCEPT !.session = s])
    BY <1>2
  <2>2. n.session \in SessionType(Work)
    BY DEF NT, NativeType
  <2>3. s \in SessionType(Work)
    BY <2>1, <2>2, SessionClosed
  <2>4. /\ s.open = n.session.open /\ s.autocommit = b
        /\ n.session.durable \subseteq s.durable
        /\ n.session.pending \cup n.session.durable \subseteq s.pending \cup s.durable
    BY <2>1, <2>2 DEF SetAutoCommitResults, Commit, SessionType
  <2> DEFINE m == [n EXCEPT !.session = s]
  <2>5. Keeps(n, m) /\ m.session = s
    BY <2>3, <2>4, WithSession
  <2> HIDE DEF m
  <2>6. r.ok = TRUE /\ r.n = m
    BY <2>1 DEF Returned, m
  <2> QED  BY <1>2, <2>4, <2>5, <2>6
<1> QED  BY <1>1, <1>2 DEF SetAutoCommit

\* Autocommit is on again, or nothing happened.
LEMMA RestoreWorks ==
  ASSUME native \in NT, NEW r \in Restore
  PROVE  /\ r.ok \in BOOLEAN /\ Keeps(native, r.n)
         /\ native.session.pending \cup native.session.durable
              \subseteq r.n.session.pending \cup r.n.session.durable
         /\ IF r.ok THEN Reachable(native) /\ r.n.session.autocommit ELSE r.n = native
<1>1. CASE Reachable(native) /\ HasAutoCommit(native) /\ r = Returned(native)
  <2>1. r.ok = TRUE /\ r.n = native
    BY <1>1 DEF Returned
  <2> QED  BY <1>1, <2>1 DEF Keeps, HasAutoCommit
<1>2. CASE r \in SetAutoCommit(native, TRUE)
  BY <1>2, AutocommitCall
<1> QED  BY <1>1, <1>2 DEF Restore

\* A commit that returned has made all the work of the session durable.
LEMMA CommitWorks ==
  ASSUME native \in NT, NEW r \in CommitResults
  PROVE  /\ r.ok \in BOOLEAN /\ Keeps(native, r.n)
         /\ r.ok => /\ Reachable(native) /\ r.n.session.autocommit
                    /\ native.session.pending \cup native.session.durable \subseteq r.n.session.durable
<1>1. PICK a \in Restore : r \in IF a.ok THEN CommitNative(a.n) ELSE {a}
  BY DEF CommitResults
<1>2. /\ a.ok \in BOOLEAN /\ Keeps(native, a.n)
      /\ native.session.pending \cup native.session.durable
           \subseteq a.n.session.pending \cup a.n.session.durable
      /\ IF a.ok THEN Reachable(native) /\ a.n.session.autocommit ELSE a.n = native
  BY RestoreWorks
<1>3. CASE ~a.ok
  BY <1>1, <1>2, <1>3
<1>4. CASE a.ok
  <2>1. a.n \in NT /\ a.n.session \in SessionType(Work)
    BY <1>2 DEF Keeps, NT, NativeType
  <2> DEFINE c == Commit(a.n.session)
             m == [a.n EXCEPT !.session = c]
  <2>2. /\ c \in SessionType(Work) /\ c.open = a.n.session.open
        /\ c.autocommit = a.n.session.autocommit
        /\ c.durable = a.n.session.durable \cup a.n.session.pending
    BY <2>1 DEF Commit, SessionType
  <2>3. Keeps(a.n, m) /\ m.session = c
    BY <2>1, <2>2, WithSession
  <2>4. r \in Attempt(a.n, m)
    BY <1>1, <1>4 DEF CommitNative
  <2> HIDE DEF c, m
  <2>5. \/ r.ok = FALSE /\ r.n = a.n
        \/ r.ok = TRUE /\ r.n = m
    BY <2>4, Attempted
  <2> QED  BY <1>2, <1>4, <2>2, <2>3, <2>5 DEF Keeps
<1> QED  BY <1>2, <1>3, <1>4

LEMMA RollbackWorks ==
  ASSUME native \in NT, NEW r \in RollbackResults
  PROVE  r.ok \in BOOLEAN /\ Keeps(native, r.n)
<1>1. PICK a \in Restore : r \in IF a.ok THEN RollbackNative(a.n) ELSE {a}
  BY DEF RollbackResults
<1>2. a.ok \in BOOLEAN /\ Keeps(native, a.n)
  BY RestoreWorks
<1>3. CASE ~a.ok
  BY <1>1, <1>2, <1>3
<1>4. CASE a.ok
  <2>1. a.n \in NT /\ a.n.session \in SessionType(Work)
    BY <1>2 DEF Keeps, NT, NativeType
  <2> DEFINE c == Rollback(a.n.session)
             m == [a.n EXCEPT !.session = c]
  <2>2. /\ c \in SessionType(Work) /\ c.open = a.n.session.open
        /\ c.durable = a.n.session.durable
    BY <2>1 DEF Rollback, SessionType
  <2>3. Keeps(a.n, m)
    BY <2>1, <2>2, WithSession
  <2>4. r \in Attempt(a.n, m)
    BY <1>1, <1>4 DEF RollbackNative
  <2> HIDE DEF c, m
  <2>5. r.ok \in BOOLEAN /\ (r.n = a.n \/ r.n = m)
    BY <2>4, Attempted
  <2> QED  BY <1>2, <2>3, <2>5 DEF Keeps
<1> QED  BY <1>3, <1>4

-----------------------------------------------------------------------------
LEMMA PooledTyped ==
  ASSUME RubyTypeOK
  PROVE  Pooled \subseteq Stmt
<1>1. \A i \in DOMAIN pool : pool[i] \in Entry
  BY DEF RubyTypeOK
<1> QED  BY <1>1 DEF Pooled, Entry

\* Clearing the pool closes what is in it, but for what it leaves, or raises; the
\* session is untouched.
LEMMA ClearWorks ==
  ASSUME native \in NT, Pooled \subseteq Stmt, NEW r \in ClearResults
  PROVE  /\ r.ok \in BOOLEAN /\ r.n \in NT /\ r.left \subseteq Stmt
         /\ r.n.session = native.session /\ r.n.lost = native.lost
         /\ r.n.open \subseteq native.open
         /\ r.ok => r.n.open \subseteq (native.open \ Pooled) \cup r.left
<1>1. \A S : LET m == [native EXCEPT !.open = native.open \ S] IN
               /\ m \in NT /\ m.session = native.session /\ m.lost = native.lost
               /\ m.open = native.open \ S
  BY DEF NT, NativeType
<1>2. CASE \E S \in SUBSET Pooled :
             r = [ok |-> TRUE, n |-> [native EXCEPT !.open = native.open \ S], left |-> Pooled \ S]
  <2>1. PICK S \in SUBSET Pooled :
          r = [ok |-> TRUE, n |-> [native EXCEPT !.open = native.open \ S], left |-> Pooled \ S]
    BY <1>2
  <2> DEFINE m == [native EXCEPT !.open = native.open \ S]
  <2>2. /\ m \in NT /\ m.session = native.session /\ m.lost = native.lost
        /\ m.open = native.open \ S
    BY <1>1
  <2> HIDE DEF m
  <2>3. r.ok = TRUE /\ r.n = m /\ r.left = Pooled \ S
    BY <2>1 DEF m
  <2> QED  BY <2>2, <2>3
<1>3. CASE \E S : r = [ok |-> FALSE, n |-> [native EXCEPT !.open = native.open \ S], left |-> {}]
  <2>1. PICK S : r = [ok |-> FALSE, n |-> [native EXCEPT !.open = native.open \ S], left |-> {}]
    BY <1>3
  <2> DEFINE m == [native EXCEPT !.open = native.open \ S]
  <2>2. /\ m \in NT /\ m.session = native.session /\ m.lost = native.lost
        /\ m.open = native.open \ S
    BY <1>1
  <2> HIDE DEF m
  <2>3. r.ok = FALSE /\ r.n = m /\ r.left = {}
    BY <2>1 DEF m
  <2> QED  BY <2>2, <2>3
<1> QED  BY <1>2, <1>3 DEF ClearResults

\* What an outcome of a clear is made of.
LEMMA ClearOutcome ==
  ASSUME NEW c \in ClearResults, NEW n
  PROVE  LET r == [c EXCEPT !.n = n] IN r.ok = c.ok /\ r.n = n /\ r.left = c.left
<1>1. \E b, m, l : c = [ok |-> b, n |-> m, left |-> l]
  BY DEF ClearResults
<1> QED  BY <1>1

\* A disconnect leaves no statement on a connection that is still reachable, but
\* for what it could not close.
LEMMA DisconnectWorks ==
  ASSUME native \in NT, Pooled \subseteq Stmt, NEW r \in DisconnectResults
  PROVE  /\ r.ok \in BOOLEAN /\ r.n \in NT /\ r.left \subseteq Stmt
         /\ r.n.session.durable = native.session.durable
         /\ Reachable(r.n) => Reachable(native)
         /\ r.n.open \subseteq native.open
         /\ r.ok => /\ hasPool
                    /\ r.n.open \subseteq (native.open \ Pooled) \cup r.left
         /\ ~r.ok => hasPool \/ (r.n = native /\ r.left = {})
<1>1. CASE ~hasPool /\ r = [ok |-> FALSE, n |-> native, left |-> {}]
  <2>1. r.ok = FALSE /\ r.n = native /\ r.left = {}
    BY <1>1
  <2> QED  BY <2>1
<1>2. CASE hasPool /\ \E c \in ClearResults : r \in ThenClose(c)
  <2>1. PICK c \in ClearResults : r \in ThenClose(c)
    BY <1>2
  <2>2. /\ c.ok \in BOOLEAN /\ c.n \in NT /\ c.left \subseteq Stmt
        /\ c.n.session = native.session /\ c.n.lost = native.lost
        /\ c.n.open \subseteq native.open
        /\ c.ok => c.n.open \subseteq (native.open \ Pooled) \cup c.left
    BY ClearWorks
  <2>3. CASE ~c.ok
    <3>1. r = c
      BY <2>1, <2>3 DEF ThenClose
    <3> QED  BY <1>2, <2>2, <2>3, <3>1 DEF Reachable
  <2>4. CASE c.ok
    <3>1. PICK d \in CloseConnection(c.n) : r = [c EXCEPT !.n = d.n]
      BY <2>1, <2>4 DEF ThenClose
    <3>2. r.ok = TRUE /\ r.n = d.n /\ r.left = c.left
      BY <2>4, <3>1, ClearOutcome
    <3>3. CASE d = Raised(c.n)
      <4>1. d.n = c.n
        BY <3>3 DEF Raised
      <4> QED  BY <1>2, <2>2, <2>4, <3>2, <4>1 DEF Reachable
    <3>4. CASE d = Returned([c.n EXCEPT !.session = Disconnect(c.n.session), !.open = {}])
      <4> DEFINE m == [c.n EXCEPT !.session = Disconnect(c.n.session), !.open = {}]
      <4>1. c.n.session \in SessionType(Work)
        BY <2>2 DEF NT, NativeType
      <4>2. /\ Disconnect(c.n.session) \in SessionType(Work)
            /\ Disconnect(c.n.session).open = FALSE
            /\ Disconnect(c.n.session).durable = c.n.session.durable
        BY <4>1 DEF Disconnect, Rollback, SessionType
      <4>3. m \in NT /\ m.session = Disconnect(c.n.session) /\ m.open = {}
        BY <2>2, <4>2 DEF NT, NativeType
      <4> HIDE DEF m
      <4>4. d.n = m
        BY <3>4 DEF Returned, m
      <4> QED  BY <1>2, <2>2, <3>2, <4>2, <4>3, <4>4 DEF Reachable
    <3> QED  BY <3>1, <3>3, <3>4 DEF CloseConnection
  <2> QED  BY <2>2, <2>3, <2>4
<1> QED  BY <1>1, <1>2 DEF DisconnectResults

LEMMA ConnectWorks ==
  ASSUME NEW n \in NT
  PROVE  /\ Connected(n) \in NT
         /\ Connected(n).open = {}
         /\ Connected(n).session.open /\ Connected(n).session.autocommit
         /\ Connected(n).session.durable = n.session.durable
         /\ Connected(n).lost = FALSE
BY DEF Connected, CreateSqlConnection, NewSession, NT, NativeType, SessionType

-----------------------------------------------------------------------------
LEMMA AdapterInvInit == AdapterInit => AdapterInv
<1> SUFFICES ASSUME AdapterInit PROVE AdapterInv
  OBVIOUS
<1> USE AdapterAssumption
<1>1. native = CreateSqlConnection({}) /\ pool = <<>>
  BY DEF AdapterInit
<1>2. /\ native \in NT /\ native.open = {}
      /\ native.session.open /\ native.session.autocommit
  BY <1>1 DEF CreateSqlConnection, NewSession, NT, NativeType, SessionType
<1>3. pool \in Seq(Entry) /\ Len(pool) = 0 /\ DOMAIN pool = {} /\ Pooled = {}
  BY <1>1 DEF Pooled
<1>4. RubyTypeOK
  BY <1>2, <1>3 DEF AdapterInit, RubyTypeOK, NT
<1>5. PoolInv
  BY <1>2, <1>3 DEF PoolInv, PoolIsBounded, PoolIsExact, StatementsArePooled
<1>6. WorkInv
  BY <1>2 DEF AdapterInit, WorkInv, AutoAtRest, ScopeIsHeld, CommittedIsDurable
<1>7. ActiveIsUsable
  BY <1>2 DEF AdapterInit, ActiveIsUsable
<1> QED  BY <1>4, <1>5, <1>6, <1>7 DEF AdapterInv

\* The pool half of the invariant, when neither pool nor statements change.
LEMMA SamePool ==
  ASSUME PoolInv, UNCHANGED <<pool, hasPool, strays, halfCleared>>, native'.open = native.open,
         native'.session.open = native.session.open, native'.lost = native.lost
  PROVE  PoolInv'
<1>1. Pooled' = Pooled
  BY DEF Pooled
<1> QED  BY <1>1 DEF PoolInv, PoolIsBounded, PoolIsExact, StatementsArePooled, Reachable

\* A pool that is empty, on a connection without open statements but the strays.
LEMMA EmptyPool ==
  ASSUME pool' = <<>>, Reachable(native') => native'.open \subseteq strays'
  PROVE  PoolInv'
<1>1. Pooled' = {} /\ Len(pool') = 0 /\ DOMAIN pool' = {}
  BY DEF Pooled
<1>2. PoolIsBounded'
  BY <1>1, AdapterAssumption DEF PoolIsBounded
<1> QED  BY <1>1, <1>2 DEF PoolInv, PoolIsExact, StatementsArePooled

\* A pool that stays, after a close raised.
LEMMA BrokenPool ==
  ASSUME PoolInv, pool' = pool, halfCleared', strays \subseteq strays',
         native'.open \subseteq native.open, Reachable(native') => Reachable(native)
  PROVE  PoolInv'
<1>1. Pooled' = Pooled
  BY DEF Pooled
<1> QED  BY <1>1 DEF PoolInv, PoolIsBounded, PoolIsExact, StatementsArePooled

\* The step that a run takes after the lookup found and the answer read.
Ran(found, read, ws) ==
  /\ pool' = found.pool
  /\ native' = read.n
  /\ strays' = strays \cup found.left
  /\ LET told == IF read.ok THEN ws ELSE {} IN
       /\ acked' = IF txn = "none" /\ ~manual THEN acked \cup told ELSE acked
       /\ stranded' = IF txn = "none" /\ manual THEN stranded \cup told ELSE stranded
       /\ scope' = IF txn = "open" THEN scope \cup told ELSE scope

LEMMA RunPreserves ==
  ASSUME AdapterInv, NEW k \in Key, NEW s \in Stmt, NEW ws \in SUBSET Work,
         ws = {} \/ \E w \in Work : ws = {w},
         Run(k, s, ws)
  PROVE  AdapterInv'
<1>1. PICK found \in Lookup(k, s) :
        \E r \in IF found.ok THEN ExecuteStatement(found.n, s, ws) ELSE {Raised(found.n)} :
        \E read \in IF r.ok THEN ReadResults(r.n) ELSE {r} :
          Ran(found, read, ws)
  BY DEF Run, Ran
<1>2. PICK r \in IF found.ok THEN ExecuteStatement(found.n, s, ws) ELSE {Raised(found.n)} :
        \E read \in IF r.ok THEN ReadResults(r.n) ELSE {r} :
          Ran(found, read, ws)
  BY <1>1
<1>3. PICK read \in IF r.ok THEN ReadResults(r.n) ELSE {r} : Ran(found, read, ws)
  BY <1>2
<1>4. hasPool /\ UNCHANGED <<hasPool, active, txn, manual, halfCleared, cleared>>
  BY DEF Run
<1>5. RubyTypeOK /\ PoolIsBounded /\ native \in NT
  BY DEF AdapterInv, PoolInv, RubyTypeOK, NT
<1>6. Agrees(found)
  BY <1>5, LookupAgrees DEF Run
<1>7. /\ r.ok \in BOOLEAN /\ r.n \in NT
      /\ r.n.lost = found.n.lost /\ r.n.open = found.n.open
      /\ r.n.session.open = found.n.session.open
      /\ r.n.session.autocommit = found.n.session.autocommit
      /\ found.n.session.durable \subseteq r.n.session.durable
      /\ found.n.session.pending \subseteq r.n.session.pending
      /\ r.ok => \A w \in ws : ws = {w} =>
           /\ w \in r.n.session.pending \cup r.n.session.durable
           /\ found.n.session.autocommit => w \in r.n.session.durable
  <2>1. CASE found.ok
    BY <1>2, <1>6, <2>1, ExecutingWorks DEF Agrees
  <2>2. CASE ~found.ok
    <3>1. r.ok = FALSE /\ r.n = found.n
      BY <1>2, <2>2 DEF Raised
    <3> QED  BY <1>6, <3>1 DEF Agrees
  <2> QED  BY <1>6, <2>1, <2>2 DEF Agrees
<1>8. read.ok \in BOOLEAN /\ read.n = r.n /\ (read.ok => r.ok)
  BY <1>3, <1>7, ReadingIsQuiet
<1>9. native' = r.n
  BY <1>3, <1>8 DEF Ran
<1>10. /\ native' \in NT
      /\ native'.lost = native.lost /\ native'.open = found.n.open
      /\ native'.session.open = native.session.open
      /\ native'.session.autocommit = native.session.autocommit
      /\ native.session.durable \subseteq native'.session.durable
      /\ native.session.pending \subseteq native'.session.pending
  BY <1>3, <1>6, <1>7, <1>8, <1>9 DEF Agrees, Ran
<1>11. PICK told :
         /\ told \subseteq Work
         /\ told \subseteq native'.session.pending \cup native'.session.durable
         /\ native.session.autocommit => told \subseteq native'.session.durable
         /\ acked' = IF txn = "none" /\ ~manual THEN acked \cup told ELSE acked
         /\ stranded' = IF txn = "none" /\ manual THEN stranded \cup told ELSE stranded
         /\ scope' = IF txn = "open" THEN scope \cup told ELSE scope
  <2>1. CASE read.ok
    <3>1. /\ ws \subseteq native'.session.pending \cup native'.session.durable
          /\ native.session.autocommit => ws \subseteq native'.session.durable
      BY <1>6, <1>7, <1>8, <1>9, <2>1 DEF Agrees
    <3>2. /\ acked' = IF txn = "none" /\ ~manual THEN acked \cup ws ELSE acked
          /\ stranded' = IF txn = "none" /\ manual THEN stranded \cup ws ELSE stranded
          /\ scope' = IF txn = "open" THEN scope \cup ws ELSE scope
      BY <1>3, <2>1 DEF Ran
    <3> QED  BY <3>1, <3>2
  <2>2. CASE ~read.ok
    <3>1. /\ acked' = IF txn = "none" /\ ~manual THEN acked \cup {} ELSE acked
          /\ stranded' = IF txn = "none" /\ manual THEN stranded \cup {} ELSE stranded
          /\ scope' = IF txn = "open" THEN scope \cup {} ELSE scope
      BY <1>3, <2>2 DEF Ran
    <3> QED  BY <3>1
  <2> QED  BY <2>1, <2>2
<1>12. /\ (acked' = acked \cup told /\ native.session.autocommit) \/ acked' = acked
       /\ scope' = scope \cup told \/ (scope' = scope /\ txn # "open")
  BY <1>11 DEF AdapterInv, WorkInv, AutoAtRest
<1>13. RubyTypeOK'
  <2>1. pool' \in Seq(Entry) /\ strays' \subseteq Stmt
    BY <1>3, <1>5, <1>6 DEF Agrees, RubyTypeOK, Ran
  <2>2. acked' \subseteq Work /\ scope' \subseteq Work /\ stranded' \subseteq Work
    BY <1>5, <1>11, <1>12 DEF RubyTypeOK
  <2> QED  BY <1>4, <1>5, <1>10, <2>1, <2>2 DEF RubyTypeOK, NT
<1>14. PoolInv'
  <2>1. Pooled' = StmtsOf(found.pool)
    BY <1>3 DEF Pooled, StmtsOf, Ran
  <2>2. PoolIsBounded'
    BY <1>3, <1>6 DEF Agrees, Distinct, PoolIsBounded, Ran
  <2>3. strays' = strays \cup found.left
    BY <1>3 DEF Ran
  <2>4. PoolIsExact'
    BY <1>4, <1>6, <1>10, <2>1 DEF AdapterInv, PoolInv, PoolIsExact, Agrees
  <2>5. StatementsArePooled'
    BY <1>6, <1>10, <2>1, <2>3 DEF AdapterInv, PoolInv, StatementsArePooled, Agrees, Reachable
  <2> QED  BY <2>2, <2>4, <2>5 DEF PoolInv
<1>15. WorkInv'
  <2>1. AutoAtRest'
    BY <1>4, <1>10 DEF AdapterInv, WorkInv, AutoAtRest
  <2>2. ScopeIsHeld'
    <3>1. SUFFICES ASSUME txn = "open", Reachable(native), NEW w \in scope'
                   PROVE  w \in native'.session.pending \cup native'.session.durable
      BY <1>4, <1>10 DEF ScopeIsHeld, Reachable
    <3>2. scope \subseteq native.session.pending \cup native.session.durable
      BY <3>1 DEF AdapterInv, WorkInv, ScopeIsHeld
    <3>3. w \in scope \/ w \in told
      BY <3>1, <1>12
    <3>4. w \in scope => w \in native'.session.pending \cup native'.session.durable
      BY <1>10, <3>2
    <3>5. w \in told => w \in native'.session.pending \cup native'.session.durable
      BY <1>11
    <3> QED  BY <3>3, <3>4, <3>5
  <2>3. CommittedIsDurable'
    <3>1. SUFFICES ASSUME NEW w \in acked' PROVE w \in native'.session.durable
      BY DEF CommittedIsDurable
    <3>2. acked \subseteq native.session.durable
      BY DEF AdapterInv, WorkInv, CommittedIsDurable
    <3>3. w \in acked \/ (w \in told /\ native.session.autocommit)
      BY <1>12
    <3>4. w \in acked => w \in native'.session.durable
      BY <1>10, <3>2
    <3>5. w \in told /\ native.session.autocommit => w \in native'.session.durable
      BY <1>11
    <3> QED  BY <3>3, <3>4, <3>5
  <2> QED  BY <2>1, <2>2, <2>3 DEF WorkInv
<1>16. ActiveIsUsable'
  BY <1>4, <1>10 DEF AdapterInv, ActiveIsUsable
<1> QED  BY <1>13, <1>14, <1>15, <1>16 DEF AdapterInv

-----------------------------------------------------------------------------
LEMMA BeginPreserves ==
  ASSUME AdapterInv, BeginDb
  PROVE  AdapterInv'
<1>1. PICK r \in IF Reachable(native) /\ ~HasAutoCommit(native) THEN {Returned(native)}
                 ELSE SetAutoCommit(native, FALSE) :
        native' = r.n /\ txn' = IF r.ok THEN "open" ELSE "none"
  BY DEF BeginDb
<1>2. /\ txn = "none" /\ scope' = {}
      /\ UNCHANGED <<pool, hasPool, active, acked, manual, stranded, strays, halfCleared, cleared>>
  BY DEF BeginDb
<1>3. RubyTypeOK /\ native \in NT
  BY DEF AdapterInv, RubyTypeOK, NT
<1>4. r.ok \in BOOLEAN /\ Keeps(native, r.n) /\ (~r.ok => r.n = native)
  <2>1. CASE Reachable(native) /\ ~HasAutoCommit(native)
    <3>1. r.ok = TRUE /\ r.n = native
      BY <1>1, <2>1 DEF Returned
    <3> QED  BY <1>3, <3>1 DEF Keeps
  <2>2. CASE ~(Reachable(native) /\ ~HasAutoCommit(native))
    BY <1>1, <1>3, <2>2, AutocommitCall
  <2> QED  BY <2>1, <2>2
<1>5. Keeps(native, native')
  BY <1>1, <1>4
<1>6. RubyTypeOK'
  BY <1>1, <1>2, <1>3, <1>4, <1>5 DEF RubyTypeOK, Keeps, NT
<1>7. PoolInv'
  BY <1>2, <1>5, SamePool DEF AdapterInv, Keeps
<1>8. WorkInv'
  <2>1. AutoAtRest'
    BY <1>1, <1>2, <1>4 DEF AdapterInv, WorkInv, AutoAtRest
  <2>2. ScopeIsHeld'
    BY <1>2 DEF ScopeIsHeld
  <2>3. CommittedIsDurable'
    BY <1>2, <1>5 DEF AdapterInv, WorkInv, CommittedIsDurable, Keeps
  <2> QED  BY <2>1, <2>2, <2>3 DEF WorkInv
<1>9. ActiveIsUsable'
  BY <1>2, <1>5 DEF AdapterInv, ActiveIsUsable, Keeps
<1> QED  BY <1>6, <1>7, <1>8, <1>9 DEF AdapterInv

LEMMA CommitPreserves ==
  ASSUME AdapterInv, CommitDb
  PROVE  AdapterInv'
<1>1. PICK r \in CommitResults :
        /\ native' = r.n
        /\ txn' = IF r.ok THEN "none" ELSE "failed"
        /\ acked' = IF r.ok THEN acked \cup scope ELSE acked
        /\ scope' = IF r.ok THEN {} ELSE scope
        /\ manual' = (manual /\ ~r.ok)
  BY DEF CommitDb
<1>2. txn = "open" /\ UNCHANGED <<pool, hasPool, active, stranded, strays, halfCleared, cleared>>
  BY DEF CommitDb
<1>3. RubyTypeOK /\ native \in NT
  BY DEF AdapterInv, RubyTypeOK, NT
<1>4. /\ r.ok \in BOOLEAN /\ Keeps(native, native')
      /\ r.ok => /\ Reachable(native) /\ native'.session.autocommit
                 /\ native.session.pending \cup native.session.durable
                      \subseteq native'.session.durable
  BY <1>1, <1>3, CommitWorks
<1>5. RubyTypeOK'
  <2>1. acked' \subseteq Work /\ scope' \subseteq Work
    BY <1>1, <1>3 DEF RubyTypeOK
  <2>2. txn' \in {"none", "open", "failed"} /\ manual' \in BOOLEAN
    BY <1>1, <1>3 DEF RubyTypeOK
  <2> QED  BY <1>2, <1>3, <1>4, <2>1, <2>2 DEF RubyTypeOK, Keeps, NT
<1>6. PoolInv'
  BY <1>2, <1>4, SamePool DEF AdapterInv, Keeps
<1>7. WorkInv'
  <2>1. AutoAtRest'
    BY <1>1, <1>4 DEF AutoAtRest
  <2>2. ScopeIsHeld'
    BY <1>1 DEF ScopeIsHeld
  <2>3. CommittedIsDurable'
    <3>1. acked \subseteq native'.session.durable
      BY <1>4 DEF AdapterInv, WorkInv, CommittedIsDurable, Keeps
    <3>2. r.ok => scope \subseteq native'.session.durable
      BY <1>2, <1>4 DEF AdapterInv, WorkInv, ScopeIsHeld
    <3> QED  BY <1>1, <3>1, <3>2 DEF CommittedIsDurable
  <2> QED  BY <2>1, <2>2, <2>3 DEF WorkInv
<1>8. ActiveIsUsable'
  BY <1>2, <1>4 DEF AdapterInv, ActiveIsUsable, Keeps
<1> QED  BY <1>5, <1>6, <1>7, <1>8 DEF AdapterInv

LEMMA RollbackPreserves ==
  ASSUME AdapterInv, RollbackDb
  PROVE  AdapterInv'
<1>1. PICK r \in RollbackResults : native' = r.n /\ manual' = ~HasAutoCommit(r.n)
  BY DEF RollbackDb
<1>2. /\ txn' = "none" /\ scope' = {}
      /\ UNCHANGED <<pool, hasPool, active, acked, stranded, strays, halfCleared, cleared>>
  BY DEF RollbackDb
<1>3. RubyTypeOK /\ native \in NT
  BY DEF AdapterInv, RubyTypeOK, NT
<1>4. Keeps(native, native')
  BY <1>1, <1>3, RollbackWorks
<1>5. manual' = ~native'.session.autocommit
  BY <1>1 DEF HasAutoCommit
<1>6. RubyTypeOK'
  BY <1>2, <1>3, <1>4, <1>5 DEF RubyTypeOK, Keeps, NT
<1>7. PoolInv'
  BY <1>2, <1>4, SamePool DEF AdapterInv, Keeps
<1>8. WorkInv'
  BY <1>2, <1>4, <1>5
     DEF AdapterInv, WorkInv, AutoAtRest, ScopeIsHeld, CommittedIsDurable, Keeps
<1>9. ActiveIsUsable'
  BY <1>2, <1>4 DEF AdapterInv, ActiveIsUsable, Keeps
<1> QED  BY <1>6, <1>7, <1>8, <1>9 DEF AdapterInv

LEMMA ClearPreserves ==
  ASSUME AdapterInv, ClearCache
  PROVE  AdapterInv'
<1>1. PICK r \in ClearResults :
        /\ native' = r.n
        /\ pool' = IF r.ok THEN <<>> ELSE pool
        /\ hasPool' = ~r.ok
        /\ strays' = strays \cup r.left
        /\ halfCleared' = (halfCleared \/ ~r.ok)
        /\ cleared' = (cleared \/ r.ok)
  BY DEF ClearCache
<1>2. hasPool /\ UNCHANGED <<active, txn, acked, scope, manual, stranded>>
  BY DEF ClearCache, workVars
<1>3. RubyTypeOK /\ native \in NT
  BY DEF AdapterInv, RubyTypeOK, NT
<1>4. /\ r.ok \in BOOLEAN /\ native' \in NT /\ r.left \subseteq Stmt
      /\ native'.session = native.session /\ native'.lost = native.lost
      /\ native'.open \subseteq native.open
      /\ r.ok => native'.open \subseteq (native.open \ Pooled) \cup r.left
  BY <1>1, <1>3, PooledTyped, ClearWorks
<1>5. RubyTypeOK'
  <2>1. pool' \in Seq(Entry)
    BY <1>1, <1>3 DEF RubyTypeOK
  <2>2. /\ hasPool' \in BOOLEAN /\ halfCleared' \in BOOLEAN /\ cleared' \in BOOLEAN
        /\ strays' \subseteq Stmt
    BY <1>1, <1>3, <1>4 DEF RubyTypeOK
  <2> QED  BY <1>2, <1>3, <1>4, <2>1, <2>2 DEF RubyTypeOK, NT
<1>6. PoolInv'
  <2>1. CASE r.ok
    <3>1. Reachable(native') => native'.open \subseteq strays'
      BY <1>1, <1>4, <2>1 DEF AdapterInv, PoolInv, StatementsArePooled, Reachable
    <3> QED  BY <1>1, <2>1, <3>1, EmptyPool
  <2>2. CASE ~r.ok
    <3>1. /\ pool' = pool /\ halfCleared' /\ strays \subseteq strays'
          /\ Reachable(native') => Reachable(native)
      BY <1>1, <1>4, <2>2 DEF Reachable
    <3> QED  BY <1>4, <3>1, BrokenPool DEF AdapterInv
  <2> QED  BY <2>1, <2>2
<1>7. WorkInv'
  BY <1>2, <1>4
     DEF AdapterInv, WorkInv, AutoAtRest, ScopeIsHeld, CommittedIsDurable, Reachable
<1>8. ActiveIsUsable'
  BY <1>1, <1>2, <1>4 DEF AdapterInv, ActiveIsUsable
<1> QED  BY <1>5, <1>6, <1>7, <1>8 DEF AdapterInv

LEMMA DisconnectPreserves ==
  ASSUME AdapterInv, DisconnectAdapter
  PROVE  AdapterInv'
<1>1. PICK r \in DisconnectResults :
        /\ native' = r.n
        /\ pool' = IF r.ok THEN <<>> ELSE pool
        /\ hasPool' = (hasPool /\ ~r.ok)
        /\ strays' = strays \cup r.left
        /\ halfCleared' = (halfCleared \/ (hasPool /\ ~r.ok))
        /\ manual' = ~HasAutoCommit(r.n)
  BY DEF DisconnectAdapter
<1>2. /\ active' = FALSE /\ txn' = "none" /\ scope' = {}
      /\ UNCHANGED <<acked, stranded, cleared>>
  BY DEF DisconnectAdapter
<1>3. RubyTypeOK /\ native \in NT
  BY DEF AdapterInv, RubyTypeOK, NT
<1>4. /\ r.ok \in BOOLEAN /\ native' \in NT /\ r.left \subseteq Stmt
      /\ native'.session.durable = native.session.durable
      /\ Reachable(native') => Reachable(native)
      /\ native'.open \subseteq native.open
      /\ r.ok => hasPool /\ native'.open \subseteq (native.open \ Pooled) \cup r.left
      /\ ~r.ok => hasPool \/ (native' = native /\ r.left = {})
  <2>1. Reachable(native') = Reachable(r.n)
    BY <1>1 DEF Reachable
  <2> QED  BY <1>1, <1>3, <2>1, PooledTyped, DisconnectWorks
<1>5. manual' = ~native'.session.autocommit
  BY <1>1 DEF HasAutoCommit
<1>6. RubyTypeOK'
  <2>1. pool' \in Seq(Entry)
    BY <1>1, <1>3 DEF RubyTypeOK
  <2>2. /\ hasPool' \in BOOLEAN /\ halfCleared' \in BOOLEAN /\ manual' \in BOOLEAN
        /\ strays' \subseteq Stmt
    BY <1>1, <1>3, <1>4, <1>5 DEF RubyTypeOK
  <2> QED  BY <1>2, <1>3, <1>4, <2>1, <2>2 DEF RubyTypeOK, NT
<1>7. PoolInv'
  <2>1. CASE r.ok
    <3>1. Reachable(native') => native'.open \subseteq strays'
      BY <1>1, <1>4, <2>1 DEF AdapterInv, PoolInv, StatementsArePooled
    <3> QED  BY <1>1, <2>1, <3>1, EmptyPool
  <2>2. CASE ~r.ok /\ hasPool
    <3>1. pool' = pool /\ halfCleared' /\ strays \subseteq strays'
      BY <1>1, <2>2
    <3> QED  BY <1>4, <3>1, BrokenPool DEF AdapterInv
  <2>3. CASE ~r.ok /\ ~hasPool
    <3>1. UNCHANGED <<pool, hasPool, strays, halfCleared>> /\ native' = native
      BY <1>1, <1>3, <1>4, <2>3 DEF RubyTypeOK
    <3> QED  BY <3>1, SamePool DEF AdapterInv
  <2> QED  BY <1>4, <2>1, <2>2, <2>3
<1>8. WorkInv'
  BY <1>2, <1>4, <1>5
     DEF AdapterInv, WorkInv, AutoAtRest, ScopeIsHeld, CommittedIsDurable
<1>9. ActiveIsUsable'
  BY <1>2 DEF ActiveIsUsable
<1> QED  BY <1>6, <1>7, <1>8, <1>9 DEF AdapterInv

\* What a reconnection does after the disconnect, when a connection is made.
Reconnected(r, made) ==
  /\ made => r.ok
  /\ native' = IF made THEN Connected(r.n) ELSE r.n
  /\ pool' = IF r.ok THEN <<>> ELSE pool
  /\ hasPool' = IF r.ok THEN made ELSE hasPool
  /\ strays' = IF made THEN {} ELSE strays \cup r.left
  /\ halfCleared' = (~made /\ (halfCleared \/ (hasPool /\ ~r.ok)))
  /\ active' = made
  /\ manual' = ~HasAutoCommit(native')
  /\ cleared' = (cleared /\ ~made)
  /\ txn' = "none" /\ scope' = {} /\ acked' = acked /\ stranded' = stranded

LEMMA ReconnectPreserves ==
  ASSUME AdapterInv, Reconnect
  PROVE  AdapterInv'
<1>1. PICK r \in DisconnectResults : \E made \in BOOLEAN : Reconnected(r, made)
  BY DEF Reconnect, Reconnected
<1>2. PICK made \in BOOLEAN : Reconnected(r, made)
  BY <1>1
<1>3. RubyTypeOK /\ native \in NT
  BY DEF AdapterInv, RubyTypeOK, NT
<1>4. /\ r.ok \in BOOLEAN /\ r.n \in NT /\ r.left \subseteq Stmt
      /\ r.n.session.durable = native.session.durable
      /\ Reachable(r.n) => Reachable(native)
      /\ r.n.open \subseteq native.open
      /\ r.ok => hasPool /\ r.n.open \subseteq (native.open \ Pooled) \cup r.left
      /\ ~r.ok => hasPool \/ (r.n = native /\ r.left = {})
  BY <1>3, PooledTyped, DisconnectWorks
<1>5. /\ txn' = "none" /\ scope' = {} /\ acked' = acked /\ stranded' = stranded
      /\ manual' = ~native'.session.autocommit
  BY <1>2 DEF Reconnected, HasAutoCommit
<1>6. native' \in NT /\ native'.session.durable = native.session.durable
  <2>1. CASE made
    BY <1>2, <1>4, <2>1, ConnectWorks DEF Reconnected
  <2>2. CASE ~made
    BY <1>2, <1>4, <2>2 DEF Reconnected
  <2> QED  BY <2>1, <2>2
<1>7. RubyTypeOK'
  <2>1. pool' \in Seq(Entry)
    BY <1>2, <1>3 DEF RubyTypeOK, Reconnected
  <2>2. /\ hasPool' \in BOOLEAN /\ halfCleared' \in BOOLEAN /\ active' \in BOOLEAN
        /\ cleared' \in BOOLEAN /\ strays' \subseteq Stmt
    BY <1>2, <1>3, <1>4 DEF RubyTypeOK, Reconnected
  <2> QED  BY <1>3, <1>5, <1>6, <2>1, <2>2 DEF RubyTypeOK, NT
<1>8. PoolInv'
  <2>1. CASE made
    <3>1. pool' = <<>> /\ native' = Connected(r.n)
      BY <1>2, <2>1 DEF Reconnected
    <3>2. native'.open = {}
      BY <1>4, <3>1, ConnectWorks
    <3> QED  BY <3>1, <3>2, EmptyPool
  <2>2. CASE ~made /\ r.ok
    <3>1. pool' = <<>> /\ native' = r.n /\ strays' = strays \cup r.left
      BY <1>2, <2>2 DEF Reconnected
    <3>2. Reachable(native') = Reachable(r.n)
      BY <3>1 DEF Reachable
    <3>3. Reachable(native') => native'.open \subseteq strays'
      BY <1>4, <2>2, <3>1, <3>2 DEF AdapterInv, PoolInv, StatementsArePooled
    <3> QED  BY <3>1, <3>3, EmptyPool
  <2>3. CASE ~made /\ ~r.ok /\ hasPool
    <3>1. /\ pool' = pool /\ native' = r.n /\ halfCleared' /\ strays \subseteq strays'
          /\ Reachable(native') => Reachable(native)
      BY <1>2, <1>4, <2>3 DEF Reconnected, Reachable
    <3> QED  BY <1>4, <3>1, BrokenPool DEF AdapterInv
  <2>4. CASE ~made /\ ~r.ok /\ ~hasPool
    <3>1. UNCHANGED <<pool, hasPool, strays, halfCleared>> /\ native' = native
      BY <1>2, <1>3, <1>4, <2>4 DEF RubyTypeOK, Reconnected
    <3> QED  BY <3>1, SamePool DEF AdapterInv
  <2> QED  BY <1>4, <2>1, <2>2, <2>3, <2>4
<1>9. WorkInv'
  BY <1>5, <1>6 DEF AdapterInv, WorkInv, AutoAtRest, ScopeIsHeld, CommittedIsDurable
<1>10. ActiveIsUsable'
  <2>1. CASE made
    <3>1. r.ok /\ native' = Connected(r.n) /\ hasPool' = TRUE
      BY <1>2, <2>1 DEF Reconnected
    <3> QED  BY <1>4, <3>1, ConnectWorks DEF ActiveIsUsable
  <2>2. CASE ~made
    BY <1>2, <2>2 DEF ActiveIsUsable, Reconnected
  <2> QED  BY <2>1, <2>2
<1> QED  BY <1>7, <1>8, <1>9, <1>10 DEF AdapterInv

LEMMA LosePreserves ==
  ASSUME AdapterInv, LoseConnection
  PROVE  AdapterInv'
<1>1. RubyTypeOK /\ native \in NT /\ native.session \in SessionType(Work)
  BY DEF AdapterInv, RubyTypeOK, NT, NativeType
<1>2. Rollback(native.session) \in SessionType(Work)
  BY <1>1, SessionClosed
<1>3. /\ Rollback(native.session).durable = native.session.durable
      /\ Rollback(native.session).open = native.session.open
      /\ Rollback(native.session).autocommit = native.session.autocommit
  BY <1>1 DEF Rollback, SessionType
<1>4. /\ native' \in NT /\ native'.lost
      /\ native'.session = Rollback(native.session)
  BY <1>1, <1>2 DEF LoseConnection, Drop, NT, NativeType
<1>5. UNCHANGED <<pool, hasPool, active, txn, acked, scope, manual, stranded, strays,
                  halfCleared, cleared>>
  BY DEF LoseConnection, workVars
<1>6. RubyTypeOK'
  BY <1>1, <1>4, <1>5 DEF RubyTypeOK, NT
<1>7. PoolInv'
  BY <1>4, <1>5 DEF AdapterInv, PoolInv, PoolIsBounded, PoolIsExact, StatementsArePooled, Reachable
<1>8. WorkInv'
  BY <1>3, <1>4, <1>5
     DEF AdapterInv, WorkInv, AutoAtRest, ScopeIsHeld, CommittedIsDurable, Reachable
<1>9. ActiveIsUsable'
  BY <1>3, <1>4, <1>5 DEF AdapterInv, ActiveIsUsable
<1> QED  BY <1>6, <1>7, <1>8, <1>9 DEF AdapterInv

LEMMA AdapterStutters ==
  ASSUME AdapterInv, UNCHANGED avars
  PROVE  AdapterInv'
BY DEF AdapterInv, RubyTypeOK, PoolInv, PoolIsBounded, PoolIsExact, StatementsArePooled, WorkInv,
       AutoAtRest, ScopeIsHeld, CommittedIsDurable, ActiveIsUsable, Pooled, Reachable, avars, workVars

\* The invariant holds in every reachable state.
THEOREM AdapterIsSound == AdapterSpec => []AdapterInv
<1>1. AdapterInit => AdapterInv
  BY AdapterInvInit
<1>2. ASSUME AdapterInv, [AdapterNext]_avars PROVE AdapterInv'
  <2>1. ASSUME NEW k \in Key, NEW s \in Stmt, Query(k, s) PROVE AdapterInv'
    BY <1>2, <2>1, RunPreserves DEF Query
  <2>2. ASSUME NEW k \in Key, NEW s \in Stmt, NEW w \in Work, DoWork(k, s, w)
        PROVE  AdapterInv'
    BY <1>2, <2>2, RunPreserves DEF DoWork
  <2> QED
    BY <1>2, <2>1, <2>2, BeginPreserves, CommitPreserves, RollbackPreserves, ClearPreserves,
       DisconnectPreserves, ReconnectPreserves, LosePreserves, AdapterStutters
       DEF AdapterNext
<1> QED  BY <1>1, <1>2, PTL DEF AdapterSpec

\* Every reachable state of the adapter has its type.
THEOREM AdapterTypeCorrect == AdapterSpec => []RubyTypeOK
<1>1. AdapterInv => RubyTypeOK
  BY DEF AdapterInv
<1> QED  BY <1>1, AdapterIsSound, PTL

\* The pool stays within statement_limit, with one entry for each text, for any
\* limit (StatementPool#[]=).
THEOREM PoolStaysBounded == AdapterSpec => []PoolIsBounded
<1>1. AdapterInv => PoolIsBounded
  BY DEF AdapterInv, PoolInv
<1> QED  BY <1>1, AdapterIsSound, PTL

\* No query of a text in the pool meets a closed statement, whatever was evicted
\* before it (exec_query, StatementPool#[]=, dealloc).
THEOREM PoolStaysExact == AdapterSpec => []PoolIsExact
<1>1. AdapterInv => PoolIsExact
  BY DEF AdapterInv, PoolInv
<1> QED  BY <1>1, AdapterIsSound, PTL

\* A statement that is open outside the pool is one whose close raised or was
\* skipped, or one no room could be made for.
THEOREM NoStatementEscapes == AdapterSpec => []StatementsArePooled
<1>1. AdapterInv => StatementsArePooled
  BY DEF AdapterInv, PoolInv
<1> QED  BY <1>1, AdapterIsSound, PTL

\* What was done outside a transaction, or committed, is durable, through every
\* loss, failed commit, rollback and reconnection.
THEOREM CommittedStaysDurable == AdapterSpec => []CommittedIsDurable
<1>1. AdapterInv => CommittedIsDurable
  BY DEF AdapterInv, WorkInv
<1> QED  BY <1>1, AdapterIsSound, PTL

\* An adapter that calls itself active can work, unless clear_cache! was called.
THEOREM ActiveStaysUsable == AdapterSpec => []ActiveIsUsable
<1>1. AdapterInv => ActiveIsUsable
  BY DEF AdapterInv
<1> QED  BY <1>1, AdapterIsSound, PTL

\* No sequence of calls gives an adapter its pool back: disconnect! raises on
\* nil, so reconnect! never reaches connect!.
THEOREM PoolNeverReturns == AdapterSpec => NoPoolIsForever
<1>1. ASSUME AdapterNext, ~hasPool PROVE ~hasPool'
  <2>1. CASE BeginDb \/ CommitDb \/ RollbackDb \/ LoseConnection
    BY <1>1, <2>1 DEF BeginDb, CommitDb, RollbackDb, LoseConnection
  <2>2. CASE ClearCache
    BY <1>1, <2>2 DEF ClearCache
  <2>3. CASE DisconnectAdapter
    BY <1>1, <2>3 DEF DisconnectAdapter
  <2>4. CASE Reconnect
    <3>1. PICK r \in DisconnectResults : ~r.ok => hasPool' = hasPool
      BY <2>4 DEF Reconnect
    <3>2. r = [ok |-> FALSE, n |-> native, left |-> {}]
      BY <1>1 DEF DisconnectResults
    <3>3. r.ok = FALSE
      BY <3>2
    <3> QED  BY <1>1, <3>1, <3>3
  <2>5. CASE \E k \in Key, s \in Stmt : Query(k, s) \/ \E w \in Work : DoWork(k, s, w)
    BY <1>1, <2>5 DEF Query, DoWork, Run
  <2> QED  BY <1>1, <2>1, <2>2, <2>3, <2>4, <2>5 DEF AdapterNext
<1>2. [AdapterNext]_avars => [~hasPool => ~hasPool']_avars
  BY <1>1
<1> QED  BY <1>2, PTL DEF AdapterSpec, NoPoolIsForever
=============================================================================
