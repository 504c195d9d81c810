--------------------------- MODULE SqlText_proofs ---------------------------
(***************************************************************************)
(* What is proved of the rewriting of SQL text, for any letters, names and *)
(* literals, and any number of tokens of a statement.  The library states  *)
(* induction over an operator; here it is over a set of numbers.           *)
(***************************************************************************)
EXTENDS SqlText, SequenceTheorems, FiniteSetTheorems, WellFoundedInduction, TLAPS

NatLess == {p \in Nat \X Nat : p[1] < p[2]}

LEMMA NatLessIsWellFounded == IsWellFoundedOn(NatLess, Nat)
BY NatLessThanWellFounded DEF OpToRel, NatLess

LEMMA SetInduction ==
  ASSUME NEW S, 0 \in S, \A n \in Nat : n \in S => n + 1 \in S
  PROVE  \A n \in Nat : n \in S
<1> DEFINE T == Nat \ S
<1> SUFFICES ASSUME T # {} PROVE FALSE
  OBVIOUS
<1>1. PICK x \in T : \A y \in T : <<y, x>> \notin NatLess
  <2> HIDE DEF NatLess
  <2>1. T \subseteq Nat
    OBVIOUS
  <2> QED BY <2>1, NatLessIsWellFounded, WFMin
<1>2. x # 0 /\ x - 1 \in Nat
  OBVIOUS
<1>3. x - 1 \in T
  BY <1>2
<1>4. <<x - 1, x>> \in NatLess
  BY <1>2 DEF NatLess
<1> QED BY <1>1, <1>3, <1>4

\* A function on 0..n can be built from its first value, step by step.
Recursive(f, n, A, base, step) ==
  f \in [0..n -> A] /\ f[0] = base /\ \A i \in 1..n : f[i] = step[<<f[i-1], i>>]

LEMMA Recursion ==
  ASSUME NEW n \in Nat, NEW A, NEW base \in A, NEW step \in [A \X (1..n) -> A]
  PROVE  \E f : Recursive(f, n, A, base, step)
<1> DEFINE Built(m) == \E f \in [0..m -> A] : f[0] = base /\ \A i \in 1..m : f[i] = step[<<f[i-1], i>>]
           S == {m \in Nat : m <= n => Built(m)}
<1>1. 0 \in S
  <2>1. [i \in 0..0 |-> base] \in [0..0 -> A] /\ 0 \in 0..0 /\ 1..0 = {}
    OBVIOUS
  <2> QED BY <2>1
<1>2. ASSUME NEW m \in Nat, m \in S PROVE m + 1 \in S
  <2> SUFFICES ASSUME m + 1 <= n PROVE Built(m + 1)
    OBVIOUS
  <2>1. PICK f \in [0..m -> A] : f[0] = base /\ \A i \in 1..m : f[i] = step[<<f[i-1], i>>]
    BY <1>2
  <2> DEFINE next == step[<<f[m], m + 1>>]
             g == [i \in 0..(m + 1) |-> IF i = m + 1 THEN next ELSE f[i]]
  <2>2. next \in A
    <3>1. f[m] \in A /\ m + 1 \in 1..n
      OBVIOUS
    <3> QED BY <3>1
  <2> HIDE DEF next
  <2>3. \A i \in 0..m : f[i] \in A /\ i # m + 1
    OBVIOUS
  <2>4. g \in [0..(m + 1) -> A] /\ g[0] = base
    BY <2>1, <2>2, <2>3
  <2>5. ASSUME NEW i \in 1..(m + 1) PROVE g[i] = step[<<g[i-1], i>>]
    <3>1. CASE i = m + 1
      <4>1. g[i] = next /\ i - 1 = m /\ g[m] = f[m]
        BY <3>1
      <4> QED BY <3>1, <4>1 DEF next
    <3>2. CASE i # m + 1
      <4>1. i \in 1..m /\ g[i] = f[i] /\ g[i-1] = f[i-1]
        BY <3>2
      <4> QED BY <2>1, <4>1
    <3> QED BY <3>1, <3>2
  <2> HIDE DEF g
  <2> QED BY <2>4, <2>5
<1> HIDE DEF S
<1>3. n \in S
  BY <1>1, <1>2, SetInduction
<1> QED BY <1>3 DEF S, Recursive

\* ... and in one way only.
LEMMA SameRecursion ==
  ASSUME NEW n \in Nat, NEW f, NEW g, NEW step, f[0] = g[0],
         \A i \in 1..n : f[i] = step[<<f[i-1], i>>] /\ g[i] = step[<<g[i-1], i>>]
  PROVE  f[n] = g[n]
<1> DEFINE S == {m \in Nat : m <= n => f[m] = g[m]}
<1>1. 0 \in S
  OBVIOUS
<1>2. ASSUME NEW m \in Nat, m \in S PROVE m + 1 \in S
  <2> SUFFICES ASSUME m + 1 <= n PROVE f[m + 1] = g[m + 1]
    OBVIOUS
  <2>1. f[m] = g[m] /\ m + 1 \in 1..n /\ (m + 1) - 1 = m
    BY <1>2
  <2> QED BY <2>1
<1> HIDE DEF S
<1>3. n \in S
  BY <1>1, <1>2, SetInduction
<1> QED BY <1>3 DEF S

-----------------------------------------------------------------------------
\* The function FlattenSeq takes its result from.
Flattened(ss, n) ==
  LET flatten[i \in 1..n] == IF i = 1 THEN ss[i] ELSE flatten[i-1] \o ss[i] IN flatten[n]

Flattens(f, ss, n) == \A i \in 1..n : f[i] = IF i = 1 THEN ss[i] ELSE f[i-1] \o ss[i]

LEMMA Flattening ==
  ASSUME NEW n \in Nat, n # 0, NEW A, NEW ss, NEW f \in [0..n -> A], Flattens(f, ss, n)
  PROVE  Flattened(ss, n) = f[n]
<1> DEFINE Def(h) == h = [i \in 1..n |-> IF i = 1 THEN ss[i] ELSE h[i-1] \o ss[i]]
           flatten == CHOOSE h : Def(h)
<1>1. \E h : Def(h)
  <2> DEFINE h == [i \in 1..n |-> f[i]]
  <2>1. ASSUME NEW i \in 1..n PROVE h[i] = IF i = 1 THEN ss[i] ELSE h[i-1] \o ss[i]
    <3> USE DEF Flattens
    <3>1. CASE i = 1
      BY <3>1
    <3>2. CASE i # 1
      <4>1. i - 1 \in 1..n /\ h[i] = f[i] /\ h[i-1] = f[i-1]
        BY <3>2
      <4> QED BY <3>2, <4>1
    <3> QED BY <3>1, <3>2
  <2>2. DOMAIN h = 1..n /\ h = [i \in 1..n |-> h[i]]
    OBVIOUS
  <2> HIDE DEF h
  <2>3. h = [i \in 1..n |-> IF i = 1 THEN ss[i] ELSE h[i-1] \o ss[i]]
    BY <2>1, <2>2
  <2> QED BY <2>3
<1>2. Def(flatten)
  <2> HIDE DEF Def
  <2> QED BY <1>1
<1> HIDE DEF flatten
<1>3. \A i \in 1..n : flatten[i] = IF i = 1 THEN ss[i] ELSE flatten[i-1] \o ss[i]
  BY <1>2
<1> HIDE DEF Def
<1> DEFINE S == {m \in Nat : m + 1 <= n => flatten[m + 1] = f[m + 1]}
<1>4. 0 \in S
  BY <1>3 DEF Flattens
<1>5. ASSUME NEW m \in Nat, m \in S PROVE m + 1 \in S
  <2> SUFFICES ASSUME (m + 1) + 1 <= n PROVE flatten[(m + 1) + 1] = f[(m + 1) + 1]
    OBVIOUS
  <2>1. flatten[m + 1] = f[m + 1]
    BY <1>5
  <2> DEFINE k == (m + 1) + 1
  <2>2. k \in 1..n /\ k # 1 /\ k - 1 = m + 1
    OBVIOUS
  <2> HIDE DEF k
  <2>3. flatten[k] = flatten[k-1] \o ss[k] /\ f[k] = f[k-1] \o ss[k]
    BY <1>3, <2>2 DEF Flattens
  <2>4. flatten[k] = f[k]
    BY <2>1, <2>2, <2>3
  <2> QED BY <2>4 DEF k
<1> HIDE DEF S
<1>6. n - 1 \in Nat /\ n - 1 \in S
  BY <1>4, <1>5, SetInduction
<1>7. flatten[n] = f[n]
  BY <1>6 DEF S
<1> QED BY <1>7 DEF flatten, Def, Flattened

\* FlattenSeq, prefix by prefix: first for any n sequences of a set A.
Joins(f, n, A, empty, ss) ==
  /\ f \in [0..n -> A]
  /\ f[0] = empty
  /\ n # 0 => f[n] = Flattened(ss, n)
  /\ \A i \in 1..n : f[i] = f[i-1] \o ss[i]

LEMMA Joining ==
  ASSUME NEW n \in Nat, NEW A, NEW empty \in A, NEW ss, \A i \in 1..n : ss[i] \in A,
         \A s, t \in A : s \o t \in A /\ empty \o s = s
  PROVE  \E f : Joins(f, n, A, empty, ss)
<1> DEFINE step == [p \in A \X (1..n) |-> p[1] \o ss[p[2]]]
<1>1. step \in [A \X (1..n) -> A]
  OBVIOUS
<1>2. \A a \in A, i \in 1..n : step[<<a, i>>] = a \o ss[i]
  OBVIOUS
<1> HIDE DEF step
<1>3. PICK f \in [0..n -> A] : f[0] = empty /\ \A i \in 1..n : f[i] = step[<<f[i-1], i>>]
  <2>1. \E f : Recursive(f, n, A, empty, step)
    BY <1>1, Recursion
  <2> QED BY <2>1 DEF Recursive
<1>4. ASSUME NEW i \in 1..n PROVE f[i-1] \in A /\ f[i] = f[i-1] \o ss[i]
  <2>1. i - 1 \in 0..n
    OBVIOUS
  <2>2. f[i-1] \in A
    BY <2>1
  <2> QED BY <1>2, <1>3, <2>2
<1>5. ASSUME n # 0 PROVE f[n] = Flattened(ss, n)
  <2>1. Flattens(f, ss, n)
    <3>1. 1 \in 1..n /\ 1 - 1 = 0
      BY <1>5
    <3>2. f[1] = f[1-1] \o ss[1]
      BY <1>4, <3>1
    <3>3. f[1] = ss[1]
      BY <1>3, <3>1, <3>2
    <3> QED BY <1>4, <3>3 DEF Flattens
  <2> QED BY <1>5, <2>1, Flattening
<1> QED BY <1>3, <1>4, <1>5 DEF Joins

Concatenates(f, ss, A) ==
  /\ f \in [0..Len(ss) -> A]
  /\ f[0] = <<>> /\ f[Len(ss)] = FlattenSeq(ss)
  /\ \A i \in 1..Len(ss) : f[i] = f[i-1] \o ss[i]

LEMMA FlattenSteps ==
  ASSUME NEW C, NEW ss \in Seq(Seq(C))
  PROVE  \E f : Concatenates(f, ss, Seq(C))
<1> DEFINE n == Len(ss)
           A == Seq(C)
           empty == <<>>
<1>1. n \in Nat /\ empty \in A /\ \A i \in 1..n : ss[i] \in A
  OBVIOUS
<1>2. \A s, t \in A : s \o t \in A /\ empty \o s = s
  BY ConcatEmptySeq
<1>3. n = 0 => FlattenSeq(ss) = empty
  BY DEF FlattenSeq
<1>4. n # 0 => FlattenSeq(ss) = Flattened(ss, n)
  BY DEF FlattenSeq, Flattened
<1> HIDE DEF n, A, empty
<1>5. PICK f : Joins(f, n, A, empty, ss)
  BY <1>1, <1>2, Joining
<1>6. f \in [0..n -> A] /\ f[0] = empty /\ f[n] = FlattenSeq(ss) /\ \A i \in 1..n : f[i] = f[i-1] \o ss[i]
  BY <1>1, <1>3, <1>4, <1>5 DEF Joins
<1> QED BY <1>6 DEF n, A, empty, Concatenates
LEMMA FlattenType ==
  ASSUME NEW C, NEW ss \in Seq(Seq(C))
  PROVE  FlattenSeq(ss) \in Seq(C)
<1>1. PICK f : Concatenates(f, ss, Seq(C))
  BY FlattenSteps
<1>2. Len(ss) \in 0..Len(ss)
  <2>1. Len(ss) \in Nat
    OBVIOUS
  <2> QED BY <2>1
<1> QED BY <1>1, <1>2 DEF Concatenates

\* Every sequence is reached by appending.
LEMMA SequenceInduction ==
  ASSUME NEW C, NEW S, <<>> \in S, \A s \in Seq(C), c \in C : s \in S => Append(s, c) \in S
  PROVE  \A s \in Seq(C) : s \in S
<1> DEFINE T == {m \in Nat : \A s \in Seq(C) : Len(s) = m => s \in S}
<1>1. 0 \in T
  <2>1. \A s \in Seq(C) : Len(s) = 0 => s = <<>>
    OBVIOUS
  <2> QED BY <2>1
<1>2. ASSUME NEW m \in Nat, m \in T PROVE m + 1 \in T
  <2> SUFFICES ASSUME NEW s \in Seq(C), Len(s) = m + 1 PROVE s \in S
    OBVIOUS
  <2> DEFINE u == SubSeq(s, 1, m)
             c == s[m + 1]
  <2>1. u \in Seq(C) /\ Len(u) = m /\ c \in C
    OBVIOUS
  <2>2. s = Append(u, c)
    OBVIOUS
  <2>3. u \in S
    BY <1>2, <2>1
  <2> HIDE DEF u, c
  <2> QED BY <2>1, <2>2, <2>3
<1> HIDE DEF T
<1>3. \A m \in Nat : m \in T
  BY <1>1, <1>2, SetInduction
<1>4. \A s \in Seq(C) : Len(s) \in Nat
  OBVIOUS
<1> QED BY <1>3, <1>4 DEF T

-----------------------------------------------------------------------------
LEMMA TwoCharacters ==
  ASSUME NEW c
  PROVE  Append(<<c>>, c) = <<c, c>> /\ <<c>> \o <<c>> = <<c, c>>
<1> DEFINE s == <<c>>
           t == <<c, c>>
           u == Append(s, c)
           S == {c}
<1>1. c \in S /\ s \in Seq(S) /\ Len(s) = 1 /\ s[1] = c
  OBVIOUS
<1>2. t \in Seq(S) /\ Len(t) = 2 /\ t[1] = c /\ t[2] = c
  OBVIOUS
<1> HIDE DEF s, t, S
<1>3. u \in Seq(S) /\ Len(u) = 2 /\ u[1] = c /\ u[2] = c
  <2>1. u \in Seq(S)
    BY <1>1, AppendProperties
  <2>2. Len(u) = Len(s) + 1
    BY <1>1, AppendProperties
  <2>3. \A i \in 1..Len(s) : u[i] = s[i]
    BY <1>1, AppendProperties
  <2>4. u[Len(s) + 1] = c
    BY <1>1, AppendProperties
  <2> QED BY <1>1, <2>1, <2>2, <2>3, <2>4
<1> HIDE DEF u
<1>4. \A i \in 1..Len(t) : u[i] = t[i]
  BY <1>2, <1>3
<1>5. u = t
  BY <1>2, <1>3, <1>4, SeqEqual
<1>6. u = s \o <<c>>
  BY <1>1, AppendIsConcat DEF u
<1> QED BY <1>5, <1>6 DEF s, t, u

Chars(v) == {v[i] : i \in DOMAIN v}

Char == Letter \cup {"'", ":", "?", " ", "NUL"} \cup UNION {Chars(v) : v \in Literal}

CharSeq == Seq(Char)

ScanNames == SUBSET [name : CharSeq, index : Int]

\* What the loop knows between two characters.
ScanState == [quote : BOOLEAN, param : BOOLEAN, name : CharSeq, pindex : Int, out : CharSeq, names : ScanNames]

LEMMA TextGrows == \A s \in CharSeq, ch \in Char : Append(s, ch) \in CharSeq
BY DEF CharSeq

Has(y, quote, param, name, pindex, out, known) ==
  /\ y.quote = quote /\ y.param = param /\ y.name = name
  /\ y.pindex = pindex /\ y.out = out /\ y.names = known

LEMMA Associative == \A r, s, t \in CharSeq : (r \o s) \o t = r \o (s \o t)
<1> SUFFICES ASSUME NEW r \in Seq(Char), NEW s \in Seq(Char), NEW t \in Seq(Char)
             PROVE  (r \o s) \o t = r \o (s \o t)
  BY DEF CharSeq
<1> QED BY ConcatAssociative

LEMMA CopyType ==
  ASSUME NEW x \in ScanState, NEW ch \in Char
  PROVE  /\ Copy(x, ch) \in ScanState
         /\ Has(Copy(x, ch), x.quote, x.param, x.name, x.pindex, Append(x.out, ch), x.names)
<1> DEFINE out == Append(x.out, ch)
<1>1. x.out \in CharSeq
  BY DEF ScanState
<1>2. out \in CharSeq
  BY <1>1, TextGrows
<1>3. Copy(x, ch) = [x EXCEPT !.out = out]
  BY DEF Copy
<1> HIDE DEF out
<1>4. Copy(x, ch) \in ScanState
      /\ Has(Copy(x, ch), x.quote, x.param, x.name, x.pindex, out, x.names)
  BY <1>2, <1>3 DEF ScanState, Has
<1> QED BY <1>4 DEF out

LEMMA MarkType ==
  ASSUME NEW x \in ScanState
  PROVE  /\ Mark(x) \in ScanState
         /\ Has(Mark(x), x.quote, x.param, x.name, x.pindex + 1, Append(x.out, "?"), x.names)
<1>1. "?" \in Char
  BY DEF Char
<1>2. Copy(x, "?") \in ScanState
  BY <1>1, CopyType
<1>3. x.pindex + 1 \in Int
  BY DEF ScanState
<1> DEFINE out == Append(x.out, "?")
<1>4. Has(Copy(x, "?"), x.quote, x.param, x.name, x.pindex, out, x.names)
  BY <1>1, CopyType
<1>5. Mark(x) = [Copy(x, "?") EXCEPT !.pindex = x.pindex + 1]
  BY DEF Mark
<1> HIDE DEF out
<1>6. Mark(x) \in ScanState
      /\ Has(Mark(x), x.quote, x.param, x.name, x.pindex + 1, out, x.names)
  BY <1>2, <1>3, <1>4, <1>5 DEF ScanState, Has
<1> QED BY <1>6 DEF out

LEMMA OpenedType ==
  ASSUME NEW x \in ScanState
  PROVE  /\ Opened(x) \in ScanState
         /\ Has(Opened(x), x.quote, TRUE, <<>>, x.pindex + 1, Append(x.out, "?"), x.names)
<1>1. Mark(x) \in ScanState
  BY MarkType
<1> DEFINE out == Append(x.out, "?")
           empty == <<>>
           next == x.pindex + 1
<1>2. empty \in CharSeq
  BY DEF CharSeq
<1>3. Has(Mark(x), x.quote, x.param, x.name, next, out, x.names)
  BY MarkType
<1>4. Opened(x) = [Mark(x) EXCEPT !.param = TRUE, !.name = empty]
  BY DEF Opened
<1> HIDE DEF out, empty, next
<1>5. Opened(x) \in ScanState /\ Has(Opened(x), x.quote, TRUE, empty, next, out, x.names)
  BY <1>1, <1>2, <1>3, <1>4 DEF ScanState, Has
<1> QED BY <1>5 DEF out, empty, next

\* The names after the one being read has ended.
EndedNames(x) ==
  {e \in x.names : e.name # x.name} \cup {[name |-> x.name, index |-> x.pindex]}

LEMMA EndedType ==
  ASSUME NEW x \in ScanState
  PROVE  /\ Ended(x) \in ScanState
         /\ Has(Ended(x), x.quote, FALSE, x.name, x.pindex, x.out, EndedNames(x))
<1>1. EndedNames(x) \in ScanNames
  BY DEF ScanState, ScanNames, EndedNames
<1>2. Ended(x) = [x EXCEPT !.param = FALSE, !.names = EndedNames(x)]
  BY DEF Ended, EndedNames
<1> QED BY <1>1, <1>2 DEF ScanState, Has

Named(x, ch) == [x EXCEPT !.name = Append(x.name, ch)]

LEMMA NamedType ==
  ASSUME NEW x \in ScanState, NEW ch \in Char
  PROVE  /\ Named(x, ch) \in ScanState
         /\ Has(Named(x, ch), x.quote, x.param, Append(x.name, ch), x.pindex, x.out, x.names)
<1> DEFINE name == Append(x.name, ch)
<1>1. x.name \in CharSeq
  BY DEF ScanState
<1>2. name \in CharSeq
  BY <1>1, TextGrows
<1>3. Named(x, ch) = [x EXCEPT !.name = name]
  BY DEF Named
<1> HIDE DEF name
<1>4. Named(x, ch) \in ScanState /\ Has(Named(x, ch), x.quote, x.param, name, x.pindex, x.out, x.names)
  BY <1>2, <1>3 DEF ScanState, Has
<1> QED BY <1>4 DEF name

QuoteSet(x, b) == [x EXCEPT !.quote = b]

LEMMA QuoteType ==
  ASSUME NEW x \in ScanState, NEW b \in BOOLEAN
  PROVE  /\ QuoteSet(x, b) \in ScanState
         /\ Has(QuoteSet(x, b), b, x.param, x.name, x.pindex, x.out, x.names)
BY DEF ScanState, QuoteSet, Has

LEMMA UnquotedType ==
  ASSUME NEW x \in ScanState, NEW ch \in Char
  PROVE  Unquoted(x, ch) \in ScanState
<1>1. CASE ~x.param /\ ch = ":"
  BY <1>1, OpenedType DEF Unquoted
<1>2. CASE ~x.param /\ ch # ":" /\ ch = "?"
  BY <1>2, MarkType DEF Unquoted
<1>3. CASE ~x.param /\ ch # ":" /\ ch # "?"
  BY <1>3, CopyType DEF Unquoted
<1>4. CASE x.param /\ ch \in Letter
  BY <1>4, NamedType DEF Unquoted, Named
<1>5. CASE x.param /\ ch \notin Letter
  BY <1>5, CopyType, EndedType DEF Unquoted
<1> QED BY <1>1, <1>2, <1>3, <1>4, <1>5

LEMMA ScanSplit ==
  ASSUME NEW x \in ScanState, NEW ch \in Char, NEW b \in BOOLEAN, b = (x.quote # (ch = "'"))
  PROVE  Scan(x, ch) = IF b THEN Copy(QuoteSet(x, TRUE), ch) ELSE Unquoted(QuoteSet(x, FALSE), ch)
<1>1. QuoteSet(x, b).quote = b
  BY DEF QuoteSet, ScanState
<1>2. Scan(x, ch) = IF QuoteSet(x, b).quote THEN Copy(QuoteSet(x, b), ch) ELSE Unquoted(QuoteSet(x, b), ch)
  BY DEF Scan, QuoteSet
<1>3. CASE b = TRUE
  BY <1>1, <1>2, <1>3
<1>4. CASE b = FALSE
  BY <1>1, <1>2, <1>4
<1> QED BY <1>3, <1>4

LEMMA ScanType ==
  ASSUME NEW x \in ScanState, NEW ch \in Char
  PROVE  Scan(x, ch) \in ScanState
<1> DEFINE b == (x.quote # (ch = "'"))
<1>1. b \in BOOLEAN
  OBVIOUS
<1>2. b = (x.quote # (ch = "'"))
  OBVIOUS
<1> HIDE DEF b
<1>3. Scan(x, ch) = IF b THEN Copy(QuoteSet(x, TRUE), ch) ELSE Unquoted(QuoteSet(x, FALSE), ch)
  BY <1>1, <1>2, ScanSplit
<1>4. QuoteSet(x, TRUE) \in ScanState /\ QuoteSet(x, FALSE) \in ScanState
  BY QuoteType
<1>5. Copy(QuoteSet(x, TRUE), ch) \in ScanState
  BY <1>4, CopyType
<1>6. Unquoted(QuoteSet(x, FALSE), ch) \in ScanState
  BY <1>4, UnquotedType
<1> QED BY <1>3, <1>5, <1>6

\* The states of the loop over a text.
Steps(f, x, text, n) ==
  /\ f \in [0..n -> ScanState]
  /\ f[0] = x
  /\ \A i \in 1..n : f[i] = Scan(f[i-1], text[i])

LEMMA ScanningSteps ==
  ASSUME NEW x \in ScanState, NEW text \in CharSeq
  PROVE  \E f : Steps(f, x, text, Len(text)) /\ Scanning(x, text) = f[Len(text)]
<1> DEFINE n == Len(text)
           Def(h) == h = [i \in 0..n |-> IF i = 0 THEN x ELSE Scan(h[i-1], text[i])]
           after == CHOOSE h : Def(h)
           step == [p \in ScanState \X (1..n) |-> Scan(p[1], text[p[2]])]
<1>1. n \in Nat /\ \A i \in 1..n : text[i] \in Char
  BY DEF CharSeq
<1>2. Scanning(x, text) = after[n]
  BY DEF Scanning
<1> HIDE DEF n
<1>3. step \in [ScanState \X (1..n) -> ScanState]
  BY <1>1, ScanType
<1>4. \A z \in ScanState, i \in 1..n : step[<<z, i>>] = Scan(z, text[i])
  OBVIOUS
<1> HIDE DEF step
<1>5. PICK f : Recursive(f, n, ScanState, x, step)
  BY <1>1, <1>3, Recursion
<1>6. f \in [0..n -> ScanState] /\ f[0] = x /\ \A i \in 1..n : f[i] = step[<<f[i-1], i>>]
  BY <1>5 DEF Recursive
<1>7. ASSUME NEW i \in 1..n PROVE f[i] = Scan(f[i-1], text[i])
  <2>1. i - 1 \in 0..n
    BY <1>1
  <2>2. f[i-1] \in ScanState
    BY <1>6, <2>1
  <2> QED BY <1>4, <1>6, <2>2
<1>8. Def(f)
  <2>1. \A i \in 0..n : f[i] = IF i = 0 THEN x ELSE Scan(f[i-1], text[i])
    BY <1>1, <1>6, <1>7
  <2>2. f = [i \in 0..n |-> f[i]]
    BY <1>6
  <2> QED BY <2>1, <2>2
<1>9. Def(after)
  <2> HIDE DEF Def
  <2> QED BY <1>8
<1> HIDE DEF after
<1>10. DOMAIN after = 0..n /\ \A i \in 0..n : after[i] = IF i = 0 THEN x ELSE Scan(after[i-1], text[i])
  BY <1>9
<1> HIDE DEF Def
<1> DEFINE S == {m \in Nat : m <= n => after[m] = f[m]}
<1>11. 0 \in S
  BY <1>1, <1>6, <1>10
<1>12. ASSUME NEW m \in Nat, m \in S PROVE m + 1 \in S
  <2> SUFFICES ASSUME m + 1 <= n PROVE after[m + 1] = f[m + 1]
    OBVIOUS
  <2> DEFINE k == m + 1
  <2>1. k \in 0..n /\ k \in 1..n /\ k # 0 /\ k - 1 = m
    BY <1>1
  <2>2. after[m] = f[m]
    BY <1>1, <1>12
  <2> HIDE DEF k
  <2>3. after[k] = Scan(after[k-1], text[k])
    BY <1>10, <2>1
  <2>4. f[k] = Scan(f[k-1], text[k])
    BY <1>7, <2>1
  <2>5. after[k] = f[k]
    BY <2>1, <2>2, <2>3, <2>4
  <2> QED BY <2>5 DEF k
<1> HIDE DEF S
<1>13. n \in S
  BY <1>1, <1>11, <1>12, SetInduction
<1>14. after[n] = f[n]
  BY <1>1, <1>13 DEF S
<1>15. Steps(f, x, text, n)
  BY <1>6, <1>7 DEF Steps
<1> QED BY <1>2, <1>14, <1>15 DEF n

LEMMA ScanningType ==
  ASSUME NEW x \in ScanState, NEW text \in CharSeq
  PROVE  Scanning(x, text) \in ScanState
<1>1. PICK f : Steps(f, x, text, Len(text)) /\ Scanning(x, text) = f[Len(text)]
  BY ScanningSteps
<1>2. Len(text) \in 0..Len(text)
  <2>1. Len(text) \in Nat
    BY DEF CharSeq
  <2> QED BY <2>1
<1> QED BY <1>1, <1>2 DEF Steps

LEMMA ScanningEmpty ==
  ASSUME NEW x \in ScanState
  PROVE  Scanning(x, <<>>) = x
<1> DEFINE empty == <<>>
<1>1. empty \in CharSeq /\ Len(empty) = 0
  BY DEF CharSeq
<1> HIDE DEF empty
<1>2. PICK f : Steps(f, x, empty, Len(empty)) /\ Scanning(x, empty) = f[Len(empty)]
  BY <1>1, ScanningSteps
<1>3. Scanning(x, empty) = x
  BY <1>1, <1>2 DEF Steps
<1> QED BY <1>3 DEF empty

LEMMA ScanningAppend ==
  ASSUME NEW x \in ScanState, NEW text \in CharSeq, NEW ch \in Char
  PROVE  Scanning(x, Append(text, ch)) = Scan(Scanning(x, text), ch)
<1> DEFINE n == Len(text)
           longer == Append(text, ch)
<1>1. longer \in CharSeq
  BY TextGrows
<1>2. n \in Nat /\ Len(longer) = n + 1 /\ longer[n + 1] = ch /\ \A i \in 1..n : longer[i] = text[i]
  BY DEF CharSeq
<1> HIDE DEF n, longer
<1>3. PICK f : Steps(f, x, text, n) /\ Scanning(x, text) = f[n]
  BY ScanningSteps DEF n
<1>4. PICK g : Steps(g, x, longer, n + 1) /\ Scanning(x, longer) = g[n + 1]
  BY <1>1, <1>2, ScanningSteps
<1> DEFINE S == {i \in Nat : i <= n => f[i] = g[i]}
<1>5. 0 \in S
  BY <1>3, <1>4 DEF Steps
<1>6. ASSUME NEW i \in Nat, i \in S PROVE i + 1 \in S
  <2> SUFFICES ASSUME i + 1 <= n PROVE f[i + 1] = g[i + 1]
    OBVIOUS
  <2> DEFINE k == i + 1
  <2>1. k \in 1..n /\ k \in 1..(n + 1) /\ k - 1 = i
    BY <1>2
  <2>2. f[i] = g[i]
    BY <1>2, <1>6
  <2> HIDE DEF k
  <2>3. f[k] = Scan(f[k-1], text[k])
    BY <1>3, <2>1 DEF Steps
  <2>4. g[k] = Scan(g[k-1], longer[k])
    BY <1>4, <2>1 DEF Steps
  <2>5. f[k] = g[k]
    BY <1>2, <2>1, <2>2, <2>3, <2>4
  <2> QED BY <2>5 DEF k
<1> HIDE DEF S
<1>7. n \in S
  BY <1>2, <1>5, <1>6, SetInduction
<1>8. f[n] = g[n]
  BY <1>2, <1>7 DEF S
<1>9. n + 1 \in 1..(n + 1) /\ (n + 1) - 1 = n
  BY <1>2
<1>10. g[n + 1] = Scan(g[n], ch)
  BY <1>2, <1>4, <1>9 DEF Steps
<1> QED BY <1>3, <1>4, <1>8, <1>10 DEF longer

LEMMA ScanningConcat ==
  ASSUME NEW x \in ScanState, NEW s \in CharSeq, NEW t \in CharSeq
  PROVE  Scanning(x, s \o t) = Scanning(Scanning(x, s), t)
<1> DEFINE y == Scanning(x, s)
           S == {u \in CharSeq : Scanning(x, s \o u) = Scanning(y, u)}
<1>1. y \in ScanState
  BY ScanningType
<1>2. <<>> \in S
  <2>1. s \o <<>> = s /\ <<>> \in CharSeq
    BY ConcatEmptySeq DEF CharSeq
  <2>2. Scanning(y, <<>>) = y
    BY <1>1, ScanningEmpty
  <2> QED BY <2>1, <2>2
<1>3. ASSUME NEW u \in CharSeq, NEW ch \in Char, u \in S PROVE Append(u, ch) \in S
  <2>1. Append(u, ch) \in CharSeq /\ s \o u \in CharSeq
    BY TextGrows DEF CharSeq
  <2>2. s \o Append(u, ch) = Append(s \o u, ch)
    BY AppendIsConcat, ConcatAssociative DEF CharSeq
  <2>3. Scanning(x, Append(s \o u, ch)) = Scan(Scanning(x, s \o u), ch)
    BY <2>1, ScanningAppend
  <2>4. Scanning(y, Append(u, ch)) = Scan(Scanning(y, u), ch)
    BY <1>1, ScanningAppend
  <2> QED BY <1>3, <2>1, <2>2, <2>3, <2>4
<1> HIDE DEF S
<1>4. t \in S
  BY <1>2, <1>3, SequenceInduction DEF CharSeq
<1> QED BY <1>4 DEF S

-----------------------------------------------------------------------------
\* The names known when the text would end here.
Settled(x) == IF x.param THEN EndedNames(x) ELSE x.names

\* From x to y the loop has copied s, and done nothing to a name but ended it.
Kept(x, y, s) ==
  /\ y \in ScanState
  /\ y.out = x.out \o s
  /\ y.pindex = x.pindex
  /\ Settled(y) = Settled(x)

LEMMA KeptAgain ==
  ASSUME NEW x \in ScanState, NEW y, NEW z, NEW s \in CharSeq, NEW t \in CharSeq,
         Kept(x, y, s), Kept(y, z, t)
  PROVE  Kept(x, z, s \o t)
<1>1. x.out \in CharSeq
  BY DEF ScanState
<1>2. (x.out \o s) \o t = x.out \o (s \o t)
  BY <1>1, Associative
<1> QED BY <1>2 DEF Kept

\* Inside quotes every character is copied, outside those that are no letters
\* and open no parameter.
LEMMA ScanKeeps ==
  ASSUME NEW x \in ScanState, NEW ch \in Char, x.quote \/ ch \notin Letter \cup {":", "?"}
  PROVE  /\ Kept(x, Scan(x, ch), <<ch>>)
         /\ Scan(x, ch).quote = (x.quote # (ch = "'"))
         /\ ~Scan(x, ch).quote => ~Scan(x, ch).param
<1> DEFINE b == (x.quote # (ch = "'"))
           in == QuoteSet(x, TRUE)
           out == QuoteSet(x, FALSE)
<1>1. b \in BOOLEAN
  OBVIOUS
<1>2. b = (x.quote # (ch = "'"))
  OBVIOUS
<1>3. ~b => ch \notin Letter /\ ch # ":" /\ ch # "?"
  BY TextAssumption DEF ScanState
<1> HIDE DEF b
<1>4. Scan(x, ch) = IF b THEN Copy(in, ch) ELSE Unquoted(out, ch)
  BY <1>1, <1>2, ScanSplit
<1>5. Append(x.out, ch) = x.out \o <<ch>>
  BY AppendIsConcat DEF ScanState, CharSeq
<1>6. in \in ScanState /\ out \in ScanState
  BY QuoteType
<1>7. Scan(x, ch) \in ScanState
  BY ScanType
<1>8. CASE b
  <2>1. Scan(x, ch) = Copy(in, ch)
    BY <1>4, <1>8
  <2>2. Has(in, TRUE, x.param, x.name, x.pindex, x.out, x.names)
    BY QuoteType
  <2>3. Has(Copy(in, ch), in.quote, in.param, in.name, in.pindex, Append(in.out, ch), in.names)
    BY <1>6, CopyType
  <2>4. /\ Scan(x, ch).quote /\ Scan(x, ch).param = x.param /\ Scan(x, ch).name = x.name
        /\ Scan(x, ch).pindex = x.pindex /\ Scan(x, ch).names = x.names
        /\ Scan(x, ch).out = Append(x.out, ch)
    BY <2>1, <2>2, <2>3 DEF Has
  <2>5. Settled(Scan(x, ch)) = Settled(x)
    BY <2>4 DEF Settled, EndedNames
  <2> QED BY <1>2, <1>5, <1>7, <1>8, <2>4, <2>5 DEF Kept
<1>9. CASE ~b
  <2> DEFINE y == IF x.param THEN Ended(out) ELSE out
  <2>1. Has(out, FALSE, x.param, x.name, x.pindex, x.out, x.names)
    BY QuoteType
  <2>2. Scan(x, ch) = Unquoted(out, ch) /\ out.param = x.param
    BY <1>4, <1>9, <2>1 DEF Has
  <2>3. Unquoted(out, ch) = Copy(y, ch)
    BY <1>3, <1>9, <2>2 DEF Unquoted
  <2>4. /\ y \in ScanState /\ ~y.quote /\ ~y.param /\ y.pindex = x.pindex
        /\ y.out = x.out /\ y.names = Settled(x)
    <3>1. CASE x.param
      <4>1. /\ Ended(out) \in ScanState
            /\ Has(Ended(out), out.quote, FALSE, out.name, out.pindex, out.out, EndedNames(out))
        BY <1>6, EndedType
      <4>2. EndedNames(out) = EndedNames(x)
        BY <2>1 DEF EndedNames, Has
      <4>3. y = Ended(out) /\ Settled(x) = EndedNames(x)
        BY <3>1 DEF Settled
      <4> QED BY <2>1, <4>1, <4>2, <4>3 DEF Has
    <3>2. CASE ~x.param
      <4>1. y = out /\ Settled(x) = x.names
        BY <3>2 DEF Settled
      <4> QED BY <1>6, <2>1, <3>2, <4>1 DEF Has
    <3> QED BY <3>1, <3>2
  <2> HIDE DEF y
  <2>5. Has(Copy(y, ch), y.quote, y.param, y.name, y.pindex, Append(y.out, ch), y.names)
    BY <2>4, CopyType
  <2>6. /\ ~Scan(x, ch).quote /\ ~Scan(x, ch).param /\ Scan(x, ch).pindex = x.pindex
        /\ Scan(x, ch).names = Settled(x) /\ Scan(x, ch).out = Append(x.out, ch)
    BY <2>2, <2>3, <2>4, <2>5 DEF Has
  <2>7. Settled(Scan(x, ch)) = Settled(x)
    BY <2>6 DEF Settled
  <2>8. Scan(x, ch).quote \in BOOLEAN
    BY <1>7 DEF ScanState
  <2> QED BY <1>2, <1>5, <1>7, <1>9, <2>6, <2>7, <2>8 DEF Kept
<1> QED BY <1>8, <1>9

LEMMA OneCharacter ==
  ASSUME NEW x \in ScanState, NEW ch \in Char
  PROVE  Scanning(x, <<ch>>) = Scan(x, ch)
<1>1. <<>> \in CharSeq /\ Append(<<>>, ch) = <<ch>>
  BY DEF CharSeq
<1>2. Scanning(x, Append(<<>>, ch)) = Scan(Scanning(x, <<>>), ch)
  BY <1>1, ScanningAppend
<1> QED BY <1>1, <1>2, ScanningEmpty

\* A quoted literal is copied, whatever characters it has.
LEMMA LiteralScanned ==
  ASSUME NEW x \in ScanState, ~x.quote, NEW v \in Literal
  PROVE  /\ Quoted(v) \in CharSeq
         /\ Kept(x, Scanning(x, Quoted(v)), Quoted(v))
         /\ ~Scanning(x, Quoted(v)).quote /\ ~Scanning(x, Quoted(v)).param
<1> DEFINE q == "'"
           D == [i \in DOMAIN v |-> IF v[i] = "'" THEN <<"'", "'">> ELSE <<v[i]>>]
           n == Len(v)
           y == Scan(x, q)
<1>1. q \in Char /\ q = "'"
  BY DEF Char
<1>2. n \in Nat /\ DOMAIN v = 1..n /\ \A i \in 1..n : v[i] \in Char
  <2>1. v \in Seq(Chars(v))
    BY TextAssumption DEF Chars
  <2>2. n \in Nat /\ DOMAIN v = 1..n
    BY <2>1
  <2>3. Chars(v) \subseteq Char
    BY DEF Char
  <2>4. \A i \in 1..n : v[i] \in Chars(v)
    BY <2>1
  <2> QED BY <2>2, <2>3, <2>4
<1>3. \A i \in 1..n : D[i] \in CharSeq /\ D[i] = IF v[i] = q THEN <<q, q>> ELSE <<v[i]>>
  <2>1. \A c \in Char : <<c>> \in CharSeq /\ <<c, c>> \in CharSeq
    BY DEF CharSeq
  <2> QED BY <1>1, <1>2, <2>1
<1>4. D \in Seq(CharSeq) /\ Len(D) = n
  BY <1>2, <1>3
<1>5. Quoted(v) = (<<q>> \o FlattenSeq(D)) \o <<q>>
  BY DEF Quoted
<1> HIDE DEF D, n, q
<1>6. PICK f : Concatenates(f, D, CharSeq)
  BY <1>4, FlattenSteps DEF CharSeq
<1>7. f \in [0..n -> CharSeq] /\ f[0] = <<>> /\ f[n] = FlattenSeq(D) /\ \A i \in 1..n : f[i] = f[i-1] \o D[i]
  BY <1>4, <1>6 DEF Concatenates
<1>8. y \in ScanState /\ Kept(x, y, <<q>>) /\ y.quote
  BY <1>1, ScanKeeps, ScanType, TextAssumption DEF ScanState
<1> HIDE DEF y
<1> DEFINE S == {i \in Nat : i <= n => Kept(y, Scanning(y, f[i]), f[i]) /\ Scanning(y, f[i]).quote}
<1>9. 0 \in S
  <2>1. y.out \o <<>> = y.out
    BY <1>8, ConcatEmptySeq DEF ScanState, CharSeq
  <2>2. Scanning(y, <<>>) = y
    BY <1>8, ScanningEmpty
  <2> QED BY <1>7, <1>8, <2>1, <2>2 DEF Kept
<1>10. ASSUME NEW i \in Nat, i \in S PROVE i + 1 \in S
  <2> SUFFICES ASSUME i + 1 <= n
               PROVE  Kept(y, Scanning(y, f[i + 1]), f[i + 1]) /\ Scanning(y, f[i + 1]).quote
    OBVIOUS
  <2> DEFINE k == i + 1
             ch == v[k]
             z == Scanning(y, f[i])
  <2>1. k \in 1..n /\ k - 1 = i /\ i \in 0..n
    BY <1>2
  <2>2. f[i] \in CharSeq /\ f[k] = f[i] \o D[k] /\ D[k] \in CharSeq /\ ch \in Char
    BY <1>2, <1>3, <1>7, <2>1
  <2>3. z \in ScanState /\ Kept(y, z, f[i]) /\ z.quote
    BY <1>2, <1>8, <1>10, <2>2, ScanningType
  <2>4. Scanning(y, f[k]) = Scanning(z, D[k])
    BY <1>8, <2>2, ScanningConcat
  <2> HIDE DEF z, k
  <2>5. Kept(z, Scanning(z, D[k]), D[k]) /\ Scanning(z, D[k]).quote
    <3>1. CASE ch = q
      <4> DEFINE w == Scan(z, q)
      <4>1. D[k] = <<q, q>> /\ <<q>> \in CharSeq /\ <<q>> \o <<q>> = <<q, q>> /\ Append(<<q>>, q) = <<q, q>>
        <5>1. D[k] = <<q, q>>
          BY <1>3, <2>1, <3>1
        <5>2. <<q>> \in CharSeq
          BY <1>1 DEF CharSeq
        <5>3. Append(<<q>>, q) = <<q, q>> /\ <<q>> \o <<q>> = <<q, q>>
          BY TwoCharacters
        <5> QED BY <5>1, <5>2, <5>3
      <4>2. w \in ScanState /\ Kept(z, w, <<q>>) /\ ~w.quote
        BY <1>1, <2>3, ScanKeeps, ScanType DEF ScanState
      <4>3. Kept(w, Scan(w, q), <<q>>) /\ Scan(w, q).quote
        BY <1>1, <4>2, ScanKeeps, TextAssumption DEF ScanState
      <4>4. Scanning(z, D[k]) = Scan(w, q)
        <5>1. Scanning(z, Append(<<q>>, q)) = Scan(Scanning(z, <<q>>), q)
          BY <1>1, <2>3, <4>1, ScanningAppend
        <5>2. Scanning(z, <<q>>) = w
          BY <1>1, <2>3, OneCharacter
        <5> QED BY <4>1, <5>1, <5>2
      <4> HIDE DEF w
      <4>5. Kept(z, Scan(w, q), <<q>> \o <<q>>)
        BY <2>3, <4>1, <4>2, <4>3, KeptAgain
      <4> QED BY <4>1, <4>3, <4>4, <4>5
    <3>2. CASE ch # q
      <4>1. D[k] = <<ch>>
        BY <1>3, <2>1, <3>2
      <4>2. Kept(z, Scan(z, ch), <<ch>>) /\ Scan(z, ch).quote
        BY <1>1, <2>2, <2>3, <3>2, ScanKeeps DEF ScanState
      <4>3. Scanning(z, <<ch>>) = Scan(z, ch)
        BY <2>2, <2>3, OneCharacter
      <4> QED BY <4>1, <4>2, <4>3
    <3> QED BY <3>1, <3>2
  <2>6. Kept(y, Scanning(z, D[k]), f[i] \o D[k])
    BY <1>8, <2>2, <2>3, <2>5, KeptAgain
  <2> QED BY <2>2, <2>4, <2>5, <2>6 DEF k
<1> HIDE DEF S
<1>11. n \in S
  BY <1>2, <1>9, <1>10, SetInduction
<1> DEFINE body == FlattenSeq(D)
           z == Scanning(y, body)
<1>12. body \in CharSeq /\ Kept(y, z, body) /\ z.quote /\ z \in ScanState
  <2>1. n \in 0..n
    BY <1>2
  <2> QED BY <1>2, <1>7, <1>8, <1>11, <2>1, ScanningType DEF S
<1> HIDE DEF body
<1>13. z = Scanning(x, <<q>> \o body) /\ <<q>> \in CharSeq /\ <<q>> \o body \in CharSeq
  <2>1. <<q>> \in CharSeq
    BY <1>1 DEF CharSeq
  <2>2. <<q>> \o body \in CharSeq
    BY <1>12, <2>1 DEF CharSeq
  <2>3. Scanning(x, <<q>>) = y
    BY <1>1, OneCharacter DEF y
  <2>4. Scanning(x, <<q>> \o body) = Scanning(Scanning(x, <<q>>), body)
    BY <1>12, <2>1, ScanningConcat
  <2> QED BY <2>1, <2>2, <2>3, <2>4
<1>14. Kept(x, z, <<q>> \o body)
  BY <1>8, <1>12, <1>13, KeptAgain
<1>15. /\ Kept(z, Scan(z, q), <<q>>)
       /\ ~Scan(z, q).quote /\ ~Scan(z, q).param
  BY <1>1, <1>12, ScanKeeps DEF ScanState
<1>16. Quoted(v) = Append(<<q>> \o body, q) /\ Quoted(v) \in CharSeq
  <2>1. Append(<<q>> \o body, q) = (<<q>> \o body) \o <<q>>
    BY <1>1, <1>13, AppendIsConcat DEF CharSeq
  <2> QED BY <1>1, <1>5, <1>13, <2>1, TextGrows DEF body
<1>17. Scanning(x, Quoted(v)) = Scan(z, q)
  BY <1>1, <1>13, <1>16, ScanningAppend
<1>18. Kept(x, Scan(z, q), (<<q>> \o body) \o <<q>>)
  BY <1>12, <1>13, <1>14, <1>15, KeptAgain
<1> QED BY <1>5, <1>15, <1>16, <1>17, <1>18 DEF body

LEMMA BlankScanned ==
  ASSUME NEW x \in ScanState, ~x.quote, NEW ch \in {" ", "NUL"}
  PROVE  /\ Kept(x, Scanning(x, <<ch>>), <<ch>>)
         /\ ~Scanning(x, <<ch>>).quote /\ ~Scanning(x, <<ch>>).param
<1>1. ch \in Char /\ ch \notin Letter \cup {":", "?"} /\ ch # "'"
  BY TextAssumption DEF Char
<1>2. Scanning(x, <<ch>>) = Scan(x, ch)
  BY <1>1, OneCharacter
<1>3. /\ Kept(x, Scan(x, ch), <<ch>>)
      /\ Scan(x, ch).quote = (x.quote # (ch = "'"))
      /\ ~Scan(x, ch).quote => ~Scan(x, ch).param
  BY <1>1, ScanKeeps
<1>4. (x.quote # (ch = "'")) = FALSE
  BY <1>1 DEF ScanState
<1> QED BY <1>2, <1>3, <1>4

LEMMA MarkScanned ==
  ASSUME NEW x \in ScanState, ~x.quote, ~x.param
  PROVE  LET y == Scanning(x, <<"?">>) IN
           /\ y \in ScanState /\ ~y.quote /\ ~y.param
           /\ y.out = Append(x.out, "?") /\ y.names = x.names
<1> DEFINE out == QuoteSet(x, FALSE)
           mark == "?"
<1>1. mark \in Char /\ mark # "'" /\ mark # ":" /\ mark = "?"
  BY DEF Char
<1> HIDE DEF mark
<1>2. out \in ScanState /\ Has(out, FALSE, x.param, x.name, x.pindex, x.out, x.names)
  BY QuoteType
<1> HIDE DEF out
<1>3. FALSE = (x.quote # (mark = "'"))
  BY <1>1 DEF ScanState
<1>4. Scan(x, mark) = Unquoted(out, mark)
  BY <1>1, <1>3, ScanSplit DEF out
<1>5. ~out.param
  BY <1>2 DEF Has
<1>6. Unquoted(out, mark) = Mark(out)
  BY <1>1, <1>5 DEF Unquoted
<1>7. Mark(out) \in ScanState /\ Has(Mark(out), out.quote, out.param, out.name, out.pindex + 1, Append(out.out, mark), out.names)
  BY <1>1, <1>2, MarkType
<1>8. Scanning(x, <<mark>>) = Mark(out)
  BY <1>1, <1>4, <1>6, OneCharacter
<1> QED BY <1>1, <1>2, <1>7, <1>8 DEF Has

LEMMA ColonScanned ==
  ASSUME NEW x \in ScanState, ~x.quote, ~x.param
  PROVE  LET y == Scan(x, ":") IN
           /\ y \in ScanState /\ ~y.quote /\ y.param /\ y.name = <<>> /\ y.pindex = x.pindex + 1
           /\ y.out = Append(x.out, "?") /\ y.names = x.names
<1> DEFINE out == QuoteSet(x, FALSE)
           colon == ":"
<1>1. colon \in Char /\ colon # "'" /\ colon = ":"
  BY DEF Char
<1> HIDE DEF colon
<1>2. out \in ScanState /\ Has(out, FALSE, x.param, x.name, x.pindex, x.out, x.names)
  BY QuoteType
<1> HIDE DEF out
<1>3. FALSE = (x.quote # (colon = "'"))
  BY <1>1 DEF ScanState
<1>4. Scan(x, colon) = Unquoted(out, colon)
  BY <1>1, <1>3, ScanSplit DEF out
<1>5. ~out.param
  BY <1>2 DEF Has
<1>6. Unquoted(out, colon) = Opened(out)
  BY <1>1, <1>5 DEF Unquoted
<1>7. Opened(out) \in ScanState /\ Has(Opened(out), out.quote, TRUE, <<>>, out.pindex + 1, Append(out.out, "?"), out.names)
  BY <1>2, OpenedType
<1> QED BY <1>1, <1>2, <1>4, <1>6, <1>7 DEF Has

LEMMA LetterScanned ==
  ASSUME NEW x \in ScanState, ~x.quote, x.param, NEW ch \in Letter
  PROVE  LET y == Scan(x, ch) IN
           /\ y \in ScanState /\ ~y.quote /\ y.param /\ y.name = Append(x.name, ch) /\ y.pindex = x.pindex
           /\ y.out = x.out /\ y.names = x.names
<1> DEFINE out == QuoteSet(x, FALSE)
<1>1. ch \in Char /\ ch # "'"
  BY TextAssumption DEF Char
<1>2. out \in ScanState /\ Has(out, FALSE, x.param, x.name, x.pindex, x.out, x.names)
  BY QuoteType
<1> HIDE DEF out
<1>3. FALSE = (x.quote # (ch = "'"))
  BY <1>1 DEF ScanState
<1>4. Scan(x, ch) = Unquoted(out, ch)
  BY <1>1, <1>3, ScanSplit DEF out
<1>5. out.param
  BY <1>2 DEF Has
<1>6. Unquoted(out, ch) = Named(out, ch)
  BY <1>5 DEF Unquoted, Named
<1>7. Named(out, ch) \in ScanState /\ Has(Named(out, ch), out.quote, out.param, Append(out.name, ch), out.pindex, out.out, out.names)
  BY <1>1, <1>2, NamedType
<1> QED BY <1>2, <1>4, <1>5, <1>6, <1>7 DEF Has

\* A named parameter becomes a question mark, and its name is being read.
LEMMA NameScanned ==
  ASSUME NEW x \in ScanState, ~x.quote, ~x.param, NEW v \in Seq(Letter)
  PROVE  LET y == Scanning(x, <<":">> \o v) IN
           /\ <<":">> \o v \in CharSeq
           /\ y \in ScanState /\ ~y.quote /\ y.param /\ y.name = v /\ y.pindex = x.pindex + 1
           /\ y.out = Append(x.out, "?") /\ y.names = x.names
<1> DEFINE colon == ":"
           z == Scan(x, colon)
           Read(u, y) == /\ y \in ScanState /\ ~y.quote /\ y.param /\ y.name = u /\ y.pindex = x.pindex + 1
                         /\ y.out = Append(x.out, "?") /\ y.names = x.names
           S == {u \in Seq(Letter) : Read(u, Scanning(z, u))}
<1>1. Letter \subseteq Char /\ Seq(Letter) \subseteq CharSeq
  <2>1. Letter \subseteq Char
    BY DEF Char
  <2>2. \A u \in Seq(Letter) : u \in Seq(Char)
    BY <2>1
  <2> QED BY <2>1, <2>2 DEF CharSeq
<1>2. Read(<<>>, z)
  BY ColonScanned
<1>3. colon \in Char /\ <<colon>> \in CharSeq
  BY DEF Char, CharSeq
<1> HIDE DEF colon, z
<1>4. z \in ScanState
  BY <1>2
<1>5. <<>> \in S
  BY <1>2, <1>4, ScanningEmpty
<1>6. ASSUME NEW u \in Seq(Letter), NEW ch \in Letter, u \in S PROVE Append(u, ch) \in S
  <2> DEFINE y == Scanning(z, u)
  <2>1. Read(u, y)
    BY <1>6
  <2>2. ch \in Char /\ u \in CharSeq /\ Append(u, ch) \in Seq(Letter)
    BY <1>1
  <2>3. Scanning(z, Append(u, ch)) = Scan(y, ch)
    BY <1>4, <2>2, ScanningAppend
  <2> HIDE DEF y
  <2>4. Read(Append(u, ch), Scan(y, ch))
    BY <2>1, LetterScanned
  <2> HIDE DEF Read
  <2> QED BY <2>2, <2>3, <2>4
<1> HIDE DEF S
<1>7. v \in S
  BY <1>5, <1>6, SequenceInduction
<1>8. Read(v, Scanning(z, v)) /\ v \in CharSeq
  BY <1>1, <1>7 DEF S
<1>9. <<colon>> \o v \in CharSeq
  BY <1>3, <1>8 DEF CharSeq
<1>10. Scanning(x, <<colon>> \o v) = Scanning(z, v)
  <2>1. Scanning(x, <<colon>>) = z
    BY <1>3, OneCharacter DEF z
  <2> QED BY <1>3, <1>8, <2>1, ScanningConcat
<1> QED BY <1>8, <1>9, <1>10 DEF colon

-----------------------------------------------------------------------------
\* Counting the members of a set of numbers below i.
LEMMA CountNext ==
  ASSUME NEW n \in Nat, NEW N \in SUBSET (1..n), NEW i \in Nat
  PROVE  /\ Cardinality({j \in N : j < i}) \in Nat
         /\ i \in N => Cardinality({j \in N : j < i + 1}) = Cardinality({j \in N : j < i}) + 1
         /\ i \notin N => Cardinality({j \in N : j < i + 1}) = Cardinality({j \in N : j < i})
<1> DEFINE B == {j \in N : j < i}
           D == {j \in N : j < i + 1}
<1>1. IsFiniteSet(1..n)
  BY FS_Interval
<1> DEFINE all == 1..n
<1>9. \A j \in N : j \in Nat /\ j \in all
  OBVIOUS
<1>10. \A j \in Nat : j < i + 1 <=> j < i \/ j = i
  OBVIOUS
<1> HIDE DEF all
<1>2. B \subseteq all /\ i \notin B
  <2>1. \A j : j \in B => j \in all
    BY <1>9
  <2>2. i \notin B
    <3>1. ~(i < i)
      OBVIOUS
    <3> QED BY <3>1
  <2> HIDE DEF B
  <2> QED BY <2>1, <2>2
<1>11. \A j : j \in D <=> j \in B \/ (j = i /\ i \in N)
  BY <1>9, <1>10
<1> HIDE DEF B, D
<1>3. i \in N => D = B \cup {i}
  BY <1>11
<1>4. i \notin N => D = B
  BY <1>11
<1>5. IsFiniteSet(B)
  BY <1>1, <1>2, FS_Subset DEF all
<1>6. Cardinality(B) \in Nat
  BY <1>5, FS_CardinalityType
<1>7. Cardinality(B \cup {i}) = Cardinality(B) + 1
  BY <1>2, <1>5, FS_AddElement
<1>8. /\ Cardinality(B) \in Nat
      /\ i \in N => Cardinality(D) = Cardinality(B) + 1
      /\ i \notin N => Cardinality(D) = Cardinality(B)
  BY <1>3, <1>4, <1>6, <1>7
<1> QED BY <1>8 DEF B, D

LEMMA CountGrows ==
  ASSUME NEW n \in Nat, NEW N \in SUBSET (1..n), NEW i \in N, NEW j \in Nat, i < j
  PROVE  Cardinality({k \in N : k < i}) < Cardinality({k \in N : k < j})
<1> DEFINE B == {k \in N : k < i}
           D == {k \in N : k < i + 1}
           E == {k \in N : k < j}
<1>1. i \in Nat
  OBVIOUS
<1>2. IsFiniteSet(1..n)
  BY FS_Interval
<1>3. D \subseteq E /\ E \subseteq 1..n
  <2>1. \A k \in N : k \in Nat /\ k \in 1..n
    OBVIOUS
  <2>2. \A k \in Nat : k < i + 1 => k < j
    BY <1>1
  <2>3. E \subseteq N
    OBVIOUS
  <2>4. \A k : k \in D => k \in E
    BY <2>1, <2>2
  <2> HIDE DEF D, E
  <2> QED BY <2>1, <2>3, <2>4
<1>4. Cardinality(B) \in Nat /\ Cardinality(D) = Cardinality(B) + 1
  BY <1>1, CountNext
<1> HIDE DEF B, D, E
<1>5. IsFiniteSet(E)
  BY <1>2, <1>3, FS_Subset
<1>6. Cardinality(D) <= Cardinality(E) /\ Cardinality(E) \in Nat
  BY <1>3, <1>5, FS_Subset, FS_CardinalityType
<1>7. Cardinality(B) < Cardinality(E)
  BY <1>4, <1>6
<1> QED BY <1>7 DEF B, E

LEMMA TokenTypes ==
  ASSUME tokens \in Seq(Token)
  PROVE  /\ Len(tokens) \in Nat /\ DOMAIN tokens = 1..Len(tokens)
         /\ \A i \in 1..Len(tokens) : tokens[i] \in Token
         /\ NameTokens \in SUBSET (1..Len(tokens))
         /\ \A i \in NameTokens : tokens[i].v \in ParamName
<1>1. /\ Len(tokens) \in Nat /\ DOMAIN tokens = 1..Len(tokens)
      /\ \A i \in 1..Len(tokens) : tokens[i] \in Token
  OBVIOUS
<1>2. NameTokens \in SUBSET (1..Len(tokens))
  BY <1>1 DEF NameTokens
<1>3. \A i \in NameTokens : tokens[i].v \in ParamName
  BY <1>1 DEF NameTokens, Token
<1> QED BY <1>1, <1>2, <1>3

LEMMA OrdinalNext ==
  ASSUME tokens \in Seq(Token), NEW i \in Nat
  PROVE  /\ Ordinal(i) \in Nat
         /\ i \in NameTokens => Ordinal(i + 1) = Ordinal(i) + 1
         /\ i \notin NameTokens => Ordinal(i + 1) = Ordinal(i)
<1> DEFINE n == Len(tokens)
<1>1. n \in Nat /\ NameTokens \in SUBSET (1..n)
  BY TokenTypes
<1> HIDE DEF n
<1> QED BY <1>1, CountNext DEF Ordinal

LEMMA OrdinalGrows ==
  ASSUME tokens \in Seq(Token), NEW i \in NameTokens, NEW j \in Nat, i < j
  PROVE  Ordinal(i) < Ordinal(j)
<1> DEFINE n == Len(tokens)
<1>1. n \in Nat /\ NameTokens \in SUBSET (1..n)
  BY TokenTypes
<1> HIDE DEF n
<1> QED BY <1>1, CountGrows DEF Ordinal

-----------------------------------------------------------------------------
\* What named_params holds after i tokens.
NamePlaces(i) ==
  {[name |-> tokens[j].v, index |-> Ordinal(j)] : j \in {j \in NameTokens : j <= i}}

\* The loop between two tokens.
Boundary(x, i, out) ==
  /\ x \in ScanState
  /\ ~x.quote
  /\ x.param => i \in NameTokens
  /\ x.out = out
  /\ Settled(x) = NamePlaces(i)
  /\ NameTokens # {} => x.pindex + 1 = Ordinal(i + 1)

LEMMA SourceType ==
  ASSUME NEW t \in Token
  PROVE  Source(t) \in CharSeq
<1>1. CASE t.k = "name"
  <2>1. t.v \in Seq(Letter)
    BY <1>1, TextAssumption DEF Token
  <2>2. Letter \subseteq Char /\ ":" \in Char
    BY DEF Char
  <2>3. t.v \in CharSeq
    BY <2>1, <2>2, SeqMonotonic DEF CharSeq
  <2>4. <<":">> \o t.v \in CharSeq
    BY <2>2, <2>3 DEF CharSeq
  <2> QED BY <1>1, <2>4 DEF Source
<1>2. CASE t.k = "literal"
  <2>1. t.v \in Literal /\ Source(t) = Quoted(t.v)
    BY <1>2 DEF Token, Source
  <2> DEFINE x == ScanStart
  <2>2. x \in ScanState /\ ~x.quote
    BY DEF ScanStart, ScanState, CharSeq, ScanNames
  <2> HIDE DEF x
  <2> QED BY <2>1, <2>2, LiteralScanned
<1>3. CASE t.k = "plain"
  <2>1. t.v \in {<<" ">>, <<"?">>} /\ Source(t) = t.v
    BY <1>3 DEF Token, Source
  <2>2. " " \in Char /\ "?" \in Char
    BY DEF Char
  <2>3. \A c \in Char : <<c>> \in CharSeq
    BY DEF CharSeq
  <2> QED BY <2>1, <2>2, <2>3
<1> QED BY <1>1, <1>2, <1>3 DEF Token

\* A token of a well-formed text takes the loop from boundary to boundary.
LEMMA NamePlacesGrow ==
  ASSUME tokens \in Seq(Token), NEW i \in 1..Len(tokens)
  PROVE  /\ i \notin NameTokens => NamePlaces(i) = NamePlaces(i - 1)
         /\ i \in NameTokens =>
              NamePlaces(i) = NamePlaces(i - 1) \cup {[name |-> tokens[i].v, index |-> Ordinal(i)]}
<1> DEFINE At(j) == [name |-> tokens[j].v, index |-> Ordinal(j)]
           N(k) == {j \in NameTokens : j <= k}
<1>1. \A j \in NameTokens : j \in Nat
  <2> DEFINE n == Len(tokens)
  <2>1. n \in Nat /\ NameTokens \in SUBSET (1..n)
    BY TokenTypes
  <2> HIDE DEF n
  <2> QED BY <2>1
<1>2. i \in Nat /\ \A j \in Nat : j <= i <=> j <= i - 1 \/ j = i
  <2>1. Len(tokens) \in Nat
    BY TokenTypes
  <2>2. i \in Nat
    BY <2>1
  <2> QED BY <2>2
<1>3. \A j : j \in N(i) <=> j \in N(i - 1) \/ (j = i /\ i \in NameTokens)
  BY <1>1, <1>2
<1>4. \A k : NamePlaces(k) = {At(j) : j \in N(k)}
  BY DEF NamePlaces
<1> HIDE DEF N, At
<1>5. CASE i \in NameTokens
  <2>1. N(i) = N(i - 1) \cup {i}
    BY <1>3, <1>5
  <2>2. {At(j) : j \in N(i)} = {At(j) : j \in N(i - 1)} \cup {At(i)}
    BY <2>1
  <2> QED BY <1>4, <1>5, <2>2 DEF At
<1>6. CASE i \notin NameTokens
  <2>1. N(i) = N(i - 1)
    BY <1>3, <1>6
  <2> QED BY <1>4, <1>6, <2>1
<1> QED BY <1>5, <1>6

LEMMA KeptBoundary ==
  ASSUME tokens \in Seq(Token), NEW i \in 1..Len(tokens), i \notin NameTokens,
         NEW x, NEW y, NEW out, NEW s, Boundary(x, i - 1, out), Kept(x, y, s), ~y.quote, ~y.param
  PROVE  Boundary(y, i, out \o s)
<1>1. i \in Nat
  <2>1. Len(tokens) \in Nat
    BY TokenTypes
  <2> QED BY <2>1
<1>2. (i - 1) + 1 = i
  BY <1>1
<1>3. NamePlaces(i) = NamePlaces(i - 1) /\ Ordinal(i + 1) = Ordinal(i)
  BY <1>1, NamePlacesGrow, OrdinalNext
<1> QED BY <1>2, <1>3 DEF Boundary, Kept

LEMMA NameBoundary ==
  ASSUME tokens \in Seq(Token), WellFormed, NEW i \in 1..Len(tokens), i \in NameTokens,
         NEW x, NEW out \in CharSeq, Boundary(x, i - 1, out)
  PROVE  Boundary(Scanning(x, Source(tokens[i])), i, out \o <<"?">>)
<1> DEFINE v == tokens[i].v
           y == Scanning(x, <<":">> \o v)
           e == [name |-> v, index |-> Ordinal(i)]
<1>1. i \in Nat /\ (i - 1) + 1 = i
  <2>1. Len(tokens) \in Nat
    BY TokenTypes
  <2>2. i \in Nat
    BY <2>1
  <2> QED BY <2>2
<1>2. x \in ScanState /\ ~x.quote /\ ~x.param
  BY <1>1 DEF Boundary, WellFormed
<1>3. Source(tokens[i]) = <<":">> \o v
  BY DEF Source, NameTokens
<1>4. v \in Seq(Letter)
  BY TokenTypes, TextAssumption
<1>5. /\ y \in ScanState /\ ~y.quote /\ y.param /\ y.name = v /\ y.pindex = x.pindex + 1
      /\ y.out = Append(x.out, "?") /\ y.names = x.names
  BY <1>2, <1>4, NameScanned
<1>6. x.names = NamePlaces(i - 1) /\ x.pindex + 1 = Ordinal(i) /\ x.out = out /\ x.pindex \in Int
  BY <1>1, <1>2 DEF Boundary, Settled, ScanState
<1> HIDE DEF y
<1>7. Settled(y) = {d \in NamePlaces(i - 1) : d.name # v} \cup {e}
  BY <1>5, <1>6 DEF Settled, EndedNames
<1>8. \A d \in NamePlaces(i - 1) : d.name # v
  <2> SUFFICES ASSUME NEW j \in NameTokens, j <= i - 1 PROVE tokens[j].v # v
    BY DEF NamePlaces
  <2>1. j # i
    BY <1>1
  <2> QED BY <2>1 DEF WellFormed
<1>9. Settled(y) = NamePlaces(i)
  <2>1. Settled(y) = NamePlaces(i - 1) \cup {e}
    BY <1>7, <1>8
  <2> QED BY <2>1, NamePlacesGrow
<1>10. y.pindex + 1 = Ordinal(i + 1)
  <2>1. Ordinal(i + 1) = Ordinal(i) + 1
    BY <1>1, OrdinalNext
  <2> QED BY <1>5, <1>6, <2>1
<1>11. y.out = out \o <<"?">>
  <2>1. "?" \in Char
    BY DEF Char
  <2>2. Append(out, "?") = out \o <<"?">>
    BY <2>1, AppendIsConcat DEF CharSeq
  <2> QED BY <1>5, <1>6, <2>2
<1>12. Boundary(y, i, out \o <<"?">>)
  BY <1>5, <1>9, <1>10, <1>11 DEF Boundary
<1> QED BY <1>3, <1>12 DEF y

LEMMA TokenBoundary ==
  ASSUME tokens \in Seq(Token), WellFormed, NEW i \in 1..Len(tokens),
         NEW x, NEW out \in CharSeq, Boundary(x, i - 1, out)
  PROVE  Boundary(Scanning(x, Source(tokens[i])), i, out \o Rewritten[i])
<1> DEFINE t == tokens[i]
           y == Scanning(x, Source(t))
<1>1. t \in Token /\ DOMAIN tokens = 1..Len(tokens)
  BY TokenTypes
<1>2. x \in ScanState /\ ~x.quote
  BY DEF Boundary
<1>3. Rewritten[i] = IF i \in NameTokens THEN <<"?">> ELSE Source(t)
  BY <1>1 DEF Rewritten
<1>4. CASE t.k = "name"
  <2>1. i \in NameTokens
    BY <1>1, <1>4 DEF NameTokens
  <2> QED BY <1>3, <2>1, NameBoundary
<1>5. CASE t.k = "literal"
  <2>1. i \notin NameTokens
    BY <1>5 DEF NameTokens
  <2>2. t.v \in Literal /\ Source(t) = Quoted(t.v)
    BY <1>1, <1>5 DEF Token, Source
  <2>3. Kept(x, y, Source(t)) /\ ~y.quote /\ ~y.param
    BY <1>2, <2>2, LiteralScanned
  <2> HIDE DEF y
  <2>4. Boundary(y, i, out \o Source(t))
    BY <2>1, <2>3, KeptBoundary
  <2> QED BY <1>3, <2>1, <2>4 DEF y
<1>6. CASE t.k = "plain"
  <2>1. i \notin NameTokens
    BY <1>6 DEF NameTokens
  <2>2. t.v \in {<<" ">>, <<"?">>} /\ Source(t) = t.v
    BY <1>1, <1>6 DEF Token, Source
  <2>3. CASE t.v = <<" ">>
    <3>1. Kept(x, y, Source(t)) /\ ~y.quote /\ ~y.param
      BY <1>2, <2>2, <2>3, BlankScanned
    <3> HIDE DEF y
    <3>2. Boundary(y, i, out \o Source(t))
      BY <2>1, <3>1, KeptBoundary
    <3> QED BY <1>3, <2>1, <3>2 DEF y
  <2>4. CASE t.v = <<"?">>
    <3>1. NameTokens = {}
      BY <1>1, <1>6, <2>4 DEF WellFormed
    <3>2. ~x.param
      BY <3>1 DEF Boundary
    <3>3. /\ y \in ScanState /\ ~y.quote /\ ~y.param
          /\ y.out = Append(x.out, "?") /\ y.names = x.names
      BY <1>2, <2>2, <2>4, <3>2, MarkScanned
    <3> HIDE DEF y
    <3>4. Settled(y) = NamePlaces(i)
      <4>1. Settled(y) = Settled(x)
        BY <3>2, <3>3 DEF Settled
      <4>2. NamePlaces(i) = NamePlaces(i - 1)
        BY <2>1, NamePlacesGrow
      <4> QED BY <4>1, <4>2 DEF Boundary
    <3>5. y.out = out \o <<"?">>
      <4>1. "?" \in Char
        BY DEF Char
      <4>2. Append(out, "?") = out \o <<"?">>
        BY <4>1, AppendIsConcat DEF CharSeq
      <4> QED BY <3>3, <4>2 DEF Boundary
    <3>6. Boundary(y, i, out \o <<"?">>)
      BY <3>1, <3>3, <3>4, <3>5 DEF Boundary
    <3> QED BY <1>3, <2>1, <2>2, <2>4, <3>6 DEF y
  <2> QED BY <2>2, <2>3, <2>4
<1> QED BY <1>1, <1>4, <1>5, <1>6 DEF Token

\* What prepare finds in a well-formed text.
LEMMA RewritingIsRight ==
  ASSUME tokens \in Seq(Token), WellFormed
  PROVE  LET x == Scanned(TextOf(tokens)) IN
           /\ x \in ScanState
           /\ x.out = Append(FlattenSeq(Rewritten), "NUL")
           /\ x.names = NamePlaces(Len(tokens))
           /\ NameTokens # {} => x.pindex + 1 = Ordinal(Len(tokens) + 1)
<1> DEFINE n == Len(tokens)
           ss == [i \in DOMAIN tokens |-> Source(tokens[i])]
           rs == Rewritten
           start == ScanStart
           nul == "NUL"
<1>1. n \in Nat /\ DOMAIN tokens = 1..n /\ \A i \in 1..n : tokens[i] \in Token
  BY TokenTypes
<1>2. \A i \in 1..n : Source(tokens[i]) \in CharSeq
  BY <1>1, SourceType
<1>3. <<"?">> \in CharSeq /\ nul \in Char /\ nul = "NUL" /\ nul \in {" ", "NUL"}
  BY DEF CharSeq, Char
<1>4. ss \in Seq(CharSeq) /\ Len(ss) = n /\ \A i \in 1..n : ss[i] = Source(tokens[i])
  BY <1>1, <1>2
<1>5. rs \in Seq(CharSeq) /\ Len(rs) = n /\ \A i \in 1..n : rs[i] \in CharSeq
  BY <1>1, <1>2, <1>3 DEF Rewritten
<1>6. TextOf(tokens) = FlattenSeq(ss)
  BY DEF TextOf
<1>7. start \in ScanState
  BY DEF ScanStart, ScanState, CharSeq, ScanNames
<1>8. Boundary(start, 0, <<>>)
  <2>1. NameTokens \in SUBSET (1..n)
    BY TokenTypes
  <2>2. \A j \in NameTokens : j \in Nat /\ j # 0
    BY <1>1, <2>1
  <2>3. NamePlaces(0) = {}
    BY <2>2 DEF NamePlaces
  <2>4. Ordinal(0 + 1) = 0
    <3>1. {j \in NameTokens : j < 0 + 1} = {}
      BY <2>2
    <3> QED BY <3>1, FS_EmptySet DEF Ordinal
  <2>5. /\ start.quote = FALSE /\ start.param = FALSE /\ start.pindex = -1
        /\ start.out = <<>> /\ start.names = {}
    BY DEF ScanStart
  <2> HIDE DEF start
  <2> QED BY <1>7, <2>3, <2>4, <2>5 DEF Boundary, Settled
<1> HIDE DEF n, ss, rs, start, nul
<1>9. PICK f : Concatenates(f, ss, CharSeq)
  BY <1>4, FlattenSteps DEF CharSeq
<1>10. PICK g : Concatenates(g, rs, CharSeq)
  BY <1>5, FlattenSteps DEF CharSeq
<1>11. f \in [0..n -> CharSeq] /\ f[0] = <<>> /\ f[n] = FlattenSeq(ss) /\ \A i \in 1..n : f[i] = f[i-1] \o ss[i]
  BY <1>4, <1>9 DEF Concatenates
<1>12. g \in [0..n -> CharSeq] /\ g[0] = <<>> /\ g[n] = FlattenSeq(rs) /\ \A i \in 1..n : g[i] = g[i-1] \o rs[i]
  BY <1>5, <1>10 DEF Concatenates
<1> DEFINE S == {i \in Nat : i <= n => Boundary(Scanning(start, f[i]), i, g[i])}
<1>13. 0 \in S
  BY <1>7, <1>8, <1>11, <1>12, ScanningEmpty
<1>14. ASSUME NEW i \in Nat, i \in S PROVE i + 1 \in S
  <2> SUFFICES ASSUME i + 1 <= n PROVE Boundary(Scanning(start, f[i + 1]), i + 1, g[i + 1])
    OBVIOUS
  <2> DEFINE k == i + 1
             x == Scanning(start, f[i])
  <2>1. k \in 1..n /\ k - 1 = i /\ i \in 0..n
    BY <1>1
  <2>2. f[i] \in CharSeq /\ g[i] \in CharSeq /\ f[k] = f[i] \o ss[k] /\ g[k] = g[i] \o rs[k]
    BY <1>11, <1>12, <2>1
  <2>3. Boundary(x, k - 1, g[i])
    BY <1>1, <1>14, <2>1
  <2>4. ss[k] = Source(tokens[k]) /\ ss[k] \in CharSeq
    BY <1>2, <1>4, <2>1
  <2> HIDE DEF k
  <2>5. Scanning(start, f[k]) = Scanning(x, ss[k])
    BY <1>7, <2>2, <2>4, ScanningConcat
  <2> HIDE DEF x
  <2>6. Boundary(Scanning(x, Source(tokens[k])), k, g[i] \o Rewritten[k])
    BY <2>1, <2>2, <2>3, TokenBoundary DEF n
  <2> QED BY <2>2, <2>4, <2>5, <2>6 DEF k, rs
<1> HIDE DEF S
<1>15. n \in S
  BY <1>1, <1>13, <1>14, SetInduction
<1> DEFINE text == FlattenSeq(ss)
           x == Scanning(start, text)
           y == Scanning(x, <<nul>>)
<1>16. Boundary(x, n, FlattenSeq(rs)) /\ text \in CharSeq /\ FlattenSeq(rs) \in CharSeq
  <2>1. n \in 0..n
    BY <1>1
  <2>2. f[n] \in CharSeq /\ g[n] \in CharSeq
    BY <1>11, <1>12, <2>1
  <2>3. Boundary(Scanning(start, f[n]), n, g[n])
    BY <1>1, <1>15 DEF S
  <2> QED BY <1>11, <1>12, <2>2, <2>3
<1> HIDE DEF text
<1>17. Scanned(TextOf(tokens)) = y
  <2>1. Scanned(TextOf(tokens)) = Scanning(start, Append(text, nul))
    BY <1>3, <1>6 DEF Scanned, text, start
  <2>2. Scanning(start, Append(text, nul)) = Scan(x, nul)
    BY <1>3, <1>7, <1>16, ScanningAppend
  <2>3. x \in ScanState
    BY <1>16 DEF Boundary
  <2> HIDE DEF x
  <2>4. Scanning(x, <<nul>>) = Scan(x, nul)
    BY <1>3, <2>3, OneCharacter
  <2> QED BY <2>1, <2>2, <2>4 DEF x
<1>18. /\ x \in ScanState /\ ~x.quote /\ x.out = FlattenSeq(rs)
       /\ Settled(x) = NamePlaces(n) /\ (NameTokens # {} => x.pindex + 1 = Ordinal(n + 1))
  BY <1>16 DEF Boundary
<1> HIDE DEF x
<1>19. Kept(x, y, <<nul>>) /\ ~y.quote /\ ~y.param
  BY <1>3, <1>18, BlankScanned
<1> HIDE DEF y
<1>20. y.names = NamePlaces(n)
  BY <1>18, <1>19 DEF Kept, Settled
<1>21. y.out = Append(FlattenSeq(rs), nul)
  <2>1. Append(FlattenSeq(rs), nul) = FlattenSeq(rs) \o <<nul>>
    BY <1>3, <1>16, AppendIsConcat DEF CharSeq
  <2> QED BY <1>18, <1>19, <2>1 DEF Kept
<1>22. y \in ScanState /\ (NameTokens # {} => y.pindex + 1 = Ordinal(n + 1))
  BY <1>18, <1>19 DEF Kept
<1> QED BY <1>3, <1>17, <1>20, <1>21, <1>22 DEF n, rs

-----------------------------------------------------------------------------
\* Which name is at which place, and that its value is the one bound last.
TextInv ==
  /\ tokens \in Seq(Token)
  /\ sql # <<>> /\ WellFormed =>
       /\ sql = Append(FlattenSeq(Rewritten), "NUL")
       /\ names = NamePlaces(Len(tokens))
       /\ \A i \in NameTokens :
            /\ Ordinal(i) \in DOMAIN places
            /\ tokens[i].v \in DOMAIN last
            /\ places[Ordinal(i)] = last[tokens[i].v]

LEMMA TextInitInv == TextInit => TextInv
<1> SUFFICES ASSUME TextInit PROVE TextInv
  OBVIOUS
<1>1. tokens \in Seq(Token)
  <2>1. PICK m \in 0..MaxToken : tokens \in [1..m -> Token]
    BY DEF TextInit, BoundedSeq, SeqOf
  <2>2. m \in Nat
    <3>1. MaxToken \in Nat
      BY TextAssumption
    <3> QED BY <3>1
  <2> QED BY <2>1, <2>2
<1> QED BY <1>1 DEF TextInit, TextInv

LEMMA PrepareTextInv == TextInv /\ PrepareText => TextInv'
<1> SUFFICES ASSUME TextInv, PrepareText PROVE TextInv'
  OBVIOUS
<1> DEFINE x == Scanned(TextOf(tokens))
<1>1. /\ tokens' = tokens /\ sql' = x.out /\ names' = x.names
      /\ places' = [i \in 0..x.pindex |-> "unset"]
      /\ last' = [n \in {e.name : e \in x.names} |-> "unset"]
  BY DEF PrepareText
<1>2. tokens \in Seq(Token) /\ tokens' \in Seq(Token)
  BY <1>1 DEF TextInv
<1>3. /\ WellFormed' = WellFormed /\ NameTokens' = NameTokens /\ Rewritten' = Rewritten
      /\ NamePlaces(Len(tokens))' = NamePlaces(Len(tokens))
      /\ \A i : Ordinal(i)' = Ordinal(i)
  BY <1>1 DEF WellFormed, NameTokens, Rewritten, NamePlaces, Ordinal
<1>4. ASSUME WellFormed
      PROVE  /\ sql' = Append(FlattenSeq(Rewritten), "NUL")
             /\ names' = NamePlaces(Len(tokens))
             /\ \A i \in NameTokens :
                  /\ Ordinal(i) \in DOMAIN places'
                  /\ tokens[i].v \in DOMAIN last'
                  /\ places'[Ordinal(i)] = last'[tokens[i].v]
  <2>1. /\ x \in ScanState /\ x.out = Append(FlattenSeq(Rewritten), "NUL")
        /\ x.names = NamePlaces(Len(tokens))
        /\ NameTokens # {} => x.pindex + 1 = Ordinal(Len(tokens) + 1)
    BY <1>2, <1>4, RewritingIsRight
  <2> HIDE DEF x
  <2>2. ASSUME NEW i \in NameTokens
        PROVE  Ordinal(i) \in 0..x.pindex /\ tokens[i].v \in {e.name : e \in x.names}
    <3>1. Len(tokens) \in Nat /\ NameTokens \in SUBSET (1..Len(tokens))
      BY <1>2, TokenTypes
    <3>2. i \in Nat /\ i <= Len(tokens) /\ i < Len(tokens) + 1 /\ Len(tokens) + 1 \in Nat
      BY <3>1
    <3>3. Ordinal(i) < Ordinal(Len(tokens) + 1)
      BY <1>2, <3>2, OrdinalGrows
    <3>4. Ordinal(i) \in Nat /\ x.pindex \in Int
      BY <1>2, <2>1, <3>2, OrdinalNext DEF ScanState
    <3>5. Ordinal(i) \in 0..x.pindex
      BY <2>1, <3>3, <3>4
    <3> DEFINE d == [name |-> tokens[i].v, index |-> Ordinal(i)]
    <3>6. d \in x.names /\ d.name = tokens[i].v
      BY <2>1, <3>2 DEF NamePlaces
    <3> HIDE DEF d
    <3>7. tokens[i].v \in {e.name : e \in x.names}
      BY <3>6
    <3> QED BY <3>5, <3>7
  <2>3. ASSUME NEW i \in NameTokens
        PROVE  /\ Ordinal(i) \in DOMAIN places'
               /\ tokens[i].v \in DOMAIN last'
               /\ places'[Ordinal(i)] = last'[tokens[i].v]
    BY <1>1, <2>2
  <2> QED BY <1>1, <2>1, <2>3
<1>5. tokens' = tokens
  BY <1>1
<1> QED BY <1>2, <1>3, <1>4, <1>5 DEF TextInv

LEMMA BindByNameInv == ASSUME NEW v \in Bound PROVE TextInv /\ BindByName(v) => TextInv'
<1> SUFFICES ASSUME TextInv, BindByName(v) PROVE TextInv'
  OBVIOUS
<1>1. PICK e \in names : /\ places' = [places EXCEPT ![e.index] = v]
                        /\ last' = [last EXCEPT ![e.name] = v]
  BY DEF BindByName
<1>2. tokens' = tokens /\ sql' = sql /\ names' = names
  BY DEF BindByName
<1>3. tokens \in Seq(Token) /\ tokens' \in Seq(Token)
  BY <1>2 DEF TextInv
<1>4. /\ WellFormed' = WellFormed /\ NameTokens' = NameTokens /\ Rewritten' = Rewritten
      /\ NamePlaces(Len(tokens))' = NamePlaces(Len(tokens))
      /\ \A i : Ordinal(i)' = Ordinal(i)
  BY <1>2 DEF WellFormed, NameTokens, Rewritten, NamePlaces, Ordinal
<1>5. ASSUME sql # <<>>, WellFormed, NEW i \in NameTokens
      PROVE  /\ Ordinal(i) \in DOMAIN places'
             /\ tokens[i].v \in DOMAIN last'
             /\ places'[Ordinal(i)] = last'[tokens[i].v]
  <2>1. /\ Ordinal(i) \in DOMAIN places /\ tokens[i].v \in DOMAIN last
        /\ places[Ordinal(i)] = last[tokens[i].v]
    BY <1>5 DEF TextInv
  <2>2. PICK j \in NameTokens : e.name = tokens[j].v /\ e.index = Ordinal(j)
    BY <1>1, <1>5 DEF TextInv, NamePlaces
  <2>3. i \in Nat /\ j \in Nat
    <3> DEFINE n == Len(tokens)
    <3>1. n \in Nat /\ NameTokens \in SUBSET (1..n)
      BY <1>3, TokenTypes
    <3> HIDE DEF n
    <3> QED BY <3>1
  <2>4. CASE i = j
    BY <1>1, <2>1, <2>2, <2>4
  <2>5. CASE i # j
    <3>1. tokens[i].v # e.name
      BY <1>5, <2>2, <2>5 DEF WellFormed
    <3>2. Ordinal(i) # e.index
      <4>1. Ordinal(i) \in Nat /\ Ordinal(j) \in Nat
        BY <1>3, <2>3, OrdinalNext
      <4>2. i < j => Ordinal(i) < Ordinal(j)
        BY <1>3, <2>3, OrdinalGrows
      <4>3. j < i => Ordinal(j) < Ordinal(i)
        BY <1>3, <2>3, OrdinalGrows
      <4> QED BY <2>2, <2>3, <2>5, <4>1, <4>2, <4>3
    <3> QED BY <1>1, <2>1, <3>1, <3>2
  <2> QED BY <2>4, <2>5
<1> QED BY <1>2, <1>3, <1>4, <1>5 DEF TextInv

\* NamesFindTheirPlace, for the rewriting loop of nuodb_alloc_prepare_stmt, the
\* quoter and the parameter hook: a literal is copied as it was quoted, a name
\* becomes one mark, and its value is set at the place of that mark.
THEOREM NamesArePlaced == TextSpec => []NamesFindTheirPlace
<1>1. TextInit => TextInv
  BY TextInitInv
<1>2. TextInv /\ [TextNext]_textVars => TextInv'
  <2> SUFFICES ASSUME TextInv, [TextNext]_textVars PROVE TextInv'
    OBVIOUS
  <2>1. CASE PrepareText
    BY <2>1, PrepareTextInv
  <2>2. ASSUME NEW v \in Bound, BindByName(v) PROVE TextInv'
    BY <2>2, BindByNameInv
  <2>3. CASE UNCHANGED textVars
    <3>1. tokens' = tokens /\ sql' = sql /\ names' = names /\ places' = places /\ last' = last
      BY <2>3 DEF textVars
    <3>2. /\ WellFormed' = WellFormed /\ NameTokens' = NameTokens /\ Rewritten' = Rewritten
          /\ NamePlaces(Len(tokens))' = NamePlaces(Len(tokens))
          /\ \A i : Ordinal(i)' = Ordinal(i)
      BY <3>1 DEF WellFormed, NameTokens, Rewritten, NamePlaces, Ordinal
    <3> QED BY <3>1, <3>2 DEF TextInv
  <2> QED BY <2>1, <2>2, <2>3 DEF TextNext
<1>3. TextInv => NamesFindTheirPlace
  BY DEF TextInv, NamesFindTheirPlace
<1> QED BY <1>1, <1>2, <1>3, PTL DEF TextSpec

=============================================================================
