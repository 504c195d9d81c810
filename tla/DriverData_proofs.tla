-------------------------- MODULE DriverData_proofs --------------------------
(* What is proved of the parameter collection of the .NET provider, for any  *)
(* parameters, names and length of the list, of the rows of the Node.js      *)
(* driver, for any number of rows of a result, of results and connections,   *)
(* of values on their way in and out, for any numbers and integer widths,    *)
(* and, with SqlText_proofs, of the four together.                           *)
EXTENDS DriverData, SqlText_proofs

NamesInv == ParametersTypeOK /\ NamesAreUnique

-----------------------------------------------------------------------------
\* What the calls make of a sequence, position by position.
LEMMA InsertedAt ==
  ASSUME NEW S, NEW s \in Seq(S), NEW i \in 1..Len(s), NEW e \in S
  PROVE  /\ InsertAt(s, i, e) \in Seq(S)
         /\ Len(InsertAt(s, i, e)) = Len(s) + 1
         /\ \A j \in 1..(Len(s) + 1) :
              InsertAt(s, i, e)[j] = IF j < i THEN s[j] ELSE IF j = i THEN e ELSE s[j - 1]
BY DEF InsertAt

LEMMA RemovedAt ==
  ASSUME NEW S, NEW s \in Seq(S), NEW i \in 1..Len(s)
  PROVE  /\ RemoveAt(s, i) \in Seq(S)
         /\ Len(RemoveAt(s, i)) = Len(s) - 1
         /\ \A j \in 1..(Len(s) - 1) :
              RemoveAt(s, i)[j] = IF j < i THEN s[j] ELSE s[j + 1]
<1> DEFINE a == SubSeq(s, 1, i - 1)
           b == SubSeq(s, i + 1, Len(s))
<1>1. a \in Seq(S) /\ Len(a) = i - 1 /\ \A j \in 1..(i - 1) : a[j] = s[j]
  OBVIOUS
<1>2. b \in Seq(S) /\ Len(b) = Len(s) - i /\ \A j \in 1..(Len(s) - i) : b[j] = s[i + j]
  <2>1. CASE i = Len(s)
    <3>1. b = <<>>
      BY <2>1
    <3> QED BY <2>1, <3>1
  <2>2. CASE i < Len(s)
    BY <2>2
  <2> QED BY <2>1, <2>2
<1>3. RemoveAt(s, i) = a \o b
  BY DEF RemoveAt
<1> HIDE DEF a, b
<1>4. /\ a \o b \in Seq(S) /\ Len(a \o b) = Len(a) + Len(b)
      /\ \A j \in 1..(Len(a) + Len(b)) : (a \o b)[j] = IF j <= Len(a) THEN a[j] ELSE b[j - Len(a)]
  <2>1. a \in Seq(S) /\ b \in Seq(S)
    BY <1>1, <1>2
  <2> QED BY <2>1, ConcatProperties
<1>5. Len(a) = i - 1 /\ Len(a) + Len(b) = Len(s) - 1
  BY <1>1, <1>2
<1>6. ASSUME NEW j \in 1..(Len(s) - 1)
      PROVE  (a \o b)[j] = IF j < i THEN s[j] ELSE s[j + 1]
  <2>1. (a \o b)[j] = IF j <= i - 1 THEN a[j] ELSE b[j - (i - 1)]
    <3>1. j \in 1..(Len(a) + Len(b))
      BY <1>5
    <3>2. (a \o b)[j] = IF j <= Len(a) THEN a[j] ELSE b[j - Len(a)]
      BY <1>4, <3>1
    <3> QED BY <1>5, <3>2
  <2>2. CASE j < i
    BY <1>1, <2>1, <2>2
  <2>3. CASE j >= i
    <3>1. j - (i - 1) \in 1..(Len(s) - i) /\ i + (j - (i - 1)) = j + 1
      BY <2>3
    <3> QED BY <1>2, <2>1, <2>3, <3>1
  <2>4. Len(s) \in Nat /\ (j < i \/ j >= i) /\ ~(j < i /\ j >= i)
    OBVIOUS
  <2> QED BY <2>2, <2>3, <2>4
<1> QED BY <1>3, <1>4, <1>5, <1>6

-----------------------------------------------------------------------------
\* A parameter that may enter has a name of its own.
LEMMA EntersAlone ==
  ASSUME NEW p \in Param, MayEnter(p)
  PROVE  field[p].name # NoName /\ \A i \in DOMAIN list : field[list[i]].name # field[p].name
BY DEF MayEnter, NameIsTaken, HasName

\* Removal keeps what is unique unique.
LEMMA RemovalKeepsNames ==
  ASSUME NamesInv, NEW i \in DOMAIN list, list' = RemoveAt(list, i), UNCHANGED <<field, collided>>
  PROVE  NamesInv'
<1>1. i \in 1..Len(list) /\ list \in Seq(Param)
  BY DEF NamesInv, ParametersTypeOK
<1>2. /\ list' \in Seq(Param) /\ Len(list') = Len(list) - 1
      /\ \A j \in 1..(Len(list) - 1) : list'[j] = IF j < i THEN list[j] ELSE list[j + 1]
  BY <1>1, RemovedAt
<1>3. ParametersTypeOK'
  BY <1>2 DEF NamesInv, ParametersTypeOK
<1>4. \A j \in DOMAIN list' : \E k \in DOMAIN list : list'[j] = list[k] /\ k = IF j < i THEN j ELSE j + 1
  BY <1>1, <1>2
<1>5. \A j \in DOMAIN list' : ~HasName(j, NoName)'
  BY <1>4 DEF NamesInv, NamesAreUnique, HasName
<1>6. ASSUME ~collided', NEW j \in DOMAIN list', NEW k \in DOMAIN list', HasName(j, field[list[k]].name)'
      PROVE  j = k
  <2>1. PICK j1 \in DOMAIN list : list'[j] = list[j1] /\ j1 = IF j < i THEN j ELSE j + 1
    BY <1>4
  <2>2. PICK k1 \in DOMAIN list : list'[k] = list[k1] /\ k1 = IF k < i THEN k ELSE k + 1
    BY <1>4
  <2>3. j1 = k1
    BY <1>6, <2>1, <2>2 DEF NamesInv, NamesAreUnique, HasName
  <2> QED BY <1>1, <1>2, <2>1, <2>2, <2>3
<1> QED BY <1>3, <1>5, <1>6 DEF NamesInv, NamesAreUnique

\* So does a new one at any place.
LEMMA InsertionKeepsNames ==
  ASSUME NamesInv, NEW p \in Param, MayEnter(p), UNCHANGED <<field, collided>>,
         NEW i \in 1..(Len(list) + 1),
         list' \in Seq(Param), Len(list') = Len(list) + 1,
         \A j \in 1..(Len(list) + 1) :
           list'[j] = IF j < i THEN list[j] ELSE IF j = i THEN p ELSE list[j - 1]
  PROVE  NamesInv'
<1>1. list \in Seq(Param) /\ Len(list) \in Nat
  BY DEF NamesInv, ParametersTypeOK
<1>2. ParametersTypeOK'
  BY DEF NamesInv, ParametersTypeOK
<1>3. \A j \in DOMAIN list' :
        \/ j = i /\ list'[j] = p
        \/ j # i /\ \E k \in DOMAIN list : list'[j] = list[k] /\ k = IF j < i THEN j ELSE j - 1
  BY <1>1
<1>4. field[p].name # NoName /\ \A j \in DOMAIN list : field[list[j]].name # field[p].name
  BY EntersAlone
<1>5. \A j \in DOMAIN list' : ~HasName(j, NoName)'
  BY <1>3, <1>4 DEF NamesInv, NamesAreUnique, HasName
<1>6. ASSUME ~collided', NEW j \in DOMAIN list', NEW k \in DOMAIN list', HasName(j, field[list[k]].name)'
      PROVE  j = k
  <2>0. field[list'[j]].name = field[list'[k]].name
    BY <1>6 DEF HasName
  <2>1. CASE j = i /\ k # i
    BY <1>3, <1>4, <2>0, <2>1
  <2>2. CASE j # i /\ k = i
    BY <1>3, <1>4, <2>0, <2>2
  <2>3. CASE j # i /\ k # i
    <3>1. PICK j1 \in DOMAIN list : list'[j] = list[j1] /\ j1 = IF j < i THEN j ELSE j - 1
      BY <1>3, <2>3
    <3>2. PICK k1 \in DOMAIN list : list'[k] = list[k1] /\ k1 = IF k < i THEN k ELSE k - 1
      BY <1>3, <2>3
    <3>3. j1 = k1
      BY <1>6, <2>0, <3>1, <3>2 DEF NamesInv, NamesAreUnique, HasName
    <3> QED BY <1>1, <2>3, <3>1, <3>2, <3>3
  <2> QED BY <2>1, <2>2, <2>3
<1> QED BY <1>2, <1>5, <1>6 DEF NamesInv, NamesAreUnique

\* The end of the list is a place like another.
LEMMA AppendKeepsNames ==
  ASSUME NamesInv, NEW p \in Param, MayEnter(p), list' = Append(list, p),
         UNCHANGED <<field, collided>>
  PROVE  NamesInv'
<1>1. list \in Seq(Param) /\ Len(list) \in Nat
  BY DEF NamesInv, ParametersTypeOK
<1>2. /\ list' \in Seq(Param) /\ Len(list') = Len(list) + 1
      /\ Len(list) + 1 \in 1..(Len(list) + 1)
      /\ \A j \in 1..(Len(list) + 1) :
           list'[j] = IF j < Len(list) + 1 THEN list[j]
                      ELSE IF j = Len(list) + 1 THEN p ELSE list[j - 1]
  BY <1>1
<1> QED BY <1>2, InsertionKeepsNames

\* And so does the replacement of a parameter by one with its own name, or with
\* a name nobody in the list has.
LEMMA ReplacementKeepsNames ==
  ASSUME NamesInv, NEW p \in Param, NEW i \in DOMAIN list,
         field[p].name = field[list[i]].name \/ MayEnter(p),
         list' = [list EXCEPT ![i] = p], UNCHANGED <<field, collided>>
  PROVE  NamesInv'
<1>1. list \in Seq(Param) /\ list' \in Seq(Param) /\ DOMAIN list' = DOMAIN list
  BY DEF NamesInv, ParametersTypeOK
<1>2. list'[i] = p /\ \A j \in DOMAIN list : j # i => list'[j] = list[j]
  BY <1>1
<1>3. ParametersTypeOK'
  BY <1>1 DEF NamesInv, ParametersTypeOK
<1>4. field[p].name # NoName
  BY EntersAlone DEF NamesInv, NamesAreUnique, HasName
<1>5. \A j \in DOMAIN list' : ~HasName(j, NoName)'
  BY <1>1, <1>2, <1>4 DEF NamesInv, NamesAreUnique, HasName
<1>6. ~collided => \A j \in DOMAIN list : j # i => field[list[j]].name # field[p].name
  BY EntersAlone DEF NamesInv, NamesAreUnique, HasName
<1>7. ASSUME ~collided', NEW j \in DOMAIN list', NEW k \in DOMAIN list', HasName(j, field[list[k]].name)'
      PROVE  j = k
  <2>1. field[list'[j]].name = field[list'[k]].name /\ ~collided
    BY <1>7 DEF HasName
  <2>2. CASE j # i /\ k # i
    BY <1>1, <1>2, <2>1, <2>2 DEF NamesInv, NamesAreUnique, HasName
  <2>3. CASE j = i \/ k = i
    BY <1>1, <1>2, <1>6, <2>1, <2>3
  <2> QED BY <2>2, <2>3
<1> QED BY <1>3, <1>5, <1>7 DEF NamesInv, NamesAreUnique

\* A parameter that is given a name: when another one in the list has it, the
\* step is the collision.
LEMMA RenamingKeepsNames ==
  ASSUME NamesInv, NEW p \in Param, NEW n \in Name, SetName(p, n)
  PROVE  NamesInv'
<1>1. /\ n # NoName /\ n \in Name \cup {NoName}
      /\ list' = list /\ list \in Seq(Param) /\ field \in [Param -> FieldType]
      /\ field' = [field EXCEPT ![p].name = n]
  BY ParameterAssumption DEF SetName, NamesInv, ParametersTypeOK
<1>2. field' \in [Param -> FieldType]
  BY <1>1 DEF FieldType
<1>3. \A q \in Param : field'[q].name = IF q = p THEN n ELSE field[q].name
  BY <1>1 DEF FieldType
<1>4. \A i \in DOMAIN list : list[i] \in Param
  BY <1>1
<1>5. collided' \in BOOLEAN
  BY DEF SetName
<1>6. \A j \in DOMAIN list' : ~HasName(j, NoName)'
  BY <1>1, <1>3, <1>4 DEF NamesInv, NamesAreUnique, HasName
<1>7. ASSUME ~collided', NEW j \in DOMAIN list', NEW k \in DOMAIN list', HasName(j, field[list[k]].name)'
      PROVE  j = k
  <2>1. /\ ~collided /\ field'[list[j]].name = field'[list[k]].name
        /\ j \in DOMAIN list /\ k \in DOMAIN list /\ list[j] \in Param /\ list[k] \in Param
    BY <1>1, <1>4, <1>7 DEF SetName, HasName
  <2>2. \A i, l \in DOMAIN list : field[list[i]].name = field[list[l]].name => i = l
    BY <2>1 DEF NamesInv, NamesAreUnique, HasName
  <2>3. CASE list[j] = list[k]
    BY <2>1, <2>2, <2>3
  <2>4. CASE list[j] # p /\ list[k] # p
    BY <1>3, <2>1, <2>2, <2>4
  <2>5. CASE list[j] = p /\ list[k] # p
    BY <1>3, <1>7, <2>1, <2>5 DEF SetName, Held, HasName
  <2>6. CASE list[j] # p /\ list[k] = p
    BY <1>3, <1>7, <2>1, <2>6 DEF SetName, Held, HasName
  <2> QED BY <2>3, <2>4, <2>5, <2>6
<1> QED BY <1>1, <1>2, <1>5, <1>6, <1>7 DEF NamesInv, NamesAreUnique, ParametersTypeOK

\* The names do not change, nor the list.
LEMMA OtherFieldsKeepNames ==
  ASSUME NamesInv, UNCHANGED <<list, collided>>, field' \in [Param -> FieldType],
         \A q \in Param : field'[q].name = field[q].name
  PROVE  NamesInv'
<1>1. \A i \in DOMAIN list : field'[list[i]].name = field[list[i]].name
  BY DEF NamesInv, ParametersTypeOK
<1> QED BY <1>1 DEF NamesInv, NamesAreUnique, ParametersTypeOK, HasName

\* Add(name, type): a new parameter, in no list, is named and put at the end.
LEMMA NamedAdditionKeepsNames ==
  ASSUME NamesInv, NEW p \in Param, NEW n \in Name, NEW t \in Type \cup {"String"}, AddNamed(p, n, t)
  PROVE  NamesInv'
<1>1. /\ n # NoName /\ n \in Name \cup {NoName}
      /\ list \in Seq(Param) /\ Len(list) \in Nat /\ field \in [Param -> FieldType]
      /\ field' = [field EXCEPT ![p].name = n, ![p].type = t, ![p].version = "Current"]
      /\ list' = Append(list, p) /\ collided' = collided
  BY ParameterAssumption DEF AddNamed, NamesInv, ParametersTypeOK
<1>2. field' \in [Param -> FieldType]
  <2>1. [field[p] EXCEPT !.name = n, !.type = t, !.version = "Current"] \in FieldType
    <3>1. field[p] \in FieldType /\ n \in Name \cup {NoName} /\ t \in Type \cup {"String"}
      BY <1>1
    <3> QED BY <3>1 DEF FieldType
  <2> QED BY <1>1, <2>1
<1>3. field'[p].name = n /\ \A q \in Param : q # p => field'[q] = field[q]
  BY <1>1 DEF FieldType
<1>4. /\ list' \in Seq(Param) /\ Len(list') = Len(list) + 1
      /\ list'[Len(list) + 1] = p /\ \A j \in 1..Len(list) : list'[j] = list[j]
  BY <1>1
<1>5. \A j \in 1..Len(list) :
        /\ list'[j] \in Param /\ list'[j] # p
        /\ field'[list'[j]].name = field[list[j]].name /\ field[list[j]].name # n
  BY <1>1, <1>3, <1>4 DEF AddNamed, Held, NameIsTaken, HasName
<1>6. \A j \in 1..(Len(list) + 1) : j # Len(list) + 1 => j \in 1..Len(list)
  BY <1>1
<1>7. \A j \in DOMAIN list' : ~HasName(j, NoName)'
  BY <1>1, <1>3, <1>4, <1>5, <1>6 DEF NamesInv, NamesAreUnique, HasName
<1>8. ASSUME ~collided', NEW j \in DOMAIN list', NEW k \in DOMAIN list', HasName(j, field[list[k]].name)'
      PROVE  j = k
  <2>1. field'[list'[j]].name = field'[list'[k]].name /\ j \in 1..(Len(list) + 1) /\ k \in 1..(Len(list) + 1)
    BY <1>4, <1>8 DEF HasName
  <2>2. CASE j # Len(list) + 1 /\ k # Len(list) + 1
    BY <1>1, <1>5, <1>6, <1>8, <2>1, <2>2 DEF NamesInv, NamesAreUnique, HasName
  <2>3. CASE j = Len(list) + 1 \/ k = Len(list) + 1
    BY <1>3, <1>4, <1>5, <1>6, <2>1, <2>3
  <2> QED BY <2>2, <2>3
<1> QED BY <1>1, <1>2, <1>4, <1>7, <1>8 DEF NamesInv, NamesAreUnique, ParametersTypeOK

\* AddRange of two that both enter.
LEMMA PairKeepsNames ==
  ASSUME NamesInv, NEW p \in Param, NEW q \in Param, EnterInTurn(p, q),
         list' = list \o <<p, q>>, UNCHANGED <<field, collided>>
  PROVE  NamesInv'
<1>1. list \in Seq(Param) /\ Len(list) \in Nat
  BY DEF NamesInv, ParametersTypeOK
<1>2. /\ list' \in Seq(Param) /\ Len(list') = Len(list) + 2
      /\ list'[Len(list) + 1] = p /\ list'[Len(list) + 2] = q
      /\ \A j \in 1..Len(list) : list'[j] = list[j]
  BY <1>1
<1>3. /\ field[p].name # NoName /\ field[q].name # NoName /\ field[p].name # field[q].name
      /\ \A j \in 1..Len(list) : field[list[j]].name # field[p].name /\ field[list[j]].name # field[q].name
  BY <1>1, EntersAlone DEF EnterInTurn
<1>4. \A j \in DOMAIN list' : j \in 1..Len(list) \/ j = Len(list) + 1 \/ j = Len(list) + 2
  BY <1>1, <1>2
<1>5. \A j \in DOMAIN list' : ~HasName(j, NoName)'
  BY <1>1, <1>2, <1>3, <1>4 DEF NamesInv, NamesAreUnique, HasName
<1>6. ASSUME ~collided', NEW j \in DOMAIN list', NEW k \in DOMAIN list', HasName(j, field[list[k]].name)'
      PROVE  j = k
  <2>1. field[list'[j]].name = field[list'[k]].name
    BY <1>6 DEF HasName
  <2>2. CASE j \in 1..Len(list) /\ k \in 1..Len(list)
    <3>1. field[list[j]].name = field[list[k]].name /\ ~collided /\ j \in DOMAIN list /\ k \in DOMAIN list
      BY <1>1, <1>2, <1>6, <2>1, <2>2
    <3> QED BY <3>1 DEF NamesInv, NamesAreUnique, HasName
  <2>3. CASE ~(j \in 1..Len(list) /\ k \in 1..Len(list))
    BY <1>2, <1>3, <1>4, <2>1, <2>3
  <2> QED BY <2>2, <2>3
<1> QED BY <1>2, <1>5, <1>6 DEF NamesInv, NamesAreUnique, ParametersTypeOK

-----------------------------------------------------------------------------
\* No call of the collection gives two of its parameters one name: only the
\* application's renaming of a parameter it holds elsewhere does.
THEOREM NamesStayUnique == ParametersSpec => []NamesAreUnique
<1>1. ParametersInit => NamesInv
  <2> SUFFICES ASSUME ParametersInit PROVE NamesInv
    OBVIOUS
  <2>1. NewParameter \in FieldType
    BY DEF NewParameter, FieldType
  <2>2. list \in Seq(Param) /\ DOMAIN list = {}
    BY DEF ParametersInit
  <2>3. field \in [Param -> FieldType] /\ collided \in BOOLEAN
    BY <2>1 DEF ParametersInit
  <2> QED BY <2>2, <2>3 DEF NamesInv, NamesAreUnique, ParametersTypeOK
<1>2. NamesInv /\ [ParametersNext]_parameterVars => NamesInv'
  <2> SUFFICES ASSUME NamesInv, [ParametersNext]_parameterVars PROVE NamesInv'
    OBVIOUS
  <2>1. CASE ClearList
    BY <2>1 DEF ClearList, NamesInv, NamesAreUnique, ParametersTypeOK
  <2>2. ASSUME NEW p \in Param, AddObject(p) PROVE NamesInv'
    BY <2>2, AppendKeepsNames DEF AddObject
  <2>3. ASSUME NEW p \in Param, RemoveParameter(p) PROVE NamesInv'
    BY <2>3, RemovalKeepsNames DEF RemoveParameter
  <2>4. ASSUME NEW p \in Param, NEW q \in Param, AddRange(p, q) PROVE NamesInv'
    <3>1. CASE EnterInTurn(p, q)
      BY <2>4, <3>1, PairKeepsNames DEF AddRange
    <3>2. CASE ~EnterInTurn(p, q)
      BY <2>4, <3>2, AppendKeepsNames DEF AddRange
    <3> QED BY <3>1, <3>2
  <2>5. ASSUME NEW p \in Param, NEW n \in Name, SetName(p, n) PROVE NamesInv'
    BY <2>5, RenamingKeepsNames
  <2>6. ASSUME NEW p \in Param, NEW n \in Name, SetNamed(n, p) PROVE NamesInv'
    <3>1. PICK i \in DOMAIN list : IsIndexOf(i, n) /\ list' = [list EXCEPT ![i] = p]
      BY <2>6 DEF SetNamed
    <3>2. field[p].name = field[list[i]].name \/ MayEnter(p)
      BY <2>6, <3>1 DEF SetNamed, IsIndexOf, HasName
    <3> QED BY <2>6, <3>1, <3>2, ReplacementKeepsNames DEF SetNamed
  <2>7. ASSUME NEW p \in Param, NEW n \in Name, NEW t \in Type \cup {"String"}, AddNamed(p, n, t)
        PROVE  NamesInv'
    BY <2>7, NamedAdditionKeepsNames
  <2>8. ASSUME NEW p \in Param, NEW t \in Type \cup {"String"}, SetType(p, t) PROVE NamesInv'
    <3>1. field \in [Param -> FieldType]
      BY DEF NamesInv, ParametersTypeOK
    <3>2. field' \in [Param -> FieldType] /\ \A q \in Param : field'[q].name = field[q].name
      <4>1. [field[p] EXCEPT !.type = t, !.version = "Current"] \in FieldType
        BY <3>1 DEF FieldType
      <4> QED BY <2>8, <3>1, <4>1 DEF SetType
    <3> QED BY <2>8, <3>2, OtherFieldsKeepNames DEF SetType
  <2>9. ASSUME NEW p \in Param, NEW v \in Value \cup {"nullptr"}, SetValue(p, v) PROVE NamesInv'
    <3>1. field \in [Param -> FieldType]
      BY DEF NamesInv, ParametersTypeOK
    <3>2. field' \in [Param -> FieldType] /\ \A q \in Param : field'[q].name = field[q].name
      <4>1. [field[p] EXCEPT !.value = v, !.version = "Current"] \in FieldType
        BY <3>1 DEF FieldType
      <4> QED BY <2>9, <3>1, <4>1 DEF SetValue
    <3> QED BY <2>9, <3>2, OtherFieldsKeepNames DEF SetValue
  <2>10. ASSUME NEW p \in Param, NEW i \in 1..MaxList, InsertParameter(i, p) PROVE NamesInv'
    <3>1. list \in Seq(Param) /\ i \in 1..Len(list) /\ i \in 1..(Len(list) + 1) /\ MayEnter(p)
      BY <2>10 DEF InsertParameter, NamesInv, ParametersTypeOK
    <3>2. /\ list' \in Seq(Param) /\ Len(list') = Len(list) + 1
          /\ \A j \in 1..(Len(list) + 1) :
               list'[j] = IF j < i THEN list[j] ELSE IF j = i THEN p ELSE list[j - 1]
      <4>1. list' = InsertAt(list, i, p)
        BY <2>10 DEF InsertParameter
      <4>2. list \in Seq(Param) /\ i \in 1..Len(list) /\ p \in Param
        BY <3>1
      <4> QED BY ONLY <4>1, <4>2, InsertedAt
    <3>3. UNCHANGED <<field, collided>>
      BY <2>10 DEF InsertParameter
    <3> QED BY <3>1, <3>2, <3>3, InsertionKeepsNames
  <2>11. ASSUME NEW p \in Param, NEW i \in 1..MaxList, SetAt(i, p) PROVE NamesInv'
    BY <2>11, ReplacementKeepsNames DEF SetAt
  <2>12. ASSUME NEW i \in 1..MaxList, RemoveIndex(i) PROVE NamesInv'
    BY <2>12, RemovalKeepsNames DEF RemoveIndex
  <2>13. ASSUME NEW n \in Name, RemoveNamed(n) PROVE NamesInv'
    BY <2>13, RemovalKeepsNames DEF RemoveNamed
  <2>14. CASE UNCHANGED parameterVars
    BY <2>14 DEF parameterVars, NamesInv, NamesAreUnique, ParametersTypeOK, HasName
  <2> QED
    BY <2>1, <2>2, <2>3, <2>4, <2>5, <2>6, <2>7, <2>8, <2>9, <2>10, <2>11, <2>12, <2>13, <2>14
    DEF ParametersNext
<1>3. NamesInv => NamesAreUnique
  BY DEF NamesInv
<1> QED BY <1>1, <1>2, <1>3, PTL DEF ParametersSpec

-----------------------------------------------------------------------------
(* The rows of the Node.js driver.                                           *)
\* A result object: no row beyond the last is read.
ResultType ==
  [conn : Nat, size : Nat, read : Nat, previousRow : Nat, nextRow : Nat,
   rowNumber : Nat, live : SUBSET Nat, twice : SUBSET Nat, past : BOOLEAN]

\* What is true of the result x; read is one ahead of what was given.
Owned(x) ==
  /\ x.previousRow = x.rowNumber
  /\ x.nextRow = IF x.rowNumber = x.size THEN 0 ELSE x.rowNumber + 1
  /\ x.live = {x.previousRow, x.nextRow} \ (IF x.past THEN {0, x.size} ELSE {0})
  /\ x.twice \subseteq IF x.past THEN {x.size} ELSE {}

ReadAhead(x) ==
  /\ x.rowNumber <= x.size
  /\ x.past => x.rowNumber = x.size
  /\ x.read = IF x.rowNumber = x.size THEN x.size ELSE x.rowNumber + 1

RowInv ==
  /\ handle \in Nat /\ made \in Nat
  /\ result \in [Res -> ResultType]
  /\ \A r \in Res : Owned(result[r]) /\ ReadAhead(result[r])

-----------------------------------------------------------------------------
LEMMA NothingIsOwned == NoResult \in ResultType /\ Owned(NoResult) /\ ReadAhead(NoResult)
BY DEF NoResult, ResultType, Owned, ReadAhead

\* The constructor reads the first row ahead.
LEMMA FirstIsAhead ==
  ASSUME NEW c \in Nat, NEW n \in Nat
  PROVE  LET x == ReadRow([NoResult EXCEPT !.conn = c, !.size = n]) IN
           x \in ResultType /\ Owned(x) /\ ReadAhead(x)
<1> DEFINE x == [NoResult EXCEPT !.conn = c, !.size = n]
<1>1. /\ x \in ResultType /\ x.size = n /\ x.read = 0 /\ x.previousRow = 0 /\ x.nextRow = 0
      /\ x.rowNumber = 0 /\ x.live = {} /\ x.twice = {} /\ x.past = FALSE
  BY DEF NoResult, ResultType
<1> HIDE DEF x
<1>2. CASE n = 0
  <2>1. /\ ReadRow(x) \in ResultType /\ ReadRow(x).size = 0 /\ ReadRow(x).read = 0
        /\ ReadRow(x).previousRow = 0 /\ ReadRow(x).nextRow = 0 /\ ReadRow(x).rowNumber = 0
        /\ ReadRow(x).live = {} /\ ReadRow(x).twice = {} /\ ReadRow(x).past = FALSE
    BY <1>1, <1>2 DEF ReadRow, ResultType
  <2> QED BY <2>1 DEF Owned, ReadAhead, x
<1>3. CASE n # 0
  <2>1. /\ ReadRow(x) \in ResultType /\ ReadRow(x).size = n /\ ReadRow(x).read = 1
        /\ ReadRow(x).previousRow = 0 /\ ReadRow(x).nextRow = 1 /\ ReadRow(x).rowNumber = 0
        /\ ReadRow(x).live = {1} /\ ReadRow(x).twice = {} /\ ReadRow(x).past = FALSE
    <3>1. x.read # x.size /\ x.read + 1 = 1 /\ x.live \cup {1} = {1} /\ {1} \in SUBSET Nat /\ 1 \in Nat
      BY <1>1, <1>3
    <3>2. ReadRow(x) = [x EXCEPT !.read = 1, !.nextRow = 1, !.live = {1}]
      BY <3>1 DEF ReadRow
    <3> QED BY <1>1, <3>1, <3>2 DEF ResultType
  <2> QED BY <1>3, <2>1 DEF Owned, ReadAhead, x
<1> QED BY <1>2, <1>3

\* What freeing the row before does to a result.
LEMMA FreeingPrevious ==
  ASSUME NEW x \in ResultType, Owned(x), ReadAhead(x)
  PROVE  LET y == FreeRow(x, x.previousRow) IN
           /\ y \in ResultType
           /\ y.size = x.size /\ y.read = x.read /\ y.rowNumber = x.rowNumber
           /\ y.previousRow = x.previousRow /\ y.nextRow = x.nextRow /\ y.past = x.past
           /\ y.live = {x.nextRow} \ {0}
           /\ y.twice \subseteq IF x.past THEN {x.size} ELSE {}
<1>1. CASE x.previousRow = 0
  <2>1. FreeRow(x, x.previousRow) = x
    BY <1>1 DEF FreeRow
  <2>2. x.twice \subseteq IF x.past THEN {x.size} ELSE {}
    BY DEF Owned
  <2>3. CASE x.past
    <3>1. x.nextRow = 0 /\ x.size = 0 /\ x.live = {0, 0} \ {0, 0}
      BY <1>1, <2>3 DEF Owned, ReadAhead
    <3> QED  BY <2>1, <2>2, <3>1
  <2>4. CASE ~x.past
    <3>1. x.live = {0, x.nextRow} \ {0}
      BY <1>1, <2>4 DEF Owned
    <3> QED  BY <2>1, <2>2, <3>1
  <2> QED  BY <2>3, <2>4
<1>2. CASE x.previousRow # 0
  <2> DEFINE live == x.live \ {x.previousRow}
             twice == x.twice \cup ({x.previousRow} \ x.live)
  <2>1. x.previousRow = x.rowNumber /\ x.nextRow # x.previousRow
    BY <1>2 DEF Owned, ResultType
  <2>2. live = {x.nextRow} \ {0} /\ twice \subseteq IF x.past THEN {x.size} ELSE {}
    <3>1. CASE x.past
      <4>1. x.nextRow = 0 /\ x.previousRow = x.size /\ x.live = {} /\ x.twice \subseteq {x.size}
        BY <2>1, <3>1 DEF Owned, ReadAhead, ResultType
      <4> QED  BY <3>1, <4>1
    <3>2. CASE ~x.past
      <4>1. x.live = {x.previousRow, x.nextRow} \ {0} /\ x.twice = {}
        BY <3>2 DEF Owned
      <4> QED  BY <1>2, <2>1, <3>2, <4>1
    <3> QED  BY <3>1, <3>2
  <2>3. live \in SUBSET Nat /\ twice \in SUBSET Nat
    BY <2>2 DEF ResultType
  <2> HIDE DEF live, twice
  <2>4. FreeRow(x, x.previousRow) = [x EXCEPT !.live = live, !.twice = twice]
    BY <1>2 DEF FreeRow, live, twice
  <2> QED  BY <2>2, <2>3, <2>4 DEF ResultType
<1> QED  BY <1>1, <1>2

\* next frees the row before and keeps the one it returns and the one ahead;
\* without one it is past the end.
LEMMA NextKeepsTwo ==
  ASSUME NEW x \in ResultType, Owned(x), ReadAhead(x)
  PROVE  NextOf(x) \in ResultType /\ Owned(NextOf(x)) /\ ReadAhead(NextOf(x))
<1> DEFINE y == FreeRow(x, x.previousRow)
           z == [y EXCEPT !.rowNumber = y.rowNumber + 1, !.previousRow = y.nextRow]
<1>1. /\ y \in ResultType
      /\ y.size = x.size /\ y.read = x.read /\ y.rowNumber = x.rowNumber
      /\ y.previousRow = x.previousRow /\ y.nextRow = x.nextRow /\ y.past = x.past
      /\ y.live = {x.nextRow} \ {0}
      /\ y.twice \subseteq IF x.past THEN {x.size} ELSE {}
  BY FreeingPrevious
<1>2. NextOf(x) = IF x.nextRow = 0 THEN [y EXCEPT !.past = TRUE] ELSE ReadRow(z)
  BY DEF NextOf, Advance
<1> HIDE DEF y
<1>3. CASE x.nextRow = 0
  <2>1. x.rowNumber = x.size /\ x.read = x.size /\ x.previousRow = x.size
    BY <1>3 DEF Owned, ReadAhead, ResultType
  <2> DEFINE e == [y EXCEPT !.past = TRUE]
  <2>2. /\ e \in ResultType /\ e.past = TRUE
        /\ e.size = y.size /\ e.read = y.read /\ e.rowNumber = y.rowNumber
        /\ e.previousRow = y.previousRow /\ e.nextRow = y.nextRow
        /\ e.live = y.live /\ e.twice = y.twice
    BY <1>1 DEF ResultType
  <2> HIDE DEF e
  <2>3. NextOf(x) = e
    BY <1>2, <1>3 DEF e
  <2> QED  BY <1>1, <1>3, <2>1, <2>2, <2>3 DEF Owned, ReadAhead
<1>4. CASE x.nextRow # 0
  <2>1. /\ x.rowNumber < x.size /\ x.nextRow = x.rowNumber + 1 /\ x.read = x.rowNumber + 1
        /\ x.past = FALSE
    BY <1>4 DEF Owned, ReadAhead, ResultType
  <2>2. /\ z \in ResultType
        /\ z.size = x.size /\ z.read = x.read /\ z.rowNumber = x.read /\ z.previousRow = x.read
        /\ z.live = {x.read} /\ z.twice = {} /\ z.past = FALSE
    <3> DEFINE k == y.rowNumber + 1
    <3>1. /\ k \in Nat /\ k = x.read /\ y.nextRow = x.read /\ y.nextRow \in Nat
          /\ y.live = {x.read} /\ y.twice = {} /\ y.past = FALSE
      BY <1>1, <2>1 DEF ResultType
    <3> HIDE DEF k
    <3>2. z = [y EXCEPT !.rowNumber = k, !.previousRow = y.nextRow]
      BY DEF k
    <3> HIDE DEF z
    <3> QED  BY <1>1, <3>1, <3>2 DEF ResultType
  <2> HIDE DEF z
  <2>3. NextOf(x) = ReadRow(z)
    BY <1>2, <1>4
  <2>4. CASE z.read = z.size
    <3> DEFINE w == [z EXCEPT !.nextRow = 0]
    <3>1. /\ w \in ResultType /\ w.nextRow = 0
          /\ w.size = z.size /\ w.read = z.read /\ w.rowNumber = z.rowNumber
          /\ w.previousRow = z.previousRow /\ w.live = z.live /\ w.twice = z.twice /\ w.past = z.past
      BY <2>2 DEF ResultType
    <3> HIDE DEF w
    <3>2. NextOf(x) = w
      BY <2>3, <2>4 DEF ReadRow, w
    <3>3. x.read # 0 /\ x.read \in Nat
      BY <2>1 DEF ResultType
    <3>4. {x.read, 0} \ {0} = {x.read}
      BY <3>3
    <3>5. Owned(w)
      BY <2>2, <2>4, <3>1, <3>4 DEF Owned
    <3>6. ReadAhead(w)
      BY <2>2, <2>4, <3>1, <3>3 DEF ReadAhead
    <3> QED  BY <3>1, <3>2, <3>5, <3>6
  <2>5. CASE z.read # z.size
    <3> DEFINE k == z.read + 1
               w == [z EXCEPT !.read = k, !.nextRow = k, !.live = z.live \cup {k}]
    <3>1. z.read \in Nat /\ z.size \in Nat /\ z.read < z.size /\ z.read # 0 /\ k \in Nat
      BY <2>1, <2>2, <2>5 DEF ResultType
    <3>2. z.live \cup {k} = {z.read, k} \ {0} /\ z.live \cup {k} \in SUBSET Nat
      BY <2>2, <3>1
    <3>3. /\ w \in ResultType /\ w.read = k /\ w.nextRow = k /\ w.live = z.live \cup {k}
          /\ w.size = z.size /\ w.rowNumber = z.rowNumber
          /\ w.previousRow = z.previousRow /\ w.twice = z.twice /\ w.past = z.past
      BY <2>2, <3>1, <3>2 DEF ResultType
    <3>4. NextOf(x) = w
      BY <2>3, <2>5 DEF ReadRow
    <3> HIDE DEF w
    <3> QED  BY <2>2, <3>1, <3>2, <3>3, <3>4 DEF Owned, ReadAhead
  <2> QED  BY <2>4, <2>5
<1> QED  BY <1>3, <1>4

\* The destructor frees both rows and no other: nothing is left, and what it
\* frees twice is the last row of a result read past its end.
LEMMA FreedAll ==
  ASSUME NEW x \in ResultType, Owned(x), ReadAhead(x)
  PROVE  LET f == Freed(x)
             e == [f EXCEPT !.conn = 0] IN
           /\ f.live = {}
           /\ f.twice # {} => e \in ResultType /\ Owned(e) /\ ReadAhead(e)
<1> DEFINE y == FreeRow(x, x.previousRow)
<1>1. /\ y \in ResultType
      /\ y.size = x.size /\ y.read = x.read /\ y.rowNumber = x.rowNumber
      /\ y.previousRow = x.previousRow /\ y.nextRow = x.nextRow /\ y.past = x.past
      /\ y.live = {x.nextRow} \ {0}
      /\ y.twice \subseteq IF x.past THEN {x.size} ELSE {}
  BY FreeingPrevious
<1>2. Freed(x) = FreeRow(y, x.nextRow)
  BY DEF Freed
<1> HIDE DEF y
<1>3. CASE x.nextRow = 0
  <2>1. Freed(x) = y /\ y.live = {}
    BY <1>1, <1>2, <1>3 DEF FreeRow
  <2>2. ASSUME y.twice # {}
        PROVE  LET e == [y EXCEPT !.conn = 0] IN e \in ResultType /\ Owned(e) /\ ReadAhead(e)
    <3> DEFINE e == [y EXCEPT !.conn = 0]
    <3>1. x.past /\ x.rowNumber = x.size
      BY <1>1, <2>2 DEF ReadAhead, ResultType
    <3>2. /\ e \in ResultType
          /\ e.size = y.size /\ e.read = y.read /\ e.rowNumber = y.rowNumber
          /\ e.previousRow = y.previousRow /\ e.nextRow = y.nextRow /\ e.past = y.past
          /\ e.live = y.live /\ e.twice = y.twice
      BY <1>1 DEF ResultType
    <3> HIDE DEF e
    <3>3. {x.size, 0} \ {0, x.size} = {}
      OBVIOUS
    <3>4. Owned(e)
      BY <1>1, <1>3, <2>1, <3>1, <3>2, <3>3 DEF Owned
    <3>5. ReadAhead(e)
      BY <1>1, <3>1, <3>2 DEF ReadAhead
    <3> QED  BY <3>2, <3>4, <3>5 DEF e
  <2> QED  BY <2>1, <2>2
<1>4. CASE x.nextRow # 0
  <2>1. x.past = FALSE
    BY <1>4 DEF Owned, ReadAhead, ResultType
  <2>2. y.live = {x.nextRow} /\ y.twice = {}
    BY <1>1, <1>4, <2>1
  <2>3. y.live \ {x.nextRow} = {} /\ y.twice \cup ({x.nextRow} \ y.live) = {}
    BY <2>2
  <2>4. Freed(x).live = {} /\ Freed(x).twice = {}
    BY <1>1, <1>2, <1>4, <2>3 DEF FreeRow, ResultType
  <2> QED  BY <2>4
<1> QED  BY <1>3, <1>4

-----------------------------------------------------------------------------
\* Rows are given once and in order, and none is freed twice, in the destructor
\* too, but the last one of a result that was asked for more, for every length
\* of a result.
THEOREM RowsAreOwned == NodeSpec => []NodeRowsAreOwned
<1>1. NodeInit => RowInv
  BY NothingIsOwned DEF NodeInit, RowInv
<1>2. RowInv /\ [NodeNext]_nodeVars => RowInv'
  <2> SUFFICES ASSUME RowInv, [NodeNext]_nodeVars PROVE RowInv'
    OBVIOUS
  <2>1. ASSUME NEW r \in Res, NEW x \in ResultType, Owned(x), ReadAhead(x),
               result' = [result EXCEPT ![r] = x], UNCHANGED <<handle, made>>
        PROVE  RowInv'
    BY <2>1 DEF RowInv
  <2>2. ASSUME UNCHANGED result, handle' \in Nat, made' \in Nat PROVE RowInv'
    BY <2>2 DEF RowInv
  <2>3. CASE CloseNode
    BY <2>2, <2>3 DEF CloseNode, RowInv
  <2>4. ASSUME NEW done \in BOOLEAN, OpenNode(done) PROVE RowInv'
    BY <2>2, <2>4 DEF OpenNode, RowInv
  <2>5. ASSUME NEW r \in Res, NEW n \in 0..MaxRow, Select(r, n) PROVE RowInv'
    <3>1. PICK done \in IF alive THEN BOOLEAN ELSE {FALSE} :
            result' = IF done THEN [result EXCEPT ![r] = ReadRow([NoResult EXCEPT !.conn = handle, !.size = n])]
                      ELSE result
      BY <2>5 DEF Select
    <3>2. UNCHANGED <<handle, made>> /\ handle \in Nat /\ made \in Nat /\ n \in Nat
      BY <2>5, NodeAssumption DEF Select, RowInv
    <3>3. CASE done
      <4> DEFINE x == ReadRow([NoResult EXCEPT !.conn = handle, !.size = n])
      <4>1. x \in ResultType /\ Owned(x) /\ ReadAhead(x)
        BY <3>2, FirstIsAhead, Zenon
      <4>2. result' = [result EXCEPT ![r] = x]
        BY <3>1, <3>3
      <4> HIDE DEF x
      <4> QED BY <2>1, <3>2, <4>1, <4>2
    <3>4. CASE ~done
      BY <2>2, <3>1, <3>2, <3>4
    <3> QED BY <3>3, <3>4
  <2>6. ASSUME NEW r \in Res, NextRow(r) PROVE RowInv'
    <3>1. UNCHANGED <<handle, made>> /\ handle \in Nat /\ made \in Nat
      BY <2>6 DEF NextRow, RowInv
    <3>2. result' = [result EXCEPT ![r] = NextOf(result[r])] \/ result' = result
      BY <2>6 DEF NextRow
    <3>3. /\ NextOf(result[r]) \in ResultType
          /\ Owned(NextOf(result[r])) /\ ReadAhead(NextOf(result[r]))
      BY NextKeepsTwo DEF RowInv
    <3> QED  BY <2>1, <2>2, <3>1, <3>2, <3>3
  <2>7. ASSUME NEW r \in Res, DeleteResult(r) PROVE RowInv'
    <3> DEFINE f == Freed(result[r])
               e == [f EXCEPT !.conn = 0]
    <3>1. UNCHANGED <<handle, made>>
      BY <2>7 DEF DeleteResult
    <3>2. result' = [result EXCEPT ![r] = IF f.twice \cup f.live = {} THEN NoResult ELSE e]
      BY <2>7 DEF DeleteResult
    <3>3. f.live = {} /\ (f.twice # {} => e \in ResultType /\ Owned(e) /\ ReadAhead(e))
      BY FreedAll DEF RowInv
    <3> HIDE DEF f, e
    <3>4. CASE f.twice = {}
      BY <2>1, <3>1, <3>2, <3>3, <3>4, NothingIsOwned
    <3>5. CASE f.twice # {}
      BY <2>1, <3>1, <3>2, <3>3, <3>5
    <3> QED  BY <3>4, <3>5
  <2>8. CASE UNCHANGED nodeVars
    BY <2>2, <2>8 DEF nodeVars, RowInv
  <2> QED BY <2>3, <2>4, <2>5, <2>6, <2>7, <2>8 DEF NodeNext
<1>3. RowInv => NodeRowsAreOwned
  BY DEF RowInv, NodeRowsAreOwned, Owned
<1> QED BY <1>1, <1>2, <1>3, PTL DEF NodeSpec

-----------------------------------------------------------------------------
(* Values, for any whole numbers and any two widths.                        *)

Numbers == {Integer(k) : k \in Int}
Times == {Time(n) : n \in Int}
Texts == {Text(n) : n \in 0..3}
Content == {Null, Real, Fine, Huge} \cup Numbers \cup Times \cup Texts

ValueType == {"boolean", "smallint", "integer", "bigint", "double", "string", "blob", "clob",
              "date", "time", "timestamp"}

\* A value of the server: what its type says of its content.
RowValue ==
  {w \in [t : ValueType, c : Content] :
     /\ w.t \in {"smallint", "integer", "bigint"} => w.c \in Numbers \cup {Null}
     /\ w.t \in Dates => w.c \in Times}

LEMMA Mod ==
  ASSUME NEW d \in Nat \ {0}, NEW x \in 0..(d - 1)
  PROVE  x % d = x
OBVIOUS

LEMMA Mod2 ==
  ASSUME NEW d \in Nat \ {0}, NEW x \in Int
  PROVE  x % d \in 0..(d-1)
OBVIOUS

\* A number in the range of a width survives the narrowing to it, and what comes
\* out of it is a whole number.
LEMMA NarrowingKeeps ==
  ASSUME NEW half \in Nat \ {0}, NEW c \in Numbers
  PROVE  /\ WrapTo(half, c) \in Numbers
         /\ Fits(half, c) => WrapTo(half, c) = c
<1>1. PICK k \in Int : c = [form |-> "number", n |-> 2 * k]
  BY DEF Numbers, Integer
<1>2. c.n \div 2 = k
  BY <1>1
<1> DEFINE m == ((k + half) % (2 * half)) - half
<1>3. m \in Int
  BY Mod2
<1>4. WrapTo(half, c) = [form |-> "number", n |-> 2 * m]
  BY <1>1, <1>2 DEF WrapTo
<1>5. ASSUME Fits(half, c) PROVE m = k
  <2>1. -2 * half <= 2 * k /\ 2 * k < 2 * half
    BY <1>1, <1>5 DEF Fits
  <2>2. k + half \in 0..(2 * half - 1) /\ 2 * half \in Nat \ {0}
    BY <2>1
  <2>3. (k + half) % (2 * half) = k + half
    BY <2>2, Mod
  <2> QED BY <2>3
<1> QED BY <1>1, <1>3, <1>4, <1>5 DEF Numbers, Integer

-----------------------------------------------------------------------------
\* What a driver shows of a column is what is in it, and the .NET reader gives it
\* the type it tells the application.
LEMMA PdoShows ==
  ASSUME NEW w \in RowValue, driver = "pdo", Shows(w), ColumnRead(w).k = "value"
  PROVE  ColumnRead(w).w.c = w.c
<1>1. ColumnRead(w) = PdoColumn(w) /\ w.t \in ValueType
  BY DEF ColumnRead, RowValue
<1>2. CASE w.t \in {"smallint", "integer", "bigint"} /\ w.c # Null /\ Fits(IntHalf, w.c)
  <2>1. w.c \in Numbers
    BY <1>2 DEF RowValue
  <2>2. WrapTo(IntHalf, w.c) = w.c
    BY <1>2, <2>1, NarrowingKeeps, WidthAssumption
  <2>0. PdoSqlType[w.t] \in {"INTEGER", "BIGINT"}
    BY <1>2 DEF PdoSqlType
  <2>3. PdoGetter(w) = w.c
    BY <1>2, <2>0 DEF PdoGetter, Zero, PdoDates
  <2>4. PdoBytes(w) = As("text", w.c) /\ PdoParamType(w) = "text"
    <3>1. CASE PdoSqlType[w.t] = "INTEGER"
      BY <2>3, <3>1 DEF PdoBytes, PdoParamType, PdoDates
    <3>2. CASE PdoSqlType[w.t] = "BIGINT"
      BY <2>2, <2>3, <3>2 DEF PdoBytes, PdoParamType, PdoDates
    <3> QED BY <2>0, <3>1, <3>2
  <2> QED BY <1>1, <2>4 DEF PdoColumn, Gives, As
<1>3. CASE w.t = "string" /\ w.c # Text(2)
  <2>1. w.c # Null => PdoBytes(w) = As("text", w.c)
    BY <1>3 DEF PdoBytes, PdoSqlType, PdoGetter, PdoDates, Cut
  <2>2. w.c = Null => PdoBytes(w) = As("nil", Null)
    BY <1>3 DEF PdoBytes, PdoSqlType, PdoDates
  <2>3. PdoParamType(w) = "text"
    BY <1>3 DEF PdoParamType, PdoSqlType, PdoDates
  <2> QED BY <1>1, <2>1, <2>2, <2>3 DEF PdoColumn, Gives, As
<1>4. CASE w.t \in Dates /\ w.c.n % 2 = 0
  <2>1. PICK n \in Int : w.c = Time(n)
    BY <1>4 DEF RowValue, Times
  <2>2. w.c.n = n /\ 2 * (n \div 2) = n
    BY <1>4, <2>1 DEF Time
  <2>3. PdoGetter(w) = w.c
    BY <1>4, <2>1, <2>2 DEF PdoGetter, PdoSqlType, PdoDates, Dates
  <2>4. PdoBytes(w) = As("int", w.c) /\ PdoParamType(w) = "int"
    BY <1>4, <2>3 DEF PdoBytes, PdoSqlType, PdoParamType, PdoDates, Dates
  <2> QED BY <1>1, <2>4 DEF PdoColumn, Gives, As
<1>5. CASE w.t \in {"blob", "clob"} /\ w.c # Text(0)
  <2>1. PdoBytes(w) = As("text", w.c) /\ PdoParamType(w) = "text"
    BY <1>5 DEF PdoBytes, PdoSqlType, PdoParamType, PdoDates, PdoGetter
  <2> QED BY <1>1, <2>1 DEF PdoColumn, Gives, As
<1> QED BY <1>2, <1>3, <1>4, <1>5 DEF Shows

LEMMA NetReads ==
  ASSUME NEW w \in RowValue
  PROVE  /\ NetColumn(w).k = "value" /\ NetColumn(w).w.t = NetFieldType(w)
         /\ w.c \notin {Null, Text(2)} => NetColumn(w).w.c = w.c
<1>1. w.t \in ValueType
  BY DEF RowValue
<1>2. CASE NetType[w.t] \in {"Boolean", "Integer", "BigInt", "Double"}
  BY <1>2 DEF NetColumn, NetFieldType, Gives, As, Zero
<1>3. CASE NetType[w.t] \in {"Date", "Time", "DateTime"}
  BY <1>3 DEF NetColumn, NetFieldType, Gives, As
<1>4. CASE NetType[w.t] = "String"
  BY <1>4 DEF NetColumn, NetFieldType, Gives, As, Cut
<1> QED BY <1>1, <1>2, <1>3, <1>4 DEF NetType, ValueType

LEMMA OthersShow ==
  ASSUME NEW w \in RowValue, driver \in {"perl", "ruby", "net", "node"}, Shows(w),
         ColumnRead(w).k = "value"
  PROVE  ColumnRead(w).w.c = w.c
<1>1. w.c # Text(2) /\ Cut(w.c) = w.c
  BY DEF Shows, Cut, Null, Text
<1>2. CASE driver = "perl"
  BY <1>1, <1>2 DEF ColumnRead, PerlColumn, Gives, As
<1>3. CASE driver = "net"
  BY <1>3, NetReads DEF ColumnRead, Shows
<1>4. CASE driver = "node"
  BY <1>1, <1>4 DEF ColumnRead, NodeColumn, Gives, As, DiesRead
<1>5. CASE driver = "ruby"
  <2>1. w.c # Null /\ Zero(w.c) = w.c
    BY <1>5 DEF Shows, Zero
  <2>2. \A get : RubyGetter(get, w).w.c = w.c
    BY <1>1, <2>1 DEF RubyGetter, Gives, As
  <2> QED BY <1>5, <2>2 DEF ColumnRead, RubyColumn, RaisesRead
<1> QED BY <1>2, <1>3, <1>4, <1>5

LEMMA ReadsAreRight ==
  ASSUME NEW w \in RowValue, driver \in {"pdo", "perl", "ruby", "net", "node"},
         ColumnRead(w).k = "value"
  PROVE  /\ Shows(w) => ColumnRead(w).w.c = w.c
         /\ driver = "net" => ColumnRead(w).w.t = NetFieldType(w)
<1>1. driver = "net" => ColumnRead(w) = NetColumn(w)
  BY DEF ColumnRead
<1> QED BY <1>1, PdoShows, OthersShow, NetReads

\* The typed getters: a short is narrowed, a character is cut off.
LEMMA GettersAreRight ==
  ASSUME NEW w \in RowValue, NEW g \in DOMAIN GetterTypes, driver = "net", Shows(w),
         NetGetter(g, w).k = "value",
         Keeps(g, w.c)
  PROVE  NetGetter(g, w).w.c = w.c
<1>1. w.c \notin {Null, Text(2)} /\ w.t \in ValueType /\ w.c \in Content
  BY DEF Shows, RowValue
<1>2. NetType[w.t] \in GetterTypes[g] /\ ~(g = "GetDecimal" /\ w.c = Huge)
  BY DEF NetGetter, RaisesRead
<1>0. /\ g = "GetInt16" => Fits(ShortHalf, w.c)
      /\ g = "GetChar" => w.c = Text(3)
      /\ g \in {"GetFloat", "GetDecimal"} => w.c \notin {Fine, Huge}
  BY DEF Keeps
<1>3. CASE g = "GetInt16"
  <2>1. w.t \in {"integer", "bigint"}
    BY <1>1, <1>2, <1>3 DEF GetterTypes, NetType, ValueType
  <2>2. w.c \in Numbers /\ Zero(w.c) = w.c
    BY <1>1, <2>1 DEF RowValue, Zero
  <2>3. WrapTo(ShortHalf, w.c) = w.c
    BY <1>0, <1>3, <2>2, NarrowingKeeps, WidthAssumption
  <2> QED BY <1>2, <1>3, <2>2, <2>3 DEF NetGetter, Gives, As
<1>4. CASE g = "GetChar"
  <2>1. Text(3) # Text(0) /\ Text(3) # Null
    BY DEF Text, Null
  <2> QED BY <1>0, <1>2, <1>4, <2>1 DEF NetGetter, Gives, As
<1>5. CASE g \in {"GetFloat", "GetDecimal"}
  BY <1>0, <1>1, <1>2, <1>5 DEF NetGetter, Gives, As, Zero
<1>6. CASE g \notin Narrowing
  <2>1. NetGetter(g, w) = NetColumn(w)
    BY <1>2, <1>6 DEF NetGetter, Narrowing
  <2> QED BY <1>1, <2>1, NetReads
<1> QED BY <1>3, <1>4, <1>5, <1>6 DEF Narrowing
-----------------------------------------------------------------------------
\* PDO was told the type of an argument, unless it is one it does not know.
Told(i) ==
  /\ call[i].t = "int" => ptype[i] = "INTEGER"
  /\ call[i].t \in {"text", "nil"} => ptype[i] = "STRING"
  /\ call[i].t = "bytes" => ptype[i] = "BLOB"

SqlTypes == {"none", "INTEGER", "STRING", "BLOB"}

\* The parameter i is bound to the argument of this call.
Passed(i) == slots[i] \in RowValue /\ (Takes(call[i]) => slots[i].c = call[i].c)

\* What the application has read of the column i is in order.
Right(e, i) ==
  /\ Shows(row[i]) /\ Keeps(e.g, row[i].c) => e.w.c = row[i].c
  /\ (driver = "net" /\ e.g = "item") => e.w.t = NetFieldType(row[i])

ReadsOne(e) == got = <<e>> /\ Right(e, 1)
ReadsTwo(e, f) == got = <<e, f>> /\ Right(e, 1) /\ Right(f, 2)

ReadInv ==
  /\ row \in [Column -> RowValue]
  /\ call # <<>> => \A i \in Column : Takes(call[i]) => row[i].c = call[i].c
  /\ driver = "net" => columns \in {<<"a", "b">>, <<"a", "a">>}
  /\ got = <<>> \/ (\E e : ReadsOne(e)) \/ (\E e, f : ReadsTwo(e, f))

PathInv ==
  /\ driver \in {"pdo", "perl", "ruby", "net", "node"}
  /\ slots \in [Column -> RowValue \cup {As("unset", Null)}]
  /\ ptype \in [Column -> SqlTypes]
  /\ phase = "idle" => call = <<>> /\ got = <<>>
  /\ phase \in {"bind1", "bind2", "run"} =>
       /\ call \in [Column -> Argument] /\ got = <<>>
       /\ driver = "pdo" => \A i \in Column : Told(i)
  /\ phase \in {"bind2", "run"} => Passed(1)
  /\ phase = "run" => Passed(2)
  /\ phase = "read" => ReadInv

-----------------------------------------------------------------------------
\* What the application may pass, by type.
LEMMA ArgumentContents ==
  ASSUME NEW a \in Argument
  PROVE  /\ a.t \in {"int", "text", "bool", "nil", "bytes", "float", "time", "long"}
         /\ a.t \in {"int", "bool", "long"} /\ a.c # Null => a.c \in Numbers
         /\ a.t \in {"text", "bytes"} => a.c \in Texts
         /\ a.t = "nil" => a.c = Null
         /\ a.t = "float" /\ a.c # Null => a.c = Real
         /\ a.t = "time" /\ a.c # Null => a.c \in Times
         /\ a.c = Null => a.t = "nil" \/ driver = "net"
         /\ driver = "pdo" => a.t \in {"int", "text", "bool", "nil", "bytes"}
         /\ a.c \in Content
<1>0. Null \notin Numbers \cup Times \cup Texts \cup {Real}
  BY DEF Numbers, Times, Texts, Null, Integer, Time, Text, Real
<1>1. \A k \in Whole : Integer(k) \in Numbers
  BY WidthAssumption DEF Numbers
<1>2. Integer(0) \in Numbers /\ Integer(1) \in Numbers /\ Time(3) \in Times
  BY DEF Numbers, Times
<1>3. CASE a \in [t : {"int"}, c : {Integer(k) : k \in Whole}]
  BY <1>0, <1>1, <1>3 DEF Content
<1>4. CASE a \in [t : {"text"}, c : {Text(n) : n \in 0..2}]
  BY <1>0, <1>4 DEF Content, Texts
<1>5. CASE a \in [t : {"bool"}, c : {Integer(0), Integer(1)}]
  BY <1>0, <1>2, <1>5 DEF Content
<1>6. CASE a = As("nil", Null)
  BY <1>6 DEF Content, As
<1>7. CASE driver = "pdo" /\ a \in [t : {"bytes"}, c : {Text(n) : n \in 0..2}]
  BY <1>0, <1>7 DEF Content, Texts
<1>8. CASE driver # "pdo" /\ a \in [t : {"float"}, c : {Real}] \cup [t : {"time"}, c : {Time(3)}]
  BY <1>0, <1>2, <1>8 DEF Content
<1>9. CASE driver = "net" /\ a \in [t : {"long"}, c : {Integer(k) : k \in Whole}]
  BY <1>0, <1>1, <1>9 DEF Content
<1>10. CASE driver = "net" /\ a \in [t : {"bool", "int", "long", "float", "time"}, c : {Null}]
  BY <1>10 DEF Content
<1> QED BY <1>3, <1>4, <1>5, <1>6, <1>7, <1>8, <1>9, <1>10 DEF Argument

LEMMA RowValues ==
  ASSUME NEW t \in ValueType, NEW c \in Content,
         t \in {"smallint", "integer", "bigint"} => c \in Numbers \cup {Null},
         t \in Dates => c \in Times
  PROVE  /\ As(t, c) \in RowValue
         /\ As(t, c).c = c
BY DEF As, RowValue

LEMMA CutTexts ==
  /\ \A c \in Content : Cut(c) \in Content /\ (c # Text(2) => Cut(c) = c)
  /\ Text(0) \in Content
BY DEF Cut, Content, Texts

\* Each driver sets a parameter to a value the server can have, and to the
\* content it was given when it takes it.
LEMMA PdoKeeps ==
  ASSUME driver = "pdo", NEW i \in Column, call[i] \in Argument, Told(i), ptype[i] \in SqlTypes,
         NEW r \in BindResults(i, call[i]), r.k = "set"
  PROVE  r.w \in RowValue /\ (Takes(call[i]) => r.w.c = call[i].c)
<1> DEFINE a == call[i]
<1>0. /\ a.t \in {"int", "text", "bool", "nil", "bytes"}
      /\ a.t \in {"int", "bool"} => a.c \in Numbers
      /\ a.t \in {"text", "bytes"} => a.c \in Texts
      /\ a.c \in Content
  BY ArgumentContents
<1>a. Takes(a) => a.t \in {"int", "text", "bytes"} /\ Fits(IntHalf, a.c) /\ (a.t = "text" => a.c # Text(2))
  BY DEF Takes
<1>1. r \in PdoBind(ptype[i], a)
  BY DEF BindResults
<1>2. CASE ptype[i] = "INTEGER"
  <2>1. a.c \in Numbers
    BY <1>0, <1>2 DEF Told
  <2>2. /\ WrapTo(IntHalf, a.c) \in Numbers /\ (Fits(IntHalf, a.c) => WrapTo(IntHalf, a.c) = a.c)
    BY <2>1, NarrowingKeeps, WidthAssumption
  <2>3. r.w = As("integer", WrapTo(IntHalf, a.c))
    BY <1>1, <1>2 DEF PdoBind, PdoSetter, Sets
  <2>4. WrapTo(IntHalf, a.c) \in Content /\ "integer" \in ValueType /\ "integer" \notin Dates
    BY <2>2 DEF Content, ValueType, Dates
  <2>5. r.w \in RowValue /\ r.w.c = WrapTo(IntHalf, a.c)
    BY <2>2, <2>3, <2>4, RowValues
  <2> QED BY <1>a, <2>2, <2>5
<1>3. CASE ptype[i] = "STRING" /\ a.t = "text"
  <2>1. r.w = As("string", Cut(a.c))
    BY <1>1, <1>3 DEF PdoBind, PdoSetter, Sets, PhpType
  <2>2. "string" \in ValueType \ {"smallint", "integer", "bigint"} /\ "string" \notin Dates
    BY DEF ValueType, Dates
  <2> QED BY <1>0, <1>3, <1>a, <2>1, <2>2, CutTexts, RowValues
<1>4. CASE ptype[i] = "BLOB" /\ a.t = "bytes"
  <2>1. r.w = As("blob", a.c)
    BY <1>1, <1>4 DEF PdoBind, PdoSetter, Sets, PhpType
  <2>2. "blob" \in ValueType \ {"smallint", "integer", "bigint"} /\ "blob" \notin Dates
    BY DEF ValueType, Dates
  <2> QED BY <1>0, <2>1, <2>2, RowValues
<1>5. CASE ptype[i] = "none"
  <2>1. r.k = "raise"
    BY <1>1, <1>5 DEF PdoBind, Raises
  <2> QED BY <2>1
<1>6. CASE (ptype[i] = "STRING" /\ a.t # "text") \/ (ptype[i] = "BLOB" /\ a.t # "bytes")
  <2>1. r \in Dies \cup Sets(As("string", Text(0)))
    BY <1>1, <1>6 DEF PdoBind, PhpType
  <2>2. r.w = As("string", Text(0))
    BY <2>1 DEF Dies, Sets
  <2>3. ~Takes(a)
    BY <1>6, <1>a DEF Told
  <2>4. "string" \in ValueType \ {"smallint", "integer", "bigint"} /\ "string" \notin Dates
    BY DEF ValueType, Dates
  <2> QED BY <2>2, <2>3, <2>4, CutTexts, RowValues
<1> QED BY <1>2, <1>3, <1>4, <1>5, <1>6 DEF SqlTypes

LEMMA PerlKeeps ==
  ASSUME driver = "perl", NEW i \in Column, NEW a \in Argument,
         NEW r \in BindResults(i, a), r.k = "set"
  PROVE  r.w \in RowValue /\ (Takes(a) => r.w.c = a.c)
<1>1. r \in PerlBind(a) \cup Raises /\ a.c \in Content
  BY ArgumentContents DEF BindResults, PerlBindParam
<1>2. r \in PerlBind(a)
  BY <1>1 DEF Raises
<1>3. /\ {"string", "blob"} \subseteq ValueType \ {"smallint", "integer", "bigint"}
      /\ {"string", "blob"} \cap Dates = {}
  BY DEF ValueType, Dates
<1>4. CASE a.c = Text(2)
  <2>1. r.w = As("blob", a.c)
    BY <1>2, <1>4 DEF PerlBind, Sets
  <2> QED BY <1>1, <1>3, <2>1, RowValues
<1>5. CASE a.c # Text(2) /\ a.c = Null
  <2>1. r.w = As("string", Text(0))
    BY <1>2, <1>5 DEF PerlBind, Sets
  <2>2. ~Takes(a)
    BY <1>5 DEF Takes
  <2> QED BY <1>3, <2>1, <2>2, CutTexts, RowValues
<1>6. CASE a.c # Text(2) /\ a.c # Null
  <2>1. r.w = As("string", a.c)
    BY <1>2, <1>6 DEF PerlBind, Sets
  <2> QED BY <1>1, <1>3, <2>1, RowValues
<1> QED BY <1>4, <1>5, <1>6

\* Ruby and .NET choose the setter by the type: it is one for that type.
LEMMA RubyKeeps ==
  ASSUME driver = "ruby", NEW i \in Column, NEW a \in Argument,
         NEW r \in BindResults(i, a), r.k = "set"
  PROVE  r.w \in RowValue /\ (Takes(a) => r.w.c = a.c)
<1>1. r \in RubyBind(a) /\ (Takes(a) => a.c # Text(2))
  BY DEF BindResults, Takes
<1>2. /\ a.t \in {"int", "text", "bool", "nil", "bytes", "float", "time", "long"}
      /\ a.t \in {"int", "bool"} => a.c \in Numbers
      /\ a.t = "time" => a.c \in Times
      /\ a.c \in Content
  BY ArgumentContents
<1>3. /\ {"integer", "boolean", "double", "string", "timestamp"} \subseteq ValueType
      /\ {"integer", "boolean", "double", "string"} \cap Dates = {}
  BY DEF ValueType, Dates
<1>4. a.t = "int" => r.w = As("integer", a.c)
  <2>1. ASSUME a.t = "int" PROVE r.w = As("integer", a.c)
    <3>1. r \in Sets(As("integer", a.c)) \cup Raises
      BY <1>1, <2>1 DEF RubyBind, RubySetter
    <3> QED BY <3>1 DEF Sets, Raises
  <2> QED BY <2>1
<1>5. a.t = "bool" => r.w = As("boolean", a.c) \/ r.w = As("integer", a.c)
  BY <1>1 DEF RubyBind, RubySetter, Sets
<1>6. a.t = "float" => r.w = As("double", a.c)
  BY <1>1 DEF RubyBind, RubySetter, Sets
<1>7. a.t \in {"text", "bytes"} => r.w = As("string", Cut(a.c))
  BY <1>1 DEF RubyBind, RubySetter, Sets
<1>8. a.t = "time" => r.w = As("timestamp", a.c)
  BY <1>1 DEF RubyBind, RubySetter, Sets
<1>9. a.t \notin {"nil", "long"}
  BY <1>1 DEF RubyBind, Raises
<1>10. CASE a.t \in {"int", "bool"}
  BY <1>2, <1>3, <1>4, <1>5, <1>10, RowValues
<1>11. CASE a.t \in {"float", "time"}
  BY <1>2, <1>3, <1>6, <1>8, <1>11, RowValues
<1>12. CASE a.t \in {"text", "bytes"}
  BY <1>1, <1>2, <1>3, <1>7, <1>12, CutTexts, RowValues
<1> QED BY <1>2, <1>9, <1>10, <1>11, <1>12

LEMMA NetKeeps ==
  ASSUME driver \in {"net", "node"}, NEW i \in Column, NEW a \in Argument,
         NEW r \in BindResults(i, a), r.k = "set"
  PROVE  r.w \in RowValue /\ (Takes(a) => r.w.c = a.c)
<1>1. r \in NetBind(a) /\ (Takes(a) => a.c \notin {Null, Text(2)})
  BY DEF BindResults, Takes
<1>2. /\ a.t \in {"int", "text", "bool", "nil", "bytes", "float", "time", "long"}
      /\ a.t \in {"int", "bool", "long"} /\ a.c # Null => a.c \in Numbers
      /\ a.t = "time" /\ a.c # Null => a.c \in Times
      /\ a.t = "nil" => a.c = Null
      /\ a.c \in Content
  BY ArgumentContents
<1>3. r.w = NetSetter(a.t, a.c)
  BY <1>1 DEF NetBind, Sets, Raises
<1>4. /\ {"integer", "bigint", "boolean", "double", "string", "timestamp"} \subseteq ValueType
      /\ {"integer", "bigint", "boolean", "double", "string"} \cap Dates = {}
      /\ Integer(0) \in Numbers /\ Numbers \subseteq Content
      /\ MinTime \in Times /\ Times \subseteq Content
  BY DEF ValueType, Dates, Numbers, Times, Content, MinTime
<1>5. CASE a.t \in {"int", "bool", "long"}
  <2>1. Zero(a.c) \in Numbers /\ Zero(a.c) \in Content /\ (a.c # Null => Zero(a.c) = a.c)
    BY <1>2, <1>4, <1>5 DEF Zero
  <2>2. \E t \in {"integer", "bigint", "boolean"} : r.w = As(t, Zero(a.c))
    BY <1>3, <1>5 DEF NetSetter
  <2> QED BY <1>1, <1>4, <2>1, <2>2, RowValues
<1>6. CASE a.t = "float"
  <2>1. Zero(a.c) \in Content /\ (a.c # Null => Zero(a.c) = a.c)
    BY <1>2, <1>4 DEF Zero
  <2>2. r.w = As("double", Zero(a.c))
    BY <1>3, <1>6 DEF NetSetter
  <2>3. "double" \in ValueType \ {"smallint", "integer", "bigint"} /\ "double" \notin Dates
    BY <1>4
  <2> QED BY <1>1, <2>1, <2>2, <2>3, RowValues
<1>7. CASE a.t = "time"
  <2>1. PICK c : c = IF a.c = Null THEN MinTime ELSE a.c
    OBVIOUS
  <2>2. c \in Times /\ c \in Content /\ (a.c # Null => c = a.c)
    BY <1>2, <1>4, <1>7, <2>1
  <2>3. r.w = As("timestamp", c)
    BY <1>3, <1>7, <2>1 DEF NetSetter
  <2>4. "timestamp" \in ValueType \ {"smallint", "integer", "bigint"}
    BY <1>4
  <2> QED BY <1>1, <2>2, <2>3, <2>4, RowValues
<1>8. CASE a.t \in {"text", "nil", "bytes"}
  <2>1. PICK c : c = IF a.c = Null THEN Text(0) ELSE Cut(a.c)
    OBVIOUS
  <2>2. c \in Content /\ (a.c \notin {Null, Text(2)} => c = a.c)
    BY <1>2, <2>1, CutTexts
  <2>3. r.w = As("string", c)
    BY <1>3, <1>8, <2>1 DEF NetSetter
  <2>4. "string" \in ValueType \ {"smallint", "integer", "bigint"} /\ "string" \notin Dates
    BY <1>4
  <2> QED BY <1>1, <2>2, <2>3, <2>4, RowValues
<1> QED BY <1>2, <1>5, <1>6, <1>7, <1>8

LEMMA StoredAreValues == Stored \subseteq RowValue
<1> SUFFICES ASSUME NEW w \in Stored PROVE w \in RowValue
  OBVIOUS
<1>1. \A k \in Whole : Integer(k) \in Numbers
  BY WidthAssumption DEF Numbers
<1>2. /\ Integer(0) \in Numbers /\ Integer(1) \in Numbers /\ Numbers \subseteq Content
      /\ Time(2) \in Times /\ Time(3) \in Times /\ Times \subseteq Content
      /\ Null \in Content /\ Real \in Content
      /\ Text(0) \in Content /\ Text(1) \in Content /\ Text(2) \in Content
      /\ Text(3) \in Content /\ Fine \in Content /\ Huge \in Content
  BY DEF Numbers, Times, Content, Texts
<1>3. w.t \in ValueType /\ w.c \in Content
      /\ (w.t \in {"smallint", "integer", "bigint"} => w.c \in Numbers \cup {Null})
      /\ (w.t \in Dates => w.c \in Times)
  <2>1. CASE \/ w \in [t : {"boolean"}, c : {Integer(0), Integer(1), Null}]
             \/ w \in [t : {"double"}, c : {Real, Null}]
    BY <1>2, <2>1 DEF ValueType, Dates
  <2>2. CASE w.t \in {"smallint", "integer", "bigint"} /\ w.c \in {Integer(k) : k \in Whole} \cup {Null}
    BY <1>1, <1>2, <2>2 DEF ValueType, Dates
  <2>3. CASE \/ w \in [t : {"string"}, c : {Text(0), Text(1), Text(2), Null}]
             \/ w \in [t : {"blob"}, c : {Text(0), Text(2)}]
             \/ w \in [t : {"clob"}, c : {Text(0), Text(1)}]
    BY <1>2, <2>3 DEF ValueType, Dates
  <2>4. CASE w \in [t : Dates, c : {Time(2), Time(3)}]
    BY <1>2, <2>4 DEF ValueType, Dates
  <2>5. CASE \/ w \in [t : {"double"}, c : {Fine, Huge}]
             \/ w \in [t : {"string"}, c : {Text(3)}]
    BY <1>2, <2>5 DEF ValueType, Dates
  <2> QED BY <2>1, <2>2, <2>3, <2>4, <2>5 DEF Stored
<1>4. w = As(w.t, w.c)
  <2>1. \E T, C : w \in [t : T, c : C]
    BY DEF Stored
  <2> QED BY <2>1 DEF As
<1> QED BY <1>3, <1>4, RowValues
-----------------------------------------------------------------------------
\* A bind leaves the other parameters and binds its own, for every driver.
LEMMA BindKeeps ==
  ASSUME PathInv, NEW i \in Column, phase \in {"bind1", "bind2"},
         NEW r \in BindResults(i, call[i]), r.k = "set"
  PROVE  r.w \in RowValue /\ (Takes(call[i]) => r.w.c = call[i].c)
<1>1. /\ driver \in {"pdo", "perl", "ruby", "net", "node"}
      /\ call[i] \in Argument /\ ptype[i] \in SqlTypes
      /\ driver = "pdo" => Told(i)
  BY DEF PathInv
<1> QED BY <1>1, PdoKeeps, PerlKeeps, RubyKeeps, NetKeeps

LEMMA BindingStep ==
  ASSUME PathInv, NEW i \in Column, BindNext(i)
  PROVE  PathInv'
<1>1. phase = IF i = 1 THEN "bind1" ELSE "bind2"
  BY DEF BindNext
<1>2. UNCHANGED <<driver, call, ptype, row, columns, got>>
  BY DEF BindNext
<1>3. /\ driver \in {"pdo", "perl", "ruby", "net", "node"}
      /\ slots \in [Column -> RowValue \cup {As("unset", Null)}] /\ ptype \in [Column -> SqlTypes]
      /\ call \in [Column -> Argument] /\ got = <<>>
      /\ driver = "pdo" => \A j \in Column : Told(j)
      /\ i = 2 => Passed(1)
  BY <1>1 DEF PathInv
<1>4. Argument' = Argument /\ \A j \in Column : Told(j)' <=> Told(j)
  BY <1>2 DEF Argument, Told
<1>5. PICK r \in BindResults(i, call[i]) :
        /\ slots' = IF r.k = "set" THEN [slots EXCEPT ![i] = r.w] ELSE slots
        /\ phase' = CASE r.k = "raise" -> "raised" [] r.k = "die" -> "dead"
                      [] OTHER -> IF i = 1 THEN "bind2" ELSE "run"
  BY DEF BindNext
<1>6. CASE r.k = "set"
  <2>1. slots' = [slots EXCEPT ![i] = r.w] /\ phase' = IF i = 1 THEN "bind2" ELSE "run"
    BY <1>5, <1>6
  <2>2. r.w \in RowValue /\ (Takes(call[i]) => r.w.c = call[i].c)
    BY <1>1, <1>6, BindKeeps
  <2>3. slots'[i] = r.w /\ \A j \in Column \ {i} : slots'[j] = slots[j]
    BY <1>3, <2>1
  <2>4. \A a : Takes(a)' <=> Takes(a)
    BY <1>2 DEF Takes
  <2>5. Passed(i)'
    BY <1>2, <2>2, <2>3, <2>4 DEF Passed
  <2>6. i = 2 => Passed(1)'
    BY <1>2, <1>3, <2>3, <2>4 DEF Passed, Column
  <2>7. slots' \in [Column -> RowValue \cup {As("unset", Null)}]
    BY <1>3, <2>1, <2>2
  <2>8. phase' \in {"bind2", "run"} /\ (phase' = "bind2" => i = 1) /\ (phase' = "run" => i = 2)
    BY <2>1 DEF Column
  <2>9. Passed(1)' /\ (phase' = "run" => Passed(2)')
    BY <2>5, <2>6, <2>8 DEF Column
  <2> QED BY <1>2, <1>3, <1>4, <2>7, <2>8, <2>9 DEF PathInv
<1>7. CASE r.k # "set"
  <2>1. slots' = slots
    BY <1>5, <1>7
  <2>2. phase' \in {"raised", "dead"}
    <3>1. r.k \in {"raise", "die"}
      <4>1. driver = "pdo" => r \in PdoBind(ptype[i], call[i])
        BY DEF BindResults
      <4>2. driver = "pdo" => r.k \in {"set", "raise", "die"}
        BY <4>1 DEF PdoBind, Sets, Raises, Dies
      <4>3. driver = "perl" => r.k \in {"set", "raise", "die"}
        BY DEF BindResults, PerlBindParam, PerlBind, Sets, Raises, Dies
      <4>4. driver = "ruby" => r.k \in {"set", "raise", "die"}
        BY DEF BindResults, RubyBind, RubySetter, Sets, Raises
      <4>5. driver \in {"net", "node"} => r.k \in {"set", "raise", "die"}
        BY DEF BindResults, NetBind, Sets, Raises
      <4> QED BY <1>3, <1>7, <4>2, <4>3, <4>4, <4>5
    <3> QED BY <1>5, <3>1
  <2> QED BY <1>2, <1>3, <2>1, <2>2 DEF PathInv
<1> QED BY <1>6, <1>7

\* Nothing but what is read changes.
LEMMA RowStays ==
  ASSUME UNCHANGED <<driver, row>>
  PROVE  \A e, i : Right(e, i)' <=> Right(e, i)
<1>1. \A w : (Shows(w)' <=> Shows(w)) /\ NetFieldType(w)' = NetFieldType(w)
  BY DEF Shows, NetFieldType
<1> QED BY <1>1 DEF Right

LEMMA EntryIsAdded ==
  ASSUME ReadInv, Len(got) < 2, NEW e, Right(e, Len(got) + 1), got' = Append(got, e),
         UNCHANGED <<driver, call, row, columns>>
  PROVE  ReadInv'
<1>1. \A f, i : Right(f, i)' <=> Right(f, i)
  BY RowStays
<1>2. \A a : Takes(a)' <=> Takes(a)
  BY DEF Takes
<1>3. CASE got = <<>>
  <2>1. got' = <<e>> /\ Len(got) = 0
    BY <1>3
  <2>2. ReadsOne(e)'
    BY <1>1, <2>1 DEF ReadsOne
  <2> QED BY <1>2, <2>2 DEF ReadInv
<1>4. CASE \E f : ReadsOne(f)
  <2>1. PICK f : ReadsOne(f)
    BY <1>4
  <2>2. got' = <<f, e>> /\ Len(got) = 1
    <3>1. got = <<f>> /\ <<f>> \in Seq({f, e}) /\ e \in {f, e} /\ Len(<<f>>) = 1 /\ <<f>>[1] = f
      BY <2>1 DEF ReadsOne
    <3>2. /\ Append(<<f>>, e) \in Seq({f, e}) /\ Len(Append(<<f>>, e)) = 2
          /\ Append(<<f>>, e)[1] = f /\ Append(<<f>>, e)[2] = e
      BY <3>1, AppendProperties
    <3>3. /\ <<f, e>> \in Seq({f, e}) /\ Len(<<f, e>>) = 2
          /\ <<f, e>>[1] = f /\ <<f, e>>[2] = e
      OBVIOUS
    <3>4. \A i \in 1..2 : Append(<<f>>, e)[i] = <<f, e>>[i]
      <4>1. \A i \in 1..2 : i = 1 \/ i = 2
        OBVIOUS
      <4> QED BY <3>2, <3>3, <4>1, Zenon
    <3>5. Append(<<f>>, e) = <<f, e>>
      BY <3>2, <3>3, <3>4, SeqEqual
    <3> QED BY <3>1, <3>5
  <2>3. ReadsTwo(f, e)'
    <3>1. Right(f, 1)
      BY <2>1 DEF ReadsOne
    <3>2. Right(e, 2)
      BY <2>2
    <3> QED BY <1>1, <2>2, <3>1, <3>2 DEF ReadsTwo
  <2> QED BY <1>2, <2>3 DEF ReadInv
<1>5. ~\E f, g : ReadsTwo(f, g)
  BY DEF ReadsTwo
<1> QED BY <1>3, <1>4, <1>5 DEF ReadInv

\* A read that gives a value adds what is right, any other ends the row.
LEMMA ReadingStep ==
  ASSUME PathInv, phase = "read", Len(got) < 2, NEW g, NEW r, r.k \in {"value", "raise", "die"},
         r.k = "value" => Right([g |-> g, w |-> r.w], Len(got) + 1), ReadOutcome(g, r)
  PROVE  PathInv'
<1>1. UNCHANGED <<driver, call, slots, ptype, row, columns>>
  BY DEF ReadOutcome
<1>2. ReadInv /\ driver \in {"pdo", "perl", "ruby", "net", "node"}
      /\ slots \in [Column -> RowValue \cup {As("unset", Null)}] /\ ptype \in [Column -> SqlTypes]
  BY DEF PathInv
<1>3. CASE r.k = "value"
  <2>1. got' = Append(got, [g |-> g, w |-> r.w]) /\ phase' = "read"
    BY <1>3 DEF ReadOutcome
  <2>2. ReadInv'
    BY <1>1, <1>2, <1>3, <2>1, EntryIsAdded
  <2> QED BY <1>1, <1>2, <2>1, <2>2 DEF PathInv
<1>4. CASE r.k \in {"raise", "die"}
  <2>1. phase' \in {"raised", "dead"}
    BY <1>4 DEF ReadOutcome
  <2> QED BY <1>1, <1>2, <2>1 DEF PathInv
<1> QED BY <1>3, <1>4

LEMMA ReadKinds ==
  ASSUME NEW w
  PROVE  /\ driver \in {"pdo", "perl", "ruby", "net", "node"} => ColumnRead(w).k \in {"value", "raise", "die"}
         /\ NetColumn(w).k = "value"
         /\ \A g \in DOMAIN GetterTypes : NetGetter(g, w).k \in {"value", "raise", "die"}
<1>1. PdoColumn(w).k \in {"value", "raise", "die"}
  BY DEF PdoColumn, Gives, DiesRead
<1>2. PerlColumn(w).k \in {"value", "raise", "die"}
  BY DEF PerlColumn, Gives
<1>3. \A get : RubyGetter(get, w).k \in {"value", "raise", "die"}
  BY DEF RubyGetter, Gives, RaisesRead
<1>4. RubyColumn(w).k \in {"value", "raise", "die"}
  BY <1>3 DEF RubyColumn, RaisesRead
<1>5. NetColumn(w).k = "value"
  BY DEF NetColumn, Gives
<1>6. NodeColumn(w).k \in {"value", "raise", "die"}
  BY DEF NodeColumn, Gives, DiesRead
<1>7. \A g \in DOMAIN GetterTypes : NetGetter(g, w).k \in {"value", "raise", "die"}
  BY <1>5 DEF NetGetter, Gives, RaisesRead
<1> QED BY <1>1, <1>2, <1>4, <1>5, <1>6, <1>7 DEF ColumnRead

\* A name finds the first column that has it.
LEMMA NamesFind ==
  ASSUME columns \in {<<"a", "b">>, <<"a", "a">>}, NEW i \in Column, NEW name \in {columns[i], "c"}
  PROVE  /\ name = "c" => NetNamed(name) = RaisesRead
         /\ (name # "c" /\ \A j \in 1..i-1 : columns[j] # name) => NetNamed(name) = NetColumn(row[i])
         /\ \A w : NetColumn(w).k = "value" => NetNamed(name).k \in {"value", "raise"}
<1>1. /\ \A j \in Column : columns[j] # "c"
      /\ columns[1] = "a"
  BY DEF Column
<1>2. ASSUME name = "c" PROVE NetNamed(name) = RaisesRead
  <2>1. NetOrdinal(name) = {}
    BY <1>1, <1>2 DEF NetOrdinal
  <2> QED BY <2>1 DEF NetNamed
<1>3. ASSUME name # "c", \A j \in 1..i-1 : columns[j] # name
      PROVE  NetNamed(name) = NetColumn(row[i])
  <2>1. name = columns[i]
    BY <1>3
  <2>2. NetOrdinal(name) = {i}
    <3>1. i \in NetOrdinal(name)
      BY <1>3, <2>1 DEF NetOrdinal
    <3>2. ASSUME NEW j \in NetOrdinal(name) PROVE j = i
      <4>1. j \in Column /\ columns[j] = name /\ \A k \in 1..j-1 : columns[k] # name
        BY <3>2 DEF NetOrdinal
      <4>2. CASE i = 1
        BY <2>1, <4>1, <4>2 DEF Column
      <4>3. CASE i = 2
        BY <1>3, <4>1, <4>3 DEF Column
      <4> QED BY <4>2, <4>3 DEF Column
    <3> QED BY <3>1, <3>2
  <2> QED BY <2>2 DEF NetNamed
<1>4. NetNamed(name).k \in {"value", "raise"}
  BY ReadKinds DEF NetNamed, RaisesRead
<1> QED BY <1>2, <1>3, <1>4

LEMMA ReadingKeeps ==
  ASSUME PathInv, ReadNext \/ ReadTyped \/ ReadNamed
  PROVE  PathInv'
<1> DEFINE i == Len(got) + 1
<1>1. /\ phase = "read" /\ Len(got) < 2 /\ ReadInv
      /\ driver \in {"pdo", "perl", "ruby", "net", "node"}
  BY DEF ReadNext, ReadTyped, ReadNamed, PathInv
<1>2. i \in Column /\ Len(got) + 1 \in Column
  <2>1. Len(got) \in {0, 1, 2}
    BY <1>1 DEF ReadInv, ReadsOne, ReadsTwo
  <2> QED BY <1>1, <2>1 DEF Column
<1> HIDE DEF i
<1>3. row[i] \in RowValue /\ (driver = "net" => columns \in {<<"a", "b">>, <<"a", "a">>}) /\ i = Len(got) + 1
  BY <1>1, <1>2 DEF ReadInv, i
<1>4. CASE ReadNext
  <2>1. ReadOutcome("item", ColumnRead(row[i]))
    BY <1>4 DEF ReadNext, i
  <2> DEFINE r == ColumnRead(row[i])
  <2>2. r.k \in {"value", "raise", "die"}
    BY <1>1, ReadKinds
  <2>3. r.k = "value" => Right([g |-> "item", w |-> r.w], i)
    BY <1>1, <1>3, ReadsAreRight DEF Right
  <2> HIDE DEF r
  <2>4. ReadOutcome("item", r)
    BY <2>1 DEF r
  <2> QED BY <1>1, <1>3, <2>2, <2>3, <2>4, ReadingStep
<1>5. CASE ReadTyped
  <2>1. PICK g \in DOMAIN GetterTypes :
          ReadOutcome(IF g \in Narrowing THEN g ELSE "getter", NetGetter(g, row[i]))
    BY <1>5 DEF ReadTyped, i
  <2> DEFINE r == NetGetter(g, row[i])
             h == IF g \in Narrowing THEN g ELSE "getter"
  <2>2. driver = "net" /\ r.k \in {"value", "raise", "die"}
    BY <1>5, ReadKinds DEF ReadTyped
  <2>3. /\ h # "item" /\ h # "named"
        /\ \A c : Keeps(h, c) => Keeps(g, c)
    BY DEF Narrowing, Keeps, GetterTypes
  <2>4. ReadOutcome(h, r)
    BY <2>1
  <2>5. ASSUME r.k = "value" PROVE Right([g |-> h, w |-> r.w], i)
    <3>1. ASSUME Shows(row[i]), Keeps(h, row[i].c)
          PROVE  r.w.c = row[i].c
      BY <1>3, <2>2, <2>3, <2>5, <3>1, GettersAreRight
    <3> HIDE DEF r, h
    <3> QED BY <2>3, <3>1 DEF Right
  <2> HIDE DEF r, h
  <2> QED BY <1>1, <1>3, <2>2, <2>4, <2>5, ReadingStep
<1>6. CASE ReadNamed
  <2> DEFINE h(name) == IF \E j \in 1..i-1 : columns[j] = name THEN "named" ELSE "item"
  <2>0. driver = "net" /\ columns \in {<<"a", "b">>, <<"a", "a">>}
    BY <1>3, <1>6 DEF ReadNamed
  <2>1. PICK name \in {columns[i], "c"} : ReadOutcome(h(name), NetNamed(name))
    BY <1>6 DEF ReadNamed, i
  <2> DEFINE r == NetNamed(name)
  <2>2. r.k \in {"value", "raise", "die"}
    BY <1>2, <2>0, NamesFind, ReadKinds DEF i
  <2>3. ASSUME r.k = "value" PROVE Right([g |-> h(name), w |-> r.w], i)
    <3>1. name # "c"
      BY <1>2, <2>0, <2>3, NamesFind DEF RaisesRead, i
    <3>2. CASE \E j \in 1..i-1 : columns[j] = name
      BY <3>2 DEF Right, Keeps
    <3>3. CASE ~\E j \in 1..i-1 : columns[j] = name
      <4>1. r = NetColumn(row[i])
        BY <1>2, <2>0, <3>1, <3>3, NamesFind DEF i
      <4>2. r.w.t = NetFieldType(row[i]) /\ (Shows(row[i]) => r.w.c = row[i].c)
        <5>1. Shows(row[i]) => row[i].c \notin {Null, Text(2)}
          BY <2>0 DEF Shows
        <5> QED BY <1>3, <4>1, <5>1, NetReads
      <4> HIDE DEF r
      <4> QED BY <3>3, <4>2 DEF Right
    <3> QED BY <3>2, <3>3
  <2> HIDE DEF r, h
  <2>4. ReadOutcome(h(name), r)
    BY <2>1 DEF r
  <2> QED BY <1>1, <1>3, <2>2, <2>3, <2>4, ReadingStep
<1> QED BY <1>4, <1>5, <1>6

LEMMA WholeRowIsRight ==
  ASSUME PathInv, ReadValues
  PROVE  PathInv'
<1>1. /\ phase = "read" /\ ReadInv /\ driver = "net"
      /\ UNCHANGED <<driver, phase, call, slots, ptype, row, columns>>
  BY DEF ReadValues, PathInv
<1> DEFINE e(i) == [g |-> "item", w |-> NetColumn(row[i]).w]
<1>2. \A i \in Column : Right(e(i), i)
  <2> SUFFICES ASSUME NEW i \in Column PROVE Right(e(i), i)
    OBVIOUS
  <2>1. row[i] \in RowValue
    BY <1>1 DEF ReadInv
  <2>2. NetColumn(row[i]).w.t = NetFieldType(row[i])
        /\ (Shows(row[i]) => NetColumn(row[i]).w.c = row[i].c)
    <3>1. Shows(row[i]) => row[i].c \notin {Null, Text(2)}
      BY <1>1 DEF Shows
    <3> QED BY <2>1, <3>1, NetReads
  <2> QED BY <2>2 DEF Right
<1>3. got' = <<e(1), e(2)>>
  BY DEF ReadValues, Column
<1> HIDE DEF e
<1>4. PICK f, g : f = e(1) /\ g = e(2)
  OBVIOUS
<1>5. ReadInv'
  <2>1. \A a : Takes(a)' <=> Takes(a)
    BY <1>1 DEF Takes
  <2>2. Right(f, 1)' /\ Right(g, 2)'
    <3>1. \A x, i : Right(x, i)' <=> Right(x, i)
      BY <1>1, RowStays
    <3> QED BY <1>2, <1>4, <3>1 DEF Column
  <2>3. ReadsTwo(f, g)'
    BY <1>3, <1>4, <2>2 DEF ReadsTwo
  <2> QED BY <1>1, <2>1, <2>3 DEF ReadInv
<1> QED BY <1>1, <1>5 DEF PathInv
-----------------------------------------------------------------------------
\* Values survive the way through the drivers, for any whole numbers and any
\* two widths.
THEOREM ValuesAreKept == PathSpec => []ValuesSurvive
<1>1. PathInit => PathInv
  BY DEF PathInit, PathInv, SqlTypes
<1>2. PathInv /\ [PathNext]_pathVars => PathInv'
  <2> SUFFICES ASSUME PathInv, [PathNext]_pathVars PROVE PathInv'
    OBVIOUS
  <2>0. /\ driver \in {"pdo", "perl", "ruby", "net", "node"}
        /\ slots \in [Column -> RowValue \cup {As("unset", Null)}] /\ ptype \in [Column -> SqlTypes]
    BY DEF PathInv
  <2>1. CASE StartCall
    <3>1. /\ call' \in [Column -> Argument] /\ phase' = "bind1" /\ got = <<>>
          /\ UNCHANGED <<driver, slots, row, columns, got>>
      BY <2>1 DEF StartCall, PathInv
    <3>2. Argument' = Argument
      BY <3>1 DEF Argument
    <3>3. ptype' \in [Column -> SqlTypes] /\ (driver = "pdo" => \A i \in Column : Told(i)')
      <4>1. CASE driver = "pdo"
        <5>1. ptype' = [i \in Column |-> PdoType(i, call'[i])]
          BY <2>1, <4>1 DEF StartCall
        <5>2. \A i \in Column : PdoType(i, call'[i]) \in SqlTypes
          BY <2>0 DEF PdoType, SqlTypes
        <5>3. \A i \in Column : Told(i)'
          BY <5>1 DEF Told, PdoType
        <5> QED BY <5>1, <5>2, <5>3
      <4>2. CASE driver # "pdo"
        BY <2>0, <2>1, <4>2 DEF StartCall
      <4> QED BY <4>1, <4>2
    <3> QED BY <2>0, <3>1, <3>2, <3>3 DEF PathInv
  <2>2. ASSUME NEW i \in Column, BindNext(i) PROVE PathInv'
    BY <2>2, BindingStep
  <2>3. CASE RunCall
    <3>1. /\ phase' = "read" /\ row' = slots /\ columns' \in ColumnNames /\ got = <<>>
          /\ UNCHANGED <<driver, call, slots, ptype, got>>
          /\ Passed(1) /\ Passed(2)
      BY <2>3 DEF RunCall, PathInv
    <3>2. \A i \in Column : slots[i] \in RowValue /\ (Takes(call[i]) => slots[i].c = call[i].c)
      BY <3>1 DEF Passed, Column
    <3>3. row' \in [Column -> RowValue]
      BY <2>0, <3>1, <3>2
    <3>4. \A a : Takes(a)' <=> Takes(a)
      BY <3>1 DEF Takes
    <3>5. driver = "net" => columns' \in {<<"a", "b">>, <<"a", "a">>}
      BY <3>1 DEF ColumnNames
    <3>6. ReadInv'
      BY <3>1, <3>2, <3>3, <3>4, <3>5 DEF ReadInv
    <3> QED BY <2>0, <3>1, <3>6 DEF PathInv
  <2>4. CASE RunQuery
    <3>1. /\ phase' = "read" /\ row' \in [Column -> Stored] /\ columns' \in ColumnNames
          /\ got = <<>> /\ call = <<>>
          /\ UNCHANGED <<driver, call, slots, ptype, got>>
      BY <2>4 DEF RunQuery, PathInv
    <3>2. row' \in [Column -> RowValue]
      BY <3>1, StoredAreValues
    <3>3. driver = "net" => columns' \in {<<"a", "b">>, <<"a", "a">>}
      BY <3>1 DEF ColumnNames
    <3>4. ReadInv'
      BY <3>1, <3>2, <3>3 DEF ReadInv
    <3> QED BY <2>0, <3>1, <3>4 DEF PathInv
  <2>5. CASE ReadNext \/ ReadTyped \/ ReadNamed
    BY <2>5, ReadingKeeps
  <2>6. CASE ReadValues
    BY <2>6, WholeRowIsRight
  <2>7. CASE EndCall
    BY <2>0, <2>7 DEF EndCall, PathInv
  <2>8. CASE UNCHANGED pathVars
    <3>1. UNCHANGED <<driver, phase, call, slots, ptype, row, columns, got>>
      BY <2>8 DEF pathVars
    <3>2. Argument' = Argument /\ \A i : (Told(i)' <=> Told(i)) /\ (Passed(i)' <=> Passed(i))
      BY <3>1 DEF Argument, Told, Passed, Takes
    <3>3. ReadInv' <=> ReadInv
      <4>1. \A e, i : Right(e, i)' <=> Right(e, i)
        BY <3>1, RowStays
      <4>2. \A e, f : (ReadsOne(e)' <=> ReadsOne(e)) /\ (ReadsTwo(e, f)' <=> ReadsTwo(e, f))
        BY <3>1, <4>1 DEF ReadsOne, ReadsTwo
      <4>3. \A a : Takes(a)' <=> Takes(a)
        BY <3>1 DEF Takes
      <4> QED BY <3>1, <4>2, <4>3 DEF ReadInv
    <3> QED BY <3>1, <3>2, <3>3 DEF PathInv
  <2> QED BY <2>1, <2>2, <2>3, <2>4, <2>5, <2>6, <2>7, <2>8 DEF PathNext
<1>3. PathInv => ValuesSurvive
  <2> SUFFICES ASSUME PathInv, phase = "read" PROVE ValuesSurvive
    BY DEF ValuesSurvive
  <2>1. ReadInv
    BY DEF PathInv
  <2>2. ASSUME NEW i \in DOMAIN got PROVE Right(got[i], i)
    <3>1. CASE got = <<>>
      BY <2>2, <3>1
    <3>2. ASSUME NEW e, ReadsOne(e) PROVE Right(got[i], i)
      <4>1. i = 1 /\ got[1] = e
        BY <2>2, <3>2 DEF ReadsOne
      <4> QED BY <3>2, <4>1 DEF ReadsOne
    <3>3. ASSUME NEW e, NEW f, ReadsTwo(e, f) PROVE Right(got[i], i)
      <4>1. i \in {1, 2} /\ got[1] = e /\ got[2] = f
        BY <2>2, <3>3 DEF ReadsTwo
      <4> QED BY <3>3, <4>1 DEF ReadsTwo
    <3> QED BY <2>1, <3>1, <3>2, <3>3 DEF ReadInv
  <2> QED BY <2>1, <2>2 DEF ValuesSurvive, ReadInv, Right
<1> QED BY <1>1, <1>2, <1>3, PTL DEF PathSpec

-----------------------------------------------------------------------------
\* The four parts of DriverData do not disturb one another, so what is proved of
\* each holds of it: names stay unique, rows are freed once, values survive, and
\* the value bound last to a name is the one at its place.
THEOREM DataKeepsAll ==
  DataSpec => [](NamesAreUnique /\ NodeRowsAreOwned /\ ValuesSurvive /\ NamesFindTheirPlace)
<1> USE DEF DataNext, dataVars, TextStep, ParametersStep, PathStep, NodeStep
<1>1. DataSpec => ParametersSpec
  <2>1. DataInit => ParametersInit
    BY DEF DataInit
  <2>2. [DataNext]_dataVars => [ParametersNext]_parameterVars
    OBVIOUS
  <2> QED BY <2>1, <2>2, PTL DEF DataSpec, ParametersSpec
<1>2. DataSpec => NodeSpec
  <2>1. DataInit => NodeInit
    BY DEF DataInit
  <2>2. [DataNext]_dataVars => [NodeNext]_nodeVars
    OBVIOUS
  <2> QED BY <2>1, <2>2, PTL DEF DataSpec, NodeSpec
<1>3. DataSpec => PathSpec
  <2>1. DataInit => PathInit
    BY DEF DataInit
  <2>2. [DataNext]_dataVars => [PathNext]_pathVars
    OBVIOUS
  <2> QED BY <2>1, <2>2, PTL DEF DataSpec, PathSpec
<1>4. DataSpec => TextSpec
  <2>1. DataInit => TextInit
    BY DEF DataInit
  <2>2. [DataNext]_dataVars => [TextNext]_textVars
    OBVIOUS
  <2> QED BY <2>1, <2>2, PTL DEF DataSpec, TextSpec
<1> QED BY <1>1, <1>2, <1>3, <1>4, NamesStayUnique, RowsAreOwned, ValuesAreKept, NamesArePlaced, PTL
=============================================================================
