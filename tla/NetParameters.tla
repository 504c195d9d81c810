---------------------------- MODULE NetParameters ----------------------------
(***************************************************************************)
(* The parameters of a .NET command: NuoDbParameterCollection, a list of   *)
(* references to NuoDbParameter objects that the application keeps and may *)
(* change while they are in the list.  A command binds by position; the    *)
(* collection finds by name.                                               *)
(*                                                                         *)
(* A call that refuses its argument throws and changes nothing, so it is   *)
(* no action; AddRange alone keeps what it added before the refusal.       *)
(* Remove(Object) is one too: its IndexOf compares the list, not its       *)
(* elements, with the argument and finds nothing.                          *)
(*                                                                         *)
(* collided is history: a parameter in the list was given the name of      *)
(* another one there.                                                      *)
(***************************************************************************)
EXTENDS SequencesExt, Naturals

CONSTANTS Param,    \* parameter objects
          Name,     \* names
          NoName,   \* String::Empty, the name of a new parameter
          Type,     \* NuoDbType, without String
          Value,    \* values, without nullptr
          MaxList   \* bound: length of the list

ASSUME ParameterAssumption == NoName \notin Name /\ MaxList \in Nat

VARIABLES list, field, collided

parameterVars == <<list, field, collided>>

\* NuoDbParameter's constructor.
NewParameter == [name |-> NoName, type |-> "String", version |-> "Original", value |-> "nullptr"]

FieldType == [name : Name \cup {NoName}, type : Type \cup {"String"},
              version : {"Original", "Current"}, value : Value \cup {"nullptr"}]

ParametersTypeOK ==
  /\ list \in Seq(Param)
  /\ field \in [Param -> FieldType]
  /\ collided \in BOOLEAN

ParametersInit ==
  /\ list = <<>>
  /\ field = [p \in Param |-> NewParameter]
  /\ collided = FALSE

-----------------------------------------------------------------------------
Held(p) == \E i \in DOMAIN list : list[i] = p

HasName(i, n) == field[list[i]].name = n

\* IndexOf(String): the first position with the name.
IsIndexOf(i, n) ==
  /\ i \in DOMAIN list /\ HasName(i, n)
  /\ \A j \in 1..(i - 1) : ~HasName(j, n)

NameIsTaken(n) == \E i \in DOMAIN list : HasName(i, n)

\* What every insertion asks of its argument.
MayEnter(p) == field[p].name # NoName /\ ~NameIsTaken(field[p].name)

\* ParameterName: nobody looks at the lists the parameter is in.
SetName(p, n) ==
  /\ field' = [field EXCEPT ![p].name = n]
  /\ collided' = (collided \/ (Held(p) /\ \E i \in DOMAIN list : list[i] # p /\ HasName(i, n)))
  /\ UNCHANGED list

\* NuoDbType, DbType and ResetDbType.
SetType(p, t) ==
  /\ field' = [field EXCEPT ![p].type = t, ![p].version = "Current"]
  /\ UNCHANGED <<list, collided>>

SetValue(p, v) ==
  /\ field' = [field EXCEPT ![p].value = v, ![p].version = "Current"]
  /\ UNCHANGED <<list, collided>>

-----------------------------------------------------------------------------
\* Add(Object)
AddObject(p) ==
  /\ Len(list) < MaxList /\ MayEnter(p)
  /\ list' = Append(list, p)
  /\ UNCHANGED <<field, collided>>

\* Add(name, type) and its longer forms: a new parameter.
AddNamed(p, n, t) ==
  /\ Len(list) < MaxList
  /\ ~Held(p) /\ field[p] = NewParameter
  /\ ~NameIsTaken(n)
  /\ field' = [field EXCEPT ![p].name = n, ![p].type = t, ![p].version = "Current"]
  /\ list' = Append(list, p)
  /\ UNCHANGED collided

\* Mutant: both are looked up before either is added.
EnterTogether(p, q) == MayEnter(p) /\ MayEnter(q)

\* The second of two finds the first one in the list.
EnterInTurn(p, q) == MayEnter(p) /\ MayEnter(q) /\ field[p].name # field[q].name

\* AddRange of two: both, or when the second is refused the first alone.
AddRange(p, q) ==
  /\ Len(list) + 1 < MaxList /\ MayEnter(p)
  /\ list' = IF EnterInTurn(p, q) THEN list \o <<p, q>> ELSE Append(list, p)
  /\ UNCHANGED <<field, collided>>

\* Insert, which never inserts at the end.
InsertParameter(i, p) ==
  /\ Len(list) < MaxList
  /\ i \in DOMAIN list /\ MayEnter(p)
  /\ list' = InsertAt(list, i, p)
  /\ UNCHANGED <<field, collided>>

\* default[int] and SetParameter(int): a name is taken even by the parameter
\* that would be replaced.
SetAt(i, p) ==
  /\ i \in DOMAIN list /\ MayEnter(p)
  /\ list' = [list EXCEPT ![i] = p]
  /\ UNCHANGED <<field, collided>>

\* default[String] and SetParameter(String).
SetNamed(n, p) ==
  /\ field[p].name = n \/ MayEnter(p)
  /\ \E i \in DOMAIN list : IsIndexOf(i, n) /\ list' = [list EXCEPT ![i] = p]
  /\ UNCHANGED <<field, collided>>

-----------------------------------------------------------------------------
\* RemoveAt(int)
RemoveIndex(i) ==
  /\ i \in DOMAIN list
  /\ list' = RemoveAt(list, i)
  /\ UNCHANGED <<field, collided>>

\* RemoveAt(String)
RemoveNamed(n) ==
  /\ \E i \in DOMAIN list : IsIndexOf(i, n) /\ list' = RemoveAt(list, i)
  /\ UNCHANGED <<field, collided>>

\* Remove(NuoDbParameter): the first reference to p.
RemoveParameter(p) ==
  /\ \E i \in DOMAIN list :
       /\ list[i] = p /\ \A j \in 1..(i - 1) : list[j] # p
       /\ list' = RemoveAt(list, i)
  /\ UNCHANGED <<field, collided>>

ClearList ==
  /\ list # <<>> /\ list' = <<>>
  /\ UNCHANGED <<field, collided>>

ParametersNext ==
  \/ ClearList
  \/ \E p \in Param : AddObject(p) \/ RemoveParameter(p)
  \/ \E p \in Param, q \in Param : AddRange(p, q)
  \/ \E p \in Param, n \in Name : SetName(p, n) \/ SetNamed(n, p)
  \/ \E p \in Param, n \in Name, t \in Type \cup {"String"} : AddNamed(p, n, t)
  \/ \E p \in Param, t \in Type \cup {"String"} : SetType(p, t)
  \/ \E p \in Param, v \in Value \cup {"nullptr"} : SetValue(p, v)
  \/ \E p \in Param, i \in 1..MaxList : InsertParameter(i, p) \/ SetAt(i, p)
  \/ \E i \in 1..MaxList : RemoveIndex(i)
  \/ \E n \in Name : RemoveNamed(n)

ParametersSpec == ParametersInit /\ [][ParametersNext]_parameterVars

-----------------------------------------------------------------------------
\* No sequence of insertions, replacements and removals gives two positions of
\* the collection one name, or one parameter, and none has no name: the
\* application alone does, when it renames a parameter that is in the list.
NamesAreUnique ==
  /\ \A i \in DOMAIN list : ~HasName(i, NoName)
  /\ ~collided => \A i, j \in DOMAIN list : HasName(i, field[list[j]].name) => i = j
=============================================================================
