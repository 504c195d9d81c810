------------------------------ MODULE ValuePath ------------------------------
(***************************************************************************)
(* The way of values through the drivers: from the application to the      *)
(* parameters of a prepared statement, which is kept and executed again,   *)
(* and from the columns of a row back.  A call binds its arguments in      *)
(* order and executes when all are bound; a bind that raises ends it.      *)
(*                                                                         *)
(* A value is its content with the type it has at the moment: formatting   *)
(* and parsing keep the content and change the type.  Contents are numbers *)
(* (counted in halves), texts (0 is empty, 1 has no NUL, 2 is 1 followed   *)
(* by a NUL and more, 3 is the first character of both, 4 the digit zero), *)
(* times (in half seconds), and null; two doubles are too fine and too     *)
(* large for a smaller type.  The server returns what was bound, as it was *)
(* bound.                                                                  *)
(***************************************************************************)
EXTENDS Integers, Sequences

CONSTANTS Whole,      \* the whole numbers in use
          ShortHalf,  \* 2^15 ...
          IntHalf     \* ... and 2^31: half the range of each width

ASSUME WidthAssumption ==
  Whole \subseteq Int /\ ShortHalf \in Nat \ {0} /\ IntHalf \in Nat /\ ShortHalf < IntHalf

VARIABLES driver,   \* which one
          phase,
          call,     \* the arguments of the call, <<>> when it has none
          slots,    \* parameters of the prepared statement
          ptype,    \* PDO: the sqltype of each parameter
          row,      \* the values of a row
          columns,    \* .NET: m_columns, the names the reader keeps
          got       \* what the application has read of them

pathVars == <<driver, phase, call, slots, ptype, row, columns, got>>

Column == 1..2

Null == [form |-> "null", n |-> 0]
Integer(k) == [form |-> "number", n |-> 2 * k]
Real == [form |-> "number", n |-> 1]
Fine == [form |-> "fine", n |-> 1]
Huge == [form |-> "huge", n |-> 1]
Infinity == [form |-> "infinite", n |-> 1]
Text(n) == [form |-> "text", n |-> n]
Time(n) == [form |-> "time", n |-> n]

As(t, c) == [t |-> t, c |-> c]

Zero(c) == IF c = Null THEN Integer(0) ELSE c

\* A char pointer ends at the first NUL.
Cut(c) == IF c = Text(2) THEN Text(1) ELSE c

\* C's narrowing, and the range it keeps.
WrapTo(half, c) == [c EXCEPT !.n = 2 * ((((c.n \div 2) + half) % (2 * half)) - half)]

Fits(half, c) == c.form = "number" => -2 * half <= c.n /\ c.n < 2 * half

-----------------------------------------------------------------------------
\* A bind sets a parameter, raises, or ends the process.
Sets(w) == {[k |-> "set", w |-> w]}
Raises == {[k |-> "raise", w |-> As("unset", Null)]}
Dies == {[k |-> "die", w |-> As("unset", Null)]}

\* Mutant: the type of the first bind is kept.
FirstType(i, a) ==
  IF ptype[i] # "none" THEN ptype[i]
  ELSE CASE a.t = "int" -> "INTEGER"
         [] a.t \in {"text", "nil"} -> "STRING"
         [] a.t = "bytes" -> "BLOB"
         [] OTHER -> "none"

\* PDO_PARAM_EVT_NORMALIZE: a type it does not know leaves the one before.
PdoType(i, a) ==
  CASE a.t = "int" -> "INTEGER"
    [] a.t \in {"text", "nil"} -> "STRING"
    [] a.t = "bytes" -> "BLOB"
    [] OTHER -> ptype[i]

\* The setters of PdoNuoDbStatement: an int, a char pointer, a pointer with its
\* length.
PdoSetter(type, c) ==
  CASE type = "INTEGER" -> As("integer", WrapTo(IntHalf, c))
    [] type = "STRING" -> As("string", Cut(c))
    [] OTHER -> As("blob", c)

\* The type PHP keeps a value of each sqltype as.
PhpType == [INTEGER |-> "int", STRING |-> "text", BLOB |-> "bytes"]

\* PDO_PARAM_EVT_EXEC_PRE: the value is read as a long or as a char pointer,
\* whatever it is.
PdoBind(type, a) ==
  IF type = "none" THEN Raises
  ELSE IF type = "INTEGER" \/ a.t = PhpType[type] THEN Sets(PdoSetter(type, a.c))
  ELSE Dies \cup Sets(As("string", Text(0)))

\* dbd_bind_ph: Perl's own text of the value, undef being empty.
PerlBind(a) ==
  IF a.c = Text(2) THEN Sets(As("blob", a.c))
  ELSE Sets(As("string", IF a.c = Null THEN Text(0) ELSE a.c))

\* bind_param and bind_param_inout of the glue, whatever type their attributes
\* name; the driver croaks at a value bound by reference.
PerlBindParam(a) == PerlBind(a) \cup Raises

\* The setters of WrapPreparedStatement: NUM2INT checks its range, a boolean is
\* an int, a time a timestamp.
RubySetter(set, c) ==
  CASE set = "setInteger" -> IF Fits(IntHalf, c) THEN Sets(As("integer", c)) ELSE Raises
    [] set = "setBoolean" -> Sets(As("integer", c))
    [] set = "setDouble" -> Sets(As("double", c))
    [] set = "setString" -> Sets(As("string", Cut(c)))
    [] OTHER -> Sets(As("timestamp", c))

\* exec_query's choice of a setter by the class of the value.
RubyBind(a) ==
  CASE a.t = "int" -> RubySetter("setInteger", a.c)
    [] a.t = "bool" -> RubySetter("setBoolean", a.c)
    [] a.t = "float" -> RubySetter("setDouble", a.c)
    [] a.t \in {"text", "bytes"} -> RubySetter("setString", a.c)
    [] a.t = "time" -> RubySetter("setTime", a.c)
    [] OTHER -> Raises

\* DateTime::MinValue, long before any time a query uses.
MinTime == Time(-2)

\* The setters of NuoDbCommand::Execute, by the type of the parameter.
NetSetter(t, c) ==
  CASE t = "bool" -> As("boolean", Zero(c))
    [] t = "int" -> As("integer", Zero(c))
    [] t = "long" -> As("bigint", Zero(c))
    [] t = "float" -> As("double", Zero(c))
    [] t = "time" -> As("timestamp", IF c = Null THEN MinTime ELSE c)
    [] OTHER -> As("string", IF c = Null THEN Text(0) ELSE Cut(c))

\* Convert checks ranges.  A null reference converts to 0, false or MinValue and
\* has no ToString; a DBNull is not converted and its ToString is empty.
NetBind(a) ==
  IF a.c = Null THEN Sets(NetSetter(a.t, Null)) \cup Raises
  ELSE IF a.t = "bytes" \/ (a.t = "int" /\ ~Fits(IntHalf, a.c)) THEN Raises
  ELSE Sets(NetSetter(a.t, a.c))

BindResults(i, a) ==
  CASE driver = "pdo" -> PdoBind(ptype[i], a)
    [] driver = "perl" -> PerlBindParam(a)
    [] driver = "ruby" -> RubyBind(a)
    [] OTHER -> NetBind(a)

\* What the application may pass to each.
Argument ==
  [t : {"int"}, c : {Integer(k) : k \in Whole}] \cup [t : {"text"}, c : {Text(n) : n \in 0..2}]
    \cup [t : {"bool"}, c : {Integer(0), Integer(1)}] \cup {As("nil", Null)}
    \cup (IF driver = "pdo" THEN [t : {"bytes"}, c : {Text(n) : n \in 0..2}]
          ELSE [t : {"float"}, c : {Real}] \cup [t : {"time"}, c : {Time(3)}])
    \cup (IF driver = "net"
          THEN [t : {"long"}, c : {Integer(k) : k \in Whole}]
                 \cup [t : {"bool", "int", "long", "float", "time"}, c : {Null}]
          ELSE {})

-----------------------------------------------------------------------------
\* A read returns a value, raises, or ends the process.
Gives(t, c) == [k |-> "value", w |-> As(t, c)]
RaisesRead == [k |-> "raise", w |-> As("nil", Null)]
DiesRead == [k |-> "die", w |-> As("nil", Null)]

Dates == {"date", "time", "timestamp"}

\* getSqlType: the driver's own types, fewer than the server's.
PdoSqlType ==
  [boolean |-> "BOOLEAN", smallint |-> "INTEGER", integer |-> "INTEGER", bigint |-> "BIGINT",
   double |-> "DOUBLE", string |-> "STRING", blob |-> "BLOB", clob |-> "CLOB",
   date |-> "DATE", time |-> "TIME", timestamp |-> "TIMESTAMP"]

PdoDates == {"DATE", "TIME", "TIMESTAMP"}

\* The getters of PdoNuoDbStatement: zero for a null number, whole seconds.
PdoGetter(w) ==
  CASE PdoSqlType[w.t] \in {"INTEGER", "BIGINT"} -> Zero(w.c)
    [] PdoSqlType[w.t] \in PdoDates -> Time(2 * (w.c.n \div 2))
    [] OTHER -> w.c

\* nuodb_stmt_describe: what PDO takes the bytes of a column for.
PdoParamType(w) ==
  CASE PdoSqlType[w.t] = "BOOLEAN" -> "bool"
    [] PdoSqlType[w.t] \in PdoDates -> "int"
    [] OTHER -> "text"

\* nuodb_stmt_get_col: the bytes, which are a text, an int's worth of a bigint as
\* a text, a long, or none: for booleans, doubles, nulls and empty blobs.
PdoBytes(w) ==
  LET y == PdoSqlType[w.t] IN
    CASE y = "INTEGER" -> As("text", PdoGetter(w))
      [] y = "BIGINT" -> As("text", WrapTo(IntHalf, PdoGetter(w)))
      [] y = "STRING" /\ w.c # Null -> As("text", Cut(PdoGetter(w)))
      [] y \in PdoDates -> As("int", PdoGetter(w))
      [] y \in {"BLOB", "CLOB"} /\ w.c # Text(0) -> As("text", PdoGetter(w))
      [] OTHER -> As("nil", Null)

\* PDO reads the bytes as the type it was told, whatever they are.
PdoColumn(w) ==
  CASE PdoBytes(w).t = "nil" -> Gives("nil", Null)
    [] PdoBytes(w).t = PdoParamType(w) -> Gives(PdoBytes(w).t, PdoBytes(w).c)
    [] OTHER -> DiesRead

\* dbd_st_fetch
PerlColumn(w) == IF w.c = Null THEN Gives("nil", Null) ELSE Gives("text", Cut(w.c))

\* getType of WrapResultSetMetaData
RubyType ==
  [boolean |-> "SQL_BOOLEAN", smallint |-> "SQL_SMALLINT", integer |-> "SQL_INTEGER",
   bigint |-> "SQL_BIGINT", double |-> "SQL_DOUBLE", string |-> "SQL_STRING",
   blob |-> "SQL_BLOB", clob |-> "SQL_CLOB",
   date |-> "SQL_DATE", time |-> "SQL_TIME", timestamp |-> "SQL_TIMESTAMP"]

\* The getters of WrapResultSet; a Ruby string, which dates are too, is not made
\* from a null pointer.
RubyGetter(get, w) ==
  CASE get = "getInteger" -> Gives("int", Zero(w.c))
    [] get = "getDouble" -> Gives("float", Zero(w.c))
    [] get = "getBoolean" -> Gives("bool", Zero(w.c))
    [] OTHER -> IF w.c = Null THEN RaisesRead ELSE Gives("text", Cut(w.c))

\* next_row's choice of a getter; other types raise.
RubyColumn(w) ==
  LET y == RubyType[w.t] IN
    CASE y = "SQL_INTEGER" -> RubyGetter("getInteger", w)
      [] y = "SQL_DOUBLE" -> RubyGetter("getDouble", w)
      [] y = "SQL_BOOLEAN" -> RubyGetter("getBoolean", w)
      [] y = "SQL_STRING" -> RubyGetter("getString", w)
      [] y \in {"SQL_DATE", "SQL_TIME", "SQL_TIMESTAMP"} -> RubyGetter("getTimestamp", w)
      [] OTHER -> RaisesRead

\* NuoDbColumnInfo: the type of a column; types it does not know are strings.
NetType ==
  [boolean |-> "Boolean", smallint |-> "String", integer |-> "Integer", bigint |-> "BigInt",
   double |-> "Double", string |-> "String", blob |-> "String", clob |-> "String",
   date |-> "Date", time |-> "Time", timestamp |-> "DateTime"]

\* The indexer of NuoDbDataReader.
NetColumn(w) ==
  CASE NetType[w.t] \in {"Boolean", "Integer", "BigInt", "Double"} -> Gives(NetType[w.t], Zero(w.c))
    [] NetType[w.t] \in {"Date", "Time", "DateTime"} -> Gives("DateTime", w.c)
    [] OTHER -> Gives("String", IF w.c = Null THEN Text(0) ELSE Cut(w.c))

\* What GetDataTypeName tells the application, and GetFieldType by its class.
NetFieldType(w) ==
  CASE NetType[w.t] \in {"Boolean", "Integer", "BigInt", "Double"} -> NetType[w.t]
    [] NetType[w.t] \in {"Date", "Time", "DateTime"} -> "DateTime"
    [] OTHER -> "String"

\* Result::row: a std::string is not made from a null pointer, and the error
\* is no node_db::Exception.
NodeColumn(w) == IF w.c = Null THEN DiesRead ELSE Gives("text", Cut(w.c))

ColumnRead(w) ==
  CASE driver = "pdo" -> PdoColumn(w)
    [] driver = "perl" -> PerlColumn(w)
    [] driver = "ruby" -> RubyColumn(w)
    [] driver = "net" -> NetColumn(w)
    [] OTHER -> NodeColumn(w)

\* ExtractMetadata copies the names of the columns.  Stored ones have names of
\* their own, parameters that a statement returns may have the same.
ColumnNames ==
  IF driver # "net" THEN {<<>>}
  ELSE {<<"a", "b">>} \cup (IF call = <<>> THEN {} ELSE {<<"a", "a">>})

\* GetOrdinal: the first column of that name, or none.
NetOrdinal(name) == {i \in Column : columns[i] = name /\ \A j \in 1..i-1 : columns[j] # name}

\* The indexer by name.
NetNamed(name) ==
  IF NetOrdinal(name) = {} THEN RaisesRead ELSE NetColumn(row[CHOOSE i \in NetOrdinal(name) : TRUE])

\* The typed getters of NuoDbDataReader and the types each takes (GetBoolean,
\* which does not ask, is only used on booleans here).
GetterTypes ==
  [GetBoolean |-> {"Boolean"}, GetInt16 |-> {"Integer", "BigInt"}, GetInt32 |-> {"Integer"},
   GetInt64 |-> {"BigInt"}, GetDecimal |-> {"Double"}, GetDouble |-> {"Double"},
   GetFloat |-> {"Double"}, GetDateTime |-> {"DateTime"}, GetString |-> {"String"},
   GetChar |-> {"String"}, GetChars |-> {"String"}]

\* GetInt16 reads an int and makes it a short; GetChar gives a zero for an empty
\* string, and else the first character; GetFloat and GetDecimal round a double,
\* and one that is out of range is infinite or raises.
NetGetter(g, w) ==
  IF NetType[w.t] \notin GetterTypes[g] \/ (g = "GetDecimal" /\ w.c = Huge) THEN RaisesRead
  ELSE CASE g = "GetInt16" -> Gives("int", WrapTo(ShortHalf, Zero(w.c)))
         [] g = "GetChar" -> Gives("char", IF w.c \in {Null, Text(0)} THEN Text(4) ELSE Text(3))
         [] g \in {"GetFloat", "GetDecimal"} ->
              Gives("float", CASE w.c = Fine -> Real [] w.c = Huge -> Infinity [] OTHER -> Zero(w.c))
         [] OTHER -> NetColumn(w)

\* The getters that lose something.
Narrowing == {"GetInt16", "GetChar", "GetFloat", "GetDecimal"}

\* What only these tell apart is stored for .NET alone.
Stored ==
  [t : {"boolean"}, c : {Integer(0), Integer(1), Null}] \cup [t : {"double"}, c : {Real, Null}]
    \cup [t : {"smallint"}, c : {c \in {Integer(k) : k \in Whole} : Fits(ShortHalf, c)} \cup {Null}]
    \cup [t : {"integer"}, c : {c \in {Integer(k) : k \in Whole} : Fits(IntHalf, c)} \cup {Null}]
    \cup [t : {"bigint"}, c : {Integer(k) : k \in Whole} \cup {Null}]
    \cup [t : {"string"}, c : {Text(0), Text(1), Text(2), Null}] \cup [t : {"blob"}, c : {Text(0), Text(2)}]
    \cup [t : {"clob"}, c : {Text(0), Text(1)}]
    \cup [t : Dates, c : {Time(2), Time(3)}]
    \cup (IF driver = "net" THEN [t : {"double"}, c : {Fine, Huge}] \cup [t : {"string"}, c : {Text(3)}]
          ELSE {})

-----------------------------------------------------------------------------
PathInit ==
  /\ driver \in {"pdo", "perl", "ruby", "net", "node"}
  /\ phase = "idle"
  /\ call = <<>>
  /\ slots = [i \in Column |-> As("unset", Null)]
  /\ ptype = [i \in Column |-> "none"]
  /\ row = <<>> /\ columns = <<>> /\ got = <<>>

\* Two arguments; PDO is told their types at once.  What was bound before stays
\* in the statement.
StartCall ==
  /\ phase = "idle" /\ driver # "node"
  /\ call' \in [Column -> Argument]
  /\ phase' = "bind1"
  /\ ptype' = IF driver = "pdo" THEN [i \in Column |-> PdoType(i, call'[i])] ELSE ptype
  /\ UNCHANGED <<driver, slots, row, columns, got>>

BindNext(i) ==
  /\ phase = IF i = 1 THEN "bind1" ELSE "bind2"
  /\ \E r \in BindResults(i, call[i]) :
       /\ slots' = IF r.k = "set" THEN [slots EXCEPT ![i] = r.w] ELSE slots
       /\ phase' = CASE r.k = "raise" -> "raised" [] r.k = "die" -> "dead"
                     [] OTHER -> IF i = 1 THEN "bind2" ELSE "run"
  /\ UNCHANGED <<driver, call, ptype, row, columns, got>>

\* The statement returns its parameters.
RunCall ==
  /\ phase = "run"
  /\ row' = slots /\ columns' \in ColumnNames
  /\ phase' = "read"
  /\ UNCHANGED <<driver, call, slots, ptype, got>>

\* A query without arguments, over what is stored.
RunQuery ==
  /\ phase = "idle"
  /\ row' \in [Column -> Stored] /\ columns' \in ColumnNames
  /\ phase' = "read"
  /\ UNCHANGED <<driver, call, slots, ptype, got>>

ReadOutcome(g, r) ==
  /\ got' = IF r.k = "value" THEN Append(got, [g |-> g, w |-> r.w]) ELSE got
  /\ phase' = CASE r.k = "value" -> "read" [] r.k = "die" -> "dead" [] OTHER -> "raised"
  /\ UNCHANGED <<driver, call, slots, ptype, row, columns>>

ReadNext ==
  /\ phase = "read" /\ Len(got) < 2
  /\ ReadOutcome("item", ColumnRead(row[Len(got) + 1]))

ReadTyped ==
  /\ phase = "read" /\ Len(got) < 2 /\ driver = "net"
  /\ \E g \in DOMAIN GetterTypes :
       ReadOutcome(IF g \in Narrowing THEN g ELSE "getter", NetGetter(g, row[Len(got) + 1]))

\* By name, which may be that of no column.
ReadNamed ==
  /\ phase = "read" /\ Len(got) < 2 /\ driver = "net"
  /\ LET i == Len(got) + 1 IN
       \E name \in {columns[i], "c"} :
         ReadOutcome(IF \E j \in 1..i-1 : columns[j] = name THEN "named" ELSE "item",
                     NetNamed(name))

\* GetValues reads the whole row.
ReadValues ==
  /\ phase = "read" /\ got = <<>> /\ driver = "net"
  /\ got' = [i \in Column |-> [g |-> "item", w |-> NetColumn(row[i]).w]]
  /\ UNCHANGED <<driver, phase, call, slots, ptype, row, columns>>

EndCall ==
  /\ phase = "raised" \/ (phase = "read" /\ Len(got) = 2)
  /\ phase' = "idle" /\ call' = <<>> /\ row' = <<>> /\ columns' = <<>> /\ got' = <<>>
  /\ UNCHANGED <<driver, slots, ptype>>

PathNext ==
  \/ StartCall \/ RunCall \/ RunQuery \/ ReadNext \/ ReadTyped \/ ReadNamed \/ ReadValues \/ EndCall
  \/ \E i \in Column : BindNext(i)

PathSpec == PathInit /\ [][PathNext]_pathVars

-----------------------------------------------------------------------------
\* The arguments a driver keeps: only PDO narrows them, all but Perl cut them, a
\* null none does.
Takes(a) ==
  CASE driver = "pdo" -> a.t \in {"int", "text", "bytes"} /\ Fits(IntHalf, a.c)
                           /\ (a.t = "text" => a.c # Text(2))
    [] driver = "perl" -> a.c # Null
    [] OTHER -> a.c \notin {Null, Text(2)}

\* The columns it shows.
Shows(w) ==
  CASE driver = "pdo" -> \/ w.t \in {"smallint", "integer", "bigint"} /\ w.c # Null /\ Fits(IntHalf, w.c)
                         \/ w.t = "string" /\ w.c # Text(2)
                         \/ w.t \in Dates /\ w.c.n % 2 = 0
                         \/ w.t \in {"blob", "clob"} /\ w.c # Text(0)
    [] driver = "perl" -> w.c # Text(2)
    [] OTHER -> w.c \notin {Null, Text(2)}

\* A read by a getter that keeps it; by a name, only the first column that has it.
Keeps(g, c) ==
  /\ g = "GetInt16" => Fits(ShortHalf, c)
  /\ g = "GetChar" => c = Text(3)
  /\ g \in {"GetFloat", "GetDecimal"} => c \notin {Fine, Huge}
  /\ g # "named"

\* A statement that is executed again has for each parameter the value of this
\* call, not of one before it, also when that one raised half way; and the
\* application reads from a column what is stored there, also when it asks for
\* the column by a name no column before it has.  Takes, Shows and Keeps leave out
\* the conversions that lose something.
ValuesSurvive ==
  phase = "read" =>
    /\ call # <<>> => \A i \in Column : Takes(call[i]) => row[i].c = call[i].c
    /\ \A i \in DOMAIN got :
         /\ Shows(row[i]) /\ Keeps(got[i].g, row[i].c) => got[i].w.c = row[i].c
         /\ (driver = "net" /\ got[i].g = "item") => got[i].w.t = NetFieldType(row[i])
=============================================================================
