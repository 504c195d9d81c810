------------------------------- MODULE SqlText -------------------------------
(***************************************************************************)
(* SQL text in the PDO driver: the rewriting of named parameters to        *)
(* question marks, the quoter for literals, and the way from a name to the *)
(* position its value is set at.  The text is a sequence of characters,    *)
(* made from tokens: what the application meant by it.                     *)
(*                                                                         *)
(* last is history: the value bound last to each name.                     *)
(***************************************************************************)
EXTENDS SequencesExt, Integers

CONSTANTS Letter,     \* characters of names
          ParamName,  \* names, sequences of letters
          Literal,    \* values the quoter is given, sequences of characters
          Bound,      \* values bound to names
          MaxToken    \* bound: tokens of a text

\* Letters are what the loop takes for a part of a name: [A-Za-z0-9_-].
ASSUME TextAssumption ==
  /\ Letter \cap {"'", ":", "?", " ", "NUL"} = {}
  /\ ParamName \subseteq Seq(Letter)
  /\ \A v \in Literal : v \in Seq({v[i] : i \in DOMAIN v})
  /\ MaxToken \in Nat

VARIABLES tokens,   \* the statement
          sql,      \* the text given to the library, <<>> before prepare
          names,    \* named_params: [name, index] records
          places,   \* parameters of the prepared statement
          last

textVars == <<tokens, sql, names, places, last>>

\* nuodb_handle_quoter: a quote before, one after, every quote twice.
Quoted(v) ==
  <<"'">> \o FlattenSeq([i \in DOMAIN v |-> IF v[i] = "'" THEN <<"'", "'">> ELSE <<v[i]>>]) \o <<"'">>

Token == [k : {"name"}, v : ParamName] \cup [k : {"literal"}, v : Literal]
           \cup [k : {"plain"}, v : {<<" ">>, <<"?">>}]

Source(t) == CASE t.k = "name" -> <<":">> \o t.v [] t.k = "literal" -> Quoted(t.v) [] OTHER -> t.v

TextOf(ts) == FlattenSeq([i \in DOMAIN ts |-> Source(ts[i])])

-----------------------------------------------------------------------------
\* The loop of nuodb_alloc_prepare_stmt on one character.
ScanStart == [quote |-> FALSE, param |-> FALSE, name |-> <<>>, pindex |-> -1, out |-> <<>>, names |-> {}]

Copy(x, ch) == [x EXCEPT !.out = Append(x.out, ch)]

Mark(x) == [Copy(x, "?") EXCEPT !.pindex = x.pindex + 1]

Opened(x) == [Mark(x) EXCEPT !.param = TRUE, !.name = <<>>]

\* A later use of a name takes its place in the hash.
Ended(x) ==
  [x EXCEPT !.param = FALSE,
            !.names = {e \in x.names : e.name # x.name} \cup {[name |-> x.name, index |-> x.pindex]}]

Unquoted(x, ch) ==
  IF ~x.param /\ ch = ":" THEN Opened(x)
  ELSE IF ~x.param /\ ch = "?" THEN Mark(x)
  ELSE IF x.param /\ ch \in Letter THEN [x EXCEPT !.name = Append(x.name, ch)]
  ELSE IF x.param THEN Copy(Ended(x), ch)
  ELSE Copy(x, ch)

\* Mutant: quotes are not looked at.
ScanQuotes(x, ch) == Unquoted(x, ch)

\* A quote switches between the two; the character that ends a name is copied.
Scan(x, ch) ==
  LET y == [x EXCEPT !.quote = (x.quote # (ch = "'"))] IN
    IF y.quote THEN Copy(y, ch) ELSE Unquoted(y, ch)

\* The loop over a text, from what it knows before.
Scanning(x, text) ==
  LET after[i \in 0..Len(text)] == IF i = 0 THEN x ELSE Scan(after[i-1], text[i])
  IN  after[Len(text)]

\* The terminating NUL is a character too.
Scanned(text) == Scanning(ScanStart, Append(text, "NUL"))

-----------------------------------------------------------------------------
TextInit ==
  /\ tokens \in BoundedSeq(Token, MaxToken)
  /\ sql = <<>> /\ names = {}
  /\ places = <<>> /\ last = <<>>

\* prepare: num_params is the number of names.
PrepareText ==
  /\ sql = <<>>
  /\ LET x == Scanned(TextOf(tokens)) IN
       /\ sql' = x.out
       /\ names' = x.names
       /\ places' = [i \in 0..x.pindex |-> "unset"]
       /\ last' = [n \in {e.name : e \in x.names} |-> "unset"]
  /\ UNCHANGED tokens

\* The hook's way from a name to the value's place; an index beyond the number
\* of names is refused.
BindByName(v) ==
  /\ \E e \in names :
       /\ e.index < Cardinality(names)
       /\ places' = [places EXCEPT ![e.index] = v]
       /\ last' = [last EXCEPT ![e.name] = v]
  /\ UNCHANGED <<tokens, sql, names>>

TextNext == PrepareText \/ \E v \in Bound : BindByName(v)

TextSpec == TextInit /\ [][TextNext]_textVars

-----------------------------------------------------------------------------
NameTokens == {i \in DOMAIN tokens : tokens[i].k = "name"}

\* Every name once, no mark beside names, none directly before another name.
WellFormed ==
  /\ \A i, j \in NameTokens : tokens[i].v = tokens[j].v => i = j
  /\ NameTokens # {} => \A i \in DOMAIN tokens : tokens[i].v # <<"?">> \/ tokens[i].k = "literal"
  /\ \A i \in NameTokens : i + 1 \notin NameTokens

Rewritten == [i \in DOMAIN tokens |-> IF i \in NameTokens THEN <<"?">> ELSE Source(tokens[i])]

Ordinal(i) == Cardinality({j \in NameTokens : j < i})

\* In a well-formed text literals stay as they were quoted, each name becomes
\* one question mark, and the value bound last to a name is the one at its
\* place, whatever its neighbours and the literals contain (the rewriting loop,
\* quoter and parameter hook).
NamesFindTheirPlace ==
  sql # <<>> /\ WellFormed =>
    /\ sql = Append(FlattenSeq(Rewritten), "NUL")
    /\ \A i \in NameTokens : places[Ordinal(i)] = last[tokens[i].v]
=============================================================================
