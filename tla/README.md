# The NuoDB drivers in TLA+

The repository holds NuoDB drivers for several languages.  Each of them is a
thin layer between a language's database API (PDO, ADO.NET, DBI, ActiveRecord,
a procedural PHP API, node-db) and the NuoDB client library, which is not part of
the repository.  What these layers must get right is small and easily lost:
keep the API's idea of a transaction and the library's in step, own every
native object exactly once, and survive a library in which every call may throw.
This directory models that, checks it with TLC and proves part of it with TLAPS.

## 1. Inventory

| Component | State | Operations | Hard behaviour | What makes it correct |
|---|---|---|---|---|
| PDO driver, database handle (`php_pdo/pdo_nuodb/nuodb_driver.c`, `php_pdo_nuodb_cpp_int.cpp`) | PDO's `in_txn`, `auto_commit`; `_con`, the session | connect, persistent reuse, begin, commit, rollBack, prepare, exec, setAttribute, close | implicit transactions opened by prepare, settled by exec; failure after effect; a persistent handle without connection | acknowledged work is never lost; no call settles a transaction on stale flags |
| PDO driver, statements (`nuodb_statement.c`, same C++ file) | `S->stmt`, `exhausted`, `cursor_open`, the cursor name; `_rs`, `_rs_gen_keys`; `_last_stmt` | prepare, bind, execute, fetch, closeCursor, destroy, lastInsertId | closeCursor deletes the object under a live handle; a destructor that throws; partial failure of execute | one owner per object; flags agree with what is there |
| .NET connection, transaction (`dotnet/nuodb/connection.cpp`, `transaction.cpp`) | `m_connection`, `m_inTransaction`, `m_disposed`, the session's mode | Open, Close, ChangeDatabase, Dispose, BeginTransaction, Commit, Rollback | any library call in the middle of these throws | flag and session agree; closing publishes nothing |
| .NET command, reader, finalizers (`command.cpp`, `datareader.cpp`) | `m_currentResults`, `m_results`, `m_isClosed`, `m_behavior` | Execute*, Close, Dispose, finalization | the finalizer thread runs between any two steps of the application | one owner per result set; nothing is deleted under a running command; an abandoned connection is disconnected |
| PHP procedural extension (`php/nuodb_php.cpp`) | `conn_map`, `results_map`, `default_connection`, a vector of results per connection | connect, disconnect, query, fetch, free_result, end of request | connections shared by equal arguments and surviving requests; iterators kept across insertions; closing that throws | the maps hold exactly what exists; the default exists |
| Perl DBD (`perl_dbi/dbdimp.cpp`, the generated glue `NuoDB.knowngood.xsi.h`) | `conn`, `pstmt`, `rs`, DBI's AutoCommit and active flags, in each process | login, STORE, commit, rollback, disconnect, prepare, execute, fetch, DESTROY | handles destroyed in any order, global destruction, a forked child that destroys its copies, results dropped without close | flag and session agree; no statement or session is left open; a row belongs to the last execution |
| Ruby extension (`ruby/nuodb/ext/nuodb/nuodb.cpp`) | wrappers of native objects | connect, prepare, execute, ping, close, the getters and setters | every call may raise; a closed statement stays reachable | used by the adapter: below |
| Ruby ActiveRecord adapter (`nuodb_adapter.rb`) | `@connection`, `@statements` (a bounded pool), `@active` | begin/commit/rollback, exec_query, reconnect!, disconnect!, clear_cache! | lost connections, eviction, a clear that stops half way, two calls to end one transaction | pool and open statements are the same; committed work is durable; active means usable |
| Node driver (`nodejs/src`) | the connection; the result's row, previous row and row read ahead | open, close, query, next, release | rows are freed one step late; a connection reopened under a result | every row has one owner; rows in order, freed once |
| Parameters of the .NET provider (`parameter.cpp`) | the list; the fields of parameters the application keeps | Add, AddRange, Insert, Remove, the indexers, ParameterName | a parameter changes while it is in the list; AddRange stops half way | one name, one position |
| Statement text (`nuodb_driver.c`) | the table of named parameters | rewriting `:name` to `?`, quoting | quotes, doubled quotes, a name at the end, a name that begins another | every name finds its place; literals stay literals |
| Values (all drivers) | what a prepared statement keeps of earlier executions; the types a row is read as | bind, execute, describe, read | a type or value left by an earlier call; conversions that lose or crash | an execution has its own values; a read gives what was stored |
| JRuby adapter, Drupal layer, Zend adapter, samples | none of their own | SQL text, type names | none | not modelled |

Interaction: a script calls PDO (or the extension), PDO calls the driver's
method tables, the driver calls the C++ objects, these call the library.  A PDO
statement and its handle share the session and `_last_stmt`.  In .NET, reader,
command and connection point at each other and are released by two threads.
In the PHP extension one process serves many requests and the registries are
global.

The hazards found while reading are listed, each at its line, in
`PROJECT.json`, with the properties that watch them.

## 2. Plan

Done here, in this order: the session (`NuoSession`), the PDO handle, the PDO
statements, their composition, the .NET connection, the .NET provider with its
finalizer thread, the PHP extension, the Perl driver with an abstract transaction
contract, the ActiveRecord adapter over the Ruby extension, and the data paths
(statement texts, parameter names, values, the rows of the Node.js driver);
proofs of each of these.  Every invariant and every action property that a
passing run checks is stated by a theorem; liveness stays with TLC.

Left: the .NET schema tables and the error classes, if a property of them is found.

## 3. Modules

- `NuoSession`: the library as the drivers use it, operators on a session
  record (open, autocommit, pending and durable work).  External: its rules come
  from the tests (`ruby/nuodb/test/test_nuodb.rb:81`, `perl_dbi/t/03-autocommit.t`).
  What enabling autocommit does to pending work is left open: both answers are
  tried.
- `PdoHandle`: one PDO handle over one session.  `in_txn` and `auto_commit` are
  PDO's fields, `connected` is `_con # NULL`, `handle` says whether a script or
  the persistent cache has it.  One action per PDO method with its outcomes;
  `exec` has three (it ran, the library refused to prepare it, it ran but its
  keys could not be read).  `acked`, `phantom` and `scope` are history.
- `PdoStatement`: `stmt[s]` is the C structure, `obj[o]` the memory of a C++
  object (an address can be allocated again), `last` is `_last_stmt`.  Undefined
  behaviour and uncaught exceptions set `fault` and stop the process.
- `PdoDriver`: both together, as the script uses them.  Whether a statement
  reaches the server is decided by the object it runs; that this agrees with
  `connected` is what the implementation of `HandleSpec` shows.  A step of the
  composition is one of the statements by construction; the properties of the
  statements are checked here, where the handle decides what they meet.
- `NetConnection`: `NuoDbConnection` and the transaction object.  A method and
  all its outcomes are one action, because a single thread uses it;
  `EndTransaction` has the three places where a library call can throw;
  `configured` is whether `ConnectionString` has left enough to open with.
- `NetProvider`: adds the command, the readers and the finalizer thread.
  Executing takes two steps, before and after the native connection is fetched,
  because that is where the other thread can interfere.  A reader with
  `state = "dropped"` waits for its finalizer; connection and command wait when no
  held reader leads to them.  `retired` is the command's `m_disposed`.  Which free
  address an allocation takes makes no difference, so it takes one.
- `PhpNuodb`: `conn`, `result` and the global maps.  An iterator is the buffer
  it points into, named by the capacity (the vector doubles when full and never
  shrinks); the code only ever makes iterators to the first element.
- `TransactionContract`: what a driver promises about the work of a session:
  abstract, with four variables and no handles.  The mode of a session that has
  ended may change (`SetModeOfEnded`): it means nothing.
- `PerlDbd`: DBD::NuoDB.  `dbh` and `sth` are `imp_dbh_t` and `imp_sth_t` in the
  process that connected and in a child it forked; `dirty` is `PL_dirty`.  What DBI's
  glue does before it calls the driver (roll back and disconnect an active handle
  that is destroyed, refuse a call) is part of each action.  `Contract` maps its
  variables to `TransactionContract`; AutoCommit is there the flag that the
  application reads, not the mode of the session.  A STORE of AutoCommit without a
  connection is refused, but changes that flag (`StoreWithoutConnection`).
- `RubyNative`: the extension as operators on a record of native state; a method
  is the set of its outcomes.  `ping` may answer no on a connection that works, because
  any error of the library's ping becomes a no.  `RubyAdapter`: the adapter, one action
  per method that ActiveRecord calls; `pool` is `StatementPool`'s cache of the process.
- `SqlText`: `tokens` is the statement as an application writes it, `sql` the text
  the driver makes of it, `names` its table, `places` what a server would find in the
  text.  The loop of the code is a recursive function of the position (`Scanning`),
  one character a step.
- `NetParameters`: `list` and `field` are the collection and the fields of parameter
  objects, which the application shares.
- `ValuePath`: values from the application to a prepared statement and from a row
  back, for PDO, Perl, Ruby, .NET and Node.js.  A value is its content and the type
  it has at the moment; the widths of short and int are constants.  Numbers come whole,
  too fine and too large for a float or a decimal, and infinite; texts empty, of one
  character, longer, and with a NUL inside.
- `NodeDb`: the connection and the results of the Node.js driver with its row, the
  previous row and the one read ahead, and what `next` does when none is left.
- `DriverData`: the four before this, side by side.  They share no state (each
  belongs to another driver), and `part` says whose behaviour is under way; so its
  number of states is the sum, not the product, of theirs.
- `MC*`: instances for TLC (symmetry sets).
- `*_proofs`: theorems.

`PROJECT.json` maps every definition to the lines it stands for.  Each mutant
(a definition whose comment begins with "Mutant") is a plausible mistake in the code; it is
used by no specification and exists to show that a property can fail.

## 4. Runs

| Run | Question | Bounds |
|---|---|---|
| `pdo_driver` | Is acknowledged work durable under the library's default; does every statement own what it uses, and do its flags tell the truth; does the composition implement the handle? | 1 statement of work, 2 statement handles, 2 addresses (580 thousand states) |
| `pdo_handle_manual` | What does the handle do to work that is really pending (autocommit off)? | 3 statements of work |
| `net_provider` | Do the two threads share result sets and the connection safely; is a forgotten connection disconnected? | 2 statements of work, 1 reader, 2 result sets |
| `php` | Do the registries stay exact over several requests? | 2 argument hashes, 2 connections, 4 results |
| `perl` | Do session, statements and results follow their handles in every order of destruction, with a forked child; is the contract kept? | 2 statements of work, 2 statement handles, 2 executions each (2.5 million states) |
| `ruby` | Do pool and connection stay usable through loss, reconnection, failing pings and failing closes; is committed work durable? | 2 statements of work, 4 native statements, 3 keys, a pool of 2 (81 thousand states) |
| `data` | Do names find their place, values arrive, and rows have one owner? | texts of 4 tokens with 5 literals and 2 names, one beginning the other; 3 parameters, 2 names, a list of 3; 4 whole numbers, inside and outside a short and an int; 2 results of up to 3 rows (5.3 million states) |
| `pdo_rollback`, `net_commit`, `net_once`, `php_iterator`, `ruby_autocommit` | Does the code do what its comments say? (no) | as the passing run of the module |

Why the bounds suffice.  Work is only compared for membership: one statement
that is lost, or published early, and one that is not, are enough; the third in
`pdo_handle_manual` lets one be in the transaction, one before and one after.
In `pdo_driver` one is enough, since with autocommit on nothing of another is pending
(two were tried: 2.4 million states, the same result).  Two objects allow an address
to be given back and used by another statement while a stale pointer to it exists.  Two result sets allow the command and the
reader to own different ones, and a second execution while the reader lives (two
readers were tried as well: 4 million states, the same result).  Four results
let the vector of the PHP extension grow three times (1, 2, 4), so that iterators of
several generations meet.  `runs` counts to 2 because every statement is run by one
command.  In `perl` two handles let a statement be destroyed while another
lives, and two executions let a result be old.  In `ruby` three keys overfill the pool
of two, and a fourth statement is there for an eviction that fails.  In `data` the
literals are all that the scan distinguishes (empty, a quote, a doubled quote by two
of them, a colon with a name, a question mark), four tokens put a name before,
between and behind them; `ShortHalf = 1` and `IntHalf = 3` stand for 2^15 and 2^31, so that
-4, -1, 0 and 2 are a number outside both, inside both, zero, and between.  No
state constraint is used.

`CHECK_DEADLOCK FALSE` is said where the system may stop: after a fault, or when
work and addresses are used up.

### The five disagreements

- `RollBackUndoes` (`pdo_rollback`): `nuodb_handle_begin` does nothing, so the
  session is in autocommit mode throughout a PDO transaction, and `exec` commits
  besides.  `rollBack` undoes nothing.
- `CommitEndsTransaction` (`net_commit`): the constructor of the transaction
  stores `nullptr` instead of the connection; `Commit` and `Rollback` throw.
  Only `Close` and `Dispose` end a transaction, by rolling it back.
- `RunsOnce` (`net_once`): `NuoDbCommand::Execute` lacks an `else`.
- `IteratorIsCurrent` (`php_iterator`): a second `select` on a connection makes the
  iterator of the first result stale.
- `OutsideWorkIsDurable` (`ruby_autocommit`): `rollback_db_transaction` is to turn
  autocommit on, but that is a call of its own, and when it raises the session
  stays manual with no transaction open.  What is done then returns as if it were
  durable, stays pending, and is lost with the connection.  `CommittedIsDurable` says
  what holds in spite of that; `stranded` is the work it leaves out.

The passing properties are stated around these: they say what holds in spite of
them, and under which condition on the use (`restoreFailed`, `lapses`,
`overlapped`, `closeFailed`, `stale`, `threw`, `unsafe`, `manual`, `stranded`, `strays`,
`halfCleared`, `cleared`, `past` and `collided` are history that names the
condition).  Two of them state a weakness as it is:
`NoPoolIsForever` (an adapter without a pool cannot be reconnected), and in `ValuePath`
the conversions that do not keep a value are listed where `ValuesSurvive` excludes them.

### Refinement

`PdoDriver` implements `HandleSpec` (the variables of the handle are among its own);
`PerlDbd` implements `TransactionContract` through `Contract` (an INSTANCE with a
refinement mapping).  TLC checks both, and both are proved.

## 5. Fairness

Only `NetProvider` has a liveness property.  It assumes weak fairness of each
finalizer action: the runtime runs the finalizer of every unreachable object in
the end.  Nothing is assumed of the application.  The PDO and PHP modules are
driven by scripts that may stop at any point, and so are the Perl, Ruby and Node.js
modules and the data paths; no fairness is justified there.

## 6. Proofs

`NuoSession_proofs` has the facts about sessions that the others cite: the
operators stay inside `SessionType`, and which of them keep work and mode.

`PdoDriver_proofs` starts from the handle and proves, for every set of work and both
values of `AutoDefault`, the type invariant and three properties.
`AcknowledgedIsDurable` is not inductive: `DurableInv` adds `StaysAuto`, that the
session of a connected handle has never left autocommit.  `OpenWorkSurvives` needs
`NoTransactionAtRest`: no transaction is open while no script holds the handle.
`IdleLosesNothing` follows from the type invariant step by step.

Then the statements.  One inductive invariant, `OwnershipInv`: the types,
that a handle not in use has a cleared structure (`UnusedIsClear`), and the
three safety properties, which carry one another: a fetch finds its results
because the statement owns its object, and `closeCursor` gives an object up
because `cursor_open` is exact.  The four listed properties follow from it.
There is one lemma for each kind of step (allocation, release, flags, settings,
execution, the last id) and the step lemma cites them action by action.

Then the composition.  Its steps are steps of the statements by the shape of the
definitions; that is a lemma, and `DriverOwnsItsObjects` follows: what was proved of
the statements holds where the handle takes part.  That a step is one of the
handle needs an invariant: an execute reaches the server when its object is not
empty, in the handle when there is a connection.  `DriverInv` joins `OwnershipInv`
with `EmptyOnlyWithoutConnection` and `ScriptPrepares` (a statement in use has a live
handle).  What was proved of the handle then holds of the driver (`DriverKeepsWork`).

`PerlDbd_proofs` proves the types, the three invariants and the implementation of the
contract.  The last needs `EndedWithoutConnection`, that a handle without a connection
has no open session: only then is a STORE of AutoCommit on it a step of the contract.

`NetProvider_proofs` starts from the connection: `ConnectionInv` adds to the two
properties that a session at rest is in autocommit unless restoring it failed
(`AutoAtRest`), that work not yet run is nowhere (`UnrunIsAbsent`) and that the scope
of a transaction is empty unless one is open (`ScopeIsOpen`).  `CloseDiscards` follows
step by step.  `ResultsHaveOneOwner` is inductive in an equivalent form (`OneOwner`).
`ClosedReadersAreSafe` needs `ThreadsApart`: a running command has a connection
the application holds and, as long as nothing has lapsed, an open one, and a
reader that waits for its finalizer has nothing left to close.

`PhpNuodb_proofs` has one inductive invariant, `RegistryInv`: the types of the
registries (`TypesInv`), the four properties, and that a registered result knows the
address of a connection.  `PhpTypeOK` adds the vectors and the history:
`VectorsFit` (a vector is not longer than its capacity) is inductive because every
insertion that finds it full doubles it, and starts from one.

`DriverData_proofs` proves `NamesAreUnique` of the parameter collection, from lemmas on
what insertion, removal and replacement make of a sequence, and `NodeRowsAreOwned`
from `RowInv`, which adds how far the read-ahead is and which rows may have been freed
already: before `next` was called past the end none (`FreeingPrevious`).

It proves `ValuesSurvive` of `ValuePath` for any whole numbers and any two widths.
`PathInv` says of every phase what has been kept: the arguments of the last bind
that the driver takes (`Passed`), the type it was told (`Told`), that a row holds
values of the server (`RowValue`), and what a reader has got so far (`ReadInv`).
`Takes`, `Shows` and `Keeps`, in the module, name every conversion that loses something.
The arithmetic is in `NarrowingKeeps`, a number in the range of a width survives the
narrowing to it; each driver has a lemma for its way in (`PdoKeeps`, `PerlKeeps`,
`RubyKeeps`, `NetKeeps`) and for its way out (`PdoShows`, `NetReads`, `OthersShow`,
`GettersAreRight`).

`SqlText_proofs` proves `NamesFindTheirPlace` for texts of any length.  The library's
induction theorems take an operator; `SetInduction` is induction over a set of numbers
(from `NatLessIsWellFounded`), and `SequenceInduction` over a set of sequences follows
from it.  With these, `Recursion` shows that a function on `0..n` exists, so that
`FlattenSeq` and `Scanning` are what their recursive definitions say, and
`ScanningConcat` that the loop over two texts is the loop over the second from where the
first left it.  Then the tokens: inside quotes, and over blanks, the loop only copies
(`ScanKeeps`, `LiteralScanned`, by induction over the literal); a name leaves one mark
and is read letter by letter (`NameScanned`).  `Boundary` is the invariant between two
tokens (`TokenBoundary`): the output is what `Rewritten` says, the names ended so far
have the number of names before them as index, and a name is being read only behind one.
`TextInv` carries that to the places through the binds.

`DataKeepsAll` states all four of `DriverData`, the specification the run checks: it
implements the four.

`RubyAdapter_proofs` has one inductive invariant, `AdapterInv`, of two halves.  The
pool: `PoolIsExact` and `StatementsArePooled` survive an eviction because the entries
are distinct (`PoolIsBounded`), so that closing the oldest takes no other entry with
it; a statement that a failing ping passes over is one of `strays`.  The work: `CommittedIsDurable` needs `AutoAtRest` (between two transactions, unless
one ended with autocommit off, the session is in autocommit) and `ScopeIsHeld` (the work
of the open transaction is pending, or durable, as long as the connection is
reachable).  Each set of outcomes has a lemma (`StoreAgrees`, `CommitWorks`,
`ClearWorks`, `DisconnectWorks`), and each action one that cites them.
`NoPoolIsForever` follows step by step.

The assumptions are those of the modules: `MaxPool` is positive, `AutoDefault \in BOOLEAN`, that `NULL` is
no address, that `NoName` is no name, that no letter of a name is a quote, a colon, a
question mark, a blank or NUL (what the loop takes for a letter is `[A-Za-z0-9_-]`), that
a literal is a sequence, that `ShortHalf < IntHalf`, and that bounds are natural numbers.

Only model-checked: the liveness property `AbandonedIsDisconnected` (out of the prover's
reach, since it needs fairness).  The five disagreements are found by TLC alone.

## 7. Not modelled

The library beyond `NuoSession`: two sessions seeing each other's work, and a
connection lost in mid-call.  A call that throws has no effect on the session,
except where the drivers make two calls and the second throws.  Only the Ruby
adapter deals with a lost connection, and only its module has one.

Of the PHP drivers: names of more than 63 characters, NUL in a literal, one name
used twice or mixed with `?` in a text; the output parameters of PDO; a DSN without
options (`strdup` of a null pointer); module set-up and logging.  The procedural
extension's commits: `nuodb_autocommit` is empty, and its registries do not depend
on them.

Of the .NET provider: schema tables, the error and exception classes,
`DatabaseMetaData`; `GetChars` and reads on a reader whose close threw, which look at no
closed flag.  Columns of a type it does not know (smallint among them) are strings,
so `GetInt16` refuses them: that is in `ValuePath`, as a refusal.

Of Perl: `ppport.h`, a vendored header of Perl's own (7 062 lines, no code of this driver);
the return value of an execute without rows; InactiveDestroy on a statement handle, which
clears a flag that is never set.

Of Ruby: the garbage collector's order of releases (a release deletes a wrapper,
never a native object), a process forked with a pool, a `statement_limit` of 0, schema
statements and type names.

Of Node.js: node-db, whose sources are not in the repository.  `NodeDb` assumes nothing of
it: a query may come on a connection that is not alive and ends the process there,
and `next` may be called of a result that has no row left.  What becomes of the heap after a
row was freed twice is not modelled, except that the process may end.

Some hazards of `PROJECT.json` have no property.  They are faults that the code simply has
(a crash on an over-long text, an exception across C frames, a leak): the model has the
step, and a property could only say that it does not happen, which is false, or that
it does.

The JRuby adapter, the Drupal layer, the Zend adapter and the samples have no state of
their own: they hand SQL text and type names to a driver.
