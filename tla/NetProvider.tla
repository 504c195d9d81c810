----------------------------- MODULE NetProvider -----------------------------
(***************************************************************************)
(* The .NET provider: a connection (NetConnection), a command on it        *)
(* (NuoDbCommand), the data readers it makes (NuoDbDataReader), and the    *)
(* finalizer thread of the runtime, which runs the finalizers of what the  *)
(* application no longer holds, in any order and between any two steps of  *)
(* the application thread.  Executing a command takes two steps of that    *)
(* thread: it fetches the native connection, then uses it.                 *)
(*                                                                         *)
(* An address that something still points at is not handed out again: a    *)
(* deletion through a stale pointer is a fault whoever has the memory.     *)
(* lapses is history: what has gone wrong that a fault could follow from.  *)
(***************************************************************************)
EXTENDS NetConnection

CONSTANTS Reader,      \* NuoDbDataReader objects
          Result,      \* addresses of native result sets
          NULL

ASSUME ProviderAssumption == NULL \notin Result

VARIABLES live,          \* result sets not yet deleted
          command,       \* m_currentResults
          retired,       \* the command's m_disposed
          executing,     \* Execute holds the native connection
          reader,
          reachable,     \* the application holds the connection and the command
          finalized,     \* the connection's finalizer has run
          lapses, fault

pvars == <<live, command, retired, executing, reader, reachable, finalized, lapses, fault>>
vars == <<nvars, pvars>>

ReaderType == [state : {"none", "held", "dropped"}, built : BOOLEAN,
               closesConnection : BOOLEAN, results : Result \cup {NULL}, isClosed : BOOLEAN]

ProviderTypeOK ==
  /\ ConnectionTypeOK
  /\ live \subseteq Result
  /\ command \in Result \cup {NULL}
  /\ retired \in BOOLEAN
  /\ executing \in BOOLEAN
  /\ reader \in [Reader -> ReaderType]
  /\ reachable \in BOOLEAN
  /\ finalized \in BOOLEAN
  /\ lapses \subseteq {"reader dropped", "constructor threw"}
  /\ fault \in {"none", "double delete", "use after delete", "finalizer threw"}

NoReader == [state |-> "none", built |-> FALSE, closesConnection |-> FALSE,
             results |-> NULL, isClosed |-> FALSE]

ProviderInit ==
  /\ ConnectionInit
  /\ live = {} /\ command = NULL /\ retired = FALSE /\ executing = FALSE
  /\ reader = [r \in Reader |-> NoReader]
  /\ reachable = TRUE /\ finalized = FALSE
  /\ lapses = {} /\ fault = "none"

App == fault = "none" /\ reachable /\ ~executing

\* An address that nothing points at; which one makes no difference.
Unused ==
  LET free == Result \ (live \cup {command} \cup {reader[r].results : r \in Reader}) IN
    IF free = {} THEN {} ELSE {CHOOSE x \in free : TRUE}

\* delete of a native result set.
Stale(x) == x # NULL /\ x \notin live
Delete(x) == ~Stale(x) /\ live' = live \ {x}

Die(f) == fault' = f /\ UNCHANGED <<nvars, live, command, retired, executing, reader,
                                    reachable, finalized, lapses>>

-----------------------------------------------------------------------------
\* Methods of the connection and of the transaction object.
ConnectionCall ==
  /\ App
  /\ SetConnectionString \/ Open \/ CloseConnection \/ ChangeDatabase \/ Dispose
     \/ BeginTransaction \/ TransactionCommit \/ TransactionRollback
  /\ UNCHANGED pvars

\* NuoDbCommand::Execute up to the point where it has the native connection.
StartExecute ==
  /\ App /\ open
  /\ \/ Stale(command) /\ Die("double delete")
     \/ /\ Delete(command)
        /\ command' = NULL /\ executing' = TRUE
        /\ UNCHANGED <<nvars, retired, reader, reachable, finalized, lapses, fault>>

Running == fault = "none" /\ executing
EndExecute == executing' = FALSE /\ UNCHANGED <<retired, reachable, finalized, fault>>

\* The native connection was deleted in the meantime.
ExecuteOnDeleted == Running /\ ~open /\ Die("use after delete")

\* ExecuteNonQuery and ExecuteScalar; the latter leaves the results with the
\* command.
ExecuteCommand(w, p) ==
  /\ Running /\ RunCommand(w, p) /\ EndExecute
  /\ \/ UNCHANGED <<live, command>>
     \/ \E x \in Unused : live' = live \cup {x} /\ command' = x
  /\ UNCHANGED <<reader, lapses>>

\* Execute throws; a plain statement that ran leaves its results.
ExecuteFails ==
  /\ Running /\ open /\ EndExecute
  /\ \/ UNCHANGED <<nvars, live, command>>
     \/ \E w \in Work, x \in Unused : /\ RunCommandFails(w)
                                      /\ live' = live \cup {x} /\ command' = x
  /\ UNCHANGED <<reader, lapses>>

\* Mutant: the command keeps the results it has handed to the reader.
KeepAfterHandOver(w, p, r, closes) ==
  /\ Running /\ RunCommand(w, p) /\ EndExecute
  /\ reader[r].state = "none"
  /\ \E x \in Unused :
       /\ live' = live \cup {x} /\ command' = x
       /\ reader' = [reader EXCEPT ![r] = [state |-> "held", built |-> TRUE,
                       closesConnection |-> closes, results |-> x, isClosed |-> FALSE]]
  /\ UNCHANGED lapses

\* ExecuteDataReader: the reader takes the results over.  If its constructor
\* throws, the command keeps them too, and the half-built reader is left to
\* the finalizer.
ExecuteReader(w, p, r, closes) ==
  /\ Running /\ RunCommand(w, p) /\ EndExecute
  /\ reader[r].state = "none"
  /\ \E x \in Unused, built \in BOOLEAN :
       /\ live' = live \cup {x}
       /\ command' = IF built THEN NULL ELSE x
       /\ reader' = [reader EXCEPT ![r] =
                       [state |-> IF built THEN "held" ELSE "dropped", built |-> built,
                        closesConnection |-> closes, results |-> x, isClosed |-> FALSE]]
       /\ lapses' = IF built THEN lapses ELSE lapses \cup {"constructor threw"}

\* ~NuoDbCommand.  The command can still be executed; what it then holds is
\* never deleted by its finalizer, which is suppressed.
DisposeCommand ==
  /\ App /\ ~retired
  /\ \/ Stale(command) /\ Die("double delete")
     \/ /\ Delete(command) /\ command' = NULL /\ retired' = TRUE
        /\ UNCHANGED <<nvars, executing, reader, reachable, finalized, lapses, fault>>

-----------------------------------------------------------------------------
\* Mutant: a reader closes its connection without asking whether it is closed.
CloseAgain(r, ok) ==
  /\ ~Stale(reader[r].results)
  /\ live' = live \ {reader[r].results}
  /\ \/ ~reader[r].closesConnection /\ ok /\ UNCHANGED nvars
     \/ reader[r].closesConnection /\ ~open /\ ~ok /\ UNCHANGED nvars
     \/ reader[r].closesConnection /\ CloseConnection /\ ok = ~open'

\* NuoDbDataReader::Close, by either thread; ok is whether it returns.
CloseReader(r, ok) ==
  IF reader[r].isClosed THEN ok /\ UNCHANGED <<nvars, live>>
  ELSE /\ Delete(reader[r].results)
       /\ \/ ~reader[r].closesConnection /\ ok /\ UNCHANGED nvars
          \/ reader[r].closesConnection /\ ~open /\ ~ok /\ UNCHANGED nvars
          \/ reader[r].closesConnection /\ CloseConnection /\ ok = ~open'

\* The application closes or disposes of a reader; m_results is cleared first.
AppCloseReader(r) ==
  /\ fault = "none" /\ ~executing /\ reader[r].state = "held"
  /\ \E ok \in BOOLEAN :
       /\ CloseReader(r, ok)
       /\ reader' = [reader EXCEPT ![r].results = NULL, ![r].isClosed = ok]
  /\ UNCHANGED <<command, retired, executing, reachable, finalized, lapses, fault>>

\* The application lets go of a reader, or of everything else.
DropReader(r) ==
  /\ fault = "none" /\ ~executing /\ reader[r].state = "held"
  /\ reader' = [reader EXCEPT ![r].state = "dropped"]
  /\ lapses' = IF reader[r].closesConnection /\ ~reader[r].isClosed
               THEN lapses \cup {"reader dropped"} ELSE lapses
  /\ UNCHANGED <<nvars, live, command, retired, executing, reachable, finalized, fault>>

DropConnection ==
  /\ App
  /\ reachable' = FALSE
  /\ UNCHANGED <<nvars, live, command, retired, executing, reader, finalized, lapses, fault>>

-----------------------------------------------------------------------------
\* The finalizer thread.  An exception there ends the process.
FinalizeReader(r) ==
  /\ fault = "none" /\ reader[r].state = "dropped"
  /\ \/ ~reader[r].isClosed /\ Stale(reader[r].results) /\ Die("double delete")
     \/ /\ \E ok \in BOOLEAN :
             /\ CloseReader(r, ok)
             /\ fault' = IF ok THEN "none" ELSE "finalizer threw"
        /\ reader' = [reader EXCEPT ![r] = NoReader]
        /\ UNCHANGED <<command, retired, executing, reachable, finalized, lapses>>

\* The connection and the command go when no reader the application holds
\* leads to them.
Abandoned == ~reachable /\ \A r \in Reader : reader[r].state # "held"

\* Mutant: the finalizer of the connection does not delete the native one.
FinalizeLeaks ==
  /\ fault = "none" /\ Abandoned /\ ~finalized /\ ~disposed
  /\ finalized' = TRUE
  /\ UNCHANGED <<nvars, live, command, retired, executing, reader, reachable, lapses, fault>>

\* !NuoDbConnection; Dispose has suppressed it.
FinalizeConnection ==
  /\ fault = "none" /\ Abandoned /\ ~finalized /\ ~disposed
  /\ finalized' = TRUE
  /\ open' = FALSE
  /\ session' = Disconnect(session)
  /\ txn' = NoTransaction /\ scoped' = {}
  /\ UNCHANGED <<configured, disposed, inTransaction, plain, runs, restoreFailed>>
  /\ UNCHANGED <<live, command, retired, executing, reader, reachable, lapses, fault>>

\* !NuoDbCommand
FinalizeCommand ==
  /\ fault = "none" /\ Abandoned /\ ~retired /\ command # NULL
  /\ \/ Stale(command) /\ Die("double delete")
     \/ /\ Delete(command) /\ command' = NULL
        /\ UNCHANGED <<nvars, retired, executing, reader, reachable, finalized, lapses, fault>>

Finalizer == FinalizeConnection \/ FinalizeCommand \/ \E r \in Reader : FinalizeReader(r)

ProviderNext ==
  \/ ConnectionCall
  \/ StartExecute \/ ExecuteOnDeleted \/ ExecuteFails
  \/ \E w \in Work, p \in BOOLEAN :
       ExecuteCommand(w, p) \/ \E r \in Reader, c \in BOOLEAN : ExecuteReader(w, p, r, c)
  \/ DisposeCommand
  \/ \E r \in Reader : AppCloseReader(r) \/ DropReader(r)
  \/ DropConnection
  \/ Finalizer

\* The runtime's finalizer thread gets to every object that is waiting for it.
Fairness == /\ WF_vars(FinalizeConnection)
            /\ WF_vars(FinalizeCommand)
            /\ \A r \in Reader : WF_vars(FinalizeReader(r))

ProviderSpec == ProviderInit /\ [][ProviderNext]_vars /\ Fairness

-----------------------------------------------------------------------------
\* A result set has one owner, which does not hold it after it is deleted, as
\* long as no reader's constructor has thrown ("we don't own it anymore!").
ResultsHaveOneOwner ==
  "constructor threw" \notin lapses =>
    /\ ~Stale(command)
    /\ \A r \in Reader : /\ ~Stale(reader[r].results)
                         /\ reader[r].results # NULL =>
                              /\ reader[r].results # command
                              /\ \A q \in Reader \ {r} : reader[q].results # reader[r].results

\* The two threads are safe with each other when the application closes its
\* CloseConnection readers before it lets go of them and no constructor throws:
\* then nothing is deleted twice, the connection is never deleted under a
\* running command, and no finalizer throws, in whatever order they run.
ClosedReadersAreSafe == lapses = {} => fault = "none"

\* A connection that was let go of, and not disposed of, is disconnected in the
\* end (or the process has died), although nobody closed it.
AbandonedIsDisconnected ==
  (Abandoned /\ ~disposed) ~> (~session.open \/ fault # "none")
=============================================================================
