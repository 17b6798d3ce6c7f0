------------------------------- MODULE Lifecycle -------------------------------
(***************************************************************************)
(* The life of the process: runWithReady of cmd/hubabox/run.go with db.Open,  *)
(* its migrations and db.BeforeClose, under main_unix.go (service FALSE) or    *)
(* under the Windows service of main_windows.go (service TRUE).               *)
(*                                                                           *)
(* The requests and the background goroutines belong to the modules that      *)
(* extend this one: busy says whether a handler is at work. The timers count   *)
(* down, and time does not pass a timer that has run out.                     *)
(***************************************************************************)
EXTENDS Integers, Sequences, FiniteSets, SequencesExt

CONSTANTS
  Steps,    \* schemaMigrationSteps: for each step the tables it creates
  Drain,    \* time that Shutdown gives the requests (25 s)
  Grace,    \* time that the service waits for the process (20 s)
  MaxStarts \* bound: how often the process is started

ASSUME LifecycleAssumption ==
  /\ Steps \in Seq(SUBSET STRING)
  /\ Drain \in Nat /\ Grace \in Nat /\ MaxStarts \in Nat

VARIABLES
  service,  \* run by the Windows service manager, not from a console
  phase,    \* how far runWithReady has come
  tables,   \* the tables in the database file
  applied,  \* the rows of schema_migrations in the database file
  step,     \* the migration that is under way
  tx,       \* what its transaction has done: tables, and the row of the step
  stopping, \* the context of the process is cancelled
  drain,    \* time left for the requests
  grace,    \* time left for the process
  scm,      \* what the service has reported last
  ready,    \* ready was called in this start
  bound,    \* net.Listen has succeeded in this start
  starts

lifeVars == <<service, phase, tables, applied, step, tx, stopping, drain, grace, scm, ready, bound, starts>>

\* The handlers and the goroutines can use the database.
DBOpen == phase \in {"listen", "serving", "draining", "closing", "failing"}
\* They go on, with or without it, until the process exits.
Alive == DBOpen \/ phase = "closed"

NoTx == [tables |-> {}, row |-> FALSE]

LifeTypeOK ==
  /\ service \in BOOLEAN
  /\ phase \in {"down", "open", "migrate", "listen", "serving", "draining",
              "closing", "failing", "closed"}
  /\ tables \subseteq UNION Range(Steps)
  /\ applied \subseteq DOMAIN Steps
  /\ step \in 1 .. Len(Steps) + 1
  /\ tx \in [tables : SUBSET UNION Range(Steps), row : BOOLEAN]
  /\ drain \in 0 .. Drain /\ grace \in 0 .. Grace
  /\ stopping \in BOOLEAN /\ ready \in BOOLEAN /\ bound \in BOOLEAN
  /\ scm \in {"none", "StartPending", "Running", "StopPending", "Stopped"}
  /\ starts \in 0 .. MaxStarts

\* The process does not run, and its database file is new.
LifeInit ==
  /\ service \in BOOLEAN
  /\ phase = "down"
  /\ tables = {} /\ applied = {} /\ step = 1 /\ tx = NoTx
  /\ stopping = FALSE /\ drain = Drain /\ grace = Grace
  /\ scm = "none" /\ ready = FALSE /\ bound = FALSE /\ starts = 0

\* The process of an instance that does not look at its life: it serves.
LifeServing ==
  /\ service = FALSE
  /\ phase = "serving"
  /\ tables = UNION Range(Steps) /\ applied = DOMAIN Steps
  /\ step = Len(Steps) + 1 /\ tx = NoTx
  /\ stopping = FALSE /\ drain = Drain /\ grace = Grace
  /\ scm = "none" /\ ready = TRUE /\ bound = TRUE /\ starts = MaxStarts

-----------------------------------------------------------------------------
(* Start.                                                                    *)

StartProcess ==
  /\ phase = "down" /\ starts < MaxStarts
  /\ phase' = "open" /\ starts' = starts + 1
  /\ step' = 1 /\ stopping' = FALSE /\ ready' = FALSE /\ bound' = FALSE
  /\ drain' = Drain /\ grace' = Grace
  /\ scm' = IF service THEN "StartPending" ELSE "none"
  /\ UNCHANGED <<tables, applied, tx>>

\* The directories, sql.Open, the ping and the four pragmas.
Open ==
  /\ phase = "open" /\ ~stopping /\ phase' = "migrate"
  /\ UNCHANGED <<tables, applied, step, tx, stopping, drain, grace, scm, ready, bound, starts>>

\* Mutant of CreateTable: the statements of a step run in any order and share no
\* transaction, so that its row may be there before its tables.
CreateTableAtOnce ==
  /\ phase = "migrate" /\ step \in DOMAIN Steps /\ ~stopping
  /\ \/ \E t \in Steps[step] \ tables :
          tables' = tables \cup {t} /\ tx' = [tx EXCEPT !.tables = @ \cup {t}] /\ UNCHANGED applied
     \/ applied' = applied \cup {step} /\ tx' = [tx EXCEPT !.row = TRUE] /\ UNCHANGED tables
  /\ UNCHANGED <<phase, step, stopping, drain, grace, scm, ready, bound, starts>>

\* A CREATE TABLE IF NOT EXISTS, then the INSERT OR IGNORE of the step's number,
\* in the transaction of the step.
CreateTable ==
  /\ phase = "migrate" /\ step \in DOMAIN Steps /\ ~stopping
  /\ \/ \E t \in Steps[step] \ tx.tables : tx' = [tx EXCEPT !.tables = @ \cup {t}]
     \/ Steps[step] \subseteq tx.tables /\ ~tx.row /\ tx' = [tx EXCEPT !.row = TRUE]
  /\ UNCHANGED <<phase, tables, applied, step, stopping, drain, grace, scm, ready, bound, starts>>

\* The commit. After the last step db.Open returns, and server.New and the two
\* background goroutines follow.
Commit ==
  /\ phase = "migrate" /\ tx.row /\ ~stopping
  /\ tables' = tables \cup tx.tables /\ applied' = applied \cup {step}
  /\ step' = step + 1 /\ tx' = NoTx
  /\ phase' = IF step = Len(Steps) THEN "listen" ELSE phase
  /\ UNCHANGED <<stopping, drain, grace, scm, ready, bound, starts>>

\* net.Listen. From here on clients can connect, and wait.
Listen ==
  /\ phase = "listen" /\ ~bound
  /\ bound' = TRUE
  /\ UNCHANGED <<phase, tables, applied, step, tx, stopping, drain, grace, scm, ready, starts>>

\* Mutant of Serve: ready is called before the address is bound.
ServeUnbound ==
  /\ phase = "listen"
  /\ phase' = "serving" /\ ready' = TRUE
  /\ UNCHANGED <<tables, applied, step, tx, stopping, drain, grace, scm, bound, starts>>

\* The goroutine of Serve starts, and ready is called.
Serve ==
  /\ phase = "listen" /\ bound
  /\ phase' = "serving" /\ ready' = TRUE
  /\ UNCHANGED <<tables, applied, step, tx, stopping, drain, grace, scm, bound, starts>>

\* A start that fails: before the database is open nothing is closed; a failed
\* migration is rolled back; a listener that fails ends through the deferred close.
StartFails ==
  /\ phase \in {"open", "migrate", "listen"} /\ ~bound
  /\ phase' = IF phase = "listen" THEN "failing" ELSE "closed"
  /\ tx' = NoTx
  /\ UNCHANGED <<tables, applied, step, stopping, drain, grace, scm, ready, bound, starts>>

\* Execute sees ready: the service is running.
ReportRunning ==
  /\ scm = "StartPending" /\ ready /\ phase # "down"
  /\ scm' = "Running"
  /\ UNCHANGED <<phase, tables, applied, step, tx, stopping, drain, grace, ready, bound, starts>>

-----------------------------------------------------------------------------
(* Stop.                                                                     *)

\* Ctrl+C and SIGTERM at any time; a Stop of the service only once it is running.
AskStop ==
  /\ phase # "down" /\ ~stopping
  /\ IF service THEN scm = "Running" /\ scm' = "StopPending" ELSE UNCHANGED scm
  /\ stopping' = TRUE
  /\ UNCHANGED <<phase, tables, applied, step, tx, drain, grace, ready, bound, starts>>

\* The select of runWithReady: Shutdown closes the listener.
BeginDrain ==
  /\ phase = "serving" /\ stopping
  /\ phase' = "draining"
  /\ UNCHANGED <<tables, applied, step, tx, stopping, drain, grace, scm, ready, bound, starts>>

\* Serve returns by itself with an error: nothing is drained.
ServeFails ==
  /\ phase = "serving"
  /\ phase' = "failing"
  /\ UNCHANGED <<tables, applied, step, tx, stopping, drain, grace, scm, ready, bound, starts>>

\* Mutant of Drained: Close in the place of Shutdown.
DrainedAtOnce(busy) ==
  /\ phase = "draining"
  /\ phase' = "closing"
  /\ UNCHANGED <<tables, applied, step, tx, stopping, drain, grace, scm, ready, bound, starts>>

\* Shutdown returns: no handler is at work, or its time is over.
Drained(busy) ==
  /\ phase = "draining" /\ (~busy \/ drain = 0)
  /\ phase' = "closing"
  /\ UNCHANGED <<tables, applied, step, tx, stopping, drain, grace, scm, ready, bound, starts>>

\* The deferred BeforeClose and Close. The background goroutines are not waited for.
CloseDB ==
  /\ phase \in {"closing", "failing"} /\ phase' = "closed"
  /\ UNCHANGED <<tables, applied, step, tx, stopping, drain, grace, scm, ready, bound, starts>>

\* run has returned and the process exits; the service reports it first.
Exit ==
  /\ phase = "closed" /\ phase' = "down"
  /\ scm' = IF service THEN "Stopped" ELSE scm
  /\ UNCHANGED <<tables, applied, step, tx, stopping, drain, grace, ready, bound, starts>>

\* shutdownGrace gives up; the service reports Stopped and the process exits.
GraceOver ==
  /\ scm = "StopPending" /\ grace = 0
  /\ scm' = "Stopped" /\ phase' = "down"
  /\ UNCHANGED <<tables, applied, step, tx, stopping, drain, grace, ready, bound, starts>>

\* The process is killed, at whatever point; the open transaction is gone.
Crash ==
  /\ phase # "down" /\ phase' = "down"
  /\ tx' = NoTx
  /\ scm' = IF service THEN "Stopped" ELSE scm
  /\ UNCHANGED <<tables, applied, step, stopping, drain, grace, ready, bound, starts>>

\* Time passes for the two timers.
Second ==
  /\ phase = "draining" => drain > 0
  /\ scm = "StopPending" => grace > 0
  /\ phase = "draining" \/ scm = "StopPending"
  /\ drain' = IF phase = "draining" THEN drain - 1 ELSE drain
  /\ grace' = IF scm = "StopPending" THEN grace - 1 ELSE grace
  /\ UNCHANGED <<phase, tables, applied, step, tx, stopping, scm, ready, bound, starts>>

LifeNext(busy) ==
  /\ UNCHANGED service
  /\ \/ StartProcess \/ Open \/ CreateTable \/ Commit \/ Listen \/ Serve \/ StartFails
     \/ ReportRunning \/ AskStop \/ BeginDrain \/ ServeFails \/ Drained(busy)
     \/ CloseDB \/ Exit \/ GraceOver \/ Crash \/ Second

-----------------------------------------------------------------------------
(* Properties.                                                               *)

\* A migration that is recorded is complete, whatever crashed or failed before, and
\* the hub serves only on the whole schema.
RecordedMigrationsAreComplete ==
  /\ \A n \in applied : Steps[n] \subseteq tables
  /\ DBOpen => applied = DOMAIN Steps

\* The service never reports Running for a start that does not get its address or
\* its whole schema.
RunningMeansListening == scm = "Running" => bound /\ applied = DOMAIN Steps
=============================================================================
