----------------------------- MODULE Processes -----------------------------
(***************************************************************************)
(* The processes that share one database: cmd/api and cmd/worker, from     *)
(* start through migration to signal and exit, the connections of their    *)
(* pools, and the requests and worker loops that compete for them. What a  *)
(* request or a loop does with its connection is in PaymentService,        *)
(* WebhookWorker and Reconciliation; here it is one that holds a           *)
(* connection, waits for one, or has none.                                 *)
(*                                                                         *)
(* golang-migrate and database/sql are modelled by how the code uses them: *)
(* Up takes PostgreSQL's advisory lock, which belongs to the session and   *)
(* ends with it, marks each version dirty before it runs the file, and     *)
(* refuses a version found dirty; its driver keeps a connection of the     *)
(* pool, which is never given back.                                        *)
(***************************************************************************)
EXTENDS Naturals, FiniteSets

CONSTANTS Procs,
          Config,        \* Config[p]: what p is started as and with
          Requests,      \* bound: requests in flight at one process
          Migrations,    \* how many migration files there are
          MaxOpenConns,  \* connections of one pool
          MaxDeaths,     \* bound: processes killed or ended by a fatal error
          None

\* The binary, the variables config.Load reads, and RUN_WORKER.
Environment == [api : BOOLEAN, database : BOOLEAN, webhook : BOOLEAN,
                runWorker : BOOLEAN]

ASSUME ProcessesAssumption ==
  /\ Config \in [Procs -> Environment]
  /\ Migrations \in Nat
  /\ MaxOpenConns \in Nat \ {0}
  /\ MaxDeaths \in Nat
  /\ None \notin Procs

VARIABLES schema,     \* the database: schema_migrations and what has been run
          lock,       \* the process whose session holds the migration lock
          phase,      \* phase[p]: where main is
          signalled,  \* signalled[p]: SIGTERM or SIGINT has arrived
          task,       \* task[p][t]: a request or loop of p
          deaths      \* processes that died so far

vars == <<schema, lock, phase, signalled, task, deaths>>

Loops == {"webhook", "recon"}
Tasks == Requests \cup Loops

Migrating == {"migrating", "marked", "applied"}

Phases == {"down", "opening", "ensuring", "locking", "serving", "draining"}
          \cup Migrating

TaskStates == {"off", "reading", "resting", "waiting", "holding"}

Holding(p) == {t \in Tasks : task[p][t] = "holding"}

\* The connections of p's pool in use: the migration driver keeps one.
Used(p) == 1 + Cardinality(Holding(p))

\* The declared types; the lock is held by the process that migrates and by no
\* other, also after deaths, and no pool exceeds its limit.
ProcTypeOK ==
  /\ schema \in [version : 0..Migrations, dirty : BOOLEAN, applied : Nat]
  /\ lock \in Procs \cup {None}
  /\ phase \in [Procs -> Phases]
  /\ \A p \in Procs : lock = p <=> phase[p] \in Migrating
  /\ signalled \in [Procs -> BOOLEAN]
  /\ task \in [Procs -> [Tasks -> TaskStates]]
  /\ \A p \in Procs : Used(p) <= MaxOpenConns
  /\ deaths \in 0..MaxDeaths

AllOff == [t \in Tasks |-> "off"]

ProcInit ==
  /\ schema = [version |-> 0, dirty |-> FALSE, applied |-> 0]
  /\ lock = None
  /\ phase = [p \in Procs |-> "down"]
  /\ signalled = [p \in Procs |-> FALSE]
  /\ task = [p \in Procs |-> AllOff]
  /\ deaths = 0

-----------------------------------------------------------------------------
(* Moving a process *)

Step(p, from, to) == phase[p] = from /\ phase' = [phase EXCEPT ![p] = to]

\* Mutant of Exit: a lock that outlives its session.
Exit_KeepsLock(p) ==
  /\ phase' = [phase EXCEPT ![p] = "down"]
  /\ signalled' = [signalled EXCEPT ![p] = FALSE]
  /\ task' = [task EXCEPT ![p] = AllOff]
  /\ UNCHANGED <<schema, lock>>

\* run returns, or the process is killed: whatever it was doing ends there, and
\* its sessions with it.
Exit(p) ==
  /\ phase' = [phase EXCEPT ![p] = "down"]
  /\ signalled' = [signalled EXCEPT ![p] = FALSE]
  /\ task' = [task EXCEPT ![p] = AllOff]
  /\ lock' = IF lock = p THEN None ELSE lock
  /\ UNCHANGED schema

-----------------------------------------------------------------------------
(* Start *)

\* config.Load; without a DATABASE_URL the process ends here.
Start(p) ==
  /\ Config[p].database
  /\ Step(p, "down", "opening")
  /\ UNCHANGED <<schema, lock, signalled, task, deaths>>

\* Mutant of Open: the worker leaves the migration to the api.
Open_WorkerSkips(p) ==
  /\ Step(p, "opening", IF Config[p].api THEN "ensuring" ELSE "serving")
  /\ ~signalled[p]
  /\ UNCHANGED <<schema, lock, signalled, task, deaths>>

\* db.Open. Its ping is the last statement of the start that a signal stops.
Open(p) ==
  /\ Step(p, "opening", "ensuring")
  /\ ~signalled[p]
  /\ UNCHANGED <<schema, lock, signalled, task, deaths>>

OpenStopped(p) == /\ phase[p] = "opening"
                  /\ signalled[p]
                  /\ Exit(p)
                  /\ UNCHANGED deaths

\* pgx.WithInstance waits for the lock, however long, creates the version table
\* and releases the lock again.
Ensure(p) ==
  /\ Step(p, "ensuring", "locking")
  /\ lock = None
  /\ UNCHANGED <<schema, lock, signalled, task, deaths>>

\* Up: the lock, and the version of the schema, which must not be dirty.
AcquireLock(p) ==
  /\ lock = None
  /\ ~schema.dirty
  /\ Step(p, "locking", "migrating")
  /\ lock' = p
  /\ UNCHANGED <<schema, signalled, task, deaths>>

\* Mutant of StartRefused: Migrate clears the mark of a dirty schema and tries
\* again.
StartRefused_Forces(p) ==
  \/ /\ phase[p] = "locking"
     /\ lock = None /\ schema.dirty
     /\ schema' = [schema EXCEPT !.dirty = FALSE]
     /\ UNCHANGED <<lock, phase, signalled, task, deaths>>
  \/ /\ phase[p] = "locking"
     /\ lock # None
     /\ Exit(p)
     /\ UNCHANGED deaths

\* The lock is free but the schema dirty, or Up has waited 15 seconds.
StartRefused(p) ==
  /\ phase[p] = "locking"
  /\ lock # None \/ schema.dirty
  /\ Exit(p)
  /\ UNCHANGED deaths

Mark(p) ==
  /\ Step(p, "migrating", "marked")
  /\ schema.version < Migrations
  /\ schema' = [schema EXCEPT !.version = @ + 1, !.dirty = TRUE]
  /\ UNCHANGED <<lock, signalled, task, deaths>>

\* A file is one statement to PostgreSQL, and takes effect as a whole.
RunFile(p) ==
  /\ Step(p, "marked", "applied")
  /\ schema' = [schema EXCEPT !.applied = @ + 1]
  /\ UNCHANGED <<lock, signalled, task, deaths>>

Clear(p) ==
  /\ Step(p, "applied", "migrating")
  /\ schema' = [schema EXCEPT !.dirty = FALSE]
  /\ UNCHANGED <<lock, signalled, task, deaths>>

\* No file left: the listener or the worker's loop starts, and in a process
\* that runs the workers both loops.
Serve(p) ==
  /\ Step(p, "migrating", "serving")
  /\ schema.version = Migrations
  /\ lock' = None
  /\ task' = [task EXCEPT ![p] =
       [t \in Tasks |-> IF t \in Loops /\ (Config[p].runWorker \/ ~Config[p].api)
                        THEN "resting" ELSE "off"]]
  /\ UNCHANGED <<schema, signalled, deaths>>

-----------------------------------------------------------------------------
(* Requests and loops *)

TaskStep(p, t, from, to) ==
  /\ task[p][t] = from
  /\ task' = [task EXCEPT ![p][t] = to]
  /\ UNCHANGED <<schema, lock, phase, signalled, deaths>>

\* A request's headers have arrived. Shutdown closes the listener.
Accept(p, r) ==
  Config[p].api /\ phase[p] = "serving" /\ TaskStep(p, r, "off", "reading")

\* Its body has, for which the server waits without a limit.
Decoded(p, r) == TaskStep(p, r, "reading", "waiting")

\* A tick of a loop, which the signal's context stops; without a WEBHOOK_URL
\* the webhook loop has nothing to do.
Tick(p, l) == /\ ~signalled[p]
              /\ l = "webhook" => Config[p].webhook
              /\ TaskStep(p, l, "resting", "waiting")

\* Mutant of Connect: a pool of one connection, which the migration keeps.
Connect_One(p, t) == Used(p) < 1 /\ TaskStep(p, t, "waiting", "holding")

\* A waiting task gets a connection.
Connect(p, t) ==
  Used(p) < MaxOpenConns /\ TaskStep(p, t, "waiting", "holding")

\* The statement or transaction ends, and the next one asks again: no task waits
\* for a connection while it holds one.
Release(p, t) ==
  TaskStep(p, t, "holding", IF t \in Loops THEN "resting" ELSE "waiting")

\* The last statement of a request.
Answer(p, r) == TaskStep(p, r, "holding", "off")

\* The client gives up, or the readiness probe after three seconds.
Abandon(p, r) ==
  \E s \in {"reading", "waiting", "holding"} : TaskStep(p, r, s, "off")

-----------------------------------------------------------------------------
(* Signal and exit *)

Signal(p) ==
  /\ phase[p] # "down"
  /\ signalled' = [signalled EXCEPT ![p] = TRUE]
  /\ UNCHANGED <<schema, lock, phase, task, deaths>>

\* Whatever a loop does when the signal arrives fails, and Run returns.
LoopEnds(p, l) ==
  /\ signalled[p]
  /\ \E s \in {"resting", "waiting", "holding"} : TaskStep(p, l, s, "off")

\* Mutant of Drain: main does not wait for a migration.
Drain_Anytime(p) ==
  /\ signalled[p]
  /\ \/ /\ Config[p].api
        /\ Step(p, "serving", "draining")
        /\ UNCHANGED <<schema, lock, signalled, task, deaths>>
     \/ /\ phase[p] \in Migrating
        /\ Exit(p)
        /\ UNCHANGED deaths

\* The api's main notices the signal when it has started.
Drain(p) ==
  /\ Config[p].api
  /\ signalled[p]
  /\ Step(p, "serving", "draining")
  /\ UNCHANGED <<schema, lock, signalled, task, deaths>>

NoRequests(p) == \A r \in Requests : task[p][r] = "off"

Shutdown(p) == /\ phase[p] = "draining"
               /\ NoRequests(p)
               /\ Exit(p)
               /\ UNCHANGED deaths

\* Mutant of ShutdownTimeout: Shutdown without a deadline.
ShutdownTimeout_Never(p) == Shutdown(p)

\* Ten seconds after the signal what is left of the requests is cut.
ShutdownTimeout(p) == phase[p] = "draining" /\ Exit(p) /\ UNCHANGED deaths

\* The worker's main is the reconciliation loop; the webhook loop may still be
\* anywhere.
WorkerReturns(p) == /\ ~Config[p].api
                    /\ phase[p] = "serving"
                    /\ task[p]["recon"] = "off"
                    /\ Exit(p)
                    /\ UNCHANGED deaths

\* The process is killed, or the database or the listener fails it.
Die(p) ==
  /\ phase[p] # "down"
  /\ deaths < MaxDeaths
  /\ deaths' = deaths + 1
  /\ Exit(p)

-----------------------------------------------------------------------------
Main(p) ==
  \/ Open(p) \/ OpenStopped(p)
  \/ Mark(p) \/ RunFile(p) \/ Clear(p) \/ Serve(p)
  \/ Drain(p) \/ Shutdown(p) \/ ShutdownTimeout(p) \/ WorkerReturns(p)

TakeLock(p) == AcquireLock(p) \/ StartRefused(p)

ProcNext ==
  \E p \in Procs :
    \/ Start(p) \/ Main(p) \/ Ensure(p) \/ TakeLock(p) \/ Signal(p) \/ Die(p)
    \/ \E r \in Requests :
         Accept(p, r) \/ Decoded(p, r) \/ Answer(p, r) \/ Abandon(p, r)
    \/ \E l \in Loops : Tick(p, l) \/ LoopEnds(p, l)
    \/ \E t \in Tasks : Connect(p, t) \/ Release(p, t)

ProcSpec == ProcInit /\ [][ProcNext]_vars

-----------------------------------------------------------------------------
(* Properties *)

\* A process answers requests and runs its loops only on the whole schema,
\* whoever migrated it, whoever died doing so, and in whatever order the api
\* and the worker start.
ServesWholeSchema ==
  \A p \in Procs : phase[p] \in {"serving", "draining"} =>
    schema = [version |-> Migrations, dirty |-> FALSE, applied |-> Migrations]

\* However many processes start at once, and wherever they die, each file is run
\* once and in turn: what has been run is what the version says or, while it is
\* dirty, one file less.
FilesRunOnce ==
  \/ schema.applied = schema.version
  \/ schema.dirty /\ schema.applied + 1 = schema.version

\* A deployment that stops processes while they start does not make the schema
\* dirty, which would keep every later process from starting: only a death does.
DirtyOnlyByDeath == schema.dirty /\ lock = None => deaths > 0

Apis == {p \in Procs : Config[p].api}

\* The goroutine of main, with the loop that the worker runs in it.
Goes(p) == Main(p) \/ Ensure(p) \/ TakeLock(p) \/ LoopEnds(p, "recon")

\* PostgreSQL answers, and queues the sessions that wait for the lock; a request
\* makes finitely many accesses; database/sql picks any of the waiting tasks.
ProcFairness ==
  /\ \A p \in Procs : SF_vars(Goes(p))
  /\ \A p \in Apis :
       /\ \A l \in Loops : WF_vars(Release(p, l))
       /\ \A r \in Requests : SF_vars(Connect(p, r)) /\ SF_vars(Answer(p, r))

FairProcSpec == ProcSpec /\ ProcFairness

\* A request that has been read is answered, or given up, although the loops and
\* other requests compete for the connections that the migration driver leaves,
\* and clients that do not finish their requests stay.
RequestsEnd ==
  \A p \in Apis, r \in Requests :
    task[p][r] \in {"waiting", "holding"} ~> task[p][r] = "off"

\* A process that is told to stop does, wherever the signal finds it: waiting
\* for the lock, migrating, or with a client that never finishes its request.
SignalledStops == \A p \in Procs : signalled[p] ~> phase[p] = "down"
=============================================================================
