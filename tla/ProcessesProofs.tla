-------------------------- MODULE ProcessesProofs --------------------------
(***************************************************************************)
(* Proofs, for any number of processes, requests, migration files,         *)
(* connections and deaths, of the safety properties of Processes.          *)
(***************************************************************************)
EXTENDS Processes, FiniteSetTheorems, TLAPS

\* Where the process that migrates is tells how far the schema is from whole.
HolderInv ==
  \A p \in Procs :
    /\ phase[p] = "migrating" => ~schema.dirty /\ schema.applied = schema.version
    /\ phase[p] = "marked" => schema.dirty /\ schema.applied + 1 = schema.version
    /\ phase[p] = "applied" => schema.dirty /\ schema.applied = schema.version

\* The properties of the schema need where the lock's holder is, the limit of
\* the pools that finitely many tasks hold a connection.
ProcInv ==
  /\ ProcTypeOK
  /\ \A p \in Procs : IsFiniteSet(Holding(p))
  /\ HolderInv
  /\ ServesWholeSchema
  /\ FilesRunOnce
  /\ DirtyOnlyByDeath

\* What the names of the phases have in common.
LEMMA PhaseNames ==
  /\ Migrating \subseteq Phases
  /\ {"serving", "draining", "down", "opening", "ensuring", "locking"}
       \subseteq Phases \ Migrating
  /\ Loops \subseteq Tasks
  /\ Requests \subseteq Tasks
BY DEF Migrating, Phases, Loops, Tasks

\* The pool after one task's move.
LEMMA TaskMoves ==
  ASSUME ProcInv, NEW p \in Procs, NEW t \in Tasks, NEW to \in TaskStates,
         task' = [task EXCEPT ![p][t] = to],
         to = "holding" => Used(p) < MaxOpenConns
  PROVE  /\ task' \in [Procs -> [Tasks -> TaskStates]]
         /\ \A q \in Procs : /\ IsFiniteSet(Holding(q))'
                             /\ (Used(q) <= MaxOpenConns)'
<1>1. task \in [Procs -> [Tasks -> TaskStates]]
  BY DEF ProcInv, ProcTypeOK
<1>2. task' \in [Procs -> [Tasks -> TaskStates]]
  BY <1>1
<1>3. ASSUME NEW q \in Procs, q # p
      PROVE  IsFiniteSet(Holding(q))' /\ (Used(q) <= MaxOpenConns)'
  <2>1. Holding(q)' = Holding(q)
    BY <1>1, <1>3 DEF Holding
  <2> QED
    BY <2>1 DEF ProcInv, ProcTypeOK, Used
<1>4. IsFiniteSet(Holding(p))' /\ (Used(p) <= MaxOpenConns)'
  <2> DEFINE old == Holding(p)
             now == {u \in Tasks : task'[p][u] = "holding"}
  <2>1. /\ IsFiniteSet(old)
        /\ Cardinality(old) \in Nat
        /\ 1 + Cardinality(old) <= MaxOpenConns
        /\ MaxOpenConns \in Nat
    BY FS_CardinalityType, ProcessesAssumption DEF ProcInv, ProcTypeOK, Used
  <2>2. CASE to = "holding"
    <3>1. now \subseteq old \cup {t}
      BY <1>1, <2>2 DEF Holding
    <3>2. /\ IsFiniteSet(old \cup {t})
          /\ Cardinality(old \cup {t}) \in {Cardinality(old), Cardinality(old) + 1}
      <4> HIDE DEF old, now
      <4> QED
        BY <2>1, FS_AddElement, Zenon
    <3>3. IsFiniteSet(now) /\ Cardinality(now) <= Cardinality(old \cup {t})
      BY <3>1, <3>2, FS_Subset
    <3>4. Cardinality(now) \in Nat /\ Cardinality(old \cup {t}) \in Nat
      BY <3>2, <3>3, FS_CardinalityType
    <3>5. 1 + Cardinality(now) <= MaxOpenConns
      BY <2>1, <2>2, <3>2, <3>3, <3>4 DEF Used
    <3> QED
      BY <3>3, <3>5 DEF Used, Holding
  <2>3. CASE to # "holding"
    <3>1. now \subseteq old
      BY <1>1, <2>3 DEF Holding
    <3>2. IsFiniteSet(now) /\ Cardinality(now) <= Cardinality(old)
      BY <2>1, <3>1, FS_Subset
    <3>3. Cardinality(now) \in Nat
      BY <3>2, FS_CardinalityType
    <3>4. 1 + Cardinality(now) <= MaxOpenConns
      BY <2>1, <3>2, <3>3
    <3> QED
      BY <3>2, <3>4 DEF Used, Holding
  <2> QED
    BY <2>2, <2>3
<1> QED
  BY <1>2, <1>3, <1>4

\* A task that moves leaves the schema, the lock and the phases alone.
LEMMA TaskStepKeeps ==
  ASSUME ProcInv, NEW p \in Procs, NEW t \in Tasks, NEW from,
         NEW to \in TaskStates, TaskStep(p, t, from, to),
         to = "holding" => Used(p) < MaxOpenConns
  PROVE  ProcInv'
<1>1. /\ task' \in [Procs -> [Tasks -> TaskStates]]
      /\ \A q \in Procs : /\ IsFiniteSet(Holding(q))'
                          /\ (Used(q) <= MaxOpenConns)'
  BY TaskMoves DEF TaskStep
<1>2. /\ schema' = schema /\ lock' = lock /\ phase' = phase
      /\ signalled' = signalled /\ deaths' = deaths
  BY DEF TaskStep
<1> QED
  BY <1>1, <1>2 DEF ProcInv, ProcTypeOK, HolderInv, ServesWholeSchema,
                    FilesRunOnce, DirtyOnlyByDeath

\* A pool whose tasks are all off, or rest, has no connection in use but the
\* migration's.
LEMMA TasksSet ==
  ASSUME ProcInv, NEW p \in Procs, NEW set \in [Tasks -> TaskStates],
         \A t \in Tasks : set[t] # "holding",
         task' = [task EXCEPT ![p] = set]
  PROVE  /\ task' \in [Procs -> [Tasks -> TaskStates]]
         /\ \A q \in Procs : /\ IsFiniteSet(Holding(q))'
                             /\ (Used(q) <= MaxOpenConns)'
<1>1. task \in [Procs -> [Tasks -> TaskStates]]
  BY DEF ProcInv, ProcTypeOK
<1>2. task' \in [Procs -> [Tasks -> TaskStates]]
  BY <1>1
<1>3. ASSUME NEW q \in Procs, q # p
      PROVE  IsFiniteSet(Holding(q))' /\ (Used(q) <= MaxOpenConns)'
  <2>1. Holding(q)' = Holding(q)
    BY <1>1, <1>3 DEF Holding
  <2> QED
    BY <2>1 DEF ProcInv, ProcTypeOK, Used
<1>4. IsFiniteSet(Holding(p))' /\ (Used(p) <= MaxOpenConns)'
  <2>1. Holding(p)' = {}
    BY <1>1 DEF Holding
  <2>2. IsFiniteSet({}) /\ Cardinality({}) = 0
    BY FS_EmptySet
  <2> QED
    BY <2>1, <2>2, ProcessesAssumption DEF Used
<1> QED
  BY <1>2, <1>3, <1>4

\* A process that ends gives back the lock and its connections; the schema
\* stays as it is.
LEMMA ExitKeeps ==
  ASSUME ProcInv, NEW p \in Procs, Exit(p),
         deaths' \in 0..MaxDeaths, deaths' >= deaths,
         lock = p => deaths' > 0
  PROVE  ProcInv'
<1>1. /\ task' \in [Procs -> [Tasks -> TaskStates]]
      /\ \A q \in Procs : /\ IsFiniteSet(Holding(q))'
                          /\ (Used(q) <= MaxOpenConns)'
  <2>1. AllOff \in [Tasks -> TaskStates] /\ \A t \in Tasks : AllOff[t] # "holding"
    BY DEF AllOff, TaskStates
  <2> QED
    BY <2>1, TasksSet DEF Exit
<1>2. /\ phase' \in [Procs -> Phases]
      /\ phase'[p] = "down"
      /\ \A q \in Procs \ {p} : phase'[q] = phase[q]
  BY DEF Exit, ProcInv, ProcTypeOK, Phases
<1>3. lock' \in Procs \cup {None} /\ \A q \in Procs : lock' = q <=> phase'[q] \in Migrating
  BY <1>2, PhaseNames, ProcessesAssumption DEF Exit, ProcInv, ProcTypeOK
<1>4. schema' = schema /\ signalled' \in [Procs -> BOOLEAN]
  BY DEF Exit, ProcInv, ProcTypeOK
<1>5. ProcTypeOK'
  BY <1>1, <1>2, <1>3, <1>4 DEF ProcInv, ProcTypeOK
<1>6. HolderInv' /\ ServesWholeSchema' /\ FilesRunOnce'
  BY <1>2, <1>4 DEF ProcInv, HolderInv, ServesWholeSchema, FilesRunOnce
<1>7. DirtyOnlyByDeath'
  BY <1>4, ProcessesAssumption DEF ProcInv, ProcTypeOK, DirtyOnlyByDeath, Exit
<1> QED
  BY <1>1, <1>5, <1>6, <1>7 DEF ProcInv

\* A process that moves without the lock, and does not start to serve.
LEMMA MoveKeeps ==
  ASSUME ProcInv, NEW p \in Procs, NEW from \in Phases \ Migrating,
         NEW to \in Phases \ Migrating, Step(p, from, to),
         to \in {"serving", "draining"} => from \in {"serving", "draining"},
         UNCHANGED <<schema, lock, signalled, task, deaths>>
  PROVE  ProcInv'
<1>1. /\ phase' \in [Procs -> Phases]
      /\ phase[p] = from /\ phase'[p] = to
      /\ \A q \in Procs \ {p} : phase'[q] = phase[q]
  BY DEF Step, ProcInv, ProcTypeOK
<1>2. ProcTypeOK'
  BY <1>1 DEF ProcInv, ProcTypeOK, Used, Holding
<1>3. HolderInv' /\ FilesRunOnce' /\ DirtyOnlyByDeath'
  BY <1>1 DEF ProcInv, HolderInv, FilesRunOnce, DirtyOnlyByDeath, Migrating
<1>4. ServesWholeSchema'
  BY <1>1 DEF ProcInv, ServesWholeSchema
<1> QED
  BY <1>2, <1>3, <1>4 DEF ProcInv, Holding

\* The lock is taken of a schema that is not dirty.
LEMMA AcquireKeeps ==
  ASSUME ProcInv, NEW p \in Procs, AcquireLock(p)
  PROVE  ProcInv'
<1>1. /\ phase' \in [Procs -> Phases]
      /\ phase'[p] = "migrating" /\ lock = None /\ lock' = p
      /\ \A q \in Procs \ {p} : phase'[q] = phase[q]
      /\ UNCHANGED <<schema, signalled, task, deaths>>
  BY DEF AcquireLock, Step, ProcInv, ProcTypeOK, Phases, Migrating
<1>2. \A q \in Procs : phase[q] \notin Migrating
  BY <1>1, ProcessesAssumption DEF ProcInv, ProcTypeOK
<1>3. "migrating" \in Migrating
  BY DEF Migrating
<1>4. ProcTypeOK'
  BY <1>1, <1>2, <1>3 DEF ProcInv, ProcTypeOK, Used, Holding
<1>5. ~schema.dirty /\ schema.applied = schema.version
  BY DEF AcquireLock, ProcInv, FilesRunOnce
<1>6. HolderInv'
  BY <1>1, <1>5 DEF ProcInv, HolderInv
<1>7. ServesWholeSchema' /\ FilesRunOnce' /\ DirtyOnlyByDeath'
  BY <1>1, ProcessesAssumption
  DEF ProcInv, ServesWholeSchema, FilesRunOnce, DirtyOnlyByDeath
<1> QED
  BY <1>1, <1>4, <1>6, <1>7 DEF ProcInv, Holding

\* A step of the migration, by the process that holds the lock: no other is
\* between two of its steps, and none serves an incomplete schema.
LEMMA MigrationKeeps ==
  ASSUME ProcInv, NEW p \in Procs, Mark(p) \/ RunFile(p) \/ Clear(p)
  PROVE  ProcInv'
<1>1. /\ phase[p] \in Migrating
      /\ phase'[p] \in Migrating
      /\ phase' \in [Procs -> Phases]
      /\ \A q \in Procs \ {p} : phase'[q] = phase[q]
      /\ UNCHANGED <<lock, signalled, task, deaths>>
  BY DEF Mark, RunFile, Clear, Step, ProcInv, ProcTypeOK, Phases, Migrating
<1>2. lock = p /\ \A q \in Procs \ {p} : phase[q] \notin Migrating
  BY <1>1 DEF ProcInv, ProcTypeOK
<1>3. schema' \in [version : 0..Migrations, dirty : BOOLEAN, applied : Nat]
  <2>1. /\ schema \in [version : 0..Migrations, dirty : BOOLEAN, applied : Nat]
        /\ Migrations \in Nat
    BY ProcessesAssumption DEF ProcInv, ProcTypeOK
  <2>2. CASE Mark(p)
    <3>1. schema.version + 1 \in 0..Migrations
      BY <2>1, <2>2 DEF Mark
    <3> QED
      BY <2>1, <2>2, <3>1 DEF Mark
  <2>3. CASE RunFile(p)
    BY <2>1, <2>3 DEF RunFile
  <2>4. CASE Clear(p)
    BY <2>1, <2>4 DEF Clear
  <2> QED
    BY <2>2, <2>3, <2>4
<1>4. ProcTypeOK'
  BY <1>1, <1>2, <1>3 DEF ProcInv, ProcTypeOK, Used, Holding
<1>5. \/ /\ phase[p] = "migrating" /\ phase'[p] = "marked"
         /\ ~schema.dirty /\ schema.applied = schema.version
         /\ schema.version < Migrations
         /\ schema'.version = schema.version + 1
         /\ schema'.dirty /\ schema'.applied = schema.applied
      \/ /\ phase[p] = "marked" /\ phase'[p] = "applied"
         /\ schema.dirty /\ schema.applied + 1 = schema.version
         /\ schema'.version = schema.version
         /\ schema'.dirty /\ schema'.applied = schema.applied + 1
      \/ /\ phase[p] = "applied" /\ phase'[p] = "migrating"
         /\ schema.dirty /\ schema.applied = schema.version
         /\ schema'.version = schema.version
         /\ ~schema'.dirty /\ schema'.applied = schema.applied
  BY DEF Mark, RunFile, Clear, Step, ProcInv, ProcTypeOK, HolderInv
<1>6. \A q \in Procs : phase[q] \notin {"serving", "draining"}
  BY <1>5, ProcessesAssumption DEF ProcInv, ProcTypeOK, ServesWholeSchema
<1>7. HolderInv' /\ FilesRunOnce'
  BY <1>1, <1>2, <1>5 DEF HolderInv, FilesRunOnce, Migrating
<1>8. ServesWholeSchema' /\ DirtyOnlyByDeath'
  BY <1>1, <1>2, <1>6, PhaseNames, ProcessesAssumption
  DEF ServesWholeSchema, DirtyOnlyByDeath
<1> QED
  BY <1>1, <1>4, <1>7, <1>8 DEF ProcInv, Holding

\* The process that finds no file left serves the whole schema.
LEMMA ServeKeeps ==
  ASSUME ProcInv, NEW p \in Procs, Serve(p)
  PROVE  ProcInv'
<1>1. /\ phase[p] = "migrating" /\ phase'[p] = "serving"
      /\ phase' \in [Procs -> Phases]
      /\ \A q \in Procs \ {p} : phase'[q] = phase[q]
      /\ lock' = None
      /\ UNCHANGED <<schema, signalled, deaths>>
  BY DEF Serve, Step, ProcInv, ProcTypeOK, Phases
<1>2. lock = p /\ \A q \in Procs \ {p} : phase[q] \notin Migrating
  BY <1>1 DEF ProcInv, ProcTypeOK, Migrating
<1>3. /\ task' \in [Procs -> [Tasks -> TaskStates]]
      /\ \A q \in Procs : /\ IsFiniteSet(Holding(q))'
                          /\ (Used(q) <= MaxOpenConns)'
  <2> DEFINE set == [t \in Tasks |->
        IF t \in Loops /\ (Config[p].runWorker \/ ~Config[p].api)
        THEN "resting" ELSE "off"]
  <2>1. set \in [Tasks -> TaskStates] /\ \A t \in Tasks : set[t] # "holding"
    BY DEF TaskStates
  <2>2. task' = [task EXCEPT ![p] = set]
    BY DEF Serve
  <2> HIDE DEF set
  <2> QED
    BY <2>1, <2>2, TasksSet
<1>4. ProcTypeOK'
  BY <1>1, <1>2, <1>3, PhaseNames, ProcessesAssumption DEF ProcInv, ProcTypeOK
<1>5. ~schema.dirty /\ schema.applied = schema.version /\ schema.version = Migrations
  BY <1>1 DEF Serve, ProcInv, HolderInv
<1>6. schema = [version |-> Migrations, dirty |-> FALSE, applied |-> Migrations]
  BY <1>5 DEF ProcInv, ProcTypeOK
<1>7. ServesWholeSchema' /\ DirtyOnlyByDeath' /\ FilesRunOnce'
  BY <1>1, <1>5, <1>6
  DEF ProcInv, ServesWholeSchema, FilesRunOnce, DirtyOnlyByDeath
<1>8. HolderInv'
  BY <1>1 DEF ProcInv, HolderInv
<1> QED
  BY <1>3, <1>4, <1>7, <1>8 DEF ProcInv

\* The steps of main.
LEMMA MainKeeps ==
  ASSUME ProcInv, NEW p \in Procs,
         Start(p) \/ Main(p) \/ Ensure(p) \/ TakeLock(p) \/ Signal(p) \/ Die(p)
  PROVE  ProcInv'
<1>1. CASE Start(p) \/ Open(p) \/ Ensure(p) \/ Drain(p)
  BY <1>1, PhaseNames, MoveKeeps DEF Start, Open, Ensure, Drain
<1>2. deaths \in 0..MaxDeaths /\ deaths >= deaths /\ MaxDeaths \in Nat
  BY ProcessesAssumption DEF ProcInv, ProcTypeOK
<1>3. CASE \/ OpenStopped(p) \/ StartRefused(p) \/ Shutdown(p)
           \/ ShutdownTimeout(p) \/ WorkerReturns(p)
  <2>1. phase[p] \in Phases \ Migrating /\ Exit(p) /\ deaths' = deaths
    BY <1>3, PhaseNames
    DEF OpenStopped, StartRefused, Shutdown, ShutdownTimeout, WorkerReturns
  <2>2. lock # p
    BY <2>1 DEF ProcInv, ProcTypeOK
  <2> QED
    BY <1>2, <2>1, <2>2, ExitKeeps
<1>4. CASE Die(p)
  <2>1. /\ Exit(p) /\ deaths' \in 0..MaxDeaths
        /\ deaths' >= deaths /\ deaths' > 0
    BY <1>2, <1>4 DEF Die
  <2> QED
    BY <2>1, ExitKeeps
<1>5. CASE Signal(p)
  <2>1. /\ signalled' \in [Procs -> BOOLEAN]
        /\ UNCHANGED <<schema, lock, phase, task, deaths>>
    BY <1>5 DEF Signal, ProcInv, ProcTypeOK
  <2> QED
    BY <2>1 DEF ProcInv, ProcTypeOK, Used, Holding, HolderInv,
                ServesWholeSchema, FilesRunOnce, DirtyOnlyByDeath
<1> QED
  BY <1>1, <1>3, <1>4, <1>5, AcquireKeeps, MigrationKeeps, ServeKeeps
  DEF Main, TakeLock

\* The steps of requests and loops.
LEMMA TasksKeep ==
  ASSUME ProcInv, NEW p \in Procs,
         \/ \E r \in Requests :
              Accept(p, r) \/ Decoded(p, r) \/ Answer(p, r) \/ Abandon(p, r)
         \/ \E l \in Loops : Tick(p, l) \/ LoopEnds(p, l)
         \/ \E t \in Tasks : Connect(p, t) \/ Release(p, t)
  PROVE  ProcInv'
<1>1. {"off", "reading", "resting", "waiting", "holding"} = TaskStates
  BY DEF TaskStates
<1>2. ASSUME NEW r \in Requests,
             Accept(p, r) \/ Decoded(p, r) \/ Answer(p, r) \/ Abandon(p, r)
      PROVE  ProcInv'
  BY <1>1, <1>2, PhaseNames, TaskStepKeeps DEF Accept, Decoded, Answer, Abandon
<1>3. ASSUME NEW l \in Loops, Tick(p, l) \/ LoopEnds(p, l)
      PROVE  ProcInv'
  BY <1>1, <1>3, PhaseNames, TaskStepKeeps DEF Tick, LoopEnds
<1>4. ASSUME NEW t \in Tasks, Connect(p, t) \/ Release(p, t)
      PROVE  ProcInv'
  BY <1>1, <1>4, TaskStepKeeps DEF Connect, Release
<1> QED
  BY <1>2, <1>3, <1>4

-----------------------------------------------------------------------------
\* At first nothing runs and the schema is empty.
LEMMA InitProcInv == ProcInit => ProcInv
<1> SUFFICES ASSUME ProcInit PROVE ProcInv
  OBVIOUS
<1>1. \A p \in Procs : Holding(p) = {}
  BY DEF ProcInit, Holding, AllOff
<1>2. \A p \in Procs : IsFiniteSet(Holding(p)) /\ Used(p) <= MaxOpenConns
  BY <1>1, FS_EmptySet, ProcessesAssumption DEF Used
<1>3. ProcTypeOK
  BY <1>2, PhaseNames, ProcessesAssumption
  DEF ProcInit, ProcTypeOK, AllOff, TaskStates
<1>4. HolderInv /\ ServesWholeSchema /\ FilesRunOnce /\ DirtyOnlyByDeath
  BY DEF ProcInit, HolderInv, ServesWholeSchema, FilesRunOnce, DirtyOnlyByDeath
<1> QED
  BY <1>2, <1>3, <1>4 DEF ProcInv

\* Every step of a process keeps the invariant.
LEMMA StepProcInv == ProcInv /\ [ProcNext]_vars => ProcInv'
<1> SUFFICES ASSUME ProcInv, [ProcNext]_vars PROVE ProcInv'
  OBVIOUS
<1>1. CASE ProcNext
  BY <1>1, MainKeeps, TasksKeep DEF ProcNext
<1>2. CASE UNCHANGED vars
  BY <1>2 DEF vars, ProcInv, ProcTypeOK, Used, Holding, HolderInv,
              ServesWholeSchema, FilesRunOnce, DirtyOnlyByDeath
<1> QED
  BY <1>1, <1>2

\* The migration lock is held by the process that migrates and by no other, and
\* no pool exceeds its limit.
THEOREM ProcTypeCorrect == ProcSpec => []ProcTypeOK
<1>1. ProcInv => ProcTypeOK
  BY DEF ProcInv
<1> QED
  BY InitProcInv, StepProcInv, <1>1, PTL DEF ProcSpec

\* A process serves only the whole schema.
THEOREM ServesWhole == ProcSpec => []ServesWholeSchema
<1>1. ProcInv => ServesWholeSchema
  BY DEF ProcInv
<1> QED
  BY InitProcInv, StepProcInv, <1>1, PTL DEF ProcSpec

\* Each migration file is run once and in turn.
THEOREM FilesOnce == ProcSpec => []FilesRunOnce
<1>1. ProcInv => FilesRunOnce
  BY DEF ProcInv
<1> QED
  BY InitProcInv, StepProcInv, <1>1, PTL DEF ProcSpec

\* Only a death leaves the schema dirty.
THEOREM DirtyByDeath == ProcSpec => []DirtyOnlyByDeath
<1>1. ProcInv => DirtyOnlyByDeath
  BY DEF ProcInv
<1> QED
  BY InitProcInv, StepProcInv, <1>1, PTL DEF ProcSpec
=============================================================================
