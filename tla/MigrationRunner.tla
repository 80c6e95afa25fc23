-------------------------- MODULE MigrationRunner --------------------------
(***************************************************************************)
(* The schema migrations (cmd/migrate, internal/migrate): runners that are *)
(* started by hand or by a deployment, perhaps at the same time, take the  *)
(* lock table, adopt a schema without history, check the history and apply *)
(* the pending migrations statement by statement.                          *)
(*                                                                         *)
(* A step is one call of the store.  A call fails without an effect        *)
(* ("store") or after it ("late"); a runner is killed ("crash"), or told   *)
(* to stop or out of time ("cancel"): then every call but the release of   *)
(* the lock fails.                                                         *)
(***************************************************************************)
EXTENDS Integers, FiniteSets

CONSTANTS
  Runners,
  N,           \* the versions of the newest build
  Steps,       \* the statements of a migration
  Sizes,       \* how many migrations a build embeds
  Texts,       \* the texts (name and checksum) a build has for its files
  Legacy,      \* the versions a schema without history may already have
  AutoBaseline,
  FaultKinds, MaxFaults,
  MaxRuns      \* bound: the runs started

None == "none"
Versions == 1 .. N
AllFaults == {"store", "late", "crash", "cancel"}

ASSUME MigrationAssumption ==
  /\ IsFiniteSet(Runners) /\ None \notin Runners
  /\ N \in Nat /\ Steps \in Nat \ {0}
  /\ Sizes \subseteq Versions /\ Sizes # {}
  /\ Texts # {} /\ None \notin Texts
  /\ Legacy \subseteq 0 .. N
  /\ AutoBaseline \in BOOLEAN
  /\ FaultKinds \subseteq AllFaults /\ MaxFaults \in Nat /\ MaxRuns \in Nat

VARIABLES
  lock,       \* schema_migrations_lock: absent (None) or its owner column ("" until written)
  holder,     \* who created the lock table, for the operator and the properties
  history,    \* schema_migrations: the latest event of a version
  ran,        \* how often each statement of each version has run
  run,        \* per runner: where it stands, its build, the version and statement it is at
  cancelled,  \* the runners whose context is done
  faults, runs

vars == <<lock, holder, history, ran, run, cancelled, faults, runs>>

\* Load: a build embeds the versions 1 .. size without a gap, one text each.
Build == [size : Sizes, text : Texts]

NoEvent == [st |-> None]

Idle == [at |-> "idle"]

\* A schema that earlier releases created by hand, without history, or nothing.
Init ==
  /\ lock = None /\ holder = None
  /\ history = [v \in Versions |-> NoEvent]
  /\ \E base \in Legacy :
       ran = [x \in Versions \X (1 .. Steps) |-> IF x[1] <= base THEN 1 ELSE 0]
  /\ run = [r \in Runners |-> Idle]
  /\ cancelled = {} /\ faults = 0 /\ runs = 0

At(r, place) == run[r].at = place
Goto(r, place) == run' = [run EXCEPT ![r].at = place]

Fault(kind) == kind \in FaultKinds /\ faults < MaxFaults /\ faults' = faults + 1

\* A call of the store by r: it does its work, or fails before or after doing it.
Succeeds(r) == r \notin cancelled /\ UNCHANGED faults
Fails(r) == \/ r \in cancelled /\ UNCHANGED faults
            \/ Fault("store")
FailsLate(r) == \/ r \in cancelled /\ UNCHANGED faults
                \/ Fault("late")

Recorded == {v \in Versions : history[v] # NoEvent}

-----------------------------------------------------------------------------
(* main, and the lock. *)

\* A table without an owner row is taken for a lock that was given up.
UnownedOrFree == lock \in {None, ""}

\* CREATE TABLE is atomic and fails when the table is there.
LockFree == lock = None

Start(r) ==
  /\ At(r, "idle") /\ runs < MaxRuns /\ runs' = runs + 1
  /\ \/ /\ LockFree /\ lock' = "" /\ holder' = r
        /\ \E b \in Build :
             run' = [run EXCEPT ![r] =
                       [at |-> "owner", build |-> b, v |-> 0, s |-> 0, base |-> 0]]
        /\ UNCHANGED faults
     \/ \* CREATE TABLE took effect and was reported as failed: nobody drops it
        /\ LockFree /\ lock' = "" /\ holder' = r
        /\ Fault("late") /\ UNCHANGED run
     \/ ~LockFree /\ UNCHANGED <<lock, holder, run, faults>>
  /\ UNCHANGED <<history, ran, cancelled>>

\* The runner is gone; a context lives as long as its runner.
Leave(r) == run' = [run EXCEPT ![r] = Idle] /\ cancelled' = cancelled \ {r}

\* The owner is written; if that fails, the runner drops the table it created.
WriteOwner(r) ==
  /\ At(r, "owner")
  /\ \/ Succeeds(r) /\ lock' = r /\ Goto(r, "history") /\ UNCHANGED <<holder, cancelled>>
     \/ Fails(r) /\ lock' = None /\ holder' = None /\ Leave(r)
     \/ Fault("store") /\ Leave(r) /\ UNCHANGED <<lock, holder>>
  /\ UNCHANGED <<history, ran, runs>>

\* The deferred release: only the owner drops the table.
ReleaseLock(r) ==
  /\ At(r, "release") /\ Leave(r)
  /\ \/ /\ UNCHANGED faults
        /\ IF lock = r THEN lock' = None /\ holder' = None ELSE UNCHANGED <<lock, holder>>
     \/ Fault("store") /\ UNCHANGED <<lock, holder>>
  /\ UNCHANGED <<history, ran, runs>>

-----------------------------------------------------------------------------
(* Reading and checking the history. *)

Ran(v) == \A s \in 1 .. Steps : ran[<<v, s>>] > 0

\* The probes of a build, a marker per version: the marker is there once all the
\* statements have run, and the versions found must be the first ones.
DetectBaseline(b) == {k \in 1 .. b.size : \A v \in 1 .. b.size : Ran(v) <=> v <= k}

HasUserSchema == \E v \in Versions, s \in 1 .. Steps : ran[<<v, s>>] > 0

\* A dirty migration is taken for one that is still to be done.
ValidOrDirty(b) ==
  \A v \in Recorded : v <= b.size /\ history[v].text = b.text

(***************************************************************************)
(* The history is a run of applied versions that this build knows, with    *)
(* the same text; anything else is refused.                                *)
(***************************************************************************)
Valid(b) ==
  /\ \A v \in Recorded : \A w \in 1 .. v - 1 : w \in Recorded
  /\ \A v \in Recorded : v <= b.size /\ history[v] = [st |-> "applied", text |-> b.text]

AppliedVersions == {v \in Recorded : history[v].st = "applied"}

\* On to the first pending version, or to the end.
Proceed(r) ==
  LET v == Cardinality(AppliedVersions) + 1
  IN IF Valid(run[r].build) /\ v <= run[r].build.size
     THEN run' = [run EXCEPT ![r].at = "mark", ![r].v = v]
     ELSE Goto(r, "release")

ReadHistory(r) ==
  /\ At(r, "history")
  /\ \/ Fails(r) /\ Goto(r, "release")
     \/ /\ Succeeds(r)
        /\ \/ (Recorded # {} \/ ~HasUserSchema) /\ Proceed(r)
           \/ /\ Recorded = {} /\ HasUserSchema
              /\ IF AutoBaseline /\ DetectBaseline(run[r].build) # {}
                 THEN \E base \in DetectBaseline(run[r].build) :
                        run' = [run EXCEPT ![r].at = "adopt", ![r].v = 1, ![r].base = base]
                 ELSE Goto(r, "release")
  /\ UNCHANGED <<lock, holder, history, ran, cancelled, runs>>

AppendEvent(v, st, b) == history' = [history EXCEPT ![v] = [st |-> st, text |-> b.text]]

\* Adoption writes the versions of the baseline one by one.
Adopt(r) ==
  /\ At(r, "adopt")
  /\ \/ /\ Succeeds(r) /\ AppendEvent(run[r].v, "applied", run[r].build)
        /\ run' = [run EXCEPT ![r].at = IF run[r].v < run[r].base THEN "adopt" ELSE "reload",
                              ![r].v = @ + 1]
     \/ Fails(r) /\ Goto(r, "release") /\ UNCHANGED history
     \/ FailsLate(r) /\ Goto(r, "release") /\ AppendEvent(run[r].v, "applied", run[r].build)
  /\ UNCHANGED <<lock, holder, ran, cancelled, runs>>

Reload(r) ==
  /\ At(r, "reload")
  /\ \/ Succeeds(r) /\ Proceed(r)
     \/ Fails(r) /\ Goto(r, "release")
  /\ UNCHANGED <<lock, holder, history, ran, cancelled, runs>>

-----------------------------------------------------------------------------
(* Applying one version after the other. *)

MarkApplying(r) ==
  /\ At(r, "mark")
  /\ \/ /\ Succeeds(r) /\ AppendEvent(run[r].v, "applying", run[r].build)
        /\ run' = [run EXCEPT ![r].at = "exec", ![r].s = 1]
     \/ Fails(r) /\ Goto(r, "release") /\ UNCHANGED history
     \/ FailsLate(r) /\ Goto(r, "release") /\ AppendEvent(run[r].v, "applying", run[r].build)
  /\ UNCHANGED <<lock, holder, ran, cancelled, runs>>

\* Mutant: the loop stops one statement short.
BeforeTheLast(x) ==
  IF x.s + 1 < Steps THEN [x EXCEPT !.s = @ + 1] ELSE [x EXCEPT !.at = "applied", !.s = 0]

\* The next statement of the file, or the end of it.
AfterStatement(x) ==
  IF x.s < Steps THEN [x EXCEPT !.s = @ + 1] ELSE [x EXCEPT !.at = "applied", !.s = 0]

Exec(r) ==
  LET ranOnce == ran' = [ran EXCEPT ![<<run[r].v, run[r].s>>] = @ + 1]
  IN /\ At(r, "exec")
     /\ \/ /\ Succeeds(r) /\ ranOnce
           /\ run' = [run EXCEPT ![r] = AfterStatement(@)]
        \/ Fails(r) /\ Goto(r, "failed") /\ UNCHANGED ran
        \/ FailsLate(r) /\ Goto(r, "failed") /\ ranOnce
     /\ UNCHANGED <<lock, holder, history, cancelled, runs>>

\* fail: the failure is recorded with the same context, so perhaps it is not.
MarkFailed(r) ==
  /\ At(r, "failed") /\ Goto(r, "release")
  /\ \/ Succeeds(r) /\ AppendEvent(run[r].v, "failed", run[r].build)
     \/ Fails(r) /\ UNCHANGED history
     \/ FailsLate(r) /\ AppendEvent(run[r].v, "failed", run[r].build)
  /\ UNCHANGED <<lock, holder, ran, cancelled, runs>>

MarkApplied(r) ==
  /\ At(r, "applied")
  /\ \/ /\ Succeeds(r) /\ AppendEvent(run[r].v, "applied", run[r].build)
        /\ IF run[r].v < run[r].build.size
           THEN run' = [run EXCEPT ![r].at = "mark", ![r].v = @ + 1]
           ELSE Goto(r, "release")
     \/ Fails(r) /\ Goto(r, "release") /\ UNCHANGED history
     \/ FailsLate(r) /\ Goto(r, "release") /\ AppendEvent(run[r].v, "applied", run[r].build)
  /\ UNCHANGED <<lock, holder, ran, cancelled, runs>>

-----------------------------------------------------------------------------
(* What is outside of the runners. *)

\* SIGINT, SIGTERM or MIGRATE_TIMEOUT.
Cancel(r) ==
  /\ run[r] # Idle /\ r \notin cancelled /\ Fault("cancel")
  /\ cancelled' = cancelled \cup {r}
  /\ UNCHANGED <<lock, holder, history, ran, run, runs>>

Crash(r) ==
  /\ run[r] # Idle /\ Fault("crash") /\ Leave(r)
  /\ UNCHANGED <<lock, holder, history, ran, runs>>

\* "A stale lock must be inspected and dropped manually."
DropStaleLock ==
  /\ lock # None /\ run[holder] = Idle
  /\ lock' = None /\ holder' = None
  /\ UNCHANGED <<history, ran, run, cancelled, faults, runs>>

RunnerStep(r) ==
  \/ WriteOwner(r) \/ ReadHistory(r) \/ Adopt(r) \/ Reload(r)
  \/ MarkApplying(r) \/ Exec(r) \/ MarkFailed(r) \/ MarkApplied(r) \/ ReleaseLock(r)

Next ==
  \/ \E r \in Runners : Start(r) \/ RunnerStep(r) \/ Cancel(r) \/ Crash(r)
  \/ DropStaleLock

Spec == Init /\ [][Next]_vars

-----------------------------------------------------------------------------
(* Properties. *)

(***************************************************************************)
(* "One unambiguous winner even when two migrators race" (AcquireLock): no *)
(* two runners are between taking the lock and giving it back, through     *)
(* failed metadata writes, cancellations, crashes and locks dropped by     *)
(* hand.                                                                   *)
(***************************************************************************)
OneRunner == Cardinality({r \in Runners : run[r] # Idle}) <= 1

(***************************************************************************)
(* A version recorded as applied has run completely, by a runner or before *)
(* it was adopted: a deployment that finds it applied starts on a complete *)
(* schema (MarkApplied, Adopt).                                            *)
(***************************************************************************)
AppliedMeansRan == \A v \in AppliedVersions : Ran(v)

Index(x) == (x[1] - 1) * Steps + x[2]

\* The first n statements have run, each of them once.
FirstRan(n) == [x \in Versions \X (1 .. Steps) |-> IF Index(x) <= n THEN 1 ELSE 0]

\* How many statements have run, when they are the first ones and ran once.
Level ==
  IF \E n \in 0 .. N * Steps : ran = FirstRan(n)
  THEN CHOOSE n \in 0 .. N * Steps : ran = FirstRan(n) ELSE -1

\* A version that is dirty and that nobody works on.
Stuck ==
  \E v \in Recorded :
    \/ history[v].st = "failed"
    \/ /\ history[v].st = "applying"
       /\ \A r \in Runners : run[r].at \in {"exec", "applied", "failed"} => run[r].v # v

Progress == INSTANCE SchemaProgress
            WITH Total <- N * Steps, Levels <- {b * Steps : b \in Legacy},
                 level <- Level, stuck <- Stuck

(***************************************************************************)
(* "Migration failed and will not be retried automatically", "automatic    *)
(* replay is disabled" (Run, validateHistory): however runners are         *)
(* started, stopped and killed, the schema only ever advances by the next  *)
(* statement, and not at all once a migration has stopped half way.        *)
(***************************************************************************)
ImplementsProgress == Progress!ProgressSpec

(***************************************************************************)
(* "A schema that already has it must never be baselined below it"         *)
(* (DetectBaseline, on migrations that are not replayable): no statement   *)
(* runs twice.                                                             *)
(***************************************************************************)
NoStatementTwice == \A x \in DOMAIN ran : ran[x] <= 1
=============================================================================
