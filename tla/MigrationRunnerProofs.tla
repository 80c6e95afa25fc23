------------------------ MODULE MigrationRunnerProofs ------------------------
(***************************************************************************)
(* Proofs about the migration runners, for any number of runners, versions *)
(* and statements, any builds, any legacy schema and any faults: one       *)
(* runner at a time, and what is recorded as applied has run; and, for a   *)
(* schema that starts with at most one version, that the runners implement *)
(* SchemaProgress.                                                         *)
(***************************************************************************)
EXTENDS MigrationRunner, FiniteSetTheorems, TLAPS

-----------------------------------------------------------------------------
(* The inductive invariant. *)

Places == {"owner", "history", "adopt", "reload", "mark", "exec", "failed", "applied", "release"}
Event == [st : {"applying", "applied", "failed"}, text : Texts]
Running == [at : Places, build : Build, v : Nat, s : Nat, base : Nat]

MigrationTypeOK ==
  /\ history \in [Versions -> Event \cup {NoEvent}]
  /\ ran \in [Versions \X (1 .. Steps) -> Nat]
  /\ run \in [Runners -> Running \cup {Idle}]

\* Whoever runs created the lock table that is there.
RunnerHoldsLock ==
  /\ lock # None => holder \in Runners
  /\ \A r \in Runners : run[r] # Idle => lock # None /\ holder = r

\* What a runner has behind it, at the places that record or run something.
BehindIt(r) ==
  /\ At(r, "adopt") => /\ run[r].base \in Versions /\ run[r].v \in 1 .. run[r].base
                       /\ \A v \in 1 .. run[r].base : Ran(v)
  /\ run[r].at \in {"mark", "exec", "failed", "applied"} => run[r].v \in 1 .. run[r].build.size
  /\ At(r, "exec") => /\ run[r].s \in 1 .. Steps
                      /\ \A s \in 1 .. Steps : s < run[r].s => ran[<<run[r].v, s>>] > 0
  /\ At(r, "applied") => Ran(run[r].v)

RunsInOrder == \A r \in Runners : BehindIt(r)

MigrationInv == MigrationTypeOK /\ RunnerHoldsLock /\ RunsInOrder /\ AppliedMeansRan

-----------------------------------------------------------------------------
\* The migrations of a build are versions.
LEMMA SizesAreVersions == \A b \in Build : b.size \in Nat /\ 1 .. b.size \subseteq Versions
<1>1. Sizes \subseteq Versions /\ N \in Nat
  BY MigrationAssumption
<1> SUFFICES ASSUME NEW b \in Build PROVE b.size \in Nat /\ 1 .. b.size \subseteq Versions
  OBVIOUS
<1>2. b.size \in Sizes
  BY DEF Build
<1>3. b.size \in 1 .. N
  BY <1>1, <1>2 DEF Versions
<1> QED
  BY <1>1, <1>3 DEF Versions

\* The first states, with or without an old schema.
LEMMA MigrationInitially == Init => MigrationInv
<1> SUFFICES ASSUME Init PROVE MigrationInv
  OBVIOUS
<1>1. history = [v \in Versions |-> NoEvent] /\ run = [r \in Runners |-> Idle] /\ lock = None
  BY DEF Init
<1>2. ran \in [Versions \X (1 .. Steps) -> Nat]
  BY DEF Init
<1>3. \A r \in Runners : run[r] = Idle /\ run[r].at = "idle"
  BY <1>1 DEF Idle
<1>4. MigrationTypeOK
  BY <1>1, <1>2 DEF MigrationTypeOK
<1>5. RunnerHoldsLock /\ RunsInOrder
  BY <1>1, <1>3 DEF RunnerHoldsLock, RunsInOrder, BehindIt, At
<1>6. AppliedMeansRan
  BY <1>1 DEF AppliedMeansRan, AppliedVersions, Recorded
<1> QED
  BY <1>4, <1>5, <1>6 DEF MigrationInv

\* A runner that is somewhere is not idle, and has a build.
LEMMA Somewhere ==
  ASSUME MigrationInv, NEW r \in Runners, run[r].at # "idle"
  PROVE  run[r] # Idle /\ run[r] \in Running
BY DEF MigrationInv, MigrationTypeOK, Idle

-----------------------------------------------------------------------------
(* One step of one runner: where it goes, and what it leaves behind. *)

\* While a runner runs, the others do not.
LEMMA Alone ==
  ASSUME MigrationInv, NEW r \in Runners, run[r] # Idle
  PROVE  lock # None /\ holder = r /\ \A q \in Runners \ {r} : run[q] = Idle
BY DEF MigrationInv, RunnerHoldsLock

\* Statements only ever run more often.
RanGrows ==
  /\ ran' \in [Versions \X (1 .. Steps) -> Nat]
  /\ \A v \in Versions, s \in 1 .. Steps : ran[<<v, s>>] > 0 => ran'[<<v, s>>] > 0

\* A step that runs no statement forgets none.
LEMMA RanStays == ASSUME MigrationInv, ran' = ran PROVE RanGrows
BY DEF MigrationInv, MigrationTypeOK, RanGrows

\* A statement that runs has run.
LEMMA RanOnce ==
  ASSUME MigrationInv, NEW v \in Versions, NEW s \in 1 .. Steps,
         ran' = [ran EXCEPT ![<<v, s>>] = @ + 1]
  PROVE  RanGrows /\ ran'[<<v, s>>] > 0
<1>1. ran \in [Versions \X (1 .. Steps) -> Nat] /\ <<v, s>> \in Versions \X (1 .. Steps)
  BY DEF MigrationInv, MigrationTypeOK
<1>2. ran[<<v, s>>] \in Nat
  BY <1>1
<1>3. ran' \in [Versions \X (1 .. Steps) -> Nat]
  BY <1>1, <1>2
<1>4. ran'[<<v, s>>] = ran[<<v, s>>] + 1
  BY <1>1
<1>5. \A y \in Versions \X (1 .. Steps) : y # <<v, s>> => ran'[y] = ran[y]
  BY <1>1
<1>6. \A w \in Versions, t \in 1 .. Steps : ran[<<w, t>>] > 0 => ran'[<<w, t>>] > 0
  <2> SUFFICES ASSUME NEW w \in Versions, NEW t \in 1 .. Steps, ran[<<w, t>>] > 0
               PROVE  ran'[<<w, t>>] > 0
    OBVIOUS
  <2>1. CASE <<w, t>> = <<v, s>>
    BY <1>2, <1>4, <2>1
  <2>2. CASE <<w, t>> # <<v, s>>
    BY <1>5, <2>2
  <2> QED
    BY <2>1, <2>2
<1> QED
  BY <1>2, <1>3, <1>4, <1>6 DEF RanGrows

\* A version that ran has run for good.
LEMMA RanForGood == ASSUME RanGrows, NEW v \in Versions, Ran(v) PROVE Ran(v)'
BY DEF RanGrows, Ran

\* What a new event does to the versions that count as applied.
LEMMA EventStep ==
  ASSUME MigrationInv, NEW v \in Versions, NEW st \in {"applying", "applied", "failed"},
         NEW b \in Build, AppendEvent(v, st, b)
  PROVE  /\ history' \in [Versions -> Event \cup {NoEvent}]
         /\ \A w \in AppliedVersions' : w \in AppliedVersions \/ (w = v /\ st = "applied")
<1>1. history \in [Versions -> Event \cup {NoEvent}]
  BY DEF MigrationInv, MigrationTypeOK
<1>2. [st |-> st, text |-> b.text] \in Event
  BY DEF Event, Build
<1> DEFINE e == [st |-> st, text |-> b.text]
<1>3. e.st = st
  OBVIOUS
<1> HIDE DEF e
<1>4. history' = [history EXCEPT ![v] = e]
  BY DEF AppendEvent, e
<1>5. history' \in [Versions -> Event \cup {NoEvent}]
  BY <1>1, <1>2, <1>4 DEF e
<1>6. \A w \in Versions : history'[w] = IF w = v THEN e ELSE history[w]
  BY <1>1, <1>4
<1> QED
  BY <1>3, <1>5, <1>6 DEF AppliedVersions, Recorded

\* A step that keeps the runner going preserves the invariant when it leaves behind what it should.
LEMMA RunnerGoes ==
  ASSUME MigrationInv, NEW r \in Runners, run[r] # Idle,
         NEW x \in Running, run' = [run EXCEPT ![r] = x],
         lock' # None, holder' = holder, RanGrows,
         history' \in [Versions -> Event \cup {NoEvent}],
         \A v \in AppliedVersions' : v \in AppliedVersions \/ Ran(v)',
         BehindIt(r)'
  PROVE  MigrationInv'
<1>1. run \in [Runners -> Running \cup {Idle}]
  BY DEF MigrationInv, MigrationTypeOK
<1>2. run'[r] = x /\ \A q \in Runners \ {r} : run'[q] = Idle
  BY <1>1, Alone
<1>3. MigrationTypeOK'
  BY <1>1 DEF MigrationTypeOK, RanGrows
<1>4. RunnerHoldsLock'
  BY <1>2, Alone DEF RunnerHoldsLock
<1>5. RunsInOrder'
  <2>1. ASSUME NEW q \in Runners \ {r} PROVE BehindIt(q)'
    BY <1>2, <2>1 DEF BehindIt, At, Idle
  <2> QED
    BY <2>1 DEF RunsInOrder
<1>6. AppliedMeansRan'
  BY RanForGood DEF MigrationInv, AppliedMeansRan, AppliedVersions, Recorded
<1> QED
  BY <1>3, <1>4, <1>5, <1>6 DEF MigrationInv

\* A step with which nobody runs any more.
LEMMA NobodyRuns ==
  ASSUME MigrationInv, run' \in [Runners -> {Idle}], UNCHANGED <<history, ran>>,
         lock' # None => holder' \in Runners
  PROVE  MigrationInv'
<1>1. \A q \in Runners : run'[q] = Idle /\ run'[q].at = "idle"
  BY DEF Idle
<1>2. MigrationTypeOK'
  BY DEF MigrationInv, MigrationTypeOK
<1>3. RunnerHoldsLock' /\ RunsInOrder'
  BY <1>1 DEF RunnerHoldsLock, RunsInOrder, BehindIt, At
<1>4. AppliedMeansRan'
  BY DEF MigrationInv, AppliedMeansRan, AppliedVersions, Recorded, Ran
<1> QED
  BY <1>2, <1>3, <1>4 DEF MigrationInv

\* When the runner at work leaves, nobody is at work.
LEMMA Leaving ==
  ASSUME MigrationInv, NEW r \in Runners, run[r] # Idle, Leave(r)
  PROVE  run' \in [Runners -> {Idle}]
<1>1. run \in [Runners -> Running \cup {Idle}] /\ \A q \in Runners \ {r} : run[q] = Idle
  BY Alone DEF MigrationInv, MigrationTypeOK
<1> QED
  BY <1>1 DEF Leave

\* Giving up: on to the release of the lock.
LEMMA GoesToRelease ==
  ASSUME MigrationInv, NEW r \in Runners, run[r].at # "idle", Goto(r, "release"),
         UNCHANGED <<lock, holder>>, RanGrows,
         history' \in [Versions -> Event \cup {NoEvent}],
         \A v \in AppliedVersions' : v \in AppliedVersions \/ Ran(v)'
  PROVE  MigrationInv'
<1>1. run[r] # Idle /\ run[r] \in Running /\ lock # None
  BY Somewhere, Alone
<1> DEFINE x == [run[r] EXCEPT !.at = "release"]
<1>2. x \in Running /\ x.at = "release"
  BY <1>1 DEF Running, Places
<1>3. run' = [run EXCEPT ![r] = x]
  BY DEF Goto
<1>4. run'[r] = x
  BY <1>3 DEF MigrationInv, MigrationTypeOK
<1> HIDE DEF x
<1>5. BehindIt(r)'
  BY <1>2, <1>4 DEF BehindIt, At
<1> QED
  BY <1>1, <1>2, <1>3, <1>5, RunnerGoes

\* The schema and its history, when a step leaves both alone.
LEMMA SchemaStays ==
  ASSUME MigrationInv, UNCHANGED <<history, ran>>
  PROVE  /\ RanGrows /\ history' \in [Versions -> Event \cup {NoEvent}]
         /\ \A v \in AppliedVersions' : v \in AppliedVersions
         /\ \A v \in Versions : Ran(v)' <=> Ran(v)
BY RanStays DEF MigrationInv, MigrationTypeOK, AppliedVersions, Recorded, Ran

\* The applied versions can be counted.
LEMMA VersionCount == Cardinality(AppliedVersions) \in Nat
<1>1. IsFiniteSet(Versions)
  <2>1. N \in Nat
    BY MigrationAssumption
  <2> QED
    BY <2>1, FS_Interval DEF Versions
<1>2. AppliedVersions \subseteq Versions
  BY DEF AppliedVersions, Recorded
<1> QED
  BY <1>1, <1>2, FS_Subset, FS_CardinalityType

\* On to the first pending version.
LEMMA ProceedStep ==
  ASSUME MigrationInv, NEW r \in Runners, run[r].at # "idle", Proceed(r),
         UNCHANGED <<lock, holder, history, ran>>
  PROVE  MigrationInv'
<1> DEFINE v == Cardinality(AppliedVersions) + 1
           x == [run[r] EXCEPT !.at = "mark", !.v = v]
<1>0. v \in Nat \ {0}
  BY VersionCount
<1> HIDE DEF v
<1>1. run[r] # Idle /\ run[r] \in Running /\ lock # None
  BY Somewhere, Alone
<1>2. CASE Goto(r, "release")
  BY <1>1, <1>2, GoesToRelease, SchemaStays
<1>3. CASE run' = [run EXCEPT ![r].at = "mark", ![r].v = v] /\ v <= run[r].build.size
  <2>1. run' = [run EXCEPT ![r] = x] /\ run'[r] = x
    BY <1>3 DEF MigrationInv, MigrationTypeOK
  <2>2. x \in Running /\ x.at = "mark" /\ x.v = v /\ x.build = run[r].build
    BY <1>0, <1>1 DEF Running, Places
  <2>3. run[r].build.size \in Nat
    BY <1>1, SizesAreVersions DEF Running
  <2> HIDE DEF x
  <2>4. BehindIt(r)'
    BY <1>0, <1>3, <2>1, <2>2, <2>3 DEF BehindIt, At
  <2> QED
    BY <1>1, <2>1, <2>2, <2>4, RunnerGoes, SchemaStays
<1> QED
  BY <1>2, <1>3 DEF Proceed, v

\* Events written for the version a runner is at.
LEMMA RecordStep ==
  ASSUME MigrationInv, NEW r \in Runners, run[r].at \in {"adopt", "mark", "exec", "failed", "applied"},
         NEW st \in {"applying", "applied", "failed"}, AppendEvent(run[r].v, st, run[r].build),
         ran' = ran, st = "applied" => Ran(run[r].v)
  PROVE  /\ run[r].v \in Versions /\ RanGrows
         /\ history' \in [Versions -> Event \cup {NoEvent}]
         /\ \A v \in AppliedVersions' : v \in AppliedVersions \/ Ran(v)'
<1>1. run[r] \in Running /\ BehindIt(r)
  BY Somewhere DEF MigrationInv, RunsInOrder
<1>2. run[r].build \in Build
  BY <1>1 DEF Running
<1>3. run[r].v \in Versions
  BY <1>1, <1>2, SizesAreVersions, MigrationAssumption DEF BehindIt, At, Versions
<1>4. RanGrows /\ \A v \in Versions : Ran(v) => Ran(v)'
  BY RanStays, RanForGood
<1>5. /\ history' \in [Versions -> Event \cup {NoEvent}]
      /\ \A w \in AppliedVersions' : w \in AppliedVersions \/ (w = run[r].v /\ st = "applied")
  BY <1>2, <1>3, EventStep
<1> QED
  BY <1>3, <1>4, <1>5

-----------------------------------------------------------------------------
(* The actions. *)

\* A runner takes the lock or is refused.
LEMMA StartStep == ASSUME MigrationInv, NEW r \in Runners, Start(r) PROVE MigrationInv'
<1>0. run \in [Runners -> Running \cup {Idle}] /\ UNCHANGED <<history, ran>>
  BY DEF MigrationInv, MigrationTypeOK, Start
<1>1. CASE LockFree
  <2>1. \A q \in Runners : run[q] = Idle
    BY <1>1 DEF MigrationInv, RunnerHoldsLock, LockFree
  <2>2. lock' = "" /\ holder' = r /\ "" # None
    BY <1>1 DEF Start, None
  <2>3. CASE run' = run
    BY <1>0, <2>1, <2>2, <2>3, NobodyRuns
  <2>4. ASSUME NEW b \in Build,
               run' = [run EXCEPT ![r] = [at |-> "owner", build |-> b, v |-> 0, s |-> 0, base |-> 0]]
        PROVE  MigrationInv'
    <3> DEFINE x == [at |-> "owner", build |-> b, v |-> 0, s |-> 0, base |-> 0]
    <3>1. x \in Running /\ x.at = "owner"
      BY DEF Running, Places
    <3> HIDE DEF x
    <3>2. run' = [run EXCEPT ![r] = x]
      BY <2>4 DEF x
    <3>3. run'[r] = x /\ \A q \in Runners \ {r} : run'[q] = Idle
      BY <1>0, <2>1, <3>2
    <3>4. MigrationTypeOK'
      BY <1>0, <3>1, <3>2 DEF MigrationInv, MigrationTypeOK
    <3>5. RunnerHoldsLock'
      BY <2>2, <3>3 DEF RunnerHoldsLock
    <3>6. RunsInOrder'
      BY <3>1, <3>3 DEF RunsInOrder, BehindIt, At, Idle
    <3>7. AppliedMeansRan'
      BY <1>0 DEF MigrationInv, AppliedMeansRan, AppliedVersions, Recorded, Ran
    <3> QED
      BY <3>4, <3>5, <3>6, <3>7 DEF MigrationInv
  <2> QED
    BY <1>1, <2>3, <2>4 DEF Start
<1>2. CASE ~LockFree
  <2>1. UNCHANGED <<lock, holder, run>>
    BY <1>2 DEF Start
  <2> QED
    BY <1>0, <2>1 DEF MigrationInv, MigrationTypeOK, RunnerHoldsLock, RunsInOrder, BehindIt, At,
                      AppliedMeansRan, AppliedVersions, Recorded, Ran
<1> QED
  BY <1>1, <1>2

\* The rest of the protocol of the lock, and a runner that is killed.
LEMMA LockStep ==
  ASSUME MigrationInv, NEW r \in Runners, WriteOwner(r) \/ ReleaseLock(r) \/ Crash(r)
  PROVE  MigrationInv'
<1>1. run[r] # Idle /\ run[r] \in Running /\ lock # None /\ holder = r /\ UNCHANGED <<history, ran>>
  <2>1. run[r].at # "idle"
    BY DEF WriteOwner, ReleaseLock, Crash, At, MigrationInv, MigrationTypeOK, Running, Places
  <2> QED
    BY <2>1, Somewhere, Alone DEF WriteOwner, ReleaseLock, Crash
<1>2. CASE Leave(r)
  <2>1. lock' # None => holder' \in Runners
    BY <1>1, <1>2 DEF WriteOwner, ReleaseLock, Crash
  <2> QED
    BY <1>1, <1>2, <2>1, Leaving, NobodyRuns
<1>3. CASE WriteOwner(r) /\ ~Leave(r)
  <2>1. lock' = r /\ holder' = holder /\ Goto(r, "history")
    BY <1>3 DEF WriteOwner
  <2>2. lock' # None
    BY <2>1, MigrationAssumption
  <2> DEFINE x == [run[r] EXCEPT !.at = "history"]
  <2>3. x \in Running /\ x.at = "history"
    BY <1>1 DEF Running, Places
  <2>4. run' = [run EXCEPT ![r] = x] /\ run'[r] = x
    BY <2>1 DEF Goto, MigrationInv, MigrationTypeOK
  <2> HIDE DEF x
  <2>5. BehindIt(r)'
    BY <2>3, <2>4 DEF BehindIt, At
  <2> QED
    BY <1>1, <2>1, <2>2, <2>3, <2>4, <2>5, RunnerGoes, SchemaStays
<1> QED
  BY <1>2, <1>3 DEF WriteOwner, ReleaseLock, Crash

\* The history is read, before and after an adoption.
LEMMA ReadHistoryStep ==
  ASSUME MigrationInv, NEW r \in Runners, ReadHistory(r) \/ Reload(r)
  PROVE  MigrationInv'
<1>1. run[r].at # "idle" /\ UNCHANGED <<lock, holder, history, ran>>
  BY DEF ReadHistory, Reload, At
<1>2. run[r] # Idle /\ run[r] \in Running /\ lock # None
  BY <1>1, Somewhere, Alone
<1>3. CASE Goto(r, "release")
  BY <1>1, <1>3, GoesToRelease, SchemaStays
<1>4. CASE Proceed(r)
  BY <1>1, <1>4, ProceedStep
<1>5. ASSUME NEW base \in DetectBaseline(run[r].build),
             run' = [run EXCEPT ![r].at = "adopt", ![r].v = 1, ![r].base = base]
      PROVE  MigrationInv'
  <2> DEFINE x == [run[r] EXCEPT !.at = "adopt", !.v = 1, !.base = base]
  <2>1. run[r].build \in Build
    BY <1>2 DEF Running
  <2>2. base \in 1 .. run[r].build.size /\ \A v \in 1 .. run[r].build.size : Ran(v) <=> v <= base
    BY DEF DetectBaseline
  <2>3. base \in Versions /\ base \in Nat \ {0} /\ run[r].build.size \in Nat
    BY <2>1, <2>2, SizesAreVersions
  <2>4. \A v \in 1 .. base : v \in Versions /\ Ran(v)
    BY <2>1, <2>2, <2>3, SizesAreVersions
  <2>5. x \in Running /\ x.at = "adopt" /\ x.v = 1 /\ x.base = base
    BY <1>2, <2>3 DEF Running, Places
  <2>6. run' = [run EXCEPT ![r] = x] /\ run'[r] = x
    BY <1>5 DEF MigrationInv, MigrationTypeOK
  <2> HIDE DEF x
  <2>7. \A v \in 1 .. base : Ran(v)'
    BY <1>1, <2>4, SchemaStays
  <2>8. BehindIt(r)'
    BY <2>3, <2>5, <2>6, <2>7 DEF BehindIt, At
  <2> QED
    BY <1>1, <1>2, <2>5, <2>6, <2>8, RunnerGoes, SchemaStays
<1> QED
  BY <1>3, <1>4, <1>5 DEF ReadHistory, Reload

\* The versions found in the schema are recorded as applied.
LEMMA AdoptStep == ASSUME MigrationInv, NEW r \in Runners, Adopt(r) PROVE MigrationInv'
<1>1. At(r, "adopt") /\ run[r].at = "adopt" /\ UNCHANGED <<lock, holder, ran>>
  BY DEF Adopt, At
<1>2. run[r] # Idle /\ run[r] \in Running /\ lock # None
  BY <1>1, Somewhere, Alone
<1>3. /\ run[r].base \in Versions /\ run[r].v \in 1 .. run[r].base
      /\ \A v \in 1 .. run[r].base : Ran(v)
  BY <1>1 DEF MigrationInv, RunsInOrder, BehindIt
<1>4. ASSUME AppendEvent(run[r].v, "applied", run[r].build)
      PROVE  /\ RanGrows /\ history' \in [Versions -> Event \cup {NoEvent}]
             /\ \A v \in AppliedVersions' : v \in AppliedVersions \/ Ran(v)'
  BY <1>1, <1>3, <1>4, RecordStep
<1>5. CASE Goto(r, "release")
  <2>1. CASE history' = history
    BY <1>1, <1>5, <2>1, GoesToRelease, SchemaStays
  <2>2. CASE AppendEvent(run[r].v, "applied", run[r].build)
    BY <1>1, <1>4, <1>5, <2>2, GoesToRelease
  <2> QED
    BY <1>5, <2>1, <2>2 DEF Adopt
<1>6. CASE ~Goto(r, "release")
  <2> DEFINE place == IF run[r].v < run[r].base THEN "adopt" ELSE "reload"
             x == [run[r] EXCEPT !.at = place, !.v = @ + 1]
  <2>1. run' = [run EXCEPT ![r] = x] /\ run'[r] = x /\ AppendEvent(run[r].v, "applied", run[r].build)
    BY <1>6 DEF Adopt, MigrationInv, MigrationTypeOK
  <2>2. place \in {"adopt", "reload"} /\ (place = "adopt" => run[r].v < run[r].base)
    OBVIOUS
  <2> HIDE DEF place
  <2>3. x \in Running /\ x.at = place /\ x.v = run[r].v + 1 /\ x.base = run[r].base
    <3>1. run[r].v + 1 \in Nat
      BY <1>2 DEF Running
    <3> QED
      BY <1>2, <2>2, <3>1 DEF Running, Places
  <2> HIDE DEF x
  <2>4. run[r].base \in Nat /\ run[r].v \in Nat /\ 1 .. run[r].base \subseteq Versions
    <3>1. N \in Nat /\ run[r].base \in 1 .. N /\ run[r].v \in 1 .. run[r].base
      BY <1>3, MigrationAssumption DEF Versions
    <3> QED
      BY <3>1 DEF Versions
  <2>5. \A v \in 1 .. run[r].base : Ran(v)'
    BY <1>1, <1>3, <2>4, RanStays, RanForGood
  <2>6. BehindIt(r)'
    BY <1>3, <2>1, <2>2, <2>3, <2>4, <2>5 DEF BehindIt, At
  <2> QED
    BY <1>1, <1>2, <1>4, <2>1, <2>3, <2>6, RunnerGoes
<1> QED
  BY <1>5, <1>6

\* The events of a version: applying, failed, applied.
LEMMA ApplyStep ==
  ASSUME MigrationInv, NEW r \in Runners, MarkApplying(r) \/ MarkFailed(r) \/ MarkApplied(r)
  PROVE  MigrationInv'
<1>1. run[r].at \in {"mark", "failed", "applied"} /\ UNCHANGED <<lock, holder, ran>>
  BY DEF MarkApplying, MarkFailed, MarkApplied, At
<1>2. run[r] # Idle /\ run[r] \in Running /\ lock # None
  BY <1>1, Somewhere, Alone
<1>3. run[r].build \in Build /\ run[r].v \in 1 .. run[r].build.size /\ (At(r, "applied") => Ran(run[r].v))
  BY <1>1, <1>2 DEF MigrationInv, RunsInOrder, BehindIt, Running
<1>4. run[r].build.size \in Nat /\ run[r].v \in Nat /\ Steps \in Nat \ {0}
  BY <1>3, SizesAreVersions, MigrationAssumption
<1>5. /\ RanGrows /\ history' \in [Versions -> Event \cup {NoEvent}]
      /\ \A v \in AppliedVersions' : v \in AppliedVersions \/ Ran(v)'
  <2>1. CASE history' = history
    BY <1>1, <2>1, SchemaStays
  <2>2. CASE MarkApplied(r) /\ AppendEvent(run[r].v, "applied", run[r].build)
    <3>1. Ran(run[r].v)
      BY <1>3, <2>2 DEF MarkApplied
    <3> QED
      BY <1>1, <2>2, <3>1, RecordStep
  <2>3. ASSUME NEW st \in {"applying", "failed"}, AppendEvent(run[r].v, st, run[r].build)
        PROVE  /\ RanGrows /\ history' \in [Versions -> Event \cup {NoEvent}]
               /\ \A v \in AppliedVersions' : v \in AppliedVersions \/ Ran(v)'
    BY <1>1, <2>3, RecordStep
  <2> QED
    BY <2>1, <2>2, <2>3 DEF MarkApplying, MarkFailed, MarkApplied
<1>6. CASE Goto(r, "release")
  BY <1>1, <1>5, <1>6, GoesToRelease
<1>7. CASE MarkApplying(r) /\ ~Goto(r, "release")
  <2> DEFINE x == [run[r] EXCEPT !.at = "exec", !.s = 1]
  <2>1. run' = [run EXCEPT ![r] = x] /\ run'[r] = x
    BY <1>7 DEF MarkApplying, MigrationInv, MigrationTypeOK
  <2>2. x \in Running /\ x.at = "exec" /\ x.s = 1 /\ x.v = run[r].v /\ x.build = run[r].build
    BY <1>2 DEF Running, Places
  <2> HIDE DEF x
  <2>3. BehindIt(r)'
    BY <1>3, <1>4, <2>1, <2>2 DEF BehindIt, At
  <2> QED
    BY <1>1, <1>2, <1>5, <2>1, <2>2, <2>3, RunnerGoes
<1>8. CASE MarkApplied(r) /\ ~Goto(r, "release")
  <2> DEFINE x == [run[r] EXCEPT !.at = "mark", !.v = @ + 1]
  <2>1. run' = [run EXCEPT ![r] = x] /\ run'[r] = x /\ run[r].v < run[r].build.size
    BY <1>8 DEF MarkApplied, MigrationInv, MigrationTypeOK
  <2>2. x \in Running /\ x.at = "mark" /\ x.v = run[r].v + 1 /\ x.build = run[r].build
    <3>1. run[r].v + 1 \in Nat
      BY <1>4
    <3> QED
      BY <1>2, <3>1 DEF Running, Places
  <2> HIDE DEF x
  <2>3. BehindIt(r)'
    BY <1>3, <1>4, <2>1, <2>2 DEF BehindIt, At
  <2> QED
    BY <1>1, <1>2, <1>5, <2>1, <2>2, <2>3, RunnerGoes
<1> QED
  BY <1>6, <1>7, <1>8 DEF MarkFailed

\* A statement runs, or fails before or after its effect.
LEMMA ExecStep == ASSUME MigrationInv, NEW r \in Runners, Exec(r) PROVE MigrationInv'
<1>1. At(r, "exec") /\ run[r].at = "exec" /\ UNCHANGED <<lock, holder, history>>
  BY DEF Exec, At
<1>2. run[r] # Idle /\ run[r] \in Running /\ lock # None
  BY <1>1, Somewhere, Alone
<1>3. /\ run[r].build \in Build /\ run[r].v \in 1 .. run[r].build.size /\ run[r].s \in 1 .. Steps
      /\ \A s \in 1 .. Steps : s < run[r].s => ran[<<run[r].v, s>>] > 0
  BY <1>1, <1>2 DEF MigrationInv, RunsInOrder, BehindIt, Running
<1>4. run[r].v \in Versions /\ Steps \in Nat \ {0}
  BY <1>3, SizesAreVersions, MigrationAssumption
<1> DEFINE ranOnce == ran' = [ran EXCEPT ![<<run[r].v, run[r].s>>] = @ + 1]
<1>5. RanGrows /\ (ranOnce => ran'[<<run[r].v, run[r].s>>] > 0)
  <2>1. CASE ran' = ran /\ ~ranOnce
    BY <2>1, RanStays
  <2>2. CASE ranOnce
    BY <1>3, <1>4, <2>2, RanOnce
  <2> QED
    BY <2>1, <2>2 DEF Exec
<1>6. \A v \in AppliedVersions' : v \in AppliedVersions
  BY <1>1 DEF AppliedVersions, Recorded
<1>7. history' \in [Versions -> Event \cup {NoEvent}]
  BY <1>1 DEF MigrationInv, MigrationTypeOK
<1>8. CASE Goto(r, "failed")
  <2> DEFINE x == [run[r] EXCEPT !.at = "failed"]
  <2>1. run' = [run EXCEPT ![r] = x] /\ run'[r] = x
    BY <1>8 DEF Goto, MigrationInv, MigrationTypeOK
  <2>2. x \in Running /\ x.at = "failed" /\ x.v = run[r].v /\ x.build = run[r].build
    BY <1>2 DEF Running, Places
  <2> HIDE DEF x
  <2>3. BehindIt(r)'
    BY <1>3, <2>1, <2>2 DEF BehindIt, At
  <2> QED
    BY <1>1, <1>2, <1>5, <1>6, <1>7, <2>1, <2>2, <2>3, RunnerGoes
<1>9. CASE ranOnce /\ run' = [run EXCEPT ![r] = AfterStatement(@)]
  <2> DEFINE x == AfterStatement(run[r])
  <2>1. run' = [run EXCEPT ![r] = x] /\ run'[r] = x
    BY <1>9 DEF MigrationInv, MigrationTypeOK
  <2>2. \A s \in 1 .. Steps : s <= run[r].s => ran'[<<run[r].v, s>>] > 0
    <3> SUFFICES ASSUME NEW s \in 1 .. Steps, s <= run[r].s PROVE ran'[<<run[r].v, s>>] > 0
      OBVIOUS
    <3>1. CASE s = run[r].s
      BY <1>5, <1>9, <3>1
    <3>2. CASE s # run[r].s
      <4>1. s < run[r].s
        BY <1>3, <1>4, <3>2
      <4> QED
        BY <1>3, <1>4, <1>5, <4>1 DEF RanGrows
    <3> QED
      BY <3>1, <3>2
  <2>3. CASE run[r].s < Steps
    <3>1. x = [run[r] EXCEPT !.s = @ + 1]
      BY <2>3 DEF AfterStatement
    <3>2. x \in Running /\ x.at = "exec" /\ x.v = run[r].v /\ x.build = run[r].build /\ x.s = run[r].s + 1
      BY <1>1, <1>2, <3>1 DEF Running, Places
    <3> HIDE DEF x
    <3>3. run[r].s + 1 \in 1 .. Steps /\ \A s \in 1 .. Steps : s < run[r].s + 1 => s <= run[r].s
      BY <1>3, <1>4, <2>3
    <3>4. BehindIt(r)'
      BY <1>3, <2>1, <2>2, <3>2, <3>3 DEF BehindIt, At
    <3> QED
      BY <1>1, <1>2, <1>5, <1>6, <1>7, <2>1, <3>2, <3>4, RunnerGoes
  <2>4. CASE ~(run[r].s < Steps)
    <3>1. x = [run[r] EXCEPT !.at = "applied", !.s = 0]
      BY <2>4 DEF AfterStatement
    <3> HIDE DEF x
    <3>2. x \in Running /\ x.at = "applied" /\ x.v = run[r].v /\ x.build = run[r].build
      BY <1>2, <3>1 DEF Running, Places
    <3>3. \A s \in 1 .. Steps : s <= run[r].s
      BY <1>3, <1>4, <2>4
    <3>4. BehindIt(r)'
      BY <1>3, <2>1, <2>2, <3>2, <3>3 DEF BehindIt, At, Ran
    <3> QED
      BY <1>1, <1>2, <1>5, <1>6, <1>7, <2>1, <3>2, <3>4, RunnerGoes
  <2> QED
    BY <2>3, <2>4
<1> QED
  BY <1>8, <1>9 DEF Exec

\* The rest leaves the runners where they are, or nobody runs.
LEMMA OutsideStep ==
  ASSUME MigrationInv, (\E r \in Runners : Cancel(r)) \/ DropStaleLock \/ UNCHANGED vars
  PROVE  MigrationInv'
<1>1. CASE (\E r \in Runners : Cancel(r)) \/ UNCHANGED vars
  <2>1. UNCHANGED <<lock, holder, history, ran, run>>
    BY <1>1 DEF Cancel, vars
  <2>2. MigrationTypeOK' /\ RunnerHoldsLock'
    BY <2>1 DEF MigrationInv, MigrationTypeOK, RunnerHoldsLock
  <2>3. RunsInOrder' /\ AppliedMeansRan'
    BY <2>1 DEF MigrationInv, RunsInOrder, BehindIt, At, Ran, AppliedMeansRan, AppliedVersions, Recorded
  <2> QED
    BY <2>2, <2>3 DEF MigrationInv
<1>2. CASE DropStaleLock
  <2>1. lock # None /\ run[holder] = Idle /\ lock' = None /\ UNCHANGED <<history, ran, run>>
    BY <1>2 DEF DropStaleLock
  <2>2. \A r \in Runners : run[r] = Idle
    BY <2>1 DEF MigrationInv, RunnerHoldsLock
  <2>3. run' \in [Runners -> {Idle}]
    BY <2>1, <2>2 DEF MigrationInv, MigrationTypeOK
  <2> QED
    BY <2>1, <2>3, NobodyRuns
<1> QED
  BY <1>1, <1>2

\* Every step of a runner or an operator keeps the invariant.
LEMMA MigrationStep == MigrationInv /\ [Next]_vars => MigrationInv'
BY StartStep, LockStep, ReadHistoryStep, AdoptStep, ApplyStep, ExecStep, OutsideStep DEF Next, RunnerStep

-----------------------------------------------------------------------------
(* At no time do two runners hold the lock: AcquireLock lets in only the   *)
(* one that created the table, and nobody but it, or an operator after it  *)
(* is gone, drops the table again.                                         *)
THEOREM OneRunnerAtATime == Spec => []OneRunner
<1>1. MigrationInv => OneRunner
  <2> SUFFICES ASSUME MigrationInv PROVE Cardinality({r \in Runners : run[r] # Idle}) <= 1
    BY DEF OneRunner
  <2> DEFINE R == {r \in Runners : run[r] # Idle}
  <2>1. R \subseteq {holder}
    BY DEF MigrationInv, RunnerHoldsLock
  <2>2. IsFiniteSet({holder}) /\ Cardinality({holder}) = 1
    BY FS_Singleton
  <2> HIDE DEF R
  <2>3. Cardinality(R) <= Cardinality({holder})
    BY <2>1, <2>2, FS_Subset
  <2> QED
    BY <2>2, <2>3 DEF R
<1> QED
  BY <1>1, MigrationInitially, MigrationStep, PTL DEF Spec

(* A version that the history calls applied has run to its last statement, *)
(* whether a runner applied it (MarkApplied after Exec) or adopted it      *)
(* (DetectBaseline), and whatever failed or crashed in between.            *)
THEOREM AppliedVersionsRan == Spec => []AppliedMeansRan
<1>1. MigrationInv => AppliedMeansRan
  BY DEF MigrationInv
<1> QED
  BY <1>1, MigrationInitially, MigrationStep, PTL DEF Spec


-----------------------------------------------------------------------------
(* The schema as a level: the statements in their order. *)

\* The statements before version v.
Before(v) == (v - 1) * Steps

\* The versions follow each other, Steps statements apart.
LEMMA BeforeProperties ==
  /\ Before(1) = 0 /\ Before(2) = Steps /\ Before(N + 1) = N * Steps
  /\ \A v \in Nat : Before(v) \in Int /\ Before(v + 1) = Before(v) + Steps
  /\ \A v, w \in Nat : v < w => Before(v) + Steps <= Before(w)
<1>0. Steps \in Nat /\ Steps > 0 /\ N \in Nat
  BY MigrationAssumption
<1>1. Before(1) = 0 /\ Before(2) = Steps /\ Before(N + 1) = N * Steps
  BY <1>0 DEF Before
<1>2. ASSUME NEW v \in Nat PROVE Before(v) \in Int /\ Before(v + 1) = Before(v) + Steps
  BY <1>0 DEF Before
<1>3. ASSUME NEW v \in Nat, NEW w \in Nat, v < w PROVE Before(v) + Steps <= Before(w)
  <2>1. (w - 1 - v) * Steps >= 0
    <3>1. w - 1 - v \in Nat
      BY <1>3
    <3> QED
      BY <1>0, <3>1
  <2>2. Before(w) = Before(v) + Steps + (w - 1 - v) * Steps
    BY <1>0 DEF Before
  <2>3. Before(v) \in Int /\ (w - 1 - v) * Steps \in Int
    BY <1>0 DEF Before
  <2> QED
    BY <1>0, <2>1, <2>2, <2>3
<1> QED
  BY <1>1, <1>2, <1>3

\* Every number up to that of all the statements is the place of one of them.
LEMMA EveryPlace ==
  ASSUME NEW n \in 1 .. N * Steps
  PROVE  \E v \in Versions, s \in 1 .. Steps : Before(v) + s = n
<1>0. Steps \in Nat /\ Steps > 0 /\ N \in Nat /\ N * Steps \in Nat
  BY MigrationAssumption
<1> DEFINE q == (n - 1) \div Steps
           s == (n - 1) % Steps
<1>1. q \in Int /\ s \in 0 .. Steps - 1 /\ n - 1 = Steps * q + s
  BY <1>0
<1> HIDE DEF q, s
<1>2. q >= 0
  <2> SUFFICES ASSUME q <= -1 PROVE FALSE
    BY <1>1
  <2>1. Steps * q <= -Steps
    BY <1>0, <1>1
  <2>2. Steps * q \in Int
    BY <1>0, <1>1
  <2> QED
    BY <1>0, <1>1, <2>1, <2>2
<1>3. q < N
  <2> SUFFICES ASSUME q >= N PROVE FALSE
    BY <1>0, <1>1
  <2>1. Steps * q >= N * Steps
    BY <1>0, <1>1
  <2>2. Steps * q \in Int
    BY <1>0, <1>1
  <2> QED
    BY <1>0, <1>1, <2>1, <2>2
<1>4. q + 1 \in Versions /\ s + 1 \in 1 .. Steps
  BY <1>0, <1>1, <1>2, <1>3 DEF Versions
<1>5. Before(q + 1) = Steps * q
  BY <1>0, <1>1 DEF Before
<1>6. Before(q + 1) + (s + 1) = n
  <2> DEFINE p == Steps * q
  <2>1. p \in Int /\ n \in Int /\ s \in Int /\ n - 1 = p + s /\ Before(q + 1) = p
    BY <1>0, <1>1, <1>5
  <2> HIDE DEF p
  <2>2. p + (s + 1) = n
    BY <2>1
  <2> QED
    BY <2>1, <2>2
<1> QED
  BY <1>4, <1>6

\* No two statements have the same place.
LEMMA OnePlaceEach ==
  ASSUME NEW v \in Versions, NEW s \in 1 .. Steps, NEW w \in Versions, NEW t \in 1 .. Steps,
         Before(v) + s = Before(w) + t
  PROVE  v = w /\ s = t
<1>0. Steps \in Nat /\ N \in Nat /\ v \in Nat /\ w \in Nat /\ Before(v) \in Int /\ Before(w) \in Int
  BY MigrationAssumption, BeforeProperties DEF Versions
<1>1. CASE v < w
  <2>1. Before(v) + Steps <= Before(w)
    BY <1>0, <1>1, BeforeProperties
  <2> QED
    BY <1>0, <2>1
<1>2. CASE w < v
  <2>1. Before(w) + Steps <= Before(v)
    BY <1>0, <1>2, BeforeProperties
  <2> QED
    BY <1>0, <2>1
<1>3. CASE v = w
  BY <1>0, <1>3
<1> QED
  BY <1>0, <1>1, <1>2, <1>3

\* The schema after n statements, read statement by statement.
LEMMA FirstRanProperties ==
  ASSUME NEW n \in Int
  PROVE  /\ FirstRan(n) \in [Versions \X (1 .. Steps) -> Nat]
         /\ \A v \in Versions, s \in 1 .. Steps :
              FirstRan(n)[<<v, s>>] = IF Before(v) + s <= n THEN 1 ELSE 0
<1>1. \A v \in Versions, s \in 1 .. Steps : Index(<<v, s>>) = Before(v) + s
  BY DEF Index, Before
<1> QED
  BY <1>1 DEF FirstRan

\* The level of a schema is the number of its statements.
LEMMA LevelIs ==
  ASSUME NEW n \in 0 .. N * Steps, NEW m \in 0 .. N * Steps, FirstRan(m) = FirstRan(n)
  PROVE  m = n
<1>0. N * Steps \in Nat
  BY MigrationAssumption
<1>1. ASSUME NEW i \in 0 .. N * Steps, NEW j \in 0 .. N * Steps, i < j PROVE FirstRan(i) # FirstRan(j)
  <2>1. PICK v \in Versions, s \in 1 .. Steps : Before(v) + s = j
    BY <1>0, <1>1, EveryPlace
  <2>2. i \in Int /\ j \in Int
    OBVIOUS
  <2>3. FirstRan(i)[<<v, s>>] = 0 /\ FirstRan(j)[<<v, s>>] = 1
    BY <1>1, <2>1, <2>2, FirstRanProperties
  <2> QED
    BY <2>3
<1> QED
  BY <1>0, <1>1

\* The next statement takes the schema one level up.
LEMMA NextStatement ==
  ASSUME NEW v \in Versions, NEW s \in 1 .. Steps, NEW n \in Int, Before(v) + s = n + 1
  PROVE  [FirstRan(n) EXCEPT ![<<v, s>>] = @ + 1] = FirstRan(n + 1)
<1> DEFINE D == Versions \X (1 .. Steps)
<1>0. n + 1 \in Int /\ n < n + 1
  OBVIOUS
<1>1. FirstRan(n) \in [D -> Nat] /\ FirstRan(n + 1) \in [D -> Nat]
  BY <1>0, FirstRanProperties
<1>2. FirstRan(n)[<<v, s>>] = 0 /\ FirstRan(n + 1)[<<v, s>>] = 1
  BY <1>0, FirstRanProperties
<1>3. ASSUME NEW w \in Versions, NEW t \in 1 .. Steps, <<w, t>> # <<v, s>>
      PROVE  FirstRan(n + 1)[<<w, t>>] = FirstRan(n)[<<w, t>>]
  <2>1. Before(w) + t # n + 1
    BY <1>3, OnePlaceEach
  <2>2. Before(w) + t \in Int
    BY MigrationAssumption, BeforeProperties DEF Versions
  <2>3. Before(w) + t <= n + 1 <=> Before(w) + t <= n
    BY <2>1, <2>2
  <2>4. FirstRan(n)[<<w, t>>] = IF Before(w) + t <= n THEN 1 ELSE 0
    BY FirstRanProperties
  <2>5. FirstRan(n + 1)[<<w, t>>] = IF Before(w) + t <= n + 1 THEN 1 ELSE 0
    BY <1>0, FirstRanProperties
  <2> QED
    BY <2>3, <2>4, <2>5
<1> DEFINE up == [FirstRan(n) EXCEPT ![<<v, s>>] = @ + 1]
<1>4. up \in [D -> Nat] /\ up[<<v, s>>] = 1 /\ \A x \in D : x # <<v, s>> => up[x] = FirstRan(n)[x]
  BY <1>1, <1>2
<1> HIDE DEF up
<1>5. \A x \in D : up[x] = FirstRan(n + 1)[x]
  BY <1>2, <1>3, <1>4
<1> QED
  BY <1>1, <1>4, <1>5 DEF up

-----------------------------------------------------------------------------
(* The level and the history together.  The operators take the history and *)
(* the runners as arguments, to speak of them before and after a step.     *)

\* Where a runner works on the version it has marked.
Working == {"exec", "applied", "failed"}

\* The versions 1 .. m are recorded, all but perhaps the last one as applied.
HistoryAt(m, h) ==
  /\ \A v \in Versions : h[v] # NoEvent <=> v <= m
  /\ \A v \in Versions : v < m => h[v].st = "applied"

\* The last recorded version is not recorded as applied.
LastOpen(m, h) == m > 0 /\ h[m].st # "applied"

\* The statements that have run are those of the recorded versions, the last of which
\* may be under way, or those of the one version of a schema without history.
LevelFits(m, n, h) ==
  IF LastOpen(m, h)
  THEN Before(m) <= n /\ n <= Before(m + 1)
  ELSE n = Before(m + 1) \/ (m = 0 /\ n = Before(2))

\* A runner that is about to record or to run something is about to do the next thing.
RunnerFits(m, n, h, x) ==
  /\ x.at = "adopt" => m = 0 /\ n = Before(2) /\ x.v = 1 /\ x.base = 1
  /\ x.at = "reload" => m > 0
  /\ x.at = "mark" => ~LastOpen(m, h) /\ x.v = m + 1 /\ n = Before(m + 1)
  /\ x.at \in Working => m > 0 /\ x.v = m /\ h[m].st = "applying"
  /\ x.at = "exec" => n = Before(m) + x.s - 1
  /\ x.at = "applied" => n = Before(m + 1)

Fits(m, n, h, p) ==
  HistoryAt(m, h) /\ LevelFits(m, n, h) /\ \A r \in Runners : RunnerFits(m, n, h, p[r])

LevelInv ==
  /\ Legacy \subseteq {0, 1}
  /\ \E m \in 0 .. N, n \in 0 .. N * Steps : ran = FirstRan(n) /\ Fits(m, n, history, run)

\* Stuck, for any history and any runners.
Halted(h, p) ==
  \E v \in Versions :
    /\ h[v] # NoEvent
    /\ \/ h[v].st = "failed"
       \/ /\ h[v].st = "applying"
          /\ \A r \in Runners : p[r].at \in Working => p[r].v # v

\* A schema is stuck when its last version is open and nobody works on it.
LEMMA HaltedMeans ==
  ASSUME NEW h \in [Versions -> Event \cup {NoEvent}], NEW p, NEW m \in 0 .. N, NEW n,
         Fits(m, n, h, p)
  PROVE  Halted(h, p) <=> LastOpen(m, h) /\ \A r \in Runners : p[r].at \notin Working
<1>0. N \in Nat /\ m \in Nat /\ \A v \in Versions : v \in Nat /\ v > 0
  BY MigrationAssumption DEF Versions
<1>1. ASSUME NEW v \in Versions, h[v] # NoEvent
      PROVE  /\ h[v].st \in {"applying", "applied", "failed"}
             /\ h[v].st # "applied" => v = m
  <2>1. h[v] \in Event /\ v <= m
    BY <1>1 DEF Fits, HistoryAt
  <2>2. v < m => h[v].st = "applied"
    BY DEF Fits, HistoryAt
  <2> QED
    BY <1>0, <2>1, <2>2 DEF Event
<1>2. \A r \in Runners : p[r].at \in Working => p[r].v = m /\ h[m].st = "applying"
  BY DEF Fits, RunnerFits
<1>3. ASSUME Halted(h, p) PROVE LastOpen(m, h) /\ \A r \in Runners : p[r].at \notin Working
  <2>1. PICK v \in Versions : /\ h[v] # NoEvent
                              /\ \/ h[v].st = "failed"
                                 \/ /\ h[v].st = "applying"
                                    /\ \A r \in Runners : p[r].at \in Working => p[r].v # v
    BY <1>3 DEF Halted
  <2>2. v = m /\ h[m].st # "applied"
    BY <1>1, <2>1
  <2>3. LastOpen(m, h)
    BY <1>0, <2>2 DEF LastOpen
  <2>4. \A r \in Runners : p[r].at \notin Working
    BY <1>2, <2>1, <2>2
  <2> QED
    BY <2>3, <2>4
<1>4. ASSUME LastOpen(m, h), \A r \in Runners : p[r].at \notin Working PROVE Halted(h, p)
  <2>1. m \in Versions /\ h[m].st # "applied"
    BY <1>0, <1>4 DEF LastOpen, Versions
  <2>2. h[m] # NoEvent
    BY <1>0, <2>1 DEF Fits, HistoryAt
  <2>3. h[m].st \in {"applying", "failed"}
    BY <1>1, <2>1, <2>2
  <2> QED
    BY <1>4, <2>1, <2>2, <2>3 DEF Halted
<1> QED
  BY <1>3, <1>4

\* What SchemaProgress sees of the statements that have run.
LEMMA LevelSeen ==
  ASSUME NEW n \in 0 .. N * Steps, ran = FirstRan(n)
  PROVE  Level = n
<1>1. \E i \in 0 .. N * Steps : ran = FirstRan(i)
  OBVIOUS
<1>2. PICK i \in 0 .. N * Steps : Level = i /\ ran = FirstRan(i)
  BY <1>1 DEF Level
<1>3. FirstRan(i) = FirstRan(n)
  BY <1>2
<1> QED
  BY <1>2, <1>3, LevelIs

\* The same after a step.
LEMMA LevelSeenNext ==
  ASSUME NEW n \in 0 .. N * Steps, ran' = FirstRan(n)
  PROVE  Level' = n
<1>1. \E i \in 0 .. N * Steps : ran' = FirstRan(i)
  OBVIOUS
<1>2. PICK i \in 0 .. N * Steps : Level' = i /\ ran' = FirstRan(i)
  BY <1>1 DEF Level
<1>3. FirstRan(i) = FirstRan(n)
  BY <1>2
<1> QED
  BY <1>2, <1>3, LevelIs

\* The same for the second variable of SchemaProgress.
LEMMA StuckSeen == (Stuck <=> Halted(history, run)) /\ (Stuck' <=> Halted(history', run'))
BY DEF Stuck, Halted, Recorded, Working

\* The common part of every step: the runner moves to x, the schema to n2 statements.
LEMMA LevelStep ==
  ASSUME MigrationInv, MigrationInv', LevelInv,
         NEW m \in 0 .. N, NEW n \in 0 .. N * Steps,
         ran = FirstRan(n), Fits(m, n, history, run),
         NEW r \in Runners, \A q \in Runners \ {r} : run[q] = Idle,
         NEW x, run' = [run EXCEPT ![r] = x],
         NEW m2 \in 0 .. N, NEW n2 \in 0 .. N * Steps, n2 = n \/ n2 = n + 1,
         ran' = FirstRan(n2),
         HistoryAt(m2, history'), LevelFits(m2, n2, history'), RunnerFits(m2, n2, history', x),
         LastOpen(m, history) /\ run[r].at \notin Working
           => n2 = n /\ LastOpen(m2, history') /\ x.at \notin Working
  PROVE  LevelInv' /\ [Progress!ProgressNext]_(Progress!progressVars)
<1>0. /\ history \in [Versions -> Event \cup {NoEvent}]
      /\ history' \in [Versions -> Event \cup {NoEvent}]
      /\ run \in [Runners -> Running \cup {Idle}]
  BY DEF MigrationInv, MigrationTypeOK
<1>1. run'[r] = x /\ \A q \in Runners \ {r} : run'[q] = Idle
  BY <1>0
<1>2. Idle.at = "idle"
  BY DEF Idle
<1>3. \A q \in Runners \ {r} : RunnerFits(m2, n2, history', run'[q])
  BY <1>1, <1>2 DEF RunnerFits, Working
<1>4. Fits(m2, n2, history', run')
  BY <1>1, <1>3 DEF Fits
<1>5. LevelInv'
  BY <1>4 DEF LevelInv
<1>6. Level = n /\ Level' = n2
  BY LevelSeen, LevelSeenNext
<1>7. /\ Stuck <=> LastOpen(m, history) /\ \A q \in Runners : run[q].at \notin Working
      /\ Stuck' <=> LastOpen(m2, history') /\ \A q \in Runners : run'[q].at \notin Working
  <2>1. Halted(history, run) <=> LastOpen(m, history) /\ \A q \in Runners : run[q].at \notin Working
    BY <1>0, HaltedMeans
  <2>2. Halted(history', run') <=> LastOpen(m2, history') /\ \A q \in Runners : run'[q].at \notin Working
    BY <1>0, <1>4, HaltedMeans
  <2> QED
    BY <2>1, <2>2, StuckSeen
<1>8. /\ Stuck <=> LastOpen(m, history) /\ run[r].at \notin Working
      /\ Stuck' <=> LastOpen(m2, history') /\ x.at \notin Working
  BY <1>1, <1>2, <1>7 DEF Working
<1>9. Stuck \in BOOLEAN /\ Stuck' \in BOOLEAN /\ (Stuck => Stuck' /\ n2 = n)
  BY <1>8 DEF Stuck
<1>10. N * Steps \in Nat /\ n \in Int /\ n2 \in Int /\ n2 <= N * Steps
  BY MigrationAssumption
<1>11. [Progress!ProgressNext]_(Progress!progressVars)
  <2>1. CASE Stuck
    BY <1>6, <1>9, <2>1 DEF Progress!progressVars
  <2>2. CASE ~Stuck /\ Stuck'
    BY <1>6, <1>9, <1>10, <2>2 DEF Progress!ProgressNext, Progress!Stop
  <2>3. CASE ~Stuck /\ ~Stuck' /\ n2 = n
    BY <1>6, <1>9, <2>3 DEF Progress!progressVars
  <2>4. CASE ~Stuck /\ ~Stuck' /\ n2 = n + 1
    <3>1. n < N * Steps
      BY <1>10, <2>4
    <3> QED
      BY <1>6, <1>9, <2>4, <3>1 DEF Progress!ProgressNext, Progress!Advance
  <2> QED
    BY <2>1, <2>2, <2>3, <2>4
<1> QED
  BY <1>5, <1>11

\* A runner at a place where it neither records nor runs anything fits every schema.
LEMMA QuietFits ==
  ASSUME NEW m, NEW n, NEW h, NEW x, x.at \in {"idle", "owner", "history", "release"}
  PROVE  RunnerFits(m, n, h, x) /\ x.at \notin Working
BY DEF RunnerFits, Working

\* A new event for the last version or, when that one is closed, for the next one.
LEMMA NewEvent ==
  ASSUME MigrationInv, MigrationInv', NEW m \in 0 .. N, HistoryAt(m, history),
         NEW v \in Versions, v = m \/ (v = m + 1 /\ ~LastOpen(m, history)),
         NEW st \in {"applying", "applied", "failed"}, NEW b, AppendEvent(v, st, b)
  PROVE  HistoryAt(v, history') /\ (LastOpen(v, history') <=> st # "applied") /\ history'[v].st = st
<1>0. N \in Nat /\ m \in Int /\ \A w \in Versions : w \in Int /\ w > 0
  BY MigrationAssumption DEF Versions
<1>1. history \in [Versions -> Event \cup {NoEvent}]
  BY DEF MigrationInv, MigrationTypeOK
<1> DEFINE e == [st |-> st, text |-> b.text]
<1>2. e.st = st /\ e # NoEvent
  BY DEF NoEvent, None
<1>3. history' = [history EXCEPT ![v] = e]
  BY DEF AppendEvent
<1> HIDE DEF e
<1>4. history'[v] = e /\ \A w \in Versions : w # v => history'[w] = history[w]
  BY <1>1, <1>3
<1>5. ASSUME NEW w \in Versions PROVE (history'[w] # NoEvent <=> w <= v) /\ (w < v => history'[w].st = "applied")
  <2>1. (history[w] # NoEvent <=> w <= m) /\ (w < m => history[w].st = "applied")
    BY DEF HistoryAt
  <2>2. CASE w = v
    BY <1>0, <1>2, <1>4, <2>2
  <2>3. CASE w # v /\ v = m
    BY <1>0, <1>4, <2>1, <2>3
  <2>4. CASE w # v /\ v = m + 1 /\ ~LastOpen(m, history)
    <3>1. w = m => history[w].st = "applied"
      BY <1>0, <2>4 DEF LastOpen
    <3>2. history'[w] = history[w]
      BY <1>4, <2>4
    <3>3. (w <= v <=> w <= m) /\ (w < v <=> w < m \/ w = m)
      BY <1>0, <2>4
    <3> QED
      BY <2>1, <3>1, <3>2, <3>3
  <2> QED
    BY <2>2, <2>3, <2>4
<1> QED
  BY <1>0, <1>2, <1>4, <1>5 DEF HistoryAt, LastOpen

\* A step after which a runner is at a quiet place, with the same schema and history.
LEMMA QuietStep ==
  ASSUME MigrationInv, MigrationInv', LevelInv,
         NEW r \in Runners, \A q \in Runners \ {r} : run[q] = Idle,
         NEW x, run' = [run EXCEPT ![r] = x], x.at \in {"idle", "owner", "history", "release"},
         UNCHANGED <<history, ran>>
  PROVE  LevelInv' /\ [Progress!ProgressNext]_(Progress!progressVars)
<1>1. PICK m \in 0 .. N, n \in 0 .. N * Steps : ran = FirstRan(n) /\ Fits(m, n, history, run)
  BY DEF LevelInv
<1>2. HistoryAt(m, history) /\ LevelFits(m, n, history)
  BY <1>1 DEF Fits
<1>3. ran' = FirstRan(n) /\ history' = history
  BY <1>1
<1>4. RunnerFits(m, n, history', x) /\ x.at \notin Working
  BY QuietFits
<1>5. HistoryAt(m, history') /\ LevelFits(m, n, history') /\ (LastOpen(m, history) => LastOpen(m, history'))
  BY <1>2, <1>3
<1> QED
  BY <1>1, <1>3, <1>4, <1>5, LevelStep

\* A step that changes nothing SchemaProgress or the invariant speaks of.
LEMMA NothingMoves ==
  ASSUME LevelInv, UNCHANGED <<history, ran, run>>
  PROVE  LevelInv' /\ [Progress!ProgressNext]_(Progress!progressVars)
<1>1. LevelInv'
  BY DEF LevelInv
<1>2. Level' = Level /\ Stuck' = Stuck
  BY DEF Level, Stuck, Recorded
<1> QED
  BY <1>1, <1>2 DEF Progress!progressVars

\* Giving up without an event is quiet.
LEMMA ReleaseIsQuiet ==
  ASSUME MigrationInv, MigrationInv', LevelInv,
         NEW r \in Runners, run[r].at # "idle", Goto(r, "release"), UNCHANGED <<history, ran>>
  PROVE  LevelInv' /\ [Progress!ProgressNext]_(Progress!progressVars)
<1>1. run[r] \in Running /\ \A q \in Runners \ {r} : run[q] = Idle
  BY Somewhere, Alone
<1> DEFINE x == [run[r] EXCEPT !.at = "release"]
<1>2. x.at = "release"
  BY <1>1 DEF Running
<1>3. run' = [run EXCEPT ![r] = x]
  BY DEF Goto
<1> HIDE DEF x
<1> QED
  BY <1>1, <1>2, <1>3, QuietStep

\* Taking the lock.
LEMMA StartLevel ==
  ASSUME MigrationInv, MigrationInv', LevelInv, NEW r \in Runners, Start(r)
  PROVE  LevelInv' /\ [Progress!ProgressNext]_(Progress!progressVars)
<1>0. UNCHANGED <<history, ran>>
  BY DEF Start
<1>1. CASE run' = run
  BY <1>0, <1>1, NothingMoves
<1>2. ASSUME LockFree, NEW b \in Build,
             run' = [run EXCEPT ![r] = [at |-> "owner", build |-> b, v |-> 0, s |-> 0, base |-> 0]]
      PROVE  LevelInv' /\ [Progress!ProgressNext]_(Progress!progressVars)
  <2> DEFINE x == [at |-> "owner", build |-> b, v |-> 0, s |-> 0, base |-> 0]
  <2>1. x.at = "owner"
    OBVIOUS
  <2>2. run' = [run EXCEPT ![r] = x]
    BY <1>2
  <2> HIDE DEF x
  <2>3. \A q \in Runners \ {r} : run[q] = Idle
    BY <1>2 DEF MigrationInv, RunnerHoldsLock, LockFree
  <2> QED
    BY <1>0, <2>1, <2>2, <2>3, QuietStep
<1> QED
  BY <1>1, <1>2 DEF Start

\* Owning the lock, giving it back, and being killed.
LEMMA LockLevel ==
  ASSUME MigrationInv, MigrationInv', LevelInv, NEW r \in Runners,
         WriteOwner(r) \/ ReleaseLock(r) \/ Crash(r)
  PROVE  LevelInv' /\ [Progress!ProgressNext]_(Progress!progressVars)
<1>1. run[r] # Idle /\ run[r] \in Running /\ UNCHANGED <<history, ran>>
  <2>1. run[r].at # "idle"
    BY DEF WriteOwner, ReleaseLock, Crash, At, MigrationInv, MigrationTypeOK, Running, Places
  <2> QED
    BY <2>1, Somewhere DEF WriteOwner, ReleaseLock, Crash
<1>2. \A q \in Runners \ {r} : run[q] = Idle
  BY <1>1, Alone
<1>3. CASE Leave(r)
  <2>1. run' = [run EXCEPT ![r] = Idle] /\ Idle.at = "idle"
    BY <1>3 DEF Leave, Idle
  <2> QED
    BY <1>1, <1>2, <2>1, QuietStep
<1>4. CASE Goto(r, "history")
  <2> DEFINE x == [run[r] EXCEPT !.at = "history"]
  <2>1. run' = [run EXCEPT ![r] = x] /\ x.at = "history"
    BY <1>1, <1>4 DEF Goto, Running
  <2> HIDE DEF x
  <2> QED
    BY <1>1, <1>2, <2>1, QuietStep
<1> QED
  BY <1>3, <1>4 DEF WriteOwner, ReleaseLock, Crash

\* Something has run in every schema but the empty one.
LEMMA UserSchema ==
  ASSUME NEW n \in 0 .. N * Steps, ran = FirstRan(n)
  PROVE  HasUserSchema <=> n > 0
<1>0. Steps \in Nat /\ N * Steps \in Nat /\ n \in Int
  BY MigrationAssumption
<1>1. ASSUME n > 0 PROVE HasUserSchema
  <2>1. n \in 1 .. N * Steps
    BY <1>0, <1>1
  <2>2. PICK v \in Versions, s \in 1 .. Steps : Before(v) + s = n
    BY <2>1, EveryPlace
  <2>3. ran[<<v, s>>] = 1
    BY <1>0, <2>2, FirstRanProperties
  <2> QED
    BY <2>3 DEF HasUserSchema
<1>2. ASSUME HasUserSchema PROVE n > 0
  <2>1. PICK v \in Versions, s \in 1 .. Steps : ran[<<v, s>>] > 0
    BY <1>2 DEF HasUserSchema
  <2>2. Before(v) + s <= n
    BY <1>0, <2>1, FirstRanProperties
  <2>3. v \in Nat /\ v >= 1 /\ Before(v) \in Int
    BY BeforeProperties, MigrationAssumption DEF Versions
  <2>4. Before(v) >= 0
    <3>1. CASE v = 1
      BY <3>1, BeforeProperties
    <3>2. CASE v > 1
      <4>1. Before(1) + Steps <= Before(v)
        BY <2>3, <3>2, BeforeProperties
      <4> QED
        BY <1>0, <2>3, <4>1, BeforeProperties
    <3> QED
      BY <2>3, <3>1, <3>2
  <2> QED
    BY <1>0, <2>2, <2>3, <2>4
<1> QED
  BY <1>1, <1>2

\* The versions a valid history counts as applied are those it records.
LEMMA ValidCount ==
  ASSUME NEW m \in 0 .. N, HistoryAt(m, history), NEW b, Valid(b)
  PROVE  ~LastOpen(m, history) /\ Cardinality(AppliedVersions) = m
<1>0. N \in Nat /\ m \in Nat
  BY MigrationAssumption
<1>1. \A v \in Versions : v <= m => history[v].st = "applied"
  BY DEF HistoryAt, Valid, Recorded
<1>2. ~LastOpen(m, history)
  BY <1>0, <1>1 DEF LastOpen, Versions
<1>3. AppliedVersions = 1 .. m
  BY <1>0, <1>1 DEF AppliedVersions, Recorded, HistoryAt, Versions
<1>4. Cardinality(1 .. m) = m
  BY <1>0, FS_Interval
<1> QED
  BY <1>2, <1>3, <1>4

\* On to the first pending version: its statements are the next ones.
LEMMA ProceedLevel ==
  ASSUME MigrationInv, MigrationInv', LevelInv, NEW r \in Runners, run[r].at # "idle", Proceed(r),
         run[r].at = "reload" \/ Recorded # {} \/ ~HasUserSchema, UNCHANGED <<history, ran>>
  PROVE  LevelInv' /\ [Progress!ProgressNext]_(Progress!progressVars)
<1>0. run[r] \in Running /\ \A q \in Runners \ {r} : run[q] = Idle
  BY Somewhere, Alone
<1>1. PICK m \in 0 .. N, n \in 0 .. N * Steps : ran = FirstRan(n) /\ Fits(m, n, history, run)
  BY DEF LevelInv
<1>2. HistoryAt(m, history) /\ LevelFits(m, n, history) /\ RunnerFits(m, n, history, run[r])
  BY <1>1 DEF Fits
<1>3. CASE Goto(r, "release")
  BY <1>3, ReleaseIsQuiet
<1>4. CASE Valid(run[r].build) /\ ~Goto(r, "release")
  <2>1. ~LastOpen(m, history) /\ Cardinality(AppliedVersions) = m
    BY <1>2, <1>4, ValidCount
  <2> DEFINE x == [run[r] EXCEPT !.at = "mark", !.v = m + 1]
  <2>2. run' = [run EXCEPT ![r].at = "mark", ![r].v = m + 1]
    BY <1>4, <2>1 DEF Proceed
  <2>3. run' = [run EXCEPT ![r] = x]
    BY <2>2
  <2>4. x.at = "mark" /\ x.v = m + 1
    BY <1>0 DEF Running
  <2> HIDE DEF x
  <2>5. n = Before(m + 1)
    <3>0. m \in Nat /\ Before(1) = 0 /\ Steps \in Nat /\ Steps > 0 /\ Before(2) = Steps
      BY MigrationAssumption, BeforeProperties
    <3>1. n = Before(m + 1) \/ (m = 0 /\ n = Before(2))
      BY <1>2, <2>1 DEF LevelFits
    <3>2. CASE m > 0
      BY <3>0, <3>1, <3>2
    <3>3. CASE m = 0
      <4>1. run[r].at # "reload"
        BY <1>2, <3>3 DEF RunnerFits
      <4>2. Recorded = {}
        BY <1>2, <3>3, MigrationAssumption DEF Recorded, HistoryAt, Versions
      <4>3. ~(n > 0)
        BY <1>1, <4>1, <4>2, UserSchema
      <4> QED
        BY <3>0, <3>1, <3>3, <4>3
    <3> QED
      BY <3>0, <3>2, <3>3
  <2>6. ran' = FirstRan(n) /\ history' = history
    BY <1>1
  <2>7. HistoryAt(m, history') /\ LevelFits(m, n, history') /\ ~LastOpen(m, history')
    BY <1>2, <2>1, <2>6
  <2>8. RunnerFits(m, n, history', x)
    BY <2>4, <2>5, <2>7 DEF RunnerFits, Working
  <2> QED
    BY <1>0, <1>1, <2>1, <2>3, <2>6, <2>7, <2>8, LevelStep
<1> QED
  BY <1>3, <1>4 DEF Proceed

\* The history is read: a schema of one version is adopted as that version.
LEMMA ReadLevel ==
  ASSUME MigrationInv, MigrationInv', LevelInv, NEW r \in Runners, ReadHistory(r) \/ Reload(r)
  PROVE  LevelInv' /\ [Progress!ProgressNext]_(Progress!progressVars)
<1>0. run[r].at # "idle" /\ UNCHANGED <<history, ran>>
  BY DEF ReadHistory, Reload, At
<1>1. run[r] \in Running /\ \A q \in Runners \ {r} : run[q] = Idle
  BY <1>0, Somewhere, Alone
<1>2. PICK m \in 0 .. N, n \in 0 .. N * Steps : ran = FirstRan(n) /\ Fits(m, n, history, run)
  BY DEF LevelInv
<1>3. HistoryAt(m, history) /\ LevelFits(m, n, history)
  BY <1>2 DEF Fits
<1>4. CASE Goto(r, "release")
  BY <1>0, <1>4, ReleaseIsQuiet
<1>5. CASE Proceed(r) /\ (run[r].at = "reload" \/ Recorded # {} \/ ~HasUserSchema)
  BY <1>0, <1>5, ProceedLevel
<1>6. ASSUME Recorded = {}, HasUserSchema, NEW base \in DetectBaseline(run[r].build),
             run' = [run EXCEPT ![r].at = "adopt", ![r].v = 1, ![r].base = base]
      PROVE  LevelInv' /\ [Progress!ProgressNext]_(Progress!progressVars)
  <2>0. /\ N \in Nat /\ Steps \in Nat /\ Steps > 0 /\ m \in Nat /\ n \in Int
        /\ Before(1) = 0 /\ Before(2) = Steps
    BY MigrationAssumption, BeforeProperties
  <2>1. m = 0
    <3> SUFFICES ASSUME m > 0 PROVE FALSE
      BY <2>0
    <3>1. 1 \in Versions /\ 1 <= m
      BY <2>0 DEF Versions
    <3>2. 1 \in Recorded
      BY <1>3, <3>1 DEF HistoryAt, Recorded
    <3> QED
      BY <1>6, <3>2
  <2>2. n > 0
    BY <1>2, <1>6, UserSchema
  <2>3. ~LastOpen(m, history) /\ n = Before(2)
    BY <1>3, <2>0, <2>1, <2>2 DEF LevelFits, LastOpen
  <2>4. base = 1
    <3>1. run[r].build \in Build
      BY <1>1 DEF Running
    <3>2. base \in 1 .. run[r].build.size /\ Ran(base)
      BY <3>1, SizesAreVersions DEF DetectBaseline
    <3>3. base \in Versions /\ base \in Nat /\ base > 0 /\ 1 \in 1 .. Steps
      BY <2>0, <3>1, <3>2, SizesAreVersions
    <3>4. ran[<<base, 1>>] > 0
      BY <3>2, <3>3 DEF Ran
    <3>5. Before(base) + 1 <= n
      BY <1>2, <2>0, <3>3, <3>4, FirstRanProperties
    <3> SUFFICES ASSUME base > 1 PROVE FALSE
      BY <3>3
    <3>6. Before(base) \in Int
      BY <3>3, BeforeProperties
    <3>7. Before(1) + Steps <= Before(base)
      BY <3>3, BeforeProperties
    <3> QED
      BY <2>0, <2>3, <3>5, <3>6, <3>7
  <2> DEFINE x == [run[r] EXCEPT !.at = "adopt", !.v = 1, !.base = base]
  <2>5. run' = [run EXCEPT ![r] = x]
    BY <1>6
  <2>6. x.at = "adopt" /\ x.v = 1 /\ x.base = base
    BY <1>1 DEF Running
  <2> HIDE DEF x
  <2>7. ran' = FirstRan(n) /\ history' = history
    BY <1>0, <1>2
  <2>8. HistoryAt(m, history') /\ LevelFits(m, n, history')
    BY <1>3, <2>7
  <2>9. RunnerFits(m, n, history', x)
    BY <2>1, <2>3, <2>4, <2>6 DEF RunnerFits, Working
  <2> QED
    BY <1>1, <1>2, <2>3, <2>5, <2>7, <2>8, <2>9, LevelStep
<1>7. ReadHistory(r) =>
        \/ Goto(r, "release") \/ (Proceed(r) /\ (Recorded # {} \/ ~HasUserSchema))
        \/ /\ Recorded = {} /\ HasUserSchema
           /\ \E base \in DetectBaseline(run[r].build) :
                run' = [run EXCEPT ![r].at = "adopt", ![r].v = 1, ![r].base = base]
  BY DEF ReadHistory
<1>8. Reload(r) => Goto(r, "release") \/ (Proceed(r) /\ run[r].at = "reload")
  BY DEF Reload, At
<1> QED
  BY <1>4, <1>5, <1>6, <1>7, <1>8

\* What holds when a runner records or runs something.
LEMMA AtWork ==
  ASSUME MigrationInv, LevelInv, NEW r \in Runners, run[r].at \in {"adopt", "mark"} \cup Working
  PROVE  /\ run[r] \in Running /\ \A q \in Runners \ {r} : run[q] = Idle
         /\ run[r].v \in Versions /\ run[r].v \in Nat
         /\ \E m \in 0 .. N, n \in 0 .. N * Steps :
              /\ ran = FirstRan(n) /\ Fits(m, n, history, run)
              /\ HistoryAt(m, history) /\ LevelFits(m, n, history) /\ RunnerFits(m, n, history, run[r])
              /\ LastOpen(m, history) => run[r].at \in Working
              /\ run[r].v = IF run[r].at \in Working THEN m ELSE m + 1
<1>0. run[r].at # "idle"
  BY DEF Working
<1>1. run[r] \in Running /\ BehindIt(r) /\ \A q \in Runners \ {r} : run[q] = Idle
  BY <1>0, Somewhere, Alone DEF MigrationInv, RunsInOrder
<1>2. run[r].build \in Build
  BY <1>1 DEF Running
<1>3. run[r].v \in Versions
  BY <1>1, <1>2, SizesAreVersions, MigrationAssumption DEF BehindIt, At, Versions, Working
<1>4. run[r].v \in Nat
  BY <1>1 DEF Running
<1>5. PICK m \in 0 .. N, n \in 0 .. N * Steps : ran = FirstRan(n) /\ Fits(m, n, history, run)
  BY DEF LevelInv
<1>6. HistoryAt(m, history) /\ LevelFits(m, n, history) /\ RunnerFits(m, n, history, run[r])
  BY <1>5 DEF Fits
<1>7. /\ LastOpen(m, history) => run[r].at \in Working
      /\ run[r].v = IF run[r].at \in Working THEN m ELSE m + 1
  BY <1>6 DEF RunnerFits, LastOpen, Working
<1> QED
  BY <1>1, <1>3, <1>4, <1>5, <1>6, <1>7

\* An event that leaves the runner at x, which the new history must fit.
LEMMA EventLevel ==
  ASSUME MigrationInv, MigrationInv', LevelInv, NEW r \in Runners,
         run[r].at \in {"adopt", "mark"} \cup Working,
         NEW st \in {"applying", "applied", "failed"}, AppendEvent(run[r].v, st, run[r].build),
         ran' = ran, NEW x, run' = [run EXCEPT ![r] = x],
         run[r].at = "mark" => st = "applying",
         run[r].at \in {"adopt", "applied"} => st = "applied",
         run[r].at = "failed" => st = "failed", run[r].at # "exec",
         \/ x.at = "release"
         \/ x.at = "reload"
         \/ x.at = "exec" /\ x.v = run[r].v /\ x.s = 1 /\ st = "applying"
         \/ x.at = "mark" /\ x.v = run[r].v + 1 /\ st = "applied" /\ run[r].at = "applied"
  PROVE  LevelInv' /\ [Progress!ProgressNext]_(Progress!progressVars)
<1>1. /\ run[r] \in Running /\ \A q \in Runners \ {r} : run[q] = Idle
      /\ run[r].v \in Versions /\ run[r].v \in Nat
  BY AtWork
<1>2. PICK m \in 0 .. N, n \in 0 .. N * Steps :
        /\ ran = FirstRan(n) /\ Fits(m, n, history, run)
        /\ HistoryAt(m, history) /\ LevelFits(m, n, history) /\ RunnerFits(m, n, history, run[r])
        /\ LastOpen(m, history) => run[r].at \in Working
        /\ run[r].v = IF run[r].at \in Working THEN m ELSE m + 1
  BY AtWork
<1> DEFINE v == run[r].v
<1>3. v \in Versions /\ v \in Nat /\ v > 0 /\ v \in 0 .. N /\ (v = m \/ (v = m + 1 /\ ~LastOpen(m, history)))
  BY <1>1, <1>2, MigrationAssumption DEF Versions
<1>4. HistoryAt(v, history') /\ (LastOpen(v, history') <=> st # "applied") /\ history'[v].st = st
  <2>1. AppendEvent(v, st, run[r].build)
    OBVIOUS
  <2> HIDE DEF v
  <2> QED
    BY <1>2, <1>3, <2>1, NewEvent
<1>5. /\ Steps \in Nat /\ n \in Int /\ m \in Nat /\ Before(v) \in Int /\ Before(v + 1) = Before(v) + Steps
      /\ Before(m) \in Int /\ Before(m + 1) = Before(m) + Steps
  <2>1. Steps \in Nat /\ n \in Int /\ m \in Nat
    BY MigrationAssumption
  <2>2. \A w \in Nat : Before(w) \in Int /\ Before(w + 1) = Before(w) + Steps
    BY BeforeProperties
  <2> HIDE DEF v
  <2> QED
    BY <1>3, <2>1, <2>2
<1>6. /\ run[r].at = "adopt" => m = 0 /\ n = Before(2) /\ v = 1
      /\ run[r].at = "mark" => n = Before(v)
      /\ run[r].at \in Working => v = m /\ m > 0 /\ history[m].st = "applying"
      /\ run[r].at = "applied" => n = Before(v + 1)
  BY <1>2 DEF RunnerFits, Working
<1>7. LevelFits(v, n, history')
  <2>1. CASE run[r].at = "adopt"
    BY <1>4, <1>6, <2>1 DEF LevelFits
  <2>2. CASE run[r].at = "mark"
    BY <1>4, <1>5, <1>6, <2>2 DEF LevelFits
  <2>3. CASE run[r].at = "applied"
    BY <1>4, <1>6, <2>3 DEF LevelFits, Working
  <2>4. CASE run[r].at = "failed"
    <3>1. v = m /\ LastOpen(m, history)
      BY <1>6, <2>4 DEF LastOpen, Working
    <3>2. Before(v) <= n /\ n <= Before(v + 1)
      BY <1>2, <3>1 DEF LevelFits
    <3> QED
      BY <1>4, <2>4, <3>2 DEF LevelFits
  <2> QED
    BY <2>1, <2>2, <2>3, <2>4 DEF Working
<1>8. RunnerFits(v, n, history', x)
  <2>1. CASE x.at = "release"
    BY <2>1, QuietFits
  <2>2. CASE x.at = "reload"
    BY <1>3, <2>2 DEF RunnerFits, Working
  <2>3. CASE x.at = "exec" /\ x.v = v /\ x.s = 1 /\ st = "applying"
    <3>1. run[r].at = "mark"
      BY <2>3 DEF Working
    <3>2. n = Before(v) + 1 - 1
      BY <1>5, <1>6, <3>1
    <3> QED
      BY <1>3, <1>4, <2>3, <3>2 DEF RunnerFits, Working
  <2>4. CASE x.at = "mark" /\ x.v = v + 1 /\ st = "applied" /\ run[r].at = "applied"
    BY <1>4, <1>6, <2>4 DEF RunnerFits, Working
  <2> QED
    BY <2>1, <2>2, <2>3, <2>4
<1>9. ran' = FirstRan(n) /\ ~(LastOpen(m, history) /\ run[r].at \notin Working)
  BY <1>2
<1> HIDE DEF v
<1> QED
  BY <1>1, <1>2, <1>3, <1>4, <1>7, <1>8, <1>9, LevelStep

\* The one version of an old schema is recorded as applied.
LEMMA AdoptLevel ==
  ASSUME MigrationInv, MigrationInv', LevelInv, NEW r \in Runners, Adopt(r)
  PROVE  LevelInv' /\ [Progress!ProgressNext]_(Progress!progressVars)
<1>1. run[r].at = "adopt" /\ ran' = ran /\ run[r].at # "idle"
  BY DEF Adopt, At
<1>2. run[r] \in Running /\ run[r].v = 1 /\ run[r].base = 1
  <2>1. run[r] \in Running
    BY <1>1, Somewhere
  <2>2. PICK m \in 0 .. N, n \in 0 .. N * Steps : Fits(m, n, history, run)
    BY DEF LevelInv
  <2>3. RunnerFits(m, n, history, run[r])
    BY <2>2 DEF Fits
  <2> QED
    BY <1>1, <2>1, <2>3 DEF RunnerFits
<1>3. CASE Goto(r, "release") /\ history' = history
  BY <1>1, <1>3, ReleaseIsQuiet
<1>4. CASE Goto(r, "release") /\ AppendEvent(run[r].v, "applied", run[r].build)
  <2> DEFINE x == [run[r] EXCEPT !.at = "release"]
  <2>1. run' = [run EXCEPT ![r] = x] /\ x.at = "release"
    BY <1>2, <1>4 DEF Goto, Running
  <2> HIDE DEF x
  <2> QED
    BY <1>1, <1>4, <2>1, EventLevel
<1>5. CASE ~Goto(r, "release")
  <2> DEFINE x == [run[r] EXCEPT !.at = "reload", !.v = @ + 1]
  <2>1. AppendEvent(run[r].v, "applied", run[r].build)
        /\ run' = [run EXCEPT ![r].at = IF run[r].v < run[r].base THEN "adopt" ELSE "reload", ![r].v = @ + 1]
    BY <1>5 DEF Adopt
  <2>2. run' = [run EXCEPT ![r].at = "reload", ![r].v = @ + 1]
    <3>1. (IF run[r].v < run[r].base THEN "adopt" ELSE "reload") = "reload"
      BY <1>2
    <3> QED
      BY <2>1, <3>1, Zenon
  <2>3. run' = [run EXCEPT ![r] = x]
    BY <2>2
  <2>4. x.at = "reload"
    BY <1>2 DEF Running
  <2> HIDE DEF x
  <2> QED
    BY <1>1, <2>1, <2>3, <2>4, EventLevel
<1> QED
  BY <1>3, <1>4, <1>5 DEF Adopt

\* The events of a version under way.
LEMMA ApplyLevel ==
  ASSUME MigrationInv, MigrationInv', LevelInv, NEW r \in Runners,
         MarkApplying(r) \/ MarkFailed(r) \/ MarkApplied(r)
  PROVE  LevelInv' /\ [Progress!ProgressNext]_(Progress!progressVars)
<1>1. run[r].at \in {"mark", "failed", "applied"} /\ ran' = ran /\ run[r].at # "idle"
  BY DEF MarkApplying, MarkFailed, MarkApplied, At
<1>2. run[r] \in Running
  BY <1>1, Somewhere
<1> DEFINE st == CASE run[r].at = "mark" -> "applying" [] run[r].at = "failed" -> "failed"
                   [] OTHER -> "applied"
<1>3. /\ st \in {"applying", "failed", "applied"}
      /\ run[r].at = "mark" => st = "applying"
      /\ run[r].at = "failed" => st = "failed"
      /\ run[r].at = "applied" => st = "applied"
  BY <1>1
<1> HIDE DEF st
<1>4. CASE Goto(r, "release") /\ history' = history
  BY <1>1, <1>4, ReleaseIsQuiet
<1>5. CASE Goto(r, "release") /\ history' # history
  <2>1. AppendEvent(run[r].v, st, run[r].build)
    BY <1>3, <1>5 DEF MarkApplying, MarkFailed, MarkApplied, At
  <2> DEFINE x == [run[r] EXCEPT !.at = "release"]
  <2>2. run' = [run EXCEPT ![r] = x] /\ x.at = "release"
    BY <1>2, <1>5 DEF Goto, Running
  <2> HIDE DEF x
  <2> QED
    BY <1>1, <1>3, <2>1, <2>2, EventLevel DEF Working
<1>6. CASE MarkApplying(r) /\ ~Goto(r, "release")
  <2> DEFINE x == [run[r] EXCEPT !.at = "exec", !.s = 1]
  <2>1. run[r].at = "mark" /\ AppendEvent(run[r].v, "applying", run[r].build)
        /\ run' = [run EXCEPT ![r].at = "exec", ![r].s = 1]
    BY <1>6 DEF MarkApplying, At
  <2>2. run' = [run EXCEPT ![r] = x]
    BY <2>1
  <2>3. x.at = "exec" /\ x.v = run[r].v /\ x.s = 1
    BY <1>2 DEF Running
  <2> HIDE DEF x
  <2> QED
    BY <1>1, <2>1, <2>2, <2>3, EventLevel
<1>7. CASE MarkApplied(r) /\ ~Goto(r, "release")
  <2> DEFINE x == [run[r] EXCEPT !.at = "mark", !.v = run[r].v + 1]
  <2>1. run[r].at = "applied" /\ AppendEvent(run[r].v, "applied", run[r].build)
        /\ run' = [run EXCEPT ![r].at = "mark", ![r].v = @ + 1]
    BY <1>7 DEF MarkApplied, At
  <2>2. run' = [run EXCEPT ![r] = x]
    BY <1>2, <2>1 DEF MigrationInv, MigrationTypeOK
  <2>3. x.at = "mark" /\ x.v = run[r].v + 1
    BY <1>2 DEF Running
  <2> HIDE DEF x
  <2> QED
    BY <1>1, <2>1, <2>2, <2>3, EventLevel DEF Working
<1> QED
  BY <1>4, <1>5, <1>6, <1>7 DEF MarkFailed

\* A statement of the version under way runs, or does not: it is the next one of all.
LEMMA ExecLevel ==
  ASSUME MigrationInv, MigrationInv', LevelInv, NEW r \in Runners, Exec(r)
  PROVE  LevelInv' /\ [Progress!ProgressNext]_(Progress!progressVars)
<1>1. At(r, "exec") /\ run[r].at = "exec" /\ run[r].at \in Working /\ history' = history
  BY DEF Exec, At, Working
<1>2. /\ run[r] \in Running /\ \A q \in Runners \ {r} : run[q] = Idle
      /\ run[r].v \in Versions /\ run[r].v \in Nat
  BY <1>1, AtWork
<1>3. PICK m \in 0 .. N, n \in 0 .. N * Steps :
        /\ ran = FirstRan(n) /\ Fits(m, n, history, run)
        /\ HistoryAt(m, history) /\ LevelFits(m, n, history) /\ RunnerFits(m, n, history, run[r])
        /\ LastOpen(m, history) => run[r].at \in Working
        /\ run[r].v = IF run[r].at \in Working THEN m ELSE m + 1
  BY <1>1, AtWork
<1> DEFINE v == run[r].v
           s == run[r].s
<1>4. v = m /\ m \in Versions /\ m > 0 /\ history[m].st = "applying" /\ n = Before(m) + s - 1
  BY <1>1, <1>2, <1>3 DEF RunnerFits
<1>5. s \in 1 .. Steps
  BY <1>1 DEF MigrationInv, RunsInOrder, BehindIt
<1>6. LastOpen(m, history) /\ LastOpen(m, history') /\ HistoryAt(m, history')
      /\ history'[m].st = "applying"
  BY <1>1, <1>3, <1>4 DEF LastOpen
<1> DEFINE ranOnce == ran' = [ran EXCEPT ![<<v, s>>] = @ + 1]
<1>7. (ranOnce \/ ran' = ran) /\ (run' = [run EXCEPT ![r] = AfterStatement(@)] \/ Goto(r, "failed"))
      /\ (~Goto(r, "failed") => ranOnce)
  BY DEF Exec
<1> HIDE DEF v, s
<1>8. /\ N \in Nat /\ Steps \in Nat /\ Steps > 0 /\ m \in Nat /\ m <= N /\ n \in Int /\ s \in Int /\ s <= Steps
      /\ N * Steps \in Nat /\ Before(m) \in Int /\ Before(m + 1) = Before(m) + Steps /\ s >= 1
  <2>1. N \in Nat /\ Steps \in Nat /\ Steps > 0 /\ N * Steps \in Nat
    BY MigrationAssumption
  <2>2. \A w \in Nat : Before(w) \in Int /\ Before(w + 1) = Before(w) + Steps
    BY BeforeProperties
  <2> QED
    BY <1>5, <2>1, <2>2
<1>9. Before(m + 1) <= N * Steps
  <2>1. CASE m = N
    BY <2>1, <1>8, BeforeProperties
  <2>2. CASE m < N
    <3>1. m + 1 \in Nat /\ N + 1 \in Nat /\ m + 1 < N + 1
      BY <1>8, <2>2
    <3>2. Before(m + 1) + Steps <= Before(N + 1) /\ Before(N + 1) = N * Steps /\ Before(m + 1) \in Int
      BY <3>1, BeforeProperties
    <3> QED
      BY <1>8, <3>2
  <2> QED
    BY <1>8, <2>1, <2>2
<1>10. n + 1 = Before(m) + s /\ n + 1 \in 0 .. N * Steps /\ Before(m) <= n /\ n + 1 <= Before(m + 1)
  BY <1>4, <1>8, <1>9
<1>11. ASSUME ranOnce PROVE ran' = FirstRan(n + 1)
  <2>1. [FirstRan(n) EXCEPT ![<<m, s>>] = @ + 1] = FirstRan(n + 1)
    BY <1>4, <1>5, <1>8, <1>10, NextStatement
  <2> QED
    BY <1>3, <1>4, <1>11, <2>1
<1>12. LevelFits(m, n, history') /\ LevelFits(m, n + 1, history')
  BY <1>6, <1>8, <1>10 DEF LevelFits
<1>13. ASSUME NEW x, run' = [run EXCEPT ![r] = x], NEW n2 \in {n, n + 1}, ran' = FirstRan(n2),
              RunnerFits(m, n2, history', x)
       PROVE  LevelInv' /\ [Progress!ProgressNext]_(Progress!progressVars)
  <2>1. n2 \in 0 .. N * Steps /\ (n2 = n \/ n2 = n + 1) /\ LevelFits(m, n2, history')
    BY <1>10, <1>12
  <2> QED
    BY <1>1, <1>2, <1>3, <1>6, <1>13, <2>1, LevelStep
<1>14. CASE Goto(r, "failed")
  <2> DEFINE x == [run[r] EXCEPT !.at = "failed"]
  <2>1. run' = [run EXCEPT ![r] = x]
    BY <1>14 DEF Goto
  <2>2. x.at = "failed" /\ x.v = m
    BY <1>2, <1>4 DEF Running, v
  <2> HIDE DEF x
  <2>3. \A n2 \in {n, n + 1} : RunnerFits(m, n2, history', x)
    BY <1>4, <1>6, <2>2 DEF RunnerFits, Working
  <2>4. ran' = FirstRan(n) \/ ran' = FirstRan(n + 1)
    BY <1>3, <1>7, <1>11
  <2> QED
    BY <1>13, <2>1, <2>3, <2>4
<1>15. CASE ~Goto(r, "failed")
  <2> DEFINE x == AfterStatement(run[r])
  <2>1. run' = [run EXCEPT ![r] = x]
    BY <1>7, <1>15
  <2>2. ran' = FirstRan(n + 1)
    BY <1>7, <1>11, <1>15
  <2>3. CASE s < Steps
    <3>1. x = [run[r] EXCEPT !.s = s + 1]
      BY <2>3 DEF AfterStatement, s
    <3>2. x.at = "exec" /\ x.v = m /\ x.s = s + 1
      BY <1>1, <1>2, <1>4, <3>1 DEF Running, v
    <3> HIDE DEF x
    <3>3. n + 1 = Before(m) + (s + 1) - 1
      BY <1>8, <1>10
    <3>4. RunnerFits(m, n + 1, history', x)
      BY <1>4, <1>6, <3>2, <3>3 DEF RunnerFits, Working
    <3> QED
      BY <1>13, <2>1, <2>2, <3>4
  <2>4. CASE ~(s < Steps)
    <3>1. x = [run[r] EXCEPT !.at = "applied", !.s = 0]
      BY <2>4 DEF AfterStatement, s
    <3>2. x.at = "applied" /\ x.v = m
      BY <1>2, <1>4, <3>1 DEF Running, v
    <3> HIDE DEF x
    <3>3. n + 1 = Before(m + 1)
      BY <1>8, <1>10, <2>4
    <3>4. RunnerFits(m, n + 1, history', x)
      BY <1>4, <1>6, <3>2, <3>3 DEF RunnerFits, Working
    <3> QED
      BY <1>13, <2>1, <2>2, <3>4
  <2> QED
    BY <2>3, <2>4
<1> QED
  BY <1>14, <1>15

\* Every step of a runner or an operator is one of SchemaProgress, or none.
LEMMA ProgressStep ==
  MigrationInv /\ MigrationInv' /\ LevelInv /\ [Next]_vars
    => LevelInv' /\ [Progress!ProgressNext]_(Progress!progressVars)
<1> SUFFICES ASSUME MigrationInv, MigrationInv', LevelInv, [Next]_vars
             PROVE  LevelInv' /\ [Progress!ProgressNext]_(Progress!progressVars)
  OBVIOUS
<1>1. CASE DropStaleLock \/ UNCHANGED vars \/ \E r \in Runners : Cancel(r)
  <2>1. UNCHANGED <<history, ran, run>>
    BY <1>1 DEF DropStaleLock, Cancel, vars
  <2> QED
    BY <2>1, NothingMoves
<1>2. ASSUME NEW r \in Runners, Start(r) \/ RunnerStep(r) \/ Crash(r)
      PROVE  LevelInv' /\ [Progress!ProgressNext]_(Progress!progressVars)
  BY <1>2, StartLevel, LockLevel, ReadLevel, AdoptLevel, ApplyLevel, ExecLevel DEF RunnerStep
<1> QED
  BY <1>1, <1>2 DEF Next

\* The first states: an empty schema, or one of one version.
LEMMA ProgressInitially ==
  ASSUME Init, Legacy \subseteq {0, 1}
  PROVE  LevelInv /\ Progress!ProgressInit
<1>0. /\ N \in Nat /\ Steps \in Nat /\ Steps > 0 /\ N * Steps \in Nat
      /\ Legacy \subseteq 0 .. N /\ 0 \in 0 .. N /\ 0 \in 0 .. N * Steps
  BY MigrationAssumption
<1>1. PICK base \in Legacy :
        ran = [x \in Versions \X (1 .. Steps) |-> IF x[1] <= base THEN 1 ELSE 0]
  BY DEF Init
<1>2. (base = 0 \/ base = 1) /\ base <= N
  BY <1>0
<1> DEFINE n == base * Steps
<1>3. (base = 0 => n = 0) /\ (base = 1 => n = Steps)
  BY <1>0
<1>4. n \in 0 .. N * Steps
  <2>1. CASE base = 0
    BY <1>0, <1>3, <2>1
  <2>2. CASE base = 1
    <3>1. N >= 1
      BY <1>0, <1>2, <2>2
    <3>2. N + 1 \in Nat /\ 1 < N + 1
      BY <1>0, <3>1
    <3>3. Before(1) + Steps <= Before(N + 1)
      BY <3>2, BeforeProperties
    <3>4. Steps <= N * Steps
      BY <1>0, <3>3, BeforeProperties
    <3> QED
      BY <1>0, <1>3, <2>2, <3>4
  <2> QED
    BY <1>2, <2>1, <2>2
<1>5. ASSUME NEW v \in Versions, NEW s \in 1 .. Steps PROVE v <= base <=> Before(v) + s <= n
  <2>0. v \in Nat /\ v >= 1 /\ s \in Int /\ s >= 1 /\ s <= Steps /\ Before(v) \in Int
        /\ Before(1) = 0 /\ Before(2) = Steps
    BY <1>0, BeforeProperties DEF Versions
  <2>1. v > 1 => Steps <= Before(v)
    <3>1. ASSUME v > 1 PROVE Before(1) + Steps <= Before(v)
      BY <2>0, <3>1, BeforeProperties
    <3> QED
      BY <1>0, <2>0, <3>1
  <2>2. CASE v = 1
    BY <1>0, <1>2, <1>3, <2>0, <2>2
  <2>3. CASE v > 1
    BY <1>0, <1>2, <1>3, <2>0, <2>1, <2>3
  <2> QED
    BY <2>0, <2>2, <2>3
<1> HIDE DEF n
<1>6. ran = FirstRan(n)
  <2>1. \A x \in Versions \X (1 .. Steps) : x[1] <= base <=> Index(x) <= n
    <3>1. \A v \in Versions, s \in 1 .. Steps : Index(<<v, s>>) = Before(v) + s
      BY DEF Index, Before
    <3> QED
      BY <1>5, <3>1
  <2> QED
    BY <1>1, <2>1 DEF FirstRan
<1>7. history = [v \in Versions |-> NoEvent] /\ run = [r \in Runners |-> Idle]
  BY DEF Init
<1>8. HistoryAt(0, history)
  BY <1>0, <1>7 DEF HistoryAt, Versions
<1>9. LevelFits(0, n, history)
  <2>1. n = 0 \/ n = Steps
    BY <1>2, <1>3
  <2>2. ~LastOpen(0, history)
    BY DEF LastOpen
  <2>3. Before(0 + 1) = 0 /\ Before(2) = Steps
    BY BeforeProperties
  <2> QED
    BY <2>1, <2>2, <2>3 DEF LevelFits
<1>10. \A r \in Runners : RunnerFits(0, n, history, run[r])
  BY <1>7, QuietFits DEF Idle
<1>11. Fits(0, n, history, run)
  BY <1>8, <1>9, <1>10 DEF Fits
<1>12. LevelInv
  BY <1>0, <1>4, <1>6, <1>11 DEF LevelInv
<1>13. Level = n
  BY <1>4, <1>6, LevelSeen
<1>14. Stuck = FALSE
  BY <1>7 DEF Stuck, Recorded
<1> QED
  BY <1>12, <1>13, <1>14 DEF Progress!ProgressInit, n

(***************************************************************************)
(* A schema that starts empty, or from the one version that has no         *)
(* history, only ever advances by its next statement, and not at all once  *)
(* a migration has stopped half way (Run, validateHistory): whatever       *)
(* builds are deployed, and whoever is started, cancelled or killed.  An   *)
(* old schema of two versions or more is excluded, because an adoption     *)
(* that is cut short makes it run statements twice: v_partial_adoption.    *)
(***************************************************************************)
THEOREM MigrationsImplementProgress == Legacy \subseteq {0, 1} /\ Spec => ImplementsProgress
<1>1. Legacy \subseteq {0, 1} /\ Init => MigrationInv /\ LevelInv /\ Progress!ProgressInit
  BY ProgressInitially, MigrationInitially
<1>2. MigrationInv /\ LevelInv /\ [Next]_vars
        => MigrationInv' /\ LevelInv' /\ [Progress!ProgressNext]_(Progress!progressVars)
  BY MigrationStep, ProgressStep
<1> QED
  BY <1>1, <1>2, PTL DEF Spec, ImplementsProgress, Progress!ProgressSpec

(***************************************************************************)
(* No statement runs twice (DetectBaseline), under the same condition.     *)
(***************************************************************************)
THEOREM NoStatementRunsTwice == Legacy \subseteq {0, 1} /\ Spec => []NoStatementTwice
<1>1. Legacy \subseteq {0, 1} /\ Init => MigrationInv /\ LevelInv
  BY ProgressInitially, MigrationInitially
<1>2. MigrationInv /\ LevelInv /\ [Next]_vars => MigrationInv' /\ LevelInv'
  BY MigrationStep, ProgressStep
<1>3. LevelInv => NoStatementTwice
  <2> SUFFICES ASSUME LevelInv PROVE NoStatementTwice
    OBVIOUS
  <2>1. PICK n \in 0 .. N * Steps : ran = FirstRan(n)
    BY DEF LevelInv
  <2> QED
    BY <2>1 DEF NoStatementTwice, FirstRan
<1> QED
  BY <1>1, <1>2, <1>3, PTL DEF Spec
=============================================================================
