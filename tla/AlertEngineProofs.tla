-------------------------- MODULE AlertEngineProofs --------------------------
(***************************************************************************)
(* Proofs about the alert engine, for every set of keys, alerts and        *)
(* values, every threshold, lag and combination of failures, restarts and  *)
(* verdicts: the types, and that an alert which is firing is never         *)
(* auto-resolved (FiringStaysOpen).  Then three results under conditions   *)
(* on the thresholds, the lag and the failures, restarts and verdicts      *)
(* included: that a re-open never finds its alert active                   *)
(* (ReopensTheResolved, under MemoryCoversTheLag); that an incident has    *)
(* one active alert (OneAlertPerIncident) and that a new alert is a new    *)
(* incident (NewAlertsAreNewIncidents), under RearmCoversTheRest.          *)
(***************************************************************************)
EXTENDS AlertEngine, FiniteSetTheorems, TLAPS

-----------------------------------------------------------------------------
(* The inductive invariant. *)

\* The mutations that move last_seen.
Beat(m, id) == m.kind \in {"touch", "reopen"} /\ m.id = id

\* What is queued is about a stored alert.
QueueOfStored ==
  \A i \in 1..Len(queue) :
    /\ queue[i].kind \in {"touch", "reopen", "status"} => queue[i].id \in Stored
    /\ queue[i].kind = "stale" => queue[i].fresh \subseteq Stored

\* Heartbeats are queued in the order of their times: the clock does not go back.
InOrder ==
  /\ \A id \in Stored : alerts[id].seen <= clock
  /\ \A i \in 1..Len(queue), id \in Stored :
       Beat(queue[i], id) =>
         /\ alerts[id].seen <= queue[i].ts /\ queue[i].ts <= clock
         /\ \A j \in 1..Len(queue) : j > i /\ Beat(queue[j], id) => queue[i].ts <= queue[j].ts

\* Once the first n mutations are applied, the alert was seen at t or later.
SeenBy(id, t, n) ==
  \/ alerts[id].seen >= t
  \/ \E i \in 1..n : Beat(queue[i], id) /\ queue[i].ts >= t

\* Ahead of the mutation that looks for stale alerts, every alert that was
\* firing is seen late enough.
ReachesFirst ==
  \A i \in 1..Len(queue) :
    queue[i].kind = "stale" => \A id \in queue[i].fresh : SeenBy(id, queue[i].cut, i - 1)

QueueInv == QueueOfStored /\ InOrder /\ ReachesFirst

\* What is handled, remembered or counted is about a stored alert.
BookOfStored ==
  /\ op.step \in {"touch", "reopen"} => op.id \in Stored
  /\ \A k \in Keys : recent[k] # NoRecent => recent[k].id \in Stored
  /\ \A id \in AlertIds : written[id] # Never \/ seenAt[id] # Never => id \in Stored

\* The calls of one violation take no time.
NowIsNow == op.step \in {"lookup", "insert", "touch", "reopen"} => op.now = clock

\* What the book and the history say reaches the table: a heartbeat of the
\* book does, and a violation but for the throttle.
Reaches ==
  /\ \A id \in AlertIds : written[id] # Never => SeenBy(id, written[id], Len(queue))
  /\ \A id \in AlertIds : seenAt[id] # Never => SeenBy(id, seenAt[id] - Window, Len(queue))

BookInv == BookOfStored /\ NowIsNow /\ Reaches

EngineInv == TypeOK /\ QueueInv /\ BookInv

-----------------------------------------------------------------------------
(* The operators. *)

\* The throttle is a number of clock units.
LEMMA WindowType == Window \in Nat
<1>1. Stale \in Nat
  BY EngineAssumption
<1>2. Stale \div 3 \in Nat
  BY <1>1
<1> QED
  BY <1>2 DEF Window

\* The shapes of the place in the cycle.
LEMMA OpShape ==
  ASSUME op \in {Starting, Idle} \cup Cycle
  PROVE  /\ op.step = "resolve" => op.cut \in Int
         /\ op.step = "eval" => op \in [step: {"eval"}, todo: SUBSET Keys]
         /\ op.step \in {"lookup", "insert"} =>
              op \in [step: {"lookup", "insert"}, todo: SUBSET Keys, k: Keys, v: Values, now: Nat]
         /\ op.step \in {"touch", "reopen"} =>
              op \in [step: {"touch", "reopen"}, todo: SUBSET Keys, k: Keys, v: Values, now: Nat,
                      id: AlertIds]
BY DEF Starting, Idle, Cycle

\* The shapes of the mutations.
LEMMA MutationShape ==
  ASSUME NEW m \in Mutation
  PROVE  /\ m.kind \in {"touch", "reopen", "stale", "status"}
         /\ m.kind \in {"touch", "reopen"} => m.id \in AlertIds /\ m.ts \in Nat
         /\ m.kind = "reopen" => m.v \in Nat
         /\ m.kind = "status" => m.id \in AlertIds /\ m.st \in Statuses
         /\ m.kind = "stale" => m.cut \in Int /\ m.fresh \subseteq AlertIds
BY EngineAssumption DEF Mutation, Statuses

\* What a mutation does to the row of an alert.
LEMMA ApplyRow ==
  ASSUME NEW m \in Mutation, NEW table \in [AlertIds -> Alert \cup {NoAlert}], NEW id \in AlertIds,
         table[id] = NoAlert => ~(m.kind \in {"touch", "reopen", "status"} /\ m.id = id)
  PROVE  /\ table[id] = NoAlert => Apply(m, table)[id] = NoAlert
         /\ table[id] # NoAlert =>
              /\ Apply(m, table)[id] \in Alert
              /\ Apply(m, table)[id].seen = IF Beat(m, id) THEN m.ts ELSE table[id].seen
         /\ m.kind = "stale" /\ table[id].st = "active" /\ Apply(m, table)[id].st = "resolved"
              => table[id].seen < m.cut
<1> DEFINE row == table[id]
<1>0. row = NoAlert \/ row \in Alert
  OBVIOUS
<1>1. Apply(m, table)[id] =
        CASE m.kind = "touch" /\ id = m.id -> [row EXCEPT !.seen = m.ts]
          [] m.kind = "reopen" /\ id = m.id -> Reopened(row, m)
          [] m.kind = "status" /\ id = m.id -> [row EXCEPT !.st = m.st]
          [] m.kind = "stale" /\ row.st = "active" ->
               IF row.seen < m.cut THEN [row EXCEPT !.st = "resolved"] ELSE row
          [] OTHER -> row
  BY DEF Apply
<1>2. row = NoAlert => row.st = "none"
  BY DEF NoAlert
<1>3. row \in Alert => row # NoAlert /\ row.peak \in Nat /\ row.st \in Statuses
  BY DEF Alert, NoAlert, Statuses
<1> HIDE DEF row
<1>4. CASE m.kind = "touch" /\ id = m.id
  <2>1. Apply(m, table)[id] = [row EXCEPT !.seen = m.ts] /\ Beat(m, id) /\ row \in Alert
    BY <1>0, <1>1, <1>4 DEF Beat, row
  <2>2. [row EXCEPT !.seen = m.ts] \in Alert /\ [row EXCEPT !.seen = m.ts].seen = m.ts
    BY <1>4, <2>1, MutationShape DEF Alert
  <2> QED
    BY <1>3, <1>4, <2>1, <2>2 DEF row
<1>5. CASE m.kind = "reopen" /\ id = m.id
  <2>1. Apply(m, table)[id] = Reopened(row, m) /\ Beat(m, id) /\ row \in Alert
    BY <1>0, <1>1, <1>5 DEF Beat, row
  <2>2. Larger(row.peak, m.v) \in Nat
    BY <1>3, <1>5, <2>1, MutationShape DEF Larger
  <2>3. Reopened(row, m) \in Alert /\ Reopened(row, m).seen = m.ts
    BY <1>5, <2>1, <2>2, MutationShape DEF Reopened, Alert, Statuses
  <2> QED
    BY <1>3, <1>5, <2>1, <2>3 DEF row
<1>6. CASE m.kind = "status" /\ id = m.id
  <2>1. Apply(m, table)[id] = [row EXCEPT !.st = m.st] /\ ~Beat(m, id) /\ row \in Alert
    BY <1>0, <1>1, <1>6 DEF Beat, row
  <2>2. [row EXCEPT !.st = m.st] \in Alert /\ [row EXCEPT !.st = m.st].seen = row.seen
    BY <1>6, <2>1, MutationShape DEF Alert
  <2> QED
    BY <1>3, <1>6, <2>1, <2>2 DEF row
<1>7. CASE m.kind = "stale" /\ row.st = "active"
  <2>1. /\ Apply(m, table)[id] = IF row.seen < m.cut THEN [row EXCEPT !.st = "resolved"] ELSE row
        /\ ~Beat(m, id) /\ row \in Alert
    BY <1>0, <1>1, <1>2, <1>7 DEF Beat
  <2>2. [row EXCEPT !.st = "resolved"] \in Alert /\ [row EXCEPT !.st = "resolved"].seen = row.seen
    BY <2>1 DEF Alert, Statuses
  <2> QED
    BY <1>3, <1>7, <2>1, <2>2 DEF row
<1>8. CASE /\ ~(m.kind = "touch" /\ id = m.id) /\ ~(m.kind = "reopen" /\ id = m.id)
           /\ ~(m.kind = "status" /\ id = m.id) /\ ~(m.kind = "stale" /\ row.st = "active")
  <2>1. Apply(m, table)[id] = row /\ ~Beat(m, id)
    BY <1>1, <1>8 DEF Beat
  <2> QED
    BY <1>0, <1>8, <2>1 DEF row
<1> QED
  BY <1>4, <1>5, <1>6, <1>7, <1>8

-----------------------------------------------------------------------------
(* Types. *)

\* An issued mutation goes to the end of the queue.
LEMMA IssueType ==
  ASSUME queue \in Seq(Mutation), Len(queue) <= MaxQueue, NEW m \in Mutation, Issue(m)
  PROVE  queue' \in Seq(Mutation) /\ Len(queue') <= MaxQueue
<1>1. queue' = Append(queue, m) /\ Len(queue) < MaxQueue /\ MaxQueue \in Nat /\ Len(queue) \in Nat
  BY EngineAssumption DEF Issue
<1> QED
  BY <1>1

\* A counted failure leaves the count a natural number.
LEMMA FaultType ==
  ASSUME faults \in 0..MaxFaults, NEW kind, Fault(kind)
  PROVE  faults' \in 0..MaxFaults
BY EngineAssumption DEF Fault

\* A write of the engine, done or not, leaves a queue of mutations.
LEMMA WriteType ==
  ASSUME TypeOK, NEW m \in Mutation, Written(m) \/ WriteFails(m)
  PROVE  queue' \in Seq(Mutation) /\ Len(queue') <= MaxQueue /\ faults' \in 0..MaxFaults
<1>1. queue \in Seq(Mutation) /\ Len(queue) <= MaxQueue /\ faults \in 0..MaxFaults
  BY DEF TypeOK
<1>2. CASE UNCHANGED queue
  BY <1>1, <1>2, FaultType DEF Written, WriteFails
<1>3. CASE Issue(m)
  BY <1>1, <1>3, IssueType, FaultType DEF Written, WriteFails
<1> QED
  BY <1>2, <1>3 DEF Written, WriteFails

\* The clock and the time a mutation waits are natural numbers.
LEMMA ClockType == ASSUME TypeOK PROVE clock \in Nat /\ Due \in Nat /\ Cutoff \in Int
<1>1. clock \in 0..MaxTime
  BY DEF TypeOK
<1>2. MaxTime \in Nat /\ MaxLag \in Nat /\ Stale \in Nat
  BY EngineAssumption
<1> QED
  BY <1>1, <1>2 DEF Due, Cutoff

\* The places the cycle goes to.
LEMMA PlaceTypes ==
  ASSUME TypeOK
  PROVE  /\ op.step \in {"touch", "reopen", "lookup", "insert"} => Handled \in Cycle
         /\ Evaluate => op' \in Cycle
         /\ op.step = "lookup" => InsertStep \in Cycle
         /\ op.step = "lookup" =>
              \A id \in AlertIds, st \in {"touch", "reopen"} : About(op, st, id) \in Cycle
<1>0. op \in {Starting, Idle} \cup Cycle
  BY DEF TypeOK
<1>1. ASSUME op.step \in {"touch", "reopen", "lookup", "insert"} PROVE Handled \in Cycle
  BY <1>0, <1>1, OpShape DEF Handled, Cycle
<1>2. Evaluate => op' \in Cycle
  BY DEF Evaluate, Cycle
<1>3. ASSUME op.step = "lookup" PROVE InsertStep \in Cycle
  BY <1>0, <1>3, OpShape DEF InsertStep, Cycle
<1>4. ASSUME op.step = "lookup", NEW id \in AlertIds, NEW st \in {"touch", "reopen"}
      PROVE  About(op, st, id) \in Cycle
  BY <1>0, <1>4, OpShape DEF About, Cycle
<1> QED
  BY <1>1, <1>2, <1>3, <1>4

\* The row an insert stores.
LEMMA RowType ==
  ASSUME NEW k \in Keys, NEW t \in Nat, NEW v \in Nat
  PROVE  [key |-> k, st |-> "active", at |-> t, seen |-> t, peak |-> v] \in Alert
BY DEF Alert, Statuses

\* The new row, with or without its trace in the memory.
Adds(id) ==
  /\ alerts' = [alerts EXCEPT ![id] = [key |-> op.k, st |-> "active", at |-> op.now,
                                       seen |-> op.now, peak |-> op.v]]
  /\ \/ UNCHANGED <<recent, seenAt>>
     \/ Remember(id) /\ seenAt' = [seenAt EXCEPT ![id] = op.now]

\* What an insert does, if it does anything.
LEMMA InsertShape ==
  ASSUME Insert
  PROVE  UNCHANGED <<alerts, recent, seenAt>> \/ \E id \in AlertIds \ Stored : Adds(id)
BY DEF Insert, Adds

\* Every action keeps the types.
LEMMA TypeStep == TypeOK /\ QueueOfStored /\ [Next]_vars => TypeOK'
<1> SUFFICES ASSUME TypeOK, QueueOfStored, [Next]_vars PROVE TypeOK'
  OBVIOUS
<1>0. /\ alerts \in [AlertIds -> Alert \cup {NoAlert}] /\ queue \in Seq(Mutation) /\ Len(queue) <= MaxQueue
      /\ recent \in [Keys -> [id: AlertIds, at: Nat] \cup {NoRecent}]
      /\ written \in [AlertIds -> Nat \cup {Never}] /\ seenAt \in [AlertIds -> Nat \cup {Never}]
      /\ op \in {Starting, Idle} \cup Cycle /\ faults \in 0..MaxFaults
  BY DEF TypeOK
<1>1. CASE ApplyMutation
  <2>1. Len(queue) \in Nat /\ Len(queue) > 0 /\ Head(queue) = queue[1] /\ queue[1] \in Mutation
    BY <1>0, <1>1 DEF ApplyMutation
  <2>2. queue' \in Seq(Mutation) /\ Len(queue') <= MaxQueue
    BY <1>0, <1>1, <2>1, EngineAssumption DEF ApplyMutation
  <2>3. ASSUME NEW id \in AlertIds PROVE Apply(queue[1], alerts)[id] \in Alert \cup {NoAlert}
    <3>1. alerts[id] = NoAlert => ~(queue[1].kind \in {"touch", "reopen", "status"} /\ queue[1].id = id)
      BY <2>1 DEF QueueOfStored, Stored
    <3> QED
      BY <1>0, <2>1, <3>1, ApplyRow
  <2>4. alerts' = [id \in AlertIds |-> Apply(queue[1], alerts)[id]]
    BY <1>1, <2>1 DEF ApplyMutation, Apply
  <2>5. alerts' \in [AlertIds -> Alert \cup {NoAlert}]
    BY <2>3, <2>4
  <2> QED
    BY <1>1, <2>2, <2>5 DEF ApplyMutation, TypeOK
<1>2. CASE CycleBegin
  BY <1>2 DEF CycleBegin, TypeOK, Cycle
<1>3. CASE AutoResolveProbe
  <2>1. op' \in Cycle
    BY <1>3, ClockType, PlaceTypes DEF AutoResolveProbe, Cycle
  <2>2. faults' \in 0..MaxFaults
    BY <1>0, <1>3, FaultType DEF AutoResolveProbe
  <2> QED
    BY <1>3, <2>1, <2>2 DEF AutoResolveProbe, TypeOK
<1>4. CASE AutoResolveMutate
  <2> DEFINE m == [kind |-> "stale", cut |-> op.cut, fresh |-> Firing(op.cut), due |-> Due]
  <2>1. op.cut \in Int /\ Firing(op.cut) \in SUBSET AlertIds /\ Due \in Nat
    BY <1>0, <1>4, OpShape, ClockType DEF AutoResolveMutate, Firing, Stored
  <2>2. m \in Mutation
    BY <2>1 DEF Mutation
  <2>3. (Written(m) \/ WriteFails(m)) /\ op' \in Cycle
    BY <1>4, PlaceTypes DEF AutoResolveMutate
  <2> HIDE DEF m
  <2>4. queue' \in Seq(Mutation) /\ Len(queue') <= MaxQueue /\ faults' \in 0..MaxFaults
    BY <2>2, <2>3, WriteType
  <2> QED
    BY <1>4, <2>3, <2>4 DEF AutoResolveMutate, TypeOK
<1>5. ASSUME NEW k \in Keys, NEW v \in Values, Violation(k, v) PROVE TypeOK'
  <2>1. op.todo \in SUBSET Keys /\ clock \in Nat
    BY <1>0, <1>5, OpShape, ClockType DEF Violation
  <2>2. Trusted(k) => recent[k].id \in AlertIds
    BY <1>0 DEF Trusted
  <2>3. op' \in Cycle
    BY <1>5, <2>1, <2>2 DEF Violation, About, Cycle
  <2> QED
    BY <1>5, <2>3 DEF Violation, TypeOK
<1>6. CASE Lookup
  <2>1. op' \in Cycle
    <3>1. \A id \in Latest(op.k) : Decide(id) \in Cycle
      BY <1>6, PlaceTypes DEF Lookup, Decide, Latest, Stored
    <3> QED
      BY <1>6, <3>1, PlaceTypes DEF Lookup
  <2>2. faults' \in 0..MaxFaults
    BY <1>0, <1>6, FaultType DEF Lookup
  <2> QED
    BY <1>6, <2>1, <2>2 DEF Lookup, TypeOK
<1>7. CASE Touch
  <2> DEFINE m == [kind |-> "touch", id |-> op.id, ts |-> op.now, due |-> Due]
  <2>1. op.id \in AlertIds /\ op.now \in Nat /\ Due \in Nat
    BY <1>0, <1>7, OpShape, ClockType DEF Touch
  <2>2. m \in Mutation
    BY <2>1 DEF Mutation
  <2>3. \/ UNCHANGED <<queue, faults>>
        \/ Written(m) \/ WriteFails(m)
    BY <1>7 DEF Touch
  <2> HIDE DEF m
  <2>4. queue' \in Seq(Mutation) /\ Len(queue') <= MaxQueue /\ faults' \in 0..MaxFaults
    BY <1>0, <2>2, <2>3, WriteType
  <2>5. seenAt' \in [AlertIds -> Nat \cup {Never}]
    BY <1>0, <1>7, <2>1 DEF Touch
  <2>6. NoteHeartbeat(op.id, op.now) \in [AlertIds -> Nat \cup {Never}]
    BY <1>0, <2>1 DEF NoteHeartbeat
  <2>7. ForgetHeartbeat(op.id, op.now) \in [AlertIds -> Nat \cup {Never}]
    BY <2>6 DEF ForgetHeartbeat
  <2>8. written' \in [AlertIds -> Nat \cup {Never}]
    BY <1>0, <1>7, <2>6, <2>7 DEF Touch
  <2>9. op' \in Cycle
    BY <1>7, PlaceTypes DEF Touch
  <2> QED
    BY <1>7, <2>4, <2>5, <2>8, <2>9 DEF Touch, TypeOK
<1>8. CASE Reopen
  <2> DEFINE m == [kind |-> "reopen", id |-> op.id, ts |-> op.now, v |-> op.v, due |-> Due]
  <2>1. op.id \in AlertIds /\ op.now \in Nat /\ op.v \in Values /\ op.k \in Keys /\ Due \in Nat
    BY <1>0, <1>8, OpShape, ClockType DEF Reopen
  <2>2. m \in Mutation
    BY <2>1 DEF Mutation
  <2>3. Written(m) \/ WriteFails(m)
    BY <1>8 DEF Reopen
  <2> HIDE DEF m
  <2>4. queue' \in Seq(Mutation) /\ Len(queue') <= MaxQueue /\ faults' \in 0..MaxFaults
    BY <2>2, <2>3, WriteType
  <2>5. seenAt' \in [AlertIds -> Nat \cup {Never}] /\ written' \in [AlertIds -> Nat \cup {Never}]
    BY <1>0, <1>8, <2>1 DEF Reopen
  <2>6. recent' \in [Keys -> [id: AlertIds, at: Nat] \cup {NoRecent}]
    BY <1>0, <1>8, <2>1 DEF Reopen, Remember
  <2>7. op' \in Cycle /\ asked' \subseteq Keys
    BY <1>8, <2>1, PlaceTypes DEF Reopen, TypeOK
  <2> QED
    BY <1>8, <2>4, <2>5, <2>6, <2>7 DEF Reopen, TypeOK
<1>9. CASE Insert
  <2>1. op.now \in Nat /\ op.v \in Nat /\ op.k \in Keys
    BY <1>0, <1>9, OpShape, EngineAssumption DEF Insert
  <2>2. [key |-> op.k, st |-> "active", at |-> op.now, seen |-> op.now, peak |-> op.v] \in Alert
    BY <2>1, RowType
  <2>3. alerts' \in [AlertIds -> Alert \cup {NoAlert}]
    BY <1>0, <1>9, <2>2 DEF Insert
  <2>4. seenAt' \in [AlertIds -> Nat \cup {Never}]
    BY <1>0, <1>9, <2>1 DEF Insert
  <2>5. recent' \in [Keys -> [id: AlertIds, at: Nat] \cup {NoRecent}]
    <3>1. ASSUME NEW id \in AlertIds
          PROVE  Remember(id) => recent' \in [Keys -> [id: AlertIds, at: Nat] \cup {NoRecent}]
      BY <1>0, <2>1 DEF Remember
    <3> QED
      BY <1>0, <1>9, <3>1, InsertShape DEF Adds
  <2>6. faults' \in 0..MaxFaults
    BY <1>0, <1>9, FaultType DEF Insert
  <2>7. op' \in Cycle /\ asked' \subseteq Keys
    BY <1>9, <2>1, PlaceTypes DEF Insert, TypeOK
  <2> QED
    BY <1>9, <2>3, <2>4, <2>5, <2>6, <2>7 DEF Insert, TypeOK
<1>10. CASE CycleEnd
  BY <1>10 DEF CycleEnd, TypeOK
<1>11. CASE CleanupCooldown
  BY <1>0, <1>11 DEF CleanupCooldown, TypeOK
<1>12. CASE Crash
  <2>1. faults' \in 0..MaxFaults
    BY <1>0, <1>12, FaultType DEF Crash
  <2> QED
    BY <1>12, <2>1 DEF Crash, TypeOK
<1>13. CASE Tick
  <2>1. clock' \in 0..MaxTime
    <3>1. clock \in 0..MaxTime
      BY DEF TypeOK
    <3>2. MaxTime \in Nat
      BY EngineAssumption
    <3>3. clock < MaxTime /\ clock' = clock + 1
      BY <1>13 DEF Tick
    <3> QED
      BY <3>1, <3>2, <3>3
  <2> QED
    BY <1>13, <2>1 DEF Tick, TypeOK
<1>14. ASSUME NEW id \in Stored, NEW st \in Verdicts, Verdict(id, st) PROVE TypeOK'
  <2> DEFINE m == [kind |-> "status", id |-> id, st |-> st, due |-> Due]
  <2>1. m \in Mutation
    BY ClockType DEF Mutation, Stored
  <2>2. Issue(m)
    BY <1>14 DEF Verdict
  <2> HIDE DEF m
  <2>3. queue' \in Seq(Mutation) /\ Len(queue') <= MaxQueue
    BY <1>0, <2>1, <2>2, IssueType
  <2>4. verdicts' \in 0..MaxVerdicts
    <3>1. verdicts \in 0..MaxVerdicts /\ MaxVerdicts \in Nat
      BY EngineAssumption DEF TypeOK
    <3>2. verdicts > 0 /\ verdicts' = verdicts - 1
      BY <1>14 DEF Verdict
    <3> QED
      BY <3>1, <3>2
  <2> QED
    BY <1>14, <2>3, <2>4 DEF Verdict, TypeOK
<1>15. CASE UNCHANGED vars
  BY <1>15 DEF vars, TypeOK
<1> QED
  BY <1>1, <1>2, <1>3, <1>4, <1>5, <1>6, <1>7, <1>8, <1>9, <1>10, <1>11, <1>12, <1>13, <1>14, <1>15
  DEF Next, CycleStep

-----------------------------------------------------------------------------
(* The queue. *)

\* What the engine and the operators may say about the table as it will be.
Sound(m) ==
  /\ m.kind \in {"touch", "reopen", "status"} => m.id \in Stored
  /\ m.kind \in {"touch", "reopen"} => m.ts = clock
  /\ m.kind = "stale" => \A id \in m.fresh : id \in Stored /\ SeenBy(id, m.cut, Len(queue))

\* A new mutation goes behind the others.
LEMMA AppendShape ==
  ASSUME queue \in Seq(Mutation), NEW m \in Mutation, queue' = Append(queue, m)
  PROVE  /\ Len(queue) \in Nat /\ Len(queue') = Len(queue) + 1
         /\ \A i \in 1..Len(queue) : queue'[i] = queue[i]
         /\ queue'[Len(queue) + 1] = m
OBVIOUS

\* A queue is not its own tail.
LEMMA TailShorter ==
  ASSUME NEW q \in Seq(Mutation), q # <<>>
  PROVE  Tail(q) # q
<1> DEFINE short(n, k) == n \in Nat /\ k = n - 1
<1>1. short(Len(q), Len(Tail(q)))
  OBVIOUS
<1>2. \A n, k : short(n, k) => n # k
  OBVIOUS
<1> HIDE DEF short
<1> QED
  BY <1>1, <1>2

\* The mutations behind the first one move up.
LEMMA TailShape ==
  ASSUME queue \in Seq(Mutation), ApplyMutation
  PROVE  /\ Len(queue) \in Nat \ {0} /\ Len(queue') = Len(queue) - 1
         /\ \A i \in 1..Len(queue') : queue'[i] = queue[i + 1]
         /\ Head(queue) = queue[1] /\ queue[1] \in Mutation
<1>1. Len(queue) \in Nat \ {0} /\ queue' = Tail(queue) /\ Head(queue) = queue[1] /\ queue[1] \in Mutation
  BY DEF ApplyMutation
<1> QED
  BY <1>1

\* What is queued stays queued behind a new mutation.
LEMMA SeenAppend ==
  ASSUME queue \in Seq(Mutation), NEW m \in Mutation, queue' = Append(queue, m), UNCHANGED alerts,
         NEW id, NEW t, NEW n \in 0..Len(queue), SeenBy(id, t, n)
  PROVE  SeenBy(id, t, n)'
<1>1. CASE alerts[id].seen >= t
  BY <1>1 DEF SeenBy
<1>2. ASSUME NEW i \in 1..n, Beat(queue[i], id), queue[i].ts >= t PROVE SeenBy(id, t, n)'
  <2>1. i \in 1..Len(queue)
    BY <1>2, AppendShape
  <2>2. queue'[i] = queue[i]
    BY <2>1, AppendShape
  <2> QED
    BY <1>2, <2>2 DEF SeenBy, Beat
<1> QED
  BY <1>1, <1>2 DEF SeenBy

\* The rows after a mutation is applied.
LEMMA AppliedRows ==
  ASSUME TypeOK, QueueOfStored, ApplyMutation, NEW id \in AlertIds
  PROVE  /\ id \in Stored <=> id \in Stored'
         /\ id \in Stored => alerts'[id].seen = IF Beat(queue[1], id) THEN queue[1].ts ELSE alerts[id].seen
         /\ queue[1].kind = "stale" /\ alerts[id].st = "active" /\ alerts'[id].st = "resolved"
              => alerts[id].seen < queue[1].cut
<1>1. queue \in Seq(Mutation) /\ alerts \in [AlertIds -> Alert \cup {NoAlert}]
  BY DEF TypeOK
<1>2. queue[1] \in Mutation /\ alerts' = Apply(queue[1], alerts) /\ Len(queue) \in Nat \ {0}
  BY <1>1, TailShape DEF ApplyMutation
<1>3. alerts[id] = NoAlert => ~(queue[1].kind \in {"touch", "reopen", "status"} /\ queue[1].id = id)
  BY <1>2 DEF QueueOfStored, Stored
<1>4. NoAlert \notin Alert
  BY DEF NoAlert, Alert, Statuses
<1> QED
  BY <1>1, <1>2, <1>3, <1>4, ApplyRow DEF Stored

\* A mutation that is applied makes true what it said.
LEMMA SeenApplied ==
  ASSUME TypeOK, QueueOfStored, InOrder, ApplyMutation,
         NEW id \in Stored, NEW t \in Int, NEW n \in 1..Len(queue), SeenBy(id, t, n)
  PROVE  SeenBy(id, t, n - 1)'
<1>1. /\ queue \in Seq(Mutation) /\ Len(queue) \in Nat \ {0} /\ Len(queue') = Len(queue) - 1
      /\ \A i \in 1..Len(queue') : queue'[i] = queue[i + 1]
      /\ id \in AlertIds
  BY TailShape DEF TypeOK, Stored
<1>2. alerts[id].seen \in Nat /\ (Beat(queue[1], id) => queue[1].ts \in Nat)
  <2>1. alerts[id] \in Alert /\ queue[1] \in Mutation
    BY <1>1 DEF TypeOK, Stored
  <2> QED
    BY <2>1, MutationShape DEF Alert, Beat
<1>3. alerts'[id].seen = IF Beat(queue[1], id) THEN queue[1].ts ELSE alerts[id].seen
  BY <1>1, AppliedRows
<1>4. CASE alerts[id].seen >= t
  <2>1. Beat(queue[1], id) => alerts[id].seen <= queue[1].ts
    BY <1>1 DEF InOrder
  <2>2. alerts'[id].seen >= t
    BY <1>2, <1>3, <1>4, <2>1
  <2> QED
    BY <2>2 DEF SeenBy
<1>5. ASSUME NEW i \in 1..n, Beat(queue[i], id), queue[i].ts >= t PROVE SeenBy(id, t, n - 1)'
  <2>1. CASE i = 1
    BY <1>3, <1>5, <2>1 DEF SeenBy
  <2>2. CASE i # 1
    <3>1. i - 1 \in 1..(n - 1) /\ i - 1 \in 1..Len(queue')
      BY <1>1, <2>2
    <3>2. queue'[i - 1] = queue[i]
      BY <1>1, <3>1
    <3> QED
      BY <1>5, <3>1, <3>2 DEF SeenBy, Beat
  <2> QED
    BY <2>1, <2>2
<1> QED
  BY <1>4, <1>5 DEF SeenBy

\* Nothing is queued and no row changes.
LEMMA QueueKept ==
  ASSUME TypeOK, TypeOK', QueueInv, UNCHANGED <<alerts, queue>>, clock' >= clock
  PROVE  QueueInv'
<1>1. Stored' = Stored
  BY DEF Stored
<1>2. QueueOfStored'
  BY <1>1 DEF QueueInv, QueueOfStored
<1>3. ReachesFirst'
  BY DEF QueueInv, ReachesFirst, SeenBy, Beat
<1>4. /\ clock \in Int /\ clock' \in Int
      /\ \A id \in Stored : alerts[id].seen \in Int
      /\ \A i \in 1..Len(queue) : queue[i].kind \in {"touch", "reopen"} => queue[i].ts \in Int
  <2>1. \A id \in Stored : alerts[id] \in Alert
    BY DEF TypeOK, Stored
  <2>2. \A i \in 1..Len(queue) : queue[i] \in Mutation
    BY DEF TypeOK
  <2>3. clock \in Int /\ clock' \in Int
    BY EngineAssumption DEF TypeOK
  <2>4. \A id \in Stored : alerts[id].seen \in Int
    BY <2>1 DEF Alert
  <2>5. \A i \in 1..Len(queue) : queue[i].kind \in {"touch", "reopen"} => queue[i].ts \in Nat
    BY <2>2, MutationShape
  <2> QED
    BY <2>3, <2>4, <2>5
<1>5. InOrder'
  <2>1. \A id \in Stored : alerts[id].seen <= clock'
    BY <1>4 DEF QueueInv, InOrder
  <2>2. ASSUME NEW i \in 1..Len(queue), NEW id \in Stored, Beat(queue[i], id)
        PROVE  /\ alerts[id].seen <= queue[i].ts /\ queue[i].ts <= clock'
               /\ \A j \in 1..Len(queue) : j > i /\ Beat(queue[j], id) => queue[i].ts <= queue[j].ts
    <3>1. queue[i].ts \in Int /\ queue[i].ts <= clock
      BY <1>4, <2>2 DEF QueueInv, InOrder, Beat
    <3> QED
      BY <1>4, <2>2, <3>1 DEF QueueInv, InOrder
  <2> QED
    BY <1>1, <2>1, <2>2 DEF InOrder, Beat
<1> QED
  BY <1>2, <1>3, <1>5 DEF QueueInv

\* A sound mutation is issued.
LEMMA QueueAppend ==
  ASSUME TypeOK, QueueInv, UNCHANGED <<alerts, clock>>,
         NEW m \in Mutation, Sound(m), queue' = Append(queue, m)
  PROVE  QueueInv'
<1>0. queue \in Seq(Mutation) /\ Stored' = Stored
  BY DEF TypeOK, Stored
<1>1. /\ Len(queue) \in Nat /\ Len(queue') = Len(queue) + 1
      /\ \A i \in 1..Len(queue) : queue'[i] = queue[i]
      /\ queue'[Len(queue) + 1] = m
  BY <1>0, AppendShape
<1>2. \A i \in 1..Len(queue') : i \in 1..Len(queue) \/ i = Len(queue) + 1
  BY <1>1
<1>3. QueueOfStored'
  <2>1. ASSUME NEW i \in 1..Len(queue')
        PROVE  /\ queue'[i].kind \in {"touch", "reopen", "status"} => queue'[i].id \in Stored
               /\ queue'[i].kind = "stale" => queue'[i].fresh \subseteq Stored
    <3>1. CASE i \in 1..Len(queue)
      BY <1>1, <3>1 DEF QueueInv, QueueOfStored
    <3>2. CASE i = Len(queue) + 1
      BY <1>1, <3>2 DEF Sound
    <3> QED
      BY <1>2, <3>1, <3>2
  <2> QED
    BY <1>0, <2>1 DEF QueueOfStored
<1>4. ReachesFirst'
  <2>1. ASSUME NEW i \in 1..Len(queue'), queue'[i].kind = "stale", NEW id \in queue'[i].fresh,
               NEW t, t = queue'[i].cut
        PROVE  SeenBy(id, t, i - 1)'
    <3>1. i - 1 \in 0..Len(queue)
      BY <1>1
    <3>2. SeenBy(id, t, i - 1)
      <4>1. CASE i \in 1..Len(queue)
        BY <1>1, <2>1, <4>1 DEF QueueInv, ReachesFirst
      <4>2. CASE i = Len(queue) + 1
        BY <1>1, <2>1, <4>2 DEF Sound
      <4> QED
        BY <1>2, <4>1, <4>2
    <3> QED
      BY <1>0, <3>1, <3>2, SeenAppend
  <2> QED
    BY <2>1 DEF ReachesFirst
<1>5. InOrder'
  <2>1. ASSUME NEW i \in 1..Len(queue'), NEW id \in Stored, Beat(queue'[i], id)
        PROVE  /\ alerts[id].seen <= queue'[i].ts /\ queue'[i].ts <= clock
               /\ \A j \in 1..Len(queue') : j > i /\ Beat(queue'[j], id) => queue'[i].ts <= queue'[j].ts
    <3>1. CASE i \in 1..Len(queue)
      <4>1. /\ alerts[id].seen <= queue[i].ts /\ queue[i].ts <= clock
            /\ \A j \in 1..Len(queue) : j > i /\ Beat(queue[j], id) => queue[i].ts <= queue[j].ts
        BY <1>1, <2>1, <3>1 DEF QueueInv, InOrder
      <4>2. ASSUME NEW j \in 1..Len(queue'), j > i, Beat(queue'[j], id) PROVE queue[i].ts <= queue'[j].ts
        <5>1. CASE j \in 1..Len(queue)
          BY <1>1, <4>1, <4>2, <5>1
        <5>2. CASE j = Len(queue) + 1
          BY <1>1, <4>1, <4>2, <5>2 DEF Sound, Beat
        <5> QED
          BY <1>2, <5>1, <5>2
      <4> QED
        BY <1>1, <3>1, <4>1, <4>2
    <3>2. CASE i = Len(queue) + 1
      <4>1. queue'[i].ts = clock
        BY <1>1, <2>1, <3>2 DEF Sound, Beat
      <4>2. alerts[id].seen <= clock
        BY DEF QueueInv, InOrder
      <4>3. clock <= clock
        BY EngineAssumption DEF TypeOK
      <4>4. \A j \in 1..Len(queue') : ~(j > i)
        BY <1>1, <3>2
      <4> QED
        BY <4>1, <4>2, <4>3, <4>4
    <3> QED
      BY <1>2, <3>1, <3>2
  <2>2. \A id \in Stored : alerts[id].seen <= clock
    BY DEF QueueInv, InOrder
  <2> QED
    BY <1>0, <2>1, <2>2 DEF InOrder, Beat
<1> QED
  BY <1>3, <1>4, <1>5 DEF QueueInv

\* The first mutation is applied.
LEMMA QueueApplied ==
  ASSUME TypeOK, QueueInv, ApplyMutation
  PROVE  QueueInv'
<1>0. queue \in Seq(Mutation) /\ QueueOfStored /\ InOrder /\ UNCHANGED clock
  BY DEF TypeOK, QueueInv, ApplyMutation
<1>1. /\ Len(queue) \in Nat \ {0} /\ Len(queue') = Len(queue) - 1
      /\ \A i \in 1..Len(queue') : queue'[i] = queue[i + 1]
  BY <1>0, TailShape
<1>2. \A i \in 1..Len(queue') : i + 1 \in 1..Len(queue)
  BY <1>1
<1>3. Stored' = Stored
  BY <1>0, AppliedRows DEF Stored
<1>4. QueueOfStored'
  BY <1>0, <1>1, <1>2, <1>3 DEF QueueOfStored
<1>5. ReachesFirst'
  <2>1. ASSUME NEW i \in 1..Len(queue'), queue'[i].kind = "stale", NEW id \in queue'[i].fresh,
               NEW t, t = queue'[i].cut
        PROVE  SeenBy(id, t, i - 1)'
    <3>1. queue'[i] = queue[i + 1] /\ i + 1 \in 1..Len(queue) /\ i \in 1..Len(queue) /\ (i + 1) - 1 = i
      BY <1>1, <1>2
    <3>2. SeenBy(id, t, i) /\ id \in Stored
      BY <1>0, <2>1, <3>1 DEF QueueInv, ReachesFirst, QueueOfStored
    <3>3. t \in Int
      BY <1>0, <2>1, <3>1, MutationShape
    <3> QED
      BY <1>0, <3>1, <3>2, <3>3, SeenApplied
  <2> QED
    BY <2>1 DEF ReachesFirst
<1>6. InOrder'
  <2>1. ASSUME NEW id \in Stored
        PROVE  /\ alerts'[id].seen <= clock
               /\ \A i \in 1..Len(queue') : Beat(queue'[i], id) => alerts'[id].seen <= queue'[i].ts
    <3>1. alerts'[id].seen = IF Beat(queue[1], id) THEN queue[1].ts ELSE alerts[id].seen
      BY <1>0, AppliedRows DEF Stored
    <3>2. CASE Beat(queue[1], id)
      <4>1. /\ queue[1].ts <= clock
            /\ \A j \in 1..Len(queue) : j > 1 /\ Beat(queue[j], id) => queue[1].ts <= queue[j].ts
        BY <1>0, <1>1, <3>2 DEF InOrder
      <4> QED
        BY <1>1, <1>2, <3>1, <3>2, <4>1
    <3>3. CASE ~Beat(queue[1], id)
      BY <1>0, <1>1, <1>2, <3>1, <3>3 DEF InOrder
    <3> QED
      BY <3>2, <3>3
  <2>2. ASSUME NEW i \in 1..Len(queue'), NEW id \in Stored, Beat(queue'[i], id)
        PROVE  /\ queue'[i].ts <= clock
               /\ \A j \in 1..Len(queue') : j > i /\ Beat(queue'[j], id) => queue'[i].ts <= queue'[j].ts
    <3>1. /\ queue[i + 1].ts <= clock
          /\ \A j \in 1..Len(queue) : j > i + 1 /\ Beat(queue[j], id) => queue[i + 1].ts <= queue[j].ts
      BY <1>0, <1>1, <1>2, <2>2 DEF InOrder
    <3>2. \A j \in 1..Len(queue') : j > i => j + 1 > i + 1
      BY <1>1
    <3> QED
      BY <1>1, <1>2, <3>1, <3>2
  <2> QED
    BY <1>0, <1>3, <2>1, <2>2 DEF InOrder, Beat
<1> QED
  BY <1>4, <1>5, <1>6 DEF QueueInv

\* A row is inserted: nothing was queued about it.
LEMMA QueueInsert ==
  ASSUME TypeOK, QueueInv, NowIsNow, op.step = "insert", UNCHANGED <<queue, clock>>,
         NEW id \in AlertIds \ Stored, Adds(id)
  PROVE  QueueInv'
<1>1. /\ alerts'[id].seen = clock /\ alerts'[id] # NoAlert
      /\ \A x \in AlertIds \ {id} : alerts'[x] = alerts[x]
  BY DEF TypeOK, Adds, NoAlert, NowIsNow
<1>2. Stored' = Stored \cup {id}
  BY <1>1 DEF Stored
<1>3. QueueOfStored'
  BY <1>2 DEF QueueInv, QueueOfStored
<1>4. \A x \in Stored : alerts'[x] = alerts[x]
  BY <1>1 DEF Stored
<1>5. ReachesFirst'
  <2>1. ASSUME NEW i \in 1..Len(queue), queue[i].kind = "stale", NEW x \in queue[i].fresh
        PROVE  SeenBy(x, queue[i].cut, i - 1)'
    BY <1>4, <2>1 DEF QueueInv, QueueOfStored, ReachesFirst, SeenBy, Beat
  <2> QED
    BY <2>1 DEF ReachesFirst
<1>6. InOrder'
  <2>1. \A i \in 1..Len(queue) : ~Beat(queue[i], id)
    BY DEF QueueInv, QueueOfStored, Beat
  <2>2. clock <= clock
    BY EngineAssumption DEF TypeOK
  <2> QED
    BY <1>1, <1>2, <1>4, <2>1, <2>2 DEF QueueInv, InOrder, Beat
<1> QED
  BY <1>3, <1>5, <1>6 DEF QueueInv

-----------------------------------------------------------------------------
(* The steps, by what they do to the table and the queue. *)

StepKind ==
  \/ UNCHANGED <<alerts, queue>> /\ clock' >= clock
  \/ /\ UNCHANGED <<alerts, clock>>
     /\ \E m \in Mutation : Sound(m) /\ queue' = Append(queue, m)
  \/ ApplyMutation
  \/ /\ op.step = "insert" /\ UNCHANGED <<queue, clock>>
     /\ \E id \in AlertIds \ Stored : Adds(id)

\* An alert seen at some time was seen at any time before.
LEMMA SeenEarlier ==
  ASSUME TypeOK, NEW id \in Stored, NEW t \in Int, NEW u \in Int, u <= t, SeenBy(id, t, Len(queue))
  PROVE  SeenBy(id, u, Len(queue))
<1>1. alerts[id].seen \in Int
  BY DEF TypeOK, Stored, Alert
<1>2. CASE alerts[id].seen >= t
  BY <1>1, <1>2 DEF SeenBy
<1>3. ASSUME NEW i \in 1..Len(queue), Beat(queue[i], id), queue[i].ts >= t
      PROVE  SeenBy(id, u, Len(queue))
  <2>1. queue[i] \in Mutation
    BY DEF TypeOK
  <2>2. queue[i].ts \in Nat
    BY <1>3, <2>1, MutationShape DEF Beat
  <2> QED
    BY <1>3, <2>2 DEF SeenBy
<1> QED
  BY <1>2, <1>3 DEF SeenBy

\* A violation recorded late enough for a cutoff reaches the table behind it.
LEMMA FiringReaches ==
  ASSUME TypeOK, Reaches, NEW cut \in Int, NEW id \in Firing(cut)
  PROVE  id \in Stored /\ SeenBy(id, cut, Len(queue))
<1>1. id \in Stored /\ id \in AlertIds /\ seenAt[id] >= cut + Window
  BY DEF Firing, Stored
<1>2. seenAt[id] \in Nat \cup {Never} /\ Window \in Nat /\ alerts[id].seen \in Nat
  BY <1>1, WindowType DEF TypeOK, Stored, Alert
<1>3. CASE seenAt[id] = Never
  <2>1. cut < 0
    BY <1>1, <1>2, <1>3 DEF Never
  <2> QED
    BY <1>1, <1>2, <2>1 DEF SeenBy
<1>4. CASE seenAt[id] # Never
  <2>1. SeenBy(id, seenAt[id] - Window, Len(queue))
    BY <1>1, <1>4 DEF Reaches
  <2>2. seenAt[id] - Window \in Int /\ cut <= seenAt[id] - Window
    BY <1>1, <1>2, <1>4
  <2> QED
    BY <1>1, <2>1, <2>2, SeenEarlier
<1> QED
  BY <1>3, <1>4

\* A write of the engine, done or not, is of these kinds if it is sound.
LEMMA WriteKind ==
  ASSUME TypeOK, NEW m \in Mutation, Sound(m), UNCHANGED <<alerts, clock>>, Written(m) \/ WriteFails(m)
  PROVE  StepKind
<1>1. clock >= clock
  BY EngineAssumption DEF TypeOK
<1> QED
  BY <1>1 DEF Written, WriteFails, Issue, StepKind

\* Every step is of one of these kinds.
LEMMA Kinds == TypeOK /\ QueueInv /\ BookInv /\ [Next]_vars => StepKind
<1> SUFFICES ASSUME TypeOK, QueueInv, BookInv, [Next]_vars PROVE StepKind
  OBVIOUS
<1>0. op \in {Starting, Idle} \cup Cycle /\ clock \in Nat /\ Due \in Nat
  BY ClockType DEF TypeOK
<1>1. CASE UNCHANGED <<alerts, queue>> /\ clock' \in {clock, clock + 1}
  BY <1>0, <1>1 DEF StepKind
<1>2. CASE AutoResolveMutate
  <2> DEFINE m == [kind |-> "stale", cut |-> op.cut, fresh |-> Firing(op.cut), due |-> Due]
  <2>1. op.cut \in Int /\ Firing(op.cut) \in SUBSET AlertIds
    BY <1>0, <1>2, OpShape DEF AutoResolveMutate, Firing, Stored
  <2>2. m \in Mutation
    BY <1>0, <2>1 DEF Mutation
  <2>3. Sound(m)
    BY <2>1, FiringReaches DEF Sound, BookInv
  <2>4. (Written(m) \/ WriteFails(m)) /\ UNCHANGED <<alerts, clock>>
    BY <1>2 DEF AutoResolveMutate
  <2> HIDE DEF m
  <2> QED
    BY <2>2, <2>3, <2>4, WriteKind
<1>3. CASE Touch
  <2> DEFINE m == [kind |-> "touch", id |-> op.id, ts |-> op.now, due |-> Due]
  <2>1. op.id \in AlertIds /\ op.now \in Nat /\ op.id \in Stored /\ op.now = clock
    BY <1>0, <1>3, OpShape DEF Touch, BookInv, BookOfStored, NowIsNow
  <2>2. m \in Mutation
    BY <1>0, <2>1 DEF Mutation
  <2>3. Sound(m)
    BY <2>1 DEF Sound
  <2>4. (UNCHANGED queue \/ Written(m) \/ WriteFails(m)) /\ UNCHANGED <<alerts, clock>>
    BY <1>3 DEF Touch
  <2> HIDE DEF m
  <2> QED
    BY <1>1, <2>2, <2>3, <2>4, WriteKind
<1>4. CASE Reopen
  <2> DEFINE m == [kind |-> "reopen", id |-> op.id, ts |-> op.now, v |-> op.v, due |-> Due]
  <2>1. op.id \in AlertIds /\ op.now \in Nat /\ op.v \in Values /\ op.id \in Stored /\ op.now = clock
    BY <1>0, <1>4, OpShape DEF Reopen, BookInv, BookOfStored, NowIsNow
  <2>2. m \in Mutation
    BY <1>0, <2>1 DEF Mutation
  <2>3. Sound(m)
    BY <2>1 DEF Sound
  <2>4. (Written(m) \/ WriteFails(m)) /\ UNCHANGED <<alerts, clock>>
    BY <1>4 DEF Reopen
  <2> HIDE DEF m
  <2> QED
    BY <2>2, <2>3, <2>4, WriteKind
<1>5. CASE Insert
  <2>1. UNCHANGED <<queue, clock>> /\ op.step = "insert"
    BY <1>5 DEF Insert
  <2> QED
    BY <1>1, <1>5, <2>1, InsertShape DEF StepKind
<1>6. ASSUME NEW id \in Stored, NEW st \in Verdicts, Verdict(id, st) PROVE StepKind
  <2> DEFINE m == [kind |-> "status", id |-> id, st |-> st, due |-> Due]
  <2>1. m \in Mutation
    BY <1>0 DEF Mutation, Stored
  <2>2. Sound(m)
    BY DEF Sound
  <2>3. queue' = Append(queue, m) /\ UNCHANGED <<alerts, clock>>
    BY <1>6 DEF Verdict, Issue
  <2> HIDE DEF m
  <2> QED
    BY <2>1, <2>2, <2>3 DEF StepKind
<1>7. CASE ApplyMutation
  BY <1>7 DEF StepKind
<1>8. CASE \/ CycleBegin \/ AutoResolveProbe \/ Lookup \/ CycleEnd
           \/ CleanupCooldown \/ Crash \/ Tick \/ UNCHANGED vars
  BY <1>1, <1>8 DEF CycleBegin, AutoResolveProbe, Lookup, CycleEnd, CleanupCooldown, Crash, Tick, vars
<1>9. ASSUME NEW k \in Keys, NEW v \in Values, Violation(k, v) PROVE StepKind
  BY <1>1, <1>9 DEF Violation
<1> QED
  BY <1>2, <1>3, <1>4, <1>5, <1>6, <1>7, <1>8, <1>9 DEF Next, CycleStep

\* Every step keeps the queue in order.
LEMMA QueueStep == TypeOK /\ TypeOK' /\ QueueInv /\ BookInv /\ [Next]_vars => QueueInv'
BY Kinds, QueueKept, QueueAppend, QueueApplied, QueueInsert DEF StepKind, BookInv

\* A stored alert stays stored.
LEMMA StoredGrows ==
  ASSUME TypeOK, QueueInv, StepKind
  PROVE  Stored \subseteq Stored'
<1>1. CASE UNCHANGED alerts
  BY <1>1 DEF Stored
<1>2. CASE ApplyMutation
  BY <1>2, AppliedRows DEF QueueInv, Stored
<1>3. ASSUME NEW id \in AlertIds \ Stored, Adds(id) PROVE Stored \subseteq Stored'
  <2>1. \A x \in Stored : alerts'[x] = alerts[x]
    BY <1>3 DEF TypeOK, Adds, Stored
  <2> QED
    BY <2>1 DEF Stored
<1> QED
  BY <1>1, <1>2, <1>3 DEF StepKind

\* What reaches the table goes on to reach it.
LEMMA SeenKept ==
  ASSUME TypeOK, QueueInv, StepKind, NEW id \in Stored, NEW t \in Int, SeenBy(id, t, Len(queue))
  PROVE  SeenBy(id, t, Len(queue))'
<1>0. queue \in Seq(Mutation) /\ Len(queue) \in Nat
  BY DEF TypeOK
<1>1. CASE UNCHANGED <<alerts, queue>>
  BY <1>1 DEF SeenBy, Beat
<1>2. ASSUME UNCHANGED alerts, NEW m \in Mutation, queue' = Append(queue, m)
      PROVE  SeenBy(id, t, Len(queue))'
  <2>1. PICK n \in Nat : n = Len(queue)
    BY <1>0
  <2>2. SeenBy(id, t, n)'
    BY <1>0, <1>2, <2>1, SeenAppend
  <2>3. 1..n \subseteq 1..Len(queue')
    BY <1>0, <1>2, <2>1, AppendShape
  <2> QED
    BY <2>2, <2>3 DEF SeenBy
<1>3. CASE ApplyMutation
  <2>1. PICK n \in Nat : n = Len(queue)
    BY <1>0
  <2>2. n \in 1..Len(queue) /\ n - 1 = Len(queue')
    BY <1>0, <1>3, <2>1, TailShape
  <2>3. SeenBy(id, t, n - 1)'
    BY <1>3, <2>1, <2>2, SeenApplied DEF QueueInv
  <2> QED
    BY <2>2, <2>3 DEF SeenBy
<1>4. ASSUME UNCHANGED queue, NEW x \in AlertIds \ Stored, Adds(x) PROVE SeenBy(id, t, Len(queue))'
  <2>1. alerts'[id] = alerts[id]
    BY <1>4 DEF TypeOK, Adds, Stored
  <2> QED
    BY <1>4, <2>1 DEF SeenBy, Beat
<1> QED
  BY <1>1, <1>2, <1>3, <1>4 DEF StepKind

-----------------------------------------------------------------------------
(* The engine's memory. *)

\* A heartbeat that was just issued reaches the table.
LEMMA SeenNew ==
  ASSUME queue \in Seq(Mutation), NEW m \in Mutation, queue' = Append(queue, m),
         NEW id, NEW t \in Int, Beat(m, id), m.ts = t
  PROVE  SeenBy(id, t, Len(queue))'
<1>1. Len(queue) + 1 \in 1..Len(queue') /\ queue'[Len(queue) + 1] = m
  BY AppendShape
<1> QED
  BY <1>1 DEF SeenBy, Beat

\* An entry of the book that is kept or dropped.
LEMMA WrittenReaches ==
  ASSUME TypeOK, QueueInv, BookInv, StepKind, NEW id \in AlertIds, NEW t, t = written'[id],
         t # Never, written'[id] \in {written[id], Never}
  PROVE  SeenBy(id, t, Len(queue))'
<1>1. t = written[id] /\ t \in Int /\ id \in Stored
  BY DEF TypeOK, BookInv, BookOfStored
<1>2. SeenBy(id, t, Len(queue))
  BY <1>1 DEF BookInv, Reaches
<1> QED
  BY <1>1, <1>2, SeenKept

\* A violation that was recorded before.
LEMMA SeenAtReaches ==
  ASSUME TypeOK, QueueInv, BookInv, StepKind, NEW id \in AlertIds, NEW t, t = seenAt'[id],
         t # Never, seenAt'[id] = seenAt[id]
  PROVE  SeenBy(id, t - Window, Len(queue))'
<1>1. t = seenAt[id] /\ t - Window \in Int /\ id \in Stored
  BY WindowType DEF TypeOK, BookInv, BookOfStored
<1>2. SeenBy(id, t - Window, Len(queue))
  BY <1>1 DEF BookInv, Reaches
<1> QED
  BY <1>1, <1>2, SeenKept

\* The steps that record no violation.
LEMMA ReachesKept ==
  ASSUME TypeOK, QueueInv, BookInv, StepKind, UNCHANGED seenAt,
         \A id \in AlertIds : written'[id] \in {written[id], Never}
  PROVE  Reaches'
<1>1. ASSUME NEW id \in AlertIds, NEW t, t = written'[id], t # Never PROVE SeenBy(id, t, Len(queue))'
  BY <1>1, WrittenReaches
<1>2. ASSUME NEW id \in AlertIds, NEW t, t = seenAt'[id], t # Never
      PROVE  SeenBy(id, t - Window, Len(queue))'
  BY <1>2, SeenAtReaches
<1> QED
  BY <1>1, <1>2 DEF Reaches, Window

\* A violation recorded for the alert id at the time now.
LEMMA ReachesRecorded ==
  ASSUME TypeOK, QueueInv, BookInv, StepKind, NEW id \in AlertIds, NEW now \in Nat,
         seenAt' = [seenAt EXCEPT ![id] = now],
         SeenBy(id, now - Window, Len(queue))',
         \A x \in AlertIds : \/ written'[x] \in {written[x], Never}
                             \/ x = id /\ written'[x] = now /\ SeenBy(id, now, Len(queue))'
  PROVE  Reaches'
<1>1. ASSUME NEW x \in AlertIds, NEW t, t = written'[x], t # Never PROVE SeenBy(x, t, Len(queue))'
  <2>1. CASE written'[x] \in {written[x], Never}
    BY <1>1, <2>1, WrittenReaches
  <2>2. CASE x = id /\ written'[x] = now /\ SeenBy(id, now, Len(queue))'
    BY <1>1, <2>2
  <2> QED
    BY <2>1, <2>2
<1>2. ASSUME NEW x \in AlertIds, NEW t, t = seenAt'[x], t # Never
      PROVE  SeenBy(x, t - Window, Len(queue))'
  <2>1. CASE x = id
    <3>1. t = now
      BY <1>2, <2>1 DEF TypeOK
    <3> QED
      BY <2>1, <3>1
  <2>2. CASE x # id
    <3>1. seenAt'[x] = seenAt[x]
      BY <1>2, <2>2 DEF TypeOK
    <3> QED
      BY <1>2, <3>1, SeenAtReaches
  <2> QED
    BY <2>1, <2>2
<1> QED
  BY <1>1, <1>2 DEF Reaches, Window

\* The place and the time of a violation.
LEMMA PlaceStep ==
  ASSUME TypeOK, QueueInv, BookInv, [Next]_vars, Stored \subseteq Stored'
  PROVE  NowIsNow' /\ (op'.step \in {"touch", "reopen"} => op'.id \in Stored')
<1>0. op \in {Starting, Idle} \cup Cycle
  BY DEF TypeOK
<1>1. CASE UNCHANGED <<op, clock>>
  BY <1>1 DEF BookInv, BookOfStored, NowIsNow
<1>2. CASE op'.step \in {"idle", "starting", "probe", "resolve", "eval"}
  BY <1>2 DEF NowIsNow
<1>3. ASSUME NEW k \in Keys, NEW v \in Values, Violation(k, v)
      PROVE  NowIsNow' /\ (op'.step \in {"touch", "reopen"} => op'.id \in Stored')
  <2>1. Trusted(k) => recent[k].id \in Stored
    BY DEF Trusted, BookInv, BookOfStored
  <2> QED
    BY <1>3, <2>1 DEF Violation, About, NowIsNow
<1>4. CASE Lookup
  <2>1. op.now = clock /\ UNCHANGED clock
    BY <1>4 DEF Lookup, BookInv, NowIsNow
  <2>2. InsertStep.step = "insert" /\ InsertStep.now = op.now
    BY <1>0, <1>4, OpShape DEF Lookup, InsertStep
  <2>3. ASSUME NEW id \in Stored, NEW st \in {"touch", "reopen"}
        PROVE  About(op, st, id).step = st /\ About(op, st, id).now = op.now /\ About(op, st, id).id \in Stored
    BY DEF About
  <2>4. \A id \in Latest(op.k) : \/ Decide(id) = InsertStep
                                 \/ \E st \in {"touch", "reopen"} : Decide(id) = About(op, st, id)
    BY DEF Decide
  <2>5. Latest(op.k) \subseteq Stored
    BY DEF Latest
  <2>6. op' = Handled => op'.step = "eval"
    BY DEF Handled
  <2>7. \/ op' = Handled \/ op' = InsertStep
        \/ \E id \in Stored, st \in {"touch", "reopen"} : op' = About(op, st, id)
    BY <1>4, <2>4, <2>5 DEF Lookup
  <2> QED
    BY <2>1, <2>2, <2>3, <2>6, <2>7 DEF NowIsNow
<1>5. CASE Touch \/ Reopen \/ Insert \/ AutoResolveMutate \/ CycleEnd \/ CycleBegin \/ Crash
  BY <1>2, <1>5 DEF Touch, Reopen, Insert, AutoResolveMutate, CycleEnd, CycleBegin, Crash, Handled, Evaluate,
     Idle, Starting
<1>6. CASE AutoResolveProbe
  BY <1>2, <1>6 DEF AutoResolveProbe, Evaluate
<1>7. CASE Tick
  BY <1>2, <1>7 DEF Tick, Starting
<1>8. CASE ApplyMutation \/ CleanupCooldown \/ UNCHANGED vars
  BY <1>1, <1>8 DEF ApplyMutation, CleanupCooldown, vars
<1>9. ASSUME NEW id \in Stored, NEW st \in Verdicts, Verdict(id, st)
      PROVE  NowIsNow' /\ (op'.step \in {"touch", "reopen"} => op'.id \in Stored')
  BY <1>1, <1>9 DEF Verdict
<1> QED
  BY <1>3, <1>4, <1>5, <1>6, <1>7, <1>8, <1>9 DEF Next, CycleStep

\* The book and the history name stored alerts.
LEMMA BookKept ==
  ASSUME TypeOK, BookInv, Stored \subseteq Stored',
         \A k \in Keys : \/ recent'[k] \in {recent[k], NoRecent}
                         \/ recent'[k].id \in Stored',
         \A id \in AlertIds : \/ id \in Stored'
                              \/ written'[id] \in {written[id], Never} /\ seenAt'[id] = seenAt[id]
  PROVE  /\ \A k \in Keys : recent'[k] # NoRecent => recent'[k].id \in Stored'
         /\ \A id \in AlertIds : written'[id] # Never \/ seenAt'[id] # Never => id \in Stored'
BY DEF BookInv, BookOfStored

\* The parts of the memory's invariant, put together.
LEMMA BookParts ==
  ASSUME TypeOK, QueueInv, BookInv, [Next]_vars, Reaches',
         \A k \in Keys : \/ recent'[k] \in {recent[k], NoRecent}
                         \/ recent'[k].id \in Stored',
         \A id \in AlertIds : \/ id \in Stored'
                              \/ written'[id] \in {written[id], Never} /\ seenAt'[id] = seenAt[id]
  PROVE  BookInv'
<1>1. Stored \subseteq Stored'
  BY Kinds, StoredGrows
<1>2. NowIsNow' /\ (op'.step \in {"touch", "reopen"} => op'.id \in Stored')
  BY <1>1, PlaceStep
<1>3. /\ \A k \in Keys : recent'[k] # NoRecent => recent'[k].id \in Stored'
      /\ \A id \in AlertIds : written'[id] # Never \/ seenAt'[id] # Never => id \in Stored'
  BY <1>1, BookKept
<1> QED
  BY <1>2, <1>3 DEF BookInv, BookOfStored

\* A heartbeat: throttled, written, or failed.
LEMMA TouchReaches ==
  ASSUME TypeOK, QueueInv, BookInv, StepKind, Touch
  PROVE  Reaches' /\ \A x \in AlertIds : \/ x = op.id
                                         \/ written'[x] \in {written[x], Never} /\ seenAt'[x] = seenAt[x]
<1> DEFINE m == [kind |-> "touch", id |-> op.id, ts |-> op.now, due |-> Due]
<1>0. /\ op.id \in AlertIds /\ op.now \in Nat /\ op.id \in Stored
      /\ queue \in Seq(Mutation) /\ Due \in Nat /\ Window \in Nat
      /\ written \in [AlertIds -> Nat \cup {Never}] /\ seenAt \in [AlertIds -> Nat \cup {Never}]
  BY OpShape, ClockType, WindowType DEF Touch, TypeOK, BookInv, BookOfStored
<1>1. \A x \in AlertIds : NoteHeartbeat(op.id, op.now)[x] \in {written[x], Never, op.now}
                          /\ (x # op.id => NoteHeartbeat(op.id, op.now)[x] \in {written[x], Never})
                          /\ (x # op.id => ForgetHeartbeat(op.id, op.now)[x] \in {written[x], Never})
                          /\ (x = op.id => ForgetHeartbeat(op.id, op.now)[x] = Never)
  BY <1>0 DEF NoteHeartbeat, ForgetHeartbeat
<1>2. CASE /\ ~HeartbeatDue(op.id, op.now) /\ seenAt' = [seenAt EXCEPT ![op.id] = op.now]
           /\ UNCHANGED <<queue, written>>
  <2>1. written[op.id] \in Nat /\ op.now - Window <= written[op.id]
    BY <1>0, <1>2 DEF HeartbeatDue
  <2>2. SeenBy(op.id, written[op.id], Len(queue))
    BY <1>0, <2>1 DEF BookInv, Reaches, Never
  <2>3. SeenBy(op.id, op.now - Window, Len(queue))
    BY <1>0, <2>1, <2>2, SeenEarlier
  <2>4. PICK id \in Stored, now \in Nat : id = op.id /\ now = op.now
    BY <1>0
  <2>5. SeenBy(id, now - Window, Len(queue))'
    BY <1>0, <2>3, <2>4, SeenKept
  <2>6. Reaches'
    BY <1>0, <1>2, <2>4, <2>5, ReachesRecorded
  <2> QED
    BY <1>0, <1>2, <2>6
<1>3. CASE /\ Written(m) /\ seenAt' = [seenAt EXCEPT ![op.id] = op.now]
           /\ written' = NoteHeartbeat(op.id, op.now)
  <2>1. m \in Mutation /\ Beat(m, op.id) /\ m.ts = op.now
    BY <1>0 DEF Mutation, Beat
  <2>2. queue' = Append(queue, m)
    BY <1>3 DEF Written, Issue
  <2> HIDE DEF m
  <2>3. PICK id \in AlertIds, now \in Nat : id = op.id /\ now = op.now
    BY <1>0
  <2>4. SeenBy(id, now, Len(queue))'
    BY <1>0, <2>1, <2>2, <2>3, SeenNew
  <2>5. SeenBy(id, now - Window, Len(queue))'
    <3>1. Len(queue) + 1 \in 1..Len(queue') /\ queue'[Len(queue) + 1] = m
      BY <1>0, <2>1, <2>2, AppendShape
    <3> QED
      BY <1>0, <2>1, <2>3, <3>1 DEF SeenBy, Beat
  <2>6. Reaches'
    BY <1>1, <1>3, <2>3, <2>4, <2>5, ReachesRecorded
  <2> QED
    BY <1>0, <1>1, <1>3, <2>6
<1>4. CASE written' = ForgetHeartbeat(op.id, op.now) /\ UNCHANGED seenAt
  <2>1. Reaches'
    BY <1>1, <1>4, ReachesKept
  <2> QED
    BY <1>1, <1>4, <2>1
<1> QED
  BY <1>2, <1>3, <1>4 DEF Touch

\* A re-open: written or failed.
LEMMA ReopenReaches ==
  ASSUME TypeOK, QueueInv, BookInv, StepKind, Reopen
  PROVE  /\ Reaches'
         /\ \A x \in AlertIds : \/ x = op.id
                                \/ written'[x] \in {written[x], Never} /\ seenAt'[x] = seenAt[x]
         /\ \A k \in Keys : recent'[k] = recent[k] \/ recent'[k].id = op.id
<1> DEFINE m == [kind |-> "reopen", id |-> op.id, ts |-> op.now, v |-> op.v, due |-> Due]
<1>0. /\ op.id \in AlertIds /\ op.now \in Nat /\ op.v \in Values
      /\ queue \in Seq(Mutation) /\ Due \in Nat /\ Window \in Nat
      /\ written \in [AlertIds -> Nat \cup {Never}] /\ seenAt \in [AlertIds -> Nat \cup {Never}]
      /\ recent \in [Keys -> [id: AlertIds, at: Nat] \cup {NoRecent}]
  BY OpShape, ClockType, WindowType DEF Reopen, TypeOK
<1>1. CASE /\ Written(m) /\ Remember(op.id) /\ seenAt' = [seenAt EXCEPT ![op.id] = op.now]
           /\ written' \in {written, [written EXCEPT ![op.id] = op.now]}
  <2>1. m \in Mutation /\ Beat(m, op.id) /\ m.ts = op.now
    BY <1>0 DEF Mutation, Beat
  <2>2. queue' = Append(queue, m)
    BY <1>1 DEF Written, Issue
  <2> HIDE DEF m
  <2>3. PICK id \in AlertIds, now \in Nat : id = op.id /\ now = op.now
    BY <1>0
  <2>4. SeenBy(id, now, Len(queue))'
    BY <1>0, <2>1, <2>2, <2>3, SeenNew
  <2>5. SeenBy(id, now - Window, Len(queue))'
    <3>1. Len(queue) + 1 \in 1..Len(queue') /\ queue'[Len(queue) + 1] = m
      BY <1>0, <2>1, <2>2, AppendShape
    <3> QED
      BY <1>0, <2>1, <2>3, <3>1 DEF SeenBy, Beat
  <2>6. \A x \in AlertIds : written'[x] = written[x] \/ (x = id /\ written'[x] = now)
    <3>1. CASE written' = written
      BY <3>1
    <3>2. CASE written' = [written EXCEPT ![op.id] = op.now]
      BY <1>0, <2>3, <3>2
    <3> QED
      BY <1>1, <3>1, <3>2
  <2>7. Reaches'
    BY <1>1, <2>3, <2>4, <2>5, <2>6, ReachesRecorded
  <2>8. \A k \in Keys : recent'[k] = recent[k] \/ recent'[k].id = op.id
    BY <1>0, <1>1 DEF Remember
  <2> QED
    BY <1>0, <1>1, <2>3, <2>6, <2>7, <2>8
<1>2. CASE UNCHANGED <<recent, seenAt, written>>
  BY <1>2, ReachesKept
<1> QED
  BY <1>1, <1>2 DEF Reopen

\* An insert: the new row is seen at the time of its violation.
LEMMA InsertReaches ==
  ASSUME TypeOK, QueueInv, BookInv, StepKind, Insert, NEW id \in AlertIds \ Stored, Adds(id)
  PROVE  /\ Reaches' /\ id \in Stored'
         /\ \A x \in AlertIds : x = id \/ seenAt'[x] = seenAt[x]
         /\ \A k \in Keys : recent'[k] = recent[k] \/ recent'[k].id = id
<1>0. /\ op.now \in Nat /\ Window \in Nat /\ UNCHANGED written
      /\ seenAt \in [AlertIds -> Nat \cup {Never}] /\ alerts \in [AlertIds -> Alert \cup {NoAlert}]
      /\ recent \in [Keys -> [id: AlertIds, at: Nat] \cup {NoRecent}]
  BY OpShape, WindowType DEF Insert, TypeOK
<1>1. alerts'[id].seen = op.now /\ alerts'[id] # NoAlert
  BY <1>0 DEF Adds, NoAlert
<1>2. id \in Stored'
  BY <1>1 DEF Stored
<1>3. CASE UNCHANGED <<recent, seenAt>>
  BY <1>0, <1>2, <1>3, ReachesKept
<1>4. CASE Remember(id) /\ seenAt' = [seenAt EXCEPT ![id] = op.now]
  <2>1. PICK now \in Nat : now = op.now
    BY <1>0
  <2>2. SeenBy(id, now - Window, Len(queue))'
    BY <1>0, <1>1, <2>1 DEF SeenBy
  <2>3. Reaches'
    BY <1>0, <1>4, <2>1, <2>2, ReachesRecorded
  <2>4. \A k \in Keys : recent'[k] = recent[k] \/ recent'[k].id = id
    BY <1>0, <1>4 DEF Remember
  <2> QED
    BY <1>0, <1>2, <1>4, <2>3, <2>4
<1> QED
  BY <1>3, <1>4 DEF Adds

\* Every step keeps the memory true.
LEMMA BookStep == TypeOK /\ QueueInv /\ BookInv /\ [Next]_vars => BookInv'
<1> SUFFICES ASSUME TypeOK, QueueInv, BookInv, [Next]_vars PROVE BookInv'
  OBVIOUS
<1>0. StepKind /\ Stored \subseteq Stored'
  BY Kinds, StoredGrows
<1>1. CASE UNCHANGED <<recent, written, seenAt>>
  BY <1>0, <1>1, ReachesKept, BookParts
<1>2. CASE Touch
  <2>1. op.id \in Stored' /\ UNCHANGED recent
    BY <1>0, <1>2 DEF Touch, BookInv, BookOfStored
  <2> QED
    BY <1>0, <1>2, <2>1, TouchReaches, BookParts
<1>3. CASE Reopen
  <2>1. op.id \in Stored'
    BY <1>0, <1>3 DEF Reopen, BookInv, BookOfStored
  <2>2. /\ Reaches'
        /\ \A x \in AlertIds : \/ x = op.id
                               \/ written'[x] \in {written[x], Never} /\ seenAt'[x] = seenAt[x]
        /\ \A k \in Keys : recent'[k] = recent[k] \/ recent'[k].id = op.id
    BY <1>0, <1>3, ReopenReaches
  <2> QED
    BY <2>1, <2>2, BookParts
<1>4. CASE Insert
  <2>1. UNCHANGED written
    BY <1>4 DEF Insert
  <2>2. ASSUME NEW id \in AlertIds \ Stored, Adds(id) PROVE BookInv'
    <3>1. /\ Reaches' /\ id \in Stored'
          /\ \A x \in AlertIds : x = id \/ seenAt'[x] = seenAt[x]
          /\ \A k \in Keys : recent'[k] = recent[k] \/ recent'[k].id = id
      BY <1>0, <1>4, <2>2, InsertReaches
    <3> QED
      BY <2>1, <3>1, BookParts
  <2> QED
    BY <1>1, <1>4, <2>1, <2>2, InsertShape
<1>5. CASE Crash
  <2>1. /\ UNCHANGED seenAt
        /\ \A k \in Keys : recent'[k] = NoRecent
        /\ \A id \in AlertIds : written'[id] = Never
    BY <1>5 DEF Crash
  <2> QED
    BY <1>0, <2>1, ReachesKept, BookParts
<1>6. CASE CleanupCooldown
  <2>1. /\ UNCHANGED <<seenAt, written>>
        /\ \A k \in Keys : recent'[k] \in {recent[k], NoRecent}
    BY <1>6 DEF CleanupCooldown
  <2> QED
    BY <1>0, <2>1, ReachesKept, BookParts
<1>7. CASE \/ CycleBegin \/ AutoResolveProbe \/ AutoResolveMutate \/ Lookup \/ CycleEnd \/ ApplyMutation
           \/ Tick \/ UNCHANGED vars
  BY <1>1, <1>7 DEF CycleBegin, AutoResolveProbe, AutoResolveMutate, Lookup, CycleEnd, ApplyMutation, Tick, vars
<1>8. ASSUME NEW k \in Keys, NEW v \in Values, Violation(k, v) PROVE BookInv'
  BY <1>1, <1>8 DEF Violation
<1>9. ASSUME NEW id \in Stored, NEW st \in Verdicts, Verdict(id, st) PROVE BookInv'
  BY <1>1, <1>9 DEF Verdict
<1> QED
  BY <1>2, <1>3, <1>4, <1>5, <1>6, <1>7, <1>8, <1>9 DEF Next, CycleStep

-----------------------------------------------------------------------------
(* The theorems. *)

\* The engine starts with an empty table, an empty queue and no memory.
LEMMA EngineInit == Init => EngineInv
<1> SUFFICES ASSUME Init PROVE EngineInv
  OBVIOUS
<1>1. Stored = {} /\ Len(queue) = 0
  BY DEF Init, Stored
<1>2. TypeOK
  <2>1. queue \in Seq(Mutation) /\ Len(queue) <= MaxQueue
    BY <1>1, EngineAssumption DEF Init
  <2> QED
    BY <2>1, EngineAssumption DEF Init, TypeOK
<1>3. QueueInv
  BY <1>1 DEF QueueInv, QueueOfStored, InOrder, ReachesFirst
<1>4. BookInv
  BY <1>1 DEF Init, BookInv, BookOfStored, NowIsNow, Reaches, Starting
<1> QED
  BY <1>2, <1>3, <1>4 DEF EngineInv

\* One step of the engine, ClickHouse, an operator or the clock.
LEMMA EngineStep == EngineInv /\ [Next]_vars => EngineInv'
BY TypeStep, QueueStep, BookStep DEF EngineInv, QueueInv

\* The inductive invariant: the queue and the memory of the engine agree
\* about when an alert was last seen.
THEOREM EngineInvariant == Spec => []EngineInv
BY EngineInit, EngineStep, PTL DEF Spec

\* The table, the queue and the memory of the engine keep their types.
THEOREM EngineTypes == Spec => []TypeOK
<1>1. EngineInv => TypeOK
  BY DEF EngineInv
<1> QED
  BY <1>1, EngineInvariant, PTL

(***************************************************************************)
(* An alert that is firing is never auto-resolved, whatever the threshold, *)
(* the throttle derived from it, the lag of the mutations, the failed      *)
(* writes and the restarts.                                                *)
(***************************************************************************)
THEOREM FiringAlertsStayOpen == Spec => FiringStaysOpen
<1> DEFINE Kept ==
      \A id \in AlertIds :
        queue # <<>> /\ Head(queue).kind = "stale" /\ queue' = Tail(queue)
          /\ alerts[id].st = "active" /\ alerts'[id].st = "resolved"
          => id \notin Head(queue).fresh
<1>1. EngineInv /\ [Next]_vars => [Kept]_vars
  <2> SUFFICES ASSUME EngineInv, [Next]_vars, NEW id \in AlertIds,
                      queue # <<>>, Head(queue).kind = "stale", queue' = Tail(queue),
                      alerts[id].st = "active", alerts'[id].st = "resolved",
                      id \in Head(queue).fresh
               PROVE  FALSE
    BY DEF Kept
  <2>0. TypeOK /\ QueueInv /\ BookInv /\ QueueOfStored
    BY DEF EngineInv, QueueInv
  <2>1. /\ queue \in Seq(Mutation) /\ Len(queue) \in Nat \ {0} /\ Len(Tail(queue)) = Len(queue) - 1
        /\ Head(queue) = queue[1] /\ queue[1] \in Mutation
    BY <2>0 DEF TypeOK
  <2>2. ApplyMutation
    <3>1. ~UNCHANGED queue
      BY <2>1, TailShorter
    <3>2. ~UNCHANGED alerts
      OBVIOUS
    <3> QED
      BY <2>0, <3>1, <3>2, Kinds DEF StepKind
  <2>3. alerts[id].seen < queue[1].cut
    BY <2>0, <2>1, <2>2, AppliedRows
  <2>4. SeenBy(id, queue[1].cut, 0) /\ id \in Stored
    BY <2>0, <2>1 DEF QueueInv, QueueOfStored, ReachesFirst
  <2>5. alerts[id].seen >= queue[1].cut
    BY <2>4 DEF SeenBy
  <2>6. alerts[id].seen \in Int /\ queue[1].cut \in Int
    BY <2>0, <2>1, <2>4, MutationShape DEF TypeOK, Stored, Alert
  <2> QED
    BY <2>3, <2>5, <2>6
<1> QED
  BY <1>1, EngineInvariant, PTL DEF Spec, FiringStaysOpen

-----------------------------------------------------------------------------
(* Re-opens. *)

\* The conditions of ReopensTheResolved: the memory of the engine, and the first wait of a
\* process that has none, last longer than a mutation is queued, cleanupCooldown keeps what
\* is trusted, and no re-open is done while the engine is told that it failed.
MemoryCoversTheLag ==
  /\ MaxLag < Trust /\ Trust <= RecentMaxAge
  /\ MaxLag < Wait
  /\ "lateReopen" \notin FaultKinds

\* No mutation waits past its time, and they were issued in the order of their times.
DuesFit(q, t) ==
  /\ \A i \in 1..Len(q) : q[i].due \in Nat /\ t <= q[i].due /\ q[i].due <= t + MaxLag
  /\ \A i, j \in 1..Len(q) : i <= j => q[i].due <= q[j].due

\* What covers the lag: the memory, or the wait of a process that has run no cycle.
Covering(o, b, mem) == IF o.step = "starting" THEN [k \in Keys |-> [at |-> b]] ELSE mem

\* An alert waits to be re-opened once, is not active, and its key is covered.
ReopensFit(q, table, mem) ==
  \A i \in 1..Len(q) : q[i].kind = "reopen" =>
    /\ table[q[i].id].st # "active"
    /\ LET k == table[q[i].id].key IN mem[k] # NoRecent /\ q[i].due <= mem[k].at + MaxLag
    /\ \A j \in 1..Len(q) : q[j].kind = "reopen" /\ q[j].id = q[i].id => j = i

\* No re-open of the key waits.
NoneWaits(q, table, k) ==
  \A i \in 1..Len(q) : q[i].kind = "reopen" => table[q[i].id].key # k

\* A violation is looked up, and a new alert stored, when no re-open of the key waits; the
\* alert that is re-opened is one of the key and not active.
PlaceFits(o, q, table) ==
  /\ o.step \in {"lookup", "reopen", "insert"} => NoneWaits(q, table, o.k)
  /\ o.step = "reopen" => table[o.id].key = o.k /\ table[o.id].st # "active"

ReopenInv ==
  /\ DuesFit(queue, clock) /\ ReopensFit(queue, alerts, Covering(op, began, recent))
  /\ PlaceFits(op, queue, alerts)

\* What a mutation leaves as it was: the key, and an alert that is not active unless it is
\* re-opened.
LEMMA ApplyStatus ==
  ASSUME NEW m \in Mutation, NEW table \in [AlertIds -> Alert \cup {NoAlert}], NEW id \in AlertIds,
         table[id] # NoAlert
  PROVE  /\ Apply(m, table)[id].key = table[id].key
         /\ table[id].st # "active" /\ ~(m.kind = "reopen" /\ m.id = id)
              => Apply(m, table)[id].st # "active"
<1> DEFINE row == table[id]
           new == Apply(m, table)[id]
<1>1. new =
        CASE m.kind = "touch" /\ id = m.id -> [row EXCEPT !.seen = m.ts]
          [] m.kind = "reopen" /\ id = m.id -> Reopened(row, m)
          [] m.kind = "status" /\ id = m.id -> [row EXCEPT !.st = m.st]
          [] m.kind = "stale" /\ row.st = "active" ->
               IF row.seen < m.cut THEN [row EXCEPT !.st = "resolved"] ELSE row
          [] OTHER -> row
  BY DEF Apply
<1>2. row \in Alert
  OBVIOUS
<1> HIDE DEF row, new
<1>3. CASE m.kind = "touch" /\ id = m.id
  <2>1. new = [row EXCEPT !.seen = m.ts]
    BY <1>1, <1>3
  <2>2. new.key = row.key /\ new.st = row.st
    BY <1>2, <2>1 DEF Alert
  <2> QED
    BY <2>2 DEF row, new
<1>4. CASE m.kind = "reopen" /\ id = m.id
  <2>1. new = Reopened(row, m)
    BY <1>1, <1>4
  <2>2. new.key = row.key
    BY <1>2, <2>1 DEF Reopened, Alert
  <2> QED
    BY <1>4, <2>2 DEF row, new
<1>5. CASE m.kind = "status" /\ id = m.id
  <2>1. new = [row EXCEPT !.st = m.st]
    BY <1>1, <1>5
  <2>2. m.st \in Verdicts
    BY <1>5 DEF Mutation
  <2>3. m.st # "active"
    BY <2>2, EngineAssumption
  <2>4. new.key = row.key /\ new.st # "active"
    BY <1>2, <2>1, <2>3 DEF Alert
  <2> QED
    BY <2>4 DEF row, new
<1>6. CASE m.kind = "stale" /\ row.st = "active"
  <2>1. new = [row EXCEPT !.st = "resolved"] \/ new = row
    BY <1>1, <1>6
  <2>2. new.key = row.key
    BY <1>2, <2>1 DEF Alert
  <2> QED
    BY <1>6, <2>2 DEF row, new
<1>7. CASE /\ ~(m.kind = "touch" /\ id = m.id) /\ ~(m.kind = "reopen" /\ id = m.id)
           /\ ~(m.kind = "status" /\ id = m.id) /\ ~(m.kind = "stale" /\ row.st = "active")
  <2>1. new = row
    BY <1>1, <1>7
  <2> QED
    BY <2>1 DEF row, new
<1> QED
  BY <1>3, <1>4, <1>5, <1>6, <1>7

\* A mutation that is issued is the last one due.
LEMMA DuesAppended ==
  ASSUME NEW q \in Seq(Mutation), NEW t \in Nat, DuesFit(q, t), NEW m \in Mutation, m.due = t + MaxLag
  PROVE  DuesFit(Append(q, m), t)
<1> DEFINE n == Len(q)
           new == Append(q, m)
<1>1. n \in Nat /\ Len(new) = n + 1 /\ new[n + 1] = m /\ \A i \in 1..n : new[i] = q[i]
  OBVIOUS
<1>2. MaxLag \in Nat /\ t <= t + MaxLag /\ t + MaxLag \in Nat
  BY EngineAssumption
<1>3. \A i \in 1..n : q[i].due \in Nat /\ t <= q[i].due /\ q[i].due <= t + MaxLag
  BY DEF DuesFit
<1>4. \A i, j \in 1..n : i <= j => q[i].due <= q[j].due
  BY DEF DuesFit
<1> HIDE DEF n, new
<1>5. ASSUME NEW i \in 1..Len(new)
      PROVE  new[i].due \in Nat /\ t <= new[i].due /\ new[i].due <= t + MaxLag
  <2>1. i \in 1..n \/ i = n + 1
    BY <1>1
  <2> QED
    BY <1>1, <1>2, <1>3, <2>1
<1>6. ASSUME NEW i \in 1..Len(new), NEW j \in 1..Len(new), i <= j PROVE new[i].due <= new[j].due
  <2>1. CASE j = n + 1
    BY <1>1, <1>5, <2>1
  <2>2. CASE j # n + 1
    <3>1. i \in 1..n /\ j \in 1..n
      BY <1>1, <1>6, <2>2
    <3> QED
      BY <1>1, <1>4, <1>6, <3>1
  <2> QED
    BY <2>1, <2>2
<1> QED
  BY <1>5, <1>6 DEF DuesFit, new

\* Any other mutation does not matter to the re-opens.
LEMMA OtherAppended ==
  ASSUME NEW q \in Seq(Mutation), NEW m \in Mutation, m.kind # "reopen", NEW table, NEW mem,
         ReopensFit(q, table, mem)
  PROVE  /\ ReopensFit(Append(q, m), table, mem)
         /\ \A k : NoneWaits(q, table, k) => NoneWaits(Append(q, m), table, k)
<1> DEFINE new == Append(q, m)
<1>1. \A i \in 1..Len(new) : new[i].kind = "reopen" => i \in 1..Len(q) /\ new[i] = q[i]
  OBVIOUS
<1> HIDE DEF new
<1>2. ReopensFit(new, table, mem)
  BY <1>1 DEF ReopensFit
<1>3. \A k : NoneWaits(q, table, k) => NoneWaits(new, table, k)
  BY <1>1 DEF NoneWaits
<1> QED
  BY <1>2, <1>3 DEF new

\* A re-open of an alert that is not active, remembered, when none of its key waits.
LEMMA ReopenAppended ==
  ASSUME NEW q \in Seq(Mutation), NEW m \in Mutation, NEW table, NEW mem, ReopensFit(q, table, mem),
         table[m.id].st # "active", NoneWaits(q, table, table[m.id].key),
         mem[table[m.id].key] # NoRecent, m.due <= mem[table[m.id].key].at + MaxLag
  PROVE  ReopensFit(Append(q, m), table, mem)
<1> DEFINE n == Len(q)
           new == Append(q, m)
<1>1. n \in Nat /\ Len(new) = n + 1 /\ new[n + 1] = m /\ \A i \in 1..n : new[i] = q[i]
  OBVIOUS
<1> HIDE DEF new
<1>2. \A i \in 1..n : q[i].kind = "reopen" => q[i].id # m.id
  BY DEF NoneWaits
<1>3. ASSUME NEW i \in 1..Len(new), new[i].kind = "reopen"
      PROVE  /\ table[new[i].id].st # "active"
             /\ mem[table[new[i].id].key] # NoRecent /\ new[i].due <= mem[table[new[i].id].key].at + MaxLag
             /\ \A j \in 1..Len(new) : new[j].kind = "reopen" /\ new[j].id = new[i].id => j = i
  <2>1. CASE i = n + 1
    <3>1. ASSUME NEW j \in 1..Len(new), new[j].kind = "reopen", new[j].id = new[i].id PROVE j = i
      <4>1. j \in 1..n \/ j = n + 1
        BY <1>1
      <4> QED
        BY <1>1, <1>2, <2>1, <3>1, <4>1
    <3> QED
      BY <1>1, <2>1, <3>1
  <2>2. CASE i # n + 1
    <3>1. i \in 1..n /\ new[i] = q[i]
      BY <1>1, <2>2
    <3>2. ASSUME NEW j \in 1..Len(new), new[j].kind = "reopen", new[j].id = new[i].id PROVE j = i
      <4>1. j \in 1..n \/ j = n + 1
        BY <1>1
      <4>2. j # n + 1
        BY <1>1, <1>2, <1>3, <3>1, <3>2
      <4>3. j \in 1..n /\ q[j] = new[j]
        BY <1>1, <4>1, <4>2
      <4> QED
        BY <1>3, <3>1, <3>2, <4>3 DEF ReopensFit
    <3>3. table[q[i].id].st # "active"
      BY <1>3, <3>1 DEF ReopensFit
    <3>4. mem[table[q[i].id].key] # NoRecent /\ q[i].due <= mem[table[q[i].id].key].at + MaxLag
      BY <1>3, <3>1 DEF ReopensFit
    <3> QED
      BY <3>1, <3>2, <3>3, <3>4
  <2> QED
    BY <2>1, <2>2
<1> QED
  BY <1>3 DEF ReopensFit, new

\* The head of the queue is applied: what was behind it waits for the same alerts.
LEMMA HeadApplied ==
  ASSUME NEW q \in Seq(Mutation), q # <<>>, NEW table \in [AlertIds -> Alert \cup {NoAlert}],
         NEW mem, NEW t \in Nat,
         \A i \in 1..Len(q) : q[i].kind = "reopen" => q[i].id \in AlertIds /\ table[q[i].id] # NoAlert,
         DuesFit(q, t), ReopensFit(q, table, mem)
  PROVE  /\ DuesFit(Tail(q), t)
         /\ ReopensFit(Tail(q), Apply(Head(q), table), mem)
         /\ \A k : NoneWaits(q, table, k) => NoneWaits(Tail(q), Apply(Head(q), table), k)
<1> DEFINE m == Head(q)
           new == Tail(q)
           after == Apply(m, table)
<1>1. /\ Len(q) \in Nat \ {0} /\ Len(new) = Len(q) - 1 /\ m = q[1] /\ m \in Mutation
      /\ \A i \in 1..Len(new) : new[i] = q[i + 1]
  OBVIOUS
<1>2. ASSUME NEW id \in AlertIds, table[id] # NoAlert
      PROVE  /\ after[id].key = table[id].key
             /\ table[id].st # "active" /\ ~(m.kind = "reopen" /\ m.id = id) => after[id].st # "active"
  BY <1>1, <1>2, ApplyStatus
<1> HIDE DEF m, new, after
<1>3. \A i \in 1..Len(new) : i + 1 \in 1..Len(q) /\ 1 \in 1..Len(q) /\ i + 1 # 1
  BY <1>1
<1>4. DuesFit(new, t)
  <2>1. ASSUME NEW i \in 1..Len(new), NEW j \in 1..Len(new), i <= j PROVE new[i].due <= new[j].due
    <3>1. i + 1 <= j + 1
      BY <2>1
    <3> QED
      BY <1>1, <1>3, <3>1 DEF DuesFit
  <2>2. \A i \in 1..Len(new) : new[i].due \in Nat /\ t <= new[i].due /\ new[i].due <= t + MaxLag
    BY <1>1, <1>3 DEF DuesFit
  <2> QED
    BY <2>1, <2>2 DEF DuesFit
<1>5. ASSUME NEW i \in 1..Len(new), new[i].kind = "reopen"
      PROVE  /\ after[new[i].id].key = table[new[i].id].key
             /\ after[new[i].id].st # "active"
             /\ mem[table[new[i].id].key] # NoRecent /\ new[i].due <= mem[table[new[i].id].key].at + MaxLag
             /\ \A j \in 1..Len(new) : new[j].kind = "reopen" /\ new[j].id = new[i].id => j = i
  <2>1. new[i] = q[i + 1] /\ i + 1 \in 1..Len(q) /\ q[i + 1].kind = "reopen"
    BY <1>1, <1>3, <1>5
  <2>2. q[i + 1].id \in AlertIds /\ table[q[i + 1].id] # NoAlert
    BY <2>1
  <2>3. /\ table[q[i + 1].id].st # "active"
        /\ mem[table[q[i + 1].id].key] # NoRecent
        /\ q[i + 1].due <= mem[table[q[i + 1].id].key].at + MaxLag
    BY <2>1 DEF ReopensFit
  <2>4. ~(m.kind = "reopen" /\ m.id = q[i + 1].id)
    BY <1>1, <1>3, <2>1 DEF ReopensFit
  <2>5. ASSUME NEW j \in 1..Len(new), new[j].kind = "reopen", new[j].id = new[i].id PROVE j = i
    <3>1. j + 1 \in 1..Len(q) /\ new[j] = q[j + 1]
      BY <1>1, <1>3
    <3>2. j + 1 = i + 1
      BY <2>1, <2>5, <3>1 DEF ReopensFit
    <3> QED
      BY <3>2
  <2> QED
    BY <1>2, <2>1, <2>2, <2>3, <2>4, <2>5
<1>6. ReopensFit(new, after, mem)
  BY <1>5 DEF ReopensFit
<1>7. ASSUME NEW k, NoneWaits(q, table, k) PROVE NoneWaits(new, after, k)
  <2>1. ASSUME NEW i \in 1..Len(new), new[i].kind = "reopen" PROVE after[new[i].id].key # k
    <3>1. table[q[i + 1].id].key # k /\ new[i] = q[i + 1]
      BY <1>1, <1>3, <1>7, <2>1 DEF NoneWaits
    <3> QED
      BY <1>5, <2>1, <3>1
  <2> QED
    BY <2>1 DEF NoneWaits
<1> QED
  BY <1>4, <1>6, <1>7 DEF m, new, after

\* Another memory, that knows of every re-open that waits.
LEMMA MemoryKept ==
  ASSUME NEW q, NEW table, NEW mem, NEW new, ReopensFit(q, table, mem),
         \A i \in 1..Len(q) : q[i].kind = "reopen" =>
           LET k == table[q[i].id].key IN new[k] # NoRecent /\ q[i].due <= new[k].at + MaxLag
  PROVE  ReopensFit(q, table, new)
BY DEF ReopensFit

\* Another table, with the same alerts to be re-opened.
LEMMA TableKept ==
  ASSUME NEW q, NEW table, NEW mem, NEW new, ReopensFit(q, table, mem),
         \A i \in 1..Len(q) : q[i].kind = "reopen" => new[q[i].id] = table[q[i].id]
  PROVE  ReopensFit(q, new, mem) /\ \A k : NoneWaits(q, table, k) => NoneWaits(q, new, k)
<1>1. ReopensFit(q, new, mem)
  BY DEF ReopensFit
<1>2. \A k : NoneWaits(q, table, k) => NoneWaits(q, new, k)
  BY DEF NoneWaits
<1> QED
  BY <1>1, <1>2

\* Nothing is asked of a place where no violation is looked up or re-opens an alert.
LEMMA OtherPlace ==
  ASSUME NEW o, o.step \notin {"lookup", "reopen", "insert"}, NEW q, NEW table
  PROVE  PlaceFits(o, q, table)
BY DEF PlaceFits

\* Once its first cycle has begun, it is the memory that covers what waits.
LEMMA MemoryCovers ==
  ASSUME NEW o, o.step # "starting", NEW b, NEW mem
  PROVE  Covering(o, b, mem) = mem
BY DEF Covering

\* Where table, queue and clock stay and the engine forgets nothing that waits.
LEMMA SameQueue ==
  ASSUME ReopenInv, UNCHANGED <<alerts, queue, clock>>, PlaceFits(op', queue, alerts),
         \/ UNCHANGED recent /\ op.step # "starting" /\ op'.step # "starting"
         \/ ReopensFit(queue, alerts, Covering(op', began', recent'))
  PROVE  ReopenInv'
<1>1. ReopensFit(queue, alerts, Covering(op, began, recent)) /\ DuesFit(queue, clock)
  BY DEF ReopenInv
<1>2. ReopensFit(queue, alerts, Covering(op', began', recent'))
  BY <1>1, MemoryCovers
<1> QED
  BY <1>1, <1>2 DEF ReopenInv

\* Where a mutation that is no re-open is issued, or none.
LEMMA OtherIssued ==
  ASSUME TypeOK, ReopenInv, UNCHANGED <<alerts, clock, recent>>, NEW m \in Mutation, m.kind # "reopen",
         m.due = Due, queue' = Append(queue, m) \/ UNCHANGED queue, UNCHANGED began,
         \/ UNCHANGED op
         \/ op.step # "starting" /\ op'.step \notin {"starting", "lookup", "reopen", "insert"}
  PROVE  ReopenInv'
<1>1. queue \in Seq(Mutation) /\ clock \in Nat /\ m.due = clock + MaxLag
  BY ClockType DEF TypeOK, Due
<1> DEFINE cover == Covering(op, began, recent)
<1>2. DuesFit(queue, clock) /\ ReopensFit(queue, alerts, cover) /\ PlaceFits(op, queue, alerts)
  BY DEF ReopenInv
<1>c. Covering(op', began', recent') = cover
  BY MemoryCovers DEF Covering
<1> HIDE DEF cover
<1>3. CASE queue' = Append(queue, m)
  <2>1. DuesFit(Append(queue, m), clock)
    BY <1>1, <1>2, DuesAppended
  <2>2. /\ ReopensFit(Append(queue, m), alerts, cover)
        /\ \A k : NoneWaits(queue, alerts, k) => NoneWaits(Append(queue, m), alerts, k)
    BY <1>1, <1>2, OtherAppended
  <2>3. PlaceFits(op, Append(queue, m), alerts)
    BY <1>2, <2>2 DEF PlaceFits
  <2>4. PlaceFits(op', Append(queue, m), alerts)
    BY <2>3, OtherPlace
  <2> QED
    BY <1>3, <1>c, <2>1, <2>2, <2>4 DEF ReopenInv
<1>4. CASE UNCHANGED queue
  <2>1. PlaceFits(op', queue, alerts)
    BY <1>2, OtherPlace
  <2> QED
    BY <1>2, <1>4, <1>c, <2>1, SameQueue
<1> QED
  BY <1>3, <1>4

\* At first nothing waits.
LEMMA ReopenInitially == Init => ReopenInv
<1> SUFFICES ASSUME Init PROVE ReopenInv
  OBVIOUS
<1>1. Len(queue) = 0 /\ op.step = "starting"
  BY DEF Init, Starting
<1>2. DuesFit(queue, clock) /\ ReopensFit(queue, alerts, Covering(op, began, recent))
  BY <1>1 DEF DuesFit, ReopensFit
<1>3. PlaceFits(op, queue, alerts)
  BY <1>1, OtherPlace
<1> QED
  BY <1>2, <1>3 DEF ReopenInv

\* A violation that the memory does not cover finds no re-open of its key on its way.
LEMMA UntrustedIsSettled ==
  ASSUME MemoryCoversTheLag, TypeOK, QueueOfStored, ReopenInv, op.step # "starting",
         NEW k \in Keys, ~Trusted(k)
  PROVE  NoneWaits(queue, alerts, k)
<1> SUFFICES ASSUME NEW i \in 1..Len(queue), queue[i].kind = "reopen", alerts[queue[i].id].key = k
             PROVE  FALSE
  BY DEF NoneWaits
<1>1. recent[k] # NoRecent /\ queue[i].due <= recent[k].at + MaxLag
  BY MemoryCovers DEF ReopenInv, ReopensFit
<1>2. queue[i].due \in Nat /\ clock <= queue[i].due
  BY DEF ReopenInv, DuesFit
<1>3. clock \in Nat /\ recent[k].at \in Nat
  BY <1>1, ClockType DEF TypeOK
<1>4. MaxLag \in Nat /\ Trust \in Nat /\ MaxLag < Trust
  BY EngineAssumption DEF MemoryCoversTheLag
<1>5. ~(clock - recent[k].at < Trust)
  BY <1>1 DEF Trusted
<1> QED
  BY <1>1, <1>2, <1>3, <1>4, <1>5

\* What is forgotten with age is older than anything that waits.
LEMMA CleanupStep ==
  ASSUME MemoryCoversTheLag, TypeOK, QueueOfStored, ReopenInv, CleanupCooldown
  PROVE  ReopenInv'
<1>1. PICK mem : /\ mem = recent'
                 /\ mem = [k \in Keys |-> IF recent[k] # NoRecent /\ recent[k].at < clock - RecentMaxAge
                                          THEN NoRecent ELSE recent[k]]
  BY DEF CleanupCooldown
<1>0. UNCHANGED <<alerts, queue, clock, op, began>> /\ PlaceFits(op, queue, alerts)
  BY DEF CleanupCooldown, ReopenInv
<1>s. CASE op.step = "starting"
  <2>1. Covering(op', began', recent') = Covering(op, began, recent)
    BY <1>0, <1>s DEF Covering
  <2>2. ReopensFit(queue, alerts, Covering(op, began, recent))
    BY DEF ReopenInv
  <2> QED
    BY <1>0, <2>1, <2>2, SameQueue
<1>r. CASE op.step # "starting"
  <2>2. ASSUME NEW i \in 1..Len(queue), queue[i].kind = "reopen", NEW k, k = alerts[queue[i].id].key
        PROVE  mem[k] # NoRecent /\ queue[i].due <= mem[k].at + MaxLag
    <3>1. recent[k] # NoRecent /\ queue[i].due <= recent[k].at + MaxLag
      BY <1>r, <2>2, MemoryCovers DEF ReopenInv, ReopensFit
    <3>2. queue[i].due \in Nat /\ clock <= queue[i].due
      BY DEF ReopenInv, DuesFit
    <3>3. k \in Keys
      BY <2>2 DEF QueueOfStored, Stored, TypeOK, Alert
    <3>4. clock \in Nat /\ recent[k].at \in Nat
      BY <3>1, <3>3, ClockType DEF TypeOK
    <3>5. MaxLag \in Nat /\ RecentMaxAge \in Nat /\ Trust \in Nat /\ MaxLag < Trust /\ Trust <= RecentMaxAge
      BY EngineAssumption DEF MemoryCoversTheLag
    <3>6. ~(recent[k].at < clock - RecentMaxAge)
      BY <3>1, <3>2, <3>4, <3>5
    <3> QED
      BY <1>1, <3>1, <3>3, <3>6
  <2>3. ReopensFit(queue, alerts, recent)
    BY <1>r, MemoryCovers DEF ReopenInv
  <2>4. ReopensFit(queue, alerts, mem)
    BY <2>2, <2>3, MemoryKept
  <2> QED
    BY <1>0, <1>1, <1>r, <2>4, MemoryCovers, SameQueue
<1> QED
  BY <1>s, <1>r

\* The memory of a key is renewed.
LEMMA Renewed ==
  ASSUME TypeOK, QueueOfStored, ReopenInv, op.step # "starting", NEW k \in Keys, NEW id
  PROVE  ReopensFit(queue, alerts, [recent EXCEPT ![k] = [id |-> id, at |-> clock]])
<1> DEFINE mem == [recent EXCEPT ![k] = [id |-> id, at |-> clock]]
<1>1. mem[k] = [id |-> id, at |-> clock] /\ \A x \in Keys \ {k} : mem[x] = recent[x]
  BY DEF TypeOK
<1>2. [id |-> id, at |-> clock] # NoRecent /\ [id |-> id, at |-> clock].at = clock
  BY DEF NoRecent
<1> HIDE DEF mem
<1>3. ASSUME NEW i \in 1..Len(queue), queue[i].kind = "reopen", NEW x, x = alerts[queue[i].id].key
      PROVE  mem[x] # NoRecent /\ queue[i].due <= mem[x].at + MaxLag
  <2>1. recent[x] # NoRecent /\ queue[i].due <= recent[x].at + MaxLag
    BY <1>3, MemoryCovers DEF ReopenInv, ReopensFit
  <2>2. queue[i].due \in Nat /\ queue[i].due <= clock + MaxLag
    BY DEF ReopenInv, DuesFit
  <2>3. x \in Keys
    BY <1>3 DEF QueueOfStored, Stored, TypeOK, Alert
  <2> QED
    BY <1>1, <1>2, <2>1, <2>2, <2>3
<1>4. ReopensFit(queue, alerts, recent)
  BY MemoryCovers DEF ReopenInv
<1>5. ReopensFit(queue, alerts, mem)
  BY <1>3, <1>4, MemoryKept
<1> QED
  BY <1>5 DEF mem

\* The re-open that is issued is the only one of its key.
LEMMA ReopenStepKeeps ==
  ASSUME MemoryCoversTheLag, TypeOK, QueueOfStored, NowIsNow, ReopenInv, Reopen
  PROVE  ReopenInv'
<1> DEFINE m == [kind |-> "reopen", id |-> op.id, ts |-> op.now, v |-> op.v, due |-> Due]
<1>1. /\ queue \in Seq(Mutation) /\ clock \in Nat /\ op.id \in AlertIds /\ op.k \in Keys
      /\ op.now = clock /\ op.v \in Values /\ Due \in Nat /\ MaxLag \in Nat
  BY OpShape, ClockType, EngineAssumption DEF TypeOK, Reopen, NowIsNow
<1>2. m \in Mutation /\ m.kind = "reopen" /\ m.id = op.id /\ m.due = clock + MaxLag
  BY <1>1 DEF Mutation, Due
<1>3. /\ DuesFit(queue, clock)
      /\ NoneWaits(queue, alerts, op.k) /\ alerts[op.id].key = op.k /\ alerts[op.id].st # "active"
  BY DEF ReopenInv, PlaceFits, Reopen
<1>4. /\ op' = Handled /\ op'.step \notin {"starting", "lookup", "reopen", "insert"}
      /\ op.step = "reopen" /\ UNCHANGED <<alerts, clock>>
  BY DEF Reopen, Handled
<1>5. \/ queue' = Append(queue, m) /\ Remember(op.id)
      \/ UNCHANGED <<queue, recent>>
  BY DEF Reopen, Written, WriteFails, LateKind, Issue, Fault, MemoryCoversTheLag
<1> HIDE DEF m
<1>6. CASE queue' = Append(queue, m) /\ Remember(op.id)
  <2>1. PICK mem : mem = recent' /\ mem = [recent EXCEPT ![op.k] = [id |-> op.id, at |-> clock]]
    BY <1>1, <1>6 DEF Remember
  <2>2. ReopensFit(queue, alerts, mem)
    <3>1. ReopensFit(queue, alerts, [recent EXCEPT ![op.k] = [id |-> op.id, at |-> clock]])
      BY <1>1, <1>4, Renewed
    <3> QED
      BY <2>1, <3>1
  <2>3. mem[op.k] # NoRecent /\ m.due <= mem[op.k].at + MaxLag
    <3>1. mem[op.k] = [id |-> op.id, at |-> clock]
      BY <1>1, <2>1 DEF TypeOK
    <3>2. [id |-> op.id, at |-> clock] # NoRecent /\ [id |-> op.id, at |-> clock].at = clock
      BY DEF NoRecent
    <3> QED
      BY <1>1, <1>2, <3>1, <3>2
  <2>4. ReopensFit(Append(queue, m), alerts, mem)
    BY <1>1, <1>2, <1>3, <2>2, <2>3, ReopenAppended
  <2>5. DuesFit(Append(queue, m), clock)
    BY <1>1, <1>2, <1>3, DuesAppended
  <2>6. PlaceFits(op', Append(queue, m), alerts)
    BY <1>4, OtherPlace
  <2> QED
    BY <1>4, <1>6, <2>1, <2>4, <2>5, <2>6, MemoryCovers DEF ReopenInv
<1>7. CASE UNCHANGED <<queue, recent>>
  <2>1. PlaceFits(op', queue, alerts)
    BY <1>4, OtherPlace
  <2> QED
    BY <1>4, <1>7, <2>1, SameQueue
<1> QED
  BY <1>5, <1>6, <1>7

\* A new alert is not one that waits to be re-opened.
LEMMA InsertKeeps ==
  ASSUME MemoryCoversTheLag, TypeOK, QueueOfStored, NowIsNow, ReopenInv, Insert
  PROVE  ReopenInv'
<1>1. /\ op' = Handled /\ op'.step \notin {"starting", "lookup", "reopen", "insert"}
      /\ op.step = "insert" /\ UNCHANGED <<queue, clock>>
  BY DEF Insert, Handled
<1>2. op.k \in Keys /\ op.now = clock
  BY OpShape DEF TypeOK, Insert, NowIsNow
<1>3. DuesFit(queue, clock) /\ ReopensFit(queue, alerts, recent)
  BY <1>1, MemoryCovers DEF ReopenInv
<1>4. CASE UNCHANGED <<alerts, recent>>
  <2>1. PlaceFits(op', queue, alerts)
    BY <1>1, OtherPlace
  <2> QED
    BY <1>1, <1>4, <2>1, SameQueue
<1>5. ASSUME NEW id \in AlertIds \ Stored, Adds(id), Remember(id) \/ UNCHANGED recent PROVE ReopenInv'
  <2>1. PICK mem : /\ mem = recent'
                   /\ mem = [recent EXCEPT ![op.k] = [id |-> id, at |-> clock]] \/ mem = recent
    BY <1>2, <1>5 DEF Remember
  <2>2. ReopensFit(queue, alerts, mem)
    <3>1. ReopensFit(queue, alerts, [recent EXCEPT ![op.k] = [id |-> id, at |-> clock]])
      BY <1>1, <1>2, Renewed
    <3> QED
      BY <1>3, <2>1, <3>1
  <2>3. PICK table : table = alerts' /\ \A x \in AlertIds \ {id} : table[x] = alerts[x]
    BY <1>5 DEF Adds, TypeOK
  <2>4. \A i \in 1..Len(queue) : queue[i].kind = "reopen" => table[queue[i].id] = alerts[queue[i].id]
    BY <2>3 DEF QueueOfStored, Stored
  <2>5. ReopensFit(queue, table, mem)
    BY <2>2, <2>4, TableKept
  <2>6. PlaceFits(op', queue, table)
    BY <1>1, OtherPlace
  <2> QED
    BY <1>1, <1>3, <2>1, <2>3, <2>5, <2>6, MemoryCovers DEF ReopenInv
<1>6. \/ UNCHANGED <<alerts, recent>>
      \/ \E id \in AlertIds \ Stored : Adds(id) /\ (Remember(id) \/ UNCHANGED recent)
  BY DEF Insert, Adds
<1> QED
  BY <1>4, <1>5, <1>6

LEMMA ReopenStep == MemoryCoversTheLag /\ EngineInv /\ ReopenInv /\ [Next]_vars => ReopenInv'
<1> SUFFICES ASSUME MemoryCoversTheLag, EngineInv, ReopenInv, [Next]_vars PROVE ReopenInv'
  OBVIOUS
<1>0. TypeOK /\ QueueOfStored /\ NowIsNow /\ op \in {Starting, Idle} \cup Cycle
  BY DEF EngineInv, QueueInv, BookInv, TypeOK
<1>1. /\ DuesFit(queue, clock) /\ ReopensFit(queue, alerts, Covering(op, began, recent))
      /\ PlaceFits(op, queue, alerts)
  BY DEF ReopenInv
<1>2. clock \in Nat /\ Due \in Nat /\ queue \in Seq(Mutation) /\ alerts \in [AlertIds -> Alert \cup {NoAlert}]
  BY <1>0, ClockType DEF TypeOK
<1>3. \A i \in 1..Len(queue) :
        queue[i].kind = "reopen" => queue[i].id \in AlertIds /\ alerts[queue[i].id] # NoAlert
  BY <1>0 DEF QueueOfStored, Stored
<1>17. CASE CycleBegin
  <2>1. op'.step = "probe" /\ UNCHANGED <<alerts, queue, clock, recent>>
    BY <1>17 DEF CycleBegin
  <2>2. CASE op.step # "starting"
    BY <2>1, <2>2, OtherPlace, SameQueue
  \* What waited when the process before was gone has been applied.
  <2>3. CASE op.step = "starting"
    <3>1. clock >= began + Wait /\ began \in Nat
      BY <1>0, <1>17, <2>3 DEF CycleBegin, Idle, TypeOK
    <3>2. ASSUME NEW i \in 1..Len(queue), queue[i].kind = "reopen" PROVE FALSE
      <4> DEFINE k == alerts[queue[i].id].key
      <4>1. k \in Keys
        BY <1>2, <1>3, <3>2 DEF Alert
      <4>2. Covering(op, began, recent)[k].at = began
        BY <2>3, <4>1 DEF Covering
      <4>3. queue[i].due <= began + MaxLag
        BY <1>1, <3>2, <4>2 DEF ReopensFit
      <4>4. queue[i].due \in Nat /\ clock <= queue[i].due
        BY <1>1 DEF DuesFit
      <4>5. MaxLag \in Nat /\ Wait \in Nat /\ MaxLag < Wait
        BY EngineAssumption DEF MemoryCoversTheLag
      <4> QED
        BY <1>2, <3>1, <4>3, <4>4, <4>5
    <3>3. ReopensFit(queue, alerts, Covering(op', began', recent'))
      BY <3>2 DEF ReopensFit
    <3> QED
      BY <2>1, <3>3, OtherPlace, SameQueue
  <2> QED
    BY <2>2, <2>3
<1>4. CASE AutoResolveProbe \/ CycleEnd
  <2>1. /\ op.step # "starting" /\ op'.step \notin {"starting", "lookup", "reopen", "insert"}
        /\ UNCHANGED <<alerts, queue, clock, recent>>
    BY <1>4 DEF AutoResolveProbe, CycleEnd, Evaluate, Idle
  <2> QED
    BY <2>1, OtherPlace, SameQueue
<1>5. CASE AutoResolveMutate
  <2> DEFINE m == [kind |-> "stale", cut |-> op.cut, fresh |-> Firing(op.cut), due |-> Due]
  <2>1. op.cut \in Int /\ Firing(op.cut) \in SUBSET AlertIds
    BY <1>0, <1>5, OpShape DEF AutoResolveMutate, Firing, Stored
  <2>2. m \in Mutation /\ m.kind # "reopen" /\ m.due = Due
    BY <1>2, <2>1 DEF Mutation
  <2>3. /\ op.step # "starting" /\ op'.step \notin {"starting", "lookup", "reopen", "insert"}
        /\ UNCHANGED <<alerts, clock, recent, began>>
        /\ queue' = Append(queue, m) \/ UNCHANGED queue
    BY <1>5 DEF AutoResolveMutate, Evaluate, Written, WriteFails, Issue
  <2> HIDE DEF m
  <2> QED
    BY <1>0, <2>2, <2>3, OtherIssued
<1>6. ASSUME NEW k \in Keys, NEW v \in Values, Violation(k, v) PROVE ReopenInv'
  <2>1. op.step = "eval" /\ UNCHANGED <<alerts, queue, clock, recent>>
    BY <1>6 DEF Violation
  <2>2. CASE Trusted(k)
    <3>1. op'.step = "touch"
      BY <1>6, <2>2 DEF Violation, About
    <3> QED
      BY <2>1, <3>1, OtherPlace, SameQueue
  <2>3. CASE ~Trusted(k)
    <3>1. op'.step = "lookup" /\ op'.k = k
      BY <1>6, <2>3 DEF Violation
    <3>2. NoneWaits(queue, alerts, k)
      BY <1>0, <2>1, <2>3, UntrustedIsSettled
    <3>3. PlaceFits(op', queue, alerts)
      BY <3>1, <3>2 DEF PlaceFits
    <3> QED
      BY <2>1, <3>1, <3>3, SameQueue
  <2> QED
    BY <2>2, <2>3
<1>7. CASE Lookup
  <2>0. /\ op.step = "lookup" /\ UNCHANGED <<alerts, queue, clock, recent>>
        /\ NoneWaits(queue, alerts, op.k)
        /\ op \in [step: {"lookup", "insert"}, todo: SUBSET Keys, k: Keys, v: Values, now: Nat]
    BY <1>0, <1>1, <1>7, OpShape DEF Lookup, PlaceFits
  <2>1. InsertStep.step = "insert" /\ InsertStep.k = op.k /\ Handled.step = "eval"
    BY <2>0 DEF InsertStep, Handled
  <2>2. CASE op' = InsertStep \/ op' = Handled
    <3>1. PlaceFits(op', queue, alerts) /\ op'.step # "starting"
      BY <2>0, <2>1, <2>2 DEF PlaceFits
    <3> QED
      BY <2>0, <3>1, SameQueue
  <2>3. ASSUME NEW id \in Latest(op.k), op' = Decide(id) PROVE ReopenInv'
    <3>1. CASE op' = InsertStep
      BY <2>2, <3>1
    <3>2. CASE op' = About(op, "touch", id)
      <4>1. op'.step = "touch"
        BY <3>2 DEF About
      <4> QED
        BY <2>0, <4>1, OtherPlace, SameQueue
    <3>3. CASE op' = About(op, "reopen", id) /\ alerts[id].st = "resolved"
      <4>1. op'.step = "reopen" /\ op'.k = op.k /\ op'.id = id
        BY <3>3 DEF About
      <4>2. alerts[id].key = op.k
        BY DEF Latest
      <4>3. PlaceFits(op', queue, alerts)
        BY <2>0, <3>3, <4>1, <4>2 DEF PlaceFits
      <4> QED
        BY <2>0, <4>1, <4>3, SameQueue
    <3> QED
      BY <2>3, <3>1, <3>2, <3>3 DEF Decide
  <2> QED
    BY <1>7, <2>2, <2>3 DEF Lookup
<1>8. CASE Touch
  <2> DEFINE m == [kind |-> "touch", id |-> op.id, ts |-> op.now, due |-> Due]
  <2>1. op.id \in AlertIds /\ op.now \in Nat
    BY <1>0, <1>8, OpShape DEF Touch
  <2>2. m \in Mutation /\ m.kind # "reopen" /\ m.due = Due
    BY <1>2, <2>1 DEF Mutation
  <2>3. /\ op' = Handled /\ op.step = "touch" /\ UNCHANGED <<alerts, clock, recent, began>>
        /\ queue' = Append(queue, m) \/ UNCHANGED queue
    BY <1>8 DEF Touch, Written, WriteFails, Issue
  <2>4. op'.step \notin {"starting", "lookup", "reopen", "insert"}
    BY <2>3 DEF Handled
  <2> HIDE DEF m
  <2> QED
    BY <1>0, <2>2, <2>3, <2>4, OtherIssued
<1>9. CASE Reopen
  BY <1>0, <1>9, ReopenStepKeeps
<1>10. CASE Insert
  BY <1>0, <1>10, InsertKeeps
<1>11. CASE CleanupCooldown
  BY <1>0, <1>11, CleanupStep
<1>12. CASE Crash
  <2>1. op' = Starting /\ began' = clock /\ UNCHANGED <<alerts, queue, clock>>
    BY <1>12 DEF Crash
  <2>2. ASSUME NEW i \in 1..Len(queue), queue[i].kind = "reopen"
        PROVE  LET k == alerts[queue[i].id].key
               IN /\ Covering(op', began', recent')[k] # NoRecent
                  /\ queue[i].due <= Covering(op', began', recent')[k].at + MaxLag
    <3> DEFINE k == alerts[queue[i].id].key
    <3>1. k \in Keys
      BY <1>2, <1>3, <2>2 DEF Alert
    <3>2. Covering(op', began', recent')[k] = [at |-> clock]
      BY <2>1, <3>1 DEF Covering, Starting
    <3>3. [at |-> clock] # NoRecent /\ [at |-> clock].at = clock
      BY <1>2 DEF NoRecent, Never
    <3>4. queue[i].due <= clock + MaxLag
      BY <1>1 DEF DuesFit
    <3> QED
      BY <3>2, <3>3, <3>4
  <2>3. ReopensFit(queue, alerts, Covering(op', began', recent'))
    BY <1>1, <2>2 DEF ReopensFit
  <2>4. PlaceFits(op', queue, alerts)
    BY <2>1, OtherPlace DEF Starting
  <2> QED
    BY <2>1, <2>3, <2>4, SameQueue
<1>13. CASE Tick
  <2>1. /\ op'.step \notin {"lookup", "reopen", "insert"}
        /\ UNCHANGED <<alerts, queue, recent, op, began>> /\ clock' = clock + 1
    BY <1>13 DEF Tick, Starting
  <2>2. ASSUME NEW i \in 1..Len(queue)
        PROVE  queue[i].due \in Nat /\ clock + 1 <= queue[i].due /\ queue[i].due <= clock + 1 + MaxLag
    <3>1. Len(queue) \in Nat /\ 1 \in 1..Len(queue) /\ 1 <= i /\ queue # <<>> /\ Head(queue) = queue[1]
      BY <1>2
    <3>2. clock < queue[1].due
      BY <1>13, <3>1 DEF Tick
    <3>3. queue[1].due <= queue[i].due
      BY <1>1, <3>1 DEF DuesFit
    <3>4. queue[i].due \in Nat /\ queue[i].due <= clock + MaxLag /\ queue[1].due \in Nat /\ MaxLag \in Nat
      BY <1>1, <3>1, EngineAssumption DEF DuesFit
    <3> QED
      BY <1>2, <3>2, <3>3, <3>4
  <2>3. DuesFit(queue, clock + 1)
    BY <1>1, <2>2 DEF DuesFit
  <2>4. PlaceFits(op', queue, alerts)
    BY <2>1, OtherPlace
  <2> QED
    BY <1>1, <2>1, <2>3, <2>4 DEF ReopenInv
<1>14. ASSUME NEW id \in Stored, NEW st \in Verdicts, Verdict(id, st) PROVE ReopenInv'
  <2> DEFINE m == [kind |-> "status", id |-> id, st |-> st, due |-> Due]
  <2>1. m \in Mutation /\ m.kind # "reopen" /\ m.due = Due
    BY <1>2 DEF Mutation, Stored
  <2>2. queue' = Append(queue, m) /\ UNCHANGED <<alerts, clock, recent, op, began>>
    BY <1>14 DEF Verdict, Issue
  <2> HIDE DEF m
  <2> QED
    BY <1>0, <2>1, <2>2, OtherIssued
<1>15. CASE ApplyMutation
  <2>1. PICK table : table = alerts' /\ table = Apply(Head(queue), alerts)
    BY <1>15 DEF ApplyMutation
  <2>2. queue # <<>> /\ queue' = Tail(queue) /\ UNCHANGED <<recent, op, began, clock>>
    BY <1>15 DEF ApplyMutation
  <2>3. /\ DuesFit(Tail(queue), clock)
        /\ ReopensFit(Tail(queue), table, Covering(op, began, recent))
        /\ \A k : NoneWaits(queue, alerts, k) => NoneWaits(Tail(queue), table, k)
    BY <1>1, <1>2, <1>3, <2>1, <2>2, HeadApplied
  <2>4. op.step = "reopen" => table[op.id].key = op.k /\ table[op.id].st # "active"
    <3> SUFFICES ASSUME op.step = "reopen" PROVE table[op.id].key = op.k /\ table[op.id].st # "active"
      OBVIOUS
    <3>1. op.id \in AlertIds /\ alerts[op.id].key = op.k /\ alerts[op.id].st # "active"
      BY <1>0, <1>1, OpShape DEF PlaceFits
    <3>2. alerts[op.id] # NoAlert
      BY DEF EngineInv, BookInv, BookOfStored, Stored
    <3>3. Head(queue) = queue[1] /\ queue[1] \in Mutation /\ 1 \in 1..Len(queue)
      BY <1>2, <2>2
    <3>4. ~(queue[1].kind = "reopen" /\ queue[1].id = op.id)
      BY <1>1, <3>1, <3>3 DEF PlaceFits, NoneWaits
    <3> QED
      BY <1>2, <2>1, <3>1, <3>2, <3>3, <3>4, ApplyStatus
  <2>5. PlaceFits(op, Tail(queue), table)
    BY <1>1, <2>3, <2>4 DEF PlaceFits
  <2> QED
    BY <2>1, <2>2, <2>3, <2>5 DEF ReopenInv
<1>16. CASE UNCHANGED vars
  <2>1. Covering(op', began', recent') = Covering(op, began, recent)
    BY <1>16 DEF vars, Covering
  <2>2. UNCHANGED <<alerts, queue, clock, op>>
    BY <1>16 DEF vars
  <2> QED
    BY <1>1, <2>1, <2>2, SameQueue
<1> QED
  BY <1>4, <1>5, <1>6, <1>7, <1>8, <1>9, <1>10, <1>11, <1>12, <1>13, <1>14, <1>15, <1>16,
     <1>17 DEF Next, CycleStep

(***************************************************************************)
(* A re-open never finds its alert active, whatever the throttle, restarts *)
(* of the collector, acknowledgements and resolutions and the other        *)
(* failures of reads and writes do (reopen, recentTrust).  The hypothesis  *)
(* is that no mutation is queued as long as recentTrust or as the first    *)
(* wait of Run, and that no re-open reported as failed was done.           *)
(***************************************************************************)
THEOREM ReopensComeOnce == MemoryCoversTheLag /\ Spec => []ReopensTheResolved
<1>1. MemoryCoversTheLag /\ Init => MemoryCoversTheLag /\ EngineInv /\ ReopenInv
  BY EngineInit, ReopenInitially
<1>2. /\ MemoryCoversTheLag /\ EngineInv /\ ReopenInv /\ [Next]_vars
      => MemoryCoversTheLag' /\ EngineInv' /\ ReopenInv'
  <2>1. MemoryCoversTheLag => MemoryCoversTheLag'
    BY DEF MemoryCoversTheLag
  <2> QED
    BY <2>1, EngineStep, ReopenStep
<1>3. EngineInv /\ ReopenInv => ReopensTheResolved
  <2> SUFFICES ASSUME EngineInv, ReopenInv, queue # <<>>, Head(queue).kind = "reopen"
               PROVE  alerts[Head(queue).id].st # "active"
    BY DEF ReopensTheResolved
  <2>1. Head(queue) = queue[1] /\ 1 \in 1..Len(queue)
    BY DEF EngineInv, TypeOK
  <2> QED
    BY <2>1 DEF ReopenInv, ReopensFit
<1> QED
  BY <1>1, <1>2, <1>3, PTL DEF Spec

-----------------------------------------------------------------------------
(* The invariant about incidents. *)

\* What one failure may add to the time until a stale alert is resolved.
Outage == MaxGap + Wait + MaxDown

\* The conditions of the other two: besides, no write reported as failed was done, and the
\* re-arm window is longer than the trust and the lag, and than it takes until a stale alert
\* is resolved when all failures and restarts come at once.
RearmCoversTheRest ==
  /\ MemoryCoversTheLag /\ "late" \notin FaultKinds
  /\ MaxLag <= Stale
  /\ Trust + MaxLag < Rearm
  /\ Stale + MaxLag + MaxLag + MaxGap + Outage * MaxFaults < Rearm

IsStored(table, id) == id \in AlertIds /\ table[id] # NoAlert

\* What failures so far may have added to the life of a stale alert.
Missed(f) == Outage * (MaxFaults - f)

\* Every mutation was issued MaxLag before it is due.
IssuedInTime(q) ==
  \A i \in 1..Len(q) :
    /\ q[i].kind \in {"touch", "reopen"} => q[i].due = q[i].ts + MaxLag
    /\ q[i].kind = "stale" => q[i].due = q[i].cut + Stale + MaxLag

\* A mutation on its way resolves an alert seen then, and comes not much later than it should.
Pursued(q, seen, late) ==
  \E i \in 1..Len(q) : q[i].kind = "stale" /\ seen < q[i].cut /\ q[i].cut <= seen + MaxGap + late

\* Active alerts have been seen since, or are pursued.
StaleArePursued(table, q, since, late) ==
  \A id \in AlertIds : table[id] # NoAlert /\ table[id].st = "active" =>
    table[id].seen >= since \/ Pursued(q, table[id].seen, late)

\* Since when: before the first cycle of a process, before and after the probe of a cycle.
Since(o, b, late) ==
  IF o.step = "starting" THEN b + Wait + MaxDown - Stale - late - MaxGap
  ELSE IF o.step \in {"probe", "resolve"} THEN b - Stale - late - MaxGap
  ELSE b - Stale - late

\* Cycles begin in time, and resolve at once what was stale when they began.
CycleFits(o, b, t) ==
  /\ b <= t /\ t <= b + (IF o.step = "starting" THEN Wait + MaxDown ELSE MaxGap)
  /\ o.step \in {"probe", "resolve"} => t = b
  /\ o.step = "resolve" => o.cut = t - Stale

\* No heartbeat waits before the first cycle of the first process.
StartFits(o, q, f) ==
  o.step = "starting" => f < MaxFaults \/ \A i \in 1..Len(q) : q[i].kind \notin {"touch", "reopen"}

ChaseInv ==
  /\ IssuedInTime(queue) /\ CycleFits(op, began, clock) /\ StartFits(op, queue, faults)
  /\ StaleArePursued(alerts, queue, Since(op, began, Missed(faults)), Missed(faults))

\* The alert of a key that was triggered last.
IsNewest(table, k, id) ==
  /\ IsStored(table, id) /\ table[id].key = k
  /\ \A x \in AlertIds : IsStored(table, x) /\ table[x].key = k => table[x].at <= table[id].at

\* Alerts of a key are triggered one after the other; one of just now is covered.
TriggersFit(table, mem, t) ==
  \A x \in AlertIds : IsStored(table, x) =>
    /\ table[x].at <= t
    /\ table[x].at = t => mem[table[x].key] # NoRecent /\ mem[table[x].key].at = t
    /\ \A y \in AlertIds :
         IsStored(table, y) /\ table[y].key = table[x].key /\ table[y].at = table[x].at => y = x

ReopenWaits(q, id, ts) == \E j \in 1..Len(q) : q[j].kind = "reopen" /\ q[j].id = id /\ q[j].ts >= ts
NoBeatWaits(q, id) == \A i \in 1..Len(q) : ~Beat(q[i], id)

\* What is remembered is the newest alert of its key, seen then once its re-open is applied.
MemoryFits(table, q, mem) ==
  \A k \in Keys : mem[k] # NoRecent =>
    /\ IsNewest(table, k, mem[k].id)
    /\ table[mem[k].id].seen >= mem[k].at \/ ReopenWaits(q, mem[k].id, mem[k].at)

\* The heartbeat of an active alert is for one seen well within the re-arm window; what
\* waits is recorded.
Held(table, q, id, ts) ==
  table[id].st # "active" \/ table[id].seen > ts - Rearm + MaxLag \/ ReopenWaits(q, id, 0)
HeartbeatsFit(table, q, at) ==
  \A i \in 1..Len(q) : q[i].kind = "touch" => Held(table, q, q[i].id, q[i].ts) /\ at[q[i].id] >= q[i].ts

\* An alert that is not the newest is not active or stale, for good.
Finished(row, q, id, t) ==
  \/ row.st # "active" /\ \A i \in 1..Len(q) : q[i].kind = "reopen" => q[i].id # id
  \/ row.seen < t - Stale /\ NoBeatWaits(q, id)
OlderAreFinished(table, q, t) ==
  \A x, y \in AlertIds :
    IsStored(table, x) /\ IsStored(table, y) /\ table[x].key = table[y].key /\ table[x].at < table[y].at
      => Finished(table[x], q, x, t)

\* Why the newest alert makes room for a new one.
MakesRoom(o, table, q, at, id) ==
  \/ at[id] <= o.now - Rearm + Window /\ table[id].seen <= o.now - Rearm /\ NoBeatWaits(q, id)
  \/ /\ table[id].st # "active"
     /\ (o.v >= 2 * table[id].peak /\ table[id].peak > 0) \/ o.now - at[id] <= MaxLag

\* What is about to happen to the newest alert of a key.
IncidentFits(o, table, q, at, t) ==
  /\ o.step \in {"lookup", "insert"} =>
       \A x \in AlertIds : IsStored(table, x) /\ table[x].key = o.k => table[x].at < t
  /\ o.step \in {"touch", "reopen"} => IsNewest(table, o.k, o.id)
  /\ o.step = "touch" => Held(table, q, o.id, o.now)
  /\ o.step = "insert" =>
       \A x \in AlertIds : IsNewest(table, o.k, x) => MakesRoom(o, table, q, at, x)

IncidentInv ==
  /\ TriggersFit(alerts, Covering(op, began, recent), clock) /\ MemoryFits(alerts, queue, recent)
  /\ HeartbeatsFit(alerts, queue, seenAt) /\ OlderAreFinished(alerts, queue, clock)
  /\ \A x \in AlertIds : IsStored(alerts, x) => seenAt[x] # Never
  /\ IncidentFits(op, alerts, queue, seenAt, clock)

-----------------------------------------------------------------------------
(* Stale alerts are pursued until they are resolved. *)

\* The parts of a row after a mutation.
LEMMA ApplyParts ==
  ASSUME NEW m \in Mutation, NEW table \in [AlertIds -> Alert \cup {NoAlert}], NEW id \in AlertIds,
         table[id] # NoAlert, NEW new, new = Apply(m, table)[id]
  PROVE  /\ new.key = table[id].key /\ new.at = table[id].at
         /\ new.seen = IF Beat(m, id) THEN m.ts ELSE table[id].seen
         /\ m.kind = "reopen" /\ m.id = id => new.st = "active"
         /\ ~(m.kind = "reopen" /\ m.id = id) =>
              (new.st = "active" => table[id].st = "active") /\ new.peak = table[id].peak
         /\ m.kind = "stale" /\ table[id].st = "active" /\ table[id].seen < m.cut => new.st = "resolved"
<1> DEFINE row == table[id]
<1>1. new =
        CASE m.kind = "touch" /\ id = m.id -> [row EXCEPT !.seen = m.ts]
          [] m.kind = "reopen" /\ id = m.id -> Reopened(row, m)
          [] m.kind = "status" /\ id = m.id -> [row EXCEPT !.st = m.st]
          [] m.kind = "stale" /\ row.st = "active" ->
               IF row.seen < m.cut THEN [row EXCEPT !.st = "resolved"] ELSE row
          [] OTHER -> row
  BY DEF Apply
<1>2. row \in Alert
  OBVIOUS
<1>0. m.kind \in {"touch", "reopen", "stale", "status"}
  BY MutationShape
<1> HIDE DEF row
<1>3. CASE m.kind = "touch" /\ id = m.id
  <2>1. new = [row EXCEPT !.seen = m.ts]
    BY <1>1, <1>3
  <2>2. new.key = row.key /\ new.at = row.at /\ new.st = row.st /\ new.peak = row.peak /\ new.seen = m.ts
    BY <1>2, <2>1 DEF Alert
  <2> QED
    BY <1>3, <2>2 DEF row, Beat
<1>4. CASE m.kind = "reopen" /\ id = m.id
  <2>1. new = [row EXCEPT !.st = "active", !.seen = m.ts, !.peak = Larger(@, m.v)]
    BY <1>1, <1>4 DEF Reopened
  <2>2. new.key = row.key /\ new.at = row.at /\ new.st = "active" /\ new.seen = m.ts
    BY <1>2, <2>1 DEF Alert
  <2> QED
    BY <1>4, <2>2 DEF row, Beat
<1>5. CASE m.kind = "status" /\ id = m.id
  <2>1. new = [row EXCEPT !.st = m.st]
    BY <1>1, <1>5
  <2>2. m.st \in Verdicts
    BY <1>5 DEF Mutation
  <2>3. m.st # "active"
    BY <2>2, EngineAssumption
  <2>4. /\ new.key = row.key /\ new.at = row.at /\ new.st # "active"
        /\ new.peak = row.peak /\ new.seen = row.seen
    BY <1>2, <2>1, <2>3 DEF Alert
  <2> QED
    BY <1>5, <2>4 DEF row, Beat
<1>6. CASE m.kind = "stale" /\ row.st = "active"
  <2>1. CASE row.seen < m.cut
    <3>1. new = [row EXCEPT !.st = "resolved"]
      BY <1>1, <1>6, <2>1
    <3>2. /\ new.key = row.key /\ new.at = row.at /\ new.st = "resolved"
          /\ new.peak = row.peak /\ new.seen = row.seen
      BY <1>2, <3>1 DEF Alert
    <3> QED
      BY <1>6, <3>2 DEF row, Beat
  <2>2. CASE ~(row.seen < m.cut)
    <3>1. new = row
      BY <1>1, <1>6, <2>2
    <3> QED
      BY <1>6, <2>2, <3>1 DEF row, Beat
  <2> QED
    BY <2>1, <2>2
<1>7. CASE /\ ~(m.kind = "touch" /\ id = m.id) /\ ~(m.kind = "reopen" /\ id = m.id)
           /\ ~(m.kind = "status" /\ id = m.id) /\ ~(m.kind = "stale" /\ row.st = "active")
  <2>1. new = row
    BY <1>1, <1>7
  <2> QED
    BY <1>7, <2>1 DEF row, Beat
<1> QED
  BY <1>3, <1>4, <1>5, <1>6, <1>7

\* Failures add up.
LEMMA MissedGrows ==
  ASSUME NEW f \in 0..MaxFaults, NEW g \in 0..MaxFaults, g = f \/ g = f - 1
  PROVE  /\ Missed(f) \in Nat /\ Missed(g) \in Nat /\ Missed(g) >= Missed(f)
         /\ g = f - 1 => Missed(g) = Missed(f) + Outage
         /\ Missed(f) <= Outage * MaxFaults /\ Outage * MaxFaults \in Nat
<1>1. Outage \in Nat /\ MaxFaults \in Nat
  BY EngineAssumption DEF Outage
<1>2. ASSUME NEW a \in Nat PROVE Outage * a \in Nat /\ Outage * (a + 1) = Outage * a + Outage
  BY <1>1
<1>3. \A a \in Nat, b \in Nat : Outage * (a + b) = Outage * a + Outage * b
  BY <1>1
<1> DEFINE a == MaxFaults - f
<1>4. a \in Nat /\ f \in Nat /\ MaxFaults = a + f
  BY <1>1
<1>5. Missed(f) = Outage * a
  BY DEF Missed
<1>6. Outage * MaxFaults = Outage * a + Outage * f /\ Outage * a \in Nat /\ Outage * f \in Nat
  BY <1>2, <1>3, <1>4
<1>7. g = f - 1 => Missed(g) = Missed(f) + Outage
  <2> SUFFICES ASSUME g = f - 1 PROVE Missed(g) = Missed(f) + Outage
    OBVIOUS
  <2>1. MaxFaults - g = a + 1
    BY <1>1
  <2> QED
    BY <1>2, <1>4, <1>5, <2>1 DEF Missed
<1> HIDE DEF a
<1> QED
  BY <1>1, <1>5, <1>6, <1>7

\* What pursues an alert goes on when more mutations follow, and when more failures are counted.
LEMMA PursuedStill ==
  ASSUME NEW q \in Seq(Mutation), NEW seen \in Int, NEW late \in Nat, NEW more \in Nat, late <= more,
         NEW new \in Seq(Mutation), Len(new) >= Len(q), \A i \in 1..Len(q) : new[i] = q[i],
         Pursued(q, seen, late)
  PROVE  Pursued(new, seen, more)
<1>1. PICK i \in 1..Len(q) : q[i].kind = "stale" /\ seen < q[i].cut /\ q[i].cut <= seen + MaxGap + late
  BY DEF Pursued
<1>2. q[i].cut \in Int /\ MaxGap \in Nat
  <2>1. q[i] \in Mutation
    OBVIOUS
  <2> QED
    BY <1>1, <2>1, MutationShape, EngineAssumption
<1>3. i \in 1..Len(new) /\ new[i] = q[i]
  OBVIOUS
<1>4. q[i].cut <= seen + MaxGap + more
  BY <1>1, <1>2
<1> QED
  BY <1>1, <1>3, <1>4 DEF Pursued

\* A lower bound, a longer queue, more failures.
LEMMA PursuitKept ==
  ASSUME NEW table \in [AlertIds -> Alert \cup {NoAlert}], NEW q \in Seq(Mutation), NEW since \in Int,
         NEW late \in Nat, StaleArePursued(table, q, since, late),
         NEW new \in Seq(Mutation), Len(new) >= Len(q), \A i \in 1..Len(q) : new[i] = q[i],
         NEW before \in Int, before <= since, NEW more \in Nat, late <= more
  PROVE  StaleArePursued(table, new, before, more)
<1>1. ASSUME NEW id \in AlertIds, table[id] # NoAlert, table[id].st = "active"
      PROVE  table[id].seen >= before \/ Pursued(new, table[id].seen, more)
  <2>1. table[id].seen >= since \/ Pursued(q, table[id].seen, late)
    BY <1>1 DEF StaleArePursued
  <2>2. table[id].seen \in Int
    BY <1>1 DEF Alert
  <2>3. CASE table[id].seen >= since
    BY <2>1, <2>2, <2>3
  <2>4. CASE Pursued(q, table[id].seen, late)
    BY <2>1, <2>2, <2>4, PursuedStill
  <2> QED
    BY <2>1, <2>3, <2>4
<1> QED
  BY <1>1 DEF StaleArePursued

\* The probe found nothing stale, or the mutation that resolves what it found is issued.
LEMMA StaleIssued ==
  ASSUME NEW table \in [AlertIds -> Alert \cup {NoAlert}], NEW q \in Seq(Mutation), NEW m \in Mutation,
         m.kind = "stale", NEW late \in Nat, StaleArePursued(table, q, m.cut - late - MaxGap, late)
  PROVE  StaleArePursued(table, Append(q, m), m.cut - late, late)
<1> DEFINE new == Append(q, m)
<1>1. /\ new \in Seq(Mutation) /\ Len(q) \in Nat /\ Len(new) = Len(q) + 1 /\ new[Len(q) + 1] = m
      /\ \A i \in 1..Len(q) : new[i] = q[i]
  OBVIOUS
<1>2. m.cut \in Int /\ MaxGap \in Nat
  BY MutationShape, EngineAssumption
<1> HIDE DEF new
<1>3. ASSUME NEW id \in AlertIds, table[id] # NoAlert, table[id].st = "active"
      PROVE  table[id].seen >= m.cut - late \/ Pursued(new, table[id].seen, late)
  <2>1. table[id].seen >= m.cut - late - MaxGap \/ Pursued(q, table[id].seen, late)
    BY <1>3 DEF StaleArePursued
  <2>2. table[id].seen \in Int
    BY <1>3 DEF Alert
  <2>3. CASE Pursued(q, table[id].seen, late)
    <3>1. Len(new) >= Len(q) /\ late <= late
      BY <1>1
    <3> QED
      BY <1>1, <2>1, <2>2, <2>3, <3>1, PursuedStill
  <2>4. CASE table[id].seen >= m.cut - late - MaxGap /\ table[id].seen < m.cut - late
    <3>1. table[id].seen < m.cut /\ m.cut <= table[id].seen + MaxGap + late
      BY <1>2, <2>2, <2>4
    <3>2. Len(q) + 1 \in 1..Len(new)
      BY <1>1
    <3>3. Pursued(new, table[id].seen, late)
      BY <1>1, <3>1, <3>2 DEF Pursued
    <3> QED
      BY <2>1, <3>3
  <2>5. table[id].seen >= m.cut - late \/ table[id].seen < m.cut - late
    BY <1>2, <2>2
  <2> QED
    BY <2>1, <2>3, <2>4, <2>5
<1>4. StaleArePursued(table, new, m.cut - late, late)
  BY <1>3 DEF StaleArePursued
<1> QED
  BY <1>4 DEF new

\* A mutation is applied: what it was to resolve it resolves, and a heartbeat is not old.
LEMMA PursuitApplied ==
  ASSUME NEW table \in [AlertIds -> Alert \cup {NoAlert}], NEW q \in Seq(Mutation), q # <<>>,
         NEW since \in Int, NEW late \in Nat,
         StaleArePursued(table, q, since, late),
         \A id \in AlertIds : table[id] = NoAlert =>
            ~(Head(q).kind \in {"touch", "reopen", "status"} /\ Head(q).id = id),
         Head(q).kind \in {"touch", "reopen"} => Head(q).ts >= since
  PROVE  StaleArePursued(Apply(Head(q), table), Tail(q), since, late)
<1> DEFINE m == Head(q)
           rest == Tail(q)
           after == Apply(m, table)
<1>1. /\ Len(q) \in Nat \ {0} /\ Len(rest) = Len(q) - 1 /\ m = q[1] /\ m \in Mutation
      /\ \A i \in 1..Len(rest) : rest[i] = q[i + 1]
  OBVIOUS
<1>2. ASSUME NEW id \in AlertIds, table[id] = NoAlert PROVE after[id] = NoAlert
  BY <1>1, <1>2, ApplyRow
<1>3. ASSUME NEW id \in AlertIds, table[id] # NoAlert
      PROVE  /\ after[id].seen = IF Beat(m, id) THEN m.ts ELSE table[id].seen
             /\ ~(m.kind = "reopen" /\ m.id = id) /\ after[id].st = "active" => table[id].st = "active"
             /\ m.kind = "stale" /\ table[id].st = "active" /\ table[id].seen < m.cut
                  => after[id].st = "resolved"
  BY <1>1, <1>3, ApplyParts
<1>4. m.kind \in {"touch", "reopen"} => m.ts >= since
  OBVIOUS
<1> HIDE DEF m, rest, after
<1>5. ASSUME NEW id \in AlertIds, after[id] # NoAlert, after[id].st = "active"
      PROVE  after[id].seen >= since \/ Pursued(rest, after[id].seen, late)
  <2>0. table[id] # NoAlert
    BY <1>2, <1>5
  <2>2. CASE Beat(m, id)
    <3>1. after[id].seen = m.ts /\ m.ts >= since
      BY <1>3, <1>4, <2>0, <2>2 DEF Beat
    <3> QED
      BY <3>1
  <2>3. CASE ~Beat(m, id)
    <3>1. after[id].seen = table[id].seen /\ ~(m.kind = "reopen" /\ m.id = id)
      BY <1>3, <2>0, <2>3 DEF Beat
    <3>2. table[id].st = "active"
      BY <1>3, <1>5, <2>0, <3>1
    <3>3. table[id].seen >= since \/ Pursued(q, table[id].seen, late)
      BY <2>0, <3>2 DEF StaleArePursued
    <3>4. ASSUME Pursued(q, table[id].seen, late) PROVE Pursued(rest, table[id].seen, late)
      <4>1. PICK i \in 1..Len(q) : /\ q[i].kind = "stale" /\ table[id].seen < q[i].cut
                                   /\ q[i].cut <= table[id].seen + MaxGap + late
        BY <3>4 DEF Pursued
      <4>2. i # 1
        BY <1>1, <1>3, <1>5, <2>0, <3>2, <4>1
      <4>3. i - 1 \in 1..Len(rest) /\ rest[i - 1] = q[i]
        BY <1>1, <4>1, <4>2
      <4> QED
        BY <4>1, <4>3 DEF Pursued
    <3> QED
      BY <3>1, <3>2, <3>3, <3>4
  <2> QED
    BY <2>2, <2>3
<1>6. StaleArePursued(after, rest, since, late)
  BY <1>5 DEF StaleArePursued
<1> QED
  BY <1>6 DEF m, rest, after

\* The bounds of the lag of stale alerts are numbers.
LEMMA ChaseTypes ==
  ASSUME TypeOK
  PROVE  /\ began \in Nat /\ clock \in Nat /\ MaxGap \in Nat /\ MaxLag \in Nat /\ Stale \in Nat
         /\ Wait \in Nat /\ MaxDown \in Nat /\ Outage = MaxGap + Wait + MaxDown
         /\ faults \in 0..MaxFaults /\ Missed(faults) \in Nat
         /\ Since(op, began, Missed(faults)) \in Int
<1>1. /\ began \in Nat /\ clock \in Nat /\ MaxGap \in Nat /\ MaxLag \in Nat /\ Stale \in Nat
      /\ Wait \in Nat /\ MaxDown \in Nat
  BY ClockType, EngineAssumption DEF TypeOK
<1>2. faults \in 0..MaxFaults
  BY DEF TypeOK
<1>3. Missed(faults) \in Nat
  BY <1>2, MissedGrows
<1> QED
  BY <1>1, <1>2, <1>3 DEF Since, Outage

\* What waits or happens is not older than a stale alert.
LEMMA SinceIsPast ==
  ASSUME TypeOK, ChaseInv, op.step # "starting" \/ faults < MaxFaults
  PROVE  Since(op, began, Missed(faults)) <= clock - Stale
<1>1. /\ began \in Nat /\ clock \in Nat /\ MaxGap \in Nat /\ Stale \in Nat /\ Missed(faults) \in Nat
      /\ Wait \in Nat /\ MaxDown \in Nat /\ Outage = MaxGap + Wait + MaxDown
      /\ faults \in 0..MaxFaults
  BY ChaseTypes
<1>2. began <= clock
  BY DEF ChaseInv, CycleFits
<1>3. CASE op.step # "starting"
  BY <1>1, <1>2, <1>3 DEF Since
<1>4. CASE faults < MaxFaults
  <2>1. Missed(faults) >= Outage
    <3>1. PICK a \in Nat : MaxFaults - faults = a + 1
      <4>1. MaxFaults \in Nat /\ MaxFaults - faults - 1 \in Nat
        BY <1>1, <1>4, EngineAssumption
      <4>2. MaxFaults - faults = (MaxFaults - faults - 1) + 1
        BY <1>1, <4>1
      <4> QED
        BY <4>1, <4>2
    <3>2. Outage \in Nat
      BY <1>1
    <3>3. Outage * (a + 1) = Outage * a + Outage /\ Outage * a \in Nat
      BY <3>2
    <3> QED
      BY <3>1, <3>2, <3>3 DEF Missed
  <2> QED
    BY <1>1, <1>2, <2>1 DEF Since
<1> QED
  BY <1>3, <1>4

\* A mutation of now is issued.
LEMMA IssuedNow ==
  ASSUME NEW q \in Seq(Mutation), IssuedInTime(q), NEW m \in Mutation,
         m.kind \in {"touch", "reopen"} => m.due = m.ts + MaxLag,
         m.kind = "stale" => m.due = m.cut + Stale + MaxLag
  PROVE  IssuedInTime(Append(q, m))
<1> DEFINE new == Append(q, m)
<1>1. /\ Len(q) \in Nat /\ Len(new) = Len(q) + 1 /\ new[Len(q) + 1] = m
      /\ \A i \in 1..Len(q) : new[i] = q[i]
  OBVIOUS
<1> HIDE DEF new
<1>2. ASSUME NEW i \in 1..Len(new)
      PROVE  /\ new[i].kind \in {"touch", "reopen"} => new[i].due = new[i].ts + MaxLag
             /\ new[i].kind = "stale" => new[i].due = new[i].cut + Stale + MaxLag
  <2>1. CASE i \in 1..Len(q)
    BY <1>1, <2>1 DEF IssuedInTime
  <2>2. CASE i = Len(q) + 1
    BY <1>1, <2>2
  <2> QED
    BY <1>1, <2>1, <2>2
<1>3. IssuedInTime(new)
  BY <1>2 DEF IssuedInTime
<1> QED
  BY <1>3 DEF new

\* Where the table stays, and nothing is taken off the queue.
LEMMA ChaseKept ==
  ASSUME TypeOK, ChaseInv, UNCHANGED alerts, NEW q \in Seq(Mutation), queue' = q, IssuedInTime(q),
         Len(q) >= Len(queue), \A i \in 1..Len(queue) : q[i] = queue[i],
         CycleFits(op', began', clock'), faults' \in 0..MaxFaults, faults' = faults \/ faults' = faults - 1,
         StartFits(op', q, faults'), Since(op', began', Missed(faults')) \in Int,
         Since(op', began', Missed(faults')) <= Since(op, began, Missed(faults))
  PROVE  ChaseInv'
<1>1. queue \in Seq(Mutation) /\ alerts \in [AlertIds -> Alert \cup {NoAlert}]
  BY DEF TypeOK
<1>2. PICK late : late = Missed(faults')
  OBVIOUS
<1>3. PICK since : since = Since(op', began', Missed(faults'))
  OBVIOUS
<1>4. late \in Nat /\ Missed(faults) \in Nat /\ Missed(faults) <= late
  BY <1>2, ChaseTypes, MissedGrows
<1>5. Since(op, began, Missed(faults)) \in Int
  BY ChaseTypes
<1>6. StaleArePursued(alerts, queue, Since(op, began, Missed(faults)), Missed(faults))
  BY DEF ChaseInv
<1>7. since \in Int /\ since <= Since(op, began, Missed(faults))
  BY <1>3
<1>8. StaleArePursued(alerts, q, since, late)
  BY <1>1, <1>4, <1>5, <1>6, <1>7, PursuitKept
<1> QED
  BY <1>2, <1>3, <1>8 DEF ChaseInv, CycleFits, StartFits

\* The same, where the queue stays.
LEMMA ChaseSame ==
  ASSUME TypeOK, ChaseInv, UNCHANGED <<alerts, queue>>,
         CycleFits(op', began', clock'), faults' \in 0..MaxFaults, faults' = faults \/ faults' = faults - 1,
         op'.step # "starting" \/ faults' < MaxFaults \/ UNCHANGED op,
         Since(op', began', Missed(faults')) \in Int,
         Since(op', began', Missed(faults')) <= Since(op, began, Missed(faults))
  PROVE  ChaseInv'
<1>1. queue \in Seq(Mutation) /\ Len(queue) >= Len(queue) /\ IssuedInTime(queue)
  BY DEF TypeOK, ChaseInv
<1>2. StartFits(op', queue, faults')
  <2>1. StartFits(op, queue, faults)
    BY DEF ChaseInv
  <2>2. faults \in 0..MaxFaults /\ MaxFaults \in Nat
    BY EngineAssumption DEF TypeOK
  <2> QED
    BY <2>1, <2>2 DEF StartFits
<1> QED
  BY <1>1, <1>2, ChaseKept

\* The same, where a mutation of now is issued; the cycle goes on, and the failures are as before.
LEMMA ChaseIssued ==
  ASSUME TypeOK, ChaseInv, UNCHANGED <<alerts, began, clock, faults>>,
         NEW m \in Mutation, queue' = Append(queue, m),
         m.kind \in {"touch", "reopen"} => m.due = m.ts + MaxLag, m.kind # "stale",
         \/ op' = op /\ m.kind = "status"
         \/ {op.step, op'.step} \cap {"starting", "probe", "resolve"} = {}
  PROVE  ChaseInv'
<1>1. queue \in Seq(Mutation) /\ IssuedInTime(queue) /\ CycleFits(op, began, clock)
  BY DEF TypeOK, ChaseInv
<1>2. PICK q : q = Append(queue, m)
  OBVIOUS
<1>3. q \in Seq(Mutation) /\ Len(q) >= Len(queue) /\ \A i \in 1..Len(queue) : q[i] = queue[i]
  BY <1>1, <1>2
<1>4. IssuedInTime(q)
  BY <1>1, <1>2, IssuedNow
<1>5. CycleFits(op', began', clock') /\ Since(op', began', Missed(faults')) = Since(op, began, Missed(faults))
  BY <1>1 DEF CycleFits, Since
<1>6. /\ Since(op, began, Missed(faults)) \in Int /\ faults \in 0..MaxFaults
      /\ Since(op, began, Missed(faults)) <= Since(op, began, Missed(faults))
  BY ChaseTypes
<1>7. StartFits(op', q, faults')
  <2>1. StartFits(op, queue, faults)
    BY DEF ChaseInv
  <2>2. \A i \in 1..Len(q) : q[i] = m \/ (i \in 1..Len(queue) /\ q[i] = queue[i])
    BY <1>1, <1>2
  <2>3. CASE op' = op /\ m.kind = "status"
    BY <2>1, <2>2, <2>3 DEF StartFits
  <2>4. CASE {op.step, op'.step} \cap {"starting", "probe", "resolve"} = {}
    <3>1. op'.step # "starting"
      BY <2>4
    <3> QED
      BY <3>1 DEF StartFits
  <2> QED
    BY <2>3, <2>4
<1> QED
  BY <1>2, <1>3, <1>4, <1>5, <1>6, <1>7, ChaseKept

\* The same, where nothing is issued.
LEMMA ChaseGoesOn ==
  ASSUME TypeOK, ChaseInv, UNCHANGED <<alerts, queue, began, clock>>,
         op' = op \/ {op.step, op'.step} \cap {"starting", "probe", "resolve"} = {},
         faults' = faults \/ (faults' \in 0..MaxFaults /\ faults' = faults - 1)
  PROVE  ChaseInv'
<1>1. CycleFits(op, began, clock)
  BY DEF ChaseInv
<1>2. CycleFits(op', began', clock')
  BY <1>1 DEF CycleFits
<1>3. faults \in 0..MaxFaults /\ faults' \in 0..MaxFaults
  BY ChaseTypes
<1>4. PICK late : late = Missed(faults')
  OBVIOUS
<1>5. late \in Nat /\ Missed(faults) <= late /\ Missed(faults) \in Nat
  BY <1>3, <1>4, MissedGrows
<1>6. Since(op', began, late) \in Int /\ Since(op', began, late) <= Since(op, began, Missed(faults))
  <2>1. /\ op'.step \in {"probe", "resolve"} <=> op.step \in {"probe", "resolve"}
        /\ op'.step = "starting" <=> op.step = "starting"
    <3>1. CASE op' = op
      BY <3>1
    <3>2. CASE {op.step, op'.step} \cap {"starting", "probe", "resolve"} = {}
      <4>1. op.step \notin {"starting", "probe", "resolve"} /\ op'.step \notin {"starting", "probe", "resolve"}
        BY <3>2
      <4> QED
        BY <4>1
    <3> QED
      BY <3>1, <3>2
  <2>2. PICK b : b = Since(op', began, late)
    OBVIOUS
  <2>3. b = IF op.step = "starting" THEN began + Wait + MaxDown - Stale - late - MaxGap
            ELSE IF op.step \in {"probe", "resolve"} THEN began - Stale - late - MaxGap
            ELSE began - Stale - late
    BY <2>1, <2>2 DEF Since
  <2>4. began \in Nat /\ Stale \in Nat /\ MaxGap \in Nat /\ Wait \in Nat /\ MaxDown \in Nat
    BY ChaseTypes
  <2>5. b \in Int /\ b <= Since(op, began, Missed(faults))
    BY <1>5, <2>3, <2>4 DEF Since
  <2> QED
    BY <2>2, <2>5
<1>7. Since(op', began', Missed(faults')) = Since(op', began, late)
  BY <1>4
<1>8. faults' = faults \/ faults' = faults - 1
  OBVIOUS
<1>9. op'.step # "starting" \/ UNCHANGED op
  <2>1. CASE {op.step, op'.step} \cap {"starting", "probe", "resolve"} = {}
    BY <2>1
  <2> QED
    BY <2>1
<1> QED
  BY <1>2, <1>3, <1>6, <1>7, <1>8, <1>9, ChaseSame

\* A failure is counted.
LEMMA FaultCounted ==
  ASSUME TypeOK, NEW kind, Fault(kind)
  PROVE  faults' \in 0..MaxFaults /\ faults' = faults - 1
BY FaultType DEF TypeOK, Fault

\* The cycle: it begins, probes, resolves.
LEMMA ChaseCycle ==
  ASSUME RearmCoversTheRest, TypeOK, ChaseInv, CycleBegin \/ AutoResolveProbe \/ AutoResolveMutate
  PROVE  ChaseInv'
<1>0. /\ began \in Nat /\ clock \in Nat /\ MaxGap \in Nat /\ MaxLag \in Nat /\ Stale \in Nat
      /\ Wait \in Nat /\ MaxDown \in Nat /\ Outage = MaxGap + Wait + MaxDown
      /\ faults \in 0..MaxFaults /\ Missed(faults) \in Nat
  BY ChaseTypes
<1>1. /\ queue \in Seq(Mutation) /\ alerts \in [AlertIds -> Alert \cup {NoAlert}]
      /\ op \in {Starting, Idle} \cup Cycle
  BY DEF TypeOK
<1>2. /\ IssuedInTime(queue) /\ CycleFits(op, began, clock)
      /\ StaleArePursued(alerts, queue, Since(op, began, Missed(faults)), Missed(faults))
  BY DEF ChaseInv
<1>3. /\ began <= clock /\ clock <= began + (IF op.step = "starting" THEN Wait + MaxDown ELSE MaxGap)
      /\ op.step \in {"probe", "resolve"} => clock = began
  BY <1>2 DEF CycleFits
<1>4. CASE CycleBegin
  <2>1. /\ op.step \in {"idle", "starting"} /\ op'.step = "probe" /\ began' = clock
        /\ UNCHANGED <<alerts, queue, clock, faults>>
    BY <1>4 DEF CycleBegin, Idle, Starting
  <2>2. CycleFits(op', began', clock')
    BY <1>0, <2>1 DEF CycleFits
  <2>3. Since(op, began, Missed(faults)) =
          IF op.step = "starting" THEN began + Wait + MaxDown - Stale - Missed(faults) - MaxGap
          ELSE began - Stale - Missed(faults)
    BY <2>1 DEF Since
  <2>4. Since(op', clock, Missed(faults)) = clock - Stale - Missed(faults) - MaxGap
    BY <2>1 DEF Since
  <2>5. /\ Since(op', clock, Missed(faults)) \in Int
        /\ Since(op', clock, Missed(faults)) <= Since(op, began, Missed(faults))
    BY <1>0, <1>3, <2>3, <2>4
  <2> QED
    BY <1>0, <2>1, <2>2, <2>5, ChaseSame
<1>5. CASE AutoResolveProbe
  <2>1. op.step = "probe" /\ clock = began /\ UNCHANGED <<alerts, queue, began, clock>>
    BY <1>3, <1>5 DEF AutoResolveProbe
  <2>2. Since(op, began, Missed(faults)) = began - Stale - Missed(faults) - MaxGap
    BY <2>1 DEF Since
  <2>3. CASE op' = [step |-> "resolve", cut |-> Cutoff] /\ UNCHANGED faults
    <3>1. op'.step = "resolve" /\ op'.cut = clock - Stale
      BY <2>3 DEF Cutoff
    <3>2. CycleFits(op', began', clock')
      BY <1>0, <2>1, <3>1 DEF CycleFits
    <3>3. Since(op', began, Missed(faults)) = Since(op, began, Missed(faults))
      BY <2>1, <3>1 DEF Since
    <3>4. Since(op, began, Missed(faults)) \in Int
      BY ChaseTypes
    <3>5. Since(op, began, Missed(faults)) <= Since(op, began, Missed(faults))
      BY <3>4
    <3> QED
      BY <1>0, <2>1, <2>3, <3>2, <3>3, <3>4, <3>5, ChaseSame
  <2>4. CASE Fault("read") /\ Evaluate
    <3>1. op'.step = "eval" /\ faults' \in 0..MaxFaults /\ faults' = faults - 1
      BY <2>4, FaultCounted DEF Evaluate
    <3>2. CycleFits(op', began', clock')
      BY <1>0, <2>1, <3>1 DEF CycleFits
    <3>3. Missed(faults') = Missed(faults) + Outage
      BY <1>0, <3>1, MissedGrows
    <3>4. Since(op', began, Missed(faults')) = began - Stale - (Missed(faults) + Outage)
      BY <3>1, <3>3 DEF Since
    <3>5. /\ Since(op', began, Missed(faults')) \in Int
          /\ Since(op', began, Missed(faults')) <= Since(op, began, Missed(faults))
      BY <1>0, <2>2, <3>4
    <3> QED
      BY <2>1, <3>1, <3>2, <3>5, ChaseSame
  <2>5. CASE StaleAlerts(Cutoff) = {} /\ Evaluate /\ UNCHANGED faults
    <3>1. op'.step = "eval"
      BY <2>5 DEF Evaluate
    <3>2. CycleFits(op', began', clock')
      BY <1>0, <2>1, <3>1 DEF CycleFits
    <3>3. Since(op', began, Missed(faults)) = began - Stale - Missed(faults)
      BY <3>1 DEF Since
    <3>4. ASSUME NEW id \in AlertIds, alerts[id] # NoAlert, alerts[id].st = "active"
          PROVE  alerts[id].seen >= began - Stale - Missed(faults)
      <4>1. ~(alerts[id].seen < clock - Stale)
        BY <2>5, <3>4 DEF StaleAlerts, Stored, Cutoff
      <4>2. alerts[id].seen \in Nat
        BY <1>1, <3>4 DEF Alert
      <4> QED
        BY <1>0, <2>1, <4>1, <4>2
    <3>5. StaleArePursued(alerts, queue, began - Stale - Missed(faults), Missed(faults))
      BY <3>4 DEF StaleArePursued
    <3> QED
      BY <1>2, <2>1, <2>5, <3>1, <3>2, <3>3, <3>5 DEF ChaseInv, CycleFits, StartFits
  <2> QED
    BY <1>5, <2>3, <2>4, <2>5 DEF AutoResolveProbe
<1>6. CASE AutoResolveMutate
  <2> DEFINE m == [kind |-> "stale", cut |-> op.cut, fresh |-> Firing(op.cut), due |-> Due]
  <2>1. op.step = "resolve" /\ clock = began /\ op.cut = began - Stale /\ UNCHANGED <<alerts, began, clock>>
    BY <1>2, <1>3, <1>6 DEF AutoResolveMutate, CycleFits
  <2>2. op'.step = "eval"
    BY <1>6 DEF AutoResolveMutate, Evaluate
  <2>3. m \in Mutation
    <3>1. op.cut \in Int /\ Firing(op.cut) \in SUBSET AlertIds
      BY <1>1, <2>1, OpShape DEF Firing, Stored
    <3>2. Due \in Nat
      BY ClockType
    <3> QED
      BY <3>1, <3>2 DEF Mutation
  <2>4. m.kind = "stale" /\ m.cut = began - Stale /\ m.due = clock + MaxLag
    BY <2>1 DEF Due
  <2>5. CycleFits(op', began', clock')
    BY <1>0, <2>1, <2>2 DEF CycleFits
  <2>6. Since(op, began, Missed(faults)) = began - Stale - Missed(faults) - MaxGap
    BY <2>1 DEF Since
  <2>7. Written(m) \/ (Fault("write") /\ UNCHANGED queue)
    BY <1>6 DEF AutoResolveMutate, WriteFails, LateKind, Fault, RearmCoversTheRest
  <2> HIDE DEF m
  <2>8. CASE Written(m)
    <3>1. queue' = Append(queue, m) /\ UNCHANGED faults
      BY <2>8 DEF Written, Issue
    <3>2. Since(op', began, Missed(faults)) = m.cut - Missed(faults)
      BY <2>2, <2>4 DEF Since
    <3>3. StaleArePursued(alerts, queue, m.cut - Missed(faults) - MaxGap, Missed(faults))
      BY <1>2, <2>4, <2>6
    <3>4. StaleArePursued(alerts, Append(queue, m), m.cut - Missed(faults), Missed(faults))
      BY <1>0, <1>1, <2>3, <2>4, <3>3, StaleIssued
    <3>5. m.due = m.cut + Stale + MaxLag
      BY <1>0, <2>1, <2>4
    <3>6. IssuedInTime(Append(queue, m))
      BY <1>1, <1>2, <2>3, <2>4, <3>5, IssuedNow
    <3> QED
      BY <2>1, <2>2, <2>5, <3>1, <3>2, <3>4, <3>6 DEF ChaseInv, CycleFits, StartFits
  <2>9. CASE Fault("write") /\ UNCHANGED queue
    <3>1. faults' \in 0..MaxFaults /\ faults' = faults - 1
      BY <2>9, FaultCounted
    <3>2. Missed(faults') = Missed(faults) + Outage
      BY <1>0, <3>1, MissedGrows
    <3>3. Since(op', began, Missed(faults')) = began - Stale - (Missed(faults) + Outage)
      BY <2>2, <3>2 DEF Since
    <3>4. /\ Since(op', began, Missed(faults')) \in Int
          /\ Since(op', began, Missed(faults')) <= Since(op, began, Missed(faults))
      BY <1>0, <2>6, <3>3
    <3> QED
      BY <2>1, <2>2, <2>5, <2>9, <3>1, <3>4, ChaseSame
  <2> QED
    BY <2>7, <2>8, <2>9
<1> QED
  BY <1>4, <1>5, <1>6

\* A new alert was seen just now.
LEMMA ChaseInsert ==
  ASSUME RearmCoversTheRest, TypeOK, NowIsNow, ChaseInv, Insert
  PROVE  ChaseInv'
<1>0. /\ began \in Nat /\ clock \in Nat /\ Stale \in Nat /\ faults \in 0..MaxFaults /\ Missed(faults) \in Nat
      /\ began <= clock /\ Since(op, began, Missed(faults)) \in Int
  BY ChaseTypes DEF ChaseInv, CycleFits
<1>1. /\ op.step = "insert" /\ op'.step = "eval" /\ op.now = clock /\ UNCHANGED <<queue, began, clock>>
  BY DEF Insert, Handled, NowIsNow
<1>2. CASE UNCHANGED alerts
  <2>1. faults' = faults \/ Fault("write")
    BY <1>2 DEF Insert, Fault, RearmCoversTheRest
  <2>2. faults' = faults \/ (faults' \in 0..MaxFaults /\ faults' = faults - 1)
    BY <2>1, FaultCounted
  <2> QED
    BY <1>1, <1>2, <2>2, ChaseGoesOn
<1>3. ASSUME NEW id \in AlertIds \ Stored, Adds(id), UNCHANGED faults PROVE ChaseInv'
  <2>1. PICK table : table = alerts'
    OBVIOUS
  <2>2. /\ table[id] = [key |-> op.k, st |-> "active", at |-> clock, seen |-> clock, peak |-> op.v]
        /\ \A x \in AlertIds \ {id} : table[x] = alerts[x]
    BY <1>1, <1>3, <2>1 DEF Adds, TypeOK
  <2>3. table[id].st = "active" /\ table[id].seen = clock
    BY <2>2
  <2>4. clock >= Since(op, began, Missed(faults))
    BY <1>0, <1>1, SinceIsPast
  <2>5. StaleArePursued(alerts, queue, Since(op, began, Missed(faults)), Missed(faults))
    BY DEF ChaseInv
  <2>6. StaleArePursued(table, queue, Since(op, began, Missed(faults)), Missed(faults))
    BY <2>2, <2>3, <2>4, <2>5 DEF StaleArePursued
  <2>7. Since(op', began, Missed(faults)) = Since(op, began, Missed(faults))
    BY <1>1 DEF Since
  <2>8. IssuedInTime(queue) /\ CycleFits(op, began, clock)
    BY DEF ChaseInv
  <2>9. CycleFits(op', began', clock')
    BY <1>1, <2>8 DEF CycleFits
  <2> QED
    BY <1>1, <1>3, <2>1, <2>6, <2>7, <2>8, <2>9 DEF ChaseInv, CycleFits, StartFits
<1>4. \/ UNCHANGED alerts
      \/ \E id \in AlertIds \ Stored : Adds(id) /\ UNCHANGED faults
  BY DEF Insert, Adds, Fault, RearmCoversTheRest
<1> QED
  BY <1>2, <1>3, <1>4

\* The next mutation is applied: a heartbeat among them is not older than the lag.
LEMMA ChaseApplied ==
  ASSUME RearmCoversTheRest, TypeOK, QueueOfStored, DuesFit(queue, clock), ChaseInv, ApplyMutation
  PROVE  ChaseInv'
<1>0. /\ began \in Nat /\ clock \in Nat /\ Stale \in Nat /\ MaxLag \in Nat /\ began <= clock
      /\ faults \in 0..MaxFaults /\ Missed(faults) \in Nat /\ MaxLag <= Stale
      /\ Since(op, began, Missed(faults)) \in Int /\ MaxFaults \in Nat
  BY ChaseTypes, EngineAssumption DEF ChaseInv, CycleFits, RearmCoversTheRest
<1>1. /\ queue \in Seq(Mutation) /\ alerts \in [AlertIds -> Alert \cup {NoAlert}]
      /\ queue # <<>> /\ alerts' = Apply(Head(queue), alerts) /\ queue' = Tail(queue)
      /\ UNCHANGED <<op, began, clock, faults>>
  BY DEF ApplyMutation, TypeOK
<1>2. /\ IssuedInTime(queue) /\ CycleFits(op, began, clock)
      /\ StaleArePursued(alerts, queue, Since(op, began, Missed(faults)), Missed(faults))
  BY DEF ChaseInv
<1>3. Head(queue) = queue[1] /\ queue[1] \in Mutation /\ 1 \in 1..Len(queue)
  BY <1>1
<1>4. ASSUME NEW id \in AlertIds, alerts[id] = NoAlert
      PROVE  ~(Head(queue).kind \in {"touch", "reopen", "status"} /\ Head(queue).id = id)
  BY <1>3, <1>4 DEF QueueOfStored, Stored
<1>5. ASSUME Head(queue).kind \in {"touch", "reopen"} PROVE Head(queue).ts >= Since(op, began, Missed(faults))
  <2>1. queue[1].due = queue[1].ts + MaxLag /\ clock <= queue[1].due /\ queue[1].ts \in Nat
    BY <1>2, <1>3, <1>5, MutationShape DEF IssuedInTime, DuesFit
  <2>2. op.step # "starting" \/ faults < MaxFaults
    BY <1>3, <1>5 DEF ChaseInv, StartFits
  <2>3. Since(op, began, Missed(faults)) <= clock - Stale
    BY <2>2, SinceIsPast
  <2> QED
    BY <1>0, <1>3, <2>1, <2>3
<1>6. StaleArePursued(Apply(Head(queue), alerts), Tail(queue),
                      Since(op, began, Missed(faults)), Missed(faults))
  BY <1>0, <1>1, <1>2, <1>4, <1>5, PursuitApplied
<1>7. IssuedInTime(Tail(queue))
  <2>1. PICK q : q = Tail(queue) /\ \A i \in 1..Len(q) : q[i] = queue[i + 1] /\ i + 1 \in 1..Len(queue)
    BY <1>1
  <2>2. IssuedInTime(q)
    BY <1>2, <2>1 DEF IssuedInTime
  <2> QED
    BY <2>1, <2>2
<1>8. StartFits(op, Tail(queue), faults)
  <2>1. PICK q : q = Tail(queue) /\ \A i \in 1..Len(q) : q[i] = queue[i + 1] /\ i + 1 \in 1..Len(queue)
    BY <1>1
  <2>2. StartFits(op, queue, faults)
    BY DEF ChaseInv
  <2>3. StartFits(op, q, faults)
    BY <2>1, <2>2 DEF StartFits
  <2> QED
    BY <2>1, <2>3
<1> QED
  BY <1>1, <1>2, <1>6, <1>7, <1>8 DEF ChaseInv, CycleFits, StartFits

LEMMA ChaseStep == RearmCoversTheRest /\ EngineInv /\ ReopenInv /\ ChaseInv /\ [Next]_vars => ChaseInv'
<1> SUFFICES ASSUME RearmCoversTheRest, EngineInv, ReopenInv, ChaseInv, [Next]_vars PROVE ChaseInv'
  OBVIOUS
<1>0. /\ TypeOK /\ QueueOfStored /\ NowIsNow /\ op \in {Starting, Idle} \cup Cycle /\ DuesFit(queue, clock)
      /\ MemoryCoversTheLag
  BY DEF EngineInv, QueueInv, BookInv, TypeOK, ReopenInv, RearmCoversTheRest
<1>1. clock \in Nat /\ Due \in Nat /\ Due = clock + MaxLag
  BY <1>0, ClockType DEF Due
<1>2. CASE CycleBegin \/ AutoResolveProbe \/ AutoResolveMutate
  BY <1>0, <1>2, ChaseCycle
<1>3. CASE CycleEnd
  <2>1. op.step = "eval" /\ op'.step = "idle" /\ UNCHANGED <<alerts, queue, began, clock, faults>>
    BY <1>3 DEF CycleEnd, Idle
  <2> QED
    BY <1>0, <2>1, ChaseGoesOn
<1>4. ASSUME NEW k \in Keys, NEW v \in Values, Violation(k, v) PROVE ChaseInv'
  <2>1. /\ op.step = "eval" /\ op'.step \in {"touch", "lookup"}
        /\ UNCHANGED <<alerts, queue, began, clock, faults>>
    BY <1>4 DEF Violation, About
  <2> QED
    BY <1>0, <2>1, ChaseGoesOn
<1>5. CASE Lookup
  <2>1. op.step = "lookup" /\ UNCHANGED <<alerts, queue, began, clock>>
    BY <1>5 DEF Lookup
  <2>2. op \in [step: {"lookup", "insert"}, todo: SUBSET Keys, k: Keys, v: Values, now: Nat]
    BY <1>0, <2>1, OpShape
  <2>3. InsertStep.step = "insert" /\ Handled.step = "eval"
    BY <2>2 DEF InsertStep, Handled
  <2>4. op'.step \in {"insert", "eval", "touch", "reopen"}
    BY <1>5, <2>3 DEF Lookup, Decide, About
  <2>5. faults' = faults \/ (faults' \in 0..MaxFaults /\ faults' = faults - 1)
    BY <1>0, <1>5, FaultCounted DEF Lookup
  <2> QED
    BY <1>0, <2>1, <2>4, <2>5, ChaseGoesOn
<1>6. CASE Touch
  <2> DEFINE m == [kind |-> "touch", id |-> op.id, ts |-> op.now, due |-> Due]
  <2>1. op.step = "touch" /\ op.id \in AlertIds /\ op.now \in Nat /\ op.now = clock
    BY <1>0, <1>6, OpShape DEF Touch, NowIsNow
  <2>2. m \in Mutation /\ m.kind = "touch" /\ m.due = m.ts + MaxLag
    BY <1>1, <2>1 DEF Mutation
  <2>3. /\ op' = Handled /\ UNCHANGED <<alerts, began, clock>>
        /\ \/ UNCHANGED <<queue, faults>>
           \/ queue' = Append(queue, m) /\ UNCHANGED faults
           \/ Fault("write") /\ UNCHANGED queue
    BY <1>6 DEF Touch, Written, WriteFails, LateKind, Issue, Fault, RearmCoversTheRest
  <2>4. op'.step = "eval"
    BY <2>3 DEF Handled
  <2> HIDE DEF m
  <2>5. CASE queue' = Append(queue, m) /\ UNCHANGED faults
    BY <1>0, <2>1, <2>2, <2>3, <2>4, <2>5, ChaseIssued
  <2>6. CASE UNCHANGED queue /\ (UNCHANGED faults \/ Fault("write"))
    <3>1. faults' = faults \/ (faults' \in 0..MaxFaults /\ faults' = faults - 1)
      BY <1>0, <2>6, FaultCounted
    <3> QED
      BY <1>0, <2>1, <2>3, <2>4, <2>6, <3>1, ChaseGoesOn
  <2> QED
    BY <2>3, <2>5, <2>6
<1>7. CASE Reopen
  <2> DEFINE m == [kind |-> "reopen", id |-> op.id, ts |-> op.now, v |-> op.v, due |-> Due]
  <2>1. op.step = "reopen" /\ op.id \in AlertIds /\ op.v \in Values /\ op.now \in Nat /\ op.now = clock
    BY <1>0, <1>7, OpShape DEF Reopen, NowIsNow
  <2>2. m \in Mutation /\ m.kind = "reopen" /\ m.due = m.ts + MaxLag
    BY <1>1, <2>1 DEF Mutation
  <2>3. /\ op' = Handled /\ UNCHANGED <<alerts, began, clock>>
        /\ \/ queue' = Append(queue, m) /\ UNCHANGED faults
           \/ Fault("write") /\ UNCHANGED queue
    BY <1>0, <1>7 DEF Reopen, Written, WriteFails, LateKind, Issue, Fault, MemoryCoversTheLag
  <2>4. op'.step = "eval"
    BY <2>3 DEF Handled
  <2> HIDE DEF m
  <2>5. CASE queue' = Append(queue, m) /\ UNCHANGED faults
    BY <1>0, <2>1, <2>2, <2>3, <2>4, <2>5, ChaseIssued
  <2>6. CASE UNCHANGED queue /\ Fault("write")
    <3>1. faults' \in 0..MaxFaults /\ faults' = faults - 1
      BY <1>0, <2>6, FaultCounted
    <3> QED
      BY <1>0, <2>1, <2>3, <2>4, <2>6, <3>1, ChaseGoesOn
  <2> QED
    BY <2>3, <2>5, <2>6
<1>8. CASE Insert
  BY <1>0, <1>8, ChaseInsert
<1>9. CASE ApplyMutation
  BY <1>0, <1>9, ChaseApplied
<1>10. CASE CleanupCooldown
  <2>1. UNCHANGED <<alerts, queue, op, began, clock, faults>>
    BY <1>10 DEF CleanupCooldown
  <2> QED
    BY <1>0, <2>1, ChaseGoesOn
\* The processes before and after it begin their cycles in time: a failure is counted.
<1>11. CASE Crash
  <2>1. /\ op'.step = "starting" /\ began' = clock /\ UNCHANGED <<alerts, queue, clock>>
        /\ faults' \in 0..MaxFaults /\ faults' = faults - 1
    BY <1>0, <1>11, FaultCounted DEF Crash, Starting
  <2>2. /\ began \in Nat /\ MaxGap \in Nat /\ Stale \in Nat /\ Wait \in Nat /\ MaxDown \in Nat
        /\ Outage = MaxGap + Wait + MaxDown /\ Missed(faults) \in Nat /\ faults \in 0..MaxFaults
    BY <1>0, ChaseTypes
  <2>3. /\ began <= clock /\ clock <= began + (IF op.step = "starting" THEN Wait + MaxDown ELSE MaxGap)
        /\ op.step \in {"probe", "resolve"} => clock = began
    BY DEF ChaseInv, CycleFits
  <2>4. CycleFits(op', began', clock')
    BY <1>1, <2>1, <2>2 DEF CycleFits
  <2>5. Missed(faults') = Missed(faults) + Outage
    BY <2>1, <2>2, MissedGrows
  <2>6. Since(op', began', Missed(faults')) =
          clock + Wait + MaxDown - Stale - (Missed(faults) + Outage) - MaxGap
    BY <2>1, <2>5 DEF Since
  <2>7. /\ Since(op', began', Missed(faults')) \in Int
        /\ Since(op', began', Missed(faults')) <= Since(op, began, Missed(faults))
    BY <1>1, <2>2, <2>3, <2>6 DEF Since
  <2>8. faults' < MaxFaults
    BY <2>1, <2>2, EngineAssumption
  <2> QED
    BY <1>0, <2>1, <2>4, <2>7, <2>8, ChaseSame
<1>12. CASE Tick
  <2>0. /\ \/ op.step = "starting" /\ clock < began + Wait + MaxDown
           \/ op.step \in {"idle", "eval"} /\ clock < began + MaxGap
        /\ clock' = clock + 1 /\ UNCHANGED <<alerts, queue, op, began, faults>>
    BY <1>12 DEF Tick, Starting
  <2>a. began \in Nat /\ Wait \in Nat /\ MaxDown \in Nat
    BY <1>0, ChaseTypes
  <2>1. /\ op.step \in {"starting", "idle", "eval"} /\ clock' = clock + 1
        /\ clock < began + (IF op.step = "starting" THEN Wait + MaxDown ELSE MaxGap)
        /\ UNCHANGED <<alerts, queue, op, began, faults>>
    <3>1. CASE op.step = "starting"
      BY <1>1, <2>0, <2>a, <3>1
    <3>2. CASE op.step # "starting"
      BY <2>0, <3>2
    <3> QED
      BY <3>1, <3>2
  <2>2. /\ began \in Nat /\ MaxGap \in Nat /\ Wait \in Nat /\ MaxDown \in Nat /\ faults \in 0..MaxFaults
        /\ Since(op, began, Missed(faults)) \in Int
        /\ Since(op, began, Missed(faults)) <= Since(op, began, Missed(faults))
    BY <1>0, ChaseTypes
  <2>3. CycleFits(op, began, clock)
    BY DEF ChaseInv
  <2>4. CycleFits(op', began, clock + 1)
    BY <1>1, <2>1, <2>2, <2>3 DEF CycleFits
  <2>5. Since(op', began, Missed(faults)) = Since(op, began, Missed(faults))
    BY <2>1 DEF Since
  <2> QED
    BY <1>0, <2>1, <2>2, <2>4, <2>5, ChaseSame
<1>13. ASSUME NEW id \in Stored, NEW st \in Verdicts, Verdict(id, st) PROVE ChaseInv'
  <2> DEFINE m == [kind |-> "status", id |-> id, st |-> st, due |-> Due]
  <2>1. m \in Mutation /\ m.kind = "status"
    BY <1>1 DEF Mutation, Stored
  <2>2. queue' = Append(queue, m) /\ UNCHANGED <<alerts, began, clock, op, faults>>
    BY <1>13 DEF Verdict, Issue
  <2> HIDE DEF m
  <2> QED
    BY <1>0, <2>1, <2>2, ChaseIssued
<1>14. CASE UNCHANGED vars
  <2>1. UNCHANGED <<alerts, queue, op, began, clock, faults>>
    BY <1>14 DEF vars
  <2> QED
    BY <1>0, <2>1, ChaseGoesOn
<1> QED
  BY <1>2, <1>3, <1>4, <1>5, <1>6, <1>7, <1>8, <1>9, <1>10, <1>11, <1>12, <1>13, <1>14 DEF Next, CycleStep

\* At first no alert is stored.
LEMMA ChaseInitially == Init => ChaseInv
<1> SUFFICES ASSUME Init PROVE ChaseInv
  OBVIOUS
<1>1. /\ Len(queue) = 0 /\ op.step = "starting" /\ began = 0 /\ clock = 0
      /\ Wait \in Nat /\ MaxDown \in Nat
  BY EngineAssumption DEF Init, Starting
<1>2. IssuedInTime(queue) /\ CycleFits(op, began, clock)
  BY <1>1 DEF IssuedInTime, CycleFits
<1>3. \A id \in AlertIds : alerts[id] = NoAlert
  BY DEF Init
<1>4. \A since, late : StaleArePursued(alerts, queue, since, late)
  BY <1>3 DEF StaleArePursued
<1>5. StartFits(op, queue, faults)
  BY <1>1 DEF StartFits
<1> QED
  BY <1>2, <1>4, <1>5 DEF ChaseInv

-----------------------------------------------------------------------------
(* What is newest, remembered, held and finished. *)

\* What is active was seen recently: a cycle looks for stale alerts at least every
\* MaxGap, and one that fails is followed by another.
LEMMA ActiveIsRecent ==
  ASSUME RearmCoversTheRest, TypeOK, DuesFit(queue, clock), ChaseInv, NEW id \in Stored,
         alerts[id].st = "active"
  PROVE  alerts[id].seen > clock - Rearm + MaxLag
<1>1. /\ began \in Nat /\ clock \in Nat /\ MaxGap \in Nat /\ MaxLag \in Nat /\ Stale \in Nat /\ Rearm \in Nat
      /\ faults \in 0..MaxFaults /\ Missed(faults) \in Nat 
      /\ Wait \in Nat /\ MaxDown \in Nat
      /\ clock <= began + (IF op.step = "starting" THEN Wait + MaxDown ELSE MaxGap)
  BY ChaseTypes, EngineAssumption DEF ChaseInv, CycleFits
<1>2. /\ Missed(faults) <= Outage * MaxFaults /\ Outage * MaxFaults \in Nat
      /\ Stale + MaxLag + MaxLag + MaxGap + Outage * MaxFaults < Rearm
  BY <1>1, MissedGrows DEF RearmCoversTheRest
<1>3. PICK failed \in Nat :
        Missed(faults) <= failed /\ Stale + MaxLag + MaxLag + MaxGap + failed < Rearm
  BY <1>2
<1>4. alerts[id].seen \in Nat /\ id \in AlertIds /\ alerts[id] # NoAlert
  BY DEF TypeOK, Stored, Alert
<1>5. \/ alerts[id].seen >= Since(op, began, Missed(faults))
      \/ Pursued(queue, alerts[id].seen, Missed(faults))
  BY <1>4 DEF ChaseInv, StaleArePursued
<1>6. CASE alerts[id].seen >= Since(op, began, Missed(faults))
  <2>1. Since(op, began, Missed(faults)) >= clock - Stale - MaxGap - Missed(faults)
    <3>1. CASE op.step \in {"probe", "resolve"}
      <4>1. clock = began
        BY <3>1 DEF ChaseInv, CycleFits
      <4> QED
        BY <1>1, <3>1, <4>1 DEF Since
    <3>2. CASE op.step \notin {"probe", "resolve"}
      BY <1>1, <3>2 DEF Since
    <3> QED
      BY <3>1, <3>2
  <2>2. Since(op, began, Missed(faults)) \in Int
    BY ChaseTypes
  <2> QED
    BY <1>1, <1>3, <1>4, <1>5, <1>6, <2>1, <2>2
<1>7. CASE Pursued(queue, alerts[id].seen, Missed(faults))
  <2>1. PICK i \in 1..Len(queue) :
          queue[i].kind = "stale" /\ queue[i].cut <= alerts[id].seen + MaxGap + Missed(faults)
    BY <1>7 DEF Pursued
  <2>2. queue[i].due = queue[i].cut + Stale + MaxLag /\ clock <= queue[i].due
    BY <2>1 DEF ChaseInv, IssuedInTime, DuesFit
  <2>3. queue[i].cut \in Int
    <3>1. queue[i] \in Mutation
      BY DEF TypeOK
    <3> QED
      BY <2>1, <3>1, MutationShape
  <2> QED
    <3>1. PICK late \in Nat, cut \in Int, seen \in Nat :
            late = Missed(faults) /\ cut = queue[i].cut /\ seen = alerts[id].seen
      BY <1>1, <1>4, <2>3
    <3>2. cut <= seen + MaxGap + late /\ clock <= cut + Stale + MaxLag /\ late <= failed
      BY <1>3, <2>1, <2>2, <3>1
    <3>3. seen > clock - Rearm + MaxLag
      BY <1>1, <1>3, <3>2
    <3> QED
      BY <1>5, <3>1, <3>3
<1> QED
  BY <1>5, <1>6, <1>7

\* Nothing is about to happen to an alert in between.
LEMMA QuietPlace ==
  ASSUME NEW o, o.step \notin {"lookup", "insert", "touch", "reopen"},
         NEW table, NEW q, NEW at, NEW t
  PROVE  IncidentFits(o, table, q, at, t)
BY DEF IncidentFits

\* A mutation that is issued: a heartbeat is for the newest alert of a key, which is held.
LEMMA IncidentAppended ==
  ASSUME NEW table, NEW q \in Seq(Mutation), NEW mem, NEW t, NEW at, NEW m \in Mutation,
         MemoryFits(table, q, mem), HeartbeatsFit(table, q, at), OlderAreFinished(table, q, t),
         m.kind = "touch" => Held(table, q, m.id, m.ts) /\ at[m.id] >= m.ts,
         m.kind \in {"touch", "reopen"} => \E k : IsNewest(table, k, m.id),
         \A x \in AlertIds : IsStored(table, x) => table[x].at \in Nat
  PROVE  /\ MemoryFits(table, Append(q, m), mem) /\ HeartbeatsFit(table, Append(q, m), at)
         /\ OlderAreFinished(table, Append(q, m), t)
<1> DEFINE new == Append(q, m)
<1>1. /\ Len(q) \in Nat /\ Len(new) = Len(q) + 1 /\ new[Len(q) + 1] = m
      /\ \A i \in 1..Len(q) : new[i] = q[i]
  OBVIOUS
<1> HIDE DEF new
<1>2. ASSUME NEW id, NEW ts, ReopenWaits(q, id, ts) PROVE ReopenWaits(new, id, ts)
  <2>1. PICK j \in 1..Len(q) : q[j].kind = "reopen" /\ q[j].id = id /\ q[j].ts >= ts
    BY <1>2 DEF ReopenWaits
  <2>2. j \in 1..Len(new) /\ new[j] = q[j]
    BY <1>1
  <2> QED
    BY <2>1, <2>2 DEF ReopenWaits
<1>3. MemoryFits(table, new, mem)
  BY <1>2 DEF MemoryFits
<1>4. ASSUME NEW i \in 1..Len(new), new[i].kind = "touch"
      PROVE  Held(table, new, new[i].id, new[i].ts) /\ at[new[i].id] >= new[i].ts
  <2>1. Held(table, q, new[i].id, new[i].ts) /\ at[new[i].id] >= new[i].ts
    <3>1. CASE i \in 1..Len(q)
      BY <1>1, <1>4, <3>1 DEF HeartbeatsFit
    <3>2. CASE i = Len(q) + 1
      BY <1>1, <1>4, <3>2
    <3> QED
      BY <1>1, <3>1, <3>2
  <2> QED
    BY <1>2, <2>1 DEF Held
<1>5. ASSUME NEW x \in AlertIds, NEW y \in AlertIds, IsStored(table, x), IsStored(table, y),
             table[x].key = table[y].key, table[x].at < table[y].at
      PROVE  Finished(table[x], new, x, t)
  <2>1. Finished(table[x], q, x, t)
    BY <1>5 DEF OlderAreFinished
  <2>2. m.kind \in {"touch", "reopen"} => m.id # x
    <3> SUFFICES ASSUME m.kind \in {"touch", "reopen"}, m.id = x PROVE FALSE
      OBVIOUS
    <3>1. table[y].at <= table[x].at
      BY <1>5 DEF IsNewest
    <3> QED
      BY <1>5, <3>1
  <2>3. ASSUME NEW i \in 1..Len(new) PROVE (i \in 1..Len(q) /\ new[i] = q[i]) \/ new[i] = m
    BY <1>1
  <2>4. CASE table[x].st # "active" /\ \A i \in 1..Len(q) : q[i].kind = "reopen" => q[i].id # x
    <3>1. \A i \in 1..Len(new) : new[i].kind = "reopen" => new[i].id # x
      BY <2>2, <2>3, <2>4
    <3> QED
      BY <2>4, <3>1 DEF Finished
  <2>5. CASE table[x].seen < t - Stale /\ NoBeatWaits(q, x)
    <3>1. NoBeatWaits(new, x)
      BY <2>2, <2>3, <2>5 DEF NoBeatWaits, Beat
    <3> QED
      BY <2>5, <3>1 DEF Finished
  <2> QED
    BY <2>1, <2>4, <2>5 DEF Finished
<1>6. HeartbeatsFit(table, new, at)
  BY <1>4 DEF HeartbeatsFit
<1>7. OlderAreFinished(table, new, t)
  BY <1>5 DEF OlderAreFinished
<1> QED
  BY <1>3, <1>6, <1>7 DEF new

\* What is recorded later is later than what waits.
LEMMA SeenAtKept ==
  ASSUME TypeOK, QueueOfStored, InOrder, HeartbeatsFit(alerts, queue, seenAt),
         NEW id \in AlertIds, NEW at, at = [seenAt EXCEPT ![id] = clock]
  PROVE  HeartbeatsFit(alerts, queue, at)
<1> SUFFICES ASSUME NEW i \in 1..Len(queue), queue[i].kind = "touch"
             PROVE  Held(alerts, queue, queue[i].id, queue[i].ts) /\ at[queue[i].id] >= queue[i].ts
  BY DEF HeartbeatsFit
<1>1. /\ Held(alerts, queue, queue[i].id, queue[i].ts) /\ seenAt[queue[i].id] >= queue[i].ts
      /\ queue[i].id \in Stored /\ queue[i].id \in AlertIds /\ Beat(queue[i], queue[i].id)
  BY DEF HeartbeatsFit, QueueOfStored, Stored, Beat
<1>2. queue[i].ts <= clock /\ queue[i].ts \in Nat /\ clock \in Nat
  <2>1. queue[i] \in Mutation
    BY DEF TypeOK
  <2> QED
    BY <1>1, <2>1, MutationShape, ClockType DEF InOrder
<1>3. at[queue[i].id] = IF queue[i].id = id THEN clock ELSE seenAt[queue[i].id]
  BY <1>1 DEF TypeOK
<1> QED
  BY <1>1, <1>2, <1>3

\* A mutation that is no heartbeat does not matter to what is about to happen.
LEMMA PlaceAppended ==
  ASSUME NEW table, NEW q \in Seq(Mutation), NEW m \in Mutation, m.kind \notin {"touch", "reopen"},
         NEW o, NEW at, NEW t, IncidentFits(o, table, q, at, t)
  PROVE  IncidentFits(o, table, Append(q, m), at, t)
<1> DEFINE new == Append(q, m)
<1>1. /\ Len(q) \in Nat /\ Len(new) = Len(q) + 1 /\ new[Len(q) + 1] = m
      /\ \A i \in 1..Len(q) : new[i] = q[i]
  OBVIOUS
<1> HIDE DEF new
<1>2. ASSUME NEW id, NEW ts, ReopenWaits(q, id, ts) PROVE ReopenWaits(new, id, ts)
  <2>1. PICK j \in 1..Len(q) : q[j].kind = "reopen" /\ q[j].id = id /\ q[j].ts >= ts
    BY <1>2 DEF ReopenWaits
  <2>2. j \in 1..Len(new) /\ new[j] = q[j]
    BY <1>1
  <2> QED
    BY <2>1, <2>2 DEF ReopenWaits
<1>3. ASSUME NEW id, NoBeatWaits(q, id) PROVE NoBeatWaits(new, id)
  <2>1. ASSUME NEW i \in 1..Len(new) PROVE (i \in 1..Len(q) /\ new[i] = q[i]) \/ new[i] = m
    BY <1>1
  <2> QED
    BY <1>3, <2>1 DEF NoBeatWaits, Beat
<1>4. \A id : Held(table, q, id, o.now) => Held(table, new, id, o.now)
  BY <1>2 DEF Held
<1>5. \A id : MakesRoom(o, table, q, at, id) => MakesRoom(o, table, new, at, id)
  BY <1>3 DEF MakesRoom
<1>6. IncidentFits(o, table, new, at, t)
  BY <1>4, <1>5 DEF IncidentFits
<1> QED
  BY <1>6 DEF new

\* The next mutation is applied: the alerts stay in their order, and what is seen stays seen.
LEMMA IncidentApplied ==
  ASSUME NEW table \in [AlertIds -> Alert \cup {NoAlert}], NEW q \in Seq(Mutation), q # <<>>,
         MaxLag + MaxLag < Rearm, NEW cover, NEW mem, NEW t \in Nat, NEW o, NEW at,
         \A i \in 1..Len(q) : q[i].kind \in {"touch", "reopen", "status"} => IsStored(table, q[i].id),
         \A i \in 1..Len(q) : q[i].kind \in {"touch", "reopen"} =>
            /\ table[q[i].id].seen <= q[i].ts
            /\ q[i].ts <= t /\ t <= q[i].ts + MaxLag,
         TriggersFit(table, cover, t), MemoryFits(table, q, mem), HeartbeatsFit(table, q, at),
         OlderAreFinished(table, q, t), IncidentFits(o, table, q, at, t),
         o.step = "insert" => NoneWaits(q, table, o.k), o.step = "touch" => o.now = t,
         \A k \in Keys : mem[k] # NoRecent => mem[k].at \in Nat
  PROVE  LET after == Apply(Head(q), table)
             rest == Tail(q)
         IN  /\ TriggersFit(after, cover, t) /\ MemoryFits(after, rest, mem)
             /\ HeartbeatsFit(after, rest, at)
             /\ OlderAreFinished(after, rest, t) /\ IncidentFits(o, after, rest, at, t)
             /\ \A x \in AlertIds : IsStored(after, x) <=> IsStored(table, x)
<1> DEFINE m == Head(q)
           rest == Tail(q)
           after == Apply(m, table)
<1>1. /\ Len(q) \in Nat \ {0} /\ Len(rest) = Len(q) - 1 /\ m = q[1] /\ m \in Mutation /\ 1 \in 1..Len(q)
      /\ \A i \in 1..Len(rest) : rest[i] = q[i + 1] /\ i + 1 \in 1..Len(q)
      /\ \A i \in 2..Len(q) : i - 1 \in 1..Len(rest) /\ rest[i - 1] = q[i]
  OBVIOUS
<1>2. ASSUME NEW id \in AlertIds, table[id] = NoAlert PROVE after[id] = NoAlert
  BY <1>1, <1>2, ApplyRow DEF IsStored
<1>3. ASSUME NEW id \in AlertIds, table[id] # NoAlert
      PROVE  /\ after[id] # NoAlert /\ table[id] \in Alert
             /\ after[id].key = table[id].key /\ after[id].at = table[id].at
             /\ after[id].seen = IF Beat(m, id) THEN m.ts ELSE table[id].seen
             /\ ~(m.kind = "reopen" /\ m.id = id) => after[id].peak = table[id].peak
             /\ table[id].st # "active" /\ ~(m.kind = "reopen" /\ m.id = id) => after[id].st # "active"
  <2>1. after[id] # NoAlert
    <3>1. after[id] \in Alert
      BY <1>1, <1>3, ApplyRow
    <3> QED
      BY <3>1 DEF Alert, NoAlert, Statuses
  <2>2. /\ after[id].key = table[id].key /\ after[id].at = table[id].at
        /\ after[id].seen = IF Beat(m, id) THEN m.ts ELSE table[id].seen
        /\ ~(m.kind = "reopen" /\ m.id = id) => after[id].peak = table[id].peak
    BY <1>1, <1>3, ApplyParts
  <2>3. table[id].st # "active" /\ ~(m.kind = "reopen" /\ m.id = id) => after[id].st # "active"
    BY <1>1, <1>3, ApplyStatus
  <2>4. table[id] \in Alert
    BY <1>3
  <2> QED
    BY <2>1, <2>2, <2>3, <2>4
<1>4. m.kind \in {"touch", "reopen"} =>
         m.id \in AlertIds /\ table[m.id].seen <= m.ts /\ m.ts \in Nat /\ m.ts <= t /\ t <= m.ts + MaxLag
  BY <1>1, MutationShape
<1>5. MaxLag \in Nat /\ Rearm \in Nat /\ Stale \in Nat
  BY EngineAssumption
<1> HIDE DEF m, rest, after
<1>6. \A x \in AlertIds : IsStored(after, x) <=> IsStored(table, x)
  BY <1>2, <1>3 DEF IsStored
<1>7. \A k, x : IsNewest(table, k, x) => IsNewest(after, k, x)
  BY <1>3, <1>6 DEF IsNewest, IsStored
<1>8. \A k, x : IsNewest(after, k, x) => IsNewest(table, k, x)
  BY <1>3, <1>6 DEF IsNewest, IsStored
<1>9. ASSUME NEW id \in AlertIds, table[id] # NoAlert
      PROVE  after[id].seen \in Nat /\ table[id].seen \in Nat /\ after[id].seen >= table[id].seen
  <2>1. table[id].seen \in Nat
    BY <1>3, <1>9 DEF Alert
  <2> QED
    BY <1>3, <1>4, <1>9, <2>1 DEF Beat
<1>10. ASSUME NEW id \in AlertIds, table[id] # NoAlert, NEW ts, ReopenWaits(q, id, ts)
       PROVE  ReopenWaits(rest, id, ts)
              \/ (m.kind = "reopen" /\ m.id = id /\ after[id].seen = m.ts /\ m.ts >= ts)
  <2>1. PICK j \in 1..Len(q) : q[j].kind = "reopen" /\ q[j].id = id /\ q[j].ts >= ts
    BY <1>10 DEF ReopenWaits
  <2>2. CASE j = 1
    BY <1>1, <1>3, <1>10, <2>1, <2>2 DEF Beat
  <2>3. CASE j # 1
    <3>1. j - 1 \in 1..Len(rest) /\ rest[j - 1] = q[j]
      BY <1>1, <2>3
    <3> QED
      BY <2>1, <3>1 DEF ReopenWaits
  <2> QED
    BY <2>2, <2>3
<1>11. ASSUME NEW id \in AlertIds, table[id] # NoAlert, NEW ts \in Nat, ts <= t, Held(table, q, id, ts)
       PROVE  Held(after, rest, id, ts)
  <2>1. CASE table[id].seen > ts - Rearm + MaxLag
    BY <1>5, <1>9, <1>11, <2>1 DEF Held
  <2>2. CASE ReopenWaits(q, id, 0)
    <3>1. CASE ReopenWaits(rest, id, 0)
      BY <3>1 DEF Held
    <3>2. CASE m.kind = "reopen" /\ m.id = id /\ after[id].seen = m.ts
      <4>1. after[id].seen > ts - Rearm + MaxLag
        BY <1>4, <1>5, <1>11, <3>2
      <4> QED
        BY <4>1 DEF Held
    <3> QED
      BY <1>10, <1>11, <2>2, <3>1, <3>2
  <2>3. CASE table[id].st # "active"
    <3>1. CASE m.kind = "reopen" /\ m.id = id
      <4>1. after[id].seen = m.ts
        BY <1>3, <1>11, <3>1 DEF Beat
      <4>2. after[id].seen > ts - Rearm + MaxLag
        BY <1>4, <1>5, <1>11, <3>1, <4>1
      <4> QED
        BY <4>2 DEF Held
    <3>2. CASE ~(m.kind = "reopen" /\ m.id = id)
      BY <1>3, <1>11, <2>3, <3>2 DEF Held
    <3> QED
      BY <3>1, <3>2
  <2> QED
    BY <1>11, <2>1, <2>2, <2>3 DEF Held
<1>12. TriggersFit(after, cover, t)
  BY <1>3, <1>6 DEF TriggersFit, IsStored
<1>13. MemoryFits(after, rest, mem)
  <2> SUFFICES ASSUME NEW k \in Keys, mem[k] # NoRecent
               PROVE  /\ IsNewest(after, k, mem[k].id)
                      /\ after[mem[k].id].seen >= mem[k].at \/ ReopenWaits(rest, mem[k].id, mem[k].at)
    BY DEF MemoryFits
  <2>1. /\ IsNewest(table, k, mem[k].id)
        /\ table[mem[k].id].seen >= mem[k].at \/ ReopenWaits(q, mem[k].id, mem[k].at)
    BY DEF MemoryFits
  <2>2. mem[k].id \in AlertIds /\ table[mem[k].id] # NoAlert /\ mem[k].at \in Nat
    BY <2>1 DEF IsNewest, IsStored
  <2>3. CASE table[mem[k].id].seen >= mem[k].at
    BY <1>7, <1>9, <2>1, <2>2, <2>3
  <2>4. CASE ReopenWaits(q, mem[k].id, mem[k].at)
    BY <1>7, <1>10, <2>1, <2>2, <2>4
  <2> QED
    BY <2>1, <2>3, <2>4
<1>14. HeartbeatsFit(after, rest, at)
  <2> SUFFICES ASSUME NEW i \in 1..Len(rest), rest[i].kind = "touch"
               PROVE  Held(after, rest, rest[i].id, rest[i].ts) /\ at[rest[i].id] >= rest[i].ts
    BY DEF HeartbeatsFit
  <2>1. rest[i] = q[i + 1] /\ i + 1 \in 1..Len(q)
    BY <1>1
  <2>2. q[i + 1] \in Mutation
    BY <2>1
  <2>3. Held(table, q, q[i + 1].id, q[i + 1].ts) /\ at[q[i + 1].id] >= q[i + 1].ts
    BY <2>1 DEF HeartbeatsFit
  <2>4. q[i + 1].id \in AlertIds /\ table[q[i + 1].id] # NoAlert /\ q[i + 1].ts \in Nat /\ q[i + 1].ts <= t
    BY <2>1, <2>2, MutationShape DEF IsStored
  <2> QED
    BY <1>11, <2>1, <2>3, <2>4
<1>15. ASSUME NEW id \in AlertIds, NoBeatWaits(q, id) PROVE NoBeatWaits(rest, id) /\ ~Beat(m, id)
  BY <1>1, <1>15 DEF NoBeatWaits
<1>16. OlderAreFinished(after, rest, t)
  <2> SUFFICES ASSUME NEW x \in AlertIds, NEW y \in AlertIds, IsStored(after, x), IsStored(after, y),
                      after[x].key = after[y].key, after[x].at < after[y].at
               PROVE  Finished(after[x], rest, x, t)
    BY DEF OlderAreFinished
  <2>1. /\ IsStored(table, x) /\ IsStored(table, y) /\ table[x] # NoAlert /\ table[y] # NoAlert
        /\ table[x].key = table[y].key /\ table[x].at < table[y].at
    BY <1>3, <1>6 DEF IsStored
  <2>2. Finished(table[x], q, x, t)
    BY <2>1 DEF OlderAreFinished
  <2>3. CASE table[x].st # "active" /\ \A i \in 1..Len(q) : q[i].kind = "reopen" => q[i].id # x
    <3>1. \A i \in 1..Len(rest) : rest[i].kind = "reopen" => rest[i].id # x
      BY <1>1, <2>3
    <3>2. after[x].st # "active"
      BY <1>1, <1>3, <2>1, <2>3
    <3> QED
      BY <3>1, <3>2 DEF Finished
  <2>4. CASE table[x].seen < t - Stale /\ NoBeatWaits(q, x)
    BY <1>3, <1>15, <2>1, <2>4 DEF Finished
  <2> QED
    BY <2>2, <2>3, <2>4 DEF Finished
<1>17. IncidentFits(o, after, rest, at, t)
  <2>1. ASSUME o.step \in {"lookup", "insert"}, NEW x \in AlertIds, IsStored(after, x), after[x].key = o.k
        PROVE  after[x].at < t
    <3>1. IsStored(table, x) /\ table[x] # NoAlert
      BY <1>6, <2>1 DEF IsStored
    <3> QED
      BY <1>3, <2>1, <3>1 DEF IncidentFits
  <2>2. o.step \in {"touch", "reopen"} => IsNewest(after, o.k, o.id)
    BY <1>7 DEF IncidentFits
  <2>3. o.step = "touch" => Held(after, rest, o.id, o.now)
    <3> SUFFICES ASSUME o.step = "touch" PROVE Held(after, rest, o.id, o.now)
      OBVIOUS
    <3>1. IsNewest(table, o.k, o.id) /\ Held(table, q, o.id, o.now)
      BY DEF IncidentFits
    <3>2. o.id \in AlertIds /\ table[o.id] # NoAlert /\ o.now = t /\ t <= t
      BY <3>1 DEF IsNewest, IsStored
    <3> QED
      BY <1>11, <3>1, <3>2
  <2>4. ASSUME o.step = "insert", NEW x \in AlertIds, IsNewest(after, o.k, x)
        PROVE  MakesRoom(o, after, rest, at, x)
    <3>1. IsNewest(table, o.k, x)
      BY <1>8, <2>4
    <3>2. MakesRoom(o, table, q, at, x)
      BY <2>4, <3>1 DEF IncidentFits
    <3>3. table[x] # NoAlert /\ table[x].key = o.k
      BY <3>1 DEF IsNewest, IsStored
    <3>4. ~(m.kind = "reopen" /\ m.id = x)
      BY <1>1, <2>4, <3>3 DEF NoneWaits
    <3>5. /\ after[x].peak = table[x].peak /\ (table[x].st # "active" => after[x].st # "active")
          /\ NoBeatWaits(q, x) => after[x].seen = table[x].seen /\ NoBeatWaits(rest, x)
      BY <1>3, <1>15, <3>3, <3>4
    <3> QED
      BY <3>2, <3>5 DEF MakesRoom
  <2> QED
    BY <2>1, <2>2, <2>3, <2>4 DEF IncidentFits
<1> QED
  BY <1>6, <1>12, <1>13, <1>14, <1>16, <1>17 DEF m, rest, after

\* Where queue, table and clock stay, and the memory does or is lost.
LEMMA IncidentSame ==
  ASSUME IncidentInv, UNCHANGED <<alerts, queue, clock, seenAt>>,
         UNCHANGED recent \/ recent' = [k \in Keys |-> NoRecent],
         \/ op.step # "starting" /\ op'.step # "starting" /\ UNCHANGED recent
         \/ TriggersFit(alerts, Covering(op', began', recent'), clock),
         IncidentFits(op', alerts, queue, seenAt, clock)
  PROVE  IncidentInv'
<1>1. TriggersFit(alerts, Covering(op, began, recent), clock) /\ MemoryFits(alerts, queue, recent)
  BY DEF IncidentInv
<1>2. TriggersFit(alerts, Covering(op', began', recent'), clock)
  BY <1>1, MemoryCovers
<1>3. MemoryFits(alerts, queue, recent')
  <2>1. CASE recent' = [k \in Keys |-> NoRecent]
    BY <2>1 DEF MemoryFits
  <2> QED
    BY <1>1, <2>1
<1> QED
  BY <1>2, <1>3 DEF IncidentInv

\* Where a mutation that is no heartbeat is issued, or none.
LEMMA IncidentIssued ==
  ASSUME TypeOK, IncidentInv, UNCHANGED <<alerts, recent, clock, seenAt>>,
         NEW m \in Mutation, m.kind \notin {"touch", "reopen"},
         queue' = Append(queue, m) \/ UNCHANGED queue, UNCHANGED began,
         \/ UNCHANGED op
         \/ op.step # "starting" /\ op'.step \notin {"starting", "lookup", "insert", "touch", "reopen"}
  PROVE  IncidentInv'
<1>1. /\ MemoryFits(alerts, queue, recent) /\ HeartbeatsFit(alerts, queue, seenAt)
      /\ OlderAreFinished(alerts, queue, clock) /\ IncidentFits(op, alerts, queue, seenAt, clock)
      /\ \A x \in AlertIds : IsStored(alerts, x) => seenAt[x] # Never
  BY DEF IncidentInv
<1>2. queue \in Seq(Mutation) /\ \A x \in AlertIds : IsStored(alerts, x) => alerts[x].at \in Nat
  BY DEF TypeOK, IsStored, Alert
<1>c. TriggersFit(alerts, Covering(op', began', recent'), clock)
  <2>1. TriggersFit(alerts, Covering(op, began, recent), clock)
    BY DEF IncidentInv
  <2> QED
    BY <2>1, MemoryCovers DEF Covering
<1>3. CASE queue' = Append(queue, m)
  <2>1. PICK new : new = Append(queue, m)
    OBVIOUS
  <2>2. /\ MemoryFits(alerts, new, recent) /\ HeartbeatsFit(alerts, new, seenAt)
        /\ OlderAreFinished(alerts, new, clock)
    BY <1>1, <1>2, <2>1, IncidentAppended
  <2>3. IncidentFits(op, alerts, new, seenAt, clock)
    BY <1>1, <1>2, <2>1, PlaceAppended
  <2>4. IncidentFits(op', alerts, new, seenAt, clock)
    BY <2>3, QuietPlace
  <2> QED
    BY <1>1, <1>3, <1>c, <2>1, <2>2, <2>4 DEF IncidentInv
<1>4. CASE UNCHANGED queue
  <2>1. IncidentFits(op', alerts, queue, seenAt, clock)
    BY <1>1, QuietPlace
  <2> QED
    BY <1>1, <1>4, <1>c, <2>1, IncidentSame
<1> QED
  BY <1>3, <1>4

\* A heartbeat: the alert is the newest of its key, and is held.
LEMMA IncidentTouch ==
  ASSUME RearmCoversTheRest, TypeOK, QueueOfStored, InOrder, NowIsNow, IncidentInv, Touch
  PROVE  IncidentInv'
<1> DEFINE m == [kind |-> "touch", id |-> op.id, ts |-> op.now, due |-> Due]
<1>0. op \in {Starting, Idle} \cup Cycle
  BY DEF TypeOK
<1>1. /\ op.step = "touch" /\ op.id \in AlertIds /\ op.now \in Nat /\ Due \in Nat /\ op.now = clock
  BY <1>0, OpShape, ClockType DEF Touch, NowIsNow
<1>2. m \in Mutation /\ m.kind = "touch" /\ m.id = op.id /\ m.ts = clock
  BY <1>1 DEF Mutation
<1>3. /\ op' = Handled /\ UNCHANGED <<alerts, recent, clock>>
      /\ \/ UNCHANGED <<queue, seenAt>>
         \/ UNCHANGED queue /\ seenAt' = [seenAt EXCEPT ![op.id] = op.now]
         \/ queue' = Append(queue, m) /\ seenAt' = [seenAt EXCEPT ![op.id] = op.now]
  BY DEF Touch, Written, WriteFails, LateKind, Issue, Fault, RearmCoversTheRest
<1> HIDE DEF m
<1>4. op'.step = "eval"
  BY <1>3 DEF Handled
<1>5. /\ MemoryFits(alerts, queue, recent) /\ HeartbeatsFit(alerts, queue, seenAt)
      /\ OlderAreFinished(alerts, queue, clock) /\ IsNewest(alerts, op.k, op.id)
      /\ Held(alerts, queue, op.id, op.now) /\ TriggersFit(alerts, recent, clock)
      /\ \A x \in AlertIds : IsStored(alerts, x) => seenAt[x] # Never
  BY <1>1, MemoryCovers DEF IncidentInv, IncidentFits
<1>6. CASE UNCHANGED <<queue, seenAt>>
  <2>1. IncidentFits(op', alerts, queue, seenAt, clock)
    BY <1>4, QuietPlace
  <2> QED
    BY <1>1, <1>3, <1>4, <1>6, <2>1, IncidentSame
<1>7. ASSUME seenAt' = [seenAt EXCEPT ![op.id] = op.now], UNCHANGED queue \/ queue' = Append(queue, m)
      PROVE  IncidentInv'
  <2>1. PICK at : at = seenAt'
    OBVIOUS
  <2>2. at = [seenAt EXCEPT ![op.id] = clock]
    BY <1>1, <1>7, <2>1
  <2>3. HeartbeatsFit(alerts, queue, at)
    BY <1>1, <1>5, <2>2, SeenAtKept
  <2>4. \A x \in AlertIds : IsStored(alerts, x) => at[x] # Never
    <3>1. seenAt \in [AlertIds -> Nat \cup {Never}] /\ clock \in Nat /\ clock # Never
      BY ClockType DEF TypeOK, Never
    <3> QED
      BY <1>5, <2>2, <3>1
  <2>5. CASE UNCHANGED queue
    <3>1. IncidentFits(op', alerts, queue, at, clock)
      BY <1>4, QuietPlace
    <3> QED
      BY <1>3, <1>4, <1>5, <2>1, <2>3, <2>4, <2>5, <3>1, MemoryCovers DEF IncidentInv
  <2>6. CASE queue' = Append(queue, m)
    <3>1. queue \in Seq(Mutation) /\ \A x \in AlertIds : IsStored(alerts, x) => alerts[x].at \in Nat
      BY DEF TypeOK, IsStored, Alert
    <3>2. PICK new : new = Append(queue, m)
      OBVIOUS
    <3>3. \E k : IsNewest(alerts, k, m.id)
      BY <1>2, <1>5
    <3>4. Held(alerts, queue, m.id, m.ts) /\ at[m.id] >= m.ts
      <4>1. at[op.id] = clock /\ clock \in Nat
        BY <1>1, <2>2 DEF TypeOK
      <4> QED
        BY <1>1, <1>2, <1>5, <4>1
    <3>5. /\ MemoryFits(alerts, new, recent) /\ HeartbeatsFit(alerts, new, at)
          /\ OlderAreFinished(alerts, new, clock)
      BY <1>2, <1>5, <2>3, <3>1, <3>2, <3>3, <3>4, IncidentAppended
    <3>6. IncidentFits(op', alerts, new, at, clock)
      BY <1>4, QuietPlace
    <3> QED
      BY <1>3, <1>4, <1>5, <2>1, <2>4, <2>6, <3>2, <3>5, <3>6, MemoryCovers DEF IncidentInv
  <2> QED
    BY <1>7, <2>5, <2>6
<1> QED
  BY <1>3, <1>6, <1>7

\* A re-open: the alert is the newest of its key, and is remembered.
LEMMA IncidentReopen ==
  ASSUME MemoryCoversTheLag, TypeOK, QueueOfStored, InOrder, NowIsNow, IncidentInv, Reopen
  PROVE  IncidentInv'
<1> DEFINE m == [kind |-> "reopen", id |-> op.id, ts |-> op.now, v |-> op.v, due |-> Due]
<1>0. op \in {Starting, Idle} \cup Cycle
  BY DEF TypeOK
<1>1. /\ op.step = "reopen" /\ op.id \in AlertIds /\ op.k \in Keys /\ op.v \in Values
      /\ op.now \in Nat /\ op.now = clock /\ Due \in Nat
  BY <1>0, OpShape, ClockType DEF Reopen, NowIsNow
<1>2. m \in Mutation /\ m.kind = "reopen" /\ m.id = op.id /\ m.ts = op.now
  BY <1>1 DEF Mutation
<1>3. /\ op' = Handled /\ UNCHANGED <<alerts, clock>>
      /\ \/ UNCHANGED <<queue, seenAt, recent>>
         \/ /\ queue' = Append(queue, m) /\ seenAt' = [seenAt EXCEPT ![op.id] = op.now]
            /\ recent' = [recent EXCEPT ![op.k] = [id |-> op.id, at |-> op.now]]
  BY DEF Reopen, Written, WriteFails, LateKind, Issue, Fault, MemoryCoversTheLag, Remember
<1> HIDE DEF m
<1>4. op'.step = "eval"
  BY <1>3 DEF Handled
<1>5. \A x \in AlertIds : IsStored(alerts, x) => seenAt'[x] # Never
  <2>1. /\ seenAt \in [AlertIds -> Nat \cup {Never}]
        /\ \A x \in AlertIds : IsStored(alerts, x) => seenAt[x] # Never
    BY DEF TypeOK, IncidentInv
  <2>2. op.now # Never
    BY <1>1 DEF Never
  <2> QED
    BY <1>1, <1>3, <2>1, <2>2
<1>6. CASE UNCHANGED <<queue, seenAt, recent>>
  <2>1. IncidentFits(op', alerts, queue, seenAt, clock)
    BY <1>4, QuietPlace
  <2> QED
    BY <1>1, <1>3, <1>4, <1>6, <2>1, IncidentSame
<1>7. CASE /\ queue' = Append(queue, m) /\ seenAt' = [seenAt EXCEPT ![op.id] = op.now]
           /\ recent' = [recent EXCEPT ![op.k] = [id |-> op.id, at |-> op.now]]
  <2>0. PICK at : at = seenAt' /\ at = [seenAt EXCEPT ![op.id] = clock]
    BY <1>1, <1>7
  <2>a. /\ MemoryFits(alerts, queue, recent) /\ HeartbeatsFit(alerts, queue, seenAt)
        /\ OlderAreFinished(alerts, queue, clock) /\ IsNewest(alerts, op.k, op.id)
        /\ TriggersFit(alerts, recent, clock)
    BY <1>1, MemoryCovers DEF IncidentInv, IncidentFits
  <2>b. HeartbeatsFit(alerts, queue, at)
    BY <1>1, <2>0, <2>a, SeenAtKept
  <2>1. /\ MemoryFits(alerts, queue, recent) /\ HeartbeatsFit(alerts, queue, at)
        /\ OlderAreFinished(alerts, queue, clock) /\ IsNewest(alerts, op.k, op.id)
        /\ TriggersFit(alerts, recent, clock)
    BY <2>a, <2>b
  <2>2. queue \in Seq(Mutation) /\ \A x \in AlertIds : IsStored(alerts, x) => alerts[x].at \in Nat
    BY DEF TypeOK, IsStored, Alert
  <2>3. PICK new : new = Append(queue, m)
    OBVIOUS
  <2>4. \E k : IsNewest(alerts, k, m.id)
    BY <1>2, <2>1
  <2>5. /\ MemoryFits(alerts, new, recent) /\ HeartbeatsFit(alerts, new, at)
        /\ OlderAreFinished(alerts, new, clock)
    BY <1>2, <2>1, <2>2, <2>3, <2>4, IncidentAppended
  <2>6. PICK mem : mem = recent'
    OBVIOUS
  <2>7. /\ mem[op.k] = [id |-> op.id, at |-> clock] /\ mem[op.k] # NoRecent
        /\ mem[op.k].at = clock /\ mem[op.k].id = op.id
        /\ \A k \in Keys \ {op.k} : mem[k] = recent[k]
    <3>1. mem[op.k] = [id |-> op.id, at |-> clock] /\ \A k \in Keys \ {op.k} : mem[k] = recent[k]
      BY <1>1, <1>7, <2>6 DEF TypeOK
    <3>2. [id |-> op.id, at |-> clock] # NoRecent
      BY DEF NoRecent
    <3> QED
      BY <3>1, <3>2
  <2>8. TriggersFit(alerts, mem, clock)
    <3>1. \A x \in AlertIds : IsStored(alerts, x) => alerts[x].key \in Keys
      BY DEF TypeOK, IsStored, Alert
    <3> QED
      BY <2>1, <2>7, <3>1 DEF TriggersFit
  <2>9. ReopenWaits(new, op.id, clock)
    <3>1. Len(queue) + 1 \in 1..Len(new) /\ new[Len(queue) + 1] = m
      BY <1>2, <2>2, <2>3
    <3>2. m.ts >= clock
      BY <1>1, <1>2
    <3> QED
      BY <1>2, <3>1, <3>2 DEF ReopenWaits
  <2>10. MemoryFits(alerts, new, mem)
    BY <2>1, <2>5, <2>7, <2>9 DEF MemoryFits
  <2>11. IncidentFits(op', alerts, new, seenAt', clock)
    BY <1>4, QuietPlace
  <2> QED
    BY <1>3, <1>4, <1>5, <1>7, <2>0, <2>3, <2>5, <2>6, <2>8, <2>10, <2>11, MemoryCovers DEF IncidentInv
<1> QED
  BY <1>3, <1>6, <1>7

\* A violation that the memory covers is a heartbeat of the newest alert; for any other, the
\* alerts of its key were triggered before now.
LEMMA IncidentViolation ==
  ASSUME RearmCoversTheRest, TypeOK, IncidentInv, NEW k \in Keys, NEW v \in Values, Violation(k, v)
  PROVE  IncidentInv'
<1>1. /\ UNCHANGED <<alerts, queue, recent, clock, seenAt>> /\ op.step = "eval"
      /\ \A x \in AlertIds : IsStored(alerts, x) => seenAt[x] # Never
      /\ TriggersFit(alerts, recent, clock) /\ MemoryFits(alerts, queue, recent)
  BY MemoryCovers DEF Violation, IncidentInv
<1>2. clock \in Nat /\ MaxLag \in Nat /\ Trust \in Nat /\ Rearm \in Nat /\ Trust + MaxLag < Rearm /\ 0 < Trust
  BY ClockType, EngineAssumption DEF RearmCoversTheRest
<1>3. CASE Trusted(k)
  <2>1. op'.step = "touch" /\ op'.k = k /\ op'.id = recent[k].id /\ op'.now = clock
    BY <1>3 DEF Violation, About
  <2>2. recent[k] # NoRecent /\ clock - recent[k].at < Trust
    BY <1>3 DEF Trusted
  <2>3. recent[k].at \in Nat /\ recent[k].id \in AlertIds
    BY <2>2 DEF TypeOK
  <2>4. /\ IsNewest(alerts, k, recent[k].id)
        /\ alerts[recent[k].id].seen >= recent[k].at \/ ReopenWaits(queue, recent[k].id, recent[k].at)
    BY <1>1, <2>2 DEF MemoryFits
  <2>5. Held(alerts, queue, recent[k].id, clock)
    <3>1. CASE alerts[recent[k].id].seen >= recent[k].at
      <4>1. alerts[recent[k].id].seen \in Nat
        BY <2>4 DEF IsNewest, IsStored, TypeOK, Alert
      <4>2. alerts[recent[k].id].seen > clock - Rearm + MaxLag
        BY <1>2, <2>2, <2>3, <3>1, <4>1
      <4> QED
        BY <4>2 DEF Held
    <3>2. CASE ReopenWaits(queue, recent[k].id, recent[k].at)
      <4>1. PICK j \in 1..Len(queue) : queue[j].kind = "reopen" /\ queue[j].id = recent[k].id
        BY <3>2 DEF ReopenWaits
      <4>2. queue[j] \in Mutation
        BY DEF TypeOK
      <4>3. queue[j].ts >= 0
        BY <4>1, <4>2, MutationShape
      <4>4. ReopenWaits(queue, recent[k].id, 0)
        BY <4>1, <4>3 DEF ReopenWaits
      <4> QED
        BY <4>4 DEF Held
    <3> QED
      BY <2>4, <3>1, <3>2
  <2>6. IncidentFits(op', alerts, queue, seenAt, clock)
    BY <2>1, <2>4, <2>5 DEF IncidentFits
  <2> QED
    BY <1>1, <2>1, <2>6, IncidentSame
<1>4. CASE ~Trusted(k)
  <2>1. op'.step = "lookup" /\ op'.k = k
    BY <1>4 DEF Violation
  <2>2. ASSUME NEW x \in AlertIds, IsStored(alerts, x), alerts[x].key = k PROVE alerts[x].at < clock
    <3>1. /\ alerts[x].at \in Nat /\ alerts[x].at <= clock
          /\ alerts[x].at = clock => recent[k] # NoRecent /\ recent[k].at = clock
      BY <1>1, <2>2 DEF TriggersFit, TypeOK, IsStored, Alert
    <3>2. ~(recent[k] # NoRecent /\ recent[k].at = clock)
      BY <1>2, <1>4 DEF Trusted
    <3> QED
      BY <1>2, <3>1, <3>2
  <2>3. IncidentFits(op', alerts, queue, seenAt, clock)
    BY <2>1, <2>2 DEF IncidentFits
  <2> QED
    BY <1>1, <2>1, <2>3, IncidentSame
<1> QED
  BY <1>3, <1>4

\* What is decided about a violation: the newest alert of its key is still held, or makes room.
LEMMA IncidentLookup ==
  ASSUME RearmCoversTheRest, TypeOK, BookInv, ReopenInv, ChaseInv, IncidentInv, Lookup
  PROVE  IncidentInv'
<1>0. /\ op.step = "lookup" /\ UNCHANGED <<alerts, queue, recent, clock, seenAt>>
      /\ \A x \in AlertIds : IsStored(alerts, x) => seenAt[x] # Never
      /\ op.now = clock /\ clock \in Nat /\ DuesFit(queue, clock) /\ NoneWaits(queue, alerts, op.k)
  BY ClockType DEF Lookup, IncidentInv, BookInv, NowIsNow, ReopenInv, PlaceFits
<1>1. /\ TriggersFit(alerts, recent, clock) /\ HeartbeatsFit(alerts, queue, seenAt)
      /\ \A x \in AlertIds : IsStored(alerts, x) /\ alerts[x].key = op.k => alerts[x].at < clock
  BY <1>0, MemoryCovers DEF IncidentInv, IncidentFits
<1>2. op \in [step: {"lookup", "insert"}, todo: SUBSET Keys, k: Keys, v: Values, now: Nat]
  BY <1>0, OpShape DEF TypeOK
<1>3. /\ InsertStep.step = "insert" /\ InsertStep.k = op.k /\ InsertStep.v = op.v /\ InsertStep.now = op.now
      /\ Handled.step = "eval"
  BY <1>2 DEF InsertStep, Handled
<1>4. MaxLag \in Nat /\ Rearm \in Nat /\ Window \in Nat
  BY EngineAssumption, WindowType
<1>5. \A id : id \in Latest(op.k) <=> IsNewest(alerts, op.k, id)
  BY DEF Latest, IsNewest, IsStored, Stored
<1>6. ASSUME NEW id \in Latest(op.k), NEW x, IsNewest(alerts, op.k, x) PROVE x = id
  <2>1. /\ IsStored(alerts, id) /\ IsStored(alerts, x) /\ id \in AlertIds /\ x \in AlertIds
        /\ alerts[id].key = alerts[x].key /\ alerts[id].at <= alerts[x].at /\ alerts[x].at <= alerts[id].at
    BY <1>5, <1>6 DEF IsNewest, IsStored
  <2>2. alerts[id].at \in Nat /\ alerts[x].at \in Nat
    BY <2>1 DEF TypeOK, IsStored, Alert
  <2> QED
    BY <1>1, <2>1, <2>2 DEF TriggersFit
<1>7. CASE op' = Handled
  <2>1. IncidentFits(op', alerts, queue, seenAt, clock)
    BY <1>3, <1>7, QuietPlace
  <2> QED
    BY <1>0, <1>3, <1>7, <2>1, IncidentSame
<1>8. ASSUME op' = InsertStep,
             \A x \in AlertIds : IsNewest(alerts, op.k, x) => MakesRoom(op, alerts, queue, seenAt, x)
      PROVE  IncidentInv'
  <2>1. PICK o : o = op'
    OBVIOUS
  <2>2. o.step = "insert" /\ o.k = op.k /\ o.v = op.v /\ o.now = op.now
    BY <1>3, <1>8, <2>1
  <2>3. \A x \in AlertIds : IsNewest(alerts, op.k, x) => MakesRoom(o, alerts, queue, seenAt, x)
    BY <1>8, <2>2 DEF MakesRoom
  <2>4. IncidentFits(o, alerts, queue, seenAt, clock)
    BY <1>1, <2>2, <2>3 DEF IncidentFits
  <2> QED
    BY <1>0, <2>1, <2>2, <2>4, IncidentSame
<1>9. ASSUME Latest(op.k) = {}, op' = InsertStep PROVE IncidentInv'
  BY <1>5, <1>8, <1>9
<1>10. ASSUME NEW id \in Latest(op.k), op' = Decide(id) PROVE IncidentInv'
  <2>0. id \in AlertIds /\ alerts[id] # NoAlert /\ alerts[id].key = op.k /\ IsNewest(alerts, op.k, id)
    BY <1>5 DEF Latest, Stored
  <2>1. alerts[id].seen \in Nat
    BY <2>0 DEF TypeOK, Alert
  <2>2. CASE ~WithinRearm(id)
    <3>1. alerts[id].seen <= clock - Rearm
      BY <1>0, <1>4, <2>1, <2>2 DEF WithinRearm
    <3>2. op' = InsertStep
      BY <1>10, <2>2 DEF Decide
    <3>3. CASE NoBeatWaits(queue, id)
      <4>1. seenAt[id] # Never /\ seenAt[id] \in Nat
        BY <1>0, <2>0 DEF TypeOK, IsStored
      <4>2. SeenBy(id, seenAt[id] - Window, Len(queue))
        BY <2>0, <4>1 DEF BookInv, Reaches
      <4>3. alerts[id].seen >= seenAt[id] - Window
        BY <3>3, <4>2 DEF SeenBy, NoBeatWaits
      <4>4. seenAt[id] <= clock - Rearm + Window
        BY <1>0, <1>4, <2>1, <3>1, <4>1, <4>3
      <4>5. MakesRoom(op, alerts, queue, seenAt, id)
        BY <1>0, <3>1, <3>3, <4>4 DEF MakesRoom
      <4> QED
        BY <1>6, <1>8, <3>2, <4>5
    \* A heartbeat of moments ago has not been applied: the alert is not active.
    <3>4. CASE ~NoBeatWaits(queue, id)
      <4>1. PICK i \in 1..Len(queue) : Beat(queue[i], id)
        BY <3>4 DEF NoBeatWaits
      <4>2. queue[i].kind # "reopen" /\ ~ReopenWaits(queue, id, 0)
        BY <1>0, <2>0, <4>1 DEF NoneWaits, ReopenWaits, Beat
      <4>3. queue[i].kind = "touch" /\ queue[i].id = id
        BY <4>1, <4>2 DEF Beat
      <4>4. queue[i].ts \in Nat
        <5>1. queue[i] \in Mutation
          BY DEF TypeOK
        <5> QED
          BY <4>3, <5>1, MutationShape
      <4>5. clock <= queue[i].ts + MaxLag
        BY <1>0, <4>3 DEF DuesFit, ChaseInv, IssuedInTime
      <4>6. ~(alerts[id].seen > queue[i].ts - Rearm + MaxLag)
        BY <1>0, <1>4, <2>1, <3>1, <4>4, <4>5
      <4>7. alerts[id].st # "active" /\ seenAt[id] >= queue[i].ts
        BY <1>1, <4>2, <4>3, <4>6 DEF HeartbeatsFit, Held
      <4>8. op.now - seenAt[id] <= MaxLag
        <5>1. seenAt[id] \in Int
          BY <2>0 DEF TypeOK, Never
        <5> QED
          BY <1>0, <1>4, <4>4, <4>5, <4>7, <5>1
      <4>9. MakesRoom(op, alerts, queue, seenAt, id)
        BY <4>7, <4>8 DEF MakesRoom
      <4> QED
        BY <1>6, <1>8, <3>2, <4>9
    <3> QED
      BY <3>3, <3>4
  <2>3. CASE WithinRearm(id) /\ alerts[id].st # "resolved"
    <3>1. op'.step = "touch" /\ op'.k = op.k /\ op'.id = id /\ op'.now = clock
      BY <1>0, <1>10, <2>3 DEF Decide, About
    <3>2. alerts[id].st = "active" => alerts[id].seen > clock - Rearm + MaxLag
      BY <1>0, <2>0, <2>3, ActiveIsRecent DEF Stored
    <3>3. Held(alerts, queue, id, clock)
      BY <3>2 DEF Held
    <3>4. IncidentFits(op', alerts, queue, seenAt, clock)
      BY <2>0, <3>1, <3>3 DEF IncidentFits
    <3> QED
      BY <1>0, <3>1, <3>4, IncidentSame
  <2>4. CASE WithinRearm(id) /\ alerts[id].st = "resolved" /\ Escalates(id)
    <3>1. op' = InsertStep
      BY <1>10, <2>4 DEF Decide
    <3>2. MakesRoom(op, alerts, queue, seenAt, id)
      BY <2>4 DEF Escalates, MakesRoom
    <3> QED
      BY <1>6, <1>8, <3>1, <3>2
  <2>5. CASE WithinRearm(id) /\ alerts[id].st = "resolved" /\ ~Escalates(id)
    <3>1. op'.step = "reopen" /\ op'.k = op.k /\ op'.id = id
      BY <1>10, <2>5 DEF Decide, About
    <3>2. IncidentFits(op', alerts, queue, seenAt, clock)
      BY <2>0, <3>1 DEF IncidentFits
    <3> QED
      BY <1>0, <3>1, <3>2, IncidentSame
  <2> QED
    BY <2>2, <2>3, <2>4, <2>5
<1> QED
  BY <1>7, <1>9, <1>10 DEF Lookup

\* A new alert: it is the newest of its key, the only one of now, and those before it are
\* finished.
LEMMA IncidentInsert ==
  ASSUME RearmCoversTheRest, TypeOK, QueueOfStored, NowIsNow, ReopenInv, IncidentInv, Insert
  PROVE  IncidentInv'
<1>0. /\ op.step = "insert" /\ op'.step = "eval" /\ UNCHANGED <<queue, clock>>
      /\ op.now = clock /\ clock \in Nat /\ NoneWaits(queue, alerts, op.k) /\ MemoryCoversTheLag
  BY ClockType DEF Insert, Handled, NowIsNow, ReopenInv, PlaceFits, RearmCoversTheRest
<1>1. op.k \in Keys
  BY <1>0, OpShape DEF TypeOK
<1>2. /\ TriggersFit(alerts, recent, clock) /\ MemoryFits(alerts, queue, recent)
      /\ HeartbeatsFit(alerts, queue, seenAt) /\ OlderAreFinished(alerts, queue, clock)
      /\ \A x \in AlertIds : IsStored(alerts, x) => seenAt[x] # Never
  BY <1>0, MemoryCovers DEF IncidentInv
<1>3. /\ \A x \in AlertIds : IsStored(alerts, x) /\ alerts[x].key = op.k => alerts[x].at < clock
      /\ \A x \in AlertIds : IsNewest(alerts, op.k, x) => MakesRoom(op, alerts, queue, seenAt, x)
  BY <1>0 DEF IncidentInv, IncidentFits
<1>4. \A x \in AlertIds : IsStored(alerts, x) =>
         alerts[x].at \in Nat /\ alerts[x].seen \in Nat /\ alerts[x].key \in Keys
  BY DEF TypeOK, IsStored, Alert
<1>5. CASE UNCHANGED <<alerts, recent, seenAt>>
  <2>1. IncidentFits(op', alerts, queue, seenAt, clock)
    BY <1>0, QuietPlace
  <2> QED
    BY <1>0, <1>2, <1>5, <2>1, IncidentSame
<1>6. ASSUME NEW id \in AlertIds \ Stored, Adds(id), Remember(id), seenAt' = [seenAt EXCEPT ![id] = op.now]
      PROVE  IncidentInv'
  <2>1. PICK table : table = alerts'
    OBVIOUS
  <2>2. /\ table[id] = [key |-> op.k, st |-> "active", at |-> clock, seen |-> clock, peak |-> op.v]
        /\ \A x \in AlertIds \ {id} : table[x] = alerts[x]
    BY <1>0, <1>6, <2>1 DEF Adds, TypeOK
  <2>3. /\ table[id].key = op.k /\ table[id].at = clock /\ table[id].seen = clock
        /\ table[id] # NoAlert /\ IsStored(table, id)
    <3>1. table[id].key = op.k /\ table[id].at = clock /\ table[id].seen = clock /\ table[id].st = "active"
      BY <2>2
    <3>2. NoAlert.st = "none"
      BY DEF NoAlert
    <3> QED
      BY <3>1, <3>2 DEF IsStored
  <2>4. ~IsStored(alerts, id) /\ id \in AlertIds
    BY DEF IsStored, Stored
  <2>5. \A x \in AlertIds : IsStored(table, x) <=> x = id \/ IsStored(alerts, x)
    BY <2>2, <2>3, <2>4 DEF IsStored
  <2>6. \A x \in AlertIds : IsStored(alerts, x) => x # id /\ table[x] = alerts[x]
    BY <2>2, <2>4
  <2>7. PICK mem : mem = recent'
    OBVIOUS
  <2>8. /\ mem[op.k] # NoRecent /\ mem[op.k].at = clock /\ mem[op.k].id = id
        /\ \A k \in Keys \ {op.k} : mem[k] = recent[k]
    <3>1. mem[op.k] = [id |-> id, at |-> clock] /\ \A k \in Keys \ {op.k} : mem[k] = recent[k]
      BY <1>0, <1>1, <1>6, <2>7 DEF TypeOK, Remember
    <3>2. [id |-> id, at |-> clock] # NoRecent
      BY DEF NoRecent
    <3> QED
      BY <3>1, <3>2
  <2>9. TriggersFit(table, mem, clock)
    <3>1. ASSUME NEW x \in AlertIds, IsStored(table, x)
          PROVE  /\ table[x].at <= clock
                 /\ table[x].at = clock => mem[table[x].key] # NoRecent /\ mem[table[x].key].at = clock
                 /\ \A y \in AlertIds : IsStored(table, y) /\ table[y].key = table[x].key
                                        /\ table[y].at = table[x].at => y = x
      <4>1. CASE x = id
        <5>1. ASSUME NEW y \in AlertIds, IsStored(table, y), table[y].key = op.k, table[y].at = clock, y # id
              PROVE  FALSE
          <6>1. IsStored(alerts, y) /\ alerts[y].key = op.k /\ alerts[y].at = clock
            BY <2>5, <2>6, <5>1
          <6> QED
            BY <1>0, <1>3, <6>1
        <5> QED
          BY <1>0, <2>3, <2>8, <4>1, <5>1
      <4>2. CASE x # id
        <5>1. IsStored(alerts, x) /\ table[x] = alerts[x] /\ alerts[x].at \in Nat /\ alerts[x].key \in Keys
          BY <1>4, <2>5, <2>6, <3>1, <4>2
        <5>2. /\ alerts[x].at <= clock
              /\ alerts[x].at = clock => recent[alerts[x].key] # NoRecent /\ recent[alerts[x].key].at = clock
          BY <1>2, <5>1 DEF TriggersFit
        <5>3. alerts[x].at = clock => alerts[x].key # op.k
          BY <1>0, <1>3, <5>1
        <5>4. ASSUME NEW y \in AlertIds, IsStored(table, y), table[y].key = alerts[x].key,
                     table[y].at = alerts[x].at
              PROVE  y = x
          <6>1. y # id
            BY <2>3, <5>3, <5>4
          <6>2. IsStored(alerts, y) /\ table[y] = alerts[y]
            BY <2>5, <2>6, <5>4, <6>1
          <6> QED
            BY <1>2, <5>1, <5>4, <6>2 DEF TriggersFit
        <5> QED
          BY <2>8, <5>1, <5>2, <5>3, <5>4
      <4> QED
        BY <4>1, <4>2
    <3> QED
      BY <3>1 DEF TriggersFit
  <2>10. MemoryFits(table, queue, mem)
    <3> SUFFICES ASSUME NEW k \in Keys, mem[k] # NoRecent
                 PROVE  /\ IsNewest(table, k, mem[k].id)
                        /\ table[mem[k].id].seen >= mem[k].at \/ ReopenWaits(queue, mem[k].id, mem[k].at)
      BY DEF MemoryFits
    <3>1. CASE k = op.k
      <4>1. ASSUME NEW x \in AlertIds, IsStored(table, x), table[x].key = k PROVE table[x].at <= clock
        BY <2>9, <4>1 DEF TriggersFit
      <4>2. IsNewest(table, k, id)
        BY <2>3, <3>1, <4>1 DEF IsNewest
      <4> QED
        BY <1>0, <2>3, <2>8, <3>1, <4>2
    <3>2. CASE k # op.k
      <4>1. /\ mem[k] = recent[k] /\ IsNewest(alerts, k, mem[k].id)
            /\ alerts[mem[k].id].seen >= mem[k].at \/ ReopenWaits(queue, mem[k].id, mem[k].at)
        BY <1>2, <2>8, <3>2 DEF MemoryFits
      <4>2. mem[k].id \in AlertIds /\ IsStored(alerts, mem[k].id) /\ table[mem[k].id] = alerts[mem[k].id]
        BY <2>6, <4>1 DEF IsNewest, IsStored
      <4>3. ASSUME NEW x \in AlertIds, IsStored(table, x), table[x].key = k
            PROVE  table[x].at <= table[mem[k].id].at
        <5>1. IsStored(alerts, x) /\ table[x] = alerts[x]
          BY <2>3, <2>5, <2>6, <3>2, <4>3
        <5> QED
          BY <4>1, <4>2, <4>3, <5>1 DEF IsNewest
      <4>4. IsStored(table, mem[k].id) /\ table[mem[k].id].key = k
        BY <2>5, <4>1, <4>2 DEF IsNewest
      <4>5. IsNewest(table, k, mem[k].id)
        BY <4>3, <4>4 DEF IsNewest
      <4> QED
        BY <4>1, <4>2, <4>5
    <3> QED
      BY <3>1, <3>2
  <2>a. PICK at : at = seenAt' /\ \A x \in AlertIds \ {id} : at[x] = seenAt[x]
    BY <1>6 DEF TypeOK
  <2>11. HeartbeatsFit(table, queue, at)
    <3> SUFFICES ASSUME NEW i \in 1..Len(queue), queue[i].kind = "touch"
                 PROVE  Held(table, queue, queue[i].id, queue[i].ts) /\ at[queue[i].id] >= queue[i].ts
      BY DEF HeartbeatsFit
    <3>1. Held(alerts, queue, queue[i].id, queue[i].ts) /\ seenAt[queue[i].id] >= queue[i].ts
      BY <1>2 DEF HeartbeatsFit
    <3>2. queue[i].id \in AlertIds /\ IsStored(alerts, queue[i].id)
      BY DEF QueueOfStored, Stored, IsStored
    <3> QED
      BY <2>6, <2>a, <3>1, <3>2 DEF Held
  <2>12. OlderAreFinished(table, queue, clock)
    <3> SUFFICES ASSUME NEW x \in AlertIds, NEW y \in AlertIds, IsStored(table, x), IsStored(table, y),
                        table[x].key = table[y].key, table[x].at < table[y].at
                 PROVE  Finished(table[x], queue, x, clock)
      BY DEF OlderAreFinished
    <3>1. x # id
      <4>1. table[y].at <= clock /\ table[y].at \in Nat
        BY <1>0, <1>4, <2>3, <2>5, <2>6, <2>9 DEF TriggersFit
      <4> QED
        BY <1>0, <2>3, <4>1
    <3>2. IsStored(alerts, x) /\ table[x] = alerts[x]
      BY <2>5, <2>6, <3>1
    <3>3. CASE \E z \in AlertIds :
                 IsStored(alerts, z) /\ alerts[x].key = alerts[z].key /\ alerts[x].at < alerts[z].at
      BY <1>2, <3>2, <3>3 DEF OlderAreFinished
    <3>4. CASE ~\E z \in AlertIds :
                 IsStored(alerts, z) /\ alerts[x].key = alerts[z].key /\ alerts[x].at < alerts[z].at
      <4>1. y = id
        BY <2>5, <2>6, <3>2, <3>4
      <4>2. alerts[x].key = op.k
        BY <2>3, <3>2, <4>1
      <4>3. \A z \in AlertIds : IsStored(alerts, z) /\ alerts[z].key = op.k => alerts[z].at <= alerts[x].at
        BY <1>4, <3>2, <3>4, <4>2
      <4>4. IsNewest(alerts, op.k, x)
        BY <3>2, <4>2, <4>3 DEF IsNewest
      <4>5. MakesRoom(op, alerts, queue, seenAt, x)
        BY <1>3, <4>4
      <4>6. CASE alerts[x].st # "active"
        <5>1. \A i \in 1..Len(queue) : queue[i].kind = "reopen" => queue[i].id # x
          BY <1>0, <4>2 DEF NoneWaits
        <5> QED
          BY <3>2, <4>6, <5>1 DEF Finished
      <4>7. CASE alerts[x].seen <= op.now - Rearm /\ NoBeatWaits(queue, x)
        <5>1. Stale < Rearm /\ Stale \in Nat /\ Rearm \in Nat
          <6>1. Outage * MaxFaults \in Nat
            BY MissedGrows, ChaseTypes
          <6>2. Stale \in Nat /\ Rearm \in Nat /\ MaxLag \in Nat /\ MaxGap \in Nat
            BY EngineAssumption
          <6>3. PICK failed \in Nat : Stale + MaxLag + MaxLag + MaxGap + failed < Rearm
            BY <6>1 DEF RearmCoversTheRest
          <6> QED
            BY <6>2, <6>3
        <5>2. alerts[x].seen < clock - Stale
          BY <1>0, <1>4, <3>2, <4>7, <5>1
        <5> QED
          BY <3>2, <4>7, <5>2 DEF Finished
      <4> QED
        BY <4>5, <4>6, <4>7 DEF MakesRoom
    <3> QED
      BY <3>3, <3>4
  <2>13. \A x \in AlertIds : IsStored(table, x) => seenAt'[x] # Never
    <3>1. seenAt \in [AlertIds -> Nat \cup {Never}] /\ op.now # Never
      BY <1>0 DEF TypeOK, Never
    <3> QED
      BY <1>2, <1>6, <2>4, <2>5, <3>1
  <2>14. IncidentFits(op', table, queue, seenAt', clock)
    BY <1>0, QuietPlace
  <2> QED
    BY <1>0, <2>1, <2>7, <2>9, <2>10, <2>a, <2>11, <2>12, <2>13, <2>14, MemoryCovers DEF IncidentInv
<1>7. \/ UNCHANGED <<alerts, recent, seenAt>>
      \/ \E id \in AlertIds \ Stored : Adds(id) /\ Remember(id) /\ seenAt' = [seenAt EXCEPT ![id] = op.now]
  BY DEF Insert, Adds, Fault, RearmCoversTheRest
<1> QED
  BY <1>5, <1>6, <1>7

\* Time passes between violations: what is old gets older.
LEMMA IncidentTick ==
  ASSUME TypeOK, IncidentInv, Tick
  PROVE  IncidentInv'
<1>0. /\ clock' = clock + 1 /\ UNCHANGED <<alerts, queue, recent, seenAt, op, began>>
      /\ clock \in Nat /\ Stale \in Nat
      /\ op'.step \notin {"lookup", "insert", "touch", "reopen"}
  <2>1. clock' = clock + 1 /\ UNCHANGED <<alerts, queue, recent, seenAt, op, began>>
    BY DEF Tick
  <2>2. op.step = "starting" \/ op.step \in {"idle", "eval"}
    <3>1. op = Starting \/ op.step \in {"idle", "eval"}
      BY DEF Tick
    <3>2. Starting.step = "starting"
      BY DEF Starting
    <3> QED
      BY <3>1, <3>2
  <2>3. clock \in Nat /\ Stale \in Nat
    BY ClockType, EngineAssumption
  <2> QED
    BY <2>1, <2>2, <2>3
<1>1. /\ TriggersFit(alerts, Covering(op, began, recent), clock) /\ MemoryFits(alerts, queue, recent)
      /\ HeartbeatsFit(alerts, queue, seenAt) /\ OlderAreFinished(alerts, queue, clock)
      /\ \A x \in AlertIds : IsStored(alerts, x) => seenAt[x] # Never
  BY DEF IncidentInv
<1>2. \A x \in AlertIds : IsStored(alerts, x) => alerts[x].at \in Nat /\ alerts[x].seen \in Nat
  BY DEF TypeOK, IsStored, Alert
<1>3. \A mem : TriggersFit(alerts, mem, clock + 1)
  <2>1. ASSUME NEW x \in AlertIds, IsStored(alerts, x)
        PROVE  /\ alerts[x].at <= clock + 1 /\ alerts[x].at # clock + 1
               /\ \A y \in AlertIds : IsStored(alerts, y) /\ alerts[y].key = alerts[x].key
                                      /\ alerts[y].at = alerts[x].at => y = x
    BY <1>0, <1>1, <1>2, <2>1 DEF TriggersFit
  <2> QED
    BY <2>1 DEF TriggersFit
<1>4. OlderAreFinished(alerts, queue, clock + 1)
  <2> SUFFICES ASSUME NEW x \in AlertIds, NEW y \in AlertIds, IsStored(alerts, x), IsStored(alerts, y),
                      alerts[x].key = alerts[y].key, alerts[x].at < alerts[y].at
               PROVE  Finished(alerts[x], queue, x, clock + 1)
    BY DEF OlderAreFinished
  <2>1. Finished(alerts[x], queue, x, clock)
    BY <1>1 DEF OlderAreFinished
  <2>2. CASE alerts[x].seen < clock - Stale /\ NoBeatWaits(queue, x)
    <3>1. alerts[x].seen < (clock + 1) - Stale
      BY <1>0, <1>2, <2>2
    <3> QED
      BY <2>2, <3>1 DEF Finished
  <2>3. CASE ~(alerts[x].seen < clock - Stale /\ NoBeatWaits(queue, x))
    BY <2>1, <2>3 DEF Finished
  <2> QED
    BY <2>2, <2>3
<1>5. IncidentFits(op', alerts, queue, seenAt, clock + 1)
  BY <1>0, QuietPlace
<1> QED
  BY <1>0, <1>1, <1>3, <1>4, <1>5 DEF IncidentInv

\* What is forgotten is not of now.
LEMMA IncidentCleanup ==
  ASSUME TypeOK, IncidentInv, CleanupCooldown
  PROVE  IncidentInv'
<1>0. /\ UNCHANGED <<alerts, queue, op, began, clock, seenAt>> /\ clock \in Nat /\ RecentMaxAge \in Nat
      /\ recent' = [k \in Keys |-> IF recent[k] # NoRecent /\ recent[k].at < clock - RecentMaxAge
                                   THEN NoRecent ELSE recent[k]]
  BY ClockType, EngineAssumption DEF CleanupCooldown
<1>1. /\ TriggersFit(alerts, Covering(op, began, recent), clock) /\ MemoryFits(alerts, queue, recent)
      /\ HeartbeatsFit(alerts, queue, seenAt) /\ OlderAreFinished(alerts, queue, clock)
      /\ \A x \in AlertIds : IsStored(alerts, x) => seenAt[x] # Never
      /\ IncidentFits(op, alerts, queue, seenAt, clock)
  BY DEF IncidentInv
<1>2. PICK mem : mem = recent'
  OBVIOUS
<1>3. \A k \in Keys : /\ mem[k] = recent[k] \/ mem[k] = NoRecent
                      /\ recent[k] # NoRecent /\ recent[k].at = clock => mem[k] = recent[k]
  BY <1>0, <1>2
<1>4. MemoryFits(alerts, queue, mem)
  BY <1>1, <1>3 DEF MemoryFits
<1>5. \A x \in AlertIds : IsStored(alerts, x) => alerts[x].key \in Keys
  BY DEF TypeOK, IsStored, Alert
<1>6. TriggersFit(alerts, Covering(op, began, mem), clock)
  <2>1. CASE op.step = "starting"
    BY <1>1, <2>1 DEF Covering
  <2>2. CASE op.step # "starting"
    <3>1. TriggersFit(alerts, recent, clock)
      BY <1>1, <2>2, MemoryCovers
    <3>2. TriggersFit(alerts, mem, clock)
      BY <1>3, <1>5, <3>1 DEF TriggersFit
    <3> QED
      BY <2>2, <3>2, MemoryCovers
  <2> QED
    BY <2>1, <2>2
<1> QED
  BY <1>0, <1>1, <1>2, <1>4, <1>6 DEF IncidentInv

\* The next mutation is applied.
LEMMA IncidentApply ==
  ASSUME RearmCoversTheRest, EngineInv, ReopenInv, ChaseInv, IncidentInv, ApplyMutation
  PROVE  IncidentInv'
<1>0. /\ TypeOK /\ QueueOfStored /\ InOrder /\ NowIsNow
      /\ queue # <<>> /\ alerts' = Apply(Head(queue), alerts) /\ queue' = Tail(queue)
      /\ UNCHANGED <<recent, op, began, clock, seenAt>>
  BY DEF EngineInv, QueueInv, BookInv, ApplyMutation
<1>1. /\ TriggersFit(alerts, Covering(op, began, recent), clock) /\ MemoryFits(alerts, queue, recent)
      /\ HeartbeatsFit(alerts, queue, seenAt) /\ OlderAreFinished(alerts, queue, clock)
      /\ \A x \in AlertIds : IsStored(alerts, x) => seenAt[x] # Never
      /\ IncidentFits(op, alerts, queue, seenAt, clock)
  BY DEF IncidentInv
<1>2. /\ alerts \in [AlertIds -> Alert \cup {NoAlert}] /\ queue \in Seq(Mutation) /\ clock \in Nat
      /\ \A k \in Keys : recent[k] # NoRecent => recent[k].at \in Nat
  BY <1>0, ClockType DEF TypeOK
<1>3. MaxLag + MaxLag < Rearm
  <2>1. Outage * MaxFaults \in Nat
    BY <1>0, MissedGrows, ChaseTypes
  <2>2. Stale \in Nat /\ Rearm \in Nat /\ MaxLag \in Nat /\ MaxGap \in Nat
    BY EngineAssumption
  <2>3. PICK failed \in Nat : Stale + MaxLag + MaxLag + MaxGap + failed < Rearm
    BY <2>1 DEF RearmCoversTheRest
  <2> QED
    BY <2>2, <2>3
<1>4. \A i \in 1..Len(queue) :
        queue[i].kind \in {"touch", "reopen", "status"} => IsStored(alerts, queue[i].id)
  BY <1>0 DEF QueueOfStored, Stored, IsStored
<1>5. ASSUME NEW i \in 1..Len(queue), queue[i].kind \in {"touch", "reopen"}
      PROVE  /\ alerts[queue[i].id].seen <= queue[i].ts
             /\ queue[i].ts <= clock /\ clock <= queue[i].ts + MaxLag
  <2>1. queue[i].id \in Stored /\ Beat(queue[i], queue[i].id)
    BY <1>0, <1>5 DEF QueueOfStored, Beat
  <2>2. alerts[queue[i].id].seen <= queue[i].ts /\ queue[i].ts <= clock
    BY <1>0, <2>1 DEF InOrder
  <2>3. queue[i].due = queue[i].ts + MaxLag /\ clock <= queue[i].due
    BY <1>5 DEF ChaseInv, IssuedInTime, ReopenInv, DuesFit
  <2> QED
    BY <2>2, <2>3
<1>6. op.step = "insert" => NoneWaits(queue, alerts, op.k)
  BY DEF ReopenInv, PlaceFits
<1>7. op.step = "touch" => op.now = clock
  BY <1>0 DEF NowIsNow
<1>8. PICK table, rest : table = Apply(Head(queue), alerts) /\ rest = Tail(queue)
  OBVIOUS
<1>9. /\ TriggersFit(table, Covering(op, began, recent), clock) /\ MemoryFits(table, rest, recent)
      /\ HeartbeatsFit(table, rest, seenAt)
      /\ OlderAreFinished(table, rest, clock) /\ IncidentFits(op, table, rest, seenAt, clock)
      /\ \A x \in AlertIds : IsStored(table, x) <=> IsStored(alerts, x)
  BY <1>0, <1>1, <1>2, <1>3, <1>4, <1>5, <1>6, <1>7, <1>8, IncidentApplied
<1> QED
  BY <1>0, <1>1, <1>8, <1>9 DEF IncidentInv

LEMMA IncidentStep ==
  RearmCoversTheRest /\ EngineInv /\ ReopenInv /\ ChaseInv /\ IncidentInv /\ [Next]_vars => IncidentInv'
<1> SUFFICES ASSUME RearmCoversTheRest, EngineInv, ReopenInv, ChaseInv, IncidentInv, [Next]_vars
             PROVE  IncidentInv'
  OBVIOUS
<1>0. /\ TypeOK /\ QueueOfStored /\ InOrder /\ BookInv /\ NowIsNow /\ op \in {Starting, Idle} \cup Cycle
      /\ MemoryCoversTheLag
  BY DEF EngineInv, QueueInv, BookInv, TypeOK, RearmCoversTheRest
<1>1. /\ Due \in Nat /\ IncidentFits(op, alerts, queue, seenAt, clock)
      /\ \A x \in AlertIds : IsStored(alerts, x) => seenAt[x] # Never
  BY <1>0, ClockType DEF IncidentInv
<1>2. CASE AutoResolveProbe \/ CycleEnd
  <2>1. /\ op.step # "starting" /\ op'.step \notin {"starting", "lookup", "insert", "touch", "reopen"}
        /\ UNCHANGED <<alerts, queue, recent, clock, seenAt>>
    BY <1>2 DEF AutoResolveProbe, CycleEnd, Evaluate, Idle
  <2>2. IncidentFits(op', alerts, queue, seenAt, clock)
    BY <2>1, QuietPlace
  <2> QED
    BY <2>1, <2>2, IncidentSame
\* No alert is of now when the first cycle of a process begins.
<1>15. CASE CycleBegin
  <2>1. /\ op'.step = "probe" /\ UNCHANGED <<alerts, queue, recent, clock, seenAt>>
        /\ op = Idle \/ (op = Starting /\ clock >= began + Wait)
    BY <1>15 DEF CycleBegin
  <2>2. IncidentFits(op', alerts, queue, seenAt, clock)
    BY <2>1, QuietPlace
  <2>3. CASE op = Idle
    <3>1. op.step # "starting"
      BY <2>3 DEF Idle
    <3> QED
      BY <2>1, <2>2, <3>1, IncidentSame
  <2>4. CASE op = Starting /\ clock >= began + Wait
    <3>1. began # clock
      <4>1. began \in Nat /\ clock \in Nat /\ Wait \in Nat \ {0}
        BY <1>0, ChaseTypes, EngineAssumption
      <4> QED
        BY <2>4, <4>1
    <3>2. ASSUME NEW x \in AlertIds, IsStored(alerts, x) PROVE alerts[x].at # clock
      <4> DEFINE k == alerts[x].key
      <4>1. k \in Keys
        BY <1>0, <3>2 DEF TypeOK, IsStored, Alert
      <4>2. Covering(op, began, recent)[k].at = began
        BY <2>4, <4>1 DEF Covering, Starting
      <4>3. alerts[x].at = clock => Covering(op, began, recent)[k].at = clock
        BY <3>2 DEF IncidentInv, TriggersFit
      <4> QED
        BY <3>1, <4>2, <4>3
    <3>3. TriggersFit(alerts, Covering(op', began', recent'), clock)
      BY <3>2 DEF IncidentInv, TriggersFit
    <3> QED
      BY <2>1, <2>2, <3>3, IncidentSame
  <2> QED
    BY <2>1, <2>3, <2>4
<1>3. CASE AutoResolveMutate
  <2> DEFINE m == [kind |-> "stale", cut |-> op.cut, fresh |-> Firing(op.cut), due |-> Due]
  <2>1. op.cut \in Int /\ Firing(op.cut) \in SUBSET AlertIds
    BY <1>0, <1>3, OpShape DEF AutoResolveMutate, Firing, Stored
  <2>2. m \in Mutation /\ m.kind \notin {"touch", "reopen"}
    BY <1>1, <2>1 DEF Mutation
  <2>3. /\ op.step # "starting" /\ op'.step \notin {"starting", "lookup", "insert", "touch", "reopen"}
        /\ UNCHANGED <<alerts, recent, clock, seenAt, began>>
        /\ queue' = Append(queue, m) \/ UNCHANGED queue
    BY <1>3 DEF AutoResolveMutate, Evaluate, Written, WriteFails, Issue
  <2> HIDE DEF m
  <2> QED
    BY <1>0, <2>2, <2>3, IncidentIssued
<1>4. ASSUME NEW k \in Keys, NEW v \in Values, Violation(k, v) PROVE IncidentInv'
  BY <1>0, <1>4, IncidentViolation
<1>5. CASE Lookup
  BY <1>0, <1>5, IncidentLookup
<1>6. CASE Touch
  BY <1>0, <1>6, IncidentTouch
<1>7. CASE Reopen
  BY <1>0, <1>7, IncidentReopen
<1>8. CASE Insert
  BY <1>0, <1>8, IncidentInsert
<1>9. CASE ApplyMutation
  BY <1>9, IncidentApply
<1>10. CASE CleanupCooldown
  BY <1>0, <1>10, IncidentCleanup
\* The memory is lost, and the wait that follows covers what is of now.
<1>11. CASE Crash
  <2>1. /\ op' = Starting /\ began' = clock /\ recent' = [k \in Keys |-> NoRecent]
        /\ UNCHANGED <<alerts, queue, clock, seenAt>>
    BY <1>11 DEF Crash
  <2>2. \A k \in Keys : /\ Covering(op', began', recent')[k] # NoRecent
                         /\ Covering(op', began', recent')[k].at = clock
    <3>1. \A k \in Keys : Covering(op', began', recent')[k] = [at |-> clock]
      BY <2>1 DEF Covering, Starting
    <3>2. [at |-> clock] # NoRecent /\ [at |-> clock].at = clock
      BY <1>0, ClockType DEF NoRecent, Never
    <3> QED
      BY <3>1, <3>2
  <2>3. \A x \in AlertIds : IsStored(alerts, x) => alerts[x].key \in Keys
    BY <1>0 DEF TypeOK, IsStored, Alert
  <2>4. TriggersFit(alerts, Covering(op', began', recent'), clock)
    BY <2>2, <2>3 DEF IncidentInv, TriggersFit
  <2>5. IncidentFits(op', alerts, queue, seenAt, clock)
    BY <2>1, QuietPlace DEF Starting
  <2> QED
    BY <2>1, <2>4, <2>5, IncidentSame
<1>12. CASE Tick
  BY <1>0, <1>12, IncidentTick
<1>13. ASSUME NEW id \in Stored, NEW st \in Verdicts, Verdict(id, st) PROVE IncidentInv'
  <2> DEFINE m == [kind |-> "status", id |-> id, st |-> st, due |-> Due]
  <2>1. m \in Mutation /\ m.kind \notin {"touch", "reopen"}
    BY <1>1 DEF Mutation, Stored
  <2>2. queue' = Append(queue, m) /\ UNCHANGED <<alerts, recent, clock, op, began, seenAt>>
    BY <1>13 DEF Verdict, Issue
  <2> HIDE DEF m
  <2> QED
    BY <1>0, <2>1, <2>2, IncidentIssued
<1>14. CASE UNCHANGED vars
  <2>1. UNCHANGED <<alerts, queue, recent, clock, op, began, seenAt>>
    BY <1>14 DEF vars
  <2>2. TriggersFit(alerts, Covering(op', began', recent'), clock)
    BY <2>1 DEF IncidentInv, Covering
  <2> QED
    BY <1>1, <2>1, <2>2, IncidentSame
<1> QED
  BY <1>2, <1>3, <1>4, <1>5, <1>6, <1>7, <1>8, <1>9, <1>10, <1>11, <1>12, <1>13, <1>14,
     <1>15 DEF Next, CycleStep

\* At first no alert is stored.
LEMMA IncidentInitially == Init => IncidentInv
<1> SUFFICES ASSUME Init PROVE IncidentInv
  OBVIOUS
<1>1. /\ Len(queue) = 0 /\ op.step = "starting" /\ \A k \in Keys : recent[k] = NoRecent
      /\ \A x \in AlertIds : ~IsStored(alerts, x)
  BY DEF Init, Starting, IsStored
<1>2. TriggersFit(alerts, Covering(op, began, recent), clock) /\ MemoryFits(alerts, queue, recent)
  BY <1>1 DEF TriggersFit, MemoryFits
<1>3. HeartbeatsFit(alerts, queue, seenAt) /\ OlderAreFinished(alerts, queue, clock)
  BY <1>1 DEF HeartbeatsFit, OlderAreFinished
<1>4. IncidentFits(op, alerts, queue, seenAt, clock)
  BY <1>1, QuietPlace
<1> QED
  BY <1>1, <1>2, <1>3, <1>4 DEF IncidentInv

-----------------------------------------------------------------------------
(* The settled table. *)

\* A set of numbers below some number has a last one: else the numbers up to one of it
\* would be mapped to the next ones, one by one and without a first.
LEMMA LastExists ==
  ASSUME NEW n \in Nat, NEW S \in SUBSET (0 .. n), S # {}
  PROVE  \E i \in S : \A j \in S : i >= j
<1> DEFINE upTo == {k \in 0 .. n : \E i \in S : k <= i}
           next == [k \in upTo |-> k + 1]
<1>1. ASSUME \A i \in S : \E j \in S : ~ (i >= j) PROVE FALSE
  <2>1. next \in [upTo -> upTo \ {0}]
    <3> SUFFICES ASSUME NEW k \in upTo PROVE k + 1 \in upTo \ {0}
      OBVIOUS
    <3>1. PICK i \in S : k <= i
      OBVIOUS
    <3>2. PICK j \in S : ~ (i >= j)
      BY <1>1
    <3>3. k \in 0 .. n /\ i \in 0 .. n /\ j \in 0 .. n
      OBVIOUS
    <3>4. k + 1 \in 0 .. n /\ k + 1 <= j /\ k + 1 # 0
      BY <3>1, <3>2, <3>3
    <3> QED
      BY <3>4
  <2>2. 0 \in upTo
    <3>1. PICK i \in S : i \in 0 .. n
      OBVIOUS
    <3>2. 0 \in 0 .. n /\ 0 <= i
      BY <3>1
    <3> QED
      BY <3>2
  <2>3. IsFiniteSet(upTo)
    <3>1. IsFiniteSet(0 .. n) /\ upTo \in SUBSET (0 .. n)
      BY FS_Interval
    <3> QED
      BY <3>1, FS_Subset
  <2>4. \A k, l \in upTo : next[k] = next[l] => k = l
    <3>1. \A k \in upTo : next[k] = k + 1 /\ k \in Int
      OBVIOUS
    <3> QED
      BY <3>1
  <2> HIDE DEF upTo, next
  <2>5. Cardinality(upTo) \in Nat
    BY <2>3, FS_CardinalityType
  <2>6. IsFiniteSet(upTo \ {0}) /\ Cardinality(upTo \ {0}) = Cardinality(upTo) - 1
    BY <2>2, <2>3, FS_RemoveElement
  <2>7. Cardinality(upTo \ {0}) < Cardinality(upTo)
    BY <2>5, <2>6
  <2> QED
    BY <2>1, <2>3, <2>4, <2>6, <2>7, FS_PigeonHole
<1> QED
  BY <1>1

\* A set with 0, and with the next number of each of its numbers, has them all: else the
\* last one up to which it has them all would have a next.
LEMMA AllReached ==
  ASSUME NEW n \in Nat, NEW S, 0 \in S, \A i \in 0 .. n : i \in S /\ i < n => i + 1 \in S
  PROVE  n \in S
<1> DEFINE prefix == {k \in 0 .. n : \A i \in 0 .. k : i \in S}
<1>1. 0 \in prefix
  <2>1. \A i \in 0 .. 0 : i = 0
    OBVIOUS
  <2> QED
    BY <2>1
<1>2. prefix \in SUBSET (0 .. n) /\ prefix # {}
  BY <1>1
<1> HIDE DEF prefix
<1>3. PICK k \in prefix : \A j \in prefix : k >= j
  BY <1>2, LastExists
<1>4. k \in 0 .. n /\ \A i \in 0 .. k : i \in S
  BY DEF prefix
<1>5. CASE k = n
  BY <1>4, <1>5
<1>6. CASE k < n
  <2>1. k + 1 \in 0 .. n /\ k + 1 \in S
    <3>1. k \in 0 .. k
      BY <1>4
    <3> QED
      BY <1>4, <1>6, <3>1
  <2>2. \A i \in 0 .. (k + 1) : i \in 0 .. k \/ i = k + 1
    BY <1>4
  <2>3. k + 1 \in prefix
    BY <1>4, <2>1, <2>2 DEF prefix
  <2>4. k >= k + 1
    BY <1>3, <2>3
  <2> QED
    BY <1>4, <2>4
<1> QED
  BY <1>4, <1>5, <1>6

\* f holds the tables in between, up to the one after n mutations.
SettlesUpTo(f, q, table, n) ==
  f = [i \in 0 .. n |-> IF i = 0 THEN table ELSE Apply(q[i], f[i - 1])]

\* There is such a function: one up to n goes on to n + 1.
LEMMA SettlesExists ==
  ASSUME NEW q, NEW table, NEW n \in Nat
  PROVE  \E f : SettlesUpTo(f, q, table, n)
<1> DEFINE S == {k \in 0 .. n : \E f : SettlesUpTo(f, q, table, k)}
<1>1. 0 \in S
  <2> DEFINE f == [i \in 0 .. 0 |-> table]
  <2>1. f = [i \in 0 .. 0 |-> IF i = 0 THEN table ELSE Apply(q[i], f[i - 1])]
    OBVIOUS
  <2>2. SettlesUpTo(f, q, table, 0)
    BY <2>1 DEF SettlesUpTo
  <2> QED
    BY <2>2
<1>2. ASSUME NEW k \in 0 .. n, k \in S, k < n PROVE k + 1 \in S
  <2>1. PICK f : SettlesUpTo(f, q, table, k)
    BY <1>2
  <2> DEFINE g == [i \in 0 .. (k + 1) |-> IF i = k + 1 THEN Apply(q[k + 1], f[k]) ELSE f[i]]
  <2>2. k \in Nat
    OBVIOUS
  <2>3. \A i \in 0 .. k : f[i] = IF i = 0 THEN table ELSE Apply(q[i], f[i - 1])
    BY <2>1 DEF SettlesUpTo
  <2>4. \A i \in 0 .. (k + 1) : g[i] = IF i = 0 THEN table ELSE Apply(q[i], g[i - 1])
    <3> SUFFICES ASSUME NEW i \in 0 .. (k + 1) PROVE g[i] = IF i = 0 THEN table ELSE Apply(q[i], g[i - 1])
      OBVIOUS
    <3>1. CASE i = k + 1
      <4>1. i # 0 /\ i - 1 = k /\ k \in 0 .. (k + 1) /\ k # k + 1
        BY <2>2, <3>1
      <4>2. g[i - 1] = f[k]
        BY <4>1
      <4>3. g[i] = Apply(q[i], f[k])
        BY <3>1
      <4> QED
        BY <4>1, <4>2, <4>3
    <3>2. CASE i # k + 1
      <4>1. i \in 0 .. k /\ g[i] = f[i]
        BY <2>2, <3>2
      <4>2. i # 0 => i - 1 \in 0 .. (k + 1) /\ i - 1 # k + 1
        BY <2>2, <3>2
      <4>3. i # 0 => g[i - 1] = f[i - 1]
        BY <4>2
      <4> QED
        BY <2>3, <4>1, <4>3
    <3> QED
      BY <3>1, <3>2
  <2>5. g = [i \in 0 .. (k + 1) |-> g[i]]
    OBVIOUS
  <2> HIDE DEF g
  <2>6. SettlesUpTo(g, q, table, k + 1)
    BY <2>4, <2>5 DEF SettlesUpTo
  <2>7. k + 1 \in 0 .. n
    BY <1>2, <2>2
  <2> QED
    BY <2>6, <2>7
<1> HIDE DEF S
<1>3. n \in S
  BY <1>1, <1>2, AllReached
<1> QED
  BY <1>3 DEF S

\* The settled table comes from the table, one mutation after the other.
LEMMA SettledSteps ==
  ASSUME NEW q \in Seq(Mutation), NEW table
  PROVE  \E f : /\ Settled(q, table) = f[Len(q)] /\ f[0] = table
                /\ \A i \in 1 .. Len(q) : f[i] = Apply(q[i], f[i - 1])
<1> DEFINE f == CHOOSE f : f = [i \in 0 .. Len(q) |-> IF i = 0 THEN table ELSE Apply(q[i], f[i - 1])]
<1>1. Len(q) \in Nat
  OBVIOUS
<1>2. \E g : g = [i \in 0 .. Len(q) |-> IF i = 0 THEN table ELSE Apply(q[i], g[i - 1])]
  <2>1. \E g : SettlesUpTo(g, q, table, Len(q))
    BY <1>1, SettlesExists
  <2> QED
    BY <2>1 DEF SettlesUpTo
<1>3. f = [i \in 0 .. Len(q) |-> IF i = 0 THEN table ELSE Apply(q[i], f[i - 1])]
  BY <1>2
<1>4. Settled(q, table) = f[Len(q)]
  BY DEF Settled
<1> HIDE DEF f
<1>5. f[0] = table
  BY <1>1, <1>3
<1>6. ASSUME NEW i \in 1 .. Len(q) PROVE f[i] = Apply(q[i], f[i - 1])
  BY <1>1, <1>3
<1> QED
  BY <1>4, <1>5, <1>6

\* What is not active and waits for no re-open settles so; what waits for no heartbeat settles
\* as last seen.
LEMMA SettledRow ==
  ASSUME NEW table \in [AlertIds -> Alert \cup {NoAlert}], NEW q \in Seq(Mutation),
         \A i \in 1 .. Len(q) : q[i].kind \in {"touch", "reopen", "status"} => IsStored(table, q[i].id),
         NEW id \in AlertIds, table[id] # NoAlert
  PROVE  LET row == Settled(q, table)[id]
         IN  /\ row.key = table[id].key
             /\ table[id].st # "active" /\ (\A i \in 1 .. Len(q) : q[i].kind = "reopen" => q[i].id # id)
                  => row.st # "active"
             /\ NoBeatWaits(q, id) => row.seen = table[id].seen
<1>1. PICK f : /\ Settled(q, table) = f[Len(q)] /\ f[0] = table
               /\ \A i \in 1 .. Len(q) : f[i] = Apply(q[i], f[i - 1])
  BY SettledSteps
<1> DEFINE
      Fits(now) ==
        /\ now \in [AlertIds -> Alert \cup {NoAlert}]
        /\ \A x \in AlertIds : now[x] = NoAlert <=> table[x] = NoAlert
        /\ now[id].key = table[id].key
        /\ table[id].st # "active" /\ (\A i \in 1 .. Len(q) : q[i].kind = "reopen" => q[i].id # id)
             => now[id].st # "active"
        /\ NoBeatWaits(q, id) => now[id].seen = table[id].seen
      S == {k \in 0 .. Len(q) : Fits(f[k])}
<1>2. 0 \in S /\ Len(q) \in Nat
  BY <1>1
<1>3. ASSUME NEW k \in 0 .. Len(q), k \in S, k < Len(q) PROVE k + 1 \in S
  <2>1. PICK now, next, m : now = f[k] /\ next = f[k + 1] /\ m = q[k + 1]
    OBVIOUS
  <2>2. k + 1 \in 1 .. Len(q) /\ (k + 1) - 1 = k /\ k + 1 \in 0 .. Len(q)
    BY <1>2, <1>3
  <2>3. m \in Mutation /\ next = Apply(m, now)
    BY <1>1, <2>1, <2>2
  <2>4. Fits(now)
    BY <1>3, <2>1
  <2>5. m.kind \in {"touch", "reopen", "status"} => IsStored(now, m.id)
    BY <2>1, <2>2, <2>4 DEF IsStored
  <2>6. ASSUME NEW x \in AlertIds
        PROVE  /\ next[x] \in Alert \cup {NoAlert}
               /\ next[x] = NoAlert <=> table[x] = NoAlert
    <3>1. now[x] = NoAlert => next[x] = NoAlert
      BY <2>3, <2>4, <2>5, ApplyRow DEF IsStored
    <3>2. now[x] # NoAlert => next[x] \in Alert
      BY <2>3, <2>4, ApplyRow
    <3>3. NoAlert \notin Alert
      BY DEF NoAlert, Alert, Statuses
    <3> QED
      BY <2>4, <3>1, <3>2, <3>3
  <2>7. next \in [AlertIds -> Alert \cup {NoAlert}]
    <3>1. next = [x \in AlertIds |-> next[x]]
      BY <2>3 DEF Apply
    <3> QED
      BY <2>6, <3>1
  <2>8. now[id] # NoAlert
    BY <2>4
  <2>9. next[id].key = now[id].key /\ next[id].seen = IF Beat(m, id) THEN m.ts ELSE now[id].seen
    BY <2>3, <2>4, <2>8, ApplyParts
  <2>10. now[id].st # "active" /\ ~(m.kind = "reopen" /\ m.id = id) => next[id].st # "active"
    BY <2>3, <2>4, <2>8, ApplyStatus
  <2>11. NoBeatWaits(q, id) => ~Beat(m, id)
    BY <2>1, <2>2 DEF NoBeatWaits
  <2>12. (\A i \in 1 .. Len(q) : q[i].kind = "reopen" => q[i].id # id) => ~(m.kind = "reopen" /\ m.id = id)
    BY <2>1, <2>2
  <2>13. Fits(next)
    BY <2>4, <2>6, <2>7, <2>9, <2>10, <2>11, <2>12
  <2> QED
    BY <2>1, <2>2, <2>13
<1> HIDE DEF S
<1>4. Len(q) \in S
  BY <1>2, <1>3, AllReached
<1>5. Fits(f[Len(q)])
  BY <1>4 DEF S
<1> QED
  BY <1>1, <1>5

-----------------------------------------------------------------------------
(* Incidents. *)

\* The invariant behind the two.
IncidentsInv == EngineInv /\ ReopenInv /\ ChaseInv /\ IncidentInv

\* What waits is about stored alerts.
LEMMA QueueStored ==
  ASSUME EngineInv
  PROVE  \A i \in 1 .. Len(queue) :
           queue[i].kind \in {"touch", "reopen", "status"} => IsStored(alerts, queue[i].id)
BY DEF EngineInv, QueueInv, QueueOfStored, Stored, IsStored

\* An alert that is not the newest of its key is not active once the queue is applied.
LEMMA ActiveIsNewest ==
  ASSUME RearmCoversTheRest, IncidentsInv, NEW k \in Keys, NEW x \in ActiveAlerts(k)
  PROVE  IsNewest(alerts, k, x)
<1>0. /\ alerts \in [AlertIds -> Alert \cup {NoAlert}] /\ queue \in Seq(Mutation) /\ clock \in Nat
  BY ClockType DEF IncidentsInv, EngineInv, TypeOK
<1>1. PICK row : row = Settled(queue, alerts)[x]
  OBVIOUS
<1>2. /\ x \in AlertIds /\ alerts[x] # NoAlert
      /\ row.key = k /\ row.st = "active" /\ row.seen >= clock - Stale
  BY <1>1 DEF ActiveAlerts, Stored
<1>3. /\ row.key = alerts[x].key
      /\ alerts[x].st # "active" /\ (\A i \in 1 .. Len(queue) : queue[i].kind = "reopen" => queue[i].id # x)
           => row.st # "active"
      /\ NoBeatWaits(queue, x) => row.seen = alerts[x].seen
  BY <1>0, <1>1, <1>2, QueueStored, SettledRow DEF IncidentsInv
<1>4. ASSUME NEW y \in AlertIds, IsStored(alerts, y), alerts[y].key = k PROVE alerts[y].at <= alerts[x].at
  <2>1. alerts[y].at \in Nat /\ alerts[x].at \in Nat /\ alerts[x].seen \in Nat /\ Stale \in Nat
    BY <1>0, <1>2, <1>4, EngineAssumption DEF IsStored, Alert
  <2>2. ASSUME alerts[x].at < alerts[y].at PROVE FALSE
    <3>1. Finished(alerts[x], queue, x, clock)
      BY <1>2, <1>3, <1>4, <2>2 DEF IncidentsInv, IncidentInv, OlderAreFinished, IsStored
    <3>2. ~(alerts[x].seen < clock - Stale /\ NoBeatWaits(queue, x))
      BY <1>0, <1>2, <1>3, <2>1
    <3> QED
      BY <1>2, <1>3, <3>1, <3>2 DEF Finished
  <2> QED
    BY <2>1, <2>2
<1> QED
  BY <1>2, <1>3, <1>4 DEF IsNewest, IsStored

\* No two alerts of a key are the newest.
LEMMA OneIsNewest ==
  ASSUME TypeOK, IncidentInv, NEW k, NEW x, NEW y, IsNewest(alerts, k, x), IsNewest(alerts, k, y)
  PROVE  x = y
<1>1. /\ x \in AlertIds /\ y \in AlertIds /\ IsStored(alerts, x) /\ IsStored(alerts, y)
      /\ alerts[x].key = alerts[y].key /\ alerts[x].at <= alerts[y].at /\ alerts[y].at <= alerts[x].at
  BY DEF IsNewest, IsStored
<1>2. alerts[x].at \in Nat /\ alerts[y].at \in Nat
  BY <1>1 DEF TypeOK, IsStored, Alert
<1> QED
  BY <1>1, <1>2 DEF IncidentInv, TriggersFit

\* The invariants hold as long as the system runs.
LEMMA IncidentsInvariant == RearmCoversTheRest /\ Spec => [](RearmCoversTheRest /\ IncidentsInv)
<1>1. RearmCoversTheRest /\ Init => RearmCoversTheRest /\ IncidentsInv
  BY EngineInit, ReopenInitially, ChaseInitially, IncidentInitially DEF IncidentsInv
<1>2. RearmCoversTheRest /\ IncidentsInv /\ [Next]_vars => RearmCoversTheRest' /\ IncidentsInv'
  <2> SUFFICES ASSUME RearmCoversTheRest, IncidentsInv, [Next]_vars
               PROVE  RearmCoversTheRest' /\ IncidentsInv'
    OBVIOUS
  <2>1. MemoryCoversTheLag
    BY DEF RearmCoversTheRest
  <2>2. EngineInv' /\ ReopenInv' /\ ChaseInv' /\ IncidentInv'
    BY <2>1, EngineStep, ReopenStep, ChaseStep, IncidentStep DEF IncidentsInv
  <2>3. RearmCoversTheRest'
    BY DEF RearmCoversTheRest, MemoryCoversTheLag
  <2> QED
    BY <2>2, <2>3 DEF IncidentsInv
<1> QED
  BY <1>1, <1>2, PTL DEF Spec

(***************************************************************************)
(* At most one alert of a rule and a target is active and fresh, counting  *)
(* the mutations still to be applied (handleViolation, recentTrust,        *)
(* rearmFor), whatever operators acknowledge and resolve and whenever the  *)
(* MaxFaults restarts and failures of a behaviour come.  The hypotheses    *)
(* are about the environment and the re-arm window: no mutation is queued  *)
(* as long as recentTrust or the first wait of Run, no write reported as   *)
(* failed was done, and the window is longer than all those restarts and   *)
(* failures together can keep a stale alert active (RearmCoversTheRest).   *)
(***************************************************************************)
THEOREM OneAlertAtATime == RearmCoversTheRest /\ Spec => []OneAlertPerIncident
<1>1. ASSUME RearmCoversTheRest, IncidentsInv PROVE OneAlertPerIncident
  <2> SUFFICES ASSUME NEW k \in Keys PROVE Cardinality(ActiveAlerts(k)) <= 1
    BY DEF OneAlertPerIncident
  <2>1. TypeOK /\ IncidentInv
    BY <1>1 DEF IncidentsInv, EngineInv
  <2>2. \A x, y \in ActiveAlerts(k) : x = y
    BY <1>1, <2>1, ActiveIsNewest, OneIsNewest
  <2>3. CASE ActiveAlerts(k) = {}
    <3>1. Cardinality(ActiveAlerts(k)) = 0
      BY <2>3, FS_EmptySet
    <3> QED
      BY <3>1
  <2>4. ASSUME NEW x \in ActiveAlerts(k) PROVE Cardinality(ActiveAlerts(k)) <= 1
    <3>1. ActiveAlerts(k) = {x}
      BY <2>2
    <3>2. Cardinality(ActiveAlerts(k)) = 1
      BY <3>1, FS_Singleton
    <3> QED
      BY <3>2
  <2> QED
    BY <2>3, <2>4
<1> QED
  BY <1>1, IncidentsInvariant, PTL

(***************************************************************************)
(* Under the same hypotheses, restarts, acknowledgements and resolutions   *)
(* included, a new alert is a new incident: it is stored when the last     *)
(* violation of the previous one is as old as the re-arm window, but for   *)
(* the throttle, or when that one is no longer active and either the value *)
(* is at least twice its peak or its last violation is no older than       *)
(* MaxLag, queued when LatestAlert was read (handleViolation, insertNew).  *)
(***************************************************************************)
THEOREM NewAlertsComeWithCause == RearmCoversTheRest /\ Spec => NewAlertsAreNewIncidents
<1> DEFINE Cause(prev) == \/ seenAt[prev] <= op.now - Rearm + Window
                          \/ /\ Settled(queue, alerts)[prev].st # "active"
                             /\ Escalates(prev) \/ op.now - seenAt[prev] <= MaxLag
           Step == \A id \in AlertIds : alerts[id] = NoAlert /\ alerts'[id] # NoAlert
                                          => \A prev \in Latest(op.k) : Cause(prev)
<1>1. ASSUME RearmCoversTheRest, IncidentsInv, [Next]_vars PROVE [Step]_vars
  <2> SUFFICES ASSUME NEW id \in AlertIds, alerts[id] = NoAlert, alerts'[id] # NoAlert,
                      NEW prev \in Latest(op.k)
               PROVE  Cause(prev)
    OBVIOUS
  <2>0. /\ alerts \in [AlertIds -> Alert \cup {NoAlert}] /\ queue \in Seq(Mutation) /\ EngineInv
      BY <1>1 DEF IncidentsInv, EngineInv, TypeOK
  <2>1. ~ApplyMutation
    <3> SUFFICES ASSUME ApplyMutation PROVE FALSE
      OBVIOUS
    <3>1. queue # <<>> /\ alerts' = Apply(Head(queue), alerts)
      BY DEF ApplyMutation
    <3>2. 1 \in 1 .. Len(queue) /\ Head(queue) = queue[1] /\ Head(queue) \in Mutation
      BY <2>0, <3>1
    <3>3. Apply(Head(queue), alerts)[id] = NoAlert
      BY <2>0, <3>2, QueueStored, ApplyRow DEF IsStored
    <3> QED
      BY <3>1, <3>3
  <2>2. UNCHANGED alerts => FALSE
    OBVIOUS
  <2>3. Insert
    BY <1>1, <2>1, <2>2 DEF Next, CycleStep, CycleBegin, AutoResolveProbe, AutoResolveMutate, CycleEnd,
      Violation, Lookup, Touch, Reopen, CleanupCooldown, Crash, Tick, Verdict, vars
  <2>4. op.step = "insert"
    BY <2>3 DEF Insert
  <2>5. IsNewest(alerts, op.k, prev) /\ prev \in AlertIds /\ alerts[prev] # NoAlert /\ alerts[prev].key = op.k
    BY DEF Latest, IsNewest, IsStored, Stored
  <2>6. MakesRoom(op, alerts, queue, seenAt, prev) /\ NoneWaits(queue, alerts, op.k)
    BY <1>1, <2>4, <2>5 DEF IncidentsInv, IncidentInv, IncidentFits, ReopenInv, PlaceFits
  <2>7. CASE seenAt[prev] <= op.now - Rearm + Window
    BY <2>7
  <2>8. CASE /\ alerts[prev].st # "active"
             /\ (op.v >= 2 * alerts[prev].peak /\ alerts[prev].peak > 0) \/ op.now - seenAt[prev] <= MaxLag
    <3>1. \A i \in 1 .. Len(queue) : queue[i].kind = "reopen" => queue[i].id # prev
      BY <2>5, <2>6 DEF NoneWaits
    <3>2. Settled(queue, alerts)[prev].st # "active"
      BY <2>0, <2>5, <2>8, <3>1, QueueStored, SettledRow
    <3> QED
      BY <2>8, <3>2 DEF Escalates
  <2> QED
    BY <2>6, <2>7, <2>8 DEF MakesRoom
<1>2. RearmCoversTheRest /\ Spec => [][Step]_vars
  BY <1>1, IncidentsInvariant, PTL DEF Spec
<1> QED
  BY <1>2, PTL DEF NewAlertsAreNewIncidents

=============================================================================
