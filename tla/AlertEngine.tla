----------------------------- MODULE AlertEngine -----------------------------
(***************************************************************************)
(* The life of an alert: the engine of the collector (internal/alerts/     *)
(* engine.go), the alerts table (internal/store/alerts.go), the operators  *)
(* who acknowledge and resolve through the API.                            *)
(*                                                                         *)
(* An insert into the table is visible at once.  Every update is a         *)
(* ClickHouse mutation, issued by the code without waiting for it: it goes *)
(* to a queue (queue), is applied in order some time later, and its WHERE  *)
(* is evaluated when it is applied.  The engine therefore reads a table    *)
(* that may lag behind what it wrote; Engine.recent is there to bridge it. *)
(*                                                                         *)
(* A key is a (rule, target) pair: the engine treats the keys one by one.  *)
(* Only AutoResolveStaleAlerts ranges over all of them.                    *)
(***************************************************************************)
EXTENDS Integers, Sequences, FiniteSets

CONSTANTS
  Keys,          \* (rule, target) pairs of rules whose action is auto_block
  HostKeys,      \* the ones whose target is one host
  AlertIds,      \* alert identifiers (UUIDs); bounds the alerts of an instance
  Values,        \* the metric values a violation may have
  Stale,         \* ALERT_STALE_THRESHOLD
  MinWindow,     \* alertHeartbeatMinWindow
  MaxIdle,       \* alertHeartbeatMaxIdle
  Trust,         \* recentTrust
  RecentMaxAge,  \* the age at which cleanupCooldown drops an entry
  Rearm,         \* rearmFor: max(cooldown_seconds, ALERT_REARM_WINDOW)
  Wait,          \* Run waits as long before its first cycle
  MaxDown,       \* bound: how long a restart takes besides
  MaxLag,        \* bound: how far the applied mutations may lag, in clock units
  MaxQueue,      \* bound: mutations waiting
  MaxGap,        \* bound: how late a cycle begins after the one before
  MaxTime,       \* bound: the clock stops there
  Verdicts,      \* what operators do: a subset of {"acknowledged", "resolved"}
  MaxVerdicts,   \* bound: how often they do it
  FaultKinds,    \* the failures that happen in an instance
  MaxFaults      \* bound: how many failures happen

ASSUME EngineAssumption ==
  /\ HostKeys \subseteq Keys
  /\ IsFiniteSet(Keys) /\ IsFiniteSet(AlertIds)
  /\ Values \subseteq Nat
  /\ {Stale, MinWindow, MaxIdle, Trust, RecentMaxAge, Rearm, Wait} \subseteq Nat \ {0}
  /\ {MaxDown, MaxLag, MaxQueue, MaxGap, MaxTime, MaxVerdicts, MaxFaults} \subseteq Nat
  /\ Verdicts \subseteq {"acknowledged", "resolved"}
  /\ FaultKinds \subseteq {"read", "write", "late", "lateReopen", "crash"}

VARIABLES
  alerts,     \* the alerts table, as a read sees it
  queue,      \* the mutations issued and not yet applied, in order
  recent,     \* Engine.recent: what this process last stored or re-opened
  written,    \* ClickHouseStore.hbWritten: when a heartbeat was last written
  op,         \* where evaluateOnce stands
  began,      \* when the last cycle began, or the process that has run none
  clock,
  asked,      \* the keys whose target the engine asked the API to blackhole
  seenAt,     \* history: when the engine last recorded a violation of an alert
  verdicts,   \* operator decisions left
  faults      \* failures left

vars == <<alerts, queue, recent, written, op, began, clock, asked, seenAt, verdicts, faults>>

-----------------------------------------------------------------------------
(* State. *)

Never == -1

Statuses == {"active", "acknowledged", "resolved"}

\* A row: when it was triggered and last seen, the peak of its metric.
Alert == [key: Keys, st: Statuses, at: Nat, seen: Nat, peak: Nat]

NoAlert == [st |-> "none"]

Stored == {id \in AlertIds : alerts[id] # NoAlert}

NoRecent == [at |-> Never]

\* Run waits once before its first cycle.
Starting == [step |-> "starting"]

Idle == [step |-> "idle"]

(***************************************************************************)
(* evaluateOnce: the count of stale alerts, the mutation that resolves     *)
(* them (cut is its cutoff), then the violations of the rules, key by key  *)
(* (todo is what is left).  A violation has a value and the time it was    *)
(* handled at; its steps are the calls handleViolation makes.              *)
(***************************************************************************)
Cycle == [step: {"probe"}]
         \cup [step: {"resolve"}, cut: Int]
         \cup [step: {"eval"}, todo: SUBSET Keys]
         \cup [step: {"lookup", "insert"}, todo: SUBSET Keys, k: Keys, v: Values, now: Nat]
         \cup [step: {"touch", "reopen"}, todo: SUBSET Keys, k: Keys, v: Values, now: Nat,
               id: AlertIds]

\* fresh is a history field: the alerts that were firing, see FiringStaysOpen.
Mutation == [kind: {"touch"}, id: AlertIds, ts: Nat, due: Nat]
            \cup [kind: {"reopen"}, id: AlertIds, ts: Nat, v: Values, due: Nat]
            \cup [kind: {"stale"}, cut: Int, fresh: SUBSET AlertIds, due: Nat]
            \cup [kind: {"status"}, id: AlertIds, st: Verdicts, due: Nat]

\* The types of the table, its mutations, the engine's memory and its cycle.
TypeOK ==
  /\ alerts \in [AlertIds -> Alert \cup {NoAlert}]
  /\ queue \in Seq(Mutation) /\ Len(queue) <= MaxQueue
  /\ recent \in [Keys -> [id: AlertIds, at: Nat] \cup {NoRecent}]
  /\ written \in [AlertIds -> Nat \cup {Never}]
  /\ op \in {Starting, Idle} \cup Cycle
  /\ began \in 0..MaxTime
  /\ clock \in 0..MaxTime
  /\ asked \subseteq Keys
  /\ seenAt \in [AlertIds -> Nat \cup {Never}]
  /\ verdicts \in 0..MaxVerdicts
  /\ faults \in 0..MaxFaults

Init ==
  /\ alerts = [id \in AlertIds |-> NoAlert]
  /\ queue = <<>>
  /\ recent = [k \in Keys |-> NoRecent]
  /\ written = [id \in AlertIds |-> Never]
  /\ op = Starting
  /\ began = 0
  /\ clock = 0
  /\ asked = {}
  /\ seenAt = [id \in AlertIds |-> Never]
  /\ verdicts = MaxVerdicts
  /\ faults = MaxFaults

Fault(kind) ==
  /\ kind \in FaultKinds /\ faults > 0
  /\ faults' = faults - 1

-----------------------------------------------------------------------------
(* The table. *)

Larger(a, b) == IF a >= b THEN a ELSE b

\* Mutant: a re-opened alert gets a status of its own.
MarkReopened(row, m) ==
  [row EXCEPT !.st = "reopened", !.seen = m.ts, !.peak = Larger(@, m.v)]

\* ReopenAlert: active again, and the peak kept.
Reopened(row, m) == [row EXCEPT !.st = "active", !.seen = m.ts, !.peak = Larger(@, m.v)]

\* A mutation applied to a table: what its UPDATE ... WHERE does to each row.
Apply(m, table) ==
  [id \in AlertIds |->
     LET row == table[id]
     IN CASE m.kind = "touch" /\ id = m.id -> [row EXCEPT !.seen = m.ts]
          [] m.kind = "reopen" /\ id = m.id -> Reopened(row, m)
          [] m.kind = "status" /\ id = m.id -> [row EXCEPT !.st = m.st]
          [] m.kind = "stale" /\ row.st = "active" ->
               IF row.seen < m.cut THEN [row EXCEPT !.st = "resolved"] ELSE row
          [] OTHER -> row]

\* The table once every mutation of q is applied.
Settled(q, table) ==
  LET after[i \in 0..Len(q)] == IF i = 0 THEN table ELSE Apply(q[i], after[i - 1])
  IN after[Len(q)]

\* A mutation is issued: it waits in the queue, at most MaxLag.
Due == clock + MaxLag

Issue(m) == Len(queue) < MaxQueue /\ queue' = Append(queue, m)

\* A write of the engine: done, refused, or done and reported as refused.
Written(m) == Issue(m) /\ UNCHANGED faults

\* A re-open that is done and not remembered is told from a heartbeat that is.
LateKind(m) == IF m.kind = "reopen" THEN "lateReopen" ELSE "late"

WriteFails(m) == \/ Fault("write") /\ UNCHANGED queue
                 \/ Fault(LateKind(m)) /\ Issue(m)

ApplyMutation ==
  /\ queue # <<>>
  /\ alerts' = Apply(Head(queue), alerts)
  /\ queue' = Tail(queue)
  /\ UNCHANGED <<recent, written, op, began, clock, asked, seenAt, verdicts, faults>>

-----------------------------------------------------------------------------
(* evaluateOnce. *)

\* At a tick of the timer, or when the first wait is over.
CycleBegin ==
  /\ op = Idle \/ (op = Starting /\ clock >= began + Wait)
  /\ op' = [step |-> "probe"]
  /\ began' = clock
  /\ UNCHANGED <<alerts, queue, recent, written, clock, asked, seenAt, verdicts, faults>>

\* The rules, then the violations their queries find (or an error: none).
Evaluate == op' \in [step: {"eval"}, todo: SUBSET Keys]

StaleAlerts(cut) == {id \in Stored : alerts[id].st = "active" /\ alerts[id].seen < cut}

\* Mutant: the re-arm window is passed in place of the stale threshold.
LateCutoff == clock - Rearm

Cutoff == clock - Stale

\* AutoResolveStaleAlerts: the count decides whether a mutation is needed.
AutoResolveProbe ==
  /\ op.step = "probe"
  /\ \/ /\ IF StaleAlerts(Cutoff) = {} THEN Evaluate
           ELSE op' = [step |-> "resolve", cut |-> Cutoff]
        /\ UNCHANGED faults
     \/ Fault("read") /\ Evaluate
  /\ UNCHANGED <<alerts, queue, recent, written, began, clock, asked, seenAt, verdicts>>

\* The heartbeat throttle: setHeartbeatWindow ran before any heartbeat.
Window == IF Stale \div 3 < MinWindow THEN 0 ELSE Stale \div 3

\* The alerts a violation was recorded for, late enough for the cutoff.
Firing(cut) == {id \in Stored : seenAt[id] >= cut + Window}

AutoResolveMutate ==
  /\ op.step = "resolve"
  /\ LET m == [kind |-> "stale", cut |-> op.cut, fresh |-> Firing(op.cut), due |-> Due]
     IN Written(m) \/ WriteFails(m)
  /\ Evaluate
  /\ UNCHANGED <<alerts, recent, written, began, clock, asked, seenAt, verdicts>>

CycleEnd ==
  /\ op.step = "eval" /\ op.todo = {}
  /\ op' = Idle
  /\ UNCHANGED <<alerts, queue, recent, written, began, clock, asked, seenAt, verdicts, faults>>

-----------------------------------------------------------------------------
(* handleViolation. *)

Handled == [step |-> "eval", todo |-> op.todo \ {op.k}]

\* The violation of op goes on with a write about the alert id.
About(o, step, id) ==
  [step |-> step, todo |-> o.todo, k |-> o.k, v |-> o.v, now |-> o.now, id |-> id]

\* Mutant: what the process wrote itself is read back like the rest.
TrustNothing(k) == FALSE

Trusted(k) == recent[k] # NoRecent /\ clock - recent[k].at < Trust

\* An alert stored or re-opened moments ago is heartbeated without a read.
Violation(k, v) ==
  /\ op.step = "eval" /\ k \in op.todo
  /\ LET o == [step |-> "lookup", todo |-> op.todo, k |-> k, v |-> v, now |-> clock]
     IN op' = IF Trusted(k) THEN About(o, "touch", recent[k].id) ELSE o
  /\ UNCHANGED <<alerts, queue, recent, written, began, clock, asked, seenAt, verdicts, faults>>

\* argMax over triggered_at: any of the rows triggered last.
Latest(k) == {id \in Stored : /\ alerts[id].key = k
                              /\ \A j \in Stored : alerts[j].key = k => alerts[j].at <= alerts[id].at}

\* Mutant: the window runs from the trigger.
WithinRearmOfTrigger(id) == op.now - alerts[id].at < Rearm

WithinRearm(id) == op.now - alerts[id].seen < Rearm

\* Twice the peak of the resolved alert: a new incident.
Escalates(id) == op.v >= 2 * alerts[id].peak /\ alerts[id].peak > 0

InsertStep == [op EXCEPT !.step = "insert"]

\* Mutant: the escalation is looked at before the status.
DecideByValue(id) ==
  IF ~WithinRearm(id) \/ Escalates(id) THEN InsertStep
  ELSE About(op, IF alerts[id].st = "resolved" THEN "reopen" ELSE "touch", id)

\* What becomes of a violation whose latest alert is id.
Decide(id) ==
  IF ~WithinRearm(id) THEN InsertStep
  ELSE IF alerts[id].st # "resolved" THEN About(op, "touch", id)
  ELSE IF Escalates(id) THEN InsertStep
  ELSE About(op, "reopen", id)

\* LatestAlert decides between a heartbeat, a re-open and a new alert.
Lookup ==
  /\ op.step = "lookup"
  /\ \/ /\ \/ Latest(op.k) = {} /\ op' = InsertStep
           \/ \E id \in Latest(op.k) : op' = Decide(id)
        /\ UNCHANGED faults
     \/ Fault("read") /\ op' = Handled
  /\ UNCHANGED <<alerts, queue, recent, written, began, clock, asked, seenAt, verdicts>>

\* heartbeatDue: the last heartbeat written is older than the window.
HeartbeatDue(id, ts) == Window = 0 \/ written[id] = Never \/ ts - written[id] >= Window

\* Entries idle for longer than MaxIdle are dropped on the way.
NoteHeartbeat(id, ts) ==
  IF Window = 0 THEN written
  ELSE [i \in AlertIds |-> IF i = id THEN ts
                           ELSE IF written[i] # Never /\ ts - written[i] > MaxIdle THEN Never
                           ELSE written[i]]

\* Mutant: a heartbeat that failed is taken as written.
KeepHeartbeat(id, ts) == NoteHeartbeat(id, ts)

\* forgetHeartbeat: the write did not land, the next one is not throttled.
ForgetHeartbeat(id, ts) == [NoteHeartbeat(id, ts) EXCEPT ![id] = Never]

\* touch, UpdateAlertLastSeen: a throttled heartbeat counts as done.
Touch ==
  /\ op.step = "touch"
  /\ LET m == [kind |-> "touch", id |-> op.id, ts |-> op.now, due |-> Due]
         noted == [seenAt EXCEPT ![op.id] = op.now]
     IN \/ /\ ~HeartbeatDue(op.id, op.now)
           /\ seenAt' = noted /\ UNCHANGED <<queue, written, faults>>
        \/ /\ HeartbeatDue(op.id, op.now) /\ Written(m)
           /\ seenAt' = noted /\ written' = NoteHeartbeat(op.id, op.now)
        \/ /\ HeartbeatDue(op.id, op.now) /\ WriteFails(m)
           /\ written' = ForgetHeartbeat(op.id, op.now) /\ UNCHANGED seenAt
  /\ op' = Handled
  /\ UNCHANGED <<alerts, recent, began, clock, asked, verdicts>>

Remember(id) == recent' = [recent EXCEPT ![op.k] = [id |-> id, at |-> op.now]]

(***************************************************************************)
(* reopen: the mutation, hbWritten (when a heartbeat has created the map), *)
(* recent, and the request to blackhole a target that has an address.      *)
(***************************************************************************)
Reopen ==
  /\ op.step = "reopen"
  /\ LET m == [kind |-> "reopen", id |-> op.id, ts |-> op.now, v |-> op.v, due |-> Due]
     IN \/ /\ Written(m)
           /\ Remember(op.id)
           /\ seenAt' = [seenAt EXCEPT ![op.id] = op.now]
           /\ written' \in {written, [written EXCEPT ![op.id] = op.now]}
           /\ asked' = asked \cup {op.k}
        \/ WriteFails(m) /\ UNCHANGED <<recent, seenAt, written, asked>>
  /\ op' = Handled
  /\ UNCHANGED <<alerts, began, clock, verdicts>>

(***************************************************************************)
(* insertNew: the row (refused when the instance has no identifier left),  *)
(* recent, the notification, and the request to blackhole one host.        *)
(***************************************************************************)
Insert ==
  /\ op.step = "insert"
  /\ \/ \E id \in AlertIds \ Stored :
          /\ alerts' = [alerts EXCEPT ![id] = [key |-> op.k, st |-> "active", at |-> op.now,
                                               seen |-> op.now, peak |-> op.v]]
          /\ \/ /\ Remember(id)
                /\ seenAt' = [seenAt EXCEPT ![id] = op.now]
                /\ asked' = asked \cup ({op.k} \cap HostKeys)
                /\ UNCHANGED faults
             \/ Fault("late") /\ UNCHANGED <<recent, seenAt, asked>>
     \/ /\ Fault("write") \/ (Stored = AlertIds /\ UNCHANGED faults)
        /\ UNCHANGED <<alerts, recent, seenAt, asked>>
  /\ op' = Handled
  /\ UNCHANGED <<queue, written, began, clock, verdicts>>

-----------------------------------------------------------------------------
(* Around the cycle. *)

\* cleanupCooldown, from a goroutine of its own.
CleanupCooldown ==
  /\ \E k \in Keys : recent[k] # NoRecent /\ recent[k].at < clock - RecentMaxAge
  /\ recent' = [k \in Keys |-> IF recent[k] # NoRecent /\ recent[k].at < clock - RecentMaxAge
                               THEN NoRecent ELSE recent[k]]
  /\ UNCHANGED <<alerts, queue, written, op, began, clock, asked, seenAt, verdicts, faults>>

\* AcknowledgeAlert and ResolveAlert of the API: the mutation has no guard.
Verdict(id, st) ==
  /\ verdicts > 0 /\ verdicts' = verdicts - 1
  /\ Issue([kind |-> "status", id |-> id, st |-> st, due |-> Due])
  /\ UNCHANGED <<alerts, recent, written, op, began, clock, asked, seenAt, faults>>

\* The collector restarts: its maps are empty again.
Crash ==
  /\ Fault("crash") /\ clock + Wait <= MaxTime
  /\ recent' = [k \in Keys |-> NoRecent]
  /\ written' = [id \in AlertIds |-> Never]
  /\ op' = Starting /\ began' = clock
  /\ UNCHANGED <<alerts, queue, clock, asked, seenAt, verdicts>>

(***************************************************************************)
(* Time passes between two violations or two cycles; no mutation waits     *)
(* longer than MaxLag, no cycle begins later than MaxGap after the one     *)
(* before, and the first of a process no later than Wait + MaxDown.  The   *)
(* calls of one violation take no time in the unit of the clock.           *)
(***************************************************************************)
Tick ==
  /\ clock < MaxTime
  /\ \/ op = Starting /\ clock < began + Wait + MaxDown
     \/ op.step \in {"idle", "eval"} /\ clock < began + MaxGap
  /\ queue # <<>> => clock < Head(queue).due
  /\ clock' = clock + 1
  /\ UNCHANGED <<alerts, queue, recent, written, op, began, asked, seenAt, verdicts, faults>>

CycleStep ==
  \/ AutoResolveProbe \/ AutoResolveMutate
  \/ \E k \in Keys, v \in Values : Violation(k, v)
  \/ Lookup \/ Touch \/ Reopen \/ Insert \/ CycleEnd

Next ==
  \/ CycleBegin \/ CycleStep \/ ApplyMutation
  \/ CleanupCooldown \/ Crash \/ Tick
  \/ \E id \in Stored, st \in Verdicts : Verdict(id, st)

Spec == Init /\ [][Next]_vars

(***************************************************************************)
(* Fairness.  The collector runs a cycle at every tick of its timer and    *)
(* the calls of a cycle have timeouts; ClickHouse applies its mutations;   *)
(* the clock moves.  Nothing is assumed of operators, traffic or failures. *)
(***************************************************************************)
Fairness ==
  WF_vars(CycleBegin) /\ WF_vars(CycleStep) /\ WF_vars(ApplyMutation) /\ WF_vars(Tick)

FairSpec == Spec /\ Fairness

-----------------------------------------------------------------------------
(* Properties. *)

(***************************************************************************)
(* An alert that is still firing is not auto-resolved: a mutation of       *)
(* AutoResolveStaleAlerts never resolves an alert for which the engine had *)
(* recorded a violation within Stale - Window before the mutation was      *)
(* issued ("A heartbeat only has to be fresher than the auto-resolve       *)
(* threshold", the comment of the throttle): neither the throttle, nor a   *)
(* heartbeat that failed, nor heartbeats still queued make it look stale.  *)
(***************************************************************************)
FiringStaysOpen ==
  [][\A id \in AlertIds :
       queue # <<>> /\ Head(queue).kind = "stale" /\ queue' = Tail(queue)
         /\ alerts[id].st = "active" /\ alerts'[id].st = "resolved"
         => id \notin Head(queue).fresh]_vars

\* The alerts of a key that are active and seen within Stale, once the queue is applied.
ActiveAlerts(k) ==
  LET table == Settled(queue, alerts)
  IN {id \in Stored : /\ table[id].key = k
                      /\ table[id].st = "active"
                      /\ table[id].seen >= clock - Stale}

(***************************************************************************)
(* One incident, one alert: at most one alert of a rule and a target is    *)
(* active and seen within Stale, counting the mutations still to be        *)
(* applied.  LatestAlert reads a table behind the engine's own inserts and *)
(* re-opens, the memory that bridges it is lost in a restart, and          *)
(* operators acknowledge and resolve at any time.  An acknowledged alert   *)
(* is not active: one that is still seen may stand beside the new alert    *)
(* that NewAlertsAreNewIncidents lets in.                                  *)
(***************************************************************************)
OneAlertPerIncident == \A k \in Keys : Cardinality(ActiveAlerts(k)) <= 1

(***************************************************************************)
(* A re-open is issued once per resolution ("the engine never issues it    *)
(* twice for the same alert within a cycle or two", ReopenAlert): when the *)
(* mutation is applied its alert is not active, but still resolved or      *)
(* acknowledged by an operator since, so that reopen_count counts the      *)
(* times the alert came back.                                              *)
(***************************************************************************)
ReopensTheResolved ==
  queue # <<>> /\ Head(queue).kind = "reopen" => alerts[Head(queue).id].st # "active"

(***************************************************************************)
(* No flapping: a new alert, which is notified, is stored only when the    *)
(* last violation recorded for the previous alert of the rule and target   *)
(* is Rearm old (minus the throttle), or when that alert is not active and *)
(* either the value is at least twice its peak (handleViolation) or its    *)
(* last violation is no older than MaxLag: the heartbeat of an alert       *)
(* silent for almost Rearm was still queued when LatestAlert was read, and *)
(* an operator acknowledged or resolved the alert in the meantime.         *)
(***************************************************************************)
NewAlertsAreNewIncidents ==
  [][\A id \in AlertIds :
       alerts[id] = NoAlert /\ alerts'[id] # NoAlert
         => \A prev \in Latest(op.k) :
              \/ seenAt[prev] <= op.now - Rearm + Window
              \/ /\ Settled(queue, alerts)[prev].st # "active"
                 /\ Escalates(prev) \/ op.now - seenAt[prev] <= MaxLag]_vars

(***************************************************************************)
(* An active alert that went stale is resolved, or seen again (evaluateOnce *)
(* resolves before anything else, in every cycle).                         *)
(***************************************************************************)
StaleAlertsResolve ==
  \A id \in AlertIds :
    id \in StaleAlerts(clock - Stale) ~> id \notin StaleAlerts(clock - Stale)

(***************************************************************************)
(* Automatic blocking only for rules whose target is one host: "never for  *)
(* link, anomaly, disk or subnet rules" (docs/bgp-blackhole.md).           *)
(***************************************************************************)
OnlyHostsAreBlocked == asked \subseteq HostKeys
=============================================================================
