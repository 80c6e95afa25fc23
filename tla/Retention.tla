----------------------------- MODULE Retention -----------------------------
(***************************************************************************)
(* The retention policies of internal/store/retention.go: the collector    *)
(* seeds one policy per table when it starts, administrators edit them,    *)
(* and a reconciler brings the TTL, the expired partitions and the cold    *)
(* tier of every table, and of the legacy table that follows it, in line.  *)
(*                                                                         *)
(* A day is the unit of time, a partition holds the rows of one day, and   *)
(* every statement is an action that may fail.  The order in which one     *)
(* cycle visits the tables is left open.  What ClickHouse does on its own  *)
(* with a TTL (evicting rows, moving parts) is left out: parts that predate*)
(* a MODIFY TTL keep their old TTL, so the reconciler may not rely on it.  *)
(***************************************************************************)
EXTENDS Integers, FiniteSets, FiniteSetsExt

CONSTANTS
  Leaders,        \* tables with a policy of their own
  Followers,      \* function: legacy table -> the table whose policy it follows
  Present,        \* tables that exist
  DefaultDays,    \* function: table -> the TTL its migration gave it
  FlowLog, FlowLogDays,   \* FLOW_LOG_RETENTION_DAYS and the table it seeds; 0 is unset
  Candidates,     \* number of storage policies with a `cold' volume to adopt
  EditDays, EditCold,     \* values of ttl_days and cold_after_days in requests
  MaxColdMoves,   \* maxColdMovesPerCycle
  FirstDay,       \* the day the collector is first started
  MaxDay, MaxEdits, MaxRTFaults   \* bounds: clock, requests, failures and restarts

VARIABLES
  policies,       \* retention_policies FINAL, one row per table
  ttl,            \* the TTL in the definition of each table
  partitions,     \* the partitions of each table: their day, and the volume they are on
  storage,        \* the storage policy of each table
  day,            \* now()
  seeding,        \* EnsureRetentionPolicies: the tables still to seed, the TTLs read
  listed,         \* the policies read at the start of the running or last cycle
  cycle,          \* ReconcileRetention: the tables left, the one at hand, its step
  request,        \* the SetRetention request being served
  edits, rtFaults

rtVars == <<policies, ttl, partitions, storage, day, seeding, listed, cycle, request, edits, rtFaults>>

Managed == Leaders \cup DOMAIN Followers
Grace == 1        \* sweepGraceDays
Keep == -1        \* a request without cold_after_days
NoPolicy == [days |-> 0, cold |-> 0, enabled |-> FALSE]
NoRequest == [table |-> "none", days |-> 0, cold |-> 0, enabled |-> FALSE]

ASSUME RetentionAssumption ==
  /\ \A f \in DOMAIN Followers : Followers[f] \in Leaders
  /\ Present \subseteq Managed
  /\ \A t \in Managed : DefaultDays[t] \in Nat
  /\ {FlowLogDays, Candidates, MaxColdMoves, FirstDay, MaxDay, MaxEdits, MaxRTFaults} \subseteq Nat
  /\ EditDays \subseteq Int /\ EditCold \subseteq Int

leaderOf(t) == IF t \in DOMAIN Followers THEN Followers[t] ELSE t
followersOf(l) == {f \in DOMAIN Followers : Followers[f] = l}
validateRetention(days, cold) == days >= 1 /\ (cold = 0 \/ cold < days)

RTInit ==
  /\ policies = [l \in Leaders |-> NoPolicy]
  /\ ttl = [t \in Managed |-> [days |-> DefaultDays[t], cold |-> 0]]
  /\ partitions = [t \in Managed |->
       IF t \in Present THEN {[at |-> d, cold |-> FALSE] : d \in 1..FirstDay} ELSE {}]
  /\ storage = [t \in Managed |-> "default"]
  /\ day = FirstDay
  /\ seeding = [step |-> "read", missing |-> {}, live |-> [t \in Managed |-> 0]]
  /\ listed = [l \in Leaders |-> NoPolicy]
  /\ cycle = [step |-> "idle", todo |-> {}, table |-> "none", cold |-> 0, list |-> {},
              storage |-> [t \in Managed |-> "default"]]
  /\ request = NoRequest
  /\ edits = 0 /\ rtFaults = 0

RTFault == rtFaults < MaxRTFaults /\ rtFaults' = rtFaults + 1
RTNoFault == UNCHANGED rtFaults

(* A day passes; the flows of the new day open a partition of the tables that are written to. *)
NextDay ==
  /\ day < MaxDay
  /\ day' = day + 1
  /\ partitions' = [t \in Managed |->
       IF t \in Leaders \cap Present THEN partitions[t] \cup {[at |-> day + 1, cold |-> FALSE]}
                                     ELSE partitions[t]]
  /\ UNCHANGED <<policies, ttl, storage, seeding, listed, cycle, request, edits, rtFaults>>

(***************************************************************************)
(* Seeding, once per start of the collector.                               *)
(***************************************************************************)
liveTTLDays == [t \in Managed |-> IF t \in Present THEN ttl[t].days ELSE 0]

\* EnsureRetentionPolicies leaves the tables alone that have a row: edits are never overwritten at a restart.
retentionPoliciesByTable == {l \in Leaders : policies[l] # NoPolicy}
Unseeded == Leaders \ retentionPoliciesByTable

(* The policies are read; without an answer nothing is seeded, and without the live TTLs the defaults are. *)
ReadForSeeding ==
  /\ seeding.step = "read"
  /\ \/ /\ RTNoFault
        /\ seeding' = [step |-> "seed", missing |-> Unseeded,
                       live |-> liveTTLDays]
     \/ /\ RTFault
        /\ \/ seeding' = [seeding EXCEPT !.step = "done"]
           \/ seeding' = [step |-> "seed", missing |-> Unseeded,
                          live |-> [t \in Managed |-> 0]]
  /\ UNCHANGED <<policies, ttl, partitions, storage, day, listed, cycle, request, edits>>

(* The TTL of a legacy table is the one the operator ran with; FLOW_LOG_RETENTION_DAYS wins over all. *)
SeedDays(l) ==
  LET legacy == {f \in followersOf(l) : seeding.live[f] > 0}
  IN  CASE l = FlowLog /\ FlowLogDays > 0 -> FlowLogDays
        [] legacy # {} -> seeding.live[CHOOSE f \in legacy : TRUE]
        [] seeding.live[l] > 0 -> seeding.live[l]
        [] OTHER -> DefaultDays[l]

(* One INSERT.  A request stored since the policies were read may carry the later updated_at. *)
SeedPolicy ==
  /\ seeding.step = "seed" /\ seeding.missing # {}
  /\ \E l \in seeding.missing :
       \/ /\ RTNoFault
          /\ seeding' = [seeding EXCEPT !.missing = @ \ {l}]
          /\ \/ policies' = [policies EXCEPT ![l] = [days |-> SeedDays(l), cold |-> 0, enabled |-> TRUE]]
             \/ policies[l] # NoPolicy /\ UNCHANGED policies
       \/ /\ RTFault
          /\ seeding' = [seeding EXCEPT !.step = "done"]
          /\ UNCHANGED policies
  /\ UNCHANGED <<ttl, partitions, storage, day, listed, cycle, request, edits>>

SeedingEnds ==
  /\ seeding.step = "seed" /\ seeding.missing = {}
  /\ seeding' = [seeding EXCEPT !.step = "done"]
  /\ UNCHANGED <<policies, ttl, partitions, storage, day, listed, cycle, request, edits, rtFaults>>

(***************************************************************************)
(* The administrator's request.                                            *)
(***************************************************************************)
(* The handler and the store refuse what is inconsistent; a request without cold_after_days reads the stored one. *)
SetRetention(l, days, cold, enabled) ==
  /\ request = NoRequest /\ edits < MaxEdits
  /\ edits' = edits + 1
  /\ request' = [table |-> l, days |-> days, enabled |-> enabled,
                 cold |-> IF cold = Keep THEN policies[l].cold ELSE cold]
  /\ UNCHANGED <<policies, ttl, partitions, storage, day, seeding, listed, cycle, rtFaults>>

(* The row is inserted, or the request is refused, or the insert fails. *)
SetRetentionPolicy ==
  /\ request # NoRequest
  /\ \/ /\ validateRetention(request.days, request.cold)
        /\ policies' = [policies EXCEPT ![request.table] =
             [days |-> request.days, cold |-> request.cold, enabled |-> request.enabled]]
        /\ RTNoFault
     \/ /\ ~validateRetention(request.days, request.cold)
        /\ UNCHANGED policies /\ RTNoFault
     \/ UNCHANGED policies /\ RTFault
  /\ request' = NoRequest
  /\ UNCHANGED <<ttl, partitions, storage, day, seeding, listed, cycle, edits>>

(***************************************************************************)
(* The reconciler.                                                         *)
(***************************************************************************)
tableStoragePolicies == storage
tablesWithActiveParts == {t \in Managed : partitions[t] # {}}

NoCycle ==
  [step |-> "idle", todo |-> {}, table |-> "none", cold |-> 0, list |-> {}, storage |-> tableStoragePolicies]

\* Mutant: the legacy tables are forgotten.
OwnTargets(follow) == {t \in Present : t \in Leaders /\ policies[t].enabled}

(* The tables of the enabled policies that exist, and those of their followers that still hold rows. *)
Targets(follow) ==
  {t \in Present : /\ policies[leaderOf(t)].enabled
                   /\ t \in Leaders \/ (follow /\ t \in tablesWithActiveParts)}

(* The reads at the start; a failing one gives up the cycle, the followers or the cold tier. *)
ReconcileRetention ==
  /\ seeding.step = "done" /\ cycle.step = "idle"
  /\ \/ /\ RTNoFault
        /\ listed' = policies
        /\ cycle' = [NoCycle EXCEPT !.step = "table", !.todo = Targets(TRUE)]
     \/ /\ RTFault
        /\ \/ UNCHANGED <<listed, cycle>>
           \/ /\ listed' = policies
              /\ cycle' = [NoCycle EXCEPT !.step = "table", !.todo = Targets(FALSE)]
           \/ /\ listed' = policies
              /\ cycle' = [NoCycle EXCEPT !.step = "table", !.todo = Targets(TRUE),
                                       !.storage = [t \in Managed |-> "unknown"]]
  /\ UNCHANGED <<policies, ttl, partitions, storage, day, seeding, request, edits>>

effectiveColdDays(p, stored) ==
  IF stored = "tiered" /\ p.cold < p.days THEN p.cold ELSE 0

(* The table may be switched to the only storage policy that qualifies. *)
adoptColdPolicy(t, p) ==
  /\ p.cold > 0 /\ p.cold < p.days
  /\ cycle.storage[t] = "default" /\ Candidates = 1

matches(live, days, cold) == live.days = days /\ live.cold = cold
buildModifyTTLStatement(days, cold) == cold = 0 \/ cold < days

\* The TTLs once the one of a table is brought in line.
applyTTLIfDiverged(t, days, cold) ==
  IF matches(ttl[t], days, cold) THEN ttl ELSE [ttl EXCEPT ![t] = [days |-> days, cold |-> cold]]

(* reconcileTable, up to the TTL: its failure ends the work on this table. *)
reconcileTable(t) ==
  LET p == listed[leaderOf(t)]
  IN  /\ cycle.step = "table" /\ t \in cycle.todo
      /\ \E adopted \in {adoptColdPolicy(t, p), FALSE}, applied \in BOOLEAN :
           LET stored == IF adopted THEN "tiered" ELSE cycle.storage[t]
               cold == effectiveColdDays(p, stored)
           IN  /\ buildModifyTTLStatement(p.days, cold)
               /\ storage' = IF adopted THEN [storage EXCEPT ![t] = stored] ELSE storage
               /\ ttl' = IF applied THEN applyTTLIfDiverged(t, p.days, cold) ELSE ttl
               /\ cycle' = [cycle EXCEPT !.todo = @ \ {t}, !.storage[t] = stored, !.table = t,
                              !.cold = cold, !.step = IF applied THEN "listExpired" ELSE "table"]
               /\ IF applied /\ adopted = adoptColdPolicy(t, p) THEN RTNoFault ELSE RTFault
      /\ UNCHANGED <<policies, partitions, day, seeding, listed, request, edits>>

AfterExpired == IF cycle.cold > 0 THEN "listCold" ELSE "table"

\* Mutant: the limit is taken for expired.
ExpiredOrDue(t, days) == {p \in partitions[t] : p.at <= day - (days + Grace)}

(* The partitions whose newest row is a full day past the retention. *)
Expired(t, days) == {p \in partitions[t] : p.at < day - (days + Grace)}

ListExpired ==
  /\ cycle.step = "listExpired"
  /\ \/ /\ RTNoFault
        /\ cycle' = [cycle EXCEPT !.step = "drop",
                       !.list = {p.at : p \in Expired(cycle.table, listed[leaderOf(cycle.table)].days)}]
     \/ RTFault /\ cycle' = [cycle EXCEPT !.step = AfterExpired]
  /\ UNCHANGED <<policies, ttl, partitions, storage, day, seeding, listed, request, edits>>

(* sweepExpiredPartitions, one DROP PARTITION per step; the first failure ends the sweep. *)
DropPartition ==
  /\ cycle.step = "drop"
  /\ \/ /\ cycle.list = {} /\ RTNoFault
        /\ cycle' = [cycle EXCEPT !.step = AfterExpired]
        /\ UNCHANGED partitions
     \/ \E d \in cycle.list :
          \/ /\ RTNoFault
             /\ partitions' = [partitions EXCEPT ![cycle.table] = {p \in @ : p.at # d}]
             /\ cycle' = [cycle EXCEPT !.list = @ \ {d}]
          \/ /\ RTFault
             /\ cycle' = [cycle EXCEPT !.step = AfterExpired, !.list = {}]
             /\ UNCHANGED partitions
  /\ UNCHANGED <<policies, ttl, storage, day, seeding, listed, request, edits>>

(* The oldest hot partitions past the cold limit, without the ones about to be dropped. *)
ColdCandidates(t) ==
  LET days == listed[leaderOf(t)].days
      old == {p \in partitions[t] : /\ ~p.cold /\ p.at < day - cycle.cold
                                    /\ p.at >= day - (days + Grace)}
  IN  {p.at : p \in {q \in old : Cardinality({r \in old : r.at < q.at}) < MaxColdMoves}}

ListCold ==
  /\ cycle.step = "listCold"
  /\ \/ RTNoFault /\ cycle' = [cycle EXCEPT !.step = "move", !.list = ColdCandidates(cycle.table)]
     \/ RTFault /\ cycle' = [cycle EXCEPT !.step = "table"]
  /\ UNCHANGED <<policies, ttl, partitions, storage, day, seeding, listed, request, edits>>

(* sweepColdPartitions: the oldest first, the first failure ends the sweep. *)
MovePartition ==
  /\ cycle.step = "move"
  /\ \/ /\ cycle.list = {} /\ RTNoFault
        /\ cycle' = [cycle EXCEPT !.step = "table"]
        /\ UNCHANGED partitions
     \/ /\ cycle.list # {} /\ RTNoFault
        /\ partitions' = [partitions EXCEPT ![cycle.table] =
             {[p EXCEPT !.cold = @ \/ p.at = Min(cycle.list)] : p \in @}]
        /\ cycle' = [cycle EXCEPT !.list = @ \ {Min(@)}]
     \/ /\ cycle.list # {} /\ RTFault
        /\ cycle' = [cycle EXCEPT !.step = "table", !.list = {}]
        /\ UNCHANGED partitions
  /\ UNCHANGED <<policies, ttl, storage, day, seeding, listed, request, edits>>

CycleEnds ==
  /\ cycle.step = "table" /\ cycle.todo = {}
  /\ cycle' = NoCycle
  /\ UNCHANGED <<policies, ttl, partitions, storage, day, seeding, listed, request, edits, rtFaults>>

(* The collector is restarted: what was under way is lost, and the seeding runs again. *)
RestartCollector ==
  /\ RTFault
  /\ seeding' = [seeding EXCEPT !.step = "read", !.missing = {}]
  /\ cycle' = NoCycle
  /\ UNCHANGED <<policies, ttl, partitions, storage, day, listed, request, edits>>

Reconciler ==
  \/ ReadForSeeding \/ SeedPolicy \/ SeedingEnds
  \/ ReconcileRetention \/ (\E t \in Managed : reconcileTable(t)) \/ ListExpired
  \/ DropPartition \/ ListCold \/ MovePartition \/ CycleEnds

RTNext ==
  \/ NextDay \/ SetRetentionPolicy \/ RestartCollector \/ Reconciler
  \/ \E l \in Leaders, d \in EditDays, c \in EditCold \cup {Keep}, e \in BOOLEAN :
       SetRetention(l, d, c, e)

RTSpec == RTInit /\ [][RTNext]_rtVars

-----------------------------------------------------------------------------
(***************************************************************************)
(* Properties                                                              *)
(***************************************************************************)
(* A partition disappears only if the policy of its table, as the running  *)
(* cycle read it, is enabled and the newest row of the partition is more   *)
(* than the grace past it (sweepExpiredPartitions): neither an edit, a     *)
(* restart, a failed statement nor the following of another table's policy *)
(* makes the reconciler drop data that policy keeps.                       *)
OnlyExpiredIsDropped ==
  [][\A t \in Managed : \A p \in partitions[t] :
       (\A q \in partitions'[t] : q.at # p.at) =>
         LET policy == listed[leaderOf(t)]
         IN  policy.enabled /\ p.at + policy.days + Grace < day]_rtVars

Settled(t, p) ==
  LET cold == effectiveColdDays(p, IF Candidates = 1 THEN "tiered" ELSE storage[t])
  IN  /\ ttl[t] = [days |-> p.days, cold |-> cold]
      /\ \A q \in partitions[t] : /\ q.at >= day - (p.days + Grace)
                                  /\ cold > 0 /\ q.at < day - cold => q.cold

(* Once the edits, the faults and the clock come to rest, every existing   *)
(* table with an enabled policy, and every legacy table that still holds   *)
(* rows, carries the TTL of the stored policy, keeps no partition past it, *)
(* and has on the cold volume what the policy wants there: a failure of    *)
(* any of the steps between the stored policy and the tables is made good  *)
(* by a later cycle (ReconcileRetention).                                  *)
RetentionConverges ==
  <>[](\A t \in Present :
         /\ policies[leaderOf(t)].enabled
         /\ t \in Leaders \/ partitions[t] # {}
         => Settled(t, policies[leaderOf(t)]))
=============================================================================
