------------------------------ MODULE BGPService ------------------------------
(***************************************************************************)
(* The blackhole service of the API process (internal/bgp/service.go): it  *)
(* keeps three copies of "which prefixes are blackholed" in agreement, the *)
(* bgp_blocks table (rows, of BlockLedger), its own map (active) and the   *)
(* RIB of a BGP daemon that it drives through commands (rib).              *)
(*                                                                         *)
(* Every operation that runs a daemon command holds opMu, so at most one   *)
(* is under way: it is the variable op, whose step says what it does next. *)
(* Between two steps the clock moves, the daemon or the API restarts, and  *)
(* refreshSession, which does not take opMu, changes the entries.  A step  *)
(* is one command, one store call, or the memory updates that follow it.   *)
(*                                                                         *)
(* Failures: a command may fail without effect ("error") or be killed by   *)
(* its timeout after the daemon applied it ("timeout"); a listing longer   *)
(* than the output buffer is cut ("truncated"); a store write may fail     *)
(* without effect ("store") or after it ("late"); the API process may stop *)
(* at any step ("crash") and the daemon may lose its RIB ("daemon").       *)
(***************************************************************************)
EXTENDS BlockLedger

CONSTANTS
  DryModes,         \* the values BGP_DRY_RUN takes over the restarts
  RoutesSupported,  \* BGP_ROUTES_CMD is set
  Callers,          \* who runs refreshSession: "loop" (checkDaemon), "http" (Status)
  MaxOrphans,       \* how many unknown routes a RIB report lists (100)
  FaultKinds,       \* the failures that happen in an instance
  MaxFaults         \* bound: how many failures happen

AllFaults == {"error", "timeout", "truncated", "store", "late", "crash", "daemon"}

ASSUME ServiceAssumption ==
  /\ DryModes \subseteq BOOLEAN /\ DryModes # {}
  /\ RoutesSupported \in BOOLEAN
  /\ Callers \subseteq {"loop", "http"} /\ "loop" \in Callers
  /\ MaxOrphans \in Nat /\ MaxFaults \in Nat
  /\ FaultKinds \subseteq AllFaults

VARIABLES
  rib,        \* the routes of the live daemon
  dryRib,     \* DryRunDaemon.rib, in the API's memory
  peer,       \* the daemon's BGP session is established
  dryRun,     \* opts.DryRun of the running process
  loaded,     \* restore has succeeded
  active,     \* Service.active: an entry per prefix (ids = {} : none)
  autoIds,    \* Service.autoTimes, as the rows that contributed a time
  session,    \* Service.session.State as last applied, "unseen" before
  orphans,    \* Service.rib.Orphans, of the last RIB report
  op,         \* the operation that holds opMu
  loop,       \* the Run goroutine: where Reconcile stands
  probe,      \* per caller of refreshSession: the state Status returned
  faults      \* failures left

memoryVars == <<dryRun, loaded, active, autoIds, session, orphans>>
daemonVars == <<rib, dryRib>>
vars == <<rows, doubtful, clock, rib, dryRib, peer, dryRun, loaded, active, autoIds,
          session, orphans, op, loop, probe, faults>>

-----------------------------------------------------------------------------
(* State. *)

NoEntry == [ids |-> {}, exp |-> 0, dry |-> FALSE, pending |-> FALSE, withdrawn |-> FALSE]

Entry == [ids: SUBSET Ids, exp: Nat, dry: BOOLEAN, pending: BOOLEAN, withdrawn: BOOLEAN]

Known == {p \in Prefixes : active[p].ids # {}}

Live == {p \in Known : ~active[p].withdrawn}

\* Mutant: entries that wait for their re-announcement are not counted.
CountConfirmed == Cardinality({p \in Live : ~active[p].pending})

CountActive == Cardinality(Live)

Expired(p, t) == active[p].exp <= t

\* pruneAutoLocked: the automatic blocks of the hour before t.
RecentAutos(S, t) == {id \in S : rows[id].at > t - Hour}

(***************************************************************************)
(* The holder of opMu: step is what it does next, p the prefix it works    *)
(* on, at is s.now() as sampled after the lock.  Block carries its request *)
(* and the id of its row; a pass over the entries (expireAndRetry and      *)
(* checkDaemon) carries what is left of its snapshot (todo) and what the   *)
(* routes command listed; Unblock is a pass over nothing else.             *)
(***************************************************************************)
Idle == [kind |-> "idle"]

BlockOp == [kind: {"block"}, step: {"insert", "announce", "publish", "markFailed"},
            p: Prefixes, id: Ids, at: Nat, dur: Durations, auto: BOOLEAN]

PassOp == [kind: {"expire", "check"}, step: {"next"}, at: Nat,
           todo: SUBSET Prefixes, listed: SUBSET Prefixes]

EntryOp == [kind: {"unblock", "expire", "check"},
            step: {"withdraw", "verify", "persist", "orphan", "announce", "confirm"},
            p: Prefixes, at: Nat, todo: SUBSET Prefixes, listed: SUBSET Prefixes]

At(kind, step) == op.kind = kind /\ op.step = step

\* The operation o turns to the entry of p.
Handle(o, p, step) == [kind |-> o.kind, step |-> step, p |-> p, at |-> o.at,
                       todo |-> o.todo, listed |-> o.listed]

\* The entry of op is dealt with: Unblock returns, a pass goes on.
Done == IF op.kind = "unblock" THEN Idle
        ELSE [kind |-> op.kind, step |-> "next", at |-> op.at,
              todo |-> op.todo \ {op.p}, listed |-> op.listed]

\* The types of the table, the daemon, the memory and the operation under way.
TypeOK ==
  /\ LedgerTypeOK
  /\ rib \subseteq Prefixes /\ dryRib \subseteq Prefixes
  /\ peer \in BOOLEAN /\ dryRun \in DryModes /\ loaded \in BOOLEAN
  /\ active \in [Prefixes -> Entry]
  /\ autoIds \subseteq Ids
  /\ session \in {"unseen", "established", "other"}
  /\ orphans \subseteq Prefixes
  /\ op \in {Idle} \cup BlockOp \cup PassOp \cup EntryOp
  /\ loop \in {"rest", "session", "check"}
  /\ probe \in [Callers -> {"none", "established", "other", "failed"}]
  /\ faults \in 0..MaxFaults

Init ==
  /\ LedgerInit
  /\ rib = {} /\ dryRib = {} /\ peer = TRUE
  /\ dryRun \in DryModes /\ loaded = FALSE
  /\ active = [p \in Prefixes |-> NoEntry]
  /\ autoIds = {} /\ session = "unseen" /\ orphans = {}
  /\ op = Idle /\ loop = "rest" /\ probe = [c \in Callers |-> "none"]
  /\ faults = MaxFaults

-----------------------------------------------------------------------------
(* Commands and store calls, with the ways they fail. *)

Fault(kind) ==
  /\ kind \in FaultKinds /\ faults > 0
  /\ faults' = faults - 1

\* Mutant: the mode of the process decides, not the mark of the block.
DryByProcess(p) == dryRun

\* daemonFor: the daemon of an entry depends on the block's own mark.
DryEntry(p) == active[p].dry

\* A dry-run block never leaves the API's memory.
Announce(dry, p) ==
  /\ dryRib' = IF dry THEN dryRib \cup {p} ELSE dryRib
  /\ rib' = IF dry THEN rib ELSE rib \cup {p}

Withdraw(dry, p) ==
  /\ dryRib' = IF dry THEN dryRib \ {p} ELSE dryRib
  /\ rib' = IF dry THEN rib ELSE rib \ {p}

Succeeds(Effect) == Effect /\ UNCHANGED faults

\* A live command fails before the daemon acted, or is killed after it did.
Fails(dry, Effect) ==
  /\ ~dry
  /\ \/ Fault("error") /\ UNCHANGED daemonVars
     \/ Fault("timeout") /\ Effect

\* Mutant: the status is not validated against the two final ones.
SetUncheckedStatus(S, st) ==
  rows' = [id \in Ids |-> IF id \in S /\ rows[id].st = "active"
                          THEN [rows[id] EXCEPT !.st = "expired"] ELSE rows[id]]

\* SetBlockStatus: only the rows still active move.
SetBlockStatus(S, st) ==
  rows' = [id \in Ids |-> IF id \in S /\ rows[id].st = "active"
                          THEN [rows[id] EXCEPT !.st = st] ELSE rows[id]]

StatusWritten(S, st) == SetBlockStatus(S, st) /\ UNCHANGED <<doubtful, faults>>

StatusWriteFails(S, st) ==
  /\ doubtful' = doubtful \cup S
  /\ \/ Fault("store") /\ UNCHANGED rows
     \/ Fault("late") /\ SetBlockStatus(S, st)

-----------------------------------------------------------------------------
(* Block. *)

\* Block passes the rails and picks a row id; now is sampled here.
BlockAdmit(p, d, auto) ==
  /\ op = Idle /\ loaded
  /\ p \notin Live
  /\ CountActive < MaxActive
  /\ auto => Cardinality(RecentAutos(autoIds, clock)) < AutoPerHour
  /\ autoIds' = IF auto THEN RecentAutos(autoIds, clock) ELSE autoIds
  /\ \E id \in Ids :
       /\ rows[id] = NoRow
       /\ op' = [kind |-> "block", step |-> "insert", p |-> p, id |-> id, at |-> clock,
                 dur |-> d, auto |-> auto]
  /\ UNCHANGED <<rows, doubtful, clock, rib, dryRib, peer, dryRun, loaded, active, session,
                 orphans, loop, probe, faults>>

\* Row first: InsertBlock.
BlockInsert ==
  /\ At("block", "insert")
  /\ LET Inserted == rows' = [rows EXCEPT ![op.id] =
                       [p |-> op.p, at |-> op.at, exp |-> op.at + op.dur, auto |-> op.auto,
                        dry |-> dryRun, st |-> "active"]]
     IN \/ Inserted /\ op' = [op EXCEPT !.step = "announce"] /\ UNCHANGED <<doubtful, faults>>
        \/ Fault("store") /\ op' = Idle /\ UNCHANGED <<rows, doubtful>>
        \/ Fault("late") /\ Inserted /\ op' = Idle /\ doubtful' = doubtful \cup {op.id}
  /\ UNCHANGED <<clock, rib, dryRib, peer, memoryVars, loop, probe>>

\* Route second.
BlockAnnounce ==
  /\ At("block", "announce")
  /\ \/ Succeeds(Announce(dryRun, op.p)) /\ op' = [op EXCEPT !.step = "publish"]
     \/ Fails(dryRun, Announce(dryRun, op.p)) /\ op' = [op EXCEPT !.step = "markFailed"]
  /\ UNCHANGED <<rows, doubtful, clock, peer, memoryVars, loop, probe>>

\* The new entry replaces whatever entry the prefix had.
BlockPublish ==
  /\ At("block", "publish")
  /\ active' = [active EXCEPT ![op.p] = [ids |-> {op.id}, exp |-> op.at + op.dur, dry |-> dryRun,
                                         pending |-> FALSE, withdrawn |-> FALSE]]
  /\ autoIds' = IF op.auto THEN autoIds \cup {op.id} ELSE autoIds
  /\ op' = Idle
  /\ UNCHANGED <<rows, doubtful, clock, rib, dryRib, peer, dryRun, loaded, session, orphans,
                 loop, probe, faults>>

\* A failed announce: the row is marked, a failure to mark it only logged.
BlockMarkFailed ==
  /\ At("block", "markFailed")
  /\ StatusWritten({op.id}, "failed") \/ StatusWriteFails({op.id}, "failed")
  /\ op' = Idle
  /\ UNCHANGED <<clock, rib, dryRib, peer, memoryVars, loop, probe>>

\* pruneAutoLocked, from Status or from an automatic request that is refused.
PruneAuto ==
  /\ autoIds # RecentAutos(autoIds, clock)
  /\ autoIds' = RecentAutos(autoIds, clock)
  /\ UNCHANGED <<rows, doubtful, clock, rib, dryRib, peer, dryRun, loaded, active, session,
                 orphans, op, loop, probe, faults>>

-----------------------------------------------------------------------------
(* Unblock, and the withdrawal it shares with expiry. *)

\* An entry, withdrawn or not, or else a route of the last RIB report.
UnblockBegin(p) ==
  /\ op = Idle /\ loaded
  /\ p \in Known \cup orphans
  /\ op' = Handle([kind |-> "unblock", at |-> clock, todo |-> {}, listed |-> {}], p,
                  IF p \notin Known THEN "orphan"
                  ELSE IF active[p].withdrawn THEN "persist" ELSE "withdraw")
  /\ UNCHANGED <<rows, doubtful, clock, rib, dryRib, peer, memoryVars, loop, probe, faults>>

OrphanWithdraw ==
  /\ At("unblock", "orphan")
  /\ \/ Succeeds(Withdraw(FALSE, op.p)) /\ orphans' = orphans \ {op.p}
     \/ Fails(FALSE, Withdraw(FALSE, op.p)) /\ UNCHANGED orphans
  /\ op' = Idle
  /\ UNCHANGED <<rows, doubtful, clock, peer, dryRun, loaded, active, autoIds, session,
                 loop, probe>>

\* Mutant: the entry is not marked before the store update.
LeaveUnmarked(p) == UNCHANGED active

MarkWithdrawn(p) == active' = [active EXCEPT ![p].withdrawn = TRUE]

\* withdrawEntryLocked: the command, and the mark when it succeeds.
EntryWithdraw ==
  /\ op.kind \in {"unblock", "expire"} /\ op.step = "withdraw"
  /\ LET dry == DryEntry(op.p)
     IN \/ /\ Succeeds(Withdraw(dry, op.p))
           /\ MarkWithdrawn(op.p)
           /\ op' = [op EXCEPT !.step = "persist"]
        \/ /\ Fails(dry, Withdraw(dry, op.p))
           /\ op' = [op EXCEPT !.step = "verify"]
           /\ UNCHANGED active
  /\ UNCHANGED <<rows, doubtful, clock, peer, dryRun, loaded, autoIds, session, orphans,
                 loop, probe>>

\* What the routes command may answer: all the routes, or those that fit.
Listing(L) == \/ L = rib /\ UNCHANGED faults
              \/ L \subseteq rib /\ Fault("truncated")

ListingFails == \/ ~RoutesSupported /\ UNCHANGED faults
                \/ RoutesSupported /\ Fault("error")

\* Mutant: any answer of the routes command counts as an absence.
AnyListing(p, L) == TRUE

AbsentFrom(p, L) == p \notin L

\* absentFromRIB: a failed withdraw counts when the route is not listed.
EntryVerify ==
  /\ op.kind \in {"unblock", "expire"} /\ op.step = "verify"
  /\ \/ /\ RoutesSupported
        /\ \E L \in SUBSET rib :
             /\ Listing(L)
             /\ \/ /\ AbsentFrom(op.p, L)
                   /\ MarkWithdrawn(op.p)
                   /\ op' = [op EXCEPT !.step = "persist"]
                \/ ~AbsentFrom(op.p, L) /\ op' = Done /\ UNCHANGED active
     \/ ListingFails /\ op' = Done /\ UNCHANGED active
  /\ UNCHANGED <<rows, doubtful, clock, rib, dryRib, peer, dryRun, loaded, autoIds, session,
                 orphans, loop, probe>>

\* persistWithdrawLocked: the entry stays when the store refuses.
EntryPersist ==
  /\ op.kind \in {"unblock", "expire"} /\ op.step = "persist"
  /\ LET ids == active[op.p].ids
     IN \/ StatusWritten(ids, "withdrawn") /\ active' = [active EXCEPT ![op.p] = NoEntry]
        \/ StatusWriteFails(ids, "withdrawn") /\ UNCHANGED active
  /\ op' = Done
  /\ UNCHANGED <<clock, rib, dryRib, peer, dryRun, loaded, autoIds, session, orphans,
                 loop, probe>>

-----------------------------------------------------------------------------
(* The Run goroutine: Reconcile is restore (until it succeeds), then       *)
(* expireAndRetry, then checkDaemon when ReconcileInterval has passed.     *)

RowsOf(p) == {id \in ActiveRows : rows[id].p = p}

\* Mutant: a row that expired while the API was stopped is not loaded.
RestoredUnexpired(p) ==
  IF {id \in RowsOf(p) : rows[id].exp > clock} = {} THEN {NoEntry}
  ELSE {[ids |-> RowsOf(p), exp |-> rows[id].exp, dry |-> rows[id].dry,
         pending |-> TRUE, withdrawn |-> FALSE] : id \in RowsOf(p)}

\* restore groups the active rows by prefix; the oldest one gives the block.
Restored(p) ==
  IF RowsOf(p) = {} THEN {NoEntry}
  ELSE {[ids |-> RowsOf(p), exp |-> rows[id].exp, dry |-> rows[id].dry,
         pending |-> TRUE, withdrawn |-> FALSE] :
          id \in {i \in RowsOf(p) : \A j \in RowsOf(p) : rows[i].at <= rows[j].at}}

\* Mutant: automatic blocks already withdrawn are forgotten by a restart.
RestoredActiveAutos ==
  RecentAutos({id \in Ids : rows[id].st = "active" /\ rows[id].auto}, clock)

\* The rate window after a restart: automatic rows of any status.
RestoredAutos == RecentAutos({id \in Ids : rows[id] # NoRow /\ rows[id].auto}, clock)

Restore ==
  /\ op = Idle /\ ~loaded
  /\ active' \in {f \in [Prefixes -> UNION {Restored(p) : p \in Prefixes}] :
                    \A p \in Prefixes : f[p] \in Restored(p)}
  /\ autoIds' = RestoredAutos
  /\ loaded' = TRUE
  /\ UNCHANGED <<rows, doubtful, clock, rib, dryRib, peer, dryRun, session, orphans, op,
                 loop, probe, faults>>

ExpireBegin ==
  /\ op = Idle /\ loaded /\ loop = "rest"
  /\ op' = [kind |-> "expire", step |-> "next", at |-> clock, todo |-> Known, listed |-> {}]
  /\ UNCHANGED <<rows, doubtful, clock, rib, dryRib, peer, memoryVars, loop, probe, faults>>

Skip(p) == [op EXCEPT !.todo = @ \ {p}]

\* Mutant: a block that expires before its re-announcement needs no command.
ExpireUnconfirmed(p) ==
  IF active[p].withdrawn \/ (Expired(p, op.at) /\ active[p].pending) THEN "persist"
  ELSE IF Expired(p, op.at) THEN "withdraw"
  ELSE IF active[p].pending THEN "announce" ELSE "next"

\* A store update that is due, expiry, a retry, in this order.
ExpireStep(p) ==
  IF active[p].withdrawn THEN "persist"
  ELSE IF Expired(p, op.at) THEN "withdraw"
  ELSE IF active[p].pending THEN "announce" ELSE "next"

ExpireEntry(p) ==
  /\ At("expire", "next") /\ p \in op.todo
  /\ op' = IF ExpireStep(p) = "next" THEN Skip(p) ELSE Handle(op, p, ExpireStep(p))
  /\ UNCHANGED <<rows, doubtful, clock, rib, dryRib, peer, memoryVars, loop, probe, faults>>

RetryAnnounce ==
  /\ At("expire", "announce")
  /\ LET dry == DryEntry(op.p)
     IN \/ Succeeds(Announce(dry, op.p)) /\ op' = [op EXCEPT !.step = "confirm"]
        \/ Fails(dry, Announce(dry, op.p)) /\ op' = Done
  /\ UNCHANGED <<rows, doubtful, clock, peer, memoryVars, loop, probe>>

\* pending is cleared after the command, under mu only.
RetryConfirm ==
  /\ At("expire", "confirm")
  /\ active' = [active EXCEPT ![op.p].pending = FALSE]
  /\ op' = Done
  /\ UNCHANGED <<rows, doubtful, clock, rib, dryRib, peer, dryRun, loaded, autoIds, session,
                 orphans, loop, probe, faults>>

ExpireEnd ==
  /\ At("expire", "next") /\ op.todo = {}
  /\ op' = Idle
  /\ loop' \in {"rest", "session"}
  /\ UNCHANGED <<rows, doubtful, clock, rib, dryRib, peer, memoryVars, probe, faults>>

(***************************************************************************)
(* refreshSession, from checkDaemon (loop) or from GET /bgp/status (http): *)
(* the status command first, its result applied later, without opMu.       *)
(***************************************************************************)
SessionStatus(c) ==
  /\ probe[c] = "none"
  /\ c = "loop" => loop = "session"
  /\ \/ /\ probe' = [probe EXCEPT ![c] = IF peer THEN "established" ELSE "other"]
        /\ UNCHANGED faults
     \/ probe' = [probe EXCEPT ![c] = "failed"] /\ Fault("error")
  /\ UNCHANGED <<rows, doubtful, clock, rib, dryRib, peer, memoryVars, op, loop>>

\* Mutant: a recovered session re-announces nothing.
RepushNothing == active

\* A recovered session marks every live block for re-announcement.
Repush == [p \in Prefixes |-> IF p \in Live /\ ~active[p].dry
                              THEN [active[p] EXCEPT !.pending = TRUE] ELSE active[p]]

SessionApply(c) ==
  /\ probe[c] # "none"
  /\ session' = IF probe[c] = "established" THEN "established" ELSE "other"
  /\ active' = IF probe[c] = "established" /\ session = "other" THEN Repush ELSE active
  /\ probe' = [probe EXCEPT ![c] = "none"]
  /\ loop' = IF c = "loop" THEN "check" ELSE loop
  /\ UNCHANGED <<rows, doubtful, clock, rib, dryRib, peer, dryRun, loaded, autoIds, orphans,
                 op, faults>>

\* checkDaemon: the routes command, which may be missing or fail.
CheckBegin ==
  /\ op = Idle /\ loop = "check"
  /\ loop' = "rest"
  /\ \/ /\ RoutesSupported
        /\ \E L \in SUBSET rib :
             /\ Listing(L)
             /\ op' = [kind |-> "check", step |-> "next", at |-> clock, todo |-> Known,
                       listed |-> L]
        /\ UNCHANGED orphans
     \/ ListingFails /\ orphans' = {} /\ UNCHANGED op
  /\ UNCHANGED <<rows, doubtful, clock, rib, dryRib, peer, dryRun, loaded, active, autoIds,
                 session, probe>>

\* Mutant: the routes that are there are the ones announced again.
MissingIfListed(p) ==
  ~active[p].dry /\ ~active[p].withdrawn /\ ~active[p].pending /\ p \in op.listed

Missing(p) ==
  ~active[p].dry /\ ~active[p].withdrawn /\ ~active[p].pending /\ p \notin op.listed

CheckEntry(p) ==
  /\ At("check", "next") /\ p \in op.todo
  /\ op' = IF Missing(p) THEN Handle(op, p, "announce") ELSE Skip(p)
  /\ UNCHANGED <<rows, doubtful, clock, rib, dryRib, peer, memoryVars, loop, probe, faults>>

\* A missing route is announced again; a failure is only reported.
CheckAnnounce ==
  /\ At("check", "announce")
  /\ LET dry == DryEntry(op.p)
     IN Succeeds(Announce(dry, op.p)) \/ Fails(dry, Announce(dry, op.p))
  /\ op' = Done
  /\ UNCHANGED <<rows, doubtful, clock, peer, memoryVars, loop, probe>>

CheckEnd ==
  /\ At("check", "next") /\ op.todo = {}
  /\ LET unknown == op.listed \ Known
     IN orphans' \in {S \in SUBSET unknown :
                        \/ S = unknown /\ Cardinality(unknown) <= MaxOrphans
                        \/ Cardinality(S) = MaxOrphans}
  /\ op' = Idle
  /\ UNCHANGED <<rows, doubtful, clock, rib, dryRib, peer, dryRun, loaded, active, autoIds,
                 session, loop, probe, faults>>

-----------------------------------------------------------------------------
(* The environment. *)

Tick == Advance /\ UNCHANGED <<rib, dryRib, peer, memoryVars, op, loop, probe, faults>>

\* The API process stops at any step and starts again.
Crash ==
  /\ Fault("crash")
  /\ dryRun' \in DryModes /\ loaded' = FALSE
  /\ active' = [p \in Prefixes |-> NoEntry]
  /\ autoIds' = {} /\ session' = "unseen" /\ orphans' = {} /\ dryRib' = {}
  /\ op' = Idle /\ loop' = "rest" /\ probe' = [c \in Callers |-> "none"]
  /\ UNCHANGED <<rows, doubtful, clock, rib, peer>>

\* The daemon restarts and forgets its routes, or only its session drops.
DaemonDown ==
  /\ Fault("daemon")
  /\ peer' = FALSE
  /\ rib' \in {{}, rib}
  /\ UNCHANGED <<rows, doubtful, clock, dryRib, memoryVars, op, loop, probe>>

PeerUp ==
  /\ ~peer /\ peer' = TRUE
  /\ UNCHANGED <<rows, doubtful, clock, rib, dryRib, memoryVars, op, loop, probe, faults>>

-----------------------------------------------------------------------------
BlockStep == BlockInsert \/ BlockAnnounce \/ BlockPublish \/ BlockMarkFailed

WithdrawStep == OrphanWithdraw \/ EntryWithdraw \/ EntryVerify \/ EntryPersist

PassStep ==
  \/ \E p \in Prefixes : ExpireEntry(p) \/ CheckEntry(p)
  \/ RetryAnnounce \/ RetryConfirm \/ ExpireEnd \/ CheckAnnounce \/ CheckEnd

Next ==
  \/ \E p \in Prefixes, d \in Durations, auto \in BOOLEAN : BlockAdmit(p, d, auto)
  \/ \E p \in Prefixes : UnblockBegin(p)
  \/ BlockStep \/ WithdrawStep \/ PassStep
  \/ PruneAuto \/ Restore \/ ExpireBegin \/ CheckBegin
  \/ \E c \in Callers : SessionStatus(c) \/ SessionApply(c)
  \/ Tick \/ Crash \/ DaemonDown \/ PeerUp

Spec == Init /\ [][Next]_vars

(***************************************************************************)
(* Fairness.  The holder of opMu goes on: every command and store call has *)
(* a timeout.  The Run goroutine ticks for ever, and gets opMu again and   *)
(* again (a Go mutex hands over to a waiter it has starved for 1 ms);      *)
(* ReconcileInterval keeps passing.  The clock moves; the BGP session      *)
(* comes back.  Nothing is assumed of the clients, nor that a failure      *)
(* happens.                                                                *)
(***************************************************************************)
Fairness ==
  /\ WF_vars(BlockStep \/ WithdrawStep \/ PassStep)
  /\ WF_vars(Restore) /\ SF_vars(ExpireBegin) /\ SF_vars(CheckBegin)
  /\ SF_vars(ExpireEnd /\ loop' = "session")
  /\ WF_vars(SessionStatus("loop")) /\ \A c \in Callers : WF_vars(SessionApply(c))
  /\ WF_vars(Tick) /\ WF_vars(PeerUp)

FairSpec == Spec /\ Fairness

-----------------------------------------------------------------------------
(* Safety. *)

\* The operation under way is about to settle the row.
InFlight(id) ==
  \/ op.kind = "block" /\ op.step # "insert" /\ op.id = id
  \/ op.kind \in {"unblock", "expire"} /\ op.step = "persist" /\ id \in active[op.p].ids

(***************************************************************************)
(* Once the state is loaded, every active row of bgp_blocks is owned: it   *)
(* belongs to a live entry, which will expire it, or the operation under   *)
(* way is about to settle it.  The exceptions are the rows about which a   *)
(* store write failed.  A row nobody owns would never expire before the    *)
(* next restart (service.go: Block, persistWithdrawLocked, restore).       *)
(***************************************************************************)
EveryActiveRowIsOwned ==
  loaded => \A id \in ActiveRows \ doubtful :
              \/ rows[id].p \in Live /\ id \in active[rows[id].p].ids
              \/ InFlight(id)

(***************************************************************************)
(* Conversely a live entry is backed by active rows of its prefix: what    *)
(* the service serves, counts and re-announces survives a restart.         *)
(***************************************************************************)
EveryLiveEntryIsBacked == \A p \in Live : active[p].ids \subseteq RowsOf(p)

(***************************************************************************)
(* A block recorded in dry-run mode never reaches the live daemon, "not    *)
(* even after you switch dry run off": every live route belongs to a       *)
(* prefix that has a row without the dry-run mark.                         *)
(***************************************************************************)
DryRunNeverAnnounced ==
  \A p \in rib : \E id \in Ids : rows[id] # NoRow /\ rows[id].p = p /\ ~rows[id].dry

(***************************************************************************)
(* "Never a route nobody knows about" (comment of Block): every route in   *)
(* the live daemon has an active row.  It holds while BGP_DRY_RUN keeps    *)
(* its value or every status update reaches the table, a listing is        *)
(* complete, and a command that fails has done nothing.                    *)
(***************************************************************************)
NeverUnknownRoute == \A p \in rib : RowsOf(p) # {}

(***************************************************************************)
(* What is left of it when a command can time out after its effect: a      *)
(* route always has a row that is active, or failed, never only withdrawn  *)
(* ones.                                                                   *)
(***************************************************************************)
RouteHasRecord ==
  \A p \in rib : \E id \in Ids : rows[id].st \in {"active", "failed"} /\ rows[id].p = p

(***************************************************************************)
(* An entry is marked withdrawn, and the request that withdrew it answered *)
(* as a success, only when the route is gone from the live daemon; it      *)
(* stays gone until Block announces the prefix again.                      *)
(***************************************************************************)
WithdrawnMeansGone ==
  \A p \in Known \cap rib :
    active[p].withdrawn /\ ~active[p].dry => At("block", "publish") /\ op.p = p

(***************************************************************************)
(* "On failure the entry stays (as withdrawn) and the loop retries" (the   *)
(* comment of persistWithdrawLocked): every active row is in the entry of  *)
(* its prefix, live or withdrawn, or is being settled.                     *)
(***************************************************************************)
EveryActiveRowIsTracked ==
  loaded => \A id \in ActiveRows : id \in active[rows[id].p].ids \/ InFlight(id)

-----------------------------------------------------------------------------
(* Liveness. *)

(***************************************************************************)
(* "Every block expires": an active row past its expiry is closed,         *)
(* whatever fails and restarts meanwhile, unless a store write about it    *)
(* failed (expireAndRetry, restore).                                       *)
(***************************************************************************)
EveryBlockExpires ==
  \A id \in Ids :
    (rows[id].st = "active" /\ rows[id].exp <= clock)
      ~> (rows[id].st # "active" \/ id \in doubtful)

(***************************************************************************)
(* A block that is live in memory and missing from the daemon comes back   *)
(* to the daemon, or stops being live: what checkDaemon is for.            *)
(***************************************************************************)
LiveBlocksReachTheDaemon ==
  \A p \in Prefixes :
    (p \in Live /\ ~active[p].dry /\ p \notin rib) ~> (p \notin Live \/ p \in rib)

(***************************************************************************)
(* "A session coming back to Established triggers a re-announce of every   *)
(* active block": a live block missing from the daemon while the session   *)
(* is known to be down reaches the daemon again, or stops being live.  It  *)
(* is all the service has when the daemon's routes cannot be listed.       *)
(***************************************************************************)
SessionRecoveryReannounces ==
  \A p \in Prefixes :
    (p \in Live /\ ~active[p].dry /\ p \notin rib /\ session = "other")
      ~> (p \notin Live \/ p \in rib)
=============================================================================
