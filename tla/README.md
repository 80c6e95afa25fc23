# as-stats in TLA+

as-stats collects NetFlow, IPFIX and sFlow from routers, stores the flows in
ClickHouse, shows them through an API and a web interface, raises alerts on
attacks and can blackhole the address under attack through BGP. This directory
holds specifications of the parts of it that act on the network, keep state
across failures or stand between a packet or a request and that state, the TLC
configurations that check them, and proofs.

| file | what it is |
| --- | --- |
| `BlockLedger.tla` | abstract specification: what the `bgp_blocks` table promises |
| `BGPService.tla` | the blackhole service of the API process |
| `MCBGPService.tla`, `MCService*.cfg`, `V*.cfg` | its instances |
| `BGPServiceProofs.tla` | theorems about both: the ledger, the table and the memory, the routes |
| `AlertEngine.tla` | the alert engine of the collector and the `alerts` table |
| `MCAlertEngine.tla`, `MCAlert*.cfg`, `V*.cfg` | its instances |
| `AlertEngineProofs.tla` | theorems about it |
| `CollectorPipeline.tla`, `FlowFate.tla` | listeners, decoders, enricher, writer and shutdown; what they promise about a flow |
| `TemplateDecoding.tla`, `SampleDecoding.tla` | NetFlow v9 and IPFIX with their shared tables; NetFlow v5 and sFlow |
| `Enrichment.tla` | the start of the collector and the enricher's tables |
| `MCCollector.tla`, `MCCollector.cfg` | the instance of those five |
| `CollectorPipelineProofs.tla`, `DecodingProofs.tla` | theorems about the pipeline and its refinement; about `SampleDecoding`, `TemplateDecoding` and `Enrichment` |
| `MigrationRunner.tla`, `SchemaProgress.tla` | the schema migrations; what they promise about the schema |
| `Retention.tla`, `ReportSchedules.tla`, `AlertRules.tla` | retention policies, scheduled reports, seeded and edited alert rules |
| `RateLimiter.tla`, `ResponseCache.tla`, `ApiGate.tla`, `BlockRequests.tla` | what a request passes on its way to a handler, and a block request to the service |
| `MCOperations.tla`, `MCOperations.cfg` | the instance of those nine |
| `MCMigration.tla`, `VPartialAdoption.cfg` | the instance of the finding on adoption |
| `MigrationRunnerProofs.tla`, `OperationsProofs.tla` | theorems about the runner and its refinement; about `ApiGate`, `Retention`, `AlertRules`, `RateLimiter` and `ResponseCache` |
| `ReportSchedulesProofs.tla`, `BlockRequestsProofs.tla` | theorems about `ReportSchedules` and about `BlockRequests` |
| `PROJECT.json` | components, runs, mutants, the map to the source, findings, hazards, theorems |

A run is `tlc -config X.cfg M`, with the module and the configuration that
`PROJECT.json` names for it; the proofs of a module are checked with
`tlapm M.tla`, for the eight modules whose names end in `Proofs`.

## Inventory

Two processes share one ClickHouse server.

**Collector** (`cmd/collector`).

- *Pipeline* (`internal/collector`): UDP listeners put packets in a queue,
  decoders turn them into flows, the enricher adds links and local flags, the
  batch writer inserts. State: bounded channels, at most two batches, the
  template cache and the sampling table of the decoders. Hard: back pressure,
  the order of a bounded shutdown, templates replaced while decoders run, a
  failed batch that must not be sent again. Correct when no decoded flow is
  lost on a clean stop, every flow is written or counted as dropped, and the
  shutdown ends.
- *Alert engine* (`internal/alerts`): every 30 s it resolves stale alerts, runs
  the rules and turns each violation into a heartbeat, a re-open or a new
  alert, with webhooks and a request to the API to blackhole the target. State:
  the `alerts` table (asynchronous mutations), the map of recent alerts, the
  heartbeat book. Hard: it reads a table that lags behind its own writes, under
  operators' decisions, failures and restarts. Correct when one incident has
  one alert, a firing alert stays open and a silent one closes.
- *Seeded rules, baseline gate, webhook notifier*: run once, or stateless.

**API** (`cmd/api`).

- *Blackhole service* (`internal/bgp/service.go`): the owner of the BGP daemon,
  which it drives with commands. State: the `bgp_blocks` table, a map of
  entries, the daemon's RIB, the window of automatic blocks, the last session
  state and RIB report. Operations: Block, Unblock, Status, and a loop that
  restores, expires, retries and repairs. Hard: three copies of one fact,
  commands that fail after their effect, store writes that fail, restarts of
  either side, session checks outside the lock. Correct when the copies agree,
  the rails (maximum of blocks, automatic blocks per hour) hold, every block
  expires, and a dry-run block never leaves the process.
- *Policy, settings, command templates* (`internal/bgp`): which prefixes may be
  blackholed, and how a command line is built. Pure functions.
- *Middleware* (response cache, rate limit, authentication, CSRF, roles,
  audit). State: a map of buckets, a list of responses, the rows of
  `api_tokens`. Hard: requests in parallel, headers the client chooses,
  revocations that are applied later than they are asked for.
- *Queries*: stateless translation of requests to SQL.

Both processes run jobs against the configuration tables: the *retention*
reconciler (stored policies against TTLs, partitions and volumes), the *report
scheduler* (a mail per occurrence across failures and restarts), the seeding and
upgrade of *alert rules*. A change of such a table is a new version of a row;
the latest `updated_at` counts. Correct when they converge on what is stored,
through edits, failing steps and restarts, and never undo an operator's decision.

**Migration runner** (`cmd/migrate`): a lock table, a history of events per
version, statements applied one by one. Hard: a runner that stops anywhere, two
runners, adopting a schema without history. Correct when no migration is
applied twice or after a failed one.

They interact through ClickHouse, through `POST /internal/bgp/blocks` (the
alert engine asks, the service decides) and through the daemon's commands.
`PROJECT.json` lists all parts with their status, and the hazards with the line
each one bites at.

## The blackhole service

### Abstract specification

`BlockLedger` is the table alone. A row is created while the rails leave room
(`Create`), takes a final status at most once (`Close`), and never changes
otherwise. A row is *doubtful* when a write about it was reported as failed: the
service may then believe something else of it than the table, and the rails
count the other rows. `BGPService` extends the module, so the refinement mapping
is the identity on `rows`, `doubtful` and `clock`; `LedgerSpec` is a property of
the run `service_faults` and a theorem.

### The model

| model | code |
| --- | --- |
| `rows` | `bgp_blocks`, through `internal/store/bgp_blocks.go` |
| `active` (`NoEntry`: absent) | `Service.active`, an `entry` per prefix |
| `autoIds` | `Service.autoTimes`, as the rows that gave the times |
| `rib`, `dryRib`, `peer` | the live daemon's routes, `DryRunDaemon.rib`, the BGP session |
| `op` | the holder of `opMu`: Block, Unblock, expireAndRetry or checkDaemon, and its next step |
| `loop`, `probe` | where the `Run` goroutine stands; what the status command returned to each caller of refreshSession |
| `session`, `orphans`, `loaded`, `dryRun` | the fields of the same names |

`opMu` is held for the whole of an operation, so one `op` variable is enough;
what the code does without `opMu` (applying a session status, setting `pending`,
pruning the window) is an action of its own that interleaves with every step.
A step is one command, one store call, or the memory updates after it:
`BlockAdmit`, `BlockInsert`, `BlockAnnounce`, then `BlockPublish` or
`BlockMarkFailed`; `UnblockBegin`, `EntryWithdraw`, `EntryVerify` (the listing
that may excuse a failed withdraw), `EntryPersist`; `Restore`, `ExpireBegin`,
`ExpireEntry`, `RetryAnnounce`, `RetryConfirm`, `ExpireEnd`; `SessionStatus`,
`SessionApply`; `CheckBegin`, `CheckEntry`, `CheckAnnounce`, `CheckEnd`.

Failures are named by `FaultKinds` and counted by `MaxFaults`: a command fails
without effect (`error`) or is killed after it (`timeout`); a listing is cut
(`truncated`); a store write fails without effect (`store`) or after it
(`late`); the API stops at any step (`crash`), in any mode of `DryModes` when it
starts again; the daemon loses its session and perhaps its routes (`daemon`).

Abstractions: a prefix stands for a target that passed the policy; a rejection
or a failed read that changes nothing is a stuttering step; whether
ReconcileInterval has passed is a free choice of `ExpireEnd`; the order of a
pass over the entries is free (the code sorts them); the effect of a command
killed by its timeout is decided when it is killed, not later; the report of
unknown routes keeps `MaxOrphans` of them; rows without an expiry or with an
unreadable target, which current code does not write, are left out; audit rows,
metrics and logs too. The live daemon is always the command daemon, as `Options`
builds it.

### Runs

Two prefixes compete for one active block (`MaxActive = 1`), two rows are enough
for a block, its successor and the hour that separates them, blocks last one unit
in an hour of two, and two failures are enough for a failure and the restart that
follows it (three where nothing but commands, the API and the daemon fails). `MaxTime` lets a block expire and its hour end. Prefixes and rows are
symmetric in the safety runs; the liveness runs have one prefix and no symmetry.

- `service_faults`: every failure except the cut listing. The table and the
  memory agree (`EveryActiveRowIsOwned`, `EveryLiveEntryIsBacked`), a route
  always has a row that is active or failed (`RouteHasRecord`), both rails hold of
  the table (`MaxActiveRail`, `AutoPerHourRail`), and the service implements the
  ledger (`LedgerSpec`).
- `service_routes`: restarts that switch dry run, HTTP status requests, commands
  that fail without effect, a daemon that loses its session and its routes; the
  store works and listings are complete. Every route has an active row
  (`NeverUnknownRoute`), a withdrawn entry has no route (`WithdrawnMeansGone`), a
  dry-run block never reaches the live daemon (`DryRunNeverAnnounced`).
- `service_live`: `EveryBlockExpires`, `LiveBlocksReachTheDaemon`.
- `service_no_routes`: `SessionRecoveryReannounces`, without a routes command.

`service_routes` leaves out three things on purpose; the theorems below say which
of the properties needs which.

- `timeout`: when an announce command is killed by its timeout after the daemon
  applied it, `Block` marks the row failed and keeps no entry, and the route stays
  with a failed row only (what `RouteHasRecord` allows).
- `store` and `late`, together with both modes: a dry-run row left active by a
  failed update and a live row of the same prefix are merged by restore into one
  dry-run entry, whose expiry closes both rows and withdraws nothing from the live
  daemon. `NeverUnknownRoute` then fails after three failures.
- `truncated`: output beyond 64 KiB of a routes command is dropped, so a route at
  the end of a long listing is taken as withdrawn.

Two runs show a disagreement with a comment or the documentation; the findings
of `PROJECT.json` quote the lines:

- `v_stale_row`: a new block forgets the row of a withdrawal not yet stored.
- `v_pending_race`: a status request during a retry loses a re-announcement.

### Fairness

Weak fairness of the steps of the operation under way, because each command and
store call has a timeout; of `Restore`, of the session check and of the clock.
Strong fairness of `ExpireBegin` and `CheckBegin`: clients may take `opMu` in
between again and again, and a Go mutex hands over to a waiter that has starved.
Strong fairness of the branch of `ExpireEnd` that goes on to checkDaemon, because
ReconcileInterval keeps passing. The session comes back (`PeerUp`). Nothing is
assumed of clients, and failures stop because they are counted.

### Proofs

For every value of the constants that satisfies `LedgerAssumption` and
`ServiceAssumption` (finite sets of prefixes and rows, natural limits, positive
hour and durations), with every failure:

- `TypeCorrectness`: `Spec => []TypeOK`.
- `ActiveRowsAreOwned` and `LiveEntriesAreBacked`: the two directions of the
  agreement between table and memory, `EveryActiveRowIsOwned` and
  `EveryLiveEntryIsBacked`.
- `ServiceImplementsLedger`: `Spec => LedgerSpec`.
- `ServiceKeepsRails`: both rails, from the refinement and `LedgerRails`.
- `LedgerRails`: the ledger keeps both rails; creating one
  row adds at most one prefix and one automatic row, and time and closing only
  remove some.

The inductive invariant `Inv` is needed because the rails are checked against
memory (`CountActive`, `autoIds`) and are about the table. It has five parts
besides the types and the two agreement properties. `LoadedFirst`: no operation runs before restore, and an expiry
pass runs only while the loop rests. `BlockInv`: a Block between its check and its
insert still has the room it was admitted with (nobody else adds a row while it
holds `opMu`, and time only removes), and after the insert its row is the one it
asked for. `EntryInv`: an operation on an entry works on one that exists, marked
withdrawn when it is about to be stored. `OwnRows`: the ids of an entry are rows
of its prefix. `AutosRemembered`: every automatic row of the last hour that is
not in doubt is in `autoIds` or being published. Together they give `TrustedPrefixes` at most `CountActive` at the insert, and
so the guard of `Create`. `InvStep` takes the actions one by one; `LedgerStep`
shows each to be a ledger step or a stutter.

The second half of the module is about what the service leaves in the live daemon. Its
conditions are about the constants: `CompleteListings` (`truncated` does not
happen), `CleanFailures` (`timeout` does not) and `OneMode` (`DryModes` has one
element: `BGP_DRY_RUN` keeps its value over restarts). They are hypotheses of the
theorems, not assumptions of a module, and each is met by an instance that TLC
runs or by the default configuration.

- `DryRunStaysDry`: `DryRunNeverAnnounced`, with every failure and every mode.
- `WithdrawnRoutesAreGone`: `WithdrawnMeansGone`, under the first two.
- `RoutesAreRecorded`: `RouteHasRecord`, under `OneMode` and `CompleteListings`.
- `RoutesAreKnown`: `NeverUnknownRoute`, under all three. With both modes the
  restore described above refutes it, so the condition is not one of the proof.

The inductive invariant `RouteInv` adds to `Inv` a part for each: `MarkInv` (an
entry carries the dry-run mark of a row it owns, and a Block past its insert the
mark of its row, which no entry owns yet), which makes every announce one of a
row without the mark; `OneModeInv`; `RecordInv` (a route has a row outside the
ones that the persist of its withdrawn entry closes, which is why closing them
loses no record); `LiveRoutes` (once loaded a route belongs to a live entry or to
the Block that publishes it; before that to an active row, from which restore
makes the entry). `RouteSteps` sorts the actions by what they do to rows, entries
and routes (`Quiet`, `Inserts`, `AnnouncesBlock`, `AnnouncesEntry`, `Withdraws`,
and five that stand alone), and one lemma treats each kind.

Only model-checked: the liveness properties (fairness and ENABLED are beyond the
prover), and the violations.

## The alert engine

### The model

A key is a (rule, target) pair of an auto_block rule; `HostKeys` are those whose
target is one host. An insert into `alerts` is visible at once. Every update is
an `ALTER TABLE ... UPDATE` that the code does not wait for: it joins `queue`, is
applied in order, at most `MaxLag` later, and its WHERE sees the table of that
moment (`Apply`). `recent` is `Engine.recent`, `written` the heartbeat book
`hbWritten`, `op` the place in evaluateOnce: `AutoResolveProbe`,
`AutoResolveMutate`, then for each violation `Violation` (the fast path on
`recent`), `Lookup` (LatestAlert and the decision), and `Touch`, `Reopen` or
`Insert`. `Verdict` is an operator's acknowledge or resolve, `CleanupCooldown`
the goroutine that prunes `recent`, `Crash` a restart of the collector, after
which `Run` waits for `Wait` (30 s) before its first cycle; the restart itself takes
at most `MaxDown`. `FaultKinds` are the failures of an instance: a read or a write
refused, a write done although reported as failed (`late`, of a re-open
`lateReopen`), a restart.

Abstractions: which keys violate is free in every cycle, an error of the rule
queries being a cycle without violations; a cycle begins at most `MaxGap` after
the one before, and the calls for one violation take no time in the unit of the
clock; the book of heartbeats may or may not exist at a
re-open; webhooks and the enrichment of an alert are left out; `asked` records
the request to the API, whose outcome is the service's. An instance that has used
its identifiers stores no further alert. `seenAt`, and the field `fresh` of a
mutation, are history: they record what the engine knew, for the properties.

### Runs

The thresholds keep the order of the defaults (5 min stale, a third of it between
heartbeats, 1 h re-arm, two intervals of trust): `Stale = 3`, `Window = 1`,
`Trust = 2`, `Rearm` 5 or 8 with time for three more units after it. The first
wait of a process is half of `Trust` in the code and equal to it here; what matters
is that both are above the lag. Two alerts are one and its duplicate; values 1 and 2
make an escalation.

- `alert_dedup`: `OneAlertPerIncident`, `NewAlertsAreNewIncidents` and
  `ReopensTheResolved`, with one operator's decision (an acknowledgement or a
  resolution) and one failure (a read, a write or a restart), at any moment, and
  a lag below `Trust` and `Wait`. The instance is smaller than the condition of
  the proofs asks for (`Rearm` above 9): the condition is sufficient, and the run
  shows the properties with a shorter window.
- `alert_live`: late mutations, a failing or late write, a failing read, a restart,
  a verdict. An alert that is still firing is never auto-resolved
  (`FiringStaysOpen`); one that went stale is resolved or seen again
  (`StaleAlertsResolve`), under weak fairness of the cycle (the timer of `Run`,
  calls with timeouts), of ClickHouse and of the clock.
- `v_subnet_block` (violation): a re-opened alert of a subnet rule asks for a
  block of the network address, which a new alert of the rule does not.

What the two duplicate properties do not say is what the user documentation says of
acknowledged alerts: "An acknowledged alert that is still firing is kept up to date
instead of being duplicated" (`src/README.md:485`). `handleViolation` does so whenever
LatestAlert shows the alert within the re-arm window, but not in one corner: an alert
silent for almost the whole window is seen again, its heartbeat is still queued when the
next violation reads the table, which shows it older than the window, and a new active
alert is stored. An
alert that was not acknowledged does not get there: the auto-resolve resolved it long
before, so it is re-opened, and a re-open is remembered in `recent`. An acknowledged one
is passed by the auto-resolve and its heartbeat is not remembered; it is then brought up
to date beside the new alert. `OneAlertPerIncident` therefore counts active alerts, and
`NewAlertsAreNewIncidents` names the case: the previous alert is not active and was
recorded no longer than `MaxLag` ago.

### Proofs

For every value of the constants that satisfies `EngineAssumption` (thresholds are
positive, the bounds natural), with every failure, restart and verdict:

- `EngineTypes`: `Spec => []TypeOK`. The rows of the table keep their type only
  because no mutation is about an alert that was never stored.
- `FiringAlertsStayOpen`: `Spec => FiringStaysOpen`. No order between the
  threshold, the lag and the interval is assumed.

The inductive invariant `EngineInv` says how the engine's memory, the queue and
the table agree on when an alert was last seen. `SeenBy(id, t, n)`: once the first
n mutations of the queue are applied, the alert was seen at t or later.
`Reaches`: what the heartbeat book says of an alert is so at the end of the queue,
and what the engine recorded is, up to the throttle; `ReachesFirst`: for a
mutation that looks for stale alerts, the alerts that were firing are seen late
enough by the mutations ahead of it. `InOrder` (heartbeats are queued in the order
of their times, and the table is behind all of them) is what keeps both when a
mutation is applied, `NowIsNow` and the `OfStored` parts what keeps them when one
is issued: a throttled heartbeat relies on the one in the book, a failed one is
forgotten (`forgetHeartbeat`), a restart forgets all. `Kinds` sorts the steps by
what they do to table and queue.

Three theorems hold under conditions on the environment and on the thresholds.
Acknowledgements, resolutions, restarts, refused reads and refused writes are all
allowed, in any number and at any moment; what is excluded is listed here, and is in
the statement of each theorem.

`MemoryCoversTheLag`: the lag is below `Trust` and below `Wait`, `Trust` is at most
`RecentMaxAge`, and no re-open is done that was reported as refused (`lateReopen`).
The lag of ClickHouse is not something a configuration decides: with the defaults
(`recentTrust` of one minute or two intervals, a first wait of 30 s, `RecentMaxAge` of
an hour) it has to stay below 30 s. Each part is needed: a longer lag outlives the trust
in the memory, or the wait of a new process whose memory is empty, and a re-open that was
done but reported as refused is not remembered.

- `ReopensComeOnce`: `MemoryCoversTheLag /\ Spec => []ReopensTheResolved`. The invariant
  `ReopenInv`: the queue is ordered by the times its mutations are due, none of which has
  passed (`DuesFit`); an alert that waits to be re-opened is not active, waits once, and is
  covered for as long as it waits (`ReopensFit`), by the memory or, in a new process, by
  the wait before its first cycle (`Covering`); so a violation that the memory does
  not cover finds no re-open of its key on its way (`UntrustedIsSettled`), from `Lookup`
  to `Reopen` and `Insert` (`PlaceFits`).

`RearmCoversTheRest` adds that no write reported as failed was done (`late`), that the
lag is at most `Stale`, and that the re-arm window is longer than the trust and the lag,
and than a stale alert may live: the threshold, the gap between two cycles, twice the
lag, and an outage (`Outage`: a gap, the first wait and the restart itself) for each of
the `MaxFaults` failures and restarts. With the defaults (in seconds `Stale` 300, `Trust`
60, `Wait` 30, `Rearm` 3600), a lag of 20, cycles at most 60 apart and restarts of at most
60, an outage is 150, and the condition holds for up to 21 of them. The bound adds up all
failures of a behaviour, since they may all come while one alert is stale; it is
sufficient, not necessary.

- `OneAlertAtATime`: `RearmCoversTheRest /\ Spec => []OneAlertPerIncident`.
- `NewAlertsComeWithCause`: `RearmCoversTheRest /\ Spec => NewAlertsAreNewIncidents`.

Neither is inductive by itself, because both speak of the table once the queue is
applied (`Settled`) and because what makes a second alert impossible happened earlier.
`ChaseInv` is about time: an active alert was seen since the last cycle began, but for the
threshold and the failures, or a mutation on its way resolves it (`StaleArePursued`), so
that what is not resolved was seen well within the re-arm window (`ActiveIsRecent`).
`IncidentInv` is about the alerts of one key: they were triggered one after the other and
the one of now is remembered (`TriggersFit`); what is remembered, heartbeated or re-opened
is the newest (`MemoryFits`, `IncidentFits`), seen within the window even while its
heartbeat waits (`Held`); all the others are finished, either resolved with no re-open on
its way or stale with no heartbeat on its way (`OlderAreFinished`; the first is what an
acknowledged alert satisfies, whatever heartbeats are on their way); and a lookup that ends
in an insert has left the newest one in such a state (`MakesRoom`). That a finished alert
is not active in the settled table is `SettledRow`: an induction over the queue, done with
finite sets (`LastExists`, `AllReached`), since the recursive function of `Settled` has to
be shown to exist first (`SettlesExists`). The invariants were checked by TLC on an
instance that meets the condition (that of `alert_dedup` with `Rearm = 10`, one value, and
an acknowledgement, a restart or a refused write) besides being proved.

Only model-checked: `StaleAlertsResolve` (liveness).

## The collector

The modules of this section share no state in the model: the pipeline treats a
flow as a token, and the decoders and the enricher say what such a flow is.
`MCCollector` therefore extends all four, and a behaviour runs one of them
(`part`); the others rest in their first state. `TDFairness` and the fairness of
the pipeline are then satisfied by the parts that rest, because none of their
fair actions is enabled there.

### `CollectorPipeline`

| model | code |
| --- | --- |
| `reader`, `packets`, `closed` | the read loop of a listener, its channel of packets, its socket |
| `decoder`, `ended` | the flows a decoder has decoded and not yet sent; the decoders that returned |
| `flows`, `enriched` | the channels of `Collector.Run` |
| `enricher`, `buf`, `writer`, `inserting` | the flow in hand; the batch being filled; the loop of `BatchWriter.Run`; the batch the inserter was handed |
| `outcome`, `sent` | the counters of `Metrics`, as the flows they count; how often a flow was in an INSERT |
| `stage` | of `Run` and `shutdown` |
| `pendingRead` | the loads of `Metrics.Pending` |

A step is one channel operation, one INSERT or one stage of the shutdown:
`ReadPacket`, `QueuePacket`, `ReaderEnds`; `Decode`, `SendFlow`, `DecoderEnds`;
`Enrich`, `SendEnriched`, `EnricherEnds`; `Receive`, `FlushTick`, `HandOff`,
`InputClosed`, `WriterEnds`, `Write`; `Stop`, `CloseSocket`, `CloseFlows`,
`PipelineDrained`, `DeadlinePasses`, and the reading of the counters when the
deadline passes (`LoadFirst`, `GiveUp`).

`FlowFate` is what it promises: a flow goes from unseen to decoded to written or
dropped, and is lost only when the process gives up; a flow in two INSERTs has no
fate it allows. `EveryFlowHasItsFate` is the refinement (`INSTANCE FlowFate WITH
fate <- FateOf`, computed from where the flow is). `NoSendOnClosed`,
`PendingNeverUnderflows` and `ShutdownEnds` are the other properties. Channels of
one element and batches of two with three flows and two packets fill every
channel and leave a partial batch at the end; both listeners feed the one channel
of flows; INSERTs fail and the deadline may or may not pass. Fairness: every
goroutine that can go on does, an INSERT ends by its timeout, the flush ticker
keeps ticking. Neither a stop nor the deadline has to come.

### `TemplateDecoding`

`templates` and `rates` are `TemplateCache` and `samplingTable`, with their keys
by age for the eviction; `worker` is what a decoder goroutine has in hand (the
sets, templates and records left of its packet). The actions follow `DecodeV9`
and `DecodeIPFIX` set by set (`NextSet`, `NextItem`, `PacketCut`), the template
parsers (`CacheTemplate`, `BadTemplate`, `Withdrawal`), and `decodeRecords`
(`decodeDataSet`, `walkRecord`, `OptionsRecord`, `decodeTemplateRecord`,
`TruncatedRecord`, `SetEnds`). A decoder reads a template once per data set, and
the tables may change at each step of the other decoder. Bytes are lengths;
`rate`, `resolveSamplingRate`, `prefixString` and the wrap of a counter are
translated. `FlowsStayWithTheirExporter` compares each flow with the history of
what was announced; `EveryPacketIsFinished` is the progress of the loops. Two
exporters of one router, a cache of two templates and a table of one rate
overflow with three packets.

### `SampleDecoding` and `Enrichment`

`SampleDecoding` keeps the numbers of the code (header lengths, record lengths,
padding) and walks nested slices; the lengths of the configuration lie on both
sides of every guard, and the counts on both sides of `MaxSamples = 2`: a
datagram is walked over two samples and a sample over two records, so the offset
after an element and its padding is used, and the cap on counts bites. A sample
of sFlow names its interfaces in the compact or the expanded layout (`ifWords`:
two words, of which the first two bits are the format, or four), and its flows
carry what is read back (`ReadInterfaces`); the same for NetFlow v5. `IfsWritten`
has a plain interface, the largest one and one of another format, which is not an
interface of the exporter. `ReadsStayInside` is about every read, and about the
interfaces and the rate of the flow that was last emitted. `Enrichment` has the start of
`cmd/collector` (`FetchAtStart`, `LoadLinks`, `StartEngine`), the background
fetch that a held engine waits for, the reload of the links, and `Enriched`,
what `Enrich` does to a flow; `EngineIsScoped` and `CreditsTheExportingSide` are
its properties, the second over all flows of the instance in every state of the
tables.

### Proofs

`CollectorPipelineProofs`, for any number of listeners, decoders and flows and all
capacities and batch sizes:

- `NobodySendsOnClosed`: `NoSendOnClosed`.
- `PendingIsNatural`: `PendingNeverUnderflows`.
- `PipelineImplementsFate`: `Spec => EveryFlowHasItsFate`, the refinement of
  `FlowFate`.

The inductive invariant `PipelineInv`: each stage ends after the one before it and
with nothing in hand (`EndsInOrder`), a flow is in one place (`OnePlace`: the
decoders, the two channels, the enricher, the two batches, the outcomes are
disjoint), the flows seen are numbered without a gap (`NumberedInOrder`), and a
flow was in an INSERT once when it has an outcome and never before (`SentOnce`).
Every step then moves flows (no fate changes), decodes new ones, or settles one
batch (`PipelineStep`), and `FateStep` maps the three to the ledger of fates. For
`Pending`, `PendingInv` adds that the count loaded first stays below what the
writer has received.

`DecodingProofs`: `EngineAlwaysScoped` (`EngineIsScoped`), `ExportingSideCredited`
(`CreditsTheExportingSide`, for every table of links and every flow) and
`DecodersReadInside` (`ReadsStayInside`), the last for every length, count,
header and pair of interfaces: the invariant `Walking` says that the loops have
offsets and counts that are natural numbers, that no read so far left its slice
and that the sample under way carries the interfaces written for it and a rate
above zero (`Sound`); the lemmas on `FrameReads` show the guards of the header
parsers to be enough, `WordOfInterface` that a word of format and value is taken
apart as it was put together (by `Quotient`, division with remainder).

`FlowsKeepTheirExporter` (`FlowsStayWithTheirExporter`) is about the tables that the
decoders of `TemplateDecoding` share, for any number of workers, exporters,
templates and packets. The invariant `DecodersInv`: the keys of each table are
numbered by age without a repetition (`AgesKept`, what the eviction needs), every
layout and rate in a table was announced under its key (`TableAnnounced`), a
decoder that took a layout out of the table goes on with one its own exporter
announced, even after it was replaced or evicted (`Hands`), and so does the flow it
emits (`FlowHasItsSource`). It rests on `TemplateAssumption` (the two caps and the
largest rate are positive) and `PacketAssumption` (packets and template sets hold
something).

Only model-checked: `ShutdownEnds` and `EveryPacketIsFinished` (liveness).

## Operations and requests

Eight modules, again independent of each other, run by `MCOperations`.

- `MigrationRunner`: `lock`, `history` and `ran` are the lock table, the latest
  event of a version and how often each statement has run; `run` is where a
  runner stands. `Start` takes the lock, `WriteOwner` and `ReleaseLock` are the
  rest of its protocol; `ReadHistory`, `Adopt`, `Reload`, `MarkApplying`, `Exec`,
  `MarkApplied` and `MarkFailed` are `Run`. A call fails before or after its
  effect, a runner is cancelled or killed, and an operator drops the lock of one
  that is gone (only then: dropping the lock of a live runner defeats it, as the
  documentation warns). `OneRunner` and `AppliedMeansRan` are invariants;
  `ImplementsProgress` is the refinement of `SchemaProgress` (`level` is the
  `n` for which exactly the first `n` statements have run, each once, `FirstRan(n)`;
  `stuck` that a version is dirty and nobody works on it). Three versions of two
  statements, builds of two sizes and two texts, four runs, three failures.
  `Legacy = {0, 1}` keeps the adopted schemas to those with at most one version:
  with more, `v_partial_adoption` (violation) shows that an adoption that stops
  half way makes the next run replay statements (`NoStatementTwice`).
- `Retention`: `policies`, `ttl`, `partitions` and `storage` are the stored
  policies and the state of the tables; `seeding`, `cycle` and `request` the
  three jobs that work on them, one statement per step, each of which may fail.
  `OnlyExpiredIsDropped` is an action property; `RetentionConverges` says that a
  failure between a stored policy and the tables is made good. One table and a
  legacy table that follows it, five days, one edit, one failure or restart.
- `ReportSchedules`: the versions of one schedule, numbered in the order of their
  insertion and created once under an id of their own, the clock, the delivery under
  way, the mark in memory (`fired`) and in the table. `reported` are the occurrences
  that this process was told it sent, forgotten when the timing changes or the
  schedule is gone. `MarkReportRun` is one step here; in the code it is an `ALTER TABLE
  ... UPDATE` that is not waited for (`internal/store/reports.go:145`) and also sets
  `updated_at`, so an edit that lands between the statement and its mutation is not
  covered, and no property depends on it. The calendar is translated
  (`mostRecentOccurrence`, `isDue`) and compared with a definition by the
  calendar alone (`Occurs`). `NoSecondMail`, `LatestOccurrenceIsSent`. Days of
  two hours, weeks of two days, months of two and three days.
- `AlertRules`: the versions of the seeded rules, the start of the collector that
  seeds and upgrades, and an operator who edits a page loaded earlier.
  `UpgradesOnlyWhatWasSeeded` is stated for starts without a request between the
  listing and the writes: with one, the upgrade's later stamp wins.
- `RateLimiter`: buckets, idle cleanup, the overflow bucket, and the address a
  request is counted for. `AdmissionIsBounded` compares the admissions of the
  real sender, which the model knows, over every interval.
- `ResponseCache`: map, list and byte count under slow handlers of one URI. The list
  is numbered from the back, so that a hit takes the next number and evictions take
  the lowest; what it should count is a set, of the pairs of an entry and a byte of
  it. `CacheCountsWhatItHolds`.
- `ApiGate`: a request through `AuthMiddleware`, `Authenticate`, CSRF, role and
  audit; creation and revocation of a token; the mutation queue of its row and a
  clock of ClickHouse ahead of or behind the API's. `RevokedIsDead`.
- `BlockRequests`: `ParseSettings`, the three handlers and the collector's client
  up to the call of the service, `Policy.Check`, and the form in which a block is
  stored and read back. Addresses of 3 and 7 bits, with a mapped block, keep all
  the boundaries of the prefix arithmetic; durations wrap at 6 bits.
  `BlocksKeepWithinThePolicy` speaks of sets of addresses, not of prefixes. The powers
  of two are a function of the module, `Pow2`, so that the proofs can unfold them.

Fairness: the reconciler and the scheduler, because tickers start them again and
again and their calls have timeouts; a request that was read is served. Nothing
is assumed of clients, of the clock, or of failures, which are counted.
`CHECK_DEADLOCK FALSE`: all clocks and requests are bounded, and a collector that
was stopped stays so.

### Proofs

`MigrationRunnerProofs`, for any number of runners, versions, statements, builds,
legacy schemas and failures: `OneRunnerAtATime` (`OneRunner`) and
`AppliedVersionsRan` (`AppliedMeansRan`). The invariant `MigrationInv`: whoever runs
created the lock table that is there (`RunnerHoldsLock`), and has behind it what it
is about to record (`BehindIt`: the versions an adoption lists have run, the
statements before the current one have run, a version is marked applied after its
last one). As in the model, an operator drops only the lock of a runner that is
gone.

`MigrationsImplementProgress` is the refinement of `SchemaProgress`
(`Spec => ImplementsProgress`) and `NoStatementRunsTwice` the promise of the
documentation, `Spec => []NoStatementTwice`. Both have the hypothesis
`Legacy \subseteq {0, 1}`, at most the first migration is in a schema older than the
history table; without it both are false, and `v_partial_adoption` is the
counterexample. The invariant `LevelInv` adds to `MigrationInv` that the statements
which have run are the first `n` and ran once (`ran = FirstRan(n)`), that the history
is applied up to the version of that statement and has at most one open version
after it (`HistoryAt`), and that a runner at work is at the statement that comes next
(`RunnerFits`), so `Exec` takes `FirstRan(n)` to `FirstRan(n + 1)` and every other step
leaves the level alone. A version is stuck when it is open and nobody works on it;
that nobody comes back to it is the second half of the refinement.

`ReportSchedulesProofs`: `NoMailIsSentTwice` (`NoSecondMail`), for every calendar that
satisfies `CalendarAssumption` (days and weeks have a length, a month is as long as
the largest day of the month allowed, and the clock starts in the second month or
later), for any timings, requests, failed marks, restarts, deletions, purges and
merges. Half of it is the calendar: an occurrence is never in the future and, as time
passes, stays or is the hour that has just come (`OccurrencesComeInTime`), which takes
the arithmetic of days, weeks and months (`Periods`). The other half is the table:
rows are stored in order of their stamps, so what `FINAL` keeps is what was inserted
last (`InOrder`, `FinalIsLast`), before and after a merge (`KeptInOrder`). The invariant
`ScheduleInv`: the last occurrence of the schedule, if it was reported, is the one
marked in memory (`ReportedFits`), and a mail on its way is of one that was not
(`MailFits`). The mark in the table is not needed: a process that was told of its
success has the one in memory, and a restart forgets both.

`BlockRequestsProofs`: `BlocksFollowThePolicy` (`BlocksKeepWithinThePolicy`), for every
width of the addresses (32 and 128 among them), every configuration and every target.
The assumptions say what can be written: an address fits its family, an entry of a
list has a length within the width (`netip` parses no other), a target may have any;
the floors are at least 1 and at most the width. The invariant `RequestInv` is small:
every block was read from what was asked, passed `Check` under the configuration and
has a duration between the limits (`Justified`); nothing in the handlers changes the
configuration. The work is in `PolicyHolds`, which turns prefixes into the sets of
addresses they stand for: a prefix within another covers no more (`WithinCovers`), two
that do not overlap have no address in common (`ApartIsDisjoint`), the unmapped form of
a mapped prefix stands for the same IPv4 addresses (`UnmappedMembers`), so an entry of a
list and a target mean what was written (`EntryMeans`, `TargetMeans`), a canonical
prefix has at most two to the power of its host bits (`HowManyMembers`), and a block is
the same after its row and its listing (`StoredForm`). Under it is the arithmetic of
powers of two. `Pow2` is defined by recursion, so its values exist only by an
induction: it is carried out over a *set* of naturals (`NaturalsByInduction`, from the
minimum that `WFMin` gives), which needs no operator as a parameter; `DoublingExists`
and `DoublingUnique` build the function, `Powers` is its recurrence, and `PowersAdd`,
`Coarser` and `LowBits` are what the prefixes use.

`OperationsProofs` has five results, each from an inductive invariant of its own:

- `RevokedTokensStayDead` (`RevokedIsDead`), for any number of requests, any
  lifetime and any skew of the clocks. `GateInv`: a token is created before anybody
  can revoke it, so that its creation undoes no revocation (`CreatedFirst`), and a
  handler that waits for its mutation finds it in the queue or applied
  (`WaitsForItsMutation`).
- `OnlyExpiredPartitionsGo` (`OnlyExpiredIsDropped`), for any tables, legacy tables,
  policies, edits and failures. `RetentionInv`: a cycle visits only tables whose
  policy, as it read it, is enabled (`VisitsEnabled`), and what it is about to drop
  was expired under that policy when it was listed; the policies it read change in
  no step of the cycle and time only passes, so it still is (`DropsExpired`).
  `RetentionAssumption`: a legacy table follows a table that has a policy.
- `OnlySeededRulesAreUpgraded` (`UpgradesOnlyWhatWasSeeded`), for any rules, any
  edits and any number of starts. `RulesInv`: no version is stamped later than the
  second after now (`StampedBefore`), so the stamp of `ReconcileSeededRules` sorts
  last; one version counts for every rule that has any (`SomeVersionCounts`); and
  until somebody edits, a rule is upgraded or as it was listed
  (`AsListedOrUpgraded`). It rests on what `FINAL` returns: exactly one version wins
  (`OneWinner`), an appended one when none is later (`AppendedLast`), and a merge
  does not change it (`MergeKeepsLatest`).
- `AdmissionsAreBounded` (`AdmissionIsBounded`), for any rate, burst and number of
  buckets. `LimiterInv`: since any of its admissions a sender has used, with what its
  bucket holds now, at most a burst and what was added since (`WithinBudget`).
  `LimiterAssumption` has `Burst <= Rate * IdleLimit`, a bucket that is forgotten would
  have been full: the code's burst is ten seconds of its rate and it forgets after
  180. `ProxyAssumption` says what a trusted proxy adds to a request.
- `CacheKeepsCount` (`CacheCountsWhatItHolds`), for any URIs, requests, sizes and caps.
  `CacheInv`: the list has one element per key and the map leads to exactly those
  (`StoryFits`), the number and the bytes are within the caps whenever the lock is
  free (`WithinCaps`), and the last response served has not expired. The lemmas are
  about the list: what goes takes its bytes with it (`RemovedFits`, from
  `BytesSplit`), what comes adds them (`PushedFits`), a hit changes nothing but the
  order (`MovedFits`), and the evictions leave a list within both caps
  (`EvictedFits`).

## What is only model-checked

Every invariant and every action property of the runs is stated by a theorem, some
under hypotheses that the sections above give. What no theorem states:

- The liveness properties: `EveryBlockExpires`, `LiveBlocksReachTheDaemon`,
  `SessionRecoveryReannounces`, `StaleAlertsResolve`, `ShutdownEnds`,
  `EveryPacketIsFinished`, `RetentionConverges`, `LatestOccurrenceIsSent`.
  The provers here have no rule for fairness and ENABLED.

## Plan

1. *Done*: the service, its ledger and routes; the alert engine; the collector;
   operations and requests; the proofs described above.
2. `AutoBlocking`: the alert engine, `BlockRequests` and the service composed,
   with delayed and repeated requests.

## Not modelled

- The SQL queries and the analytics computed from them (`store/reader.go`,
  `threats.go`, `anomaly.go`, `capacity.go`, `changes.go`, `alert_queries.go`):
  ClickHouse evaluates them, they keep no state, and a model would restate them.
- The OIDC login and the session cookies: the protocol is the library's; a request
  of `ApiGate` has the session of an admin, of a viewer, or none.
- Webhooks (one request, never retried), the baseline gate (a filter on violations
  that `AlertEngine` leaves free), the content of reports and mails, metrics and
  logs, the parsing of environment variables other than those of `BlockRequests`,
  and the web interface.
- What ClickHouse does on its own with a TTL. The purge of a tombstone before its
  parts are merged, which can bring an older version of a row back, is modelled
  for report schedules only; the other configuration tables are purged alike.

`PROJECT.json` has the reason part by part.
