# StateRail in TLA+

StateRail is event-sourced execution infrastructure for exchange workflows:
every lifecycle step, message, decision, order and error is a record in one
hash-chained JSONL ledger, and everything a process knows it has replayed from
that ledger. This directory models the parts on which the safety of real orders
depends, checks them with TLC on small instances, and proves with TLAPS, for
any number of processes, records, orders and faults, the safety of ledger,
audit core, action gateway, reconciliation, order managers, quoting, feeds, live
gate and anchors.

Paths below are relative to the repository. `PROJECT.json` maps every
definition to the lines it models and lists runs, mutants, findings, hazards
and theorems.

## 1. The system

### Components, their state and their operations

**Audit ledger** (`audit/ledger.py`). State: the file, the lock file next to it,
and per instance a cached `LedgerState` (next sequence, last hash). Operations:
construct and verify, `append` (verify the whole file, write one line, fsync,
move the state on), `snapshot`/`iter_records`/`verify`. Hard: several processes
share the file; the O_EXCL lock is neither waited for nor broken; a process can
die, or a write fail, in the middle of a line. Correct when the chain always
verifies, a returned append stays where it was put, and a torn line stops all
later appends.

**Audit core, triggers and hooks** (`core/engine.py`, `triggers/rules.py`,
`hooks/registry.py`). State: the keys of the rules that have fired. Operation:
`emit`, which runs hooks and evaluates rules around the append of one event, up
to six records or more; `emit_due_time_triggers`. Hard: each record is an append
of its own, so other processes get in between, any of them can raise, and fired
keys live in memory only. Correct when a one-shot rule fires once in the life
of a ledger, a trigger record names the record that fired it, and nothing that
fired or failed stays silent.

**Action gateway** (`actions/gateway.py`, `actions/execution.py`) with **order
lineage** (`orders/lineage.py`) and **risk gate** (`risk/gate.py`). State: none
of its own. Operations: `submit` (replay, record the request, validate on the
replay taken *before* the request, accept or reject, record logical order or
staged placement) and `submit_and_execute` (record the start, call the
executor, replay again, check the result, record it). Hard: up to seven records
and one call to the venue without any lock around them; the venue may act and
not answer; a retry must not send an order twice. Correct when no action is
sent twice, no open order is forgotten and the limits hold at the venue.

**Order projection** (`projections/state.py`). The left fold over the ledger:
actions, orders with their indices, logical orders, placements, mismatches,
recoveries (and market data, fills, positions, feeds, tasks). Hard: records of
the gateway, the user feed and recovery about one order arrive in any order.

**Reconciliation** (`reconciliation/watchdog.py`, `recovery.py`). Two periodic
tasks: flag orders whose result or confirmation has been missing too long;
look flagged orders up at the venue and record the answer. Correct when
everything unanswered is flagged once and looked up once, in the end, and the
answer does not put a closed order back. (`fills.py`, `positions.py` do the same
for fills, positions and exchange state.)

**Feeds** (`feeds/router.py`, `feeds/supervisor.py`,
`exchanges/coinbase/advanced_trade_ws.py`). State: the status and age of every
source, an LRU set of message keys, the last sequence number of a connection.
Operations: one coroutine per source that connects, ingests, reconnects; a
health audit. Hard: redundant sources interleave, appends raise at any record,
the process restarts with only the ledger. Correct when a message is accepted
once, none is dismissed without cause, outages are on record and sources come
back.

**Runtime orchestrator** (`runtime/orchestrator.py`, `app/bootstrap.py`). Runs
due tasks one at a time on the event loop that also carries the feeds, and
records each start, success and failure. Hard: a task fails, an append raises
outside the `try` block, a stop arrives in the middle, the process dies. Correct
when what is open on the ledger is exactly what was cut short, and a stop ends
the run.

**Live gate and operator commands** (`app/live_runtime_gate.py`,
`live_preflight_gate.py`, `live_no_order_preflight.py`,
`strategy_simulation_gate.py`, `ledger_health_acknowledgement.py`, the smokes).
Evidence for a live start is gathered by commands that append their results;
the gate replays them. Hard: the commands, several configurations and a running
runtime interleave on one ledger, also between the four reads of the gate.
Correct when a live run begins only on evidence for its own configuration and on
a review of everything that was on record when its health was read.

**Strategy harness and order managers** (`strategies/harness.py`,
`*_manager.py`). Turn strategy intents into ordered, fail-closed lists of
gateway submissions: follow-ups after fills, staged releases, splits,
consolidation, cancel-replace repricing. Hard: decisions are taken on a snapshot
while the venue goes on trading; lists break off in the middle; the next cycle
decides again. Correct when nothing is replaced while it is still open, one
placement of a logical order is live, exposure never exceeds what the operator
and the fills call for, and no staged placement is starved.

**Market data and quoting** (`projections/state.py`, `strategies/market_data.py`,
`passive_market_making.py`, quote pairs and slices of `harness.py`,
`orders/sizing.py`, `products/catalog.py`). State: order book, samples and trades
built from messages of redundant connections. Hard: connections interleave and
lose messages, the router dismisses the copy of what another brought, and nothing
orders what they bring against each other; chunks, prices and limits are rounded and merged. Correct when
the projected book is the venue's, the views of one tape agree, and an order is
what was planned and what both sources of limits allow.

**Fill and exchange-state reconciliation** (`reconciliation/fills.py`,
`positions.py`). Two tasks of the runtime that page through the venue's fills and
compare positions, asked for at one venue after the other; the
`exchange-state-smoke` command makes the same comparison from a process of its
own, on the same ledger. Hard: trades shift pages, passes overlap, requests fail,
and a drift is checked for and then recorded, with another process in between.
Correct when each fill is on record once and a drift is told truly and
completely, and again only by a process that could not know of it.

**Checkpoints, anchors, archives** (`audit/checkpoints.py`, `anchors.py`,
`archives.py`, `s3_object_lock.py`). Commit to the ledger's head outside the
ledger, so that tampering with it is detected. Hard: reading the ledger, writing
to the store and appending the receipt are separate steps of several processes.

**Ledger health** (`app/ledger_health.py`). A report over a replay. Its
*contracts* are read here as statements of what a ledger must look like: they
are operators of the modules whose records they judge.

**Configuration, CLI, exports, scenarios** are wiring, one-shot I/O or developer
tools.

### How they interact

Everything meets in the ledger. The runtime process has one event loop: a task,
a submission and the ingestion of a message never overlap except at an `await`,
and neither the gateway nor the router awaits between its records. Operator
commands are *other processes* on the same ledger file, kept apart per append
and not per operation. The venue is reached by REST from the gateway and from
recovery, and reports on the user-order feed.

```
 sources -> supervisor -> router --+                 +--> trigger rules, hooks
 orchestrator -> tasks ------------+-> core.emit ----+
 harness, operator -> gateway -----+                 +--> ledger file + lock
                 |                                          |
                 +--> executor --> venue --> user feed      +--> projection (replay)
```

## 2. Modules

| Module | Models | Extends / instantiates |
|---|---|---|
| `AppendOnlyLog` | what the ledger promises: a log that only grows, readers that see prefixes | |
| `Ledger` | `audit/ledger.py` with lock file, torn lines, kills | instance of `AppendOnlyLog` (refinement) |
| `LedgerProofs` | theorems about `Ledger` | `Ledger` |
| `AuditCore` | `core/engine.py`, `triggers/rules.py`, `hooks/registry.py` | the log as a sequence of appends |
| `AuditCoreProofs` | theorems about `AuditCore` | `AuditCore` |
| `OrderLineage` | `orders/lineage.py`, the gateway's lineage validation | |
| `OrderProjection` | the order part of `projections/state.py`, one operator per record type; live orders and daily notional of `risk/gate.py` | `OrderLineage` |
| `ActionGateway` | `actions/gateway.py`, the executor's results, the venue, the user feed | `OrderProjection` |
| `Reconciliation` | `reconciliation/watchdog.py`, `recovery.py` | `ActionGateway` (composition) |
| `GatewayProofs` | what each record does to the projection; theorems about `ActionGateway` and `Reconciliation` | `Reconciliation` |
| `OrderManagers` | the harness's cycle and submissions, four managers, splits; lineage, placement and release contracts of ledger health | `OrderLineage`, the gateway as one step |
| `OrderManagersProofs` | theorems about `OrderManagers` | `OrderManagers` |
| `OrderRules` | product rules, rounding, chunk and slice sizes, the merge of limits, every risk check on an order | |
| `MarketData` | order book, samples and trades of the projection; windows, statistics, candles | |
| `Quoting` | passive market making, releases, pairs, slices over two connections and a venue | `MarketData`, `OrderRules` (composition) |
| `QuotingProofs` | theorems about `Quoting` | `Quoting` |
| `Fills` | `reconciliation/fills.py`, `positions.py`, retried lookups, fills and positions of the projection | |
| `LedgerHealth` | contracts on system, task, strategy and operator records; the report's status and digest | |
| `LiveOperation` | live gate, smokes, preflight, simulation, acknowledgement; orchestrator, application and command | `LedgerHealth` (composition) |
| `LiveOperationProofs` | theorems about `LiveOperation` | `LiveOperation` |
| `Anchoring` | checkpoints, anchors, archives, local and S3 stores | |
| `AnchoringProofs` | theorems about `Anchoring` | `Anchoring` |
| `Feeds` | `feeds/router.py`, `feeds/supervisor.py`, sequence tracking of the websocket source | |
| `FeedsProofs` | theorems about `Feeds` and about `Fills` | `Feeds`, `Fills` |
| `MC...` | constants of the small instances | |

Operators that stand directly before a definition and are not used anywhere are
*mutants* of it: a plausible bug in the code it models. `PROJECT.json` pairs
every property of a passing run with a mutant that breaks it.

### Ledger

State: `records` (complete lines), `torn` (bytes after the last newline),
`lockFile` (the pid in it), and for each process `pc`, the cached `state`, the
`pending` payload and the `view` of its last snapshot. A step is what happens
between two points where another process or a kill can be noticed: taking the
lock, verifying, the first byte of a line, its newline, the return. SHA-256 is
taken as injective: a hash *is* the history it commits to. `WriteFails` raises
at any point of a write and runs the `finally` clause; `Crash` does not.
`ClearStaleLock` is an operator deleting the lock of a dead process; nothing in
the code does.

`AppendOnlyLog` is what the other modules assume of the ledger: a record is
committed in one step, after which the caller may or may not hear of it.
`Ledger` is shown to implement it. Hence in all other modules an append either
returns, or raises with the record durable, or raises with it not durable.

### AuditCore

`job` is the emission (or trigger poll) in progress with the trigger records it
still has to write; `fired` is `TriggerEngine._fired_keys`. `Emit` is
everything up to the first append (before-hooks, evaluation, predicted
sequence), `AppendDecision`, `AppendEvent`, `AppendHookFailure` are one append
each, `AppendRaises` is the exception that leaves `_emit`, `Kill` and `Restart`
lose and re-seed the fired keys, `OtherAppend` is another process. Which hooks
fail is a free choice.

### OrderLineage, OrderProjection, ActionGateway

`OrderProjection` has one `Apply...` operator per record type that changes
orders; the projection is a value (`truth`), so a replay is the value at that
moment (`proc[p].view`). A record field that the code uses only as "has been
seen" (`executed_sequence` and the like) is a Boolean. The venue's id of an
order is named by its client order id.

`ActionGateway` has one action per record of a submission plus the replays and
the venue call in between: `Begin`, `Request`, `Reject`/`Accept`,
`RecordLogical`, `RecordStaged`, `Start`, `Execute`, `Settle`, `Record`, and for
the `except` clause `RecordRaises`, `RecordError`, `Fail`. `Abandon` is both a
kill and an exception that reaches the caller: the gateway keeps nothing in
memory, so they look alike. `Execute` has all outcomes of the REST executor: an
answer, a refusal, an HTTP error (that may hide an effect when
`AmbiguousFailures`), a transport exception before or after the effect. The
feed is a queue to the runtime; `Reconciliation` lets it lose updates.

The lineage validation (`LineageOk`) is complete for all relations and kinds of
placement. Of the risk checks those that depend on replayed state over several
submissions are here (open orders, daily notional); all checks on a placed order
are in `OrderRules`.

### Reconciliation

Adds to the gateway's state the task in progress, the issues whose timeout has
elapsed, and histories. `BeginAudit` and `BeginRecover` are the replays,
`EmitMismatch`, `Lookup`, `EmitRecovery` the steps, `TaskFails` an append that
raises (or a kill) with its record durable or not. What a task has yet to do is
a set: of findings, recorded in any order, or of places among the mismatches on
record, gone through from the foremost one. While a task runs the runtime
neither submits nor ingests; the venue goes on filling orders.

### Feeds

`w` holds router and ledger facts; an append anywhere in a step may raise, so a
step between two awaits is a set of *outcomes* `[w, raised]` that `Then`
threads through the records in the order of the code. `sup[s]` is where the
coroutine of a source is: before its connection, in the stream, in the backoff
sleep, or ended. `Cancel` covers the end of the gather (one coroutine failed)
and the end of the application. The ledger fields are the facts that
`from_ledger` and the data-flow and feed-lifecycle contracts of ledger health
derive from the records. The deduplicator is a sequence of keys, least recently
used first: `MoveToEnd` and `Remember` are what a hit and a miss do to it, and
`SeedSeen` rebuilds it at a restart from the latest keys on the ledger.

### OrderManagers

`truth` is the projection (actions, orders, logical orders, placements, fills in
the order of their records), `job` the cycle: the strategy whose turn it is, the
commands it still has to submit. `Evaluate` takes the snapshot and the decision
of the strategy whose turn it is, one disjunct per strategy; `Reject`, `Execute`,
`Fail` submit the next command with every outcome the gateway has, the lost
answer and the failed cancellation included; `Die` kills the process anywhere.
`Trade`, `Deliver`, `RecordFill`, `Tick` are the venue and what reaches the
projection between two cycles. An action id is the tuple of what the code digests, so the same decision
has the same id and a retry is refused as a duplicate. Time-based conditions of
the managers (cooldown, hourly limit, freshness) only skip candidates.

### MarketData, OrderRules, Quoting

`OrderRules` and `MarketData` are pure operators over integers; a quotient that
is still to be rounded is a pair. `Quoting` feeds them: `MoveBook` and
`TradeAtVenue` queue messages on every connection that is up, `Up` starts one
with a snapshot, `Down` and `Lose` drop messages. Every message has a number; the
router's key of it (`MessageKey`) names no connection, so the copies of a message
have one key when the connections number them alike, and otherwise each its own
(`sharing`, both are tried). `Accept` applies a message whose key is new to the
projection and remembers the key, `Dismiss` drops one whose key is known
(`feeds/router.py:204`). The set of keys has no limit here; Feeds has the
deduplicator with its limit. `StageQuotes`, `PlacePair`, `PlaceSlice`, `ReleaseStaged` are
evaluations of the four users of the market data, with the submissions they
lead to (`SubmitAll` stops at the first that is no success). `VenueOrders` and
`Deliver` move orders and report on them.

### Fills

`task` is the task that each process runs. The runtime's (`Runtime`) is, one at a
time as its loop awaits them, a pass over the fills with its order, its page, what
is left of the page and the ids it has seen, or a comparison of the exchange's
state; any other process runs `exchange-state-smoke`, which is the comparison
alone. A comparison reads the ledger first (`StartExchangeState`: replayed
positions, known drift keys), then looks up accounts and positions, at the CFM
and, with a perpetual portfolio, at INTX, a step each (`LookUpPositions`), and
records what differs by what it read at its start: the check and the append are
apart, and other processes' steps come between. Every lookup may fail and be
retried (`Retry`), every emission may raise with its record on the ledger or not
(`Fails`), a task may end anywhere (`TaskDies`). The venue trades at any point, so
pages shift under the pass and the two position lookups are of different moments;
a page is a set, as the order in which the venue lists it decides nothing;
`foreign` are positions of other origin. `ledger` keeps the fills and drifts;
snapshots, retries and errors are emitted too (`Recorded`) but nothing here reads
them. `caught` and `compared` are histories: what the last complete pass had
before it, and what stood when the last complete comparison was made. A drift
carries what the properties ask of it (`Annotated`), which the code does not
record. Every product is listed at one venue (`VenueOf`).

### LedgerHealth, LiveOperation

`log` is the ledger as abstract records. `rt` is the runtime: the gate's four
reads of the ledger (`RtGateHealth`, `RtGateReview`, `RtGatePreflight`,
`RtGateSimulation`: a step each, with `fit` for what they found so far), assembly,
loop, task, evaluation, end of the loop, final health check; `op` is the
operator's command in progress; each append is a step and may raise with its
record on the ledger or not. `Stop` sets the orchestrator's flag at any time.
`faults` counts by contract what a raise or a kill excuses.

### Anchoring

Reading the ledger (`TakeCheckpoint`, `TakeLatest`, `TakeArchive`), writing to
the store (`PublishLocal`, `PutObject`), reading back (`ReadBack`) and appending
(`RecordCheckpoint`, `RecordReceipt`) are steps of each process. `Rewrite`,
`PutBack`, `ChangeFile` and `ChangeObject` are damage behind the program's back.
A hash stands for the identities of the records up to it; a record is its
identity, its type and what it `says` (a checkpoint, or a receipt with the
artifact it is about).

## 3. Runs

| Run | Expect | Properties | What it shows |
|---|---|---|---|
| `ledger` | pass | `LockOwnership` `ChainIntact` `AckedDurable` `TornStopsAppends` `RefinesLog` `OperationsEnd` | two processes with failing writes and kills: mutual exclusion, an intact chain, durable acknowledged appends, fail-closed after a torn line, refinement of `AppendOnlyLog`, operations end |
| `core` | pass | `OneShotOnce` `ReturnComplete` `TriggerContract` `FiringAudited` | with another process, raising appends and kills: one-shot rules fire once per ledger, what `emit` owes is on record when it returns, the trigger contract holds but for what was shifted, and a firing is lost only when its append raised |
| `gateway` | pass | `SentAtMostOnce` `IdentityUnique` `OpenWithinLimit` `SettledTruth` | submissions, retries, staging, releases, cancellations, raising appends, kills, failed answers; once all is quiet the ledger and the venue have the same orders open, both ways |
| `managers` | pass | `NoDoubleExposure` `OneLivePlacement` `LineagePasses` `ExposureKept` `StagedReleased` | four setups of managers with trades, lagging records, failed and lost submissions, a crash |
| `followup_stuck` | violation | `FillsAnswered` | finding 1 |
| `live` | pass | `StartAdmitted` `HealthExplained` `StopHonoured` | operator commands and runtimes on one ledger with outages, raises, kills |
| `anchoring` | pass | `ReceiptsStand` `Attested` | two publishers, failing stores, torn artifacts, damage |
| `fills` | pass | `FillsExact` `DriftsTold` | the runtime's two reconciliation tasks and a second process's comparison, against a venue that trades: each fill once; a drift is true, complete, and on record twice only if two processes raced for it |
| `quoting` | pass | `BookTrue` `WindowsAgree` `PlansKept` `WithinBothPolicies` `OneQuotePerSide` | market data over two connections, and the orders made from it |
| `recon` | pass | `ReconciledOnce` `NoOpenOrderForgotten` `SettledUnlessLost` `MissingFlagged` `MismatchesRecovered` | what stays unanswered is flagged and looked up once, in the end; recovery neither hides an open order nor puts a closed one back |
| `recon_raises` | violation | `MismatchesRecovered` | finding 2 |
| `feeds` | pass | `AcceptedOnce` `FeedsAlternate` `DuplicatesExplained` `OutageNoticed` | redundant sources, skipped messages, dropped streams, raising appends, stops, kills |

The comment before each property says in words what it states, with its
exceptions. Exceptions are behaviours of the code that the models show; section
4 lists them.

### Bounds, and why they suffice

- `MCLedger`: two processes, two payloads, three records. Every conflict is
  between two processes; three records give a chain with a first, a middle and
  a last line. The proofs remove the bounds.
- `MCAuditCore`: nothing is begun beyond `MaxLog` records (an emission in
  progress is completed), so an emission with every kind of record occurs, is
  interleaved and repeated. One rule of each sort; rules do not influence each
  other except through the count that predicts a sequence.
- `MCGateway`: four submissions of five commands by one process: two orders with
  one idempotency key, a staged order, its release, a cancellation, and an order
  placed by hand, with `MaxOpenOrders` 1 and `MaxDaily` 3, so that limits bite
  and every command can be resubmitted. `MaxFeed` updates are on their way at
  most.
- `MCOrderManagers`: one setup per group of managers that touch the same
  orders: merge and split, release and reprice, follow-up and split, follow-up
  and reprice (where an order whose answer was lost is moved too). Two orders
  or chunks, up to two trades, one fault: a list that breaks off, a fill between
  decision and submission, and the next cycle all occur. The managers' limits
  per evaluation are 1, so that candidates compete.
- `MCLiveOperation`: each setup is a story of up to four commands, given once
  in any order: getting started, changing the configuration, runs with faults
  inside, runs without limit, a start beside a failing smoke and its review,
  smokes of two configurations, an unfit and a dry configuration.
- `MCAnchoring`: up to two jobs per process, one foreign record, one trouble,
  one change behind the back.
- `MCFills`: two orders of opposite sides, pages of one fill, two pages, three
  trades: a trade shifts a page, and one order has more fills than a pass reads.
  Both orders are of a perpetual, and a future's position changes that is not the
  bot's, so both lookups matter. Two processes and two passes: a pass and a
  comparison, two comparisons one after the other, or two that race.
- `MCQuoting`: each setup switches on what its question needs; two moves of a
  four-level book on two connections, one that ends, one lost message and copies
  with one key or with two (a dismissed copy that the book lacks needs one move and
  two connections); three trades over a window of two ticks, on two connections or
  on one that starts again; quotes of two and three chunks, three slices.
- `MCReconciliation`: an order and its cancellation, one fault, and HTTP errors
  that may hide an effect; the violation run has two orders, so that one can
  block the other.
- `MCFeeds`: one source whose connections bring three messages (one can be
  skipped: a gap) and one that repeats the first; a deduplicator of two entries,
  so that keys fall out; one fault and one stop or kill.

`CHECK_DEADLOCK FALSE` stands where the bounds let the system stop: everything
that was to be submitted, traded or published is done.

### Fairness

- `Ledger`, `AuditCore`: weak fairness of the steps of an operation in
  progress. A process runs on once it is inside a call; callers, failures,
  kills and operators promise nothing.
- `OrderManagers`: weak fairness of the cycle (the orchestrator runs the
  strategy task again at its interval, whatever became of it) and strong
  fairness of recording an update or a fill, which is possible only between two
  cycles: the event loop and the fill task get their turn there.
- `LiveOperation`: weak fairness of the runtime's own steps: the event loop goes
  on. Operators, outages, raises and kills promise nothing.
- `Reconciliation`: weak fairness of the clock (`TimesOut`), of the steps of a
  task and of a submission in progress; strong fairness of `BeginAudit` and
  `BeginRecover`, since they are enabled only while the loop is free and the
  orchestrator runs each due task again at its interval whatever became of the
  run before (`runtime/orchestrator.py`, `_run_task` records the failure and
  reschedules). Venue, feed and faults are not fair; faults are finite except
  in `recon_raises`, where the lookup may raise for ever (`Outage`).
- `Feeds`: weak fairness of connecting, receiving, waking, cancelling, the
  clock, the health task and the restart after an orderly stop. Faults and
  kills are not fair and finite.

## 4. Findings

1. `followup_stuck`: the update of a full fill replaces an order's size by what
   is left, 0 (`projections/state.py:2116`). The follow-up of that fill wants
   this size to be positive and raises `ValueError` (`strategies/harness.py:1984`),
   which the manager does not catch: the fill is never followed up, and the strategies
   behind the manager do not run any more, in any cycle.
2. `recon_raises`: when a lookup raises, the handler calls `_emit_recovery`
   without a required keyword (`reconciliation/recovery.py:95`); the task ends
   at the first such mismatch every time, and those behind it are never looked
   up while lookups of it raise.

Behaviours the models show that have no run of their own. A property names the
exception where it meets one.

*Core and ledger*

- The sequence in a BEFORE trigger's record is predicted from the number of
  matching rules, also those whose one-shot key has fired and which write no
  record (`triggers/rules.py:198`); the record then names a sequence its event
  does not get, against `tests/regression/test_triggers.py:168` and the trigger
  contract (`app/ledger_health.py:1106`). The rules of the run
  `core`, and the hypothesis of `ContractKept`, have repeatable BEFORE rules only.
- A key is marked as fired before its record is appended
  (`triggers/rules.py:184`); when the append raises, the firing is lost and a
  one-shot rule is suppressed until a restart (`FiringAudited`).

*Orders*

- A filled order has size 0 in the projection and adds nothing to the daily
  notional (`risk/gate.py:721`), although FILLED is among the statuses that
  count: every fill frees the cap.
- Two processes can both pass `max_open_orders`, and `ACTION_EXECUTED` of one
  can follow the fill the other accepted; `OpenWithinLimit` and `SettledTruth`
  are therefore checked for one process.
- An HTTP error that hides an effect is final for the projection until an update
  of the order arrives (`NoOpenOrderForgotten`); once all have arrived the two
  agree again (`SettledTruth`).
- An order whose process died before the execution was started keeps a slot of
  `max_open_orders` for ever.
- The follow-up of an order that is no root keeps the root of the chain; the
  gateway accepts it and ledger health reports it (`LineagePasses`).
- An order whose answer was lost has no placement on record. The repricing
  manager takes its candidates from the open orders
  (`strategies/anchor_repricing_manager.py`, `_candidate_sources`), so once an
  update calls it open it is moved; its replacement can then be the first
  placement of its logical order, with the kind `CANCEL_REPLACE`, which ledger
  health reports (`LineagePasses`).
- A release whose answer was lost has no placement on record and does not count
  as live for the release manager (`OneLivePlacement`); with
  `max_releases_per_evaluation` above 1 two chunks released in one evaluation are
  live together.
- A release that failed is decided again with the same id, is refused as a
  duplicate, and blocks the head of the queue; a failed slice blocks its
  schedule.
- Chunks of different sizes under one logical order are consolidated with the
  logical order's size.
- A fill nobody had recorded when its order was cancelled for a merge or a move
  comes on top of the replacement (`ExposureKept`).

*Quoting*

- Only an OPEN order counts as an active quote: one that is pending or queued for
  cancellation does not keep the next quote of its side back
  (`OneQuotePerSide`).
- `exchange_sequence` of the book is stored and never compared: a lost update
  stays wrong until a snapshot (`BookTrue`).
- Copies of a message are dismissed by key, and messages of different connections
  are applied in the order in which they arrive. When one connection brings its
  snapshot and an update, then another its snapshot from before that update, the
  book goes back to the older one; the second copy of the update, which would set
  it right, is a duplicate and is dismissed. The book stays stale, with nothing lost
  and nothing under way, until the next message that names those prices or a
  snapshot. `BookTrue` excepts exactly this: `history.lost` is set by a dismissal
  only after an older book message was accepted behind a newer one (`regressed`),
  and only when the copy would have changed the book. In any other case a dismissed
  copy tells the book nothing new.
- A trade that comes again over another connection gets a new time, one that
  retention had dropped counts as new. Inside one message open and close of a
  candle are ordered by price, while the time-weighted price keeps the order of
  trading. Trades without a price count in the volume.
- The sell side is sized at the midpoint, so its notional at the ask can exceed
  the cap; it is then chunked or refused.
- With a start time late slices may come in a row.

*Reconciliation*

- Only the first update of an order is watched for; a later one that is lost is
  not noticed by the watchdog. A recovery is made once per order and issue, with
  the identifiers the mismatch was found with.
- An order the venue rejected has no `executed_sequence` and is flagged as
  missing its result, which is a false alarm.
- An order with more fills than the pages of a pass is never caught up; each
  pass records an error. A drift that was recorded because a trade fell between
  the two tasks stays on record.
- Two processes that compare at the same time (the runtime and
  `exchange-state-smoke`) both find a drift missing from the ledger they read
  (`reconciliation/positions.py:89`, `:283`) and both record it: one difference,
  two records under one key. `DriftsTold` allows that and no other repetition.

*Feeds*

- The normalizer of a source outlives its connections and keeps the last
  sequence number (`exchanges/coinbase/advanced_trade_ws.py:221`): if the venue
  numbers each connection afresh, a new connection looks out of order and is
  dropped, until a restart.
- The router marks a key as seen before it appends the acceptance; if that
  append raises, the redundant copy is dismissed and the message is lost until a
  restart (`DuplicatesExplained`). A key that fell out of the deduplicator is
  accepted again.
- An append that raises outside the supervisor's `try` block ends every feed;
  nothing restarts them. `OutageNoticed` says the health task records it.

*Operation*

- `exception_to_error_payload` replaces the category its caller passes by that of
  a `BotError` (`core/errors.py:173`): a task that fails with one leaves an error
  that does not close its start for ledger health (`HealthExplained` counts it).
- The live gate reads the ledger anew for each of its checks
  (`app/live_runtime_gate.py:130`, `:147`, `live_preflight_gate.py:79`,
  `strategy_simulation_gate.py:92`). An error that another command appends after
  the health check does not block the start, although the later checks read the
  ledger with it, and no single state of the ledger need have everything the gate
  asks for; `StartAdmitted` says what does hold, read by read.
- The comparison of an archive's retention mode stands behind a `raise`
  (`audit/s3_object_lock.py:396`) and never runs.
- An older copy of the ledger that lacks the receipts verifies: what is anchored
  is noticed only while a receipt is on record (`Attested`). A torn local
  artifact blocks publishing its checkpoint again.

## 5. Proofs

The constants are arbitrary in every theorem: sets of processes, commands,
sources, rules or jobs of any size, and bounds of any value. What a theorem
assumes beyond the `ASSUME` of its module is a hypothesis in its statement, and
each such hypothesis names something the code really does not guard against.
Every inductive invariant was first checked by TLC with the bounds of the run.

**`LedgerProofs`**, from `NoProcAssumption` (the absent lock owner is no process):

- `TypeCorrect`, `MutualExclusion`, `LockNeverLeaks`, `ChainAlwaysIntact`,
  `AckedAlwaysDurable`: `TypeOK`, `LockOwnership`, `NoLeakedLock`, `ChainIntact`
  and `AckedDurable` are invariants of `Spec`;
- `Refinement`: `Spec => RefinesLog`, the ledger implements `AppendOnlyLog`;
- `TornFailsClosed`: `Spec => TornStopsAppends`.

None of the invariants about the file is inductive alone. `IInv` adds
`AppendInProgress`: between its verification and its return an append works on
the state of the file *as it is*. With `LockOwnership` (no one else can write
meanwhile) this makes every written line continue the chain
(`AppendKeepsChain`), which is the heart of the argument: cached states may be
stale at any other time. The refinement maps a completed line to `Commit`, the
return of an append to `Acknowledge` and a snapshot to `Read`, and uses `IInv`
for the sequence an append returns. `TornFailsClosed` adds that nobody can start
writing while an abandoned line is there, since `Verifies` fails.

**`AuditCoreProofs`**, from `RulesAssumption` (rules have distinct ids):

- `OneShotsOnce`, `FiringsAudited`, `ReturnsComplete`: `OneShotOnce`,
  `FiringAudited`, `ReturnComplete`;
- `ContractKept`: `BeforeRepeatable => (Spec => []TriggerContract)`.

All four speak of the ledger between two emissions, so `CoreInv` says what holds
inside one: a one-shot rule that is due is not on record and one on record is
held (`OneShots`), a held key is on record, dropped or about to be recorded
(`Firings`), and which of the records an event owes exist by now, by the phase
of the emission (`Owed`). `ContractKept` adds `Predicted`: the sequence a BEFORE
record names is as far ahead as records are due. That needs every BEFORE rule to
be repeatable; with a one-shot one it is false (section 4).

**`GatewayProofs`**, from `GatewayAssumption` (identifiers of commands, orders
placed by hand and the absent id do not overlap). Three parts, each on top of the
one before.

*The identities.*

- `TypeCorrect`, `ActionsSentOnce`, `IdentitiesUnique`: `Alone => (Spec => []P)`
  for `TypeOK`, `SentAtMostOnce` and `IdentityUnique`.

`Alone`: no two processes submit the same action id or client order id. Two that
do can both find it absent, since no lock spans a submission's replay and its
records. The first lemmas say what each record does to each field of the
projection (`...Facts`). `GatewayInv` then relates four views of the same orders:
both index maps, the owners that ledger health replays and the identifiers in the
orders agree (`Coherent`); a submission knows of its action what its program
counter implies (`SubmissionOk`); the venue and the feed only hold orders that
are on record (`WorldOk`); what was sent is decided (`SentOk`). Each record moves
the projection only under its own action and client order id (`...Moves`), so it
leaves what other submissions know alone.

*The truth.*

- `OpenOrdersKept`: `Alone => (Spec => []NoOpenOrderForgotten)`. `OrdersInv` says
  that an order which was never sent is not at the venue, that one which was sent
  stays remembered while it is open, and that a result in hand says no more than
  the venue did.
- `TruthSettles`: `RuntimeOnly => (Spec => []SettledTruth)`, with or without HTTP
  errors that hide an effect. One direction is `SettledInv(L)`: what
  the projection has open is open, has an update on its way or is in `L`, the
  orders an update of which was lost (none here), and the last update on its way
  is what the venue says. The other is `ToldInv`: what is open at the venue is
  open in the projection or has an update on its way, and as long as the
  submission that sent an order has yet to say what came of it, the update of it
  is still on its way (`ChangesTold`: so a record that calls the order failed or
  unknown is put right later). `RuntimeOnly` (the process that takes the
  feed is the one that submits) is needed since another's acceptance can be
  recorded after the fill was, and another's failure after the update.
- `LimitHolds`: `RuntimeOnly /\ CountedFully => (Spec => []OpenWithinLimit)`.
  `LimitInv`: the replay a submission decided on counts every order that is open
  at the venue and leaves room for its own. `CountedFully` excludes what the gate
  does not count: amendments and replacements, and HTTP errors that hide an
  effect.

*Reconciliation.*

- `ReconciledOnceAlways`: `RSpec => []ReconciledOnce`, without a hypothesis;
- `RecoveryForgetsNoOrder`, `SettlesUnlessLost`, `RecoveryClaimsItsOwn`:
  `RuntimeOnly => (RSpec => []P)` for `NoOpenOrderForgotten`, `SettledUnlessLost`
  and `IdentityUnique`.

Submissions and updates are `Quiet`: they leave mismatches and recoveries alone,
whatever else they do, which is shown for every record. `ReconciliationInv` says
that no order and issue come twice among the mismatches, that what was written
is on record, and that what the task in progress has yet to write is not; the
last part is why a run that starts from a fresh replay cannot repeat a record.
`ComposedInv` puts this beside the invariants of the gateway. A recovery applies
an answer as if the feed had brought it, under the key and the exchange id the
mismatch was recorded with. So `Named` says that this exchange id is that
order's, which goes back to what `Coherent` says of orders (`Owning`) and lasts
since identifiers are never given away (`Grows`); and `AnswerTold` says that an
answer in hand is what the venue has, or that the update which says otherwise is
on its way or lost, which is what `SettledInv(lost)` asks of a record that opens an
order again. With that, a recovery is an update like any other to the invariants.

**`OrderManagersProofs`**, from `SetupsAssumption` (`SeedOk`: what the gateway has
seen to before it accepted the operator's commands) and `BoundsAssumption` (the
managers' limits are positive, as the configuration requires; TLC evaluates both
on every setup of the run):

- `NeverDoublyExposed`: `Spec => []NoDoubleExposure`;
- `OneOpenOrderEach`: `MaxReleases = 1 => (Spec => []OneLivePlacement)`;
- `LineageAlwaysPasses`: `Spec => []LineagePasses`.

The decisions of the managers are folds over the projection, so the proof begins
with induction over the length of a sequence (`NumberInduction`, from the least
element of a set of numbers: a theorem about sets, hence usable where the
library's induction, which takes an operator, is not) and with what is in the
result of such a fold. `ManagersInv` is about time: of the commands of a cycle
still to come, a replacement stands behind the cancellation of every order it
replaces (`JobOk`), whatever the venue, lost answers and deaths do to the orders
meanwhile; a list that breaks off leaves the cancellation without its
replacement, never the other way round. `TurnInv` adds `InTurn`: what is placed
under a logical order comes after its open order is cancelled, and there is one
such command per list. That needs `MaxReleases = 1`, the limit the code comes
with: the release manager looks for live chunks in the snapshot and not among
its own decisions, so with a greater limit two chunks of one logical order are
released in one evaluation and the property is false (section 4). `LineageInv`
adds that the record of lineage is in order and only grows: what is on record
stays as it was (`Kept`), each submission appends at most one logical order and
one placement (`Extended`), and each command of a list is `Legal` against what is
on record when its turn comes, not only against the snapshot it was decided on.
The sizes of orders, fills and trades are part of the invariant since the
contract wants sizes to be positive.

**`QuotingProofs`**, from `SetupsAssumption` (what the loaders of catalog,
configuration and policy see to, and a venue whose book has both sides) and
`PricesAssumption`:

- `OrdersWithinBothPolicies`: `Spec => []WithinBothPolicies`;
- `OneQuoteOnEachSide`: `Spec => []OneQuotePerSide`;
- `BookIsTrue`: `Spec => []BookTrue`.

The first half is about `EffectiveLimits`: an order that passes the merged limits
passes the configured ones and the operator's, limit by limit, and passing is not
lost when the order is later staged and released. A submission is a fold over the
intents of a strategy; what one step of it adds to record and venue is shown
once, and carried through lists of any length by the same induction. The second
theorem is about orders the strategy may not see, so `QuoteInv` says how far the
record can lag: an order alive at the venue is open, pending or queued for
cancellation on record (`Lag`), no update on its way calls it anything else, and
two active quotes of a side are chunks of one logical order unless the strategy
once staged without seeing an order that was alive (`SameQuote`).

The third is about any number of connections to one venue. `BookInv` looks at one
price at a time: on every connection the last message under way that names the
price tells what the venue has now (`Current`), and while no loss is open a price
that the projection has wrong is named by some message under way (`Reached`).
A dismissal takes a message away without applying it, so it must be known to tell
nothing: messages are numbered in the order of sending and copies are equal
(`Numbered`); the last message on a connection that names a price agrees with every
message on any connection that was sent no earlier (`Agreed`), since what was sent
after it was sent on its connection too and is behind it; a copy of what was accepted
is no newer than the newest accepted (`Behind`); so unless messages were accepted out
of order, the book has what the last copy on a connection tells (`Dismissible`). Of
a fold over the levels of a message it needs that a price which is named ends up
the same whatever the book was before, and that a snapshot, read into an empty
book, is the venue's (`SetLevelsFacts`, `SnapshotIsBook`). A late snapshot of one
connection is followed, on that connection, by everything that happened since; what
of that is dismissed although the snapshot took it back is the exception of
`BookTrue`.

**`FeedsProofs`**, from `BoundsAssumption` (the deduplicator holds at least one key):

- `MessagesAcceptedOnce`, `ConnectionsAlternate`: `AcceptedOnce`, `FeedsAlternate`;
- `DismissalsExplained`: `Spec => DuplicatesExplained`, an action property.

A step is a set of outcomes, so the lemmas say what holds of every outcome of a
part and hence of what `Then` chains to it. `Kept`: an accepted key is in the
deduplicator or fell out of it, and any other key in it lacks the record of its
acceptance; it needs the lemmas on the LRU sequence. `Linked`: a source is up on
record only while its coroutine streams, unless a record is missing.

The same module has the theorems about `Fills`, from `OrdersAssumption`,
`PageAssumption`, `ToleranceAssumption`, `ForeignAssumption`, `VenueAssumption` and
`RuntimeAssumption` (a side for every order, at least one order, a page holds a
fill, no negative tolerance, foreign changes are of listed products by whole
contracts, each product is listed at a venue that is asked, and the runtime is one
of the processes), for any number of processes:

- `FillsAreExact`, `DriftsAreTold`: `FSpec => []FillsExact`, `FSpec => []DriftsTold`.

The projection is a fold over the records, so one more record is one more step of
it (`ProjectionAppend`, by `NumberInduction`), and one more fill moves each sum by
its size, since its trade was in none of the sets that are counted
(`FillCounts`). The invariant is then about time. For a pass (`Passing`): as long
as it is without errors, a trade that was made before it is on record, on the
page in hand, or at least a page further down the venue's list (`Reached`); new
trades only push it down, so the next page cannot miss it, whatever it repeats.
For a comparison, up to its lookups (`Looking`): every drift on record is among the
keys it read, or was recorded after it read the ledger and by another process;
what each lookup listed is what that venue held when it was asked (`LookOk`).
After them (`Comparing`): what it found is on record or about to be, in full
(`Covers`), and what is still to be recorded under a key it had not read is on
record only from others, since then. This is what makes the repetition of a drift
a race of two processes and nothing else (`DriftsApart`). `Grows` sums up what a step may
do to trades and records, and is all that the parts need to know of it.

**`LiveOperationProofs`**, from `SetupsAssumption` (whatever ledger one starts with
was written by these commands) and, for the second theorem only,
`SettledAssumption` (the runs on it had ended in order, so that health has
nothing to say of it yet; an empty ledger is one of these). TLC evaluates both on
every setup of the run:

- `StartsAdmitted`: `Spec => []StartAdmitted`;
- `HealthIsExplained`: `Spec => []HealthExplained`.

`LiveInv` carries the evidence along the commands that gather it: every clean
preflight and every acknowledgement on the ledger was earned (`Earned`), a
command in progress has appended what its step implies (`Progress`), and what
the gate found holds of the prefix each check read (`Gating` while the checks are
made, `Admissible` from the decision on). All of it speaks of
prefixes of the ledger, and so survives whatever anyone appends.

`HealthExplained` compares what the contracts of ledger health count with the
faults, and is not inductive: an open start is no anomaly when its process is
killed, and becomes one only with the next start of the component. `HealthInv`
therefore counts ahead. Of the lifecycle it says that anomalies and orphans (open
starts of a component that does not run) together are no more than the faults
(`LifecycleOwed`), so a start that turns an orphan into an anomaly keeps the sum;
of tasks and evaluations, that what is unpaired is no more than the faults, but
for the start in progress, which may be unpaired still or have been closed by a
record whose emission raised (`Owed`). One lemma per kind of record
(`LifecycleStart`, `LifecycleStop`, `PairsStart`, `ClosingClosed`) says what it
does to the count; since each speaks of one component, or of the records of one
contract, it does not matter who appends in between. `Control` ties what a
process has open to where it is.

**`AnchoringProofs`**, from `BoundsAssumption` and `ModeAssumption`:

- `ReceiptsAlwaysStand`, `AttestedAlways`: `ReceiptsStand`, `Attested`.

`Attested` needs only what every receipt says of its artifact (`Receipts`),
damaged or not. `ReceiptsStand` needs `Stand`: while nothing was damaged, every
receipt stands and what each process has in hand was taken from a prefix of the
ledger and, once stored, is in its store; each part is kept by a longer ledger
and fuller stores.

**Only model-checked**, and why:

- All liveness properties (`OperationsEnd`, `StagedReleased`, `StopHonoured`,
  `MissingFlagged`, `MismatchesRecovered`, `OutageNoticed`): fairness and ENABLED
  are beyond the prover.
- `OrderManagers.ExposureKept`: it compares sums over orders and fills, and every
  step changes the terms of both.
- `Quoting.WindowsAgree`, `PlansKept`: sorted windows, time-weighted prices, sizes
  of chunks and slices, computed by nested recursion over data.

The proofs take SHA-256 as injective, as the model does.

## 6. Not modelled, and why

- Contents of payloads, canonical JSON, timestamps, error texts: no property
  tells them apart.
- Registration of hooks, rules, sources and tasks: done before the start,
  hence constants.
- Parsing and validation of configuration and operator policy, CLI text,
  exports, summaries, wizards: no state over several steps.
- Scenarios and assertions: developer tools that run the harness on a temporary
  ledger.
- Dry-run executor, venue guard: stateless, each answers from the command alone.
- Exposure summaries, `ladder_plan`, realized volatility, the ticker: computed
  and read by no decision of the repository.
- Authentication, HTTP and websocket transport, S3: I/O. Their failures are
  choices in the models.
- Durations (backoff, timeouts, staleness, cooldowns, ages of evidence): a step
  that may happen once the wait has begun, or a refusal more.
- The lifecycle and execution contracts of ledger health over gateway records:
  they hold by the shape of `submit_and_execute`'s records.

## 7. What is left

1. `OrderManagers.ExposureKept`: lemmas about sums over a growing record.
