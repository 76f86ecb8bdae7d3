# TLA+ models of the ProWorks Engine Suite

These modules specify, in TLA+, the parts of the suite in which a result depends
on the order of things: leases and retries, optimistic versions, awaits between a
read and a write, checkpoints, redelivery, overlapping drains and sweeps, stale
snapshots, crashes. TLC checks small instances of them; TLAPS proves what matters
most in all but one of them for instances of any size. Definitions keep the names of the
code where TLA+ allows it, and `PROJECT.json` maps each one to the lines it stands
for.

All paths below are relative to `packages/` of the repository.

## 1. Inventory

The suite is a TypeScript monorepo of engines and the platform packages under
them. Nothing in it runs threads: processes run single-threaded event loops, so a
synchronous function is atomic within its process, and everything hard happens at
an `await`, between two processes that share a store, between people who act on
what they read some time ago, or across a restart.

| Part | State | Operations | What is hard | What makes it correct | Model |
|---|---|---|---|---|---|
| Job queue (`platform-runtime/src/inMemoryJobQueue.ts`, `contracts/src/jobs.ts`) | jobs by id, two indexes (queued by type, running) | `enqueue`, `claim` (sweeps lapsed leases first), `heartbeat`, `complete`, `fail` | workers that crash, outlast their lease or report late; two paths that return a job to the queue | one worker per job while its lease lasts; indexes that never drift; bounded retries; nothing stays unfinished | `JobQueue` |
| Outbox (`platform-runtime/src/outbox.ts`, `contracts/src/sync.ts`), event bus and resilient delivery (`platform-events/src`) | entries by sequence with a status; subscriptions; dead letters | `record`, `drainOutbox`, `markPublished`; `publish`, `deliverWithResilience` | drains that overlap, publishes that fail or whose answer is lost, handlers that outlast their timeout, crashes between publish and mark | everyone sees events in order; nothing is put away before everyone has answered it | `OutboxRelay` |
| Capacity gate (`platform-runtime/src/capacityGate.ts`, `contracts/src/scheduling.ts`) | reservations, spend, burst tokens, the rung of the ladder | `request`, `release` | preemption, requests that evict and are then deferred, burst tokens that come back | the constitutional reserve stays runnable; a tenant stays within its share and one burst | `CapacityGate` |
| Circuit breaker (`platform-runtime/src/resilienceRuntime.ts`) | one record per circuit | `run`, `reset` | calls that end in another state than they began in | a circuit whose dependency recovers closes again | `CircuitBreaker` |
| PRIME workflows (`prime/src/workflow`, `prime/src/pulse`, `prime/src/nexus`, `contracts/src/workflow.ts`) | the stored instance (status, steps, version, claim) and each call's copy of it | `start`, `resume`, `recoverAbandoned`, `advance`, `compensate`; store `create`, `save`, `claim`, `listResumable` | several instances resume one workflow, leases lapse under a slow call, a crash between an effect and its record, a compensation that throws | stale saves refused; a status that says what the steps say; terminal stays terminal; effects as recorded; somebody finishes it | `PrimeWorkflow` |
| Activation consensus (`neural-fabric/src/distributed/activationConsensus.ts`) | what a replica has seen, and what it acts on | `vote`, `tally`, `applyCommit`, `quorumSize` | rivals for one epoch, votes of strangers, late and repeated outcomes | one topology per epoch | `ActivationConsensus` |
| InventoryIQ reservations (`inventoryiq/src/reservations.ts`, `inMemory.ts`) | a versioned stock position, a separate store of reservations, in-flight calls of each process | `reserveStock`, `releaseStock`, `consumeStock` | two stores written one after the other, an await between each read and write, retries after a timeout | the reserved figure is the sum of the live holds; a repeat holds once; calls appear to happen one by one | `StockReservations` |
| EventIQ (`eventiq/src/eventiq.ts`, `store.ts`, `contracts/src/delivery.ts`) | log, one checkpoint per group, attempts, inbox of operations, dead letters, replays | `publish`, `subscribe`, `poll`, `acknowledge`, `replay`, `resolveDeadLetter` | a high-water mark that stands for everything before it, answers out of order, late or twice, ordering by key over batches, restarts | nothing passed over, order within a key, operations performed once, promised redeliveries possible | `EventIq` |
| LedgerIQ (`ledgeriq/src/runtime/ledgerRuntime.ts`, `kernel`, `memory`) | a book: entries in sequence, period states, reversal marks | `post`, `reverse`, `closePeriod`, `reopenPeriod` | several runtimes over one store, appends that lose a race or an answer, retries of a reversal | a key posts once; the journal only grows; every claim of an entry is true | `LedgerPosting` |
| CloseIQ (`closeiq/src/engine.ts`, `kernel`) | tasks, reconciliations, adjustments, readiness, the period, consumed decisions | `startTask`, `completeTask`, `waiveTask`, `computeReconciliation`, `proposeCertification`, `certify`, `transitionAdjustment`, `assessReadiness`, `recordSignOff`, `requestPeriodClose`, `recordPeriodCloseOutcome` | the order in which people make them | a decision authorizes one item; a sign-off comes after the blocking tasks; a changed balance voids its certification | `CloseCycle` |
| ReceivablesIQ (`receivablesiq/src/engine.ts`, `kernel/projection.ts`, `kernel/matching.ts`, `ports.ts`) | the journal of a tenant, its idempotency keys, its sequence numbers | `recordReceivable`, `recordCashReceipt`, `applyCash`, `reverseApplication`, `recordWriteOff` | a command is judged by a replay and then appends its facts one by one; retries, crashes in between, reversals that race | a repeat converges and never doubles; applied amounts stay within the documents | `CashApplication` |
| WorkOrderIQ (`workorderiq/src/core`, `projections`) | event log of a work order, claims of idempotency keys, a cached summary | `createWorkOrder`, `advanceStep`, `advanceMilestone`, terminal commands; `get`, `refresh` | commands judged by snapshots behind the log, two hosts that create one order, gets that overlap a refresh | one order per key; dependencies first; the cache is a replay of the log | `WorkOrderFloor`, `WorkOrderIntake` |
| Foundry missions and agents (`foundry-evolutioniq/src/mission`, `agents`) | missions; the queue and what runs; agents, their limits, terminations, the sweep | `propose` ... `terminate`, `requestAuthorization`; `enqueue`, `admit`, `admitted`, `released`; `spawn`, `recordAction`, `heartbeat`, `supervise`, `terminate`, `release` | a mission that changes while Governance is asked; two containments of one agent; missions that overlap in one round; a hang that no call tells of | an ended mission stays ended; records agree; missions of one component do not overlap; nobody starves; who is past a limit is stopped | `MissionControl`, `MissionScheduler`, `AgentSupervision` |
| Webhooks, instance admission, continuity mode (`platform-runtime/src`) | endpoints with failure counts; admitted instances; mode and queued contributions | `dispatch`, `replay`; `admit`; `degrade`, `drain`, `recover` | an endpoint copy read before an await; contributions that arrive during a drain | - | no |
| Other runtime adapters (telemetry, security core, sentinel shield, knowledge gateway, interconnect, federation, observability) | counters, registries, policy tables | records and look-ups | little | - | no |
| Core kit and governance engine (`core-kit/src/coordinator.ts`, `governance-engine/src`) | registrations, proposals and their decisions | coordinate, propose, decide | late decisions, digests that change | - | no |
| SentinelIQ (`sentineliq/src`), AuditIQ (`auditiq/src`) | incidents and chambers; a hash chain | detect, contain, release; append, verify | one caller at a time; the hash itself | - | no |
| Foundry evolution and rollout, repair learning (`foundry-evolutioniq/src/evolution`, `repair-learning/src`) | proposals, cohorts, repairs | propose, validate, expand, roll back | tools and text | - | no |
| Neural fabric but for its consensus, hive runtime (`neural-fabric/src`, `hive-runtime/src`) | topology graphs, path health, flow control | route, deliver | pure decisions over measurements | - | no |
| Services (`notifications/src`, `order-ingestion/src`, `tracking/src`) | sent notifications, ingested orders | notify, ingest, track | find-then-record without a claim | - | no |
| ARIA, PRIME's routing and evidence, the capability cores, control plane, the other finance engines, ForgeIQ, CostIQ, VisionIQ, ReceiptIQ, SenseIQ, model packages, simulation lab | mostly none of their own, or large numeric data | calculation, parsing, routing, views | numeric, not temporal | not a model checker's subject | no |

**How the parts meet.** Engines depend on contracts and are handed their stores,
buses and queues by a host. PRIME's runner asks Nexus for the next step,
Governance for permission, runs the step against an engine, and saves to the
workflow store; Pulse asks that store for a claim before a resume. Engines record
events in an outbox after their own write, a drain publishes them on the bus;
EventIQ's consumers poll. Workers poll the job queue. CloseIQ asks LedgerIQ to close
a period through its host and is told the outcome. Foundry's agent runtime ends
missions of mission control, whose scheduler looks at their states. The in-memory
implementations are the executable statement of what a host's durable adapter has
to do, and they are what is modelled: queue, outbox, workflow store, stock ledger,
book, claims, event log and EventIQ's store are taken as shared and durable, with
the processes around them crashing. Foundry's maps, the capacity gate and the
breakers live in one process.

## 2. Modules

| Module | What it is |
|---|---|
| `JobQueue` | the queue and the workers that call it |
| `ExclusiveWork` | abstract: each item has at most one holder at a time |
| `OutboxRelay` | the outbox, its drains, the bus with its resilient delivery |
| `OrderedFeed` | abstract: readers are given events in order, settled when all have answered |
| `CapacityGate`, `CircuitBreaker` | the gate and one circuit |
| `PrimeWorkflow` | one workflow, its store, and the calls that work on it |
| `ActivationConsensus` | replicas, their votes and outcomes |
| `OneTopology` | abstract: one decision per epoch, and replicas act on decisions |
| `StockReservations` | one stock position, its reservations, and the calls on them, await by await |
| `AtomicStock` | abstract: reserve, release and consume as one step each |
| `EventIq` | log, checkpoints, deliveries, dead letters and replays |
| `LedgerPosting` | one book, its runtimes, posts, reversals, closes and reopens |
| `Journal` | abstract: a journal that only grows, and true claims about it |
| `CloseCycle` | one period close |
| `WorkOrderFloor`, `WorkOrderIntake` | one work order and those who act on it; creation with idempotency keys |
| `CashApplication` | open items, receipts and the calls that apply one to the other |
| `MissionControl` | Foundry's missions, extended by the next two |
| `MissionScheduler`, `AgentSupervision` | which missions run together; agents and who stops them |
| `Totals` | the sum of a function over a finite set, used by the gate, the stock and the application of cash |
| `MCRuntime`, `MCCoordination`, `MCBusiness`, `MCFoundry` | instances of several parts for one TLC run |
| `MCJobQueue`, `MCPrimeWorkflow`, `MCStockReservations`, `MCEventIq` | instances of one part |
| `RuntimeProofs` | theorems about `JobQueue`, `OutboxRelay`, `CapacityGate` and `CircuitBreaker`, and about `MCRuntime` |
| `WorkflowProofs`, `StockProofs` | about `PrimeWorkflow` and `StockReservations` |
| `CoordinationProofs` | about `ActivationConsensus` and `EventIq`, and about `MCCoordination` |
| `FinanceProofs` | about `LedgerPosting`, `CloseCycle` and `CashApplication` |
| `BusinessProofs` | about `WorkOrderIntake` and `WorkOrderFloor`, and about `MCBusiness` |
| `FoundryProofs` | about the missions, their scheduler and the supervision of agents, and about `MCFoundry` |
| `TotalsProofs` | lemmas about sums, and induction over numbers and finite sets, used by the others |

`ExclusiveWork` is implemented twice, by the job queue's leases and by the
workflow store's: both promise that one worker at a time works on an item, by
different means. Two compositions share state in the code and so in the models:
the outbox with the bus behind it, and the missions with their scheduler and with
the agents that are stopped. The other parts share a host, not state; an MC module
that holds several of them has a variable (`part`, `foundryPart`) that a behaviour
chooses once, and the parts it did not choose stand still.

Common conventions. Time is a tick that counts leases, backoffs and open periods
down, so that a lease of the code (`claimedUntil - now`) is a small number and no
clock has to be bounded; 0 is "lapsed". A call that awaits is a sequence of actions,
and what it has read is kept in a variable per call (`cur`, `basis`, `posting`, `drain`,
`view`, `call`). Operators commented "Mutant" are plausible mistakes in the operator
after them. No definition uses them; substituting one shows that the property
paired with it in `PROJECT.json` notices such a mistake.

**JobQueue.** `jobs` is the map, `queuedByType` and `running` are the two indexes, and
`Write` maintains them exactly as `write` does, so that index drift would be visible.
`Claim` is the whole of `claim`: the sweep of lapsed leases over the `running` index,
the scan of the requested types' indexes, the choice by priority and age, and the
write. `FailForGood` and `FailAndRetry` are the branches of `fail`. `work` and `granted`
are the workers' side: the jobs they think they have, and how long the lease they
were given still runs. `SlowWorkers` says whether processing may outlast the lease,
`LateReports` whether a worker reports after it: the queue allows both; they are the
callers' discipline. `clear()`, which only tests call, is left out.

**OutboxRelay.** A drain reads what is pending and publishes it entry by entry; a
publish calls the matching subscriptions in turn, each with its timeout, its retries
and, in the end, a dead letter; the first failure halts the drain. Nothing keeps a
host from starting two drains, and none of their steps excludes the other's. A
handler that outlasts its timeout becomes one of `zombies` and may still finish. A
crash ends drains and zombies. Dead letters are assumed to be configured: without a
store for them a failed delivery is logged and forgotten. Left out: unsubscribing,
the bus's log and its ledger of processed ids (each publish makes a new id).

**CapacityGate, CircuitBreaker.** Both methods of the gate are synchronous: `Defer` and
`Admit` are the outcomes of `request` that change something, `Tried` is its loop over the
dimensions that the request names, in its order, with ceilings, victims and burst tokens. What is evicted for a request that
is deferred on a later dimension stays evicted. `CircuitBreaker` has `run` in two
halves around its await.

**PrimeWorkflow.** `wf` is the stored record, `cur[p]` the copy `current` of call `p`, `pc[p]`
the await it stands at; one action is one await. `Persist` is every `store.save` with its
conflict, which ends the call. A claim changes the stored record without a new
version, as `claim` does. Steps may be blocked by a missing authorization, stopped
by Governance, the engine or a validation (`Stop`: each ends the pass with one save and
keeps the claim), run, fail, and be undone in reverse order; a compensation may
throw. `effects[s]` is history: how often step `s` acted on the world, less its undoings.
Left out: evidence records, step dependencies and validations, the store's
`delete`, and Pulse's own sweep. Pulse compares an authorization reference that the
runner never hands it, so that this check passes always.

**ActivationConsensus.** The code is functions of a replica's state; the host that
carries messages is not in the repository, so any proposal may reach any replica at
any time and outcomes may be applied late, again or never. `ReplicaState` is assumed to
survive restarts. `assessReplica` decides nothing here and is left out: `vote` does not
ask it, although a comment says that a replica that is behind must not vote as if it
were current.

**StockReservations.** `at[c]` says where call `c` is, `seen[c]` is the position it read.
`Begin` is the in-process deduplication (`inFlight`), `List` the duplicate check, then
`Read`, `RefuseShort`, `Hold` or `Conflict`, `Record`; settlements go `Get`, `ReadAgain`,
`Settle` or `SettleConflict`, `Mark`. The position is written first, conditionally on its
version; the reservation after it. `Crash` ends the calls of a process. Two reserves
of one operation in different processes may both be granted: a comment
(`reservations.ts:121-130`) leaves this to a unique index of the host's store, and the
instances serve all reserves by one process. The header of `inMemory.ts` says that
the adapter does not check versions; the code does, and the code is modelled.

**EventIq.** Every call is synchronous, so every call is an action. The store's
variables survive `Restart`; subscriptions and the replay counter do not. `Poll` marks
what it delivers, or finds expired, and leaves the checkpoint; `Accept` moves it to
just past the event, unless it is further already; `Defer` and `Reject` never move it.
`InOrder` says that a consumer answers each delivery once and in the order of the
log; `ConsumerSpec` is without operators who send dead letters again, `EventSpec` with them. Refused calls (schema, origin, Governance, containment) change nothing and are
left out. An attempt counter stops one above `maxAttempts`: nothing compares it with
more, though the engine goes on counting.

**LedgerPosting.** A call is its sequence of awaited store calls: find by key, read
version and period, append conditionally, mark the reversal. Each may fail, a write
also after it took effect. A runtime queues its postings to a book; its closes and
reopens do not queue. The gates of validation that look at the proposal alone refuse
before anything changes and are left out; gates 5, 9 and 26 (period state, period
type, reversal of a reversed entry) are modelled.

**CloseCycle.** Every operation is synchronous; a refused one changes nothing. Whether
evidence suffices or an account reconciles is the caller's input. Left out: the
validation of templates, the arithmetic of reconciliations and the cut-off.

**CashApplication.** `Project` replays the journal (`ReplayTo`, the fold of
`projection.ts`) and judges the command by it; `AskForKey`, `NextSequence` and `AppendFact`
are the three awaits of `appendFact`, once for each fact. `MatchCascade` is the ladder of
matchers, whose search for a sum is given as what it finds rather than how. Items and
receipts are there from the start, recorded once each, and no call is backdated. A command
may name an item twice or a negative amount, as the engine refuses neither; `NamesOnce` and
`NoneNegative` say that none does, and `AmountsWithin` names them where it needs them.
`Replayed` goes through the journal by number, as a recursive function. `alone` says
whether callers make one call at a time. Left out: identification and parking on account
(they change no amount), credits, the search's budgets, dates, currencies and the queries.

**WorkOrderFloor, WorkOrderIntake.** The use cases keep nothing: each judges a command
by the snapshot its caller passes and appends an event. `view[u]` is that snapshot;
`log` and `cache` are what `get` and `refresh` read and write, with an await between.
`Folded` is the reducer over a part of the log, as a recursive function of the event's
number. What the log already has is assumed to be in the order of the dependencies
(`FirstLogAssumption`; an empty log is).
Creation claims its key, then appends; both may fail, before or after they took
effect, and calls of one host with one key join. Left out: reroutes
(`routeSteps`), change orders (`changeConsequence`), migrations, stations, estimates.

**MissionControl, MissionScheduler, AgentSupervision.** Every transition of a mission is
one turn of the event loop but `requestAuthorization`: `Ask` keeps in `asked[c]` the state it
read, `Permit` applies the transition to that. `Interposing` says whether the mission may
change meanwhile. The scheduler's `admit` only offers; the host starts the offers one by
one (`Start` is `admitted`), and other things happen between. The queue is a set with,
for each mission, those queued `ahead` of it, since priority decides first and age
after it; `Offers` says what the loop over the candidates answers, as the one list in
their order that is consistent with the conflicts. A mission stands for all
those that ask for the same thing: once released it may be proposed again, under a
new id. `contain` awaits once per workspace it freezes (`Freeze`) and writes the agent, as it
read it, and the mission after the last (`Contained`). A sweep lists the active agents
(`TickSweep`) and contains one after the other (`ResumeSweep`) from that list; only Sentinel
is asked afresh. Clocks are left out: `overdue[a]` is the set of limits that have passed.

## 3. Runs

Twelve runs, five that pass and seven that find the violation a finding describes.
`CHECK_DEADLOCK FALSE` everywhere: a system whose jobs, workflows, calls, events or
missions are all done, with the bounds used up, rightly stops.

| Run | Instance | Shows |
|---|---|---|
| `Runtime` (87,165 states) | the job queue twice (two jobs, two workers, leases of one and two ticks, a crash; slow workers, then punctual ones), an outbox of two entries with two drains, two readers (the handlers of one may time out) and one fault, a gate of two dimensions and two tenants, a breaker with three calls | `IndexesInStep`, `ImplementsExclusiveWork`, `PunctualJobsSettle`; `ImplementsOrderedFeed`, `EverythingPublished`; `ReserveRunnable`, `TenantBounded`; `Recovers` |
| `Business` (360,503) | two runtimes posting an entry, an adjustment of it and their reversals, up to three entries in all; one that posts while another closes and reopens; the people of one close, with its certifications or with its adjustments; two users on a work order of two steps; four calls that create one work order on two hosts; an application of cash made twice, two reversals of it, two matches and a write-off, one at a time with a crash, or the first four racing | `ImplementsJournal`, `MarkedIsReversed`; `SignedOffIsDone`; `CacheIsAReplay`, `DependenciesFirst`; `OneOrderPerKey`; `CommandsConverge`, `AmountsWithin` |
| `EventIq` (454,512) | two groups, one ordered, two messages of one key, polls of two, one restart, one replay, expiry, answers in order | `NoLoss`, `RetryReachable`, `FifoWithinKey`, `EventuallySettled` |
| `Coordination` (358,111) | three steps, two starts and a resume, slow, with a stop and a crash; a start and two sweeps within their leases; four replicas, one of which only votes, and a stray voter, two versions, two epochs; four reserves against 7 on hand, a release and a consume of one of them, crashes of the reserving process; two members of a consumer group with answers in any order and again, dead letters sent again, and a replay | `CopiesAreCurrent`, `HonestOutcome`, `TerminalStays`; `TimelyEffects`, `TimelyExclusiveWork`, `TimelyOver`; `ImplementsOneTopology`; `LedgerExact`, `OneHoldPerOperation`, `ImplementsAtomicStock`; `OnceAccepted` |
| `Foundry` (168,524) | two agents of one mission with one and two workspaces, a lease that expires and a silence, an operator who stops the first, the supervisor; three missions, two of one component, one that may be withdrawn, in a queue with room for two | `RecordsAgree`, `OverdueStopped`; `MissionsDisjoint`, `NoneStarves` |
| `JobQueue_late_exclusive` | one job, two workers | violation of `ExclusiveClaims` |
| `PrimeWorkflow_stale_sweep` | two sweeps and a crash | violation of `TerminalStays` |
| `StockReservations_settle_retry` | a settling process that crashes | violation of `LedgerCoversHolds` |
| `EventIq_held_back` | one ordered subscription, three messages of two keys | violation of `NoLossInOrder` |
| `Ledger_reversed_twice` | a posting that names what it reverses, and a reversal | violation of `ReversedAtMostOnce` |
| `Close_resurrected` | one account, two balances | violation of `CertifiedBalance` |
| `Mission_reauthorized` | two missions and one question to Governance | violation of `EndedStays` |

The passing runs also check type invariants, the conjunctions of their parts'.

**Bounds.** They are constants in the .cfg files and appear in guards of the models:
`AttemptCap`, `MaxCrashes`, `MaxStops`, `VersionCap`, `MaxRestarts`, `MaxReplays`, `MaxEntries`,
`MaxFaults`, `MaxEvents`, `MaxJournal`, `MaxCashCrashes`, `MaxEpoch`, `MaxAppendRetries`. The interleavings that matter need two
actors and a third to notice: two claimants and a lapse between them, two passes and
a stale copy, two reserves and a settlement, two members of a group, two drains and a
fault, two appends that race, two containments of one agent. Two attempts are the
least at which a retry, its exhaustion and a lapse in between all happen; a poll of
two is the least that can pass an event over; three steps are the least with a first,
a blocked and an uncompensable one; leases of one or two ticks lapse before, at and
after a heartbeat; four replicas are the least with a tie; three missions are the
least at which a starved one has something to wait for twice. The versions and attempts that the caps
cut off repeat states that differ from earlier ones only in the number; `passedOver` is
counted up to the threshold, beyond which the queue's order says the same.

**Fairness.** *Runtime*: workers poll and a punctual worker reports (`claim` is called in
a loop by whoever runs a worker); hosts start drains, and a drain under way goes on;
callers call through the breaker and time passes, all weakly fair; and strongly fair,
that one of the calls that could succeed does, as a dependency that works answers.
Crashes, heartbeats, enqueues and failures are not fair. *Coordination*, in the timely
part: a call in progress goes on to its end (each action is the continuation of an
await), and somebody sweeps, as `recoverAbandoned` is there to be called periodically;
crashes are bounded: a host that crashes at every step makes no progress. *EventIq*:
hosts subscribe their consumers again, consumers poll and answer
what they were given. *Foundry*: the ticker ticks, freezes are answered, and the sweep
that they let go on goes on; hosts ask what is admitted, start it, carry it out and
release it. Two of these deserve a word: a freeze that never answers would stop every
later sweep, since ticks that find one running are skipped; and a Sentinel that throws
whenever it is asked would end each sweep at its first agent. `OverdueStopped` is about
hosts on which neither happens for ever.

## 4. Where code and text disagree

Seven runs expect a violation; each is a property that the code's own text states and
that some order of legal calls breaks.

- **Late reports** (`JobQueue_late_exclusive`). `complete` and `fail` ask neither who
  reports nor whether the job is running. A worker that was reclaimed from can fail
  the job under the worker that has it now, and a third claim follows.
- **A sweep that listed a workflow before it ended** (`PrimeWorkflow_stale_sweep`).
  `resume` asks for the status again after it claimed; `recoverAbandoned` does not, and
  advances a compensated or failed workflow.
- **A settlement tried again** (`StockReservations_settle_retry`). A crash after the
  position was written and before the reservation was leaves it held; the retry
  takes its quantity off the reserved figure again.
- **Held back, then passed over** (`EventIq_held_back`). A poll holds an event back
  behind its key; the acceptance of a later event of another key moves the
  checkpoint past it, and no poll finds it again.
- **Reversed by hand, then reversed** (`Ledger_reversed_twice`). A posting that names what
  it reverses marks nothing, so that `reverse` reverses the entry again.
- **A certification that comes back** (`Close_resurrected`). A changed balance is compared
  with the balance computed last: the second computation finds it unchanged and puts
  the account back to certified.
- **Authorized after its end** (`Mission_reauthorized`). `requestAuthorization` applies the
  transition to the mission as it was before Governance was awaited: one that was
  stopped meanwhile becomes AUTHORIZED, and the record of its end is lost.

The models also show the following, which no run is kept for.

- *Job queue.* The sweep returns a job without asking how often it was attempted, so a
  job that crashes its workers is claimed without end (`RetriesBoundedByLapses`,
  which is proved, counts lapses apart). A heartbeat grants 30 seconds and shortens a longer lease.
- *Capacity gate.* Work evicted for a request that is deferred on a later dimension
  stays evicted and unreported; the comment at `capacityGate.ts:41` says otherwise.
- *PRIME.* As a claim keeps the version, the save of an instance whose lease has lapsed
  is accepted and puts its own claim back over the new one. The store grants a claim to
  the instance that has it, so two calls of one instance overlap in it. After a crash
  that follows a recorded failure, the next pass runs the failed step again, whether
  it was marked retryable or not.
- *Stock.* With `Overlapping` TRUE, a release and a consume of one hold that both read it
  as held both settle it.
- *EventIQ.* With answers out of order, a deferred event can lie below the checkpoint,
  where it is never polled again, and no longer holds back the later ones of its key.
  A dead letter sent for redelivery is never polled once the checkpoint is past it.
  Deliveries nobody answers are repeated beyond `maxAttempts`, at-most-once ones too.
  An expired event of an ordered subscription goes on blocking its key. Replay
  sessions are numbered from one again after a restart.
- *LedgerIQ.* A reversal whose mark failed is replayed by the retry, which returns
  before it marks (`ledgerRuntime.ts:306-330`): its target stays unmarked. An entry may be
  appended after its period was closed, by another runtime or from a snapshot read
  before the close: the book's version does not change with the period.
- *CloseIQ.* The readiness a signer names is compared with the one the last assessment
  stored, which no other operation touches (`engine.ts:387`): an account that became
  unknown since does not keep the close from being signed off. Of the tasks a sign-off
  asks for blocking ones alone: a required one may be open, and what a blocking one
  stands on may have been waived.
- *ReceivablesIQ.* Each allocation of a command is compared with the open amount by itself
  (`engine.ts:325`): two of one item may each fit and together take more than is open (with
  `InputTo <- MCTwiceInputTo`, `AmountsWithin` without `NamesOnce` fails). A negative one is
  accepted, raises what is open above the document, and makes room in the receipt for
  another. Calls that race with different keys are each judged before either appends, and
  may apply more than an item has (with `Racing` extended by the write-off, `AmountsWithin`
  without `alone` fails). A command that crashed between two allocations,
  or whose answer was lost, is judged again by what it left: its items are used up, so
  that `applyCash` refuses it before `appendFact` could find its key (`engine.ts:76-79`). A
  match made again picks other items under the same keys, and is answered as if they
  had been applied.
- *WorkOrderIQ.* A second terminal event, and a milestone announced twice, are possible
  from stale snapshots. A key that was claimed by a creation whose append failed
  answers every retry with a work order that is not in the log. A call that joins
  another with a different payload is answered with the other's work order.
- *Foundry.* An agent may act while its workspaces are being frozen, against the order
  that `runtime.ts:44-54` gives, since the credential is revoked with the last write; what
  it spent meanwhile is overwritten by the copy read before. Two terminations of one
  agent leave two records, and an agent released after a sweep listed it is contained
  all the same. `recordAction` never asks whether the mission has ended. A host that asks
  for two rounds of offers before it starts the first may start missions that overlap;
  the model's host does not. A mission that needs two components starves behind
  missions that keep one of them each (`scheduler.ts:28-35` promise the contrary): the
  boost puts it first in the queue but does not keep the others from running. With
  `Components <- MCWideComponents`, `NoneStarves` fails.

Read, and not modelled: PayablesIQ's `applySettlement` reads an obligation and its
applications and then puts both without a claim, so that two deliveries of one key in
flight both count (`settlement.ts:77-78` says they converge), and one that stopped
between its puts is answered as replayed with the obligation unchanged; ReceivablesIQ
records an item a second time under another document and forgets what was applied to
the first, and judges a backdated call by the amounts of its date; webhooks write back an endpoint as read before an await, and
`replay` does not ask whether it is active; continuity's `drain` forgets contributions
queued while it sends, and refuses in recovery what a comment says is never blocked;
order ingestion finds and then records without a claim; a pending notification's key
and its save race; the coordinator falls back after a timeout while the first engine
still works; a rollout that was rolled back can be expanded; a governance proposal
approved for one digest and then presented with another waits for a human but can no
longer be decided.

## 5. Proofs

The theorems hold for any values of the constants that satisfy the modules' `ASSUME`s,
which TLC evaluates in every run, and for as many steps as there may be: the bounds of
section 3 are constants like the others. A premise that a theorem needs beyond those is
an operator named in its `ASSUME`; section 4 says what happens without it. Each
invariant is shown inductive together with the strengthening named here.

**Job queue** (`RuntimeProofs`).

- `TypeCorrect`, and `IndexesCorrect` (`IndexesInStep`): inductive with the types, as
  `Write` moves a job from the index of its old status, which is right only if it was
  where its old status says.
- `RetriesCorrect` (`RetriesBoundedByLapses`): `attempts <= MaxAttempts + lapses` alone is not
  inductive, since a claim counts one more; its second conjunct, strict for queued
  jobs, makes it so, and `fail` re-establishes it by its comparison.
- Under `Disciplined` (no late reports, no lease longer than the one a heartbeat grants),
  with `LeaseInv`: `GrantsCorrect` (`GrantsHonoured`), the inductive core: a worker's own
  countdown never exceeds the recorded one, so the sweep cannot reclaim a job from
  within a lease. `ExclusiveCorrect` (`ExclusiveClaims`), `SettledCorrect` (`SettledForGood`) and
  `QueueImplementsExclusiveWork` follow.

**Outbox** (`RuntimeProofs`), with `RelayInv`: everything before the entry a drain is at has
been marked or is still in its list (`DrainsSound`), and what is marked was answered by
every reader that wants it (`MarkedAnswered`). `RelayTypes`; `RelayImplementsFeed`: any
number of overlapping and failing drains implements `OrderedFeed`.

**Capacity gate** (`RuntimeProofs`), with `GateInv`: the types, what classes below P0 hold in
all (`GeneralBounded`), and what each tenant holds of it (`TenantBounded`). `GateTypes`,
`TenantBoundedCorrect`, and `ReserveCorrect` (`ReserveRunnable`), which follows as a request
that fits the reserve fits what the general part leaves. A request is tried one
dimension after the other on reservations that change as it evicts: `TriedSteps` gives
what each round starts from, and `TrialOK` is what holds after it. Releases and
evictions renumber the reservations; that a sum over their places stays what it was,
or loses what went, is `TotalMoved` (a sum does not depend on the names of what is
summed) with the numbering of what stays.

**Workflows** (`WorkflowProofs`), for slow calls as well. `StepShape` first shows that
every step is a crash, a tick, or one call that drops out, creates, claims, moves, or
saves what it made of its own copy; the theorems argue over these instead of over the
fourteen actions.

- `TypeCorrect`; `CopiesCorrect` (`CopiesAreCurrent`), which needs `PassesSane`: were a call at
  work on a workflow that does not exist, creating it would put version 0 back under
  the call's copy.
- `CompletedCorrect` (`CompletedStays`): a save that is not refused starts from the stored
  steps, by `CopiesAreCurrent`, and none of the saves forgets a complete step.
- Under `NoSweeps` (no call is a sweep): `TerminalCorrect` (`TerminalStays`) and `HonestCorrect`
  (`HonestOutcome`), since a call then works only on a record it saw running.
- Under `CallsInTime` (no call outlasts its lease, and no two are of one instance, as the lease
  is of an instance and does not keep its own calls apart): `LeaseImplementsExclusive`,
  that the claims implement `ExclusiveWork`, and `EffectsCorrect` (`EffectsMatchRecord`). The
  invariant is `Held`, the copy of a call at work is the stored record, under its own
  live claim; with it the world is as the record says but for the step of the one call
  that ran or undid it and has not saved that (`Performed`).

**Consensus** (`CoordinationProofs`), with `ConsensusInv`: a replica has seen the epochs it voted
in and voted once in each (`Promised`); what is committed has a quorum of votes
(`Founded`). `QuorumsMeet`: two majorities of a finite set have a member in common.
`ConsensusTypes`, `ActiveCorrect`, `ConsensusImplementsTopology`.

**Stock** (`StockProofs`), with `StockInv`: who has the current version has the current position
(`SeenInv`), a hold is in the store when its call is over (`PlaceInv`).

- `StockTypes`; `OneHoldCorrect` (`OneHoldPerOperation`) if calls of one operation are served by
  one process (`OneProcessEach`): two processes may both find no hold and both make one.
  Its invariant says that the second is not under way before the first is over.
- Under `SettledInTurn` (settlements of one hold do not overlap, and the processes that
  settle do not crash): `LedgerCorrect` (`LedgerExact`) and `StockImplementsAtomic`. The version
  that a save compares makes what was read true when it is written, and the sums move by
  one quantity (`TotalAdd`, `TotalTaken`).

**EventIQ** (`CoordinationProofs`), with `EventInv`: no message twice in the log, and what is attempted
was accepted, wanted and subscribed for (`AttemptInv`).

- `EventTypes`, `OnceAcceptedCorrect` (`OnceAccepted`), for any answers and with dead letters
  sent again: what was acknowledged is in the inbox of its group.
- Of `ConsumerSpec`, under `InTurn` (each group is one subscription, whose consumer answers
  in the order of the log): `NoLossCorrect`, `RetryCorrect` (`RetryReachable`) and `FifoCorrect`
  (`FifoWithinKey`). The invariant: what is open is ahead of the checkpoint (`OpenAhead`), and
  polls of an unordered subscription leave no gaps (`NoGaps`).

**Ledger** (`FinanceProofs`), with `LedgerInv`: what is known of a call from what it has read
(`CallsSound`): its key is in none of the entries of the version it read. `LedgerTypes`,
`MarksCorrect` (`MarkedIsReversed`), `LedgerImplementsJournal`: an append that succeeds is of the
version that was read, so that its key is new.

**Period close** (`FinanceProofs`), with `CloseInv`: a completed task was completed after its
predecessors, which stay settled; a signed-off close has its blocking tasks completed, none waived.
`CloseTypes`, `DecisionsCorrect` (`OneDecisionOneItem`, which no run repeats), `SignOffCorrect`
(`SignedOffIsDone`).

**Cash** (`FinanceProofs`), with `CashInv`: under the key of an explicit command's fact is that
fact (`EntriesTrue`), and what a call has passed is in the journal (`PassedTaken`).
`ConvergenceCorrect` (`CommandsConverge`): a key names one fact of one command, and the store
refuses a key that was taken after it was asked for. With `AmountsInv` also `CashTypes` and
`AmountsCorrect` (`AmountsWithin`), for commands without negative amounts, in two halves.
However calls race: by induction over the
journal, what is open of an item and the applications to it that stand come to no more than
its document (`Covered`, `ReplayCovered`), since a reversal takes away exactly one that stood
(`ReversedCovered`). If calls are made one at a time and name an item once: what the call at work has left to append
is there to be taken (`Affordable`), because it has the last number, so that its entry is the
last of the replay (`AppendKeeps`), and because whatever the matchers find are different items
within the receipt (`BuiltTargets`, `AcceptedAffordable`).

**Work orders** (`BusinessProofs`).

- With `IntakeInv`: whoever appends, has appended or was answered goes by the claim of its
  key (`ByTheClaim`), and a claim is made once. `IntakeTypes`, `OneOrderCorrect` (`OneOrderPerKey`).
- With `FloorInv`: what is cached, and what a get started from, is the replay of the first
  events (`CacheSound`, `ReadsSound`); a caller's snapshot says of no step more than the log
  does (`ViewsSound`, `Backed`). `FloorTypes`, `CacheCorrect` (`CacheIsAReplay`), `DependenciesCorrect`
  (`DependenciesFirst`). They rest on what the fold computes: a replay goes on where another
  ended (`FoldedOn`), depends on nothing after its end (`FoldedPrefix`), and of a log in order
  gives a summary the log backs (`ReplaySound`), each by induction on the number of events.

**Foundry** (`FoundryProofs`).

- `MissionsStayDisjoint` (`MissionsDisjoint`), of `ScheduledSpec`: what runs and what is offered, taken
  together, share no component (`Apart`).
- `TerminationRecordsAgree` (`RecordsAgree`), of `SupervisedSpec`, if nothing happens to a mission
  while Governance is asked about it: an agent that was spawned has a mission that was
  begun (`BegunInv`), and what is begun and asked about is not authorized again (`AskedInv`).

**Breaker** (`RuntimeProofs`). `BreakerTypes`: a transition begins both counts anew, so that
the successes of a half-open circuit stay below the threshold that closes it.

**The parts side by side.** The passing runs check a part as one of several in an MC
module. What is proved of a part holds of the whole, and so of what the run checks:

- `BusinessOfParts`, `RuntimeOfParts`, `CoordinationOfParts`: a behaviour of the whole is a behaviour
  of each part. A step moves one part, and is a step of it (`StepOfOnePart`, `RuntimeStep`),
  although the MC module narrows some parts to bound its run. In `Runtime` the queue with
  punctual workers is a case of the one with slow workers (`PunctualSteps`); this and what
  follows from it assume `SlowWorkers` and `1 \in Backoffs`, as in the run.
- `BusinessTypesCorrect`, `RuntimeTypesCorrect`, `CoordinationTypesCorrect`: the conjunction of the
  type invariants, which the runs check.
- `BusinessCorrect`, `RuntimeCorrect`, `CoordinationCorrect`: every other safety property of those runs,
  with the premises that its parts need (`Disciplined`; `NoSweeps`, `SettledInTurn` and
  `OneProcessEach`), which the runs' constants satisfy.
- `TimelyEffectsCorrect` (`TimelyEffects`) and `TimelyClaimsCorrect` (`TimelyExclusiveWork`), of the workflow
  whose calls end in time: `WorkflowProofs` is instantiated as the workflow is, its assumptions
  are proved of the substituted constants (`TimelyAssumption`, `TimelyInTime`), and the two
  instances are the same definition by definition (`TimelySteps`). They need that the three
  instances are different ones, which `MCPrimeWorkflow` assumes.

Foundry's parts share the missions, so that its whole has an invariant of its own
(`FoundryInv`): those of scheduler and supervision, and that where missions are scheduled no
agent was spawned. This is what makes a release harmless, which puts a mission back
under agents and records that would contradict it (`SchedulerLeavesMissions`).
`FoundryTypesCorrect` (`FoundryTypes`), with `SpawnedBounded`, that the list of agents is no longer
than there are agents; `FoundryCorrect` (`MissionsDisjoint`, `RecordsAgree`).

**Lemmas** (`TotalsProofs`). Sums: `TotalUnion`, `TotalAdd`, `TotalTaken`, `TotalMoved`. A theorem
that takes an operator as a parameter cannot be cited in these proofs; sets serve instead:
`NatSetInduction` and `SubsetInduction` say that a set that has 0 and with each number the
next has them all, and likewise for the subsets of a finite set. Induction over recursive
functions (`Tried`, `Folded`, `Replayed`, `TotalOf`) is done with them.

**Only model-checked.** Liveness (`PunctualJobsSettle`, `EverythingPublished`, `Recovers`,
`EventuallySettled`, `TimelyOver`, `NoneStarves`, `OverdueStopped`) stays with TLC: its proofs need
reasoning about ENABLED that the proof system does not support. Every safety property
that a passing run checks is proved. That the runs' constants satisfy the theorems'
premises is read off the .cfg files.

## 6. Not modelled

The rows of section 1 whose last column says no. Webhooks, instance admission,
continuity, the coordinator, PayablesIQ's settlements and the services are small and were read; what they do on
races is in section 4. SentinelIQ, AuditIQ, governance proposals and rollouts are driven
by one caller at a time. The rest is calculation, parsing, nesting, vision, schemas,
registries and views, which have no order to get wrong and whose substance is numbers
or text, and everything that needs a real broker, database or clock. Most of the
repository's lines are of this last kind, which is why the modelled lines are a small
part of all.

## 7. Plan

What is left, in this order:

1. Models of continuity mode, webhooks, PayablesIQ's settlements and the rollout, should a
   run have room.
2. One instance of `MCFoundry` instead of the agents' and the missions' two, in
   which missions are released under agents that worked on them: this needs ids that are
   not used again.
