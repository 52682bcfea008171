# A verification project for Salesforce AI Company

Salesforce AI Company is an MCP server in TypeScript: some two hundred tools for
Salesforce development, a multi-agent chat orchestration, an approval queue for
resources the system proposes to itself, and the machinery under them (Postgres,
pg-boss, timers, LLM providers). This directory holds TLA+ models of the parts
whose state outlives a function call and is touched by several actors, the TLC
configurations that check them, and TLAPS proofs about them.

Run, from this directory, `tlc -config X.cfg MCx` for a row of the table of runs and
`tlapm XProofs.tla` for the proofs of a module. `PROJECT.json` lists components, runs,
hazards, findings and theorems, and maps every definition to source lines. All
paths below are relative to the repository.

## 1. Inventory

The server is one Node.js process per instance. Code between two `await`s runs
without interruption; several tool calls are under way at once and interleave at
their awaits; several instances, and scripts, may share one Postgres database.

### The parts that are modelled

| Part | State it keeps | Operations | What is hard | What makes it correct |
|---|---|---|---|---|
| **File proposal queue** `mcp/core/resource/proposal/queue.ts` | one JSON file per proposal, in `pending/`, `approved/` or `rejected/` | enqueue, direct approve and reject, approve and reject a stage | the process dying within a write, or between the write of the target and the unlink; an unlink whose error is swallowed; separation of duties over padded names | stages in order, decided once, nothing approved unaccounted for, no pending file dropped before its decision is on disk |
| **Postgres proposal queue** `pg-boss-proposal-queue.ts`, same directory | a row per proposal, a pg-boss job announcing it | the same, each a chain of awaited statements | a decision computed from a row read earlier; the UPDATE of `moveProposal` without a condition; reconnecting in the middle of an enqueue | every row is one that some sequence of decisions produces; a decision is not reopened; jobs and rows agree |
| **Bulkhead** `mcp/core/reliability/bulkhead.ts` | a counter of running calls, a FIFO of waiters | `execute` | a woken waiter takes its slot in a later job of the event loop | the counter is exact, the queue is bounded, no slot is lost, first come first served, nobody waits for ever |
| **Circuit breaker** `mcp/core/reliability/circuit-breaker.ts` | circuit state, sliding window, opening time, half-open successes | `execute`, `currentState`, `reset` | overlapping calls whose results come in when the circuit has moved on | it opens on evidence, closes on trials that all succeeded, and never stays open for ever |
| **Outbox and dispatchers** `mcp/infrastructure/outbox/pgboss-outbox.ts`, `mcp/surface/bootstrap/bootstrap-outbox-dispatcher.ts`, `mcp/core/reliability/leader-election.ts` | the table of messages, the advisory lock, what a transaction has sent | enqueue, dispatch (lock rows, send, note, commit), leader election by timer | sends that a rollback cannot take back, lost answers, a lost leadership, tools that dispatch without election | what is marked dispatched was sent, what is sent twice has a fault to show for it, nothing waits for ever |
| **Chat orchestration session** `mcp/core/application/chat/services/`, `mcp/infrastructure/workflow/` | the queue of agents, kept four times: live object, session store, queue store, step records | `dequeue_next_agent`, `evaluate_triggers`, save, restore, restart | awaits between the four updates with no lock on the session; restarts | no agent handed out twice, none forgotten, the four copies agree between calls |
| **Proposal application** `mcp/core/application/governance/services/proposal-queue-apply-operations.ts`, `mcp/core/resource/proposal/applier.ts`, `auto-create-gate.ts` | resource files; the number of approvals of the day, counted once per run | approve, apply, automatic run over the pending ones | the resource is written some awaits before the proposal is approved; the count of the day is used over a loop of awaits, over midnight too | no resource of a pending proposal is left behind; nobody's automatic runs exceed the daily limit; the store stays the abstract queue |
| **Disabled tools** `mcp/core/governance/governance-state-manager.ts`, `governance-event-automation.ts`, `disabled-tools-cache.ts` | one row of state for all instances, with the list and the settings of automation; a copy of the list in each | edits by tools and by automation, refresh by notification, timer and check | load and save without a lock from one to the other; notifications that are lost or meet a refresh under way; a failed load empties the copy | every copy comes to agree with the row; a reported tool does get switched off unless the settings spare it |
| **Governed calls and cost** `mcp/core/governance/governed-tool-registrar.ts`, `cost-budget.ts`, `mcp/core/persistence/atomic-file.ts`, `mcp/core/event/system-event-manager.ts` | the cost ledger (a file), the table `cost_ledger`, failures of the last ten minutes | checks, budget, tool with retries, row and charge, failure report | the budget is checked before the tool with an estimate and charged after it by the output, by a read and a write of the file; the charge is inside the `try` of the tool, behind a row that stays when it fails | the file charges a call once; every further row has a failed append to show for it; the overspending is bounded; every call ends |
| **Audit chain** `mcp/core/audit/audit-writer.ts`, `hash-chain.ts`, `mcp/core/persistence/postgres-tenant-context.ts` | rows that name the hash of the row before | append, verify | appends that wait for each other's row lock; rollbacks that leave gaps; row level security per tenant | a link is broken only where appends overlapped |

How they interact: the proposal queues are two implementations behind one port
(`createProposalQueueStore` chooses by configuration) and build the same records.
Provider calls go through a bulkhead around a circuit breaker
(`mcp/core/llm/langchain-llm.ts`). The outbox hands messages to pg-boss, whose
jobs the announcing of proposals and the Postgres queue store of the orchestration
use too. The orchestration calls the session store, the queue store and the
workflow engine in that order within one tool call. Every tool call passes the
governed handler, which asks the copy of the disabled tools, the budget and the
rate limit, and reports failures to the event automation, which edits the row of
the governance state. Applying a proposal is a caller of the proposal queue.

### The parts that are not modelled

Each has an entry with its reason in `PROJECT.json`. The ones a later module
should cover: the **model registry**, the **event dispatcher**, **LLM calls** as
the composition of bulkhead and breaker, the **DAG engine**, saga compensation,
rate limits. Out of reach:
numerical learning and bandits (reals), vectors and memory (external stores and
similarity), text assembly, parsers of Apex and metadata, cryptography, exporters,
Temporal (its guarantees are outside the repository), start-up and transport
(wiring), and the some two hundred tools, nearly all of them stateless analyses.
The **event store** cannot be modelled as working code: `append` runs `SELECT
MAX(version) ... FOR UPDATE` (`postgres-event-store.ts:214`), which Postgres
refuses for an aggregate.

The models cover a small share of the lines of the repository. By far the most of
its code is analysers, tools that answer from their arguments, text and prompts,
configuration, adapters and exporters: code without state that two actors share,
of which a model would only repeat the text. The other fields of the governance
row (usage, bug counts, limits) are written like the list of disabled tools and
are left out for that reason.

## 2. Modules

```
ProposalRecords            records and rules of a proposal (both stores)
  |- FileProposalQueue  --implements-->  ProposalLifecycle   (no faults)
  |    '- ProposalApply --implements-->  ProposalLifecycle   (no faults; extends the store)
  '- PgBossProposalQueue --implements--> ProposalLifecycle   (one caller)
Bulkhead    CircuitBreaker    Outbox    Orchestration
DisabledTools    GovernedTool    AuditChain
MC<module>                 instance for TLC: values of constants, symmetry

ProposalRecordsProofs      lemmas about records, used by the next two
ProposalApplyProofs        FileProposalQueue and ProposalApply
PgBossProposalQueueProofs  PgBossProposalQueue
ReliabilityProofs          Bulkhead and CircuitBreaker
OutboxProofs               Outbox
OrchestrationProofs        Orchestration
GovernanceProofs           GovernedTool and DisabledTools
AuditChainProofs           AuditChain
```

`Bulkhead` and `DisabledTools` have names of their own for what other modules call
`Init`, `Next`, `Spec` and `TypeOK` (`BulkheadInit`, `ToolsInit`, ...), so that one
module can speak of each together with the component next to it.

No module declares a RECURSIVE operator: where the code loops over a list the
models use the folds of the community modules. A definition headed "Faulty
variant" is a plausible mistake in the definition that follows it; no action uses
it, and the mutation runs put it in that definition's place to show that a
property can tell the difference.

### ProposalRecords
`NewRecord` is `buildProposal`, `DirectlyApproved`, `DirectlyRejected`,
`StageApproved`, `StageRejected` are what `approveProposal`, `rejectProposal`,
`approveProposalStage`, `rejectProposalStage` write, and `MayDecideStage` with
`SodConflict` is what they check first (`enforceSod`). The check compares the
trimmed actor with the creator and with the first reviewer, while the history
keeps the actor as it was passed: `Spellings` and `Trim` keep that apart, so a
conversion that is not the identity is in the model. `relaxed` stands for the note
`[SOD_RELAX_FOR_DEV]` in an entry's comment. Names, content, confidence, time
stamps, reasons are left out.

### ProposalLifecycle
The promise of a proposal queue: submitted once, stages in order, decided once,
the decision final. Both stores have it as a refinement mapping (`fileDecision`,
`filePassed`; the status and completed stages of a row).

### FileProposalQueue
One variable per directory, a function from ids to files; a file is a record,
`Absent` or `Torn`. All file calls are synchronous, so an operation is one step,
with the faults inside it chosen by `WriteOutcomes` (the process dies within
the write) and `LeftPending` (the unlink fails, is swallowed at `queue.ts:443`, or
is never reached). `Faults` switches each kind on.

### PgBossProposalQueue
One step per awaited statement: `CallEnqueue, InsertRow, SendJob, RecordJob`;
`RequirePending` (the SELECT with the checks and the new record computed from it),
then `UpdatePending` (`AND status = 'pending'`) or `MoveProposal` (no condition),
then `DeleteJob`. `PoolEnded` is `withRetry`: the whole operation again under a
new id, once. `Crash` ends a caller anywhere.

### Bulkhead
`execute` is split where it awaits. `Finish` lowers `running` and resolves the
promise of the first waiter, which is then *woken*: its slot is not counted until
`Resume`, and `Enter` may come between. `Idle` is the event loop without work.
`arrivals` is a history variable: the calls that had to wait, in the order in which
they came. The code does not have it, and nothing is taken from it.

### CircuitBreaker
`Call` is `execute` to its await, with the call remembering in what state it was
let through; `Succeed` and `Fail` record the result in whatever state the circuit
is by then. `Look` is `maybeTransitionToHalfOpen`, called by `Call` and by the
getter (`CurrentState`). Of time only the one comparison is kept: cooling or
cooled. `healthy` is the provider, and `failures` is a history variable that the
code does not have.

### Outbox
`rows` is the committed table. A dispatch is `Start` (take the advisory lock if an
instance; a tool does not), `Select` (`FOR UPDATE SKIP LOCKED LIMIT`), then per row
`Send`, `SendFails` or `SendAnswerLost` and `Note`, then `Commit`. `Rollback` is any
failing statement, lost connection or death of the process. `LockLost`: the
session of the advisory lock ends while the leader goes on. `doubts` is a history
variable: how often a send left no trace in the row.

### Orchestration
JavaScript hands arrays around by reference, and the tools rely on it: `arrays`
holds arrays, `objects` says which array is the `session.queue` of each session
object, so that "sort a copy and assign it after an await" and "change in place"
differ as they do in the code. Each call runs through `get [cache] order [assign]
fetch take store complete [persist finish]` (dequeue), `get [cache] push
[enqueue steps] store` (evaluate), or get and one step (save, restore). `AtOnce`
lists the steps that follow the one before without an await. `Init` is what
`orchestrate_chat` leaves, the queue store filled twice included.

### ProposalApply
It extends `FileProposalQueue`: its calls act on the variables of the store by the
store's own operation `ApproveProposal`, and `OtherOperation` is any step of the
store. A call is `TakeUp` (or `CountToday`, `ListPending`, `NextInList` of an
automatic run), `CheckResource`, `WriteResource`, `Decide` or `DecideThrows`;
`NotApplied` is what each of the three kinds does when nothing was written.
`Resolve` keeps the set of approvals whose `resolvedAt` is today, and `NewDay` is
midnight. `auto` is a history variable.

### DisabledTools
`stored` is the row: its list of disabled tools, and the tools that its settings
spare, which are the protected ones, or all of them while `automation.enabled` or
`autoDisableTool` is off. `cache[i]` is the copy of the list in instance `i`. A refresh
is `StartRefresh` (by `HandleNotification` or `Tick`, and only if none is under
way), `RefreshLoad`, `RefreshSet`; the editor's own refresh (`EditorLoads`,
`EditorSets`) runs beside it. An edit loads the row (`BeginEdit`) and saves it whole
(`SaveRow`), with anything in between; it may change the list or the settings.
Automation begins with a report, looks at settings and list (`LookUp`), loads the row
again without looking at the settings (`LoadRow`), and saves. A failing query or a
lost notification is a `QueryFault`.

### GovernedTool
`pc` follows the handler of `createGovernedToolRegistrar`: `checks budget config
run backoff record append write fail report`. The refusals in front of the budget
are one step, `Check`. `CheckBudget` adds any estimate in `1..MaxEstimate` to what it
reads; `Record` makes up row and line with any charge in `1..MaxCharge`, whatever was
estimated. `MaxCharge` exists in the code: what is counted of input and output is cut
to 400 or 500 characters (`summarizeValue`, `system-event-manager.ts:50`).
Two ledgers are written. `InsertRow` is `recordCostLedger`, a row in the table whose
failure is swallowed, before every attempt to append the line. The file is the sum of
its charges; `ReadLedger` and `WriteLedger` are the two halves of
`appendTextFileAtomic`, so a write puts back what was read. `account[c]` (rows, lines,
what failed of them, and how often the tool returned), `spent` (charges written) and
`lost` (the most that were ever missing from the file) are history variables. The
model is of a server whose budget is enabled and that has a database.

### AuditChain
An append is `Begin`, `SelectLast`, `Lock`, `Insert`, then `Commit` or `Rollback`.
A `SELECT ... FOR UPDATE` chooses the last committed row it may see, waits for that
row's lock, and keeps its choice. A row names another by its id. `BrokenLinks` is
what `verifyChain` reports, and `seen` is a history variable: what was committed
when the append looked.

## 3. Runs

| Run | Instance | Distinct states | Question and answer |
|---|---|---|---|
| `file_queue_faults` | 1 proposal, torn writes and kept files | 1,241 | After any faults: files lie in the directory of their status (`TypeOK`), pending records agree with their history, approvals are accounted for, duties are separated, and no pending file goes before a decided one is readable. |
| `pg_queue_races` | 1 proposal, 3 overlapping callers, crashes | 120,858 | Rows stay well made, duties separated, job ids live, and a decision is never reopened. |
| `pg_queue_serial` | 2 proposals, 1 caller, lost connections and crashes | 74,858 | With one caller the store implements `ProposalLifecycle` and a decided row names no job. |
| `bulkhead` | 5 calls, 2 slots, 2 places | 6,387 | Exact counter and bounded queue (`BulkheadTypeOK`), no slot lost, no waiting call overtaken by a later one, every waiting call ends. |
| `bulkhead_overrun` | 3 calls, 1 slot | violation | `AtMostConcurrency` fails: see the finding. |
| `circuit_breaker` | 3 overlapping calls, window 4, minimum 3, 50 %, 2 trials | 4,670 | Consistent fields, opening on evidence and no later than at it, trials that all succeeded, recovery. |
| `outbox` | 2 messages, 2 instances, 1 tool, 2 attempts, 2 faults | 105,700 | Dispatched implies sent, repeated sends accounted for, every message settles. |
| `orchestration_serial` | 2 agents, one call at a time, durable stores, 2 trigger turns, 2 ends, 1 restart | 241,907 | One call at a time: nobody handed out twice (even over a restart), nobody forgotten, step records, stored session and live queue agree. |
| `disabled_tools` | 2 instances, 1 edit or report in each, 1 fault | 195,296 | Every copy of the list comes to agree with the row for good, whatever was lost or dropped; a reported tool does get switched off in the row unless the settings spare it or a query failed. |
| `governed_calls` | 2 callers, 3 calls, budget 2, estimates and charges of 1 or 2, 1 retry, 2 faults | 417,118 | The file charges a call once however often it is tried, and the table has a row more per failed append; overspending is bounded by a charge per caller, per failed read, and the lost lines; every call ends. |
| `proposal_apply` | 2 callers, 2 proposals of one name, limit 1, no faults | 352,920 | No resource of a pending proposal is left behind, no caller's automatic runs exceed the limit, and the file store under these calls implements `ProposalLifecycle`. |
| `audit_chain` | 3 appenders, 2 tenants, 3 rows | 409,525 | A link is reported broken only where the row before was not committed when the append looked. |

Every property of a passing run has a mutant (section "mutants" of `PROJECT.json`).

### Why the bounds are enough
- *Proposals.* Proposals do not influence each other but for fresh ids, so one
  proposal shows every race on a row; two show that an operation leaves the other
  alone and that an enqueue run again takes a new id. Three spellings of two people
  are the least for creator, reviewer and a padded name to coincide or differ. Three
  callers are the two of a lost update and one that reads in between.
- *Bulkhead.* Five calls fill two slots and two places and leave one that is
  refused or slips in before a woken waiter. The safety properties are proved
  for any numbers.
- *Circuit breaker.* The window (4) is longer than the minimum (3) so that it both
  fills and slides, and three overlapping calls bring late results of two earlier
  states at once. The safety properties are proved for any numbers.
- *Outbox.* Two messages and `Limit` 2 make a transaction with one row sent and
  one not; two attempts distinguish the first failure from the last; two faults
  are a lost lock and then a rollback, the combination that matters. `MaxFaults`
  does not count refused sends, so these are unlimited but for `MaxAttempts`.
- *Orchestration.* `MaxTurns`, `MaxEnds`, `MaxRestarts` bound the history counters,
  `MaxBatch` is how many agents one `dequeue_next_agent` may ask for. With two in a
  batch the queue may run short of what was asked for, and a batch may hold one
  agent twice. The policy's order is any of `Ranked`, the permutations sorted by rank.
  Two agents, one of whom may be asked for again, give duplicate agents in a queue,
  which is where `splice`, `markDequeued` and `completeStep` have to choose.
- *Proposal application.* Two proposals of one name compete for one resource, and
  two callers can hold the same proposal; a limit of 1 is reached by one run and
  exceeded by two together. No faults, because with a lost unlink a proposal
  may be decided again by design (`FileQueueFaults`). Proved for all sizes.
- *Disabled tools.* Two instances are the one that edits and one that hears of it;
  two edits show a save over another one's. One tool is listed or not and spared or
  not: settings that spare it, from the start or by an edit under way, are among the
  rows. With one fault each place where a query or notification can fail is tried.
  Several faults do not help: the last of them is followed by a timer that works.
- *Governed calls.* Two callers are the least to lose a line. With a budget of 2 and
  estimates and charges of 1 or 2, one call goes past the budget by its output alone,
  two by overlap, and a third after a lost line or a failed read. Two faults are an
  append that fails and then the row or the append of the retry.
- *Audit chain.* Three appenders: one that holds the lock, one that waits for it and
  one that appends in between; two tenants and none. The same run with `Bypass =
  TRUE` passes as well.

### Deadlock
It is checked except where the instance really stops: in `FileQueueFaults`,
`PgQueueRaces`, `PgQueueSerial` and `ProposalApply`, whose systems stop when every
proposal is decided (a file store has nothing to do, and ids are never used again),
and in `GovernedTool` and `AuditChain`, where the
bounds `MaxCalls` and `MaxRows` are used up.

### Fairness
- `Bulkhead`: `Resume` is weakly fair because a resolved promise is a job of the
  event loop. `Finish` is weakly fair by assumption on the providers; the code
  puts no deadline around the call, and without it `EveryCallEnds` is false.
- `CircuitBreaker`: time passes (`Cool`), callers keep calling (`Call`), and a
  *healthy* provider answers (`healthy /\ Succeed`). An unhealthy one owes nothing.
  `Recovers` speaks of a provider that has recovered for good.
- `Outbox`: time passes (`Due`), the `setInterval` of some instance starts a
  dispatch when the lock is free, and a dispatch under way goes on. Faults are not
  fair; their number is bounded, which stands for "faults stop at some time".
- `DisabledTools`: the interval timer of the cache fires again and again (`Tick`),
  and queries that were begun come back, with an answer or an error (`CacheStep`,
  `EditStep`). Notifications are not fair: they may never arrive.
- `GovernedTool`: what a call waits for comes back (`CallStep`), the tool included;
  new calls are not owed.
- The proposal stores, the audit log and the orchestration have no liveness property:
  nothing in the code makes a person decide or a client call again.

## 4. Proofs

All theorems hold for every value of the constants that satisfies the named
assumptions of the modules: trimming twice is trimming once (`TrimAssumption`),
markers are not data (`ActorAssumption`, `FileAssumption`, `StoreAssumption`), limits
are positive numbers and ids of messages natural ones (`BulkheadAssumption`,
`CircuitBreakerAssumption`, `OutboxAssumption`), the callers of the governed handler
are finitely many and `maxRetries` is at most 5 (`GovernedAssumption`), every
proposal has one name and the daily limit is a number (`ApplyAssumption`), the first
queue of a session is a sequence of agents (`OrchestrationAssumption`), every editor
runs in an instance (`DisabledAssumption`), no tenant is not a tenant
(`ChainAssumption`). What else a theorem assumes is in its statement: no faults
(`Faults = {}`), or that calls do not overlap (`OneCaller`, `OneWriter`).

Every invariant and every action property of a passing run is stated by a theorem.

| Theorem | Says |
|---|---|
| `ProposalRecordsProofs!AppendKeepsDuties` | Appending an entry that passed the check of `enforceSod` keeps a history in which duties are separated, however long. |
| `ProposalApplyProofs!QueueInvariants` | `TypeOK`, `PendingConsistent`, `ApprovalAccountedFor`, `SodRespected`, under any faults; the first three also by name, `DirectoriesWellTyped`, `PendingStaysConsistent`, `ApprovalsAccounted`. |
| `ProposalApplyProofs!RemovalFollowsDecision` | `RemovedOnlyWhenDecided`, under any faults. |
| `ProposalApplyProofs!Refinement` | Without faults the file store implements `ProposalLifecycle`. |
| `PgBossProposalQueueProofs!RowInvariants` | `TypeOK`, `RowsConsistent`, `SodRespected` for any number of concurrent callers (`RowsWellTyped`, `DutiesStaySeparated` by name). |
| `PgBossProposalQueueProofs!DecisionsStay` | `NeverReopened`, for any callers. |
| `PgBossProposalQueueProofs!JobIdsAlwaysLive` | `JobIdsLive`, for any callers. |
| `PgBossProposalQueueProofs!DecidedNeverHasJobId`, `!Refinement` | With one call at a time: `DecidedHasNoJobId`, and the Postgres store implements `ProposalLifecycle`, crashes and lost connections included. |
| `ProposalApplyProofs!ApplyIsQueue`, `!ApplyImplementsLifecycle` | The calls that apply proposals move the file store only by its own steps (under any faults), so without faults it implements `ProposalLifecycle` under them too. |
| `ProposalApplyProofs!InstalledAlwaysDecided`, `!DailyLimitAlwaysHolds` | Without faults: `InstalledIsDecided`; `DailyLimitPerCaller`. |
| `ReliabilityProofs!BulkheadInvariants`, `!CountersAgree`, `!Fifo` | `BulkheadTypeOK`, `NoSlotLost`; `FirstComeFirstServed`. |
| `ReliabilityProofs!CircuitInvariants`, `!FieldsWellTyped`, `!Evidence` | `TypeOK`, `TrialsAllSucceeded`; `OpensOnEvidence`. |
| `OutboxProofs!OutboxInvariants`, `!RowsWellTyped`, `!NoneDispatchedUnsent` | `TypeOK`, `DispatchedWasSent`, `SendsAccountedFor`, for any number of dispatchers and faults. |
| `OutboxProofs!NoRowHeldTwice` | No row is in the hands of two transactions. |
| `GovernanceProofs!TypeCorrect`, `!LedgersAlwaysAccountedFor`, `!OvershootAlwaysBounded` | `TypeOK`; `LedgersAccountedFor`; `OvershootBounded`, for any estimates and charges and any number of callers, retries, calls and faults. |
| `GovernanceProofs!ToolsWellTyped` | `ToolsTypeOK`, for any instances, editors and faults. |
| `OrchestrationProofs!WellTyped` | `TypeOK`, for any agents, however many calls overlap and wherever the server restarts. |
| `OrchestrationProofs!HandedOutAtMostOnce`, `!NoAgentForgotten`, `!CopiesAgree` | With one call at a time, for any agents, batches and restarts: `NeverTwice`; `NoneForgotten`; `RecordsAgree`. |
| `AuditChainProofs!ChainWellTyped`, `!BrokenOnlyWhereOverlapping` | `TypeOK`; `BrokenOnlyByOverlap`, for any appenders, tenants and rows, with row level security or without. |
| `AuditChainProofs!IntactWithoutOverlap` | With one append at a time `verifyChain` reports nothing, whichever appends were rolled back. |

The arguments:

- **Records.** `WellMade` says a record is pending, approved or rejected *with* all
  that goes with it. The lemmas of `ProposalRecordsProofs` show for each of the five
  ways to write a record that it is well made if the record it was computed from was
  pending and well made. Separation of duties needs an argument over the whole
  history: the first review in a history stays the first when an entry is appended.
- **File store.** `IInv` is: the directories hold files, and per proposal every
  readable file is well made and of its directory's status. A step is reduced
  (`StepShape`) to one of "writes a pending record" and "moves a record", with all
  outcomes of a fault. The refinement needs in addition `OnePlace`: without faults
  a proposal is in one directory only. This is not part of `IInv`: with faults it
  is false, a swallowed unlink leaves a file in two directories.
- **Postgres store.** The row that a decision writes was computed from one read
  earlier, so rows alone are not inductive: `RowsAndDrafts` has every *draft* well
  made as well. That a draft is computed from an outdated row does no harm, because
  a well made record overwrites another one whole. `JobsNoted` adds to `JobIdsLive` what
  a call knows between its statements: whoever is about to record a job has sent it,
  and whoever is about to delete one has decided its proposal. With one caller,
  `DraftsFit` says more, and with two it is false: the row a draft was computed from
  is still the one in the table, so the write is a step of `ProposalLifecycle`. Only
  three statements move the abstract queue (`InsertMaps`, `UpdateMaps`, `MoveMaps`).
- **Bulkhead.** `NoSlotLost` needs the counter to be exact and the calls in play to
  be finitely many (`Finite`: `Executions` itself may be infinite), or cardinalities would
  say nothing. `OneMoves` and `TwoMove` count what a step moves between statuses.
  `FirstComeFirstServed` speaks of arrivals and statuses, not of the queue.
  `QueueIsLatest` ties them: the queue is the end of the list of arrivals, in its
  order, so whoever waits stands behind nobody that came later (`LatestInOrder`).
- **Circuit breaker.** `OpensOnEvidence` speaks of the failures since the circuit
  was closed, the code looks at the window: `FailuresCounted` ties them, as long as
  the history counter is below its bound the window of a closed circuit has no more
  failures than it. `PushedWindow` says what sliding does to the window. That the
  circuit does not stay closed on a failure that is enough needs `NoneUnheeded`, the
  same of the present window, because a step that leaves the window alone keeps its
  last result.
- **Outbox.** Counting jobs is not inductive without knowing who may send what.
  `Orderly` and `Apart` say that a transaction works on pending rows, on each once,
  and on none another one holds; `Traced` is the set of messages that are dispatched
  or sent in an open transaction; `Accounts` then gives the *exact* number of jobs:
  `doubts[m]`, plus one if `m` is traced. A commit leaves `Traced` as it is, a rollback
  turns traced sends into doubts. That `NextRow` picks a row at all rests on the
  well-foundedness of the natural numbers (`LeastExists`).
- **Governed calls.** `OvershootBounded` counts the calls between the budget check
  and their charge (`InFlight`), which says nothing about the file. Two facts are
  needed besides the types: `Charges` ties what a call has written to its place, and
  `Covered` says that the file misses at most `lost` of what was spent. A call that
  passes the check therefore leaves `spent <= Limit - 1 + lost`, as an estimate is a
  unit at least, and there are no more calls in flight than callers, each of which may
  cost `MaxCharge` (`Owed`); a check that could not read the file is paid for by its
  fault (`Allowed`). A call that writes moves what it cost, and no more than
  `MaxCharge`, from owed to spent, so the sum does not grow. `Costs`, `Room`, `Blind`
  and `Paid` are the arithmetic of it. `LedgersAccountedFor` speaks of rows and lines
  together, which only agree when nothing is under way; `Balanced` says what a call has
  written at each place of the handler (`Pending`: a row ahead of its line).
- **Proposal application.** `StoreSteps` maps each step of a call to a step of the
  store or a stutter, so all theorems of the store carry over and only what is new
  needs an invariant. `ApplyInv` says: what a call has in hand was submitted and
  stays so (`Known`), hence a later enqueue cannot make its proposal pending again;
  resources are of known proposals; and an automatic run has counted at least what
  its caller approved today. `StoreMoves` is what the calls need to know of the
  store between their waits: nothing is forgotten and nothing becomes pending again.
- **Disabled tools.** `ToolsTypeOK` is inductive as it stands. Of an edit the steps
  say who makes it: `EditMoves` reduces each step of an editor to its new entry.
- **Orchestration, types.** `TypeOK` says nothing of what a call carries from one
  wait to the next. `Sound` does: an object, an array and a step index that exist. As
  nothing but a restart, which ends every call, takes them away (`Keeps`), it is
  inductive however calls overlap (`IInv`).
- **Orchestration, one call at a time.** The properties count agents, so `SerialInv`
  is an account. An agent put in the queue was handed out, is in the hands of the
  call (`Running`, `Done`) or waits (`Waiting`); `Balance` says that these are never
  more than were put in, nor less until a restart, and that what is handed out and
  what the session store would bring back are not more either: this is why a restart
  does not hand out an agent twice. `StepsTell` says it once more of the step
  records. `Places` and `Stores` say where a call may be and where the stores are
  level with the session, the restarts between any two steps included.
- **Orchestration, lists.** `Count` is a cardinality; `CountConcat`, `RemoveFirstCounts`
  and their kind say what each operation on a list does to it. The code's loops over a
  batch are folds. What a fold returns is not proved by induction, which is out
  of the prover's reach, but by a least counterexample: `FoldChain` gives the fold
  as a function of how many elements it has passed, and the set of numbers
  for which the claim fails has no least element (`LeastExists`, `GoesOn`).
- **Audit chain.** `BrokenOnlyByOverlap` speaks of rows whose append is over. `Held`
  says of an append under way, and `Linked` of every row, that what it saw is still
  committed and what it names is the last of it: commits only add to what is
  visible, and rows get ascending ids. The row before a row is the last of a larger
  set; if it was seen, the two agree (`SeenIsNamed`). Without overlap every append
  has seen all there is (`Abreast`), so no link is broken.

**Only model-checked.** Liveness (`EveryCallEnds` of calls through the bulkhead and
of governed calls, `Recovers`, `Settles`, `CacheSettles`, `ReportsLand`) rests on
fairness and ENABLED, which are beyond the prover. The assumption of one call at a
time is needed where it is made: TLC refutes `NeverTwice`, `NoneForgotten` and
`RecordsAgree` with two callers without a restart, and `DecidedHasNoJobId` and the
refinement of the Postgres store in the instance of `pg_queue_races`.

## 5. Findings

**One call too many runs** (`bulkhead.ts:62`, `bulkhead_overrun`). A call that
finishes lowers the counter before the waiter it wakes has raised it; a call made
in between enters, and so does the waiter.

What the models also show. The first three were seen as counterexamples of
properties that are not kept as runs; the rest follow from the definitions named.

- `pg-boss-proposal-queue.ts:598`: the `UPDATE ... WHERE id` of `moveProposal` has no
  condition on the status. Two callers that read a pending row both write their
  decision, the second one wins and both are told they succeeded. `NeverReopened`
  and `RowsConsistent` are what still holds.
- `circuit-breaker.ts:154-155`: the comments say that the circuit opens when the rate
  *exceeds* the threshold ("失敗率が threshold を超えると", `:7`; "これを超えると open
  になる", `:19`), and that it does not open at the minimum number of calls or below
  ("これ以下では open にしない", `:21`). The code compares with `>=` and `<`: at a rate
  equal to the threshold, in exactly the minimum of calls, it opens. The model follows
  the code, and `OpensOnEvidence` states the boundary as the code has it, from both
  sides; the reading of the comments is the variant `OpensAbove`, which violates it.
- `circuit-breaker.ts:86`: "only one" says the comment above, but the branch has no
  count of trials under way, so a half-open circuit lets every call through.
  `TrialsAllSucceeded` is what its counter still means.
- `chat-orchestration-dequeue-tool.ts:76`: each dequeue refills the queue store from
  the session before it takes from it, and the session is cut only later. Two
  overlapping calls on one session are given the same agent; `NeverTwice` is checked
  for calls one at a time.
- `governance-state-manager.ts:164-206`: the advisory lock covers a load and a save
  each, not both, so a save puts back a list from before another edit and may enable
  a tool that was just disabled. `ReportsLand` says that a report reaches the row, not
  that the tool stays off. It may also save settings from before a change that
  switched the automation off, and `setToolDisabledState` does not look at the settings
  again, so a tool may be switched off that was just protected. A failed load leaves an empty copy: until the next refresh
  no tool is off in that instance.
- `governed-tool-registrar.ts:741-754` checks the budget with an estimate, the input
  and `outputTokenRatio` times it, and `:856-883` charges by the output: a single call
  with a large output exceeds the budget without any overlap or fault.
  `cost-budget.ts`: a ledger that cannot be read counts as empty, and overlapping
  calls lose each other's lines, which lets later calls pass. `OvershootBounded` has
  a term for each of the three.
- `governed-tool-registrar.ts:871`: if the charge fails after the tool succeeded, the
  error may be taken for a retryable one, and the tool runs again. The row of the first
  attempt, inserted at `:862`, stays, and the call gets another one (`:862` or
  `:967`): the table `cost_ledger` may hold several rows for a call that the file
  charges once, or, when the append of the error fails as well, not at all.
  `LedgersAccountedFor` says how many.
- `proposal-queue-apply-operations.ts:252`: a proposal that is rejected while a call
  applies it leaves its resource installed, and the call then throws. A process that
  dies there leaves one of a pending proposal (crashes are not in `ProposalApply`).
  `approve_proposal` approves also when the resource could not be written.
- `:312`: overlapping automatic runs together may exceed `maxPerDay`, up to the limit
  times the callers.
- `audit-writer.ts:108`: `FOR UPDATE` does not prevent concurrent inserts. The one that
  waits takes the row it chose and not the one inserted meanwhile, and an empty table
  locks nothing: both link to the same row. `BrokenOnlyByOverlap` is what holds.
- `audit-writer.ts:247`: without a tenant, `verifyChain` sees the rows of all tenants, each of
  which names the last one *its* tenant saw: it reports breaks where tenants alternate.
  It takes the oldest rows up to its limit (`:253`, `ORDER BY id ASC`), not the most
  recent ones of its comment (`:244`).
- `queue.ts:443` swallows a failed unlink. A decided proposal is then pending as
  well and may be decided again; `ApprovalAccountedFor` and `SodRespected` still hold.
- `queue.ts:220` compares the trimmed actor with a reviewer's name stored as it was
  passed: a reviewer whose name was passed padded may pass the admin stage under the
  trimmed one. `DutiesSeparated` states what the check does guarantee.
- `circuit-breaker.ts:137`: results of calls from before the circuit opened count in
  the trial period. Successes fill the window without an evaluation
  (`:125-133`), so a closed circuit may have a failing rate until the next failure.
- `pgboss-outbox.ts:206`: a rollback after `boss.send` sends again: at least once,
  as `docs/reviews/persistent-ai-runtime-task-list.md:80` has it. `SendsAccountedFor` is the exact bound.
- The policy sorts the queue after the graph recommendation put its agent first
  (`chat-orchestration-dequeue-tool.ts:72`), and the order is the policy's alone.
- The session is finalized and `session_end` emitted before the last agent speaks
  (`:107`). A session finalized while `evaluate_triggers` is at work loses the agents
  it adds (`chat-orchestration-dequeue.ts:82`), so `NoneForgotten` is stated, and
  checked, for calls one at a time.

## 6. Abstractions and limits

- A write to a store takes effect when it is issued; a failing read or write is a
  fault only where a model says so. In `Orchestration` store failures are left out
  but for restarts; `replace` of the Postgres queue store, which sends the jobs one
  by one, is one step; marking the steps and cutting the queue is one step.
- After a restart the queue store may hold agents from before, and the live queue
  comes from the session store: `NoneForgotten` and the step records of
  `RecordsAgree` exclude restarts, `NeverTwice` does not.
- Postgres is modelled from its use: committed rows, row locks that are skipped,
  an advisory lock that dies with its connection.
- One tenant, one session, one bulkhead, one breaker: the code keeps a map of them
  and the entries share nothing.
- In `GovernedTool` tokens and dollars are one unit, and the limits of the budget
  per day, actor, tenant and session are one limit over one period (the day does not
  end); a retryable error is a choice, not a matter of its text; waits have no length.
  The bound `MaxEstimate` only keeps the run finite; the proofs hold for any.
- In `DisabledTools` each editor edits once; the instances have loaded the list at
  start-up; no tool is protected by the defaults of the code alone. The automation of
  `governance_threshold_exceeded` (`governance-event-automation.ts:108-143`), a loop of
  `setToolDisabledState` over recommended tools, is left out.
- In `AuditChain` a hash is the row it is of: that two rows have different hashes is
  assumed, and tombstones, which clear a payload and keep the hashes, change nothing.

## 7. Plan

Done: proposal records and both stores, proposal application, bulkhead, circuit
breaker, outbox, orchestration, governed calls, disabled tools and the audit chain,
each model-checked, and every safety property of theirs proved. Next, in order of
weight:

1. **Orchestration with overlapping calls**: what is still true of how often an agent
   is handed out, as a function of how many calls overlap.
2. **Outbox**: an abstract queue of messages delivered at least once, which the
   dispatchers implement.
3. **LlmCall**: bulkhead and breaker composed as `langchain-llm.ts` does.
4. **ModelRegistry** (shadow evaluations that outlive a promotion) and
   **EventDispatcher** (failures of overlapping emissions).
5. The DAG engine as an operator checked against reachability; saga compensation.
