# TLA+ verification of adaq

adaq is a desktop application (Tauri host in Rust, React frontend) for quantitative
research and paper trading: market data, Python factor and model research, backtests,
and Bots that trade on an OKX Demo account. This directory holds TLA+ models of its
stateful cores, TLC configurations that check them on small instances, and proofs that
TLAPS checks for every value of the constants.

Seven parts are modelled: the **paper ledger**; **paper trading** on the shared account
(with the order journal, the execution gate, reconciliation, freeze and restart); the
**Research Queue** with the Python research attempts it serves; the **trade bridge** that
feeds the Bots; the **lifecycle of the Bots** over their store and their Worker processes;
the **Paper Experiment** that launches and stops Bots together; and the **generation of
datasets** with the resets that delete them. The rest is in the inventory and the plan
below.

All paths are relative to `src-tauri/` of the repository unless they start with `docs/`.

## How to run

    tlc -workers 2 -config TradingSerial.cfg MCPaperTrading.tla     # any run below
    tlapm PaperTradingProofs.tla                                    # any proofs module

The runs are those of `PROJECT.json`. Seven more configurations reproduce, in a second each,
what the code does against its own documents and no run promises: `TradingForgets`,
`TradingFreeze`, `TradingCancel` (of `MCPaperTrading`), `ResearchReset` (of `MCResearchQueue`),
`TradeBridgeOverlap` (of `MCTradeBridge`), `DatasetTwoResets` and `DatasetCrash` (of
`MCDatasetGeneration`). TLC ends each with a violation of the one property it names; they
have the smallest budgets that show it, and the observations below say what it means.

| module | models or proves |
|---|---|
| `PaperLedgerOps` | operations on one account's ledger, as functions of a ledger value |
| `PaperLedger` | the ledger as a state machine, both markets; its properties |
| `PaperExecutionOps` | the order journal, uncertainty and the blocked flag as functions of a value |
| `PaperTrading` | threads, commands, database row, order gate, freeze alert, provider, restart |
| `ResearchAttemptOps` | transitions of one research attempt and of the attempt store |
| `ResearchQueue` | admission, journal, worker, waiters, cancellation, reset, shutdown, restart |
| `AttemptLine` | abstract specification: one line of attempts for the whole device |
| `TradeBridge` | trade streams of the Bots, the dispatch queue and its drain loop, the clock |
| `BotLifecycle` | Bots, attempts, leases and Workers: commands, monitor, pause, freeze, restart |
| `PaperExperiment` | experiments: launch, arming, refresh, stop, report, over their Bots |
| `DatasetGeneration` | generation attempts, dataset files and rows, cancellation, resets, restart |
| `MCPaperLedger`, `MCPaperTrading`, `MCResearchQueue`, `MCTradeBridge`, `MCBotLifecycle`, `MCPaperExperiment`, `MCDatasetGeneration` | constants for TLC |
| `SumTheorems` | theorems about sums over finite sets, used by the proofs about the ledger |
| `PaperLedgerProofs`, `PaperTradingProofs`, `ResearchQueueProofs`, `BotLifecycleProofs`, `PaperExperimentProofs`, `DatasetGenerationProofs`, `TradeBridgeProofs` | theorems |

`PaperTrading` uses the operators of `PaperLedgerOps` and `PaperExecutionOps`, so the
ledger the commands change is the same one `PaperLedger` checks alone with finer data.
The three Bot modules meet at the control lock of the Bot store: `BotLifecycle` has what
happens under it and around it, step by step; `PaperExperiment` and `TradeBridge` see a
Bot as `BotLifecycle` leaves it between commands (up or down, faulted, running) and add
what the experiment and the stream do with it. `PaperTrading` has the Bot's order, and
the alert that all of them ask.

## Inventory

What each component keeps, does, and must get right. Status is in `PROJECT.json`.

**Paper ledger** (`crates/adaq-paper-trading-core/src/lib.rs`). *State:* cash, reserved
cash, positions (total and sellable), orders, fills, reconciliation state. *Operations:*
submit, fill, cancel, reinstate, import or update a provider order, sweep missing orders,
reconcile a snapshot. *Hard:* partial fills at the remaining quantity, fees nobody
reserves, T+1 settlement, an order cancelled and then seen again. *Correct when* cash,
positions and reservations are always explained by orders and retained fills.

**Paper execution gate** (same crate). *State:* operations by client id with outcome
(unknown, accepted, rejected, uncertain) and identities, the account's Risk Policy, the
blocked flag. *Correct when* an unknown outcome blocks new risk and no operation is begun
twice.

**Paper trading store and order commands** (`src/paper_trading.rs`, `src/lib.rs`,
`src/paper_order_dispatch.rs`). *State:* one database row per account (ledger and gate
together), a pending-reconciliation row, the set of accounts restarted since start-up.
*Operations:* submit (user or Bot), cancel, sync, reconcile in phases, freeze,
acknowledge, recover, prove absence. *Interactions:* each calls the provider between two
store steps; each store step loads the row, changes the copy and saves it; only some
take `order_gate`. *Hard:* everything between two steps: lost answers, orders that change
while being listed, stale copies, a crash. *Correct when* no order is forgotten, sent
twice, or ended without evidence, and no risk is added while something is unknown.

**New-risk gate and safety freeze** (`src/new_risk_gate.rs`, `src/operations.rs`).
*State:* append-only events, alerts, health dimensions. Only the Host freeze alert and
the question "is an alert unresolved" are modelled, inside `PaperTrading` and
`BotLifecycle`, and the window of an experiment inside `PaperExperiment`.

**OKX Demo connection** (`src/connections`). Modelled as an unreliable provider.

**Research Queue** (`src/research_queue.rs`). *State:* durable journal of entries
(admitted or tombstone) in sequence, a signal with a shutdown flag, registered adapters.
*Operations:* attach, admit, wake, next entry, dispatch, tombstone, retry later,
shutdown. *Hard:* wake-ups against sleep, admission against shutdown and crash, an entry
whose adapter is not there. *Correct when* the device serves one attempt at a time, in
order, each at most once, and forgets none.

**Python research attempts** (`crates/adaq-python-research/src/runner.rs`,
`src/python_research/mod.rs`). *State:* the attempt store, completed results, users under
reset. *Operations:* start (coalescing with an active attempt at the same execution),
retry, cancel, execute, complete, fail, recover, wait for the result, reset. *Hard:*
cancellation against completion, reset against late results and against calls that go
around its barrier, two callers that share one attempt.

**Feature and Factor adapters** (`src/features/runner.rs`, `src/factor_research/mod.rs`).
The same queue protocol over stores of their own.

**Trade bridge** (`src/trade_bridge.rs`). *State:* a stream per user with its instrument
codes, a queue per user with the latest trade of each instrument, whether a loop drains
it. *Operations:* refresh (after a lifecycle command), enqueue, drain, clock. *Hard:* the
loop ends while a trade is queued; the list of Bots is read before the stream is changed;
a stream task ends by itself. *Correct when* one loop drains a queue, the latest trade is
always dispatched, and every Running Bot is on the stream and on the clock.

**Bots** (`crates/adaq-bot-runtime`, `crates/adaq-bot-worker`, `src/bot_supervisor.rs`,
`src/bot_operations.rs`). *State:* the Bot store (attempt, lifecycle state, whether the
account must be reconciled, leases), and the registry of Worker processes. *Operations:*
start, retry, pause, resume, stop, decision; the monitor's poll; the host's pause;
Freeze All and its recovery; restart. *Interactions:* commands hold the control lock and
move both stores one after the other; the monitor, the pause and the end of Freeze All do
not hold it. *Hard:* one store written and the other not, a fault that is late or cannot
be written, a freeze in the middle of a start, a crash anywhere. *Correct when* the two
stores agree at rest, an ended attempt stays ended, one account never has two Bots with
exposure, and a freeze leaves nothing running.

**Paper experiment** (`src/paper_experiment.rs`). *State:* a row per experiment (state,
its Bots, its report). *Operations:* create, launch (deploy, start all, roll back), arm (by
a Bot's decision), refresh, stop, report, feedback. *Hard:* each reads the row, works for
seconds and writes the whole row back; launches that fail half way; Bots that fault or are
commanded meanwhile. *Correct when* an ended experiment stays ended and runs nothing, and
an account has one experiment that is not over.

**Dataset generation and resets of local data** (`src/dataset_generation`,
`src/local_research.rs`, `src/component_library/mod.rs`). *State:* a row per attempt, its
thread and its cancellation flag, dataset files named by their content, rows that say who
may read which dataset and snapshot, Users whose starts are barred. *Operations:* start
(answered by an active or completed attempt of the same request), retry, cancel, the
thread from the snapshot to the publication, recovery at start-up, Reset All, reset of
market data. *Interactions:* one database mutex serialises rows; files, flags and
barriers are outside it. *Hard:* a file is moved before the transaction that decides about
it; a flag is set while its reader is about to publish; two Users share one file; a reset
waits for threads without the mutex. *Correct when* what was completed stays there for its
User, cancellation wins before publication, and a reset takes only what is its User's and
stopped.

**Run engine, validation** (`src/run_engine.rs`, `src/validation`). Deterministic sequential
evaluation over bars, features and WebAssembly components, and reports in phases over it: no
queue and no concurrency.

**Operations monitoring** (`src/operations.rs`). Alert lifecycle and projection; only the
freeze alert is modelled.

**Sequential or numeric parts**: backtest core, market data, indicator and feature
engines, factor evaluation, forecast datasets, candidates and qualification, component
library, packaging, authentication, watchlist, feedback, SDK, frontend. Their difficulty
is data and I/O, not control; they are listed in `PROJECT.json` as not modelled.

## Paper ledger

`PaperLedgerOps` writes each method of the ledger as a function from a ledger to a
ledger, with its early returns as guards (`Funded`, `WithinLimit`, `Fits`, `CanReinstate`
...). `PaperLedger` keeps one `ledger` and offers one action per method in either market:
reconciled with a provider, or simulated locally (A-share, T+1). `basis` and `fees` are
history: the last snapshot, and fees charged since.

Run `ledger` (84,648 states): one instrument, cash 3, one share, two orders, one imported
order, quantities and prices up to 2, fee up to 1. Two orders are the fewest that compete
for cash and shares; quantity 2 is the smallest that fills in part; fee 1 is a third of
the cash, so fees overdraw it.

| property | what could break it |
|---|---|
| `ReservationsMatchOpenOrders` | a leak in any of submit, partial fill, cancel, sweep, reinstatement |
| `FillsExplainOrders` | a fill counted twice or beyond the order, a status without a fill |
| `CashFollowsFills` | a balance that moves without a retained fill |
| `SoldSharesWereSettled` | selling today what was bought today, in several fills |
| `ReservationsCovered` | reserving more than the cash (the fees charged are the exact slack) |
| `EvidenceOnlyGrows` | an update or reinstatement that rewrites a terminal order or a fill |

The A-share market exists only in the crate: no command of the application reaches it.

## Paper trading

*State.* `db` is the account row (`ledger`, `exec`) with the pending-reconciliation
marker; `restarted` and `alert` are the two other stores the gate asks; `gate` is the
holder of `order_gate`; `provider` is the provider's truth. Per thread, `pc` is the next
step of its handler, `copy` the row it loaded and has not saved, `work` its locals.

*Actions.* A handler is the chain of its store steps and provider requests. A store step
is `Load(t)` followed by the action that changes the copy and saves it; other threads may
save in between unless the code holds the gate. So `paper_order_submit` is `SubmitOrder`
(guards), `BeginOrder` (under the gate), `Post`, and one of `RecordOrderResult`,
`RecordConfirmedRejection`, `RetainUncertain`; a reconciliation is `ListOpenOrders`,
`FetchBalance`, `ClaimGate`, `RecordSnapshot`, `FindVanished`, `ResolveNext` per vanished
order, `RecordOpenOrders`, `CompleteReconciliation`, `RecoverAbsence`. `Restart` is a
crash at any point: threads lose everything, the row and the provider stay, and the
account waits for a reconciliation.

*Provider.* An order is accepted, refused, or its answer is lost with or without the
order; an answer may accept and not tell an identity; open orders fill and end at any
time; list, balance and order requests may fail; trades come all or not at all.

*Fairness.* None: every property is a safety property, so nothing is assumed to happen.

*Bounds.* Two operations: a buy of 2 by the user and a buy of 1 by a Bot, on cash 3 with
a reserve of 1 for the Bot, so that the second is refused if and only if the first
counts. Budgets say how often each command is issued. The serial run has one thread and two
budgets: (2 submits, 1 cancel, 1 sync, 2 reconciliations, 1 crash) and (1 submit, 1
freeze with acknowledgement and recovery, 2 reconciliations, 1 crash). The racing run has
two interchangeable threads and four budgets: (2 submits, 1 reconciliation) without and with
a crash, (1 submit, 2 reconciliations, 1 crash), and (1 submit, 1 sync, 1 freeze with its
recovery, 1 reconciliation). A second reconciliation after the crash is what settles the
account again, so that orders go out on both sides of it. `trading_sweep` has the smallest
budget that shows its violation.

| run | states | shows |
|---|---|---|
| `trading_serial` | 1,433,897 | with commands one at a time, the properties that racing commands break |
| `trading_race` | 2,234,049 | with commands and a crash interleaved at every unlocked point, the three that hold even then |
| `trading_sweep` | | violation of `TerminalOnlyWithEvidence` by two commands that race |

`trading_race` checks `UncertaintyBlocksRisk`, `FillsAreProviderTrades` and
`SendsOnlyWhenSettled`; `trading_serial` checks `JournalSound` (`TypeOK` with
`OrdersAreJournaled`), `SubmittedOnce`, `TerminalOnlyWithEvidence`, `OpenExposureIsTracked`
and `FreezeBlocksNewRisk`. Both halves of `SendsOnlyWhenSettled` can fail in its run: a start
that takes the account for reconciled breaks the first, a begin that does not look at the
marker the second. Racing commands break those of `trading_serial`:
`TerminalOnlyWithEvidence`, `OrdersAreJournaled` and
`FreezeBlocksNewRisk` by the finding and the first two observations, `OpenExposureIsTracked`
and, with a third submission that repeats the erased operation, `SubmittedOnce` as their
consequences. The provider's own refusal of a repeated client id is not relied on.

*Finding.* `trading_sweep`: the provider's open orders are listed before the gate is
taken. An order answered between the list and the sweep is neither listed nor vanished,
and the sweep cancels it locally while it is open (ADR 0099 says absence is never
evidence).

*Observations*, each with the configuration of `MCPaperTrading` that reproduces it.
- `TradingForgets.cfg` violates `OrdersAreJournaled`: `record_order_result` loads and saves
  without the gate, so its stale save erases an operation another command just began, whose
  order is at the provider (`docs/bot-runtime.md:209` says no order is silently forgotten, and
  the comment at `paper_trading.rs:444` that the gate keeps the account exact).
  `mark_uncertain` and `cancel_local_order` load and save the same way.
- `TradingFreeze.cfg` violates `FrozenAccountSendsNothing`: `freeze_all` does not take the gate
  either. An order whose command loaded the account before the freeze was saved is sent after
  it, and its save undoes the freeze (`docs/bot-runtime.md:203` says Freeze All blocks new
  risk).
- `TradingCancel.cfg` violates `FillsPrecedeTerminal`, with commands one at a time: the user's
  cancel ends the local order without fetching its fills, and no later reconciliation looks
  for them, yet it ends `Reconciled` (ADR 0099 wants them fetched and recorded before).

*Simplifications.* One account, one instrument, price 1, no fees here (the ledger run has
them). The account exists (its first reconciliation is done). Orders placed outside the
application, legacy binding repair (`recover_bot_order_bindings`), journal entries that
record a reconciliation itself, Bot store writes and the Bots' own cancel path (which
does fetch fills) are left out. The Bots' gate is reduced to the unresolved alert, and
their policy is one that is never frozen, as `bot_operations.rs` builds it. The window
after which an absence may be proved is nondeterministic, and an order that was not created
by then never is: that a request is not delayed beyond the window is taken on trust. Database errors are left out.
`Freeze All` is documented to cancel open orders; the code's freeze cancels none, and
so does the model's.

## Research Queue

*State.* `attempts` and `journal` are durable; the position of an attempt in `attempts`
is its queue sequence. `signaled` and `shutdown` are the worker's signal, `results` the
handoff of completed results, `resetting` the barrier. `pc` and `mine` describe the
threads of the callers and of the Host, `worker` and `ticket` the worker, `reset` and
`listed` the reset.

*Actions.* `StartAttempt` and `RetryAttempt` create, then `CheckOpen`, `Insert`, `Wake`
admit; a caller in `Waits` then polls (`AwaitResult`, `Expire`). The Host attaches at
start-up: `ReadPending`, `Register`, an admission per pending attempt, `FinishAttach`.
The worker: `FallAsleep`, `WaitForSignal`, `NextTicket`, `Dispatch`, `BeginAttempt`,
`RunAttempt`, `CompleteAttempt`, `PublishResult`, or `JudgeFailure` and `EndAttempt`,
then `Consume` (the tombstone) or `RetryLater`. `Cancel`, and a reset in its four steps
(`RaiseBarrier`, `CancelAll`, `AwaitEnd`, `RemoveAttempts`, `ForgetResults`). `Shutdown`
sets the flag; `Restart` starts the process after a shutdown or a crash and recovers the
attempts that were running.

*Abstract specification.* `AttemptLine` is what the queue promises: attempts join one
line once, at its end; the first is served alone and to the end; others may leave but
keep their order and do not come back; a reset takes them all, the one served included
(`Clear`); while the line is open nobody is first forever. `ServesOneLine`
instantiates it: the places are the entries, tombstones included, those who wait are the
admitted entries whose attempt is pending, and the served are the running attempts. Its
safety part is proved (`QueueIsOneLine`). `Clear` came out of that proof: two callers that
wait for their results both pass the barrier of a reset, which then removes one attempt
that runs and one that waits in one step; `research_queue` has one such caller.

*Fairness.* Weak fairness of the Host's start-up, the worker, a reset that began and a
call that began: each is a thread that runs whenever it can. None of calling, cancelling,
resetting, shutting down or restarting: nobody must do these. The runner is an external
process that always ends, by result, failure, limit or because it was told to
(`RunAttempt`): the code enforces a time limit on it.

*Bounds.* Two callers with work of their own (or the same work, in `research_waiters`),
two attempts, budgets that name which events meet: (2 calls, 1 cancellation, 1 shutdown, 1
crash) and (2 calls, 1 reset, 1 crash).

| run | states | shows |
|---|---|---|
| `research_queue` | 388,336 | two calls, one waiting, with either budget's events anywhere |
| `research_waiters` | | violation of `EveryWaiterReturns` by two callers of the same work |

`research_queue` checks `TypeOK`, `CancelledNeverPublishes`, `ServesOneLine`,
`ResetWaitsForWork`, and the liveness properties `PendingIsServed` and
`EveryWaiterReturns`. Two attempts are enough for order, for coalescing and for every race
of one attempt with the next. A lost wake-up or a pending attempt without a place breaks
`PendingIsServed`.

*Finding.* `research_waiters`: two callers that share an attempt; the first takes the
result, the second spins on a completed attempt past its deadline.

*Observations.*
- `ResearchReset.cfg` violates `ResetWaitsForAllWork`: a call that waits for its result does
  not look at the reset barrier, so a reset that saw nothing active deletes its attempt,
  pending or running (ADR 0078 says it blocks new work and waits for active work).
  `ResetWaitsForWork` is about the calls that do look: it leaves out the work of every caller
  that waits.
- The attempt is Completed first and its result inserted later under another lock; a
  reset in between forgets nothing, and a waiter can be handed the result of a deleted
  attempt.

ADR 0078:3 also says a stale Running attempt becomes Failed; the code makes it
Interrupted, and so does the model.

*Simplifications.* One User and one adapter; failing writes are left out; progress, logs
and host failures on completed attempts are left out; an attempt rejected as stale counts
as failed; the adapter's shutdown flag is the queue's; a cancellation and its wake-up are
one step (the wake only adds a signal); the deadline of a waiter is nondeterministic.

## Trade bridge

*State.* `streams` and `task` are the bridge's entries and the tasks behind them; `pending`
and `draining` the queue per user; `loop` the blocking threads; `call` each producer's
callback (a Bot stream, or the trade stream a page of the user interface opens); `ticking`
the rest of the clock's round. `running` is the list the Bot store would give;
`queued` and `handled` are history.

*Actions.* What happens under a lock is one action; everything between locks is apart. A
lifecycle command is `CommandActs`, `CommandLists`, `Refresh`; a trade is `StreamTrade` or
`UiTrade`, `Enqueue`, perhaps `Spawn`; a loop is `Take`, `SinkReturns`, `Retire`; the clock
is `ClockRound`, `ClockTick`. Bots fault (`BotFaults`) and experiments launch Bots
(`ExperimentLaunches`) without a refresh; a stream can end by itself (`StreamEnds`).

*Fairness.* A lifecycle command that began goes on, callbacks and loops run and return, the
clock thread never stops. Nobody must start Bots, end streams or send trades.

*Bounds.* One user, two instruments, two stream tasks (one superseded while its last
callback still runs), two loop threads (so a second loop could appear), one command at a
time, two trades, three changes of Bots. Users share nothing but the two locks.

| property of `trade_bridge` (33,548 states) | what could break it |
|---|---|
| `BridgeSound` | two loops, or a queue with no loop, when one retires while a trade comes; a superseded stream that still feeds the Bots |
| `LatestTradeSurvives` | a newer trade replaced by an older one, or taken and dropped |
| `StreamCoversStartedBots` | a refresh that keeps a stream of other instruments |
| `TradesAreDispatched` (liveness) | a loop that ends and leaves its flag |
| `StartedBotsAreTicked` (liveness) | a clock that looks at the wrong users |

`BridgeSound` is `TypeOK` with `OneDrainLoop` and `OneStreamPerUser`.
`StreamCoversStartedBots` excepts Bots launched by an experiment since the last list:
`launch_experiment` does not refresh the stream (`paper_experiment.rs:1759`,
`bot_operations.rs:2475`). Their trades come from the stream the experiment's page opens
while it is shown, and the clock does not call their user unless another Bot is on a
stream, until some lifecycle command succeeds.

*Observations.*
- `TradeBridgeOverlap.cfg` violates `StartedBotsAreTicked`: with two lifecycle commands in
  progress (two `Slots`) the lists can be applied in the other order than they were read. The
  last refresh drops the stream of the Bot that the other command saw Running, and that Bot is
  not on the clock either when the last list was empty (`trade_bridge.rs:112`: "Closed-bar
  schedules must advance even when no trade arrives"). `trade_bridge` has one command at a
  time for `StreamCoversStartedBots` and `StartedBotsAreTicked`; the other properties hold with
  two (133,206 states).
- A stream task that ended stays in `streams`, so a refresh with the same codes keeps it
  and nothing restarts it.
- Draining takes the smallest code first, so a busy instrument delays later ones.
- A callback of an aborted stream may come late and replace a newer trade.
- A sink that panics would leave `running` true and no loop; panics are not modelled.

## Bot lifecycle

*State.* `bot` is the Bot store (attempt number, state, reconciliation required, position
kept), `lease` the lease table, `worker` the supervisor's registry, with a registration
number, a state of its own, whether the process lives, and whether a fault is retained.
`cmd` is the holder of the control lock with the steps it has left; `captured` what the
monitor polled and has not handled; `alert`, `freeze` and `pausing` the host's operations.

*Actions.* A command (`Start`, `Retry`, `Pause`, `Resume`, `Stop`, `Decision`) takes the
lock with its script: a start is begin, launch, then pairs "Worker, then store" for
Reconciling, WarmingUp and Running with a reconciliation between. Each step is an action
with its own failures: a refused transition, a failing write, an account that does not
answer. A failure leaves the step "fail" (terminate and record the fault) or nothing, as the
code does in that place. Beside the lock run `WorkerDies`, `Poll` and `Handle` (the
monitor), `PauseListed`, `PauseWorker`, `PauseRecord` (the host's pause), and
`FreezeWorkers`. `FreezeBots` waits for the lock. `Restart` loses processes, commands and
polls, and faults every active attempt.

*Worker.* Its protocol is reduced to outcomes: it lives or dies, answers or fails, and a
decision's answer may have no target. A deadline is one such failure.

*Bounds.* Two interchangeable Bots of one account (they compete for its lease), two
attempts and two Workers each (a replacement), one death, one failing write, one restart.
No fairness: all properties are safety.

| property of `bots` (2,298,590 states) | what could break it |
|---|---|
| `StoresAgree` | a failing step that ends the command and leaves one store behind |
| `LeaseHeldWhileExposed` | a second Bot on an account with a position or an active attempt |
| `FrozenStaysDown` | a freeze that overtakes a start in progress |
| `DeadWorkersAreFound` | a fault that could not be written and that nobody remembers |
| `FaultIsFinal` | a late step of a command that revives an ended attempt |
| `MonitorSparesLiveWorkers` | an old poll that faults the replacement |

`StoresAgree` is stated for no failing write and for pauses that overlap no command; the
observations say what happens otherwise. The others carry no such premise, except
`FrozenStaysDown`, which a failing write can prevent.

*Observations.*
- The host's pause takes no control lock. Overlapping a command it can leave a Paused Bot
  Faulted in the store with a live Worker, or Pausing in one store and Running in the other.
- Nothing moves a Bot the host paused from Pausing to Paused, and its Stop faults it
  (`docs/bot-runtime.md:183` has Pausing establish a reconciled state).
- A Worker that dies after it returned its target is faulted while the decision goes on: the
  order is sent for a Faulted attempt. `CONTEXT.md:1464` says only Running may authorise one.
- `fail_active` after a missed deadline records a decision first; when that write fails,
  nobody records the fault.
- Freeze All over the Bots stops at the first write that fails; the rest stay active.
- Stop turns a Faulted attempt into Stopped, which ADR 0050 and `CONTEXT.md:1456` call terminal for
  the attempt.
- A recovery that is refused has already thawed the paper account.

*Simplifications.* Idempotency records (a repeated command id) and decision claims are left
out: a repeated command is one that changes nothing. Position planning and orders are in
`PaperTrading`. Freeze All is recovered only after it returned, and one pause by the host
runs at a time. Health evidence is a nondeterministic answer.

## Paper experiment

*State.* `row` is the experiments table, `bot` each Bot with its warm-up and whether the
user began its attempt, `answered` the recorded results of stop commands, `decision` the
decision holding the control lock, `call` what each user interface thread does with the
row it read, `clock` the window. `meddled` is history: the user commanded a Bot of a launch
in progress.

*Actions.* A call reads (`LaunchReads`, `RefreshReads`, `StopReads`, `ReportReads`,
`FeedbackReads`) and saves later, from its copy. A launch deploys and saves Preparing, starts
Bot after Bot (`LaunchStarts`), and on a failure stops those it started (`RollsBack`) and
saves Incomplete. A stop saves Stopping, stops every Bot (`StopsBot`, answered from the record
when repeated) and saves Completed or Incomplete. A decision that finds all Bots warm
re-reads the row and saves Armed, then Running (`ArmReads`, `Arms`, `Runs`). `BotFaults`,
`UserCommand`, `Tick` and `Restart` come in between.

*Bounds.* Two interchangeable experiments of one account, two Bots each (they stand for the
three of the code: one started, one not), two deployments, one fault, two user commands,
one restart, one report. `experiment` has one user interface thread and the decisions;
`experiment_refresh` one experiment, a button and the page's timer, and no faults. No
fairness: all properties are safety.

| property of `experiment` (3,053,285 states) | what could break it |
|---|---|
| `EndedIsFinal` | a decision or call that saves its copy over the end of the experiment |
| `EndedMeansStopped` | a rollback or stop that misses a Bot it began |
| `ExperimentsSound` | a launch beside an experiment that is stopping or was interrupted |

`ExperimentsSound` is `TypeOK` with `OneCurrent`. `EndedIsFinal` and `OneCurrent` suppose
that the user commands no Bot while its launch is in progress: a Bot the user starts warms
early, and a decision can then arm an experiment from a copy older than its end, with one
thread.

*Finding.* `experiment_refresh`: the page refreshes an active experiment every 30 seconds,
also while another call is pending. A refresh that read the row before the user stopped the
experiment and created its report saves the old row after both: the experiment is active
again and its report is not linked (`docs/research/ema-double-cross-demo.md:36` says it
remains linked).

*Observations.*
- A crash, or a refresh, between the saves of Armed and Running leaves it Armed for ever.
- A replayed stop is answered from its record, so a Bot the user restarted since stays
  Running in a Completed experiment; ended experiments no longer gate it (`for_bot`).
- A stop during a launch misses the Bots the launch starts later.
- Two launches of one Draft deploy two sets of Bots; the check for another active
  experiment and the save are not atomic.
- The rollback does not stop the Bot that failed to start; the model takes it to be Faulted.

*Simplifications.* Failing saves of the row are left out (a crash between saves is in);
`save_report`'s insert and update are one step; evidence, prices and views are data.

## Dataset generation and resets

*State.* `attempts` are the rows in order of creation (deleted ones keep their place for
TLC and are seen by nothing); `content`, `access` and `snapshots` the rows about datasets
and who may read what; `files` the final dataset files, `staged` those a reset renamed.
`registered` are the attempts with a thread (`GenerationInner.attempts`), `flagged` those
told to stop, `step` the next step of each thread. `blocked` are the Users whose starts a
Reset All bars, `resetting` those the market data pipeline bars; `reset`, `awaited`, `moved`
the locals of each reset. A request is its User and the dataset it makes, since generation
is deterministic; the dataset also stands for the one snapshot it is made from.

*Actions.* `Start` and `Retry` create a row, its flag and its thread under one hold of the
database mutex. A thread is `MarkRunning` (which may find the dataset made already),
`ReadInputs`, `Compute`, then `BeginPublish` (the last look at the flag and the file),
`CommitPublish` or `AbortPublish`, or on an error `JudgeError` and `RecordEnd`, and `Leave`.
`Cancel` changes the row, `RaiseFlag` the flag, with the mutex released in between. A Reset All
is `BeginReset` (bar and list), `FlagAwaited`, `EndAwait` (or the time is over), `Enter`
(`begin_user_reset`), `Stage`, `CommitReset` or `AbortReset`, `RemoveStaged`, `LeaveReset`;
a reset of market data has no bar and no wait. `DatabaseFree` is the mutex: kept from a
file's change to the end of its transaction. `Restart` ends the process anywhere and
recovers the rows at start-up; files stay as they are.

*Fairness.* Threads, cancel calls and resets that began go on; nobody must begin one.

*Bounds.* Two Users whose requests make the same dataset (they share one file), three
attempts, Reset All of each User and a market data reset of one, and eight budgets: two
resets, with and without a restart; a cancellation with a reset, a restart, or a retry and a
failing transaction; a reset with a download and a failing transaction, or with a restart;
a retry. Two starts are the fewest that share a dataset, a third attempt is what a retry
needs to find the dataset made by the second.

| property of `datasets` (167,032 states) | what could break it |
|---|---|
| `DatasetsSound` | a file removed by a failing publication or a reset while another User has it |
| `ResetTakesOnlyItsOwn` | a reset that goes on before its attempts ended, or takes shared files |
| `CancellationWins` (liveness) | a publication that does not look at the flag again; an error taken for a failure |
| `AttemptsEnd` (liveness) | an attempt that a restart or a reset leaves running for ever |

`DatasetsSound` is `TypeOK` with `CompletedIsKept`: a completed attempt answers every later
start of its request, so its dataset must be there.

*Finding.* `datasets_snapshot`: a market data reset neither counts nor stops generation
attempts, so it deletes the snapshot an attempt has read, and the dataset is then published
without its snapshot (ADR 0027 calls data referenced by a dataset deletion-locked).

*Observations.*
- `DatasetTwoResets.cfg` violates `ResetTakesOnlyItsOwn`: of two Reset Alls of one User the one
  that ends first, also because it is refused, lifts the bar the other relies on, and an
  attempt started then is deleted while it is active (`dataset_generation/mod.rs:242` says the
  guard keeps the bar until the caller's reset is finished). The run `datasets` has one Reset
  All per User.
- `DatasetCrash.cfg` violates `CompletedIsInPlace`: a crash between `Stage` and the transaction
  leaves the file as `.reset`. Nothing restores it, its rows still stand, and a later start is
  answered by the completed attempt, so the file does not come back
  (`component_library/mod.rs:1161` says the transaction's outcome decides). If another User
  makes it again, a later Reset All that must remove it is refused because the staging name is
  taken. `CompletedIsInPlace` asks for the file under its own name; `CompletedIsKept` accepts
  the staged place and is what holds through every crash.
- A crash between the rename and the transaction of a publication leaves a dataset file
  without rows; temporary files of interrupted attempts stay too.
- An error after `begin_user_reset` and before the end (`local_research.rs:2213`) returns
  without `finish_user_reset`: the User's market data stay barred until the next start-up.
- Reset All deletes factor and feature materialisation evidence before it may still be
  refused by a blocker (`local_research.rs:2203`, `:2932`).
- When `mark_running` or the record of an end fails to be written, an attempt can stay
  pending or running until the next start-up.

*Simplifications.* Storage fails only as the two transactions do; the wait's deadline and a
failing computation are nondeterministic; temporary files, progress, diagnostics and
the other data a reset deletes are left out, and so are Runs, which also refuse a reset of
market data, and snapshots shared by Users (access is per User).

## Proofs

Assumptions are the named ASSUMEs of the modules (`QueueAssumption`,
`TradingAssumption`, `BotAssumption`, `ExperimentAssumption` and those of the ledger), which
every run evaluates. Proofs hold for all values of the constants: any threads, operations,
quantities, budgets. A hypothesis comes on top in four places: calls of the
user interface do not overlap (`OneThread`, in theorems of `PaperExperimentProofs`), commands
on an account come one at a time (`OneThread`, in the last theorems of `PaperTradingProofs`),
a User has one Reset All at a time (`OneResetAll`, one of `DatasetGenerationProofs`) and one
lifecycle command at a time (`OneCommand`, one of `TradeBridgeProofs`).

**`SumTheorems`**: `SubsetInduction` and `SumChange`. The folds of the library are recursive
functions over subsets, and the library's induction theorems take an operator, which no
backend instantiates. Here induction is stated on a *set* of subsets: a set that has the
empty subset, and every subset whose smaller ones it has, has them all (strict inclusion of
finite sets is well founded). From it follow that the order `CHOOSE` takes does not matter,
and that a sum changes by the difference when one summand changes.

**`PaperTradingProofs`**: `UncertaintyAlwaysBlocks` (`UncertaintyBlocksRisk`). The
property speaks of the stored row, but a store step saves what a thread made of a copy it
loaded earlier, so it is not inductive. `GuardedRows` says it of the stored row *and* of
every loaded copy, together with the shape of journal entries the updates rely on. Each
operation on the gate keeps a guarded gate guarded (one lemma each); each action then
saves, loads or drops a guarded copy. The rest is in four invariants.

- `TradingInv`, for any threads: `FillsAreTrades` (`FillsAreProviderTrades`) and `TypesHold`.
  Saved and loaded rows retain only trades the provider has, each once; what a command
  carries between its steps (the order it is about, what it saw at the provider, the answer
  it got) is about orders its operation created. The provider only grows, so what was true of
  a copy when it was loaded stays true of it. The folds over trades, orders and imports are
  instances of one recursion (`Folding`), so one lemma carries a fact of rows through them.
- `SettleInv`, for any threads: `SentWhenSettled` (`SendsOnlyWhenSettled`). Who
  reconciles has the gate and left the marker set (`Owned`); whoever else has the gate holds a
  copy that shows the marker. Until a reconciliation completes, the account waits for it
  (`Awaits`), so no order is on its way.
- `SerialInv`, under `OneThread`: `JournalStaysSound` (`JournalSound`), `SubmittedAtMostOnce`
  (`SubmittedOnce`) and `FreezeHolds` (`FreezeBlocksNewRisk`). What a thread loaded is
  the row, so an operation that is about to be sent is in the saved journal and was never
  sent. With two commands the save of one undoes the other's, and none of the three is
  claimed. Restarts, lost answers and the provider interleave with the one
  command all the same.
- `EvidenceInv`, under `OneThread`: `TerminalsHaveEvidence` (`TerminalOnlyWithEvidence`) and
  `ExposureStaysTracked` (`OpenExposureIsTracked`). `OpenExposureIsTracked` speaks of a quiet
  account that may take risk; `Tracked` says of *every* state that each order open at the
  provider has an open order here, its operation's own or an imported one, and that no order
  which stands for it has ended. For a step that ends a local order this needs what the
  command knows by then: that the provider's order ended or was never created (`Ready`), or an
  answer the provider is not behind and a listing with every order still open (`Heard`);
  `Bound` says that an operation's local orders are its own and of the size it asked for, so
  trades that fill the local order fill the provider's. Of each change of the ledger one
  lemma says which orders it may end (`Lasts`), and `TrackKept` that this is enough. The
  listing is complete only because no other command sends between it and the sweep, which is
  what the finding of `trading_sweep` turns on.

To keep these from going action by action through every conjunct, each step is classified
once (`StepIs`): it loads the row, stores one, asks the provider, breaks off, claims the gate
or completes a reconciliation, and the invariants follow from what such a step may do.

**`PaperLedgerProofs`**: `LedgerTypeCorrect` (`TypeOK`) and `ReservationsStayCovered`
(`ReservationsCovered`: of an account that was covered at its last snapshot, what is reserved
exceeds the cash by the fees charged since at most, and by as much as that it can). Types alone are not inductive (a quantity is natural only
because no order is overfilled and no position oversold), so `LedgerInv` adds
`NeverOversold`, `NeverOverfilled` and the sign of reservations.
The four equations (`ReservationsMatch`, `OrdersFollowFills`, `CashIsExplained`,
`OnlySettledSharesAreSold`) are conjuncts of one invariant, `Explained`, proved action by
action with `SumTheorems`: none is inductive alone. The sum of reservations moves with the
status of an order, which moves with its fills; the cash follows the fills only if every
fill names an order that is there; and shares are only sold out of the settled ones because
what open sell orders still may sell is held back from them. `EvidenceIsKept`
(`EvidenceOnlyGrows`) is the action property, from `LedgerInv` alone.

**`ResearchQueueProofs`**: `QueueTypeCorrect` (`TypeOK`) and `CancellationWins`
(`CancelledNeverPublishes`). The worker completes an attempt under one lock and publishes
under another. `QueueInv` says that what it holds in between is *sealed*: completed or
removed, and never cancelled. The store changes in ten actions but only by transitions of
single attempts, so `Evolves` (length never shrinks, sealed stays sealed, completed means
not cancelled) is proved once per transition and once for the step (`StoreStep`); the
journal, the threads, the worker, the results and the reset follow.
`ResetTakesWhatEnded` (`ResetWaitsForWork`): the reset looks at the attempts under one lock
and deletes them under another. `BarrierInv` says that meanwhile only keys of callers that
wait are active, since transitions never queue again what ended and only they pass the barrier.
The theorem says nothing of those keys: their attempts may be deleted while they are active,
which is what `ResearchReset.cfg` shows.

`QueueIsOneLine` is the refinement: every step of the queue is a step of `AttemptLine` or a
stutter (`Line!Orderly`, the specification without its fairness), for any callers that wait
or not and any events. The worker reads the journal under one lock, the attempt under
another, and begins it under a third; `LineInv` is what stays true meanwhile. Nothing is
queued again, so no entry before the worker's ticket stands in line (`Ahead`) and the ticket
is still the first when it begins; a tombstone is of an attempt that waits no more
(`Tombstones`), so one admitted again at its old place takes no place in the line; and only the
attempt the worker serves is running, or the one a shutdown interrupted (`Alone`), which
needs to know why a runner was told to end (`Told`).

**`BotLifecycleProofs`**: `LifecycleTypeCorrect` (`TypeOK`), `LeaseStaysHeld`,
`FaultStaysFinal`, `DeadWorkersStayFound`, `MonitorStaysFair`, `FreezeStaysDown` and
`StoresStayAgreed` (`StoresAgree`), for any Bots, accounts and bounds. These ideas carry them. *Planned*: a command in progress has a
list of plain steps, and only the last step of a stop may complete it, of a Bot that is not
Stopped; without it `LeaseHeldWhileExposed` is not inductive, since a completion releases
the lease. *Evolves*: how one step may change a Bot's record; every action is shown once to
evolve every Bot, and `FaultIsFinal` and the lease follow from that alone. *Watched*:
registrations are counted and a Worker that is alive is not marked Faulted, so an old poll
matches no replacement and a death is always still to be seen. `FreezeStaysDown` adds what
a command in progress may still do while the freeze waits for it. *Agreement* carries
`StoresStayAgreed`: `StoresAgree` speaks of moments at rest only, so the invariant writes each
command as a plan (`RunPlan`, `PausePlan`, `StopPlan`) that names, before each step, the states
record and Worker may be in. It shows that every step that goes on leads to the next entry and
that every other ends in `fail`, which takes both down; half a pause by the host has its own
clause, and while Freeze All is between its halves `FreezeStaysDown` takes over. The hypotheses
are those of the property: no write failed, no pause by the host overlapped a command.

**`PaperExperimentProofs`**: `ExperimentTypeCorrect` for any number of overlapping calls;
`EndedRunsNothing` (`EndedMeansStopped`), `OneExperimentAtATime` (`ExperimentsSound`) and
`EndedStaysEnded` (`EndedIsFinal`) under `OneThread`. That is the case the run `experiment`
checks, and the hypothesis cannot go: the page's timer overlaps a button, and
`experiment_refresh` shows what is lost then. Decisions, Bots, faults, user commands and
restarts interleave with the one call all the same. `StopInv` says who answers for a Bot
that is up in an attempt a launch began: the launch that would roll it back, or the stop
that still waits for it. `RowInv` says that a copy agrees with the row at the moment it is
written back, that a decision between reading and saving holds the control lock, and that a
launch the user did not meddle with has a Bot that is not yet up, so no decision arms it. So
`OneExperimentAtATime` and `EndedStaysEnded` have a second premise, which their properties
state: the user commanded no Bot of a launch in progress (`~meddled`). What they say of rows
ends with the first such command, for the rest of the behaviour.

**`DatasetGenerationProofs`**: `CompletedDatasetsStay` (`DatasetsSound`). Files change before
the rows that name them, so `CompletedIsKept` is not inductive. The invariant says who may be
in between: one holder of the mutex at a time (`OneHolder`); the file of an attempt about to
be recorded is there, and if it was created for it, everyone who completed the same dataset
has it set aside (`Published`), so a failing transaction may remove it; what a reset set aside
is of no other User's completed attempt, and of none at all once the rows are gone
(`SetAside`), so it may be put back or removed. Steps that take no mutex and complete nothing
are one lemma (`Quiet`). It holds for overlapping resets of one User too.
`ResetsSpareOthers` (`ResetTakesOnlyItsOwn`) needs the same of the *readers* of a dataset,
who outlive the attempts that made it (`ReadersStay`), and that what is deleted has stopped:
an active attempt has its thread (`Attended`), and a reset bars its User's starts and waits
for the threads (`Stopped`). Its hypothesis is `OneResetAll`, one Reset All at a time for a
User, as in the run: the block of a User does not count its holders, so the end of one of two
overlapping Reset Alls lifts it for both, and an attempt started then is deleted while it runs.

**`TradeBridgeProofs`**: `BridgeStaysSound` (`BridgeSound`) and `LatestTradeStays`
(`LatestTradeSurvives`), for any number of streams, blocking threads and commands that
overlap. `Drained` says who the one drainer of a queue is (a loop, or a callback about to
spawn it) without counting; `Counted` derives the sum `OneDrainLoop` states. `Owned` adds
that an entry of the map always names a task of its user, or a refresh could drop another
user's. `Latest` is what a trade needs to survive the sink: a trade at the sink that is no
longer the last one has the last one waiting behind it, and one loop alone takes it.
`StartedBotsStayCovered` (`StreamCoversStartedBots`) rests on `Covering`: a list not yet
refreshed holds every instrument that needs a stream, and a refresh leaves its user's stream
with exactly the list, and the others' alone. Its hypothesis is `[]OneCommand`, one lifecycle
command at a time for a user, whatever other users do: nothing in the code orders two that
overlap, and the earlier list refreshed last would undo the later one.

*Only model-checked.* Liveness and everything under fairness (`PendingIsServed`,
`EveryWaiterReturns`, `TradesAreDispatched`, `StartedBotsAreTicked`, `CancellationWins` of
datasets, `AttemptsEnd`, and the fairness part of `ServesOneLine`), out of this prover's reach.

## Plan

In this order.

1. *Imports of external datasets* (`forecast_signal_dataset`): they share the dataset files and
   are not stopped by a reset; a second kind of thread in `DatasetGeneration`.
2. *Extensions*: the Feature and Factor adapters as a second kind of work in
   `ResearchQueue`; failing writes as a second outcome of its transitions; the Bots' cancel
   path in `PaperTrading`.

## Not modelled

The repository has some 159,000 lines of implementation, and most of them have no state
machine to check: parsing and canonicalisation of provider data, Parquet and SQLite access,
numeric engines (backtest, indicators, features, factors, forecasts), WebAssembly hosting,
packaging of Python environments, views, and the frontend. A model of such code would be a
transliteration, and its difficulty (rounding, formats, file systems) is what unit tests and
golden files reach. The models here cover the parts with several actors, several stores or
several steps: a small share of the lines, and most of the control that can go wrong between
them. `PROJECT.json` lists each component that is left out with its reason.
