# A TLA+ model of the automated trading agent

The repository is an always-on trading agent for Binance spot: a supervisor runs a
decision cycle once an hour, a fast monitor manages the exits of open positions every
minute, and an operator types commands into a REPL.  Money depends on one thing above
all: that the order rows the agent keeps in SQLite and the orders the venue holds stay
in step, through crashes, lost answers, partial fills and several threads.  That is the
core of this project; around it stand the cycle and its gate, the threads and processes
that run it, and the parts that find a bid, send it, keep the book and judge the strategy
on history.

## 1. Inventory

| Component | Source (under `src/src/trading_agent/`) | State | Operations | Here |
|---|---|---|---|---|
| Exchange reconciler | `core/exchange_sync.py` | none of its own; loads, changes and saves `OrderRecord`s | `reconcile`, `sync_order`, `close_position`, `cancel_entry`, placing, confirming and cancelling the tiers' orders, virtual stop, exit order | `ExchangeSync` |
| Exit ladder | `core/exit_ladder.py`, `core/models.py` | `ExitPlan`: tiers, ratcheting stop, high water | `build_exit_plan`, `apply_tier_fill`, `update_trail`, `remaining_quantity` | `ExitLadder` |
| Entry submission | `graph/runtime.py` | the `PENDING_SUBMIT` row | `_submit_exchange_limit_entry` | `ExchangeSync` |
| Tables | `core/storage.py` | orders, fills, reflections, run rows, settings, audit tables | whole-row saves, idempotent fills, `open_positions`, `realized_pnl` | orders and fills in `ExchangeSync`, profit and reflections in `TradeLedger`, run rows in `CycleGraph` |
| Decisions on a position | `graph/nodes.py` | none | `_execute_close`, `_execute_adjust` | `ExchangeSync` |
| Venue and adapter | `exchange.py` | the venue's orders and balances; the clock offset | quantise, sign, send, retry; post, cancel, query, trades | `AdapterRequest`, and `ExchangeSync` (external) |
| Decision cycle and risk gate | `graph/nodes.py`, `core/risk.py`, `core/decision.py` | the graph's state, approved decisions, reserved quote balance | the nodes from `prepare_context` to `report`; `risk_gate`, `_gate_buy`, `RiskGovernor.evaluate`, `execute` | `CycleGraph`, the gate in detail in `DecisionCycle` |
| Runtime, lock, monitor | `graph/runtime.py` | `_invoke_lock`, heartbeat | `arun_once`, `monitor_open_positions`, `achat`, `execute_operator_decision` | the threads in `AgentRuntime`, their effect on orders in `ExchangeSync` and `DecisionCycle` |
| REPL and lifecycle manager | `repl/` | lifecycle state, pause gate, stop flag, event queue | run, pause, resume, stop, exit, kill switch, chat, `/orders` | `AgentRuntime`; `/orders` in `ExchangeSync` |
| Agent lock | `core/storage.py`, `cli.py` | `agent_lock`, `agent_stop_requested` and heartbeat settings | acquire, release, take over when stale, stop, sleep in chunks, back off | `AgentProcesses` |
| Cadence | `graph/cadence.py`, `graph/nodes.py` | day, marks and time of the last consult | `classify_cycle` | `CycleGraph` |
| PnL and reflections | `core/pnl.py`, `core/reflection.py` | none | `round_trip_pnl`, `realized_from_fills`, `build_reflection` | `TradeLedger` |
| Levels and strategy | `core/levels.py`, `agents/strategy.py`, `core/risk.py` | none | pivots, volume nodes, clusters, level map, ladder, shallow bid, sizing | `ZoneLadder` |
| Signal agents and feeds | `agents/signals.py`, `utils/` | caches of feeds and skills, the last snapshot | `analyze` of the market, news and on-chain agents | `SignalFeeds` |
| Backtest and replay | `backtest.py`, `decision_replay.py` | pending bid, open trade | `Backtester.run`, `simulate_limit_entry`, tiered replay | `Backtest`, over `ExitLadder` |
| LLM wiring, prompts, MCP and operations tools, configuration, reporting | `graph/deep_agent.py`, `prompts/`, `utils/`, `core/config.py`, ... | none shared | prompting, network I/O, printing | not modelled: what they decide or fetch is an arbitrary input |

How they interact.  A cycle (`arun_once`) takes the class-level `_invoke_lock`,
reconciles, gates the decisions against the rows, submits and closes.  The monitor and
an operator's decision take the same lock and call the same reconciler.  The reconciler
talks to the venue with separate requests and saves a whole row after most of them; the
venue fills, cancels and expires orders at any time.  Three callers reconcile without
the lock, each with a `Store` of its own: the REPL's `/orders`, `orders --sync` on the
command line, and the agent's tool `sync_orders_from_exchange`.

What is hard.  A process can stop between any two requests; a request can be carried
out and its answer lost; an order can fill between a query and a cancel; an order can
die with part of it filled; a row saved whole can overwrite a newer one; a price can
fall through several tiers between two reconciles.  What must hold for each component:

- *reconciler*: no tier is sold twice; no more is sold or offered than is held; every
  order that can still buy or sell is known to a row that will be visited; a final row
  is final and leaves nothing at the venue; each doubt is eventually resolved;
- *ladder*: the stop only rises, never below what a banked tier has locked; a banked
  tier is backed by a sale;
- *gate and cycle*: no symbol is bought twice, what is approved can be paid, the caps hold
  over everything one cycle approves, a young position is not sold by the agents;
- *threads of the console*: neither thread opens anything once the other has reached the
  cap; a pause or a stop lets at most one more cycle begin; a paused loop can be resumed, a
  stopped one ends, and a position is watched while the loop sleeps;
- *runners*: a stop request is obeyed in every place, and no lock is left behind;
- *cycle*: on the rows it was classified with, a quiet cycle opens no signal the classifier
  passed over; a due review is asked for, and a cycle that fails settles its row and its
  heartbeat;
- *adapter*: an order is placed at most once, as the filters ask;
- *levels and ladder*: zones do not overlap, every bid has its bracket and
  its reward, the legs cost no more than the one size and the first can be paid for;
- *evidence*: nothing expired is used, nothing usable is passed over;
- *book*: no profit or loss is invented over partial exits and missed fetches, the lesson
  is that of the closed trade;
- *replay*: it scores a bid as the baseline does if that filled within the replay's lifetime,
  and a banked tier stands.

The hazards, each at its line, are listed in `PROJECT.json`.

## 2. Modules

- `ExitLadder` has the constants of a ladder and its pure operators, one for each
  function of `exit_ladder.py` that the exchange path uses.
- `ExchangeSync` extends it with the venue, the stored row and the running handlers.
- `PositionLifecycle` is the abstract specification: the status diagram of
  `docs/architecture.md` (section 7), each tier sold at most once, the stop only up.
  `ExchangeSync` implements it (`RefinesLifecycle`), with each tier mapped to `unsold`,
  `resting` or `sold` by what the venue holds under the tier's client id.
- `DecisionCycle` is the gate, its approvals and their execution, over several orders and
  symbols; a row's reconciling, many steps in `ExchangeSync`, is one step there.
- `AgentRuntime` is one console process: the operator's commands and the agent loop, two
  threads that share the lifecycle manager and the invocation lock.
- `AgentProcesses` is the processes of `agent run` and `agent daemon`, which share a store.
- `CycleGraph` is one cycle as a graph of nodes, with the cadence and what becomes of an
  answer or a failure.
- `AdapterRequest` is one call of the adapter, from its filters to its last attempt.
- `ZoneLadder` is the way from candles to a ladder of bids, as operators that mirror
  `levels.py` and `StrategyAgent` and three actions.
- `SignalFeeds` is the agents' sources and their caches.
- `TradeLedger` is the profit booked from the fills that could be fetched.
- `Backtest` is the walk of the baseline, and the replays as folds over the same candles.
  It uses `ExitLadder` by INSTANCE, one ladder for each bid.
- `MCExchangeSync` and `MCDecisionCycle` have the sequences and the symmetry sets of the
  TLC instances.  `MCAgents` (`AgentRuntime`, `AgentProcesses`, `CycleGraph`) and `MCDesk`
  (the other five) put modules that share no variable in one run: a behaviour is that of
  the part in `focus`, the others resting in one initial state, so the state space is the
  sum of the parts' and not their product.
- `ExchangeSync_proofs`, `ExchangeLifecycle_proofs` and `ExchangeCalm_proofs` (each over the
  one before), `DecisionCycle_proofs`, `Agents_proofs` (`AgentRuntime`, `AgentProcesses`,
  `CycleGraph`), `Desk_proofs` (`TradeLedger`, `SignalFeeds`, `AdapterRequest`, `Backtest`)
  and `ZoneLadder_proofs` have the theorems, `SumLemmas` the sums they share (section 4).

### State of `ExchangeSync`

| TLA+ | Code |
|---|---|
| `row` | the row of the order in the orders table (`OrderRecord`): `status`, `exStatus` (`exchange_status`), `exec` (`executed_qty`), `xid` (`exchange_order_id`), `plan` (`exit_plan`), `exitXid`, `exitCid` (the two exit pointers) |
| `fills`, `exited` | the lots of each sell order ingested into the fills table, and their sum |
| `job[p]` | what process `p` is doing: the program counter, which handler, its copy of the row (`mem`), the snapshot's price (`mark`), the loop over the legs (`tier`, `avail`), the sell in flight (`want`), the venue's answer (`ref`), and whether a save is due (`dirty`) |
| `orders` | the venue's orders, by id; a client id is the order's purpose, since the code derives it from the row and the tier |
| `age` | the age of the row against the submit grace and the TTL of a bid |
| `fails`, `expiries` | how often the bounded faults have happened |

### Where a handler is cut

At its calls to the venue.  A query and the local code after it (including the save) are
one step: a query changes nothing at the venue, and no other handler can run in between
unless it does so without the lock, in which case it is its own steps that are cut.  A
post or a cancel is a step and what the program does with the answer is the next, so the
venue may move, or the process may die, in between.  `Fail(p)` ends a handler at any
cut: a refused call, a lost answer (the order is there, nothing is saved), a timeout or
a crash with a restart all leave the row as last saved and drop the record in memory.

| Action | Code |
|---|---|
| `SubmitEntry`, `PostEntry`, `BindEntry` | `_submit_exchange_limit_entry` |
| `StartReconcile` (`Tick`), `StartClose`, `Adjust` | the monitor or the cycle's reconcile, `_execute_close`, `_execute_adjust` |
| `ResolvePending` | `_resolve_pending_submit` |
| `SyncEntry`, `SyncExit` | `sync_order`, `_sync_exit`, and where `reconcile` or `close_position` goes next |
| `CancelEntry`, `SaveCancelled`, `CancelPartialEntry` | `cancel_entry`, the partial branch of `close_position` |
| `AdoptLeg`, `PrepareLeg`, `PostSell`, `BindLeg`, `RefuseSmallLeg`, `RejectSell` | `_place_resting_tps`, `_place_leg_order`, `quantize_order`'s refusal, the venue's |
| `SyncLeg`, `FinishLegs` | `_sync_resting_legs`, then `_check_virtual_stop` |
| `CancelLegs`, `CloseSoldOut`, `AdoptExit`, `PrepareExit`, `BindExit`, `RefuseSmallExit` | `_cancel_resting_legs`, `_submit_exit` |
| `Fill`, `Expire`, `GetOlder` | the venue and the clock |

### State and actions of `DecisionCycle`

| TLA+ | Code |
|---|---|
| `rows` | the open orders: `symbol`, `notional` (price times quantity), `status`, `spent` (`cumulative_quote_qty`), `young` (within `min_hold_hours`), `exiting` (an exit pointer is set) |
| `cycle` | the holder of `_invoke_lock` (`pc`, `source`) and the locals of `risk_gate`: `seen` and `held` (`open_orders` and their status as loaded), `symbols` (`open_position_symbols`), `reserved` (`reserved_quote_notional`), `approved`, and `left`, the decisions still to gate |
| `halted` | the kill switch or the daily-loss limit |
| `bids`, `free` | the venue's entry orders and the account's free quote balance |

| Action | Code |
|---|---|
| `BeginGate`, `Pass`, `ApproveBuy`, `ApproveClose`, `EndGate` | `risk_gate` with `_gate_buy` and `RiskGovernor.evaluate`, one decision a step; `BeginGate("operator", 1)` is `_execute_operator_decision` |
| `SubmitAccepted`, `SubmitDoubtful`, `SubmitRefused` | `_execute_buy`: answered, answer lost or malformed, refused or never sent |
| `ExecuteClose`, `DecisionRaises`, `EndCycle` | `_execute_close`, the handler around each decision in `execute` |
| `Crash` | the process dies or the cycle raises, and the lock is free |
| `Reconcile`, `Discard`, `StopOut`, `DropExit` | what a pass of the reconciler makes of a row |
| `FillBid`, `BidDies`, `SellPosition`, `GetOlder`, `Halt` | the venue, the clock, the switch |

The gate is cut between decisions, because each BUY fetches the balance and reads the
switch and the rows anew; the execution likewise.  Other processes reconcile without the
lock, so rows may go or change status at any point of a cycle; a stop-out needs the lock
and a snapshot.  Decisions are arbitrary.  What the gate asks of one decision alone
(evidence and its age, edge, confidence floor, price, allowlist, size) restricts which
decisions exist and nothing else, so a decision that fails it is a `Pass`; the size is
any of `Notionals`, the confidence the third order needs is the flag `strong`.  A
submitted bid's first fills are seen by the next sync, also when the answer to the post
has them already.  A CLOSE whose target is no longer open does nothing.

### The modules around the core

`AgentRuntime`.  `state`, `gate` and `stopFlag` are the fields of `AgentLifecycleManager`;
`thread` and `command` are the program counters of `_agent_loop` and of the operator's
command, `invoke` the holder of `_invoke_lock`, `nap` the two counters of `sleep_or_die`,
`late` a history variable.  `pause()`, `resume()` and `stop()` are cut at each assignment,
for they test the state outside its lock: `CmdPause` tests, clears the gate, then sets the
state.  `Chat` takes the lock to think and releases it while the operator confirms;
`OperatorBuys` takes it again and reads the positions anew, `OperatorPlaces` places.
`Waited` is `wait_or_die`, `LoopPolls` one poll of `sleep_or_die`, `MonitorLooks` and
`MonitorActs` the tick before and under the lock, `CycleBegins` and `CycleEnds` a cycle.
In between, `CycleDecides` is the reconcile of `prepare_context` and `CycleGates` the gate of
one BUY: it reads the kill switch and the rows as they are, and the BUYs let through before
(`granted`) have no row yet, so one cycle may open several when one slot is free, as the
code does (`cycle_caps` shows it for `DecisionCycle`).  `OrdersSynced` is whoever reconciles
without the lock: rows go at any time, none comes.

`AgentProcesses`.  `LooksAtLock` and `TakesLock` are the two statements of
`try_acquire_agent_lock`, `Releases` those of `release_agent_lock`; `TopOfLoop`,
`RunsCycle`, `AfterCycle` and `WakesUp` are the loop of `cmd_agent_run`, `Crashes` a
process that is killed.  A unit of time is one chunk of the sleep.

`CycleGraph`.  One action a node, in the routes of `edges.py`; `TierOf` keeps the order of
the reasons in `classify_cycle`.  The answer of the supervisor gives each symbol an action,
nothing, or something the schema rejects.  `Fails` is the handler of `arun_once`, `Dies`
a process that ends without one.  Nothing but the prompt keeps a REVIEW from buying, and
the model lets it; a malformed answer falls back on the baseline's BUYs, as the code does
(`nodes.py:556`).  `RowsFreed` is a reconcile outside the lock, which may take rows away
between any two nodes; `freed` remembers one between the classifier and the gate.  `Tiered`
is both settings that `_classify_cycle` asks for, the supervisor and the cost tiers.

`AdapterRequest`.  `Answered`, `Doubtful`, `Garbled` and `Declined` are what may come of an
attempt; `effects` counts how often the venue carried the call out.  `offset` says whether
a timestamp signed with the cached offset is within the receive window.

`ZoneLadder`.  Prices are ticks and a band rounds down; the swing, the volume profile, the
retracements, the prior extremes, the clustering, the choice of legs, the sizing and the
split are the code's, in its order.  A pivot looks two candles to each side; the last
candle is the one that forms, and may confirm a pivot that is gone when it moves on.  One timeframe stands for all, and what the averages, RSI and
the sentiment say enters as a reading of the view.

`SignalFeeds`.  `Chain` is the order in which an agent asks; `Answer` is both caches, which
keep no failure; a payload is reduced to its age and whether it is about the token.

`TradeLedger`.  An entry and an exit are two trades each; a pass of the reconciler fetches
any part of what traded, and a failed fetch of an exit is not made again.  Amounts are
hundredths, and a commission is in the quote, base or a third asset that may lack a price.

`Backtest`.  `Turn` is one turn of `Backtester.run`, in its order (exit, entry, decision);
`BracketReplay` and `TieredReplay` are `simulate_limit_entry` without and with tiers, for any
lifetime; `Replay` and `LadderReplay` are what `replay_recorded_decisions` makes of them:
every bid gets the one lifetime of `--entry-ttl` (`ReplayTtl`), a zone bid too, and the exits
are those of the configuration, tiers as shipped.  The walk gives a zone bid `ZoneTtl` and
knows no tiers.  What the strategy proposes on a close is any of `Bids`.

### Choices a reader should know (`ExchangeSync`)

- One order, hence one row, is modelled: `reconcile` handles the rows one after the
  other and an exception in one does not end the loop.
- A status of `CANCELED` at the venue stands for CANCELED, EXPIRED, REJECTED and
  EXPIRED_IN_MATCH.  The venue does not forget an order it has known.
- `GET order` and `GET myTrades` for it are one step; the cancels of all resting legs
  are one step, each of which may fail where the code only logs it (`"cancel"`).
- A posted request is not carried out after the submit grace: the requests carry a
  receive window of 10 s and the grace is 60 s.
- `stop_loss_price` and `plan.current_stop_price` are one `stop`: every path sets both.
  Prices are ticks, quantities lots; the trail distance is a constant; a trail that
  would be negative is none, since the stop is not.
- `quantize_order` raises on a slice below the symbol's minimum, and every symbol has
  one: the branch that folds a slice of zero into the runner is not reached.
- The legacy bracket of one leg with the whole size is an instance: one tier of 100 %.
- A row always has a client id, as every row written by `_submit_exchange_limit_entry`
  has, so `SUBMIT_UNRESOLVABLE` does not occur.
- The entry's own fills, and with them PnL, are not kept; commissions are not modelled,
  and a commission in the base asset is a hazard of its own (`PROJECT.json`).
- `Adjust` loads, changes and saves with no request in between, so it is one step.
- A process in `Unlocked` reconciles without snapshots, as all three such callers do.

## 3. Model checking

The instances have two tiers (one in `sync_live`), the first of which moves the stop to
entry and the second locks it to the first tier's target.  Three lots are one for each
tier and one for the runner; two lots are a ladder with no runner that sells out
(`SoldOutSizes`).  One lot besides the position (`ExtraBase`) makes an oversale
possible: without it the venue's balance check would hide one.  A lot is the symbol's
minimum except in `sync_live`, where the minimum is two: there the runner of one lot is
too small to sell and `quantize_order` refuses it.

| Run | Instance | Shows |
|---|---|---|
| `sync_faults` | two locked processes, closes by the operator, all faults, one failed call or crash, one order dying at the venue, five orders | `TypeOK`; `TierSoldAtMostOnce`; `LiveEntryTracked`; `BankedTierSold`; `BankedTierLocksStop`; `FinalRowFrozen`; `StopOnlyRises`; `RefinesLifecycle` |
| `sync_calm` | one process, ADJUST, no failed call, the venue moves between handlers, two orders dying unfilled | `NeverOversold`; `ClosedIsFlat`; `CanceledIsFlat`; `SoldOutCloses` |
| `sync_live` | one process, one tier, a crash or lost answer, answers without an order id, partial deaths | `SubmitResolved`; `FilledEntryManaged` |
| `rearm_overcommit` | no crash, no race | `LegsWithinHeld` fails |
| `cancel_race` | a fill between a query and a cancel | `CanceledIsFlat` fails |
| `partial_entry` | an entry that dies partly filled | `DeadEntryManaged` fails |
| `unlocked_sync` | a second process reconciling without the lock | `TierSoldAtMostOnce` fails |
| `cycle` | three symbols, three orders, a cap of two, two decisions a cycle, money for two entries, doubtful and refused submits, raising decisions, crashes | `TypeOK`; `OnePerSymbol`; `ApprovedFunded`; `JoinsBelowCap`; `MinHoldKept` |
| `cycle_caps` | the same with no fault | `WithinPositionCap` fails |
| `agents` | the console with a cap of one position, two BUYs a cycle, an interval of three polls and a tick of two; two runners; a cycle over two symbols | `OpensBelowCap`, `HeldCanResume`, `SafeBoundary`, `StopEnds`, `WatchedUnlessHeld`; `NoLockLeft`, `StopObeyed`; `QuietOpensNoSignal`, `StatusSettled`, `HeldReviewed`; `AgentsTypeOK` |
| `desk` | three attempts and every failure; six candles; sources that fail while a clock runs; one trade in two parts each way; six candles of backtest, with lifetimes of one, three and, for the replay, two | `PlacedAtMostOnce`, `SentPassesFilters`; `LadderSound`, `SizedLadderKept`; `EvidenceGrounded`; `BookSound`; `ReplayFaithful`, `LadderBanksStand`; `DeskTypeOK` |
| `two_runners` | two runners, each with a lock that may go stale | `SingleRunner` fails |

The six failing runs state what a comment or a document says of the code; `PROJECT.json`
quotes each and says what the counterexample does.

**Bounds.**  `MaxOrders` is the number of orders ever posted, in the guards of the two
posting actions.  In `sync_faults` five are the entry, the two tiers, a tier re-armed
after its order died, and an exit (six were checked once as well).  In `sync_calm` twelve are never
reached.  In `sync_live` six may stop a handler at a post, but only once the position is
open, which is what its properties ask for.  `MaxFails` and `MaxExpiries` bound the two
faults that could be repeated for ever; `MaxAge` bounds the clock at the last value the
code distinguishes (`TTLAge`).  `sync_faults` was once run with three lots, the faults
race, malformed and partial, and found nothing in 4.5 million states.

In `cycle` the cap of two makes the second order the one that needs confidence
(`max_open_positions` is at most three), and a balance of five pays two entries of two but
not three, so the cap and the balance both bind.  `MaxDecisions = 2` lets one cycle
approve two BUYs or a BUY and a CLOSE; three orders let a doubtful row of an earlier cycle
stand beside both.  The percentages let every entry pass the per-trade risk: it concerns
one decision, and a smaller `RiskPct` only removes behaviours.  The operator and the agent
alternate without bound, and nothing counts cycles.  The correlated cap is off in `cycle`
and on in the instance of `CycleGraph`.

In `agents` a cap of one position makes two threads that both read a free slot pass it, and
two BUYs (`MaxBuys`, one a symbol) let one cycle open more than the slot it saw; an
interval that is no multiple of the tick lets a poll fall between two ticks.  A lock goes
stale after one unit while a runner may run without limit, so takeovers happen; naps of
one to three units and two consecutive failures reach the bound of the backoff.  Two
symbols with sizes of two and four under a correlated cap of five make headroom differ
from a free slot.  Of the three settings of a cycle at most one is off: each makes the ones
that `_classify_cycle` and the consult would look at after it moot.  In `desk` three attempts are the code's own; the filters include
missing ones (0); six candles are the fewest that have a swing, with two candles on either
side, and one that forms; the views reach the ladder, its cut, the downtrend's multiplier
and the shallow bid; the time to live is one and two units, so one cache expires before
the other; two trades each way are the least that has a partial exit; the four bars reach a
stop, a target, both on one candle and neither, and six of them outlast all lifetimes of
a bid: a plain bid expires before the replay gives it up, a zone bid after.  The exits have two tiers and a runner.

**Deadlock** is not checked in `ExchangeSync`: an order really ends when its row is CLOSED
or CANCELED.  Nor is it in `agents` and `desk`, where a console is left, runners end, a
trade closes and a series of candles is over.  It is checked in `DecisionCycle`, which
never ends.

**Fairness.**  `FairSpec` is used only where liveness is checked.  A handler that has
begun goes on (`WF` of `Continue`): its requests have timeouts, and a timeout is a
`Fail`.  Reconciling starts again (`WF` of `Tick`): the monitor runs every minute while
the loop runs, and the cycle reconciles too.  Time passes (`WF` of `GetOlder`).  Nothing
is assumed of the venue (an order may rest for ever) or of the operator.  The kill
switch and a paused loop stop the monitor; the liveness properties of `ExchangeSync` say
nothing of them.

In `AgentRuntime` the loop's thread runs, its cycle from decision to decision to its end, and
a command that has begun goes on (`WF`).  The
lock and the gate need `SF`: `threading.Lock` has no queue, but a person types between two
holds of the operator, and setting an event wakes whoever waits for it even if it is
cleared at once.  Nothing obliges a command, hence nothing obliges a resume:
`WatchedUnlessHeld` says so in its name.  In `AgentProcesses` a process that runs goes on and
time passes.  In `CycleGraph` a loop begins its next cycle and a node ends (`WF`), and not
every cycle fails before it has been classified (`SF` of `PrepareContext`).

**Symmetry** of the processes is used in `sync_faults`, where every property is a
safety property, and that of the symbols and the orders in the runs of `DecisionCycle`,
where all are too.

Why these runs are split: `NeverOversold` and `ClosedIsFlat` do *not* hold once calls fail
or the venue moves between the calls of one handler; `CanceledIsFlat` survives failed calls
(section 4) but not a venue that moves, as `cancel_race` shows; what does hold there is in
`sync_faults`.

## 4. Proofs

Eight modules hold theorems.  Each holds for every value of the constants under the named
assumptions of its module, which TLC evaluates on every instance; an assumption a theorem
makes beside them is in the column.  `PROJECT.json` lists them with a sentence each.

| Theorem | States | Besides the module's assumptions |
|---|---|---|
| `ExchangeSync_proofs!TypeCorrect` | `Spec => []TypeOK` | |
| `ExchangeSync_proofs!TierSoldOnce` | `Spec => []TierSoldAtMostOnce` | `Unlocked = {}` |
| `ExchangeLifecycle_proofs!FloorHolds` | `Spec => []BankedTierLocksStop` | no ADJUST |
| `ExchangeLifecycle_proofs!BankedHolds` | `Spec => []BankedTierSold` | `Unlocked = {}` |
| `ExchangeLifecycle_proofs!EntryNeverLost` | `Spec => []LiveEntryTracked` | `Unlocked = {}` |
| `ExchangeLifecycle_proofs!CanceledHolds` | `Spec => []CanceledIsFlat` | `Unlocked = {}`, no `race` |
| `ExchangeLifecycle_proofs!FinalHolds` | `Spec => FinalRowFrozen` | `Unlocked = {}` |
| `ExchangeLifecycle_proofs!StopRises` | `Spec => StopOnlyRises` | `Unlocked = {}`, no ADJUST |
| `ExchangeLifecycle_proofs!Refinement` | `Spec => RefinesLifecycle` | `Unlocked = {}`, no ADJUST |
| `ExchangeCalm_proofs!NeverOversoldHolds` | `Spec => []NeverOversold` | `Calm`, `WholeLadder` |
| `ExchangeCalm_proofs!ClosedHolds` | `Spec => []ClosedIsFlat` | `Calm`, `WholeLadder` |
| `DecisionCycle_proofs!CycleTypeCorrect` | `Spec => []TypeOK` | |
| `DecisionCycle_proofs!OnePerSymbolHolds` | `Spec => []OnePerSymbol` | |
| `DecisionCycle_proofs!CapPerCycle` | `Spec => JoinsBelowCap` | |
| `DecisionCycle_proofs!FundsHold` | `Spec => []ApprovedFunded` | |
| `DecisionCycle_proofs!MinHoldHolds` | `Spec => MinHoldKept` | |
| `Agents_proofs!CapHolds` | `RuntimeSpec => OpensBelowCap` | |
| `Agents_proofs!ResumeWorks` | `RuntimeSpec => []HeldCanResume` | |
| `Agents_proofs!BoundaryHolds` | `RuntimeSpec => []SafeBoundary` | |
| `Agents_proofs!NoLockLeftHolds` | `ProcessSpec => []NoLockLeft` | |
| `Agents_proofs!QuietHolds` | `GraphSpec => []QuietOpensNoSignal` | `IsFiniteSet(Symbols)` |
| `Agents_proofs!StatusHolds` | `GraphSpec => []StatusSettled` | |
| `Desk_proofs!PlacedOnceHolds` | `AdapterSpec => []PlacedAtMostOnce` | |
| `Desk_proofs!FiltersHold` | `AdapterSpec => []SentPassesFilters` | |
| `Desk_proofs!BookHolds` | `LedgerSpec => []BookSound` | |
| `Desk_proofs!EvidenceHolds` | `FeedsSpec => []EvidenceGrounded` | |
| `Desk_proofs!ReplayHolds` | `BacktestSpec => []ReplayFaithful` | |
| `Desk_proofs!LadderHolds` | `BacktestSpec => []LadderBanksStand` | |
| `ZoneLadder_proofs!LadderSoundHolds` | `ZoneSpec => []LadderSound` | |
| `ZoneLadder_proofs!SizedLadderKeptHolds` | `ZoneSpec => []SizedLadderKept` | |

"No ADJUST" is `"adjust" \notin Operator`: an operator may lower a stop below what a tier
has locked, which `_execute_adjust` allows, so the claims about the stop are made without
it, as in `sync_faults`.  `Unlocked = {}` says that every handler runs under
`_invoke_lock`; `unlocked_sync` is the counterexample without it.  `FloorHolds` needs no
lock.  "No `race`" is `"race" \notin Faults`: the venue moves only while no handler runs;
`cancel_race` is the counterexample without it.

`Calm` is the world of `sync_calm`, at any size: no handler runs outside the lock, no call
fails and no handler dies (`MaxFails = 0`), no fault of `Faults`, and no close by the
operator; orders still fill and expire, and bids are cancelled, stops trailed, raised,
lowered and obeyed.  `WholeLadder` is `SumOf(SizePct, Tiers) <= 100`, which `config.py`
does not check and the shipped ladder satisfies (85, the rest is the runner).  Neither is
there for the proof's sake: take `sync_calm` and allow any one of the five faults, a single
failed call, the operator's close or two tiers of 67 percent, and TLC finds
`NeverOversold` violated; all of these but `partial` violate `ClosedIsFlat` too.  The
reason is the same each time: the code keeps no account of the lots, it sizes a sell from
the fills it has ingested so far and forgets a sell whose answer it has not saved.

**`ExchangeSync_proofs`.**  `TypeOK` is not inductive: a handler reads `orders[i]` through a
pointer it has kept, so the pointers must be known to name orders that exist.  `TypeInv`
adds that (`RowOK`, `JobOK`), that the answer to a post names an order, that a sell about to
be posted has a quantity, and that orders are bounded by `MaxOrders` (fills are indexed by
order).  `TierSoldAtMostOnce` says nothing that would stop a handler from posting a tier
again.  `LedgerInv` does: only the *latest* order of a tier may rest or have sold
(`OnlyLatestActive`), which makes the code's query by client id conclusive
(`QueryConclusive`), since a query returns the latest; the tier a handler is about to post
is still free (`PostingInv`); and the lock admits one handler (`Mutex`).  Neither failed
calls nor the venue's moves disturb this, because an order that is neither live nor
executed never wakes up (`NoneWakes`).

**`ExchangeLifecycle_proofs`** adds what a handler may assume of the row it will save.
`StageInv` gives, for each program counter, the status the row still has and how far the
record in memory may be ahead of it: with it a late save is one edge of the diagram with a
stop no lower (`Follows`), which is `FinalRowFrozen` and `StopOnlyRises`, and most of the
refinement.  The rest of that is the tiers, mapped to what the venue holds under their
client ids, where `LedgerInv` again says that a tier moves only forward.

What is claimed of the stored plan has to hold of *every* plan, also those in memory, since
each may become the stored one.  So the proofs name a set of plans and show that whatever a
step makes of a plan of the set is in it again (`Grows`, `NextPlans`); how the handlers hand
plans on is proved once, for any set.  For the floor the set is `Floored`.  For a banked
tier it is the plans whose tiers are each backed by a dead order that sold what the plan
records: such an order stays as it is (`OrdersLast`), the answer a handler waits for is its
tier's order (`AnswerInv`), and `OnlyLatestActive` makes it the only one that sold.

`EntryInv` is that there is one entry at most, that every id kept for it is its own, and
that whoever sells out has seen it dead.  `FlatInv` adds what a row and a record in memory
say of its fills: a position has bought something; a handler about to cancel the entry, or
that has, found it without a fill; and nothing is sold before something was bought.  With
the venue at rest while a handler runs these stay true, whatever call fails.

**`ExchangeCalm_proofs`.**  `NeverOversold` relates sums over all orders ever posted, and a
step that posts a sell only looks at the row, the plan and the fills table.  `CalmInv` is
what ties the four accounts together.  `TableInv`: the fills table counts sales only, none
of them beyond what the order sold, and `exited` is its sum.  `Knows`: each order of a tier
is done, dead with all its sales in the table, or it is the one the plan has resting for
that tier.  `RowCalm`: while no exit is bound, the tiers are all that is offered, one
active order for each (`LedgerInv` again), none larger than its share, so `WholeLadder`
bounds their sum; and once an exit is bound, every leg is done and the exit is exactly what
the table leaves (`ExitStands`), filled or not at all.  `RowKnows` allows the one gap there
is, a sell posted whose answer is not saved yet, and `JobCalm` says for each program
counter what the handler has already made sure of: the legs counted up to its tier, all of
them counted before they are cancelled, all done before the exit is sized.  From this a row
is closed only when `Flat`, and the two theorems are sums over these parts (`OffersSum`,
`LegsFit`, `FlatIs`).  TLC checked `CalmInv` on instances of one and of two processes first.

**`DecisionCycle_proofs`.**  Each property compares the moment of the gate with that of the
execution, and each invariant says what survives in between.
`TypeInv`: a live bid has spent less than its row's notional (`BidMatches`), so what it
gives back keeps the balance a natural number.  `GateInv`: the waiting BUYs stand apart,
from the rows and from one another; everything but a cycle lets rows go at most
(`RowsShrink`).  `CountInv`: of the rows the cycle has seen, those still open only get
fewer, and a row of the cycle itself is none of them; so what fitted under the cap at the
approval fits at the submit.  (Counted with the cycle's own, it does not: `cycle_caps`.)
`FundInv`: the reserve is the sum of the notionals of the BUYs that wait, and unless the
balance could not be fetched that sum is within the free balance; an execution takes a
notional off both.  `HoldInv`: a row that waits to be closed only gets older, and its
identity is not given to another while a decision names it.

**`Agents_proofs`.**  `OpensBelowCap` compares a gate with the opening that follows it, and
others act in between.  `RuntimeInv` has eight conjuncts: the lock's holder is who is in a
section that needs it (`LockHeld`), so between the operator's gate and the order the
positions only become fewer (`SeenFresh`), and likewise between the first BUY a cycle lets
through and its end (`GrantsFresh`): what was below the cap stays below it.  (Nothing says
by how much: a cycle opens as many as it let through.)  The loop sleeps only while
something of the interval is left
(`NapLeft`); a loop that starts finds the gate open (`GateOpen`), a closed gate says so in
the state but for two steps of a command (`GateHeld`), and `Boundary` counts the cycles
begun since the command.  `LockInv`: a stored lock belongs to a process at a place from
which it has yet to release it, or one that was killed.  `GraphInv`: until a row is freed, a
quiet tier means from the classification to the gate that nothing new was proposed or no
capacity was left (`TierStands`), hence that the gate admits nothing of the baseline
(`AdmittedHasCapacity`); what it has let through stays that way whatever is freed later
(`GateQuiet`).

**`Desk_proofs`.**  `BookOf` says which fills each column is the profit of, and that the
entry trades before the exit does; the sums of `round_trip_pnl` then have one or two terms a
side, and the claims are inequalities between products (the share of the cost that was
sold).  `EvidenceGrounded` follows the chain of an agent's sources one link at a time.  Of a call of
the adapter: an order that is still to be sent, or sent again, has had no effect, which is
what the code's list of retryable failures is worth; `FiltersHold` is the arithmetic of
rounding down to the step and the tick.

`BookHolds` is not unconditional: that a trade sold below cost is never booked as a profit
is claimed only once the trades of its entry have been fetched.  Without them the code
matches what it sold with what it knows and books a profit that is not there.  Commissions
are one percent and a side fills in at most two parts, fixed by the module.

Of the backtest: the baseline walks with a state of its own and the replay folds over
a window, so the fold is first unfolded into a value for each number of candles
(`Simulates`).  `ReplayInv` then says: while a bid rests, the simulation of what has been seen is
waiting; while a position is open it is in it at the same entry; and a trade is where it
ended.  That is the simulation with the bid's own lifetime; `Outlived` compares it with the
one that has the replay's, for any two lifetimes: the same once the bid is filled within
the latter, lapsed for ever otherwise (`OutlivedKept`).  For the tiers, the two simulations go in tandem until the fill (`Tandem`), and from
there `Climbing` keeps what each candle adds: the banked tiers are sold for what
they are said to be (`LadderIs`), and once the breakeven tier is one of them the stop is not
below the entry.

**`ZoneLadder_proofs`.**  The two claims about the ladder are not about a history but about everything
one look computes, so their proof follows a bid through the code.  An arrangement by a
strict order is the elements at the indices in that order, each once (`InPlaceIs`), so a
stable sort neither loses nor repeats one, and the levels come sorted (`SortedLevels`).
Over sorted levels the clustering keeps that each cluster's band ends where the next one's
begins or before: a level too far from a cluster's mean to join it lies above all of that
cluster (`FarIsAbove`, `JoinedNext`, `ClustersApart`), so no two zones overlap, and their
means rise with them (`MidsRise`).  That is why sorting the zones by their means, cutting
and reversing them keeps the bands apart (`SupportsDown`, `ResistancesUp`).  A leg that is
kept is worth its risk (`WorthIs`), sorting and selecting only pick from the legs
(`NotionalKept`), and `SplitIs` is the arithmetic of the split: shares rounded down never
add up to more than the size, and the heaviest of `n` legs gets at least a share of
`1 / n`, which the cut has made no less than the minimum.

`SettingsAssumption` is what these two need of the settings: fractions that are not
negative, a stop loss between 1 and 99 percent, a positive take-profit and minimum notional,
a first weight above zero, `floor < full`.  `config.py` checks none of it and the shipped
settings satisfy all of it.  Without it the claims are not all true of the code: a stop loss
of 100 percent puts the stop of a bid without a zone at zero, with a first weight of zero a
ladder of one leg is dropped, a minimum notional of zero is a division by zero.  (For a
`full` that is not above `floor` and for an empty list of weights `conviction_size` and
`_zone_ladder` have a fallback, which the model leaves out.)
The sort is written as an operator of this module (`Arranged`), since Python's is
stable, and `SortSeq` of the standard module says nothing about ties.

**`SumLemmas`** has the sums over a set that the other proofs use: a sum defined by
recursion on the set, that the community modules' folds equal it, and its monotony, split
and bounds.  The library's induction theorems take an operator as a parameter and cannot be
used, so induction is made in the form of sets: a set of naturals that has 0 and is closed
under the successor is all of them (`NatClosed`, and `SetClosed` for finite sets), instantiated
with the set of the numbers for which the claim holds.

**Only model-checked**, and why:

- `SubmitResolved`, `FilledEntryManaged`, `SoldOutCloses`, `StopEnds`, `WatchedUnlessHeld`,
  `StopObeyed`, `HeldReviewed`: liveness under fairness, and `ENABLED`, are beyond the
  prover.
- `AgentsTypeOK`, `DeskTypeOK` of the composed instances: the parts of them that the other
  proofs need are in their invariants.

## 5. Not modelled, and what is next

Not modelled, because there is no state or control to check, or none the program owns:
configuration and its files, logging, reporting, rendering and the event bus (which only
feeds the screen); the prompts; the deep agent, its streaming and checkpoints (a framework;
its decisions are arbitrary in `CycleGraph`); the MCP, web-search and operations tools and
the parsing of payloads; the command line beyond the runners and `orders --sync`.  Moving
averages, RSI, ATR and the arithmetic of the scores are readings of a view: a model of them
would check its own rounding.  Of what is modelled, three things are coarser than the code:
commissions in the base asset do not lower the balance in `ExchangeSync`; an ADJUST carries
a stop but no take-profit; the governor's tests of one decision alone are left out.

Disagreements between the code and its own words, met while modelling, that no run shows for
want of room.  The first two have their definitions in the modules; the others are in the
models as the code has them.

- A close is sized from the ingested fills, so a tier that has filled since offers more than
  is held (`CloseWithinHeld`).
- A bid filled in part counts with what it has spent, so its remainder escapes the
  correlated cap (`WithinCorrelatedCap`).
- `nodes.py:360` says of a signal without capacity "At capacity the entry would be
  gate-rejected, so the cycle falls through to REVIEW".  The gate loads the rows again
  (`nodes.py:634`) after a consult of minutes, and a reconcile outside the lock may have freed
  one: a REVIEW whose answer is invalid then opens the baseline.  `CycleGraph` has these
  behaviours (`RowsFreed`); `QuietOpensNoSignal` is about the cycles without.
- `backtest.py:322` and `docs/architecture.md:471` call the replay and the baseline
  "apples-to-apples".  `backtest-decisions` gives every bid three candles unless told
  otherwise, where the baseline gives a zone bid twelve, so a zone bid that fills late is
  `UNFILLED` in the replay and a trade in the baseline; and it replays with the tiered exits
  that are on as shipped, where the baseline has a bracket.  `ReplayFaithful` says exactly which
  bids are missed and holds for the rest with the bracket.
- `levels.py:86` says of pivots "Only fully-formed (closed) fractals are returned".
  `level_map_for` passes the candle that is forming (`market_data.py:291`), and a pivot whose
  second bar on the right it is, is returned and vanishes when that candle moves on.  (That
  other pivots stay follows from the window of five bars, so there is no property for it.)

Next: a base-asset commission in `ExchangeSync`, so that the last sell may be refused for
want of balance, and an account of the lots that would carry `NeverOversold` beyond `Calm`.
