# A TLA+ model of polymarket-live-maker

The repository holds two unattended C++ trading programs that share one library
(`src/cpp`): `pmm_runner`, a market maker that rests a BUY order on both tokens of
reward-paying binary markets, and `tail_vendor`, which rests BUY-NO orders on price
markets under hard capital limits. This directory models their control: ledger
statements, exchange calls with lost answers, fills between any two calls, crashes and
restarts, threads and locks. Prices, rewards, signatures and messages are abstracted.

## 1. The system

| Component | State | Operations | Correct when |
|---|---|---|---|
| **Live runner** `runner.cpp` | `placed_`, `cooldown_`, beat clock, `stop_` | start-up, `kill_check`, `reevaluate_held`, `reselect`, `poll_once`, `shutdown` | every quote it owns is managed; stopping leaves nothing on the book |
| **Engine** `engine.cpp` | none of its own (writes the ledger) | `rewards_place`, `accrue_one`, `exit`/`degrade`, `sync_capital`, `reconcile_inventory_to_chain` | no path loses or duplicates capital; every leg is cancelled before it is placed again |
| **Ledger** `db.cpp` (SQLite) | cash, quotes with status and inventories | single statements, each committed by itself | consistent after a crash between any two |
| **CLOB submitter** `clob_submitter.cpp` | `last_trade_id_` | PLACE, CANCEL_ALL, FLATTEN, `poll_fills`, `list_open_orders` | an answer is never better than what happened |
| **Reflex path** `runner.cpp/.hpp` | `reflex_refs_`, `reflex_cancelled_`, `loop_wake_` | `on_ws_price`, fade, `reflex_pull`, `wake_loop` | a pulled quote comes back; no wake-up is lost |
| **Kill switch** `runner.cpp` | `KILL_LATCH`, `equity_baseline.json`, `equity_dd_count_` | `trip_kill`, equity sample, start-up checks | one loss budget per day; a kill survives restarts |
| **Request path** `ratelimit.hpp`, `https_pool.hpp`, `persistent_https.hpp` | tokens of two buckets; `idle_`, `outstanding_`; a TLS connection with its unread input | `acquire`, `Get`: check out, construct, exchange, check in | bounded, leak-free, live; a caller gets its own answer; the exchange's limits hold |
| **Market channel** `ws.cpp`, `ws_connection.hpp` | `subs_`, `levels_`, `active_conn_`, `stop_` | reader loop, `handle_message`, `apply_rest_snapshot`, `set_tokens`, `stop` | books and subscription converge; stopping returns |
| **Fill stream** `clob_submitter.cpp`, `ws.cpp`, `runner.cpp` | `last_trade_id_`, `seen_`, `queue_`, `seen_fill_ids_` | `poll_fills`, `extract_new_fills`, user events, priming | every trade once |
| **Event log** `events.cpp`, `background_writer.hpp` | queue, counters, per-file buffers and handles | `write`, `close`, `prune`, the writer thread, destruction | accepted lines reach their file; `close()` means on disk |
| **Tail vendor** `tail_vendor*.cpp` | `tail_vendor_held.json`, reject counters | reconcile, poll, plan, cancel, place, recover | orders plus positions stay within every limit |
| Portfolio selection, watchdog, on-chain merge | see `PROJECT.json` | | not modelled yet (section 6) |
| Reward scoring, order-book arithmetic, signing, wire format, telemetry, analytics, backtests | pure data, reporting or research | | not modelled (section 6) |

**Interactions.** One main thread drives runner → engine → ledger and submitter. The WS
reader, the resync workers, the discovery thread and the DDS curator callback run beside
it: they share the submitter (`submitter_mu_`), the reflex sets (`reflex_mu_`), the
opportunity report (`report_mu_`), the signals (`signal_mu_`) and the wake-up
(`loop_mu_`, `loop_cv_`, and `loop_wake_` outside the lock). All of them borrow connections
from `HttpsPool`. The exchange fills orders at any time; the public data API
(`/positions`, `/value`) lags behind the chain and its failures look like empty answers.

**What is hard.** Statements that commit one by one; answers lost after the effect;
`poll_fills` dropping fills that its caller then cannot apply; pulls that mark first and
cancel later; a flag stored outside the mutex of its condition variable; baselines and
latches across restarts; a ledger corrected from a partial or late answer; two sources of
one fill or one book that arrive in any order; keep-alive connections that pass from thread
to thread; a shutdown that has to join every thread before it may cancel. `PROJECT.json`
lists them as hazards, each at its line and with the properties aimed at it.

## 2. Modules and their correspondence to the code

`PROJECT.json` maps every definition to its source lines; what follows is the outline.

**LiveMaker** – runner main loop, engine, ledger and submitter composed. A pool is a market
with a YES and a NO token, an order is one unit of shares, every quote commits the same
capital `Cap`. `orders`, `pos`, `chain`, `unseen` are the exchange, the chain, the data API
and the fills not yet polled; `active`, `inv`, `cash` the ledger; the rest the process,
which `Crash` forgets. `pc` walks through `kill_check → beat (reevaluate, drop, add) →
poll_once`, and `op` marks a statement sequence under way: placement is debit → create →
YES → NO (→ rollback), an exit is cancel and flatten → credit → close, with a crash or a
fill possible between any two of these. The exchange calls that one pass makes for one quote
without a ledger statement or a look at an answer between them (both legs' cancels and
placements of a re-centre, cancel and flatten of an exit) are one step with an outcome per call:
a fill between two of them leaves what one before or after the step leaves, and a crash after the
first call what a reflex cancel and a crash leave; only a crash between two flattens costs one
fault more here than in the code. A FLATTEN whose
answer was lost is sent again and may sell more than is held. `Raise` is an exception out of the
loop, which `run` swallows before it shuts down. `ReflexCancel` is the other threads' cancel.
`unconfirmed` is a history variable: the tokens whose last cancel the exchange did not
acknowledge. Selection is a nondeterministic ideal set, prices a nondeterministic branch of
`accrue_one`; whether an exit starts a cool-down (`kCooldownReasons`) depends on its reason and
is left open. Left out: an SQLite statement that fails inside a placement (an exception in
shutdown itself ends the process and is `Crash`).

**Reflex** – the same loop seen from its threads: each lock section, exchange call and half
of `wake_loop` is one step of the WS reader, of a resync worker or of the main thread.
Cash, fills and the ledger are LiveMaker's and are left out here.

**KillSwitch** – the wallet and the position value with its late publication, the two files,
start-up in the order of `LiveRunner::run`, the equity samples of `kill_check` and
`trip_kill`. Fills move value from the wallet into positions (also after their process has gone),
flattens move it back, and prices go both ways. The baseline file may be another day's, unparsable,
impossible to open or torn by the write. `firstEq`, `unread`, `owed`, `misread`, `sawLoss` are
history variables.

**HttpsPool** – every critical section of `Get`/`Checkout`/`Checkin`, construction and
`notify_one` outside the lock, throwing constructors, spurious wake-ups.

**ApiGet** – a whole GET: extends HttpsPool and runs its steps together with what they move.
`tokens`, `last` are the endpoint's and the host's bucket in front of the pool; `stack` is
`idle_`, last in first out; a connection is closed, or open with the input its last user left
unread (a CRLF, whole answers, the rest of an unframed one); `got` is what the caller is about to
be told, an answer being the thread that asked for it. `sent`, a history variable, is the time of
every grant of a bucket: the request itself leaves later, when the other bucket and a connection
are there. `Unanswered`, `Truncated`, `Answered`, `Unframed` are the exits of
`PersistentHttps::Get`. Bytes, TLS and paths are data.

**MarketFeed** – the WebSocket reader, `W` resync workers, the main thread that changes the
tokens and shuts down, and an exchange with a true book per token. `wire` holds the messages
under way, `rest` the REST answer each worker is waiting for, taken from the true book when the
request is served and applied later. `srv` is what the server streams, `toks` what the reader
believes it has subscribed; the snapshots that answer a subscribe frame come in any order.
`tainted` is a history variable: the books that are not built from this connection's messages
alone. Frames over 2 MB are drained and dropped (`Oversize`). Shutdown joins, in this order, the
discovery thread (perhaps in a scan), the workers, the market channel's reader and the user
channel's, of which only the join is modelled: its loop is the market channel's, so `stop_` or
the closed socket ends it unless it is inside an upgrade request (`waits`). The callback at the
end of `handle_message` is the entry of Reflex.

**FillStream** – the account's trades in order, how many of them `/data/trades` shows, and the
way of a trade into `poll_once`: cursor and page of the submitter, bounded id memories of the
user channel and of the runner, start-up with its two queries, crash. The loops over the fills of
an answer are steps of their own (`Mark` at start-up, `HandOver` in `poll_fills`), newest row first
and each own order of a row once, since that order decides what a bounded memory forgets. What it
checks is what LiveMaker takes for granted of its fills. Sizes and sides are data. What is handed
over is counted per *trade*: all own orders of a trade share its id, so of a trade with two of them
the filter passes one (remark below). Left out: reports without an id, which bypass both filters
(`ws.cpp:336`, `runner.cpp:1322`), and rows without `maker_orders`, an older schema in which a row
is one fill by its top-level fields (`clob_submitter.cpp:719-732`).

**BackgroundWriter** – `EventLog` on its writer thread, one action per critical section of a
caller and per phase of `Run_`. A line is the number of its acceptance; `prune` unlinks files
under the writer's open handle. A flush writes its buffer whole or not at all: the code ignores a
short `fwrite` (`background_writer.hpp:169-170`), and a line torn by one, or by a crash inside it,
is outside the model. `mark` and `lost` are history variables: what a `close()` has to
cover, and the lines whose flush failed. **DurableLog** is its abstract specification: lines are
accepted, some time later readable, a `close()` is answered when everything accepted before it
is readable, and the program ends with everything readable. `BackgroundWriter!Log` is the
refinement mapping: a line is settled once its file holds it (or a newer snapshot, its day has
expired, or its flush failed).

**TailVendor** – scan mode. The per-market, per-coin and total limits of the two books all
have one form, a *scope*: a set of tokens and its limit. A round is reconcile → poll →
plan → cancels → placements; the ledger file survives, `Start`, `Fetch` and `Recovered` bring it
up to date from one page of `/data/trades`. Orders are GTC without post-only: one that the book
crosses after `would_cross` looked is filled at once as taker (`Crosses`), and
`extract_new_fills` skips such a row. `/positions` shows the other strategies of the account too
(`Others`); an answer of fewer than `MinShown` positions is not believed. Collateral on a set of
tokens is counted in units (`Total`). Two history variables count, unit by unit, what the program
did not see: `missed`, the trades that a plan or the ledger missed (filled after the poll or
against an order about to be cancelled, off the page, as taker, of a token never registered,
skipped by the prime), and `slip`, per token, the orders a plan did not see (a cancel or
a query failed) and the positions released falsely. Left out: the one-shot sheet mode, other
strategies' orders on the shared account, a `save_held` that fails (it is only logged,
`tail_vendor_main.cpp:126-127`), and a start without `TV_FUNDER`, which never reconciles.

**MCLiveMaker**, **MCTailVendor** give TLC its symmetry and constants.
**LiveMakerProofs**, **ApiGetProofs** (with HttpsPool), **KillSwitchProofs**, **ReflexProofs**,
**BackgroundWriterProofs**, **FillStreamProofs**, **TailVendorProofs**, **MarketFeedProofs** hold the
theorems.

Each module also holds `...Mutant` definitions: one plausible bug per checked property,
listed in `PROJECT.json`, which the property detects.

## 3. Runs

| Run | Instance | What it shows |
|---|---|---|
| `live_maker` | 2 pools (symmetric), 1 fill, 1 fault | `CapitalConserved`, `ManagedQuotes`, `OrdersOwned`, `OneOrderPerLeg`, `StopLeavesNoOrder` |
| `live_maker_flat` | 1 pool, 2 fills, 1 fault | `EventuallyFlat`: positions are sold whatever fills were dropped, counted twice or partly flattened |
| `live_maker_stop` | no fault | **violated** `NoSilentExit` (finding 1) |
| `https_pool` (module ApiGet) | 3 threads, 2 connections, 2 buckets, 1 tick | `PoolBound`, `NoSlotLeak`, `NoLostWakeup`, `SomebodyServed`, `AnswerIsOwn`, `WindowBound` |
| `reflex` | 1 pool, WS reader and 1 worker, 2 pulls, 2 faults | `NoLostWake`, `QuotesRestored` |
| `kill_switch` | 2 days, equity up to 3, 1 fault | `DailyBudget`, `KillSticks`, `NoFalseKill`, `LossStops` |
| `kill_latch` | no fault | **violated** `LatchRefusesTrading` (finding 2) |
| `tail_vendor` | 3 tokens in 2 books, 2 fills, page of 1, 2 other positions, 1 fault | `OvershootBounded`, `BudgetFreed` |
| `tail_vendor_release` | same | **violated** `NoFalseRelease` (finding 3) |
| `background_writer` | 2 threads, queue of 1, 2 lines, 3 days, 1 close, 1 failed flush | `CloseDurable`, `CrashPrefix`, `CloseReturns`, `LinesReachDisk`, and `ImplementsDurableLog` (refinement) |
| `market_feed` | 2 tokens, 2 workers, any initial book of the moving level, 1 change of it, 2 subscription changes, 1 fault | `WsReplay`, `BooksConverge`, `SubscriptionFollows`, `StopReturns` |
| `fill_stream` | 4 trades of 0, 1 or 2 own orders, page of 1, 3 remembered ids, 2 faults | `HandedOnce`, `CursorSkipsNothing`, `NoReplayByRest`, `FillsArrive` |

Deadlock is checked in the runs of LiveMaker, Reflex, KillSwitch and TailVendor: none of them
stops by itself, since a process that ended can always be started again. The other modules
end: the log and the feed with their shutdown, the fill stream when the bounded trades are
handed over, ApiGet when the bounded clock grants no more tokens. There, liveness properties
say what must not get stuck.

**Bounds.** A *fault* is a failed call, a lost answer, a failed or partial read or a crash.
- Two pools are the fewest on which a pool is kept while another is dropped, cooled down or
  refused for lack of cash: `Capital = 5` pays for two quotes of `Cap = 2` and leaves a
  remainder. Pools interact only through cash, the selection and the order of a pass.
- One fill and one fault interrupt each operation at each point; with `live_maker_flat`'s two
  fills the second meets an inventory whose flatten was partial, lost or already counted. The
  proofs of section 5 remove these bounds for the safety properties.
- Three threads on two connections: one waits while two hold, and a thread that comes back can
  take the slot a notification was meant for; the proofs cover every number. Each bucket holds a
  burst smaller than the number of possible calls, so that threads wait for either one, and one
  tick is enough for an idle bucket to overflow.
- Background writer: with a queue of one, lines are dropped, taken alone and taken with a
  `close()`; three days and a retention of one let a day expire under an open handle. The
  process may die anywhere: `CrashPrefix` is checked on the files of every state.
- Market feed: one moving level against two workers and two sources is the fewest in which an old
  answer overwrites a newer one. The level is there or not at first, so its change is an erase or a
  set, and a late one begins the book of a dropped token. With two changes of the set a token leaves
  and comes back.
- Fill stream: `SeenCap = 3` against four trades makes both memories forget, a page of one loses
  rows, and two own orders in one trade repeat an id within one answer, beside trades of one. `Reorder` says how
  far events, publication and polls lag. `StreamAssumption` relates the sizes: the ids
  of the trades that can still be offered, on both sides of a remembered one, fit into the memory
  (`2 * Window - 1 <= SeenCap`), and so do the entries of the start-up with what follows them
  (`MaxLegs * Page + 3 * Reorder - 2 <= SeenCap`). The code remembers 5000 ids, an answer had 300
  rows (`clob_submitter.cpp:633`); at 300 rows this allows a lag of 1250 trades with 4 own
  orders in every row, or of 100 trades with 15. The instance meets both bounds with equality.
- `Sustained = 3` is the code's constant; late publication alone misreads a whole streak, without
  a fault. Two days are needed for a baseline to become stale. Three units of equity and a loss
  budget of one give room for a buy, a sale, a loss and its recovery; the proofs have no bound.
- `RejectLimit` is 3 in the code (`tail_vendor_main.cpp:556`) and has to be positive.
- Three tokens give each book a scope and one scope of two tokens that compete for its limit. Two
  fills and a page of one let a fill of the down time be recovered, counted by the recovery and by
  the first poll, or fall off the page. With two other positions, the account is large enough for
  `MinShown = 3` exactly while it holds one of ours.

**Fairness.**
- LiveMaker: the main thread runs; the 15 s timer expires again and again, also in iterations
  without a beat (`reeval_interval_s` is 300 s); the data API eventually publishes. Crashes,
  kills, fills and starts are not assumed.
- Reflex: threads run, a beat ends, and the refresh timer of a token that stays quoted keeps
  expiring (`order_expiry_s` 120 forces a re-centre every 60 s).
- KillSwitch: a running loop keeps sampling (every 15 s), the data API publishes. `LossStops` has
  a premise: trading comes to rest (remark below).
- ApiGet: threads inside `Get` run (every socket call has a time limit) and an allocation does
  not fail for ever. `cv_` is not fair, so only *somebody* is served.
- BackgroundWriter: the writer thread runs, some of its rounds are a second apart, and a waiter
  whose predicate holds is woken (both counters change and notify under the lock).
- MarketFeed: threads run and REST calls are answered or time out. Nothing is assumed of the
  WebSocket upgrade: the code waits for its answer without a bound, so `StopReturns` and
  `SubscriptionFollows` name a request that stays unanswered as their exception. Nothing makes
  books change, subscriptions change or shutdown come.
- FillStream: trades are published and the loop polls. Queries may fail, not for ever.
- TailVendor: the program keeps scanning and is restarted (systemd, watchdog), the data API
  catches up. Nothing is assumed of the size of the account: `BudgetFreed` names an account of
  fewer than three positions as its exception.

## 4. Findings

1. `NoSilentExit` – `runner.cpp:1707` promises that shutdown never leaves silently with a
   position. It ignores the answers of its flattens, does not flatten the NO inventory, and its
   last step looks only at fills not polled before: a NO position can stay unreported.
2. `LatchRefusesTrading` – a start under `KILL_LATCH` announces that it refuses to trade
   (`runner.cpp:252-255`), but the first `reselect` (354) runs before `stop_` is read (360).
3. `NoFalseRelease` – `tail_vendor_main.cpp:276-277` promises that a partial answer never
   reduces `held`; the only test is that the answer has three positions, and since only tokens
   still in `token_held` are corrected, what was removed never comes back.

Remarks met while modelling, without a run of their own:

- `config.cpp:49` calls `order_expiry_s` a dead-man switch; orders are sent GTC with expiration 0
  (`clob_submitter.cpp:440`, with a warning at 213-217) and outlive the process.
- `runner.cpp:769` promises no gap without quotes. `reflex_pull` marks the token before it
  cancels, so the main loop may re-quote first and lose the new orders to the late cancels; the
  quote then has none until the order refresh, which is what `QuotesRestored` relies on.
- The priming at `runner.cpp:334` mostly marks nothing: the submitter's constructor has already
  moved the cursor. A later WS status event of a trade from before the restart is handed over
  again, which is why `NoReplayByRest` speaks of the query only. When both start-up queries fail,
  the first good answer is handed over as new (`blind`).
- The user channel reports the taker's view of a trade (size, price, side) and does not leave out
  the account's own taker orders, which `clob_submitter.cpp:684-699` does for REST with the
  comment that anything else is phantom inventory; whichever source comes first wins.
- Of several own orders in one trade only the first is counted (`runner.cpp:1323`): the others,
  already behind the cursor, are dropped by the id filter and only the chain reconciliation brings
  their shares into the ledger. `HandedOnce`, `CursorSkipsNothing` and `FillsArrive` therefore speak
  of trades.
- How large the memory of ids has to be was found by the proof. The first guess,
  `Page + 2 * Reorder <= SeenCap`, is too weak: with a page of 2 and 4 remembered ids, a trade that
  the user channel reports first is pushed out of the memory by two older and two newer ones while
  queries fail, and the first good answer still has its row and hands it over again. The priming also enters an id once per own order and
  never cuts the FIFO (`runner.cpp:335-340`). At the code's 5000 ids neither can happen for lags
  of the size above.
- More trades than one page between two good polls are lost to the stream (`offPage`).
- `apply_rest_snapshot` ignores one-sided answers, so a book that has become one-sided keeps a
  phantom level when an old answer was applied last, until the next WS message or reconnect:
  hence `TwoSided` in `BooksConverge`. A subscribe frame lost on a living connection is not
  repeated: hence `sendLost` in `SubscriptionFollows`.
- The upgrade's read retries its timeouts for ever (`ws_connection.hpp:309`) before the connection
  is registered for `stop()`: a server that accepts and stays silent blocks shutdown, on either
  channel, before it has cancelled anything. This is the exception in `StopReturns`; without it TLC
  finds the property violated.
- `reconcile_held` believes no answer of fewer than three positions (`tail_vendor_main.cpp:282`):
  once redemptions leave the account with one or two, what the ledger counts too much is never
  released. This is the exception in `BudgetFreed`; without it TLC finds the property violated.
- Under trading that never rests the drawdown kill can stay silent on a real loss: right after a
  sale the USDC is there and the position value still counts, and one such sample resets the count
  (`runner.cpp:1527-1533`). Without the premise of `LossStops` TLC finds it violated.
- A start that cannot parse today's baseline file takes a fresh baseline and overwrites it without
  a word (`runner.cpp:282-299`), a torn write of the last start included: the day's budget starts
  anew (`unread` in `DailyBudget`).
- An exception between the two statements of a close sends the runner into a shutdown that
  credits the quote's capital again; the next start's `sync_capital` puts it right (`Surplus` in
  `CapitalConserved`).
- A chunked answer whose last CRLF comes separately leaves it unread: the next answer on that
  connection reads as status 0, an error, although it was complete (`persistent_https.hpp:98,
  74-77`). The answer is still consumed whole, so nothing is mixed up.
- A flush that cannot open its file discards its buffer and counts nothing
  (`background_writer.hpp:168`); `dropped_` counts only a full queue. `Flush()` before
  `FlushToDisk()` in `close()` is not needed: a round takes queue and request together.
  `WriteFileAtomic` has no caller yet.

## 5. Proofs

Checked by TLAPS for every value of the constants that satisfies the modules' named
assumptions (finite sets of pools, threads and tokens, natural numbers, the sizes of
`StreamAssumption`). Every invariant that a passing run checks is a theorem, and so is the
refinement of DurableLog: the runs show each of them on a small instance, the theorems remove
the bounds. None of the invariants is inductive by itself; what each proof adds is said below.
Each part of an inductive invariant has a step lemma with one case per action.

**LiveMakerProofs** – `TypeCorrect` (the cash never goes negative), `CapitalIsConserved` (with the
surplus of a shutdown after an exception),
`QuotesAreManaged`, `OrdersAreOwned`, `LegsAreSingle`, `StopSweepsOrders`. In the middle of a
placement the cash is already debited, `placed_` lags by a pool and an order may rest before its
quote is known. The invariant is
`TypeOK ∧ PassInv ∧ PlacedInv ∧ MoneyInv ∧ OrderInv ∧ StopInv`: which statement sequences each
pass may be in and which pools its worklist may name (`PassInv`), `placed_` up to the pool being
placed (`PlacedInv`), the cash up to what the sequence under way owes (`MoneyInv`), that a pool
about to be closed and a leg about to be placed have no order unless a cancel is in doubt
(`OrderInv`), and that a doubtful cancel has cost a fault, shutdown still has every active quote before it, and
after its sweep only a second fault can have left an order (`StopInv`; lemma `DoubtCosts`).

**ApiGetProofs**, on the pool alone – `PoolIsBounded`, `SlotsAreCounted`, `WakeupsAreNotLost`. The
conjunction of the three with the type invariant is inductive; the lemmas compute how the
cardinalities of the sets of threads at each place change when one thread, or a notifier and a
waiter, move. On whole calls – `CallsUseThePool`: every step of ApiGet is a step of the pool or
leaves it alone, so the pool's theorems carry over (`CallsKeepThePool`). `AnswersAreOwn` rests on
`ConnInv`: no connection, idle or lent, ever holds an unread *answer*, only a CRLF or the rest of
an answer whose server has closed; that is what the `Shut` after every timeout and truncation
buys. `RateIsBounded` rests on `BucketInv`: the grants of every window that ends at the last
refill, with the tokens left, are within the bound of that window; a refill adds to both sides
alike, and a full bucket only loses tokens.

**KillSwitchProofs** – `TypeCorrect`, `BudgetIsDaily`, `KillIsSticky`, `AlarmsAreReal`, from
`NumbersInv ∧ LatchInv ∧ BudgetInv ∧ AlarmInv ∧ FlagsInv`: unless a start could not read it back,
today's baseline file holds the first baseline of the day, a process past its boot check under a latch has `stop_`
set, and without a real loss the streak of low samples is no longer than the streak of misread ones.

**ReflexProofs** – `TypeCorrect`, `WakeNeverLost`. `NoLostWake` speaks of a sleeping loop; the
invariant `WakeInv` starts earlier, when `poll_once` empties `reflex_cancelled_`: while the flag is
down, every token in the set is still its worker's to announce (`Owed`), and a loop blocked under
a raised flag has blocked before that worker, whose notification is still to come.

**BackgroundWriterProofs** – `TypeCorrect`, `CloseIsDurable`, `CrashLeavesPrefix`, `Refinement`.
The invariant: the accepted lines are, in order, the processed ones, the batch and the queue, as
consecutive intervals of line numbers (`QueueInv`); after the destructor nobody writes
(`StopInv`); every line handled is readable or in the buffer of its file, files and buffers
increase, and a file is older than its buffer (`LineInv`); an answered disk request covers the
lines of its `close()` (`CloseInv`). For the refinement, `RefinementStep` maps every step to a
step of DurableLog or a stutter, given that what is settled stays settled (`SettledGrows`).

**FillStreamProofs** – `TypeCorrect`, `HandedAtMostOnce`, `CursorPassesNoFill`, `RestNeverReplays`.
The first is the hardest argument of the project: ids are forgotten, and still no trade is handed
over twice. Whatever can still be offered lies in a window behind the last poll (`PaceInv`,
`OfferInv`); every trade handed over and inside that window is still remembered (`SeenInv`). When
the memory forgets its oldest id, the `SeenCap` ids behind it are different and none is much older
(`Fifo`), so by counting (lemma `Counting`) one of them is so much newer that the forgotten trade
has left the window (lemma `OldestIsDead`). `CursorInv` adds the fills of the answer being handed
over to `CursorSkipsNothing`.

**TailVendorProofs** – `TypeCorrect`, `OvershootLimited`. Sums over tokens are cardinalities of
sets of units, so that lemmas about finite sets (`Sum`, `Less`, `Balance`, `Singles`) replace inductions.
`SightInv`: a position, and every order of its token that a plan does not count, is in the ledger,
among the trades still to be ingested (`Unread`), missed, or slipped. `PlanInv`: the orders a plan keeps,
the positions and the placements still to come exceed no limit by more than what was not seen, so
that each placement uses up a part of what was planned, a fill only moves a unit from one sum to
the other, and whatever escapes a plan is counted once. `RoundInv` says what the phases of a round
leave at rest.

**MarketFeedProofs** – `TypeCorrect`, `ReplayIsExact`. `WsReplay` is inductive together with types
and with `LinkInv` (no token is streamed between connections). The work is in lemmas on the
replay of messages: of another token it changes nothing (`ReplayOthers`), a snapshot at the end
decides everything (`ReplaySnapshot`), a price change at the end toggles one level (`ReplayDelta`),
applying the head and replaying the tail is replaying all (`ReplayTail`), and under a snapshot the
book underneath does not matter (`ReplayCovered`). That is why the result of a replay is defined
by the last message about each level and not by a fold.

**Only model-checked:** all liveness (`EventuallyFlat`, `QuotesRestored`, `LossStops`,
`SomebodyServed`, `BudgetFreed`, `CloseReturns`, `LinesReachDisk`, `BooksConverge`,
`SubscriptionFollows`, `StopReturns`, `FillsArrive`): fairness and ENABLED are outside the
prover's reach. The three findings are counterexamples, which only TLC can give.

## 6. Plan

Done, in this order: LiveMaker, HttpsPool, Reflex, KillSwitch and TailVendor; then
BackgroundWriter with DurableLog, MarketFeed, FillStream and ApiGet; then the proofs of all their
safety invariants and of the refinement. Next:

1. Action properties from the invariants that are there: files only grow until they expire,
   the trade cursor and the writer's counters never go back, a latched kill is not taken back.
2. **Watchdog** – restart policy with its 20 min journal window and hourly limit, composed with
   TailVendor's halt; other strategies' orders on the shared account.
3. **Portfolio** – greedy selection and waterfill as pure operators against a reference.
4. **MergeFlatten** – approve, merge and receipt on chain.

**Not modelled**, and not planned: reward scoring, order-book and quote arithmetic (floating-point
formulas that only choose among behaviours the models allow anyway), signing and wire format
(pure data), telemetry and analytics (observe only; the curator's push forces a reselect, which
the beat may do at any time), configuration (the modules' constants), frame and HTTP header
encoding, the single-instance lock, the paper-trading mode, third-party code and the Python
research under `backtest/`. By lines, most of `src/cpp` is the generated DDS type support
(26,000 of 42,000 lines under `telemetry/generated`), which has no behaviour of its own; of the
hand-written code the largest unmodelled files are such data and reporting code (`db.cpp`'s
paper-trading tables, `rewards.cpp`, `analytics.cpp`, `review.cpp`, the crypto and wire code), so
the mapped share of all lines stays small although the trading control is covered.
