----------------------------- MODULE LiveMaker -----------------------------
(***************************************************************************)
(* The trading core of pmm_runner: LiveRunner's main loop driving Engine,   *)
(* the SQLite ledger and the CLOB through ClobSubmitter.                    *)
(*                                                                          *)
(* A pool is a binary market with a YES and a NO token.  A live quote rests *)
(* one BUY order on each token ("leg").  The main thread repeats            *)
(*      kill_check -> [tick_cooldowns, reevaluate_held, reselect]           *)
(*                 -> poll_once                                             *)
(* and every exchange call may fail or lose its answer, every resting order *)
(* may be filled between any two steps, and the process may crash, or an    *)
(* exception end the loop, between any two ledger statements (each SQLite   *)
(* statement commits by itself).                                            *)
(*                                                                          *)
(* The cancels, flattens and placements one operation sends in a row are    *)
(* one step.  A fill, a reflex cancel or a published position between two   *)
(* of them leaves the same state as one before or after the step (they are  *)
(* about different tokens, or meet an order that is cancelled or filled),   *)
(* and what a crash after the first call leaves is a state the reflex's     *)
(* cancel and a crash also leave.  Only a crash between two flattens needs  *)
(* one fault more here than in the code.                                    *)
(*                                                                          *)
(* Data abstracted: an order is one unit of shares; prices, rewards and P&L *)
(* are left out, so `cash` is the account's cash net of credited P&L and    *)
(* crossing costs, and every quote commits the same capital, Cap.           *)
(***************************************************************************)
EXTENDS Integers, FiniteSets

CONSTANTS
    Pools,           \* condition ids
    NoPool,          \* no pool is being worked on
    Capital,         \* cfg_.capital
    Cap,             \* committed_capital of one quote
    CooldownRounds,  \* cfg_.cooldown_rounds
    OrphanSweep,     \* cfg_.orphan_sweep: the account belongs to this runner
    MaxFills,        \* bound: fills in a behaviour
    MaxFaults        \* bound: failed calls, failed reads and crashes

ASSUME PoolsAssumption == IsFiniteSet(Pools) /\ NoPool \notin Pools
ASSUME MoneyAssumption == Capital \in Nat /\ Cap \in Nat \ {0}
ASSUME BoundsAssumption ==
    /\ CooldownRounds \in Nat
    /\ OrphanSweep \in BOOLEAN
    /\ MaxFills \in Nat
    /\ MaxFaults \in Nat

Tokens == Pools \X {"yes", "no"}
Yes(p) == <<p, "yes">>
No(p) == <<p, "no">>
Legs(p) == {Yes(p), No(p)}

VARIABLES
    \* The exchange and the chain.
    orders,    \* resting BUY orders of this account per token
    pos,       \* shares held per token
    chain,     \* positions as the data API last published them (settles late)
    unseen,    \* fills poll_fills has not returned yet
    \* The ledger (SQLite, survives a crash).
    active,    \* pools whose quote has status 'active'
    inv,       \* inventory and complement_inventory of the active quotes
    cash,
    \* The process.
    pc,        \* the pass of the main loop
    todo,      \* pools the pass still has to visit
    want,      \* the ideal set of the current reselect
    op, cur,   \* statement sequence under way, and its pool
    batch,     \* the fills poll_once is applying
    placed,    \* placed_
    cooldown,  \* cooldown_
    held,      \* Engine::chain_positions_, the place guard's snapshot
    armed,     \* usdc_start_ was readable at start-up
    booting,   \* before the first loop iteration
    fresh,     \* this iteration's kill_check ran its 15 s block
    warned,    \* tokens named by shutdown's "MANUAL FLATTEN NEEDED"
    \* Bounds, and what the exchange left unanswered.
    fills, faults,
    unconfirmed  \* tokens whose last CANCEL was not acknowledged

exchange == <<orders, pos, chain, unseen>>
ledger == <<active, inv, cash>>
memory == <<want, placed, cooldown, held, armed, booting, warned, fresh>>
vars == <<exchange, ledger, memory, pc, todo, op, cur, batch, fills, faults, unconfirmed>>

Zero == [t \in Tokens |-> 0]
Passes == {"down", "kill", "beat", "reeval", "drop", "add", "poll",
           "stopping", "residual", "stopped"}
Ops == {"none", "debited", "legYes", "legNo", "legNoBad", "rollback", "credit", "credited"}
Up == pc \notin {"down", "stopped"}

Init ==
    /\ orders = Zero /\ pos = Zero /\ chain = Zero /\ unseen = Zero
    /\ active = {} /\ inv = Zero /\ cash = Capital
    /\ pc = "down" /\ todo = {} /\ want = {} /\ op = "none" /\ cur = NoPool
    /\ batch = Zero /\ placed = {} /\ cooldown = [p \in Pools |-> 0]
    /\ held = Zero /\ armed = FALSE /\ booting = FALSE /\ warned = {} /\ fresh = FALSE
    /\ fills = 0 /\ faults = 0 /\ unconfirmed = {}

\* A step that needs something to go wrong (bad) spends one fault.
Fault(bad) ==
    /\ bad => faults < MaxFaults
    /\ faults' = faults + (IF bad THEN 1 ELSE 0)

-----------------------------------------------------------------------------
(* The exchange, as ClobSubmitter drives it.                                *)

\* A resting order is matched: the position is there at once, the fill report
\* and the published chain position come later.
Fill(t) ==
    /\ orders[t] > 0
    /\ fills < MaxFills
    /\ orders' = [orders EXCEPT ![t] = @ - 1]
    /\ pos' = [pos EXCEPT ![t] = @ + 1]
    /\ unseen' = [unseen EXCEPT ![t] = @ + 1]
    /\ fills' = fills + 1
    /\ UNCHANGED <<chain, ledger, memory, pc, todo, op, cur, batch, faults, unconfirmed>>

\* The data API catches up.
Settle ==
    /\ chain # pos
    /\ chain' = pos
    /\ UNCHANGED <<orders, pos, unseen, ledger, memory, pc, todo, op, cur, batch,
                   fills, faults, unconfirmed>>

\* Mutant: the complement token is forgotten.
CancelledMutant(ts, kept) ==
    [t \in Tokens |-> IF t \in ts \ kept /\ t[2] = "yes" THEN 0 ELSE orders[t]]

\* CANCEL_ALL on every token of ts: it fails or its answer is lost on `lost`,
\* and has had no effect on `kept`.
Cancelled(ts, kept) == [t \in Tokens |-> IF t \in ts \ kept THEN 0 ELSE orders[t]]
Cancel(ts, lost) ==
    /\ \E kept \in SUBSET lost : orders' = Cancelled(ts, kept)
    /\ unconfirmed' = (unconfirmed \ ts) \cup lost

\* FLATTEN of size[t] shares of each token of ts, ERROR answered on `failed`.
\* flatten() answers FLATTENED only once the full size is known to be sold; a
\* failed one has sold anything up to what is there.  A FAK order whose answer is
\* lost counts as not sold and is sent again: more than size may be gone.
Solds == [Tokens -> 0..MaxFills]
Flatten(ts, size, failed) ==
    \E sold \in Solds :
        /\ \A t \in Tokens :
              /\ sold[t] <= pos[t]
              /\ t \notin ts \/ size[t] = 0 => sold[t] = 0
              /\ t \in ts \ failed => sold[t] >= size[t]
        /\ pos' = [t \in Tokens |-> pos[t] - sold[t]]
\* An ERROR is the exchange's doing unless the ledger asked for more than is held;
\* selling more than the size takes a lost answer.
FlattenFault(size, failed) ==
    \E t \in Tokens : (t \in failed /\ size[t] <= pos[t]) \/ pos[t] - pos'[t] > size[t]

-----------------------------------------------------------------------------
(* Ledger statements.  Each is one committed SQLite statement.              *)

EndOp == op' = "none" /\ cur' = NoPool

\* Mutant: the committed capital is not given back.
CreditCashMutant ==
    /\ op = "credit"
    /\ op' = "credited"
    /\ UNCHANGED <<exchange, ledger, memory, pc, todo, cur, batch, fills, faults, unconfirmed>>

\* cancel_maker_quote and exit_maker_quote: first the cash ...
CreditCash ==
    /\ op = "credit"
    /\ cash' = cash + Cap
    /\ op' = "credited"
    /\ UNCHANGED <<exchange, active, inv, memory, pc, todo, cur, batch,
                   fills, faults, unconfirmed>>

\* Mutant: the row of an accrual exit does not clear placed_.
CloseQuoteMutant ==
    /\ op = "credited"
    /\ active' = active \ {cur}
    /\ placed' = IF pc \in {"reeval", "drop"} THEN placed \ {cur} ELSE placed
    /\ EndOp
    /\ UNCHANGED <<exchange, inv, cash, pc, todo, want, cooldown, held, armed, fresh, booting,
                   warned, batch, fills, faults, unconfirmed>>

\* ... then the status.  exit_held and (at the end of the accrual, before anybody
\* looks) the rows of poll_once also forget the pool in placed_; place's rollback never put it there; shutdown leaves it.
CloseQuote ==
    /\ op = "credited"
    /\ active' = active \ {cur}
    /\ placed' = IF pc \in {"reeval", "drop", "poll"} THEN placed \ {cur} ELSE placed
    /\ EndOp
    /\ UNCHANGED <<exchange, inv, cash, pc, todo, want, cooldown, held, armed, fresh, booting,
                   warned, batch, fills, faults, unconfirmed>>

-----------------------------------------------------------------------------
(* place_maker_quote_live                                                   *)

\* Mutant: the capital is debited once per leg.
PlaceDebitMutant(p) ==
    /\ pc = "add" /\ op = "none" /\ p \in todo
    /\ (Cardinality(placed) + 1) * Cap <= Capital
    /\ Cap <= cash
    /\ cash' = cash - 2 * Cap
    /\ todo' = todo \ {p}
    /\ op' = "debited" /\ cur' = p
    /\ UNCHANGED <<exchange, active, inv, memory, pc, batch, fills, faults, unconfirmed>>

\* Budget test of reselect, then place_maker_quote: cap > cash throws, else the
\* cash is debited.
PlaceDebit(p) ==
    /\ pc = "add" /\ op = "none" /\ p \in todo
    /\ (Cardinality(placed) + 1) * Cap <= Capital
    /\ Cap <= cash
    /\ cash' = cash - Cap
    /\ todo' = todo \ {p}
    /\ op' = "debited" /\ cur' = p
    /\ UNCHANGED <<exchange, active, inv, memory, pc, batch, fills, faults, unconfirmed>>

\* Over budget, a gate refused, or place_maker_quote threw before any effect.
PlaceSkip(p) ==
    /\ pc = "add" /\ op = "none" /\ p \in todo
    /\ todo' = todo \ {p}
    /\ UNCHANGED <<exchange, ledger, memory, pc, op, cur, batch, fills, faults, unconfirmed>>

\* create_maker_quote.  If the snapshot shows shares of either token, the guard
\* returns "skipped_holding": the quote stays active and reselect records it.
PlaceCreate ==
    LET holding == \E t \in Legs(cur) : held[t] >= 1 IN
    /\ op = "debited"
    /\ active' = active \cup {cur}
    /\ inv' = [t \in Tokens |-> IF t \in Legs(cur) THEN 0 ELSE inv[t]]
    /\ \/ holding /\ placed' = placed \cup {cur} /\ EndOp
       \/ ~holding /\ op' = "legYes" /\ UNCHANGED <<cur, placed>>
    /\ UNCHANGED <<exchange, cash, pc, todo, want, cooldown, held, armed, fresh, booting, warned,
                   batch, fills, faults, unconfirmed>>

\* One PLACE: a refused order does not rest, a lost answer may hide one that does.
Place(t, acked) ==
    \E rests \in BOOLEAN :
        /\ acked => rests
        /\ Fault(~acked)
        /\ orders' = [orders EXCEPT ![t] = @ + (IF rests THEN 1 ELSE 0)]

PlaceYes ==
    /\ op = "legYes"
    /\ \E acked \in BOOLEAN :
          /\ Place(Yes(cur), acked)
          /\ op' = IF acked THEN "legNo" ELSE "legNoBad"
    /\ UNCHANGED <<pos, chain, unseen, ledger, memory, pc, todo, cur, batch, fills, unconfirmed>>

\* The NO leg is sent whatever became of the YES leg; both accepted, reselect
\* records the pool, else the rollback follows.
PlaceNo ==
    /\ op \in {"legNo", "legNoBad"}
    /\ \E acked \in BOOLEAN :
          /\ Place(No(cur), acked)
          /\ IF acked /\ op = "legNo"
             THEN placed' = placed \cup {cur} /\ EndOp
             ELSE op' = "rollback" /\ UNCHANGED <<placed, cur>>
    /\ UNCHANGED <<pos, chain, unseen, ledger, pc, todo, want, cooldown, held, armed, fresh,
                   booting, warned, batch, fills, unconfirmed>>

\* Mutant: the ledger is rolled back, the accepted leg is not cancelled.
PlaceRollbackMutant ==
    /\ op = "rollback"
    /\ op' = "credit"
    /\ UNCHANGED <<exchange, ledger, memory, pc, todo, cur, batch, fills, faults, unconfirmed>>

\* CANCEL_ALL on both tokens, answers ignored, then cancel_maker_quote.
PlaceRollback ==
    /\ op = "rollback"
    /\ \E lost \in SUBSET Legs(cur) : Fault(lost # {}) /\ Cancel(Legs(cur), lost)
    /\ op' = "credit"
    /\ UNCHANGED <<pos, chain, unseen, ledger, memory, pc, todo, cur, batch, fills>>

-----------------------------------------------------------------------------
(* The re-evaluation beat.                                                  *)

\* No beat due (its interval has not passed, no forced reselect).
BeatSkip ==
    /\ pc = "beat" /\ ~booting
    /\ pc' = "poll" /\ todo' = active
    /\ batch' = unseen /\ unseen' = Zero
    /\ UNCHANGED <<orders, pos, chain, ledger, memory, op, cur, fills, faults, unconfirmed>>

\* tick_cooldowns, then reevaluate_held visits every held pool.
BeatStart ==
    /\ pc = "beat"
    /\ cooldown' = [p \in Pools |-> IF cooldown[p] > 0 THEN cooldown[p] - 1 ELSE 0]
    /\ pc' = "reeval" /\ todo' = IF booting THEN {} ELSE placed
    /\ UNCHANGED <<exchange, ledger, want, placed, held, armed, fresh, booting, warned, op, cur,
                   batch, fills, faults, unconfirmed>>

\* reevaluate_held keeps the pool.
Keep(p) ==
    /\ pc = "reeval" /\ op = "none" /\ p \in todo
    /\ todo' = todo \ {p}
    /\ UNCHANGED <<exchange, ledger, memory, pc, op, cur, batch, fills, faults, unconfirmed>>

\* exit_held: CANCEL_ALL on both tokens and FLATTEN of the YES inventory, all
\* answers ignored; then cancel_maker_quote.  A degraded pool cools down; one
\* whose rewards ended and a deselected one do not (kCooldownReasons).
ExitHeld(p) ==
    /\ pc \in {"reeval", "drop"} /\ op = "none" /\ p \in todo
    /\ LET size == [t \in Tokens |-> IF t = Yes(p) THEN inv[t] ELSE 0] IN
       \E lost \in SUBSET Legs(p), failed \in SUBSET {Yes(p)} :
          /\ \A t \in failed : size[t] > 0
          /\ Cancel(Legs(p), lost)
          /\ Flatten({Yes(p)}, size, failed)
          /\ Fault(lost # {} \/ FlattenFault(size, failed))
    /\ \/ cooldown' = cooldown
       \/ pc = "reeval" /\ cooldown' = [cooldown EXCEPT ![p] = CooldownRounds]
    /\ todo' = todo \ {p}
    /\ op' = "credit" /\ cur' = p
    /\ UNCHANGED <<chain, unseen, ledger, want, placed, held, armed, fresh, booting, warned, pc,
                   batch, fills>>

\* reselect picks the ideal set (never a pool in cooldown); then DROP visits the
\* placed pools outside it.  A stale discovery report returns at once (Idle).
Reselect ==
    /\ pc = "reeval" /\ op = "none" /\ todo = {}
    /\ \E w \in SUBSET {p \in Pools : cooldown[p] = 0} :
          /\ want' = w
          /\ todo' = placed \ w
    /\ pc' = "drop"
    /\ UNCHANGED <<exchange, ledger, placed, cooldown, held, armed, fresh, booting, warned, op, cur,
                   batch, fills, faults, unconfirmed>>

ReselectStale ==
    /\ pc = "reeval" /\ op = "none" /\ todo = {}
    /\ pc' = "add" /\ todo' = {}
    /\ UNCHANGED <<exchange, ledger, memory, op, cur, batch, fills, faults, unconfirmed>>

AddStart ==
    /\ pc = "drop" /\ op = "none" /\ todo = {}
    /\ pc' = "add" /\ todo' = want \ placed
    /\ UNCHANGED <<exchange, ledger, memory, op, cur, batch, fills, faults, unconfirmed>>

\* The beat is over: poll_once takes the new fills (at start-up the loop begins).
BeatEnd ==
    /\ pc = "add" /\ op = "none" /\ todo = {}
    /\ IF booting
       THEN pc' = "kill" /\ UNCHANGED <<todo, batch, unseen>>
       ELSE pc' = "poll" /\ todo' = active /\ batch' = unseen /\ unseen' = Zero
    /\ booting' = FALSE
    /\ UNCHANGED <<orders, pos, chain, ledger, want, placed, cooldown, held, armed, fresh, warned,
                   op, cur, fills, faults, unconfirmed>>

-----------------------------------------------------------------------------
(* poll_once: accrue_maker_rewards_live over the active quotes.             *)

\* The reward config or the book could not be read: the quote is skipped and
\* the fills already taken for it are dropped.
AccrueSkip(p) ==
    /\ pc = "poll" /\ op = "none" /\ p \in todo
    /\ Fault(TRUE)
    /\ todo' = todo \ {p}
    /\ UNCHANGED <<exchange, ledger, memory, pc, op, cur, batch, fills, unconfirmed>>

\* New fills, or what an earlier exit failed to sell.
Touched(p) == \E t \in Legs(p) : batch[t] > 0 \/ inv[t] >= 1

\* RECONCILE (the pool left the reward programme) and FILLED_EXIT: cancel both
\* legs, flatten both.  All answered well: the quote exits flat.  Otherwise both
\* inventories are persisted in full and the next round retries.
AccrueExit(p, ended) ==
    /\ pc = "poll" /\ op = "none" /\ p \in todo
    /\ ended \/ Touched(p)
    /\ LET size == [t \in Tokens |-> IF t \in Legs(p) THEN inv[t] + batch[t] ELSE 0] IN
       \E lost, failed \in SUBSET Legs(p) :
          /\ \A t \in failed : size[t] > 0
          /\ Cancel(Legs(p), lost)
          /\ Flatten(Legs(p), size, failed)
          /\ Fault(lost # {} \/ FlattenFault(size, failed))
          /\ IF lost \cup failed = {}
             THEN /\ inv' = [t \in Tokens |-> IF t \in Legs(p) THEN 0 ELSE inv[t]]
                  /\ op' = "credit" /\ cur' = p
                  /\ cooldown' = IF ended THEN cooldown
                                 ELSE [cooldown EXCEPT ![p] = CooldownRounds]
             ELSE /\ inv' = [t \in Tokens |-> IF t \in Legs(p) THEN size[t] ELSE inv[t]]
                  /\ UNCHANGED <<op, cur, cooldown>>
    /\ todo' = todo \ {p}
    /\ UNCHANGED <<chain, unseen, active, cash, want, placed, held, armed, fresh, booting, warned,
                   pc, batch, fills>>

\* DRIFT-EXIT: nothing held, the mid left the band: cancel both legs and exit;
\* a failed cancel leaves the quote for the next round.
AccrueDrift(p) ==
    /\ pc = "poll" /\ op = "none" /\ p \in todo
    /\ ~Touched(p)
    /\ \E lost \in SUBSET Legs(p) :
          /\ Fault(lost # {})
          /\ Cancel(Legs(p), lost)
          /\ IF lost = {}
             THEN /\ op' = "credit" /\ cur' = p
                  /\ cooldown' = [cooldown EXCEPT ![p] = CooldownRounds]
             ELSE UNCHANGED <<op, cur, cooldown>>
    /\ todo' = todo \ {p}
    /\ UNCHANGED <<pos, chain, unseen, ledger, want, placed, held, armed, fresh, booting, warned,
                   pc, batch, fills>>

\* RE-CENTER (the mid moved, or the reflex or the order refresh forced it):
\* cancel both legs and place both again; every answer is ignored.
AccrueRecenter(p) ==
    /\ pc = "poll" /\ op = "none" /\ p \in todo
    /\ ~Touched(p)
    /\ \E lost, refused \in SUBSET Legs(p) :
       \E kept \in SUBSET lost, hidden \in SUBSET refused :
          /\ Fault(lost \cup refused # {})
          /\ orders' = [t \in Tokens |->
                Cancelled(Legs(p), kept)[t]
                  + (IF t \in (Legs(p) \ refused) \cup hidden THEN 1 ELSE 0)]
          /\ unconfirmed' = (unconfirmed \ Legs(p)) \cup lost
    /\ todo' = todo \ {p}
    /\ UNCHANGED <<pos, chain, unseen, ledger, memory, pc, op, cur, batch, fills>>

\* Nothing moved: only the reward bookkeeping.
AccrueHold(p) ==
    /\ pc = "poll" /\ op = "none" /\ p \in todo
    /\ ~Touched(p)
    /\ todo' = todo \ {p}
    /\ UNCHANGED <<exchange, ledger, memory, pc, op, cur, batch, fills, faults, unconfirmed>>

PollEnd ==
    /\ pc = "poll" /\ op = "none" /\ todo = {}
    /\ batch' = Zero
    /\ pc' = "kill"
    /\ UNCHANGED <<exchange, ledger, memory, todo, op, cur, fills, faults, unconfirmed>>

-----------------------------------------------------------------------------
(* The reflex threads                                                       *)

\* reflex_pull on the WS reader or a resync worker: CANCEL_ALL on a leg, answer
\* ignored, between any two steps of the main thread.  Module Reflex has the
\* hand-over to the main loop.  shutdown joins these threads first.
ReflexCancel(t) ==
    /\ pc \in {"kill", "beat", "reeval", "drop", "add", "poll"}
    /\ orders[t] > 0
    /\ \E lost \in SUBSET {t} : Fault(lost # {}) /\ Cancel({t}, lost)
    /\ UNCHANGED <<pos, chain, unseen, ledger, memory, pc, todo, op, cur, batch, fills>>

-----------------------------------------------------------------------------
(* kill_check                                                               *)

\* The 15 s block is not due, or was never armed.
KillCheckQuiet ==
    /\ pc = "kill"
    /\ pc' = "beat" /\ fresh' = FALSE
    /\ UNCHANGED <<exchange, ledger, want, placed, cooldown, held, armed, booting, warned,
                   todo, op, cur, batch, fills, faults, unconfirmed>>

\* chain_positions(): a query that fails answers like an account without positions.
ChainReads == {chain, Zero}

\* Mutant: an inventory is only ever lowered to the reading, never raised.
ReconciledMutant(reading) ==
    [t \in Tokens |-> IF t[1] \in active /\ reading[t] < inv[t] THEN reading[t] ELSE inv[t]]

\* reconcile_inventory: the active quotes take both inventories from the reading.
Reconciled(reading) == [t \in Tokens |-> IF t[1] \in active THEN reading[t] ELSE inv[t]]

\* The 15 s block: reconcile the active quotes with the reading, give the same
\* reading to the place guard and, if the account is ours alone, flatten what it
\* shows on tokens no active quote owns.
KillCheckRefresh ==
    /\ pc = "kill" /\ armed
    /\ \E reading \in ChainReads :
       LET orphans == {t \in Tokens : OrphanSweep /\ reading[t] >= 1 /\ t[1] \notin active}
           size == [t \in Tokens |-> IF t \in orphans THEN reading[t] ELSE 0] IN
       \E failed \in SUBSET orphans :
          /\ inv' = Reconciled(reading)
          /\ held' = reading
          /\ Flatten(orphans, size, failed)
          /\ Fault(reading # chain \/ FlattenFault(size, failed))
    /\ pc' = "beat" /\ fresh' = TRUE
    /\ UNCHANGED <<orders, chain, unseen, active, cash, want, placed, cooldown, armed,
                   booting, warned, todo, op, cur, batch, fills, unconfirmed>>

\* A signal, the kill file, the loss limits or the wallet floor: stand down.
TripKill ==
    /\ pc \in {"kill", "beat"}
    /\ pc' = "stopping" /\ todo' = active
    /\ UNCHANGED <<exchange, ledger, memory, op, cur, batch, fills, faults, unconfirmed>>

\* An exception leaves the loop and is swallowed: shutdown follows from wherever
\* the loop was.  What place throws is caught by reselect; poll_fills' answer is
\* gone with poll_once (and placed_ keeps the pools this accrual closed, which only
\* the sweep of a shared account would look at).
Raise ==
    /\ pc \in {"kill", "beat", "reeval", "drop", "add", "poll"}
    /\ op \in {"none", "credit", "credited"} /\ (pc = "add" => op = "none")
    /\ Fault(TRUE)
    /\ pc' = "stopping" /\ todo' = active
    /\ op' = "none" /\ cur' = NoPool /\ batch' = Zero
    /\ UNCHANGED <<exchange, ledger, memory, fills, unconfirmed>>

-----------------------------------------------------------------------------
(* shutdown, crash and start                                                *)

\* For every active quote: CANCEL_ALL on both tokens, FLATTEN of the YES
\* inventory, answers ignored; then cancel_maker_quote.
StopQuote(p) ==
    /\ pc = "stopping" /\ op = "none" /\ p \in todo
    /\ LET size == [t \in Tokens |-> IF t = Yes(p) THEN inv[t] ELSE 0] IN
       \E lost \in SUBSET Legs(p), failed \in SUBSET {Yes(p)} :
          /\ \A t \in failed : size[t] > 0
          /\ Cancel(Legs(p), lost)
          /\ Flatten({Yes(p)}, size, failed)
          /\ Fault(lost # {} \/ FlattenFault(size, failed))
    /\ todo' = todo \ {p}
    /\ op' = "credit" /\ cur' = p
    /\ UNCHANGED <<chain, unseen, ledger, memory, pc, batch, fills>>

\* Mutant: the sweep is restricted to the runner's own tokens in every mode.
SweepableMutant(own) == {t \in Tokens : orders[t] > 0 /\ t \in own}

\* The open orders a sweep may cancel one by one.  No quote is active any more,
\* so the runner's own tokens are the YES tokens of placed_.
Sweepable(own) == {t \in Tokens : orders[t] > 0 /\ (OrphanSweep \/ t \in own)}

StopSweep ==
    /\ pc = "stopping" /\ op = "none" /\ todo = {}
    /\ LET swept == Sweepable({Yes(p) : p \in placed}) IN
       \E lost \in SUBSET swept : Fault(lost # {}) /\ Cancel(swept, lost)
    /\ pc' = "residual"
    /\ UNCHANGED <<pos, chain, unseen, ledger, memory, todo, op, cur, batch, fills>>

\* Fills that came in since the last poll are flattened, up to four rounds; what
\* still fails is reported for manual flattening.  A failed poll reports nothing.
StopResidual ==
    /\ pc = "residual"
    /\ \E polled \in BOOLEAN :
       LET size == IF polled THEN unseen ELSE Zero
           residual == {t \in Tokens : size[t] > 0} IN
       \E failed \in SUBSET residual :
          /\ Flatten(residual, size, failed)
          /\ Fault(~polled \/ FlattenFault(size, failed))
          /\ unseen' = IF polled THEN Zero ELSE unseen
          /\ warned' = failed
    /\ pc' = "stopped"
    /\ UNCHANGED <<orders, chain, ledger, want, placed, cooldown, held, armed, fresh, booting, todo,
                   op, cur, batch, fills, unconfirmed>>

\* The process dies between any two steps; its memory is gone, the ledger is not.
\* An exception inside shutdown comes to the same: it is swallowed, the rest of the
\* shutdown is skipped and the process ends.
Crash ==
    /\ Up
    /\ Fault(TRUE)
    /\ pc' = "down" /\ todo' = {} /\ op' = "none" /\ cur' = NoPool /\ batch' = Zero
    /\ want' = {} /\ placed' = {} /\ cooldown' = [p \in Pools |-> 0] /\ held' = Zero
    /\ armed' = FALSE /\ booting' = FALSE /\ fresh' = FALSE /\ warned' = {}
    /\ UNCHANGED <<exchange, ledger, fills, unconfirmed>>

\* ensure_engine (sync_capital), rehydrate, reconcile_broker_orders (it takes
\* only the YES tokens of the adopted quotes for its own), reconcile_inventory,
\* and the fill cursor primed past every fill so far.
Start ==
    /\ ~Up
    /\ LET free == Capital - Cap * Cardinality(active) IN cash' = IF free > 0 THEN free ELSE 0
    /\ placed' = active
    /\ \E reading \in ChainReads, readable \in BOOLEAN :
       LET foreign == {t \in Tokens : OrphanSweep /\ orders[t] > 0
                                       /\ t \notin {Yes(p) : p \in active}} IN
       \E lost \in SUBSET foreign :
          /\ inv' = Reconciled(reading)
          /\ armed' = readable
          /\ Fault(reading # chain \/ ~readable \/ lost # {})
          /\ Cancel(foreign, lost)
    /\ unseen' = Zero
    /\ cooldown' = [p \in Pools |-> 0] /\ held' = Zero /\ want' = {}
    /\ warned' = {} /\ booting' = TRUE /\ fresh' = FALSE
    /\ pc' = "kill"
    /\ UNCHANGED <<pos, chain, active, todo, op, cur, batch, fills>>

-----------------------------------------------------------------------------
Beat == BeatSkip \/ BeatStart \/ Reselect \/ ReselectStale \/ AddStart \/ BeatEnd
PlaceStep == PlaceCreate \/ PlaceYes \/ PlaceNo \/ PlaceRollback
Statement == CreditCash \/ CloseQuote
Visit(p) ==
    \/ Keep(p) \/ ExitHeld(p) \/ PlaceDebit(p) \/ PlaceSkip(p)
    \/ AccrueSkip(p) \/ AccrueExit(p, TRUE) \/ AccrueExit(p, FALSE) \/ AccrueDrift(p)
    \/ AccrueRecenter(p) \/ AccrueHold(p) \/ StopQuote(p)
KillCheck == KillCheckQuiet \/ KillCheckRefresh
Stop == StopSweep \/ StopResidual

MainThread ==
    Beat \/ PlaceStep \/ Statement \/ (\E p \in Pools : Visit(p)) \/ PollEnd \/ KillCheck \/ Stop

Next ==
    \/ MainThread \/ TripKill \/ Raise \/ Crash \/ Start \/ Settle
    \/ \E t \in Tokens : Fill(t) \/ ReflexCancel(t)

\* The main thread keeps running; its 15 s timer keeps expiring, also in
\* iterations without a beat (reeval_interval_s is 300 s); the data API
\* eventually publishes what the chain says.  Nothing makes a kill, a crash, a
\* start or a fill happen.
Fairness ==
    /\ WF_vars(MainThread)
    /\ SF_vars(KillCheckRefresh)
    /\ SF_vars(BeatSkip /\ fresh)
    /\ WF_vars(Settle)

Spec == Init /\ [][Next]_vars
FairSpec == Spec /\ Fairness

-----------------------------------------------------------------------------
TypeOK ==
    /\ orders \in [Tokens -> Nat] /\ pos \in [Tokens -> Nat]
    /\ chain \in [Tokens -> Nat] /\ unseen \in [Tokens -> Nat]
    /\ active \in SUBSET Pools /\ inv \in [Tokens -> Nat] /\ cash \in Nat
    /\ pc \in Passes /\ todo \in SUBSET Pools /\ want \in SUBSET Pools
    /\ op \in Ops /\ cur \in Pools \cup {NoPool}
    /\ batch \in [Tokens -> Nat] /\ placed \in SUBSET Pools
    /\ cooldown \in [Pools -> Nat] /\ held \in [Tokens -> Nat]
    /\ armed \in BOOLEAN /\ booting \in BOOLEAN /\ fresh \in BOOLEAN
    /\ warned \in SUBSET Tokens /\ unconfirmed \in SUBSET Tokens
    /\ fills \in Nat /\ faults \in Nat

\* What the books may be over: an exception between the two statements of a close
\* sends the runner into shutdown, which credits the quote's capital once more.
Surplus == IF pc \in {"stopping", "residual"} THEN {0, Cap} ELSE {0}

\* Between operations of a running process, cash plus the capital the active
\* quotes hold is the configured capital: no path of place, rollback, exit,
\* shutdown, crash and restart loses or duplicates capital although the two
\* statements of each change commit separately (engine.cpp:101-107,340-341,849-857).
\* A shutdown after an exception may be over by one quote, never by more, and the
\* next start has the right sum again.
CapitalConserved ==
    Up /\ op = "none" => cash + Cap * Cardinality(active) - Capital \in Surplus

\* Between operations of a beat and whenever kill_check runs, the runner's placed_
\* and the ledger's active quotes name the same pools: a quote placed_ does not know would never be
\* re-evaluated, and a pool placed_ wrongly knows would block its budget
\* (runner.cpp:485-504,955-1012,1258-1290,1454-1460).
ManagedQuotes ==
    op = "none" /\ pc \in {"kill", "beat", "reeval", "drop", "add"} => placed = active

\* An order rests on a pool without active quote only if the exchange never
\* acknowledged the last cancel on that token: every exit path, the rollback of
\* a half-placed quote and a crash in the middle of one included
\* (engine.cpp:513-521, runner.cpp:1258-1290,1661-1673).
OrdersOwned ==
    \A t \in Tokens : orders[t] > 0 /\ t[1] \notin active => t \in unconfirmed

\* No leg is quoted twice unless a cancel on it went unacknowledged: re-centring
\* and re-placing never stack orders by themselves (engine.cpp:703-721).
OneOrderPerLeg == \A t \in Tokens : orders[t] <= 1 \/ t \in unconfirmed

\* On an account of its own, a shutdown after at most one failed call, in this
\* run or an earlier one, leaves no order on the book: what a lost cancel left
\* behind, the sweep of the open orders finds (runner.cpp:1676-1703).
StopLeavesNoOrder ==
    pc = "stopped" /\ OrphanSweep /\ faults <= 1 => \A t \in Tokens : orders[t] = 0

\* A held position is eventually sold while the runner stays up with its 15 s
\* block armed, whatever fills were dropped, double counted or partly flattened
\* on the way (engine.cpp:636-672,749-786, runner.cpp:1495-1523).
EventuallyFlat ==
    \A t \in Tokens : pos[t] > 0 ~> (pos[t] = 0 \/ ~Up \/ ~armed)

\* Shutdown never leaves silently with a position ("平不掉的最后大声告警,
\* 绝不静默带仓退出", runner.cpp:1707).
NoSilentExit == pc = "stopped" => \A t \in Tokens : pos[t] > 0 => t \in warned
=============================================================================
