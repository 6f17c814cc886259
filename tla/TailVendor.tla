----------------------------- MODULE TailVendor -----------------------------
(***************************************************************************)
(* The tail_vendor program in scan mode: it sells the tail of a price       *)
(* market by resting BUY NO orders under hard capital limits.  A round is   *)
(*   reconcile_held -> poll_fills -> list_open_orders, plan -> execute       *)
(* and the ledger (state/tail_vendor_held.json) survives the process.        *)
(*                                                                          *)
(* An order is one unit of collateral, and so is the position it becomes.   *)
(* The per-market, per-coin and total limits of the core and of the touch   *)
(* book all have one form: a set of tokens (a scope) and its limit.  Prices *)
(* are left out: decide may refuse any candidate, plan may pull any order.  *)
(***************************************************************************)
EXTENDS Integers, Sequences, FiniteSets

CONSTANTS
    Tokens,       \* NO tokens
    Touch,        \* the touch book; the others are core
    Scopes,       \* sets of tokens with a common limit
    Limit(_),     \* the limit of a scope
    MaxOrders,    \* cfg.max_orders
    TouchMax,     \* cfg.touch_max_orders
    RejectLimit,  \* business rejects in a row that halt the program
    NetLimit,     \* transport errors in a row that end the round
    Page,         \* trades in one answer of /data/trades
    Others,       \* positions of the other strategies on the account
    MinShown,     \* positions an answer must have to be believed
    MaxFills,     \* bound: fills in a behaviour
    MaxFaults     \* bound: failed calls, failed or partial reads and crashes

ASSUME TailAssumption ==
    /\ IsFiniteSet(Tokens) /\ Touch \subseteq Tokens /\ Scopes \subseteq SUBSET Tokens
    /\ \A s \in Scopes : Limit(s) \in Nat
    /\ {MaxOrders, TouchMax, NetLimit, Page, Others, MinShown, MaxFills, MaxFaults} \subseteq Nat
    /\ RejectLimit \in Nat \ {0}

VARIABLES
    \* The exchange and the chain.
    orders,    \* resting orders per token
    pos,       \* shares held per token
    chain,     \* positions as the data API last published them
    trades,    \* the account's trades, oldest first: the token, and whether we were maker
    \* The ledger file.
    held,      \* token_held (total and coin are its sums)
    known,     \* keys of token_coin: tokens this program has placed on
    last,      \* last_trade_id, as an index of trades (0: empty)
    \* The process.
    pc,
    cursor,    \* the submitter's own last_trade_id_ (0: unset)
    batch,     \* indices of the trades being ingested
    toCancel, toPlace,  \* the rest of the plan
    cur,       \* the token just placed, not yet registered (a set of at most one)
    rejects, neterr,
    \* Ghosts: collateral out of the program's sight.
    missed,    \* trades that a plan or the ledger did not see, as indices
    slip,      \* per token: orders that a plan did not see, positions released falsely
    faults

world == <<orders, pos, chain, trades>>
ledger == <<held, known, last>>
round == <<batch, toCancel, toPlace, cur>>
counts == <<rejects, neterr>>
ghosts == <<missed, slip>>
vars == <<world, ledger, pc, cursor, round, counts, ghosts, faults>>

Zero == [t \in Tokens |-> 0]
Places == {"down", "boot", "fetch", "recover", "top", "poll", "fills", "exec", "placed"}
\* The sum of f over S, as a number of units of collateral.
Units(f, S) == UNION {{t} \X (1..f[t]) : t \in S}
Total(f, S) == Cardinality(Units(f, S))
\* What extract_new_fills makes of the page of trades newer than from: a row in which
\* we were the taker is skipped.
Shown(from) == {i \in (from + 1)..Len(trades) : i > Len(trades) - Page /\ trades[i].maker}
Misses(I) == missed' = missed \cup {i \in I : trades[i].maker} /\ slip' = slip
Slips(n) == slip' = [t \in Tokens |-> slip[t] + n[t]] /\ missed' = missed

Fault(bad) ==
    /\ bad => faults < MaxFaults
    /\ faults' = faults + (IF bad THEN 1 ELSE 0)

Init ==
    /\ orders = Zero /\ pos = Zero /\ chain = Zero /\ trades = <<>>
    /\ held = Zero /\ known = {} /\ last = 0
    /\ pc = "down" /\ cursor = 0 /\ batch = {} /\ toCancel = {} /\ toPlace = {} /\ cur = {}
    /\ rejects = 0 /\ neterr = 0 /\ missed = {} /\ slip = Zero /\ faults = 0

-----------------------------------------------------------------------------
(* The exchange                                                             *)

\* An order whose cancel the running plan counts on may still be matched.
Fill(t) ==
    /\ orders[t] > 0 /\ Len(trades) < MaxFills
    /\ orders' = [orders EXCEPT ![t] = @ - 1]
    /\ pos' = [pos EXCEPT ![t] = @ + 1]
    /\ trades' = Append(trades, [token |-> t, maker |-> TRUE])
    /\ missed' = missed \cup {i \in {Len(trades) + 1} : t \in toCancel /\ toPlace # {}}
    /\ UNCHANGED <<chain, ledger, pc, cursor, round, counts, slip, faults>>

\* A resolved market is redeemed.
Redeem(t) ==
    /\ pos[t] > 0
    /\ pos' = [pos EXCEPT ![t] = 0]
    /\ UNCHANGED <<orders, chain, trades, ledger, pc, cursor, round, counts, ghosts, faults>>

Settle ==
    /\ chain # pos
    /\ chain' = pos
    /\ UNCHANGED <<orders, pos, trades, ledger, pc, cursor, round, counts, ghosts, faults>>

-----------------------------------------------------------------------------
(* Start-up                                                                 *)

\* systemd, the watchdog or the operator.  The submitter's constructor primes
\* its cursor past every trade so far; a failed prime leaves it unset.
Start ==
    /\ pc = "down"
    /\ \E primed \in BOOLEAN :
          /\ Fault(~primed)
          /\ cursor' = IF primed THEN Len(trades) ELSE 0
    /\ pc' = "boot" /\ rejects' = 0 /\ neterr' = 0
    /\ UNCHANGED <<world, ledger, round, ghosts>>

\* Mutant: a redeemed position stays in the ledger.
ReconciledMutant(reading) ==
    [t \in Tokens |-> IF held[t] > 0 /\ reading[t] > 0 THEN reading[t] ELSE held[t]]

\* Only tokens the ledger holds are corrected; nothing is written if the total is
\* the same.
Reconciled(reading) ==
    LET fresh == [t \in Tokens |-> IF held[t] > 0 THEN reading[t] ELSE 0] IN
    IF Total(fresh, Tokens) = Total(held, Tokens) THEN held ELSE fresh

\* reconcile_held, at start and in each round.  The data API may lag behind the
\* chain, fail, or answer with part of the account; an answer of fewer than three
\* positions, the other strategies' included, is not believed.
Reconcile ==
    /\ pc \in {"boot", "top"}
    /\ \E shown \in SUBSET {t \in Tokens : chain[t] > 0}, others \in 0..Others :
       LET reading == [t \in Tokens |-> IF t \in shown THEN chain[t] ELSE 0]
           real == [t \in Tokens |-> IF held[t] < pos[t] THEN held[t] ELSE pos[t]] IN
          /\ Fault(others < Others \/ \E t \in Tokens \ shown : chain[t] > 0)
          /\ held' = IF Cardinality(shown) + others >= MinShown THEN Reconciled(reading) ELSE held
          /\ Slips([t \in Tokens |-> IF held'[t] < real[t] THEN real[t] - held'[t] ELSE 0])
    /\ pc' = IF pc = "boot" THEN "fetch" ELSE "poll"
    /\ UNCHANGED <<world, known, last, cursor, round, counts>>

\* fills_since(last_trade_id): the trades of the down time, as far back as one page
\* goes.  Without a persisted id, or when the query fails, what the prime skipped is
\* never ingested.
Fetch ==
    /\ pc = "fetch"
    /\ \E answered \in BOOLEAN :
       LET fetched == answered /\ last > 0 IN
          /\ Fault(~answered)
          /\ batch' = IF fetched THEN Shown(last) ELSE {}
          /\ Misses(IF fetched THEN ((last + 1)..Len(trades)) \ Shown(last) ELSE (last + 1)..cursor)
    /\ pc' = "recover"
    /\ UNCHANGED <<world, ledger, cursor, toCancel, toPlace, cur, counts>>

-----------------------------------------------------------------------------
(* A round                                                                  *)

\* poll_fills, one page; a failed query returns nothing and leaves the cursor.
Poll ==
    /\ pc = "poll"
    /\ \E answered \in BOOLEAN :
          /\ Fault(~answered)
          /\ batch' = IF answered THEN Shown(cursor) ELSE {}
          /\ cursor' = IF answered THEN Len(trades) ELSE cursor
          /\ Misses(IF answered THEN ((cursor + 1)..Len(trades)) \ Shown(cursor) ELSE {})
    /\ pc' = "fills"
    /\ UNCHANGED <<world, ledger, toCancel, toPlace, cur, counts>>

\* Mutant: a recovered fill moves the ledger's cursor without being counted.
IngestMutant ==
    /\ pc \in {"recover", "fills"}
    /\ \E i \in batch :
       LET t == trades[i].token IN
          /\ \A k \in batch : i <= k
          /\ batch' = batch \ {i}
          /\ last' = i
          /\ held' = IF t \in known /\ pc = "fills" THEN [held EXCEPT ![t] = @ + 1] ELSE held
          /\ Misses(IF t \in known THEN {} ELSE {i})
    /\ UNCHANGED <<world, known, pc, cursor, toCancel, toPlace, cur, counts, faults>>

\* ingest_fill, oldest first, with its save_held.  A trade on a token this program
\* never registered is taken for another strategy's.
Ingest ==
    /\ pc \in {"recover", "fills"}
    /\ \E i \in batch :
       LET t == trades[i].token IN
          /\ \A k \in batch : i <= k
          /\ batch' = batch \ {i}
          /\ last' = i
          /\ held' = IF t \in known THEN [held EXCEPT ![t] = @ + 1] ELSE held
          /\ Misses(IF t \in known THEN {} ELSE {i})
    /\ UNCHANGED <<world, known, pc, cursor, toCancel, toPlace, cur, counts, faults>>

Recovered ==
    /\ pc = "recover" /\ batch = {}
    /\ pc' = "top"
    /\ UNCHANGED <<world, ledger, cursor, round, counts, ghosts, faults>>

\* Collateral of a scope in the eyes of plan: the ledger, and one order for each
\* token that keeps any.
Used(s, keep) == Total(held, s) + Cardinality(keep \cap s)

\* Every placement of the round fits the limits of its market, coin and book, and
\* the number of orders.
Affordable(place, keep) ==
    /\ \A s \in Scopes : place \cap s # {} => Used(s, keep) + Cardinality(place \cap s) <= Limit(s)
    /\ place # {} => Cardinality(keep) + Cardinality(place) <= MaxOrders
    /\ Cardinality(place \cap Touch) <= TouchMax

\* list_open_orders and plan.  The whitelist and the book decide which orders are
\* kept; the others are cancelled, all of them when there is no valid whitelist.
\* decide places on any affordable candidates without a kept order.  A failed query
\* shows no orders; of several orders on a token one is counted, and one of them
\* may be kept while another is cancelled.
Plan ==
    /\ pc = "fills" /\ batch = {}
    /\ \E listed \in BOOLEAN :
       LET open == {t \in Tokens : listed /\ orders[t] > 0} IN
       \E keep \in SUBSET open :
       \E place \in SUBSET (Tokens \ keep), both \in SUBSET {t \in keep : orders[t] > 1} :
       LET cancel == (open \ keep) \cup both IN
          /\ Fault(~listed)
          /\ Affordable(place, keep)
          /\ toCancel' = cancel /\ toPlace' = place
          /\ missed' = missed \cup {i \in (cursor + 1)..Len(trades) : place # {}}
          /\ slip' = [t \in Tokens |-> slip[t] + IF place = {} \/ listed THEN 0 ELSE orders[t]]
    /\ pc' = "exec"
    /\ UNCHANGED <<world, ledger, cursor, batch, cur, counts>>

\* CANCEL_ALL on a token, answer ignored.
Cancel(t) ==
    /\ pc = "exec" /\ t \in toCancel
    /\ \E done \in BOOLEAN :
          /\ Fault(~done)
          /\ orders' = IF done THEN [orders EXCEPT ![t] = 0] ELSE orders
          /\ Slips([u \in Tokens |-> IF u = t /\ ~done /\ toPlace # {} THEN orders[t] ELSE 0])
    /\ toCancel' = toCancel \ {t}
    /\ UNCHANGED <<pos, chain, trades, ledger, pc, cursor, batch, toPlace, cur, counts>>

\* The next placement: cancels first, core before touch.
Due(t) ==
    /\ pc = "exec" /\ toCancel = {} /\ t \in toPlace
    /\ t \in Touch => toPlace \subseteq Touch

\* The live book would be crossed: the placement is dropped.
WouldCross(t) ==
    /\ Due(t)
    /\ toPlace' = toPlace \ {t}
    /\ UNCHANGED <<world, ledger, pc, cursor, batch, toCancel, cur, counts, ghosts, faults>>

\* The order rests.
Rests(t) ==
    /\ orders' = [orders EXCEPT ![t] = @ + 1]
    /\ UNCHANGED <<pos, trades, missed>>

\* The book moved after it was read: a GTC order without post-only crosses it and is
\* filled at once.  We are the taker, so no poll will show the fill.
Crosses(t) ==
    /\ Len(trades) < MaxFills
    /\ pos' = [pos EXCEPT ![t] = @ + 1]
    /\ trades' = Append(trades, [token |-> t, maker |-> FALSE])
    /\ missed' = missed \cup {Len(trades) + 1}
    /\ UNCHANGED orders

PlaceAccepted(t) ==
    /\ Due(t)
    /\ Rests(t) \/ Crosses(t)
    /\ toPlace' = toPlace \ {t}
    /\ cur' = {t} /\ rejects' = 0 /\ neterr' = 0
    /\ pc' = "placed"
    /\ UNCHANGED <<chain, ledger, cursor, batch, toCancel, slip, faults>>

\* The token is registered and saved after the answer.
Register ==
    /\ pc = "placed"
    /\ known' = known \cup cur
    /\ cur' = {}
    /\ pc' = "exec"
    /\ UNCHANGED <<world, held, last, cursor, batch, toCancel, toPlace, counts, ghosts, faults>>

\* No answer, or a 5xx: the order may have been taken; the token is not registered.
PlaceTransient(t) ==
    /\ Due(t)
    /\ Fault(TRUE)
    /\ Rests(t) \/ Crosses(t) \/ UNCHANGED <<orders, pos, trades, missed>>
    /\ neterr' = neterr + 1
    /\ toPlace' = IF neterr' >= NetLimit THEN {} ELSE toPlace \ {t}
    /\ UNCHANGED <<chain, ledger, pc, cursor, batch, toCancel, cur, rejects, slip>>

\* Mutant: the limit is tested before the reject is counted.
PlaceRejectedMutant(t) ==
    /\ Due(t)
    /\ neterr' = 0
    /\ rejects' = rejects + 1
    /\ IF rejects >= RejectLimit THEN pc' = "down" /\ toPlace' = {}
       ELSE pc' = pc /\ toPlace' = toPlace \ {t}
    /\ UNCHANGED <<world, ledger, cursor, batch, toCancel, cur, ghosts, faults>>

\* A 4xx; the last of a row of them stops the program.
PlaceRejected(t) ==
    /\ Due(t)
    /\ neterr' = 0
    /\ rejects' = rejects + 1
    /\ IF rejects' >= RejectLimit THEN pc' = "down" /\ toPlace' = {}
       ELSE pc' = pc /\ toPlace' = toPlace \ {t}
    /\ UNCHANGED <<world, ledger, cursor, batch, toCancel, cur, ghosts, faults>>

RoundEnd ==
    /\ pc = "exec" /\ toCancel = {} /\ toPlace = {}
    /\ pc' = "top"
    /\ UNCHANGED <<world, ledger, cursor, round, counts, ghosts, faults>>

\* A query threw: the rest of the round is dropped.
Abort ==
    /\ pc \in {"poll", "fills", "exec"} /\ batch = {}
    /\ toCancel' = {} /\ toPlace' = {}
    /\ pc' = "top"
    /\ UNCHANGED <<world, ledger, cursor, batch, cur, counts, ghosts, faults>>

\* The STOP file: every listed order is cancelled and the program ends.
StopFile ==
    /\ pc = "top"
    /\ \E failed \in SUBSET {t \in Tokens : orders[t] > 0} :
          /\ Fault(failed # {})
          /\ orders' = [t \in Tokens |-> IF t \in failed THEN orders[t] ELSE 0]
    /\ pc' = "down"
    /\ UNCHANGED <<pos, chain, trades, ledger, cursor, round, counts, ghosts>>

\* A crash or a signal.
Crash ==
    /\ pc # "down"
    /\ Fault(TRUE)
    /\ pc' = "down" /\ batch' = {} /\ toCancel' = {} /\ toPlace' = {} /\ cur' = {}
    /\ UNCHANGED <<world, ledger, cursor, counts, ghosts>>

Execute(t) ==
    Cancel(t) \/ WouldCross(t) \/ PlaceAccepted(t) \/ PlaceTransient(t) \/ PlaceRejected(t)
Process ==
    \/ Start \/ Reconcile \/ Fetch \/ Recovered
    \/ Poll \/ Ingest \/ Plan \/ Register \/ RoundEnd
    \/ \E t \in Tokens : Execute(t)
Next ==
    \/ Process \/ Abort \/ StopFile \/ Crash \/ Settle
    \/ \E t \in Tokens : Fill(t) \/ Redeem(t)

\* The program keeps scanning and is restarted, and the data API catches up.
Spec == Init /\ [][Next]_vars
FairSpec == Spec /\ WF_vars(Process) /\ WF_vars(Settle)

-----------------------------------------------------------------------------
TypeOK ==
    /\ orders \in [Tokens -> Nat] /\ pos \in [Tokens -> Nat] /\ chain \in [Tokens -> Nat]
    /\ held \in [Tokens -> Nat] /\ slip \in [Tokens -> Nat] /\ missed \subseteq 1..Len(trades)
    /\ trades \in Seq([token : Tokens, maker : BOOLEAN]) /\ known \subseteq Tokens /\ last \in 0..Len(trades)
    /\ pc \in Places /\ cursor \in 0..Len(trades) /\ batch \subseteq 1..Len(trades)
    /\ toCancel \subseteq Tokens /\ toPlace \subseteq Tokens /\ cur \subseteq Tokens
    /\ rejects \in 0..RejectLimit /\ neterr \in Nat /\ faults \in Nat

\* Orders and positions of a scope.
Exposure(s) == Total(orders, s) + Total(pos, s)

\* Resting orders plus positions of a market, a coin or a book exceed its limit by
\* no more than the units that were out of the program's sight: every unit missed
\* (a placement that crossed, a fill during a round or while down that no page shows,
\* a cancel or a query that failed, a token never registered, a false release) costs
\* at most itself, whatever the fills, rounds, crashes, recoveries and reconciliations
\* that follow, and never a unit of another scope
\* (tail_vendor.cpp:191-236, tail_vendor_main.cpp:308-328,441-501).
MissedOf(t) == {i \in missed : trades[i].token = t}
Unseen == [t \in Tokens |-> slip[t] + Cardinality(MissedOf(t))]
OvershootBounded == \A s \in Scopes : Exposure(s) <= Limit(s) + Total(Unseen, s)

\* Collateral the ledger counts beyond the real positions, because they were
\* redeemed or counted twice, is eventually released, or the limits would choke
\* the program for good.  The exception is the guard against partial answers: on an
\* account left with fewer than three positions nothing is ever released
\* (tail_vendor_main.cpp:271-302).
Counted == {t \in Tokens : held[t] > 0}
AccountTooSmall == Others + Cardinality({t \in Tokens : pos[t] > 0}) < MinShown
BudgetFreed ==
    (Total(held, Tokens) > Total(pos, Counted))
    ~> (Total(held, Tokens) <= Total(pos, Counted) \/ AccountTooSmall)

\* While the data API is up to date, reconciliation never takes a position out of
\* the ledger that is really held: answers of fewer than three positions are
\* refused so that a partial one does no harm ("绝不因残缺拉取虚减 held 导致超铺",
\* tail_vendor_main.cpp:276-277).
NoFalseRelease ==
    [][\A t \in Tokens : chain = pos /\ held'[t] < held[t] => held'[t] >= pos[t]]_vars
=============================================================================
