----------------------------- MODULE FillStream -----------------------------
(***************************************************************************)
(* How a fill reaches the engine: the trades of the account are read from   *)
(* /data/trades by ClobSubmitter (a cursor cuts off what an earlier poll    *)
(* returned) and pushed by the user WebSocket (UserChannel removes repeated *)
(* ids), and LiveRunner::poll_fills joins both and removes ids it has seen. *)
(* Module LiveMaker takes for granted what is checked here: a fill is       *)
(* handed over, and only once.                                              *)
(*                                                                          *)
(* A trade is its number in the order of matching; its value is how many of *)
(* its maker orders are ours, 0 for our own taker orders.  Every row and    *)
(* event carries an id: the code would let one without pass both memories.  *)
(* Sizes, sides and the churn count of poll_fills (an input of KillSwitch)  *)
(* are left out.                                                            *)
(***************************************************************************)
EXTENDS Integers, Sequences, Functions

CONSTANTS
    SeenCap,    \* 5000: ids remembered by the runner, and by UserChannel
    Page,       \* rows of one answer of /data/trades
    Reorder,    \* a trade is published, its WS events come, and a poll is made before
                \* this many newer trades have happened
    MaxLegs,    \* own maker orders in one trade, at most
    LegCounts,  \* bound: the numbers of them that occur
    MaxTrades,  \* bound: trades
    MaxFaults   \* bound: failed queries and crashes

\* A trade is offered while it is on the page or its WS events may come, so the ids of
\* that window, on both sides of a remembered one, and the entries of the start-up
\* have to fit into the memory (300 rows were seen in one answer).
Window == Reorder + (IF Page > Reorder THEN Page ELSE Reorder)
ASSUME StreamAssumption ==
    /\ SeenCap \in Nat \ {0} /\ Page \in Nat \ {0} /\ Reorder \in Nat \ {0}
    /\ MaxLegs \in Nat \ {0} /\ LegCounts \subseteq 0..MaxLegs
    /\ MaxTrades \in Nat \ {0} /\ MaxFaults \in Nat
    /\ 2 * Window - 1 <= SeenCap
    /\ MaxLegs * Page + 3 * Reorder - 2 <= SeenCap

VARIABLES
    trades,    \* the account's trades
    visible,   \* how many of them /data/trades shows already
    \* The process.
    pc,        \* "down", "prime", "mark": going through the fills of the start-up
               \* query, "run", "hand": going through the fills of a poll
    cursor,    \* last_trade_id_, 0 for none
    wsSeen, queue,   \* UserChannel: seen_fifo_, queue_
    rest, batch,     \* what is left of them: fills of the query, ids of the user channel
    seen,      \* seen_fill_ids_ (ids) and seen_fill_fifo_ (fifo)
    \* Ghosts: times each trade was handed over since the start; those that left the
    \* page before a poll saw them; rows there at the start; those handed over by
    \* REST; no start-up query succeeded.
    handed, offPage, before, byRest, blind,
    polled,    \* trades there were at the last poll
    faults

account == <<trades, visible>>
ghosts == <<handed, offPage, before, byRest, blind, polled>>
vars == <<account, pc, cursor, wsSeen, queue, rest, batch, seen, ghosts, faults>>

Ids == 1..MaxTrades
None == [i \in Ids |-> 0]
Nothing == [ids |-> {}, fifo |-> <<>>]

Init ==
    /\ trades \in {<<>>, <<1>>} /\ visible = Len(trades)
    /\ pc = "down" /\ cursor = 0 /\ wsSeen = Nothing /\ queue = <<>>
    /\ rest = {} /\ batch = <<>> /\ seen = Nothing
    /\ handed = None /\ offPage = {} /\ before = 0 /\ byRest = {} /\ blind = TRUE /\ polled = 0
    /\ faults = 0

-----------------------------------------------------------------------------
(* The exchange.                                                            *)

Trade(legs) ==
    /\ Len(trades) < MaxTrades /\ Len(trades) - visible < Reorder
    /\ pc \in {"run", "hand"} => Len(trades) - polled < Reorder
    /\ trades' = Append(trades, legs)
    /\ UNCHANGED <<visible, pc, cursor, wsSeen, queue, rest, batch, seen, ghosts, faults>>

Publish ==
    /\ visible < Len(trades)
    /\ visible' = visible + 1
    /\ UNCHANGED <<trades, pc, cursor, wsSeen, queue, rest, batch, seen, ghosts, faults>>

-----------------------------------------------------------------------------
(* Remembering ids.                                                         *)

\* Mutant: the bound forgets the id that has just come.
RememberMutant(m, i) ==
    IF Len(m.fifo) >= SeenCap THEN m
    ELSE [ids |-> m.ids \cup {i}, fifo |-> Append(m.fifo, i)]

\* Mutant: the bound is looked at before the new id is added.
RememberBoundMutant(m, i) ==
    IF Len(m.fifo) > SeenCap
    THEN [ids |-> (m.ids \cup {i}) \ {Head(m.fifo)}, fifo |-> Append(Tail(m.fifo), i)]
    ELSE [ids |-> m.ids \cup {i}, fifo |-> Append(m.fifo, i)]

\* A true FIFO: the oldest entry makes room.
Remember(m, i) ==
    LET ids == m.ids \cup {i}
        fifo == Append(m.fifo, i)
    IN  IF Len(fifo) > SeenCap THEN [ids |-> ids \ {Head(fifo)}, fifo |-> Tail(fifo)]
                               ELSE [ids |-> ids, fifo |-> fifo]

\* UserChannel::handle_message: every status of a trade is an event with its id, for
\* our own taker orders and trades from before the start too.  The first markets are
\* subscribed by reselect, after the start-up queries.
WsEvent(i) ==
    /\ pc \in {"run", "hand"}
    /\ i <= Len(trades) /\ Len(trades) - i < Reorder
    /\ i \notin wsSeen.ids
    /\ wsSeen' = Remember(wsSeen, i)
    /\ queue' = Append(queue, i)
    /\ UNCHANGED <<account, pc, cursor, rest, batch, seen, ghosts, faults>>

-----------------------------------------------------------------------------
(* ClobSubmitter::poll_fills.                                               *)

OldestRow == IF visible > Page THEN visible - Page + 1 ELSE 1

\* Mutant: the newest row sets the cursor and is not looked at again.
NewRowsMutant == {i \in OldestRow..visible : i > cursor /\ i < visible}

\* extract_new_fills: the rows of the answer down to the cursor.
NewRows == {i \in OldestRow..visible : i > cursor}

\* Mutant: the cursor is set only once there is one.
NextCursorMutant == IF cursor # 0 /\ visible > cursor THEN visible ELSE cursor

NextCursor == IF visible > cursor THEN visible ELSE cursor

\* One fill <<row, order>> for each of our maker orders of a row, all with the id of the
\* row; none for other rows.  A row of the old schema, without maker orders, gives one
\* fill by its top-level fields, as a row with one order of ours does.
Fills == UNION {{i} \X (1..trades[i]) : i \in NewRows}

\* The fills come newest row first, the orders of a row as they are listed.
First(f, fs) == \A g \in fs : g[1] < f[1] \/ (g[1] = f[1] /\ f[2] <= g[2])

Missed == {i \in (cursor + 1)..(OldestRow - 1) : trades[i] > 0}

-----------------------------------------------------------------------------
(* The process.                                                             *)

\* The submitter's constructor moves the cursor and forgets the fills.
Construct(ok) ==
    /\ pc = "down" /\ (ok \/ faults < MaxFaults)
    /\ faults' = faults + (IF ok THEN 0 ELSE 1)
    /\ cursor' = IF ok THEN NextCursor ELSE cursor
    /\ blind' = ~ok
    /\ before' = visible
    /\ pc' = "prime"
    /\ UNCHANGED <<account, wsSeen, queue, rest, batch, seen, handed, offPage, byRest, polled>>

\* LiveRunner::run makes a second query ...
Prime(ok) ==
    /\ pc = "prime" /\ (ok \/ faults < MaxFaults)
    /\ faults' = faults + (IF ok THEN 0 ELSE 1)
    /\ IF ok THEN /\ rest' = Fills
                  /\ cursor' = NextCursor
                  /\ blind' = FALSE
                  /\ before' = visible
             ELSE UNCHANGED <<rest, cursor, blind, before>>
    /\ pc' = "mark"
    /\ UNCHANGED <<account, wsSeen, queue, batch, seen, handed, offPage, byRest, polled>>

\* ... marks what it returned as seen, one FIFO entry for each fill, the FIFO uncut ...
Mark ==
    /\ pc = "mark"
    /\ \E f \in rest :
          /\ First(f, rest)
          /\ seen' = [ids |-> seen.ids \cup {f[1]}, fifo |-> Append(seen.fifo, f[1])]
          /\ rest' = rest \ {f}
    /\ UNCHANGED <<account, pc, cursor, wsSeen, queue, batch, ghosts, faults>>

\* ... and goes on to the main loop.
Enter ==
    /\ pc = "mark" /\ rest = {}
    /\ pc' = "run" /\ polled' = Len(trades)
    /\ UNCHANGED <<account, cursor, wsSeen, queue, rest, batch, seen, handed, offPage, before,
                   byRest, blind, faults>>

\* LiveRunner::poll_fills: the query (an unreadable answer leaves the cursor), then
\* what the user channel has queued.
Poll(ok) ==
    /\ pc = "run" /\ (ok \/ faults < MaxFaults)
    /\ faults' = faults + (IF ok THEN 0 ELSE 1)
    /\ rest' = (IF ok THEN Fills ELSE {}) /\ batch' = queue
    /\ IF ok THEN /\ cursor' = NextCursor
                  /\ offPage' = offPage \cup Missed
                  /\ byRest' = byRest \cup {i \in NewRows : trades[i] > 0 /\ handed[i] = 0}
             ELSE UNCHANGED <<cursor, offPage, byRest>>
    /\ queue' = <<>> /\ polled' = Len(trades)
    /\ pc' = "hand"
    /\ UNCHANGED <<account, wsSeen, seen, handed, before, blind>>

\* A fill with a known id is dropped.
Pass(i) ==
    IF i \in seen.ids THEN UNCHANGED <<seen, handed>>
    ELSE seen' = Remember(seen, i) /\ handed' = [handed EXCEPT ![i] = @ + 1]

\* The next fill: those of the query, then those of the user channel.
HandOver ==
    /\ pc = "hand"
    /\ \/ \E f \in rest : First(f, rest) /\ Pass(f[1]) /\ rest' = rest \ {f} /\ UNCHANGED batch
       \/ rest = {} /\ batch # <<>> /\ Pass(Head(batch)) /\ batch' = Tail(batch) /\ UNCHANGED rest
    /\ UNCHANGED <<account, pc, cursor, wsSeen, queue, offPage, before, byRest, blind, polled, faults>>

PollEnd ==
    /\ pc = "hand" /\ rest = {} /\ batch = <<>>
    /\ pc' = "run"
    /\ UNCHANGED <<account, cursor, wsSeen, queue, rest, batch, seen, ghosts, faults>>

Crash ==
    /\ pc # "down" /\ faults < MaxFaults
    /\ faults' = faults + 1
    /\ pc' = "down" /\ cursor' = 0 /\ wsSeen' = Nothing /\ queue' = <<>>
    /\ rest' = {} /\ batch' = <<>> /\ seen' = Nothing
    /\ handed' = None /\ offPage' = {} /\ byRest' = {} /\ before' = 0 /\ blind' = TRUE
    /\ polled' = 0
    /\ UNCHANGED account

Next ==
    \/ \E legs \in LegCounts : Trade(legs)
    \/ Publish
    \/ \E i \in Ids : WsEvent(i)
    \/ \E ok \in BOOLEAN : Construct(ok) \/ Prime(ok) \/ Poll(ok)
    \/ Mark \/ Enter \/ HandOver \/ PollEnd \/ Crash

Spec == Init /\ [][Next]_vars

\* The data API publishes every trade, and the main loop polls.
FairSpec ==
    /\ Spec
    /\ WF_vars(Publish)
    /\ WF_vars(Construct(TRUE)) /\ WF_vars(Prime(TRUE)) /\ WF_vars(Mark \/ Enter)
    /\ WF_vars(Poll(TRUE)) /\ WF_vars(HandOver \/ PollEnd)

-----------------------------------------------------------------------------
(* Properties.                                                              *)

TypeOK ==
    /\ trades \in Seq(Nat) /\ Len(trades) <= MaxTrades /\ visible \in 0..Len(trades)
    /\ pc \in {"down", "prime", "mark", "run", "hand"}
    /\ cursor \in 0..visible
    /\ \A m \in {wsSeen, seen} :
          m.ids \subseteq Range(m.fifo) /\ m.fifo \in Seq(Ids) /\ Len(m.fifo) <= SeenCap
    /\ queue \in Seq(Ids) /\ batch \in Seq(Ids) /\ rest \subseteq Ids \X (1..MaxLegs)
    /\ handed \in [Ids -> Nat] /\ offPage \subseteq Ids /\ byRest \subseteq Ids
    /\ before \in 0..MaxTrades /\ blind \in BOOLEAN /\ polled \in 0..MaxTrades
    /\ faults \in 0..MaxFaults

\* A trade is handed to the engine at most once in the life of the process, although
\* it has two sources, several events and possibly several of our orders, and
\* although both memories of ids are bounded.
HandedOnce == \A i \in Ids : handed[i] <= 1

\* Every trade of ours up to the cursor has been handed over, except those there at
\* the start and those that had left the page before a query succeeded: the cursor
\* never moves past a trade (clob_submitter.cpp:666-683).  That the fills of a second
\* order of ours in a trade are dropped, under the id of the first, is runner.cpp:1323.
CursorSkipsNothing ==
    pc = "run" => \A i \in (before + 1)..cursor :
                     trades[i] > 0 => handed[i] > 0 \/ i \in offPage

\* After a restart the query hands over no trade from before it ("把已存在的成交标记
\* 为已见"), unless neither start-up query succeeded.
NoReplayByRest == \A i \in byRest : i > before \/ blind

\* When trading and crashes come to an end, one fill of every trade of ours since the
\* start has reached the engine, unless the trade left the page before a query
\* succeeded.  That is all of a trade in which one order of ours was matched; of
\* several, the other fills carry the same id and never arrive (runner.cpp:1323).
FillsArrive == <>[](\A i \in (before + 1)..Len(trades) :
    trades[i] > 0 => handed[i] > 0 \/ i \in offPage)
=============================================================================
