----------------------------- MODULE MarketFeed -----------------------------
(***************************************************************************)
(* The local order books of pmm_runner: MarketChannel's reader thread with  *)
(* its WebSocket, the REST resync workers that overwrite the same books,    *)
(* the main loop that changes the set of tokens, and shutdown, which has to *)
(* join every thread before it cancels a single order.                      *)
(*                                                                          *)
(* A book is the set of its price levels.  The price callback at the end of *)
(* handle_message is the entry of module Reflex and changes nothing here.   *)
(***************************************************************************)
EXTENDS Integers, Sequences, FiniteSets, SequencesExt

CONSTANTS
    NumTokens,   \* tokens are 1..NumTokens, the order of reflex_refs_
    W,           \* cfg_.resync_workers
    Bids, Asks,  \* price levels
    Moving,      \* bound: levels that change ...
    Movers,      \* ... and tokens they change on
    MaxChanges,  \* bound: level changes at the exchange
    MaxSets,     \* bound: calls of set_tokens ...
    Selections,  \* ... and the sets of tokens they pass
    MaxFaults    \* bound: dropped connections, lost or oversize frames, failed calls

ASSUME FeedAssumption ==
    /\ NumTokens \in Nat \ {0} /\ W \in Nat \ {0}
    /\ IsFiniteSet(Bids) /\ IsFiniteSet(Asks) /\ Bids \cap Asks = {}
    /\ Moving \subseteq Bids \cup Asks /\ Movers \subseteq 1..NumTokens
    /\ Selections \subseteq SUBSET (1..NumTokens)
    /\ MaxChanges \in Nat /\ MaxSets \in Nat /\ MaxFaults \in Nat

Tokens == 1..NumTokens
Workers == 0..(W - 1)
Levels == Bids \cup Asks
TwoSided(book) == book \cap Bids # {} /\ book \cap Asks # {}

VARIABLES
    \* The exchange and the network.
    truth,       \* the real book of each token
    conn,        \* "none", "up", or "dead": closed, not noticed yet
    srv,         \* tokens the server streams on this connection
    wire,        \* messages under way, in order
    \* MarketChannel.
    subs, levels, stop, registered,   \* subs_, levels_, stop_, active_conn_ set
    rpc, toks,   \* the reader: its step, and toks / subscribed
    \* LiveRunner.
    refs,        \* tokens of reflex_refs_
    mpc,         \* main thread
    todo, rest,  \* per worker: tokens left in this pass, the REST answer on its way
    dstop,       \* discovery_stop_
    waits,       \* calls of the discovery thread and the user channel shutdown waits for
    \* Ghosts and bounds.
    tainted,     \* books not built from this connection's messages alone
    sendLost, changes, sets, faults

exchange == <<truth, conn, srv, wire>>
channel == <<subs, levels, stop, registered>>
reader == <<rpc, toks>>
runner == <<refs, mpc, todo, rest, dstop, waits>>
ghosts == <<tainted, sendLost, changes, sets, faults>>
vars == <<exchange, channel, reader, runner, ghosts>>

NoBook == [t |-> 0, book |-> {}]

\* After the first sync_ws_subscriptions; the reader finds the tokens in its next pass.
Init ==
    /\ \E gone \in SUBSET Moving :
          truth = [t \in Tokens |-> IF t \in Movers THEN Levels \ gone ELSE Levels]
    /\ conn = "none" /\ srv = {} /\ wire = <<>>
    /\ subs = Tokens /\ levels = [t \in Tokens |-> {}] /\ stop = FALSE /\ registered = FALSE
    /\ rpc = "top" /\ toks = {}
    /\ refs = Tokens /\ mpc = "run" /\ dstop = FALSE /\ waits = {}
    /\ todo = [w \in Workers |-> {}] /\ rest = [w \in Workers |-> NoBook]
    /\ tainted = Tokens /\ sendLost = FALSE /\ changes = 0 /\ sets = 0 /\ faults = 0

-----------------------------------------------------------------------------
(* The exchange.                                                            *)

Toggle(book, l) == IF l \in book THEN book \ {l} ELSE book \cup {l}
Snapshot(t) == [kind |-> "book", t |-> t, book |-> truth[t]]
\* A price_change reports the level's new size: set, or erased at size 0.
Delta(t, l) == [kind |-> IF l \in truth[t] THEN "erase" ELSE "set", t |-> t, book |-> {l}]

\* A level appears or disappears; a streamed token gets a price_change.
Change(t, l) ==
    /\ changes < MaxChanges
    /\ changes' = changes + 1
    /\ truth' = [truth EXCEPT ![t] = Toggle(@, l)]
    /\ wire' = IF t \in srv /\ conn = "up" THEN Append(wire, Delta(t, l)) ELSE wire
    /\ UNCHANGED <<conn, srv, channel, reader, runner, tainted, sendLost, sets, faults>>

Drop ==
    /\ conn = "up" /\ faults < MaxFaults
    /\ faults' = faults + 1
    /\ conn' = "dead"
    /\ UNCHANGED <<truth, srv, wire, channel, reader, runner, tainted, sendLost,
                   changes, sets>>

-----------------------------------------------------------------------------
(* The reader thread, MarketChannel::run.                                   *)

Goto(step) == rpc' = step /\ UNCHANGED toks

Top ==
    /\ rpc = "top"
    /\ IF stop THEN Goto("exit")
       ELSE subs # {} /\ rpc' = "opening" /\ toks' = subs
    /\ UNCHANGED <<exchange, channel, runner, ghosts>>

\* WsConnection::connect: TCP, TLS and the upgrade.  The upgrade's read retries its
\* timeouts without a bound, and active_conn_ is not set yet.
Connect ==
    /\ rpc = "opening"
    /\ conn' = "up"
    /\ Goto("open")
    /\ UNCHANGED <<truth, srv, wire, channel, runner, ghosts>>

\* Refused; the back-off ends the thread when stop_ is set.
ConnectFail ==
    /\ rpc = "opening" /\ faults < MaxFaults
    /\ faults' = faults + 1
    /\ rpc' = (IF stop THEN "exit" ELSE "top") /\ toks' = {}
    /\ UNCHANGED <<exchange, channel, runner, tainted, sendLost, changes, sets>>

\* send_text of a subscribe frame; its result is ignored, and on a dead socket it is
\* lost.  The server streams the tokens of the frame and unsubscribes none: tokens not
\* streamed yet get a snapshot first, the others may get another one.
Send(ts) ==
    \/ /\ conn = "up"
       /\ srv' = srv \cup ts
       /\ \E again \in SUBSET (ts \cap srv) :
          \E order \in SetToSeqs((ts \ srv) \cup again) :
             wire' = wire \o [i \in DOMAIN order |-> Snapshot(order[i])]
       /\ UNCHANGED <<sendLost, faults>>
    \/ /\ conn = "dead"
       /\ UNCHANGED <<srv, wire, sendLost, faults>>
    \/ /\ conn = "up" /\ faults < MaxFaults
       /\ faults' = faults + 1 /\ sendLost' = TRUE
       /\ UNCHANGED <<srv, wire>>
NoSend == UNCHANGED <<srv, wire, sendLost, faults>>

Register ==
    /\ rpc = "open"
    /\ registered' = TRUE
    /\ Send(toks)
    /\ Goto("loop")
    /\ UNCHANGED <<truth, conn, subs, levels, stop, runner, tainted, changes, sets>>

\* Mutant: the inner loop relies on the closed socket alone.
LoopMutant ==
    /\ rpc = "loop"
    /\ \/ /\ subs = {}
          /\ Goto("closing")
          /\ NoSend
       \/ /\ subs # {}
          /\ rpc' = "recv" /\ toks' = subs
          /\ IF subs # toks THEN Send(subs) ELSE NoSend
    /\ UNCHANGED <<truth, conn, channel, runner, tainted, changes, sets>>

\* Mutant: a changed set is remembered as subscribed, but not sent.
ResubscribeMutant ==
    /\ rpc = "loop"
    /\ \/ /\ stop \/ subs = {}
          /\ Goto("closing")
       \/ /\ ~stop /\ subs # {}
          /\ rpc' = "recv" /\ toks' = subs
    /\ UNCHANGED <<exchange, channel, runner, ghosts>>

\* The head of the inner loop: leave, or follow the set of tokens.
Loop ==
    /\ rpc = "loop"
    /\ \/ /\ stop \/ subs = {}
          /\ Goto("closing")
          /\ NoSend
       \/ /\ ~stop /\ subs # {}
          /\ rpc' = "recv" /\ toks' = subs
          /\ IF subs # toks THEN Send(subs) ELSE NoSend
    /\ UNCHANGED <<truth, conn, channel, runner, tainted, changes, sets>>

\* Mutant: size 0 is stored as a level.
AppliedZeroMutant(book, m) ==
    CASE m.kind = "book" -> m.book
      [] m.kind = "set" -> book \cup m.book
      [] m.kind = "erase" -> (book \ m.book) \cup {"zero"}

\* Mutant: a snapshot is merged into the levels that are there.
AppliedMutant(book, m) ==
    CASE m.kind = "book" -> book \cup m.book
      [] m.kind = "set" -> book \cup m.book
      [] m.kind = "erase" -> book \ m.book

\* on_book replaces the book, on_price_change sets or erases one level.
Applied(book, m) ==
    CASE m.kind = "book" -> m.book
      [] m.kind = "set" -> book \cup m.book
      [] m.kind = "erase" -> book \ m.book

\* recv answers Text: handle_message, whatever the token.
Handle ==
    /\ rpc = "recv" /\ wire # <<>>
    /\ LET m == Head(wire) IN
         /\ levels' = [levels EXCEPT ![m.t] = Applied(@, m)]
         /\ tainted' = IF m.kind = "book" THEN tainted \ {m.t} ELSE tainted
    /\ wire' = Tail(wire)
    /\ Goto("loop")
    /\ UNCHANGED <<truth, conn, srv, subs, stop, registered, runner, sendLost,
                   changes, sets, faults>>

\* recv answers Timeout: nothing arrived for timeout_ms_, or a frame without text.
Timeout ==
    /\ rpc = "recv" /\ conn # "dead"
    /\ Goto("loop")
    /\ UNCHANGED <<exchange, channel, runner, ghosts>>

\* A frame over the size limit is read to its end and dropped.
Oversize ==
    /\ rpc = "recv" /\ wire # <<>> /\ faults < MaxFaults
    /\ faults' = faults + 1
    /\ tainted' = tainted \cup {Head(wire).t}
    /\ wire' = Tail(wire)
    /\ Goto("loop")
    /\ UNCHANGED <<truth, conn, srv, channel, runner, sendLost, changes, sets>>

\* recv answers Closed.
Closed ==
    /\ rpc = "recv" /\ conn = "dead"
    /\ Goto("closing")
    /\ UNCHANGED <<exchange, channel, runner, ghosts>>

\* active_conn_ is cleared, the connection freed; the books stay.
Close ==
    /\ rpc = "closing"
    /\ registered' = FALSE
    /\ conn' = "none" /\ srv' = {} /\ wire' = <<>>
    /\ tainted' = Tokens /\ sendLost' = FALSE
    /\ rpc' = "top" /\ toks' = {}
    /\ UNCHANGED <<truth, subs, levels, stop, runner, changes, sets, faults>>

Reader == Top \/ Register \/ Loop \/ Handle \/ Oversize \/ Timeout \/ Closed \/ Close

-----------------------------------------------------------------------------
(* The resync workers.                                                      *)

\* Worker w's slice of the reference tokens: every W-th one from w on.
Slice(w) == {t \in refs : Cardinality({u \in refs : u < t}) % W = w}

\* The next token of the pass; a pass starts with the current references.  The
\* server answers with its book of this moment.
Ask(w) ==
    /\ ~dstop /\ rest[w] = NoBook
    /\ LET left == IF todo[w] = {} THEN Slice(w) ELSE todo[w] IN
       \E t \in left :
         /\ \A u \in left : t <= u
         /\ rest' = [rest EXCEPT ![w] = [t |-> t, book |-> truth[t]]]
         /\ todo' = [todo EXCEPT ![w] = left \ {t}]
    /\ UNCHANGED <<exchange, channel, reader, refs, mpc, dstop, waits, ghosts>>

\* Mutant: a book that is already known is kept.
RestAppliedMutant(w) == LET a == rest[w] IN
    IF TwoSided(a.book) /\ levels[a.t] = {} THEN [levels EXCEPT ![a.t] = a.book] ELSE levels

\* apply_rest_snapshot: a one-sided or empty answer is ignored.
RestApplied(w) == LET a == rest[w] IN
    IF TwoSided(a.book) THEN [levels EXCEPT ![a.t] = a.book] ELSE levels

Resync(w) ==
    /\ rest[w] # NoBook
    /\ levels' = RestApplied(w)
    /\ tainted' = IF TwoSided(rest[w].book) THEN tainted \cup {rest[w].t} ELSE tainted
    /\ rest' = [rest EXCEPT ![w] = NoBook]
    /\ UNCHANGED <<exchange, subs, stop, registered, reader, refs, mpc, todo, dstop, waits,
                   sendLost, changes, sets, faults>>

ResyncFail(w) ==
    /\ rest[w] # NoBook /\ faults < MaxFaults
    /\ faults' = faults + 1
    /\ rest' = [rest EXCEPT ![w] = NoBook]
    /\ UNCHANGED <<exchange, channel, reader, refs, mpc, todo, dstop, waits, tainted, sendLost,
                   changes, sets>>

-----------------------------------------------------------------------------
(* The main thread.                                                         *)

\* sync_ws_subscriptions: set_tokens forgets the books of the tokens that left ...
SetTokens(S) ==
    /\ mpc = "run" /\ sets < MaxSets
    /\ sets' = sets + 1
    /\ subs' = S
    /\ levels' = [t \in Tokens |-> IF t \in S THEN levels[t] ELSE {}]
    /\ tainted' = tainted \cup (Tokens \ S)
    /\ mpc' = "refs"
    /\ UNCHANGED <<exchange, stop, registered, reader, refs, todo, rest, dstop, waits,
                   sendLost, changes, faults>>

\* ... and refresh_reflex_refs follows in another critical section.
RefreshRefs ==
    /\ mpc = "refs"
    /\ refs' = subs
    /\ mpc' = "run"
    /\ UNCHANGED <<exchange, channel, reader, todo, rest, dstop, waits, ghosts>>

\* shutdown: discovery_stop_, which the discovery thread may meet in the middle of a
\* scan; join it and the workers,
Shutdown ==
    /\ mpc = "run"
    /\ dstop' = TRUE /\ todo' = [w \in Workers |-> {}]
    /\ waits' \in SUBSET {"scan"}
    /\ mpc' = "workers"
    /\ UNCHANGED <<exchange, channel, reader, refs, rest, ghosts>>

ScanEnds ==
    /\ "scan" \in waits
    /\ waits' = {}
    /\ UNCHANGED <<exchange, channel, reader, refs, mpc, todo, rest, dstop, ghosts>>

\* MarketChannel::stop: stop_,
StopFlag ==
    /\ mpc = "workers" /\ waits = {} /\ \A w \in Workers : rest[w] = NoBook
    /\ stop' = TRUE
    /\ mpc' = "stop"
    /\ UNCHANGED <<exchange, subs, levels, registered, reader, refs, todo, rest, dstop, waits, ghosts>>

\* the socket of the registered connection,
ShutdownSocket ==
    /\ mpc = "stop"
    /\ conn' = IF registered THEN "dead" ELSE conn
    /\ mpc' = "join"
    /\ UNCHANGED <<truth, srv, wire, channel, reader, refs, todo, rest, dstop, waits, ghosts>>

\* and join; then UserChannel::stop, which may meet its reader in an upgrade request:
\* anywhere else stop_ or the closed socket ends that reader.
Join ==
    /\ mpc = "join" /\ rpc = "exit"
    /\ waits' \in SUBSET {"upgrade"}
    /\ mpc' = "user"
    /\ UNCHANGED <<exchange, channel, reader, refs, todo, rest, dstop, ghosts>>

UserUpgraded ==
    /\ "upgrade" \in waits
    /\ waits' = {}
    /\ UNCHANGED <<exchange, channel, reader, refs, mpc, todo, rest, dstop, ghosts>>

UserJoin ==
    /\ mpc = "user" /\ waits = {}
    /\ mpc' = "stopped"
    /\ UNCHANGED <<exchange, channel, reader, refs, todo, rest, dstop, waits, ghosts>>

Next ==
    \/ \E t \in Movers, l \in Moving : Change(t, l)
    \/ Drop \/ Connect \/ ConnectFail \/ UserUpgraded
    \/ Reader
    \/ \E w \in Workers : Ask(w) \/ Resync(w) \/ ResyncFail(w)
    \/ \E S \in Selections : SetTokens(S)
    \/ RefreshRefs \/ Shutdown \/ ScanEnds \/ StopFlag \/ ShutdownSocket \/ Join \/ UserJoin

Spec == Init /\ [][Next]_vars

\* Threads are scheduled, and REST calls and frames are answered or time out.  An
\* upgrade request need never be answered, and no shutdown and no change has to come.
FairSpec ==
    /\ Spec
    /\ WF_vars(Reader)
    /\ \A w \in Workers : WF_vars(Ask(w)) /\ WF_vars(Resync(w) \/ ResyncFail(w))
    /\ WF_vars(RefreshRefs \/ ScanEnds \/ StopFlag \/ ShutdownSocket \/ Join \/ UserJoin)

-----------------------------------------------------------------------------
(* Properties.                                                              *)

Messages == [kind : {"book", "set", "erase"}, t : Tokens, book : SUBSET Levels]

TypeOK ==
    /\ truth \in [Tokens -> SUBSET Levels] /\ levels \in [Tokens -> SUBSET Levels]
    /\ conn \in {"none", "up", "dead"}
    /\ {srv, subs, toks, refs, tainted} \subseteq SUBSET Tokens
    /\ wire \in Seq(Messages)
    /\ {stop, registered, dstop, sendLost} \subseteq BOOLEAN
    /\ rpc \in {"top", "opening", "open", "loop", "recv", "closing", "exit"}
    /\ mpc \in {"run", "refs", "workers", "stop", "join", "user", "stopped"}
    /\ waits \subseteq {"scan", "upgrade"}
    /\ todo \in [Workers -> SUBSET Tokens]
    /\ rest \in [Workers -> [t : Tokens, book : SUBSET Levels] \cup {NoBook}]
    /\ changes \in 0..MaxChanges /\ sets \in 0..MaxSets /\ faults \in 0..MaxFaults

\* What the messages ms make of a book of token t: the last one about a level decides
\* it, a snapshot being about all levels.
About(m, t, l) == m.t = t /\ (m.kind = "book" \/ l \in m.book)
Decides(ms, i, t, l) ==
    About(ms[i], t, l) /\ \A j \in DOMAIN ms : j > i => ~About(ms[j], t, l)
Replayed(ms, book, t) ==
    {l \in Levels :
        \/ \E i \in DOMAIN ms : Decides(ms, i, t, l) /\ ms[i].kind # "erase" /\ l \in ms[i].book
        \/ l \in book /\ \A i \in DOMAIN ms : ~About(ms[i], t, l)}
SnapshotUnderWay(t) == \E i \in DOMAIN wire : wire[i].t = t /\ wire[i].kind = "book"

\* The messages under way, replayed over the local book, give the exchange's book,
\* for every streamed token whose book this connection alone has built (or will
\* build: a snapshot is under way).  What the reader applies, in its order, is what
\* happened.
WsReplay ==
    \A t \in srv :
        conn = "up" /\ (t \notin tainted \/ SnapshotUnderWay(t))
        => Replayed(wire, levels[t], t) = truth[t]

\* When the exchange, the network and the selection have calmed down, every two-sided
\* book of a subscribed token is right, and stays right: REST answers older than the
\* levels they overwrite, books begun by late price_changes of a token that had been
\* dropped, lost and oversize frames, reconnects and an upgrade that hangs for ever heal.
BooksConverge == <>[](~dstop =>
    \A t \in subs : TwoSided(truth[t]) => levels[t] = truth[t])

\* The set of tokens reaches the server, a set changed during a connect too, unless
\* a subscribe frame was lost on this very connection or the server leaves the upgrade
\* request unanswered.
SubscriptionFollows ==
    <>[](~dstop /\ ~sendLost /\ rpc # "opening" => subs \subseteq srv)

\* shutdown gets past its joins (discovery thread, workers, market and user channel),
\* so the cancels that follow are reached.  The one exception is a server that accepts
\* the connection and never answers the upgrade request: that read retries its timeouts
\* without a bound, on a connection stop() does not know yet (ws_connection.hpp:309).
UpgradeHangs == rpc = "opening" \/ "upgrade" \in waits
StopReturns == <>[]UpgradeHangs \/ (dstop ~> (mpc = "stopped"))
=============================================================================
