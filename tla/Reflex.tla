------------------------------- MODULE Reflex -------------------------------
(***************************************************************************)
(* The reflex path of LiveRunner: the WS reader and the resync workers pull *)
(* a quote when the mid crosses its band or the book turns one-sided, and   *)
(* hand the token to the main loop, which quotes it again.                  *)
(*                                                                          *)
(* A pull is: insert into reflex_cancelled_ (under reflex_mu_), CANCEL_ALL   *)
(* on YES, CANCEL_ALL on NO (each under submitter_mu_), then wake_loop.      *)
(* poll_once moves reflex_cancelled_ into `forced` and re-centres those      *)
(* quotes.  Every lock section and every exchange call is one step.          *)
(*                                                                          *)
(* Mids and book signals are left out: a pull may begin, and a quote may be *)
(* re-centred, at any time.  Fills and flattening are LiveMaker's.           *)
(***************************************************************************)
EXTENDS Integers, FiniteSets

CONSTANTS
    Pools,          \* markets, each known by its YES token
    Workers,        \* the WS reader and the resync workers
    None,           \* no pool
    ExpiryRefresh,  \* cfg_.order_expiry_s > 0
    MaxPulls,       \* bound: pulls in a behaviour
    MaxFaults       \* bound: refused orders, failed cancels and unread books

ASSUME ReflexAssumption ==
    /\ None \notin Pools
    /\ ExpiryRefresh \in BOOLEAN
    /\ MaxPulls \in Nat /\ MaxFaults \in Nat

Legs == {"yes", "no"}

VARIABLES
    active,     \* pools with an active quote
    resting,    \* resting[p]: the legs of p that have an order on the book
    refs,       \* keys of reflex_refs_
    cancelled,  \* reflex_cancelled_
    wake,       \* loop_wake_
    pc,         \* the main loop
    todo,       \* quotes the accrual still has to visit
    forced,     \* poll_once's forced set
    cur, seq,   \* the main thread's pool and its remaining exchange calls
    wpc, wcur,  \* each worker's step and pool
    pulls, faults

quotes == <<active, resting>>
shared == <<refs, cancelled, wake>>
main == <<pc, todo, forced, cur, seq>>
workers == <<wpc, wcur>>
vars == <<quotes, shared, main, workers, pulls, faults>>

Passes == {"beat", "poll", "accrue", "wait", "blocked", "clear"}
\* What the main thread still has to send for `cur`.
Seqs == {"none", "exitYes", "exitNo", "exitNoBad", "cancelYes", "cancelNo",
         "placeYes", "placeNo", "placeNoBad"}
Steps == {"idle", "pullYes", "pullNo", "wake", "notify"}

Init ==
    /\ active = {} /\ resting = [p \in Pools |-> {}]
    /\ refs = {} /\ cancelled = {} /\ wake = FALSE
    /\ pc = "beat" /\ todo = {} /\ forced = {} /\ cur = None /\ seq = "none"
    /\ wpc = [w \in Workers |-> "idle"] /\ wcur = [w \in Workers |-> None]
    /\ pulls = 0 /\ faults = 0

Fault(bad) ==
    /\ bad => faults < MaxFaults
    /\ faults' = faults + (IF bad THEN 1 ELSE 0)

\* CANCEL_ALL and PLACE on one leg, answered well or not.
Cancel(p, leg, ok) ==
    /\ Fault(~ok)
    /\ resting' = [resting EXCEPT ![p] = IF ok THEN @ \ {leg} ELSE @]
Place(p, leg, ok) ==
    /\ Fault(~ok)
    /\ resting' = [resting EXCEPT ![p] = IF ok THEN @ \cup {leg} ELSE @]

-----------------------------------------------------------------------------
(* The workers                                                              *)

\* Mutant: the worker forgets which token it pulls.
PullBeginMutant(w, p) ==
    /\ wpc[w] = "idle"
    /\ p \in refs \ cancelled
    /\ pulls < MaxPulls
    /\ cancelled' = cancelled \cup {p}
    /\ wpc' = [wpc EXCEPT ![w] = "pullYes"]
    /\ pulls' = pulls + 1
    /\ UNCHANGED <<quotes, refs, wake, main, wcur, faults>>

\* on_ws_price (mid left the band) or a fade: reflex_pull takes the token unless
\* it is taken already or no longer quoted.
PullBegin(w, p) ==
    /\ wpc[w] = "idle"
    /\ p \in refs \ cancelled
    /\ pulls < MaxPulls
    /\ cancelled' = cancelled \cup {p}
    /\ wpc' = [wpc EXCEPT ![w] = "pullYes"]
    /\ wcur' = [wcur EXCEPT ![w] = p]
    /\ pulls' = pulls + 1
    /\ UNCHANGED <<quotes, refs, wake, main, faults>>

PullYes(w) ==
    /\ wpc[w] = "pullYes"
    /\ \E ok \in BOOLEAN : Cancel(wcur[w], "yes", ok)
    /\ wpc' = [wpc EXCEPT ![w] = "pullNo"]
    /\ UNCHANGED <<active, shared, main, wcur, pulls>>

PullNo(w) ==
    /\ wpc[w] = "pullNo"
    /\ \E ok \in BOOLEAN : Cancel(wcur[w], "no", ok)
    /\ wpc' = [wpc EXCEPT ![w] = "wake"]
    /\ UNCHANGED <<active, shared, main, wcur, pulls>>

\* compute_and_store_signals saw the mid leave the band: wake without a pull.
Moved(w) ==
    /\ wpc[w] = "idle"
    /\ refs # {}
    /\ pulls < MaxPulls
    /\ pulls' = pulls + 1
    /\ wpc' = [wpc EXCEPT ![w] = "wake"]
    /\ UNCHANGED <<quotes, shared, main, wcur, faults>>

\* Mutant: the notification is sent without setting loop_wake_.
WakeSetMutant(w) ==
    /\ wpc[w] = "wake"
    /\ wpc' = [wpc EXCEPT ![w] = "notify"]
    /\ UNCHANGED <<quotes, shared, main, wcur, pulls, faults>>

\* wake_loop: the flag is stored without the lock ...
WakeSet(w) ==
    /\ wpc[w] = "wake"
    /\ wake' = TRUE
    /\ wpc' = [wpc EXCEPT ![w] = "notify"]
    /\ UNCHANGED <<quotes, refs, cancelled, main, wcur, pulls, faults>>

\* ... and notify_one is called under loop_mu_, which the main loop holds from
\* the end of its wait to the reset of the flag.
WakeNotify(w) ==
    /\ wpc[w] = "notify"
    /\ pc # "clear"
    /\ pc' = IF pc = "blocked" THEN "wait" ELSE pc
    /\ wpc' = [wpc EXCEPT ![w] = "idle"]
    /\ wcur' = [wcur EXCEPT ![w] = None]
    /\ UNCHANGED <<quotes, shared, todo, forced, cur, seq, pulls, faults>>

WorkerStep(w) == PullYes(w) \/ PullNo(w) \/ WakeSet(w) \/ WakeNotify(w)

-----------------------------------------------------------------------------
(* The main loop                                                            *)

\* reselect places or drops a quote.
BeatPlace(p) ==
    /\ pc = "beat" /\ seq = "none" /\ p \notin active
    /\ active' = active \cup {p}
    /\ cur' = p /\ seq' = "placeYes"
    /\ UNCHANGED <<resting, shared, pc, todo, forced, workers, pulls, faults>>

BeatExit(p) ==
    /\ pc = "beat" /\ seq = "none" /\ p \in active
    /\ cur' = p /\ seq' = "exitYes"
    /\ UNCHANGED <<quotes, shared, pc, todo, forced, workers, pulls, faults>>

\* reselect ends with sync_ws_subscriptions, which refreshes the references.
BeatEnd ==
    /\ pc = "beat" /\ seq = "none"
    /\ pc' = "poll"
    /\ refs' = active
    /\ UNCHANGED <<quotes, cancelled, wake, todo, forced, cur, seq, workers, pulls, faults>>

\* Mutant: the order refresh is not added to the forced set.
PollTakeMutant(due) ==
    /\ pc = "poll"
    /\ ExpiryRefresh \/ due = {}
    /\ due \subseteq active
    /\ forced' = cancelled
    /\ cancelled' = {}
    /\ todo' = active
    /\ pc' = "accrue"
    /\ UNCHANGED <<quotes, refs, wake, cur, seq, workers, pulls, faults>>

\* poll_once takes the pulled tokens, and those whose refresh is due.
PollTake(due) ==
    /\ pc = "poll"
    /\ ExpiryRefresh \/ due = {}
    /\ due \subseteq active
    /\ forced' = cancelled \cup due
    /\ cancelled' = {}
    /\ todo' = active
    /\ pc' = "accrue"
    /\ UNCHANGED <<quotes, refs, wake, cur, seq, workers, pulls, faults>>

Accruing(p) == pc = "accrue" /\ seq = "none" /\ p \in todo

\* The book or the reward config could not be read: a forced token is dropped.
AccrueSkip(p) ==
    /\ Accruing(p)
    /\ Fault(TRUE)
    /\ todo' = todo \ {p}
    /\ UNCHANGED <<quotes, shared, pc, forced, cur, seq, workers, pulls>>

AccrueExit(p) ==
    /\ Accruing(p)
    /\ todo' = todo \ {p}
    /\ cur' = p /\ seq' = "exitYes"
    /\ UNCHANGED <<quotes, shared, pc, forced, workers, pulls, faults>>

AccrueRecenter(p) ==
    /\ Accruing(p)
    /\ todo' = todo \ {p}
    /\ cur' = p /\ seq' = "cancelYes"
    /\ UNCHANGED <<quotes, shared, pc, forced, workers, pulls, faults>>

\* Neither forced nor moved: left alone.
AccrueHold(p) ==
    /\ Accruing(p)
    /\ p \notin forced
    /\ todo' = todo \ {p}
    /\ UNCHANGED <<quotes, shared, pc, forced, cur, seq, workers, pulls, faults>>

\* One leg of an exit.  exit_held (and the rollback of a placement) ignores the
\* answers and closes the quote; an exit of the accrual keeps it if a cancel failed.
Exit(leg) ==
    /\ seq \in (IF leg = "yes" THEN {"exitYes"} ELSE {"exitNo", "exitNoBad"})
    /\ \E ok \in BOOLEAN :
       LET good == seq # "exitNoBad" /\ (ok \/ pc = "beat") IN
          /\ Cancel(cur, leg, ok)
          /\ IF leg = "yes"
             THEN seq' = (IF good THEN "exitNo" ELSE "exitNoBad") /\ UNCHANGED <<cur, active>>
             ELSE /\ active' = IF good THEN active \ {cur} ELSE active
                  /\ seq' = "none" /\ cur' = None
    /\ UNCHANGED <<shared, pc, todo, forced, workers, pulls>>

\* One leg of cancel_both before the quote is placed again.
Recentre(leg) ==
    /\ seq = (IF leg = "yes" THEN "cancelYes" ELSE "cancelNo")
    /\ \E ok \in BOOLEAN : Cancel(cur, leg, ok)
    /\ seq' = IF leg = "yes" THEN "cancelNo" ELSE "placeYes"
    /\ UNCHANGED <<active, cur, shared, pc, todo, forced, workers, pulls>>

\* One leg of a placement.  A new quote with a refused leg is rolled back; a
\* re-centred one ignores the answers.
Send(leg) ==
    /\ seq \in (IF leg = "yes" THEN {"placeYes"} ELSE {"placeNo", "placeNoBad"})
    /\ \E ok \in BOOLEAN :
       LET good == seq # "placeNoBad" /\ (ok \/ pc = "accrue") IN
          /\ Place(cur, leg, ok)
          /\ IF leg = "yes"
             THEN seq' = (IF good THEN "placeNo" ELSE "placeNoBad") /\ UNCHANGED cur
             ELSE /\ seq' = IF good THEN "none" ELSE "exitYes"
                  /\ cur' = IF good THEN None ELSE cur
    /\ UNCHANGED <<active, shared, pc, todo, forced, workers, pulls>>

\* poll_once ends with refresh_reflex_refs.
PollEnd ==
    /\ pc = "accrue" /\ seq = "none" /\ todo = {}
    /\ refs' = active
    /\ forced' = {}
    /\ pc' = "wait"
    /\ UNCHANGED <<quotes, cancelled, wake, todo, cur, seq, workers, pulls, faults>>

\* wait_for evaluates its predicate under loop_mu_.
Wait ==
    /\ pc = "wait"
    /\ pc' = IF wake THEN "clear" ELSE "blocked"
    /\ UNCHANGED <<quotes, shared, todo, forced, cur, seq, workers, pulls, faults>>

\* The poll_seconds heartbeat.
Timeout ==
    /\ pc = "blocked"
    /\ pc' = "clear"
    /\ UNCHANGED <<quotes, shared, todo, forced, cur, seq, workers, pulls, faults>>

\* The flag is reset; the next iteration has a beat or goes straight to poll_once.
Clear ==
    /\ pc = "clear"
    /\ wake' = FALSE
    /\ pc' \in {"beat", "poll"}
    /\ UNCHANGED <<quotes, refs, cancelled, todo, forced, cur, seq, workers, pulls, faults>>

Visit(p) == AccrueSkip(p) \/ AccrueExit(p) \/ AccrueRecenter(p) \/ AccrueHold(p)
MainStep ==
    \/ BeatEnd \/ PollEnd \/ Wait \/ Timeout \/ Clear
    \/ \E leg \in Legs : Exit(leg) \/ Recentre(leg) \/ Send(leg)
    \/ \E due \in SUBSET Pools : PollTake(due)
    \/ \E p \in Pools : Visit(p) \/ BeatPlace(p) \/ BeatExit(p)

Next == MainStep \/ \E w \in Workers : WorkerStep(w) \/ Moved(w) \/ \E p \in Pools : PullBegin(w, p)

\* Both threads keep running, a beat ends, and the refresh timer of a token that
\* stays quoted expires again and again.
Fairness ==
    /\ WF_vars(MainStep) /\ SF_vars(BeatEnd)
    /\ \A w \in Workers : WF_vars(WorkerStep(w))
    /\ \A p \in Pools : SF_vars(\E due \in SUBSET Pools : p \in due /\ PollTake(due))

Spec == Init /\ [][Next]_vars
FairSpec == Spec /\ Fairness

-----------------------------------------------------------------------------
TypeOK ==
    /\ active \subseteq Pools /\ resting \in [Pools -> SUBSET Legs]
    /\ refs \subseteq Pools /\ cancelled \subseteq Pools /\ wake \in BOOLEAN
    /\ pc \in Passes /\ todo \subseteq Pools /\ forced \subseteq Pools
    /\ cur \in Pools \cup {None} /\ seq \in Seqs /\ (seq = "none" <=> cur = None)
    /\ wpc \in [Workers -> Steps] /\ wcur \in [Workers -> Pools \cup {None}]
    /\ \A w \in Workers : wpc[w] \in {"pullYes", "pullNo"} => wcur[w] \in Pools
    /\ pulls \in Nat /\ faults \in Nat

\* The main loop never sleeps out its heartbeat on a pulled token: while it is
\* blocked with the flag down, the worker of every token in reflex_cancelled_ has
\* still to set the flag, and while it is blocked with the flag up, a notification
\* is on its way, although the flag is stored outside loop_mu_
\* (runner.hpp:164-168, runner.cpp:472-477).
NoLostWake ==
    pc = "blocked" =>
        /\ ~wake => \A p \in cancelled :
              \E w \in Workers : wcur[w] = p /\ wpc[w] \in {"pullYes", "pullNo", "wake"}
        /\ wake => \E w \in Workers : wpc[w] = "notify"

\* With the order refresh on, a quoted pool always comes back to two resting legs
\* or is dropped, whatever pulls, failed calls and unread books took its orders
\* away (runner.cpp:755-774,1386-1412).
QuotesRestored ==
    \A p \in Pools : p \in active ~> (resting[p] = Legs \/ p \notin active)
=============================================================================
