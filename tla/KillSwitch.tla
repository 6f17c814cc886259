----------------------------- MODULE KillSwitch -----------------------------
(***************************************************************************)
(* The kill switch of a live LiveRunner: the daily equity baseline and the  *)
(* KILL_LATCH file it keeps in state/, the 15 s equity samples of           *)
(* kill_check, trip_kill, and start-up under a latch.                       *)
(*                                                                          *)
(* Equity is USDC plus the market value of the positions.  The data API     *)
(* publishes the position value late, and a failed query reads as zero; a   *)
(* failed USDC query leaves the last reading.  Trading itself is LiveMaker; *)
(* here `traded` says whether this process has sent orders.                 *)
(***************************************************************************)
EXTENDS Integers

CONSTANTS
    Usdc0,      \* USDC in the wallet at first
    MaxLoss,    \* cfg_.max_loss
    Sustained,  \* samples in a row below the floor that trip the switch
    MaxEquity,  \* bound: what wallet and positions are worth together
    MaxDay,     \* bound: UTC days
    MaxFaults   \* bound: failed reads, failed writes and crashes

None == -1

ASSUME KillAssumption ==
    /\ Usdc0 \in Nat /\ MaxLoss \in Nat /\ Sustained \in Nat \ {0}
    /\ MaxEquity \in Nat /\ MaxDay \in Nat /\ MaxFaults \in Nat

VARIABLES
    usdc, posv,        \* the wallet and the value of the positions
    pub,               \* position value as the data API last published it
    day,
    baseDay, baseEq,   \* state/equity_baseline.json (None: absent)
    latch,             \* state/KILL_LATCH exists
    pc,                \* the process
    stop,              \* stop_
    reason,            \* kill_reason_
    start, startDay,   \* usdc_start_ (None: unreadable) and the day it was taken
    lastUsdc,          \* last_usdc_
    dd,                \* equity_dd_count_
    traded,            \* this process has placed orders
    \* History: what the properties speak about.
    firstEq,           \* the first baseline persisted today (None: none yet)
    unread,            \* a start of today could not read that baseline back
    owed,              \* a latch was written and the operator has not removed it
    misread,           \* consecutive samples that were not the true equity (capped)
    sawLoss,           \* some sample of this run was taken during a real loss
    faults

world == <<usdc, posv, pub, day>>
files == <<baseDay, baseEq, latch>>
proc == <<pc, stop, reason, start, startDay, lastUsdc, dd, traded>>
history == <<firstEq, unread, owed, misread, sawLoss>>
vars == <<world, files, proc, history, faults>>

Places == {"down", "boot", "arm", "check", "place", "loop", "stopping"}
Reasons == {"none", "signal", "kill-latch", "drawdown", "risk"}

Init ==
    /\ usdc = Usdc0 /\ posv = 0 /\ pub = 0 /\ day = 0
    /\ baseDay = None /\ baseEq = 0 /\ latch = FALSE
    /\ pc = "down" /\ stop = FALSE /\ reason = "none"
    /\ start = None /\ startDay = None /\ lastUsdc = 0 /\ dd = 0 /\ traded = FALSE
    /\ firstEq = None /\ unread = FALSE /\ owed = FALSE /\ misread = 0 /\ sawLoss = FALSE
    /\ faults = 0

Fault(bad) ==
    /\ bad => faults < MaxFaults
    /\ faults' = faults + (IF bad THEN 1 ELSE 0)

Loss == start # None /\ usdc + posv < start - MaxLoss

-----------------------------------------------------------------------------
(* The wallet, the data API and the clock                                   *)

\* A maker fill turns USDC into a position (an order may outlive its process), a
\* flatten turns it back.
Buy ==
    /\ traded
    /\ usdc > 0
    /\ usdc' = usdc - 1 /\ posv' = posv + 1
    /\ UNCHANGED <<pub, day, files, proc, history, faults>>

Sell ==
    /\ pc \in {"check", "loop", "stopping"}
    /\ posv > 0
    /\ usdc' = usdc + 1 /\ posv' = posv - 1
    /\ UNCHANGED <<pub, day, files, proc, history, faults>>

\* The market moves against or for the positions.
Devalue ==
    /\ posv > 0
    /\ posv' = posv - 1
    /\ UNCHANGED <<usdc, pub, day, files, proc, history, faults>>

Recover ==
    /\ posv > 0 /\ usdc + posv < MaxEquity
    /\ posv' = posv + 1
    /\ UNCHANGED <<usdc, pub, day, files, proc, history, faults>>

Publish ==
    /\ pub # posv
    /\ pub' = posv
    /\ UNCHANGED <<usdc, posv, day, files, proc, history, faults>>

Midnight ==
    /\ day < MaxDay
    /\ day' = day + 1
    /\ firstEq' = None /\ unread' = FALSE
    /\ UNCHANGED <<usdc, posv, pub, files, proc, owed, misread, sawLoss, faults>>

\* rm state/KILL_LATCH
ClearLatch ==
    /\ latch /\ pc = "down"
    /\ latch' = FALSE /\ owed' = FALSE
    /\ UNCHANGED <<world, baseDay, baseEq, proc, firstEq, unread, misread, sawLoss, faults>>

-----------------------------------------------------------------------------
(* run(): start-up                                                          *)

\* trip_kill(why): the first reason wins; a risk kill writes the latch, and a
\* failed write goes unnoticed.  `bad`: a read already failed in this step.
Trip(why, bad) ==
    LET latches == why \notin {"signal", "kill-latch"} /\ ~stop IN
    /\ stop' = TRUE
    /\ reason' = IF stop THEN reason ELSE why
    /\ \E written \in BOOLEAN :
          /\ Fault(bad \/ (latches /\ ~written))
          /\ latch' = (latch \/ (latches /\ written))
          /\ owed' = (owed \/ (latches /\ written))

\* A process ends: its memory is gone, and what the properties say of it with it.
Exit ==
    /\ pc' = "down"
    /\ stop' = FALSE /\ reason' = "none" /\ start' = None /\ startDay' = None
    /\ lastUsdc' = 0 /\ dd' = 0
    /\ misread' = 0 /\ sawLoss' = FALSE

Start ==
    /\ pc = "down"
    /\ pc' = "boot" /\ traded' = FALSE
    /\ UNCHANGED <<world, files, stop, reason, start, startDay, lastUsdc, dd, history, faults>>

\* Mutant: the latch is not looked at.
BootLatchMutant ==
    /\ pc = "boot"
    /\ UNCHANGED <<stop, reason, latch, owed, faults>>
    /\ pc' = "arm"
    /\ UNCHANGED <<world, baseDay, baseEq, start, startDay, lastUsdc, dd, traded,
                   firstEq, unread, misread, sawLoss>>

\* A latch trips the switch, and start-up goes on.
BootLatch ==
    /\ pc = "boot"
    /\ IF latch THEN Trip("kill-latch", FALSE) ELSE UNCHANGED <<stop, reason, latch, owed, faults>>
    /\ pc' = "arm"
    /\ UNCHANGED <<world, baseDay, baseEq, start, startDay, lastUsdc, dd, traded,
                   firstEq, unread, misread, sawLoss>>

\* Mutant: the baseline is taken anew on every start.
BaselineMutant(fresh, parsed) == fresh

\* Today's persisted baseline if the file can be read, else the equity just read.
Baseline(fresh, parsed) == IF baseDay = day /\ parsed THEN baseEq ELSE fresh

\* The equity baseline.  A file that is not today's, or that cannot be parsed, is
\* truncated and written anew: that succeeds, cannot open the file, or leaves a
\* torn one.  An unreadable or empty wallet leaves the kill disabled.
ArmWith(readable, posRead, parsed, write) ==
    LET armed == readable /\ usdc > 0
        eq == Baseline(usdc + (IF posRead THEN pub ELSE 0), parsed)
        writes == armed /\ ~(baseDay = day /\ parsed)
        save == writes /\ write = "done" IN
    /\ start' = IF armed THEN eq ELSE None
    /\ startDay' = IF armed THEN day ELSE None
    /\ lastUsdc' = IF armed THEN usdc ELSE lastUsdc
    /\ baseDay' = IF save THEN day ELSE IF writes /\ write = "torn" THEN None ELSE baseDay
    /\ baseEq' = IF save THEN eq ELSE baseEq
    /\ firstEq' = IF save /\ firstEq = None THEN eq ELSE firstEq
    /\ unread' = IF writes /\ baseDay = day THEN TRUE ELSE unread

Arm ==
    /\ pc = "arm"
    /\ \E readable, posRead, parsed \in BOOLEAN, write \in {"done", "closed", "torn"} :
          /\ Fault(~(readable /\ posRead /\ parsed /\ write = "done"))
          /\ ArmWith(readable, posRead, parsed, write)
    /\ pc' = "check"
    /\ UNCHANGED <<world, latch, stop, reason, dd, traded, owed, misread, sawLoss>>

-----------------------------------------------------------------------------
(* kill_check                                                               *)

\* Mutants: a good sample does not reset the count, or only takes one off; a low
\* sample sets the count instead of adding to it.
DrawdownKeepMutant(low) == IF low THEN dd + 1 ELSE dd
DrawdownDecayMutant(low) == IF low THEN dd + 1 ELSE dd - 1
DrawdownSetMutant(low) == IF low THEN 1 ELSE 0

\* equity_dd_count_ after a sample.
Drawdown(low) == IF low THEN dd + 1 ELSE 0

\* The 15 s block: one sample, then the test of the count.
Sample ==
    /\ pc \in {"check", "loop"} /\ start # None
    /\ \E readable, posRead \in BOOLEAN :
       LET bal == IF readable THEN usdc ELSE lastUsdc
           eq == bal + (IF posRead THEN pub ELSE 0)
           low == bal > 0 /\ eq < start - MaxLoss IN
          /\ lastUsdc' = bal
          /\ dd' = Drawdown(low)
          /\ misread' = IF eq = usdc + posv THEN 0
                        ELSE IF misread < Sustained THEN misread + 1 ELSE misread
          /\ sawLoss' = (sawLoss \/ Loss)
          /\ IF dd' >= Sustained
             THEN Trip("drawdown", ~(readable /\ posRead)) /\ pc' = "stopping"
             ELSE /\ Fault(~(readable /\ posRead))
                  /\ pc' = IF pc = "check" THEN "place" ELSE pc
                  /\ UNCHANGED <<stop, reason, latch, owed>>
    /\ UNCHANGED <<world, baseDay, baseEq, start, startDay, traded, firstEq, unread>>

\* The block is not due, or was never armed.
Quiet ==
    /\ pc = "check" /\ start = None
    /\ pc' = "place"
    /\ UNCHANGED <<world, files, stop, reason, start, startDay, lastUsdc, dd, traded,
                   history, faults>>

\* The kill file, the ledger's loss limit, the wallet floor, or fills in a churn.
RiskKill ==
    /\ pc \in {"check", "loop"}
    /\ Trip("risk", FALSE)
    /\ pc' = "stopping"
    /\ UNCHANGED <<world, baseDay, baseEq, start, startDay, lastUsdc, dd, traded,
                   firstEq, unread, misread, sawLoss>>

-----------------------------------------------------------------------------
(* The rest of run()                                                        *)

\* rediscover and reselect before the loop, which may place orders; the loop is
\* entered unless stop_ is set.
BootPlace ==
    /\ pc = "place"
    /\ traded' \in BOOLEAN
    /\ pc' = IF stop THEN "stopping" ELSE "loop"
    /\ UNCHANGED <<world, files, stop, reason, start, startDay, lastUsdc, dd, history, faults>>

\* An iteration of the loop places orders.
Iterate ==
    /\ pc = "loop"
    /\ traded' = TRUE
    /\ UNCHANGED <<world, files, pc, stop, reason, start, startDay, lastUsdc, dd,
                   history, faults>>

Signal ==
    /\ pc = "loop"
    /\ Trip("signal", FALSE)
    /\ pc' = "stopping"
    /\ UNCHANGED <<world, baseDay, baseEq, start, startDay, lastUsdc, dd, traded,
                   firstEq, unread, misread, sawLoss>>

\* shutdown has run.
Stopped ==
    /\ pc = "stopping"
    /\ Exit
    /\ UNCHANGED <<world, files, traded, firstEq, unread, owed, faults>>

\* The process dies.
Crash ==
    /\ pc # "down"
    /\ Fault(TRUE)
    /\ Exit
    /\ UNCHANGED <<world, files, traded, firstEq, unread, owed>>

Process == Start \/ BootLatch \/ Arm \/ Sample \/ Quiet \/ BootPlace \/ Iterate \/ Stopped
Next ==
    \/ Process \/ RiskKill \/ Signal \/ Crash
    \/ Buy \/ Sell \/ Devalue \/ Recover \/ Publish \/ Midnight \/ ClearLatch

\* The loop keeps sampling and the data API keeps publishing; nothing else is owed.
Spec == Init /\ [][Next]_vars
FairSpec == Spec /\ WF_vars(Sample) /\ WF_vars(Publish)

-----------------------------------------------------------------------------
TypeOK ==
    /\ usdc \in Nat /\ posv \in Nat /\ pub \in Nat /\ day \in 0..MaxDay
    /\ baseDay \in (0..MaxDay) \cup {None} /\ baseEq \in Nat /\ latch \in BOOLEAN
    /\ pc \in Places /\ stop \in BOOLEAN /\ reason \in Reasons
    /\ start \in Nat \cup {None} /\ startDay \in (0..MaxDay) \cup {None}
    /\ lastUsdc \in Nat /\ dd \in 0..Sustained /\ traded \in BOOLEAN
    /\ firstEq \in Nat \cup {None} /\ unread \in BOOLEAN /\ owed \in BOOLEAN
    /\ misread \in 0..Sustained /\ sawLoss \in BOOLEAN /\ faults \in Nat

\* All runs of one UTC day share one loss budget: whatever restarts and crashes
\* lie between, a run measures its losses from the first baseline persisted that
\* day ("重启不重置当日亏损预算", runner.cpp:269-271).  The exception is a start that
\* cannot read today's file back: it takes a fresh baseline and overwrites the file
\* without a word (runner.cpp:282-299).
DailyBudget ==
    pc = "loop" /\ startDay = day /\ firstEq # None /\ ~unread => start = firstEq

\* Once a risk kill has latched, no run trades in its loop until the operator
\* removes the latch, however often the service is restarted (runner.cpp:161-170,251-259).
KillSticks == owed => pc # "loop"

\* The drawdown kill is never a false alarm unless `Sustained` samples in a row
\* were misread: late settlement and failed queries in between are filtered out
\* (runner.cpp:1523-1533).
NoFalseKill == reason = "drawdown" /\ misread < Sustained => sawLoss

\* Once trading has come to rest, a real loss beyond the budget stops the loop or is
\* won back, however prices move and values are published late, unless the wallet
\* is empty or the baseline was unreadable at start-up.  Trades that never rest can
\* hide it: right after a sale the old position value and the new USDC add up to
\* more than is there, and one such sample resets the count (runner.cpp:1487-1533).
LossStops ==
    <>[][usdc' = usdc]_vars =>
        ((pc = "loop" /\ Loss) ~> (pc # "loop" \/ usdc = 0 \/ ~Loss))

\* A start under a latch refuses to trade ("拒绝交易", runner.cpp:252; "refusing
\* to arm", runner.cpp:255).
LatchRefusesTrading == reason = "kill-latch" => ~traded
=============================================================================
