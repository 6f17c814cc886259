-------------------------- MODULE KillSwitchProofs --------------------------
(***************************************************************************)
(* TLAPS proofs about KillSwitch, for any wallet, loss limit, number of     *)
(* days and number of failed reads, failed writes and crashes.              *)
(***************************************************************************)
EXTENDS KillSwitch, TLAPS

\* The part of the type invariant the arithmetic needs.
NumbersInv ==
    /\ usdc \in Nat /\ posv \in Nat /\ pub \in Nat /\ day \in 0..MaxDay
    /\ baseDay \in (0..MaxDay) \cup {None} /\ baseEq \in Nat
    /\ start \in Nat \cup {None} /\ startDay \in (0..MaxDay) \cup {None}
    /\ lastUsdc \in Nat /\ dd \in Nat /\ misread \in 0..Sustained
    /\ firstEq \in Nat \cup {None}

\* A process that saw the latch has stop_ set, and the loop runs without it.
LatchInv ==
    /\ owed => latch
    /\ owed /\ pc \notin {"down", "boot"} => stop
    /\ pc = "loop" => ~stop

\* The baseline file holds the first baseline of today, if there was one and no
\* start failed to read it back.
BudgetInv ==
    /\ baseDay <= day
    /\ firstEq # None /\ ~unread => baseDay = day
    /\ baseDay = day /\ ~unread => firstEq = baseEq
    /\ startDay <= day
    /\ pc \in {"check", "place", "loop"} /\ startDay = day /\ firstEq # None /\ ~unread
          => start = firstEq

\* Without a real loss every low sample was a misread one.
AlarmInv ==
    /\ pc \in {"check", "place", "loop"} => dd < Sustained /\ reason # "drawdown"
    /\ pc \in {"check", "place", "loop"} => sawLoss \/ dd <= misread
    /\ pc \in {"down", "boot", "arm"} => dd = 0 /\ reason # "drawdown"
    /\ reason = "drawdown" => sawLoss \/ misread = Sustained

\* The rest of the type invariant; the count of low samples never passes its limit,
\* because the process stops when it is reached.
FlagsInv ==
    /\ pc \in Places /\ reason \in Reasons /\ dd <= Sustained /\ faults \in Nat
    /\ latch \in BOOLEAN /\ stop \in BOOLEAN /\ traded \in BOOLEAN /\ owed \in BOOLEAN
    /\ sawLoss \in BOOLEAN /\ unread \in BOOLEAN

IInv == NumbersInv /\ LatchInv /\ BudgetInv /\ AlarmInv /\ FlagsInv

-----------------------------------------------------------------------------
\* Each action keeps the numbers numbers.
LEMMA NumbersStep == NumbersInv /\ [Next]_vars => NumbersInv'
<1> SUFFICES ASSUME NumbersInv, [Next]_vars PROVE NumbersInv'
    OBVIOUS
<1> USE KillAssumption DEF world, files, proc, history, NumbersInv, None
<1>1. CASE UNCHANGED vars BY <1>1 DEF vars
<1>2. CASE Buy \/ Sell \/ Devalue \/ Recover \/ Publish \/ Midnight \/ ClearLatch
  <2>1. CASE Buy \/ Sell BY <2>1 DEF Buy, Sell
  <2>2. CASE Devalue \/ Recover BY <2>2 DEF Devalue, Recover
  <2>3. CASE Publish BY <2>3 DEF Publish
  <2>4. CASE Midnight BY <2>4 DEF Midnight
  <2>5. CASE ClearLatch BY <2>5 DEF ClearLatch
  <2> QED BY <1>2, <2>1, <2>2, <2>3, <2>4, <2>5
<1>3. CASE Start BY <1>3 DEF Start
<1>4. CASE BootLatch BY <1>4 DEF BootLatch
<1>5. CASE Arm
  <2>1. PICK readable \in BOOLEAN, posRead \in BOOLEAN, parsed \in BOOLEAN,
             write \in {"done", "closed", "torn"} : ArmWith(readable, posRead, parsed, write)
        BY <1>5, Zenon DEF Arm
  <2>2. Baseline(usdc + (IF posRead THEN pub ELSE 0), parsed) \in Nat
        BY DEF Baseline
  <2> QED BY <1>5, <2>1, <2>2 DEF Arm, ArmWith
<1>6. CASE Sample
  <2>1. lastUsdc' \in Nat /\ misread' \in 0..Sustained
        BY <1>6 DEF Sample
  <2>2. dd' \in Nat
        BY <1>6 DEF Sample, Drawdown
  <2> QED BY <1>6, <2>1, <2>2 DEF Sample
<1>7. CASE Quiet \/ RiskKill \/ BootPlace \/ Iterate \/ Signal
      BY <1>7 DEF Quiet, RiskKill, BootPlace, Iterate, Signal
<1>8. CASE Stopped \/ Crash
  <2>1. /\ UNCHANGED <<usdc, posv, pub, day, baseDay, baseEq, firstEq, unread>>
        /\ pc' = "down" /\ start' = None /\ startDay' = None /\ lastUsdc' = 0 /\ dd' = 0 /\ misread' = 0
        BY <1>8, Zenon DEF Stopped, Crash, Exit
  <2> QED BY <2>1
<1> QED BY <1>1, <1>2, <1>3, <1>4, <1>5, <1>6, <1>7, <1>8 DEF Next, Process

\* Each action keeps a latched runner out of its loop.
LEMMA LatchStep == LatchInv /\ [Next]_vars => LatchInv'
<1> SUFFICES ASSUME LatchInv, [Next]_vars PROVE LatchInv'
    OBVIOUS
<1> USE DEF world, files, proc, history, LatchInv
<1>1. CASE UNCHANGED vars BY <1>1 DEF vars
<1>2. CASE Buy \/ Sell \/ Devalue \/ Recover \/ Publish \/ Midnight \/ ClearLatch
      BY <1>2 DEF Buy, Sell, Devalue, Recover, Publish, Midnight, ClearLatch
<1>3. CASE Start BY <1>3 DEF Start
<1>4. CASE BootLatch BY <1>4 DEF BootLatch, Trip
<1>5. CASE Arm BY <1>5 DEF Arm
<1>6. CASE Sample
  <2>1. \/ stop' = TRUE /\ pc' = "stopping" /\ (owed' => (owed \/ latch')) /\ (latch => latch')
        \/ UNCHANGED <<stop, latch, owed>> /\ pc' = IF pc = "check" THEN "place" ELSE pc
        BY <1>6 DEF Sample, Trip
  <2> QED BY <1>6, <2>1 DEF Sample
<1>7. CASE RiskKill \/ Signal BY <1>7 DEF RiskKill, Signal, Trip
<1>8. CASE Quiet \/ BootPlace \/ Iterate \/ Stopped \/ Crash
  <2>1. CASE Quiet BY <2>1 DEF Quiet
  <2>2. CASE BootPlace BY <2>2 DEF BootPlace
  <2>3. CASE Iterate BY <2>3 DEF Iterate
  <2>4. CASE Stopped BY <2>4 DEF Stopped, Exit
  <2>5. CASE Crash BY <2>5 DEF Crash, Exit
  <2> QED BY <1>8, <2>1, <2>2, <2>3, <2>4, <2>5
<1> QED BY <1>1, <1>2, <1>3, <1>4, <1>5, <1>6, <1>7, <1>8 DEF Next, Process

\* Each action keeps the day's first baseline.
LEMMA BudgetStep == NumbersInv /\ BudgetInv /\ [Next]_vars => BudgetInv'
<1> SUFFICES ASSUME NumbersInv, BudgetInv, [Next]_vars PROVE BudgetInv'
    OBVIOUS
<1> USE DEF world, files, proc, history, BudgetInv, NumbersInv, None
<1>1. CASE UNCHANGED vars BY <1>1 DEF vars
<1>2. CASE Buy \/ Sell \/ Devalue \/ Recover \/ Publish \/ Midnight \/ ClearLatch
  <2>1. CASE Buy \/ Sell BY <2>1 DEF Buy, Sell
  <2>2. CASE Devalue \/ Recover BY <2>2 DEF Devalue, Recover
  <2>3. CASE Publish BY <2>3 DEF Publish
  <2>4. CASE Midnight BY <2>4 DEF Midnight
  <2>5. CASE ClearLatch BY <2>5 DEF ClearLatch
  <2> QED BY <1>2, <2>1, <2>2, <2>3, <2>4, <2>5
<1>3. CASE Start BY <1>3 DEF Start
<1>4. CASE BootLatch BY <1>4 DEF BootLatch
<1>5. CASE Arm
  <2>1. PICK readable \in BOOLEAN, posRead \in BOOLEAN, parsed \in BOOLEAN,
             write \in {"done", "closed", "torn"} : ArmWith(readable, posRead, parsed, write)
        BY <1>5, Zenon DEF Arm
  <2>2. day' = day /\ pc' = "check"
        BY <1>5 DEF Arm
  <2> DEFINE fresh == usdc + (IF posRead THEN pub ELSE 0)
  <2>3. CASE baseDay = day /\ parsed
    <3>1. baseDay' = baseDay /\ baseEq' = baseEq /\ firstEq' = firstEq /\ unread' = unread
          BY <2>1, <2>3 DEF ArmWith
    <3>2. (start' = baseEq /\ startDay' = day) \/ startDay' = None
          BY <2>1, <2>3 DEF ArmWith, Baseline
    <3> QED BY <2>2, <2>3, <3>1, <3>2
  <2>4. CASE baseDay = day /\ ~parsed
    <3>1. CASE readable /\ usdc > 0
      <4>1. unread' = TRUE /\ baseDay' \in {day, None} /\ startDay' = day
            BY <2>1, <2>4, <3>1 DEF ArmWith
      <4> QED BY <2>2, <4>1
    <3>2. CASE ~(readable /\ usdc > 0)
      <4>1. /\ baseDay' = baseDay /\ baseEq' = baseEq /\ firstEq' = firstEq /\ unread' = unread
            /\ startDay' = None
            BY <2>1, <2>4, <3>2 DEF ArmWith
      <4> QED BY <2>2, <2>4, <4>1
    <3> QED BY <3>1, <3>2
  <2>5. CASE baseDay # day
    <3>1. unread' = unread /\ (unread \/ firstEq = None)
          BY <2>1, <2>5 DEF ArmWith
    <3>2. (start' = fresh /\ startDay' = day) \/ startDay' = None
          BY <2>1, <2>5 DEF ArmWith, Baseline
    <3>3. CASE /\ baseDay' = day /\ baseEq' = fresh /\ startDay' = day
               /\ firstEq' = IF firstEq = None THEN fresh ELSE firstEq
          BY <2>2, <2>5, <3>1, <3>2, <3>3
    <3>4. CASE baseDay' \in {baseDay, None} /\ firstEq' = firstEq
          BY <2>2, <2>5, <3>1, <3>2, <3>4
    <3> QED BY <2>1, <2>5, <3>3, <3>4 DEF ArmWith, Baseline
  <2> QED BY <2>3, <2>4, <2>5
<1>6. CASE Sample
  <2>1. UNCHANGED <<day, baseDay, baseEq, firstEq, unread, start, startDay>> /\ pc \in {"check", "loop"}
        BY <1>6 DEF Sample
  <2> QED BY <2>1
<1>7. CASE Quiet \/ RiskKill \/ BootPlace \/ Iterate \/ Signal
      BY <1>7 DEF Quiet, RiskKill, BootPlace, Iterate, Signal
<1>8. CASE Stopped \/ Crash
  <2>1. /\ UNCHANGED <<usdc, posv, pub, day, baseDay, baseEq, firstEq, unread>>
        /\ pc' = "down" /\ start' = None /\ startDay' = None /\ lastUsdc' = 0 /\ dd' = 0 /\ misread' = 0
        BY <1>8, Zenon DEF Stopped, Crash, Exit
  <2> QED BY <2>1
<1> QED BY <1>1, <1>2, <1>3, <1>4, <1>5, <1>6, <1>7, <1>8 DEF Next, Process

\* Each action keeps the low samples explained.
LEMMA AlarmStep == NumbersInv /\ AlarmInv /\ [Next]_vars => AlarmInv'
<1> SUFFICES ASSUME NumbersInv, AlarmInv, [Next]_vars PROVE AlarmInv'
    OBVIOUS
<1> USE KillAssumption DEF world, files, proc, history, AlarmInv, NumbersInv
<1>1. CASE UNCHANGED vars BY <1>1 DEF vars
<1>2. CASE Buy \/ Sell \/ Devalue \/ Recover \/ Publish \/ Midnight \/ ClearLatch
      BY <1>2 DEF Buy, Sell, Devalue, Recover, Publish, Midnight, ClearLatch
<1>3. CASE Start BY <1>3 DEF Start
<1>4. CASE BootLatch BY <1>4 DEF BootLatch, Trip
<1>5. CASE Arm BY <1>5 DEF Arm
<1>6. CASE Sample
  <2>1. PICK readable \in BOOLEAN, posRead \in BOOLEAN :
          LET bal == IF readable THEN usdc ELSE lastUsdc
              eq == bal + (IF posRead THEN pub ELSE 0)
              low == bal > 0 /\ eq < start - MaxLoss IN
          /\ dd' = Drawdown(low)
          /\ misread' = IF eq = usdc + posv THEN 0
                        ELSE IF misread < Sustained THEN misread + 1 ELSE misread
          /\ sawLoss' = (sawLoss \/ Loss)
          /\ IF dd' >= Sustained
             THEN pc' = "stopping"
             ELSE /\ pc' = IF pc = "check" THEN "place" ELSE pc
                  /\ reason' = reason
        BY <1>6 DEF Sample
  <2> DEFINE eq == (IF readable THEN usdc ELSE lastUsdc) + (IF posRead THEN pub ELSE 0)
  <2>2. pc \in {"check", "loop"} /\ start \in Nat /\ dd < Sustained /\ reason # "drawdown"
        BY <1>6 DEF Sample, None
  <2>3. dd' = 0 \/ (dd' = dd + 1 /\ eq < start - MaxLoss)
        BY <2>1 DEF Drawdown
  <2>4. sawLoss' \/ dd' <= misread'
    <3>1. CASE sawLoss BY <2>1, <3>1
    <3>2. CASE Loss BY <2>1, <3>2
    <3>3. CASE ~sawLoss /\ ~Loss
      <4>1. dd <= misread
            BY <2>2, <3>3
      <4>2. misread' \in 0..Sustained
            BY <2>1
      <4>3. CASE dd' = 0 BY <4>2, <4>3
      <4>4. CASE dd' = dd + 1 /\ eq < start - MaxLoss
        <5>1. eq # usdc + posv
              BY <2>2, <3>3, <4>4 DEF Loss, None
        <5>2. misread' = IF misread < Sustained THEN misread + 1 ELSE misread
              BY <2>1, <5>1
        <5> QED BY <2>2, <4>1, <4>4, <5>2
      <4> QED BY <2>3, <4>3, <4>4
    <3> QED BY <3>1, <3>2, <3>3
  <2>5. CASE dd' >= Sustained
    <3>1. sawLoss' \/ misread' = Sustained
      <4>1. misread' \in 0..Sustained
            BY <2>1
      <4>2. dd' \in Nat
            BY <2>3
      <4> QED BY <2>4, <2>5, <4>1, <4>2
    <3> QED BY <2>1, <2>5, <3>1
  <2>6. CASE ~(dd' >= Sustained)
    <3>1. dd' < Sustained
          BY <2>3, <2>6
    <3>2. pc' \in {"check", "place", "loop"} /\ reason' = reason
          BY <2>1, <2>2, <2>6
    <3> QED BY <2>2, <2>4, <3>1, <3>2
  <2> QED BY <2>5, <2>6
<1>7. CASE RiskKill \/ Signal BY <1>7 DEF RiskKill, Signal, Trip
<1>8. CASE Quiet \/ BootPlace \/ Iterate \/ Stopped \/ Crash
      BY <1>8 DEF Quiet, BootPlace, Iterate, Stopped, Crash, Exit
<1> QED BY <1>1, <1>2, <1>3, <1>4, <1>5, <1>6, <1>7, <1>8 DEF Next, Process

\* What trip_kill leaves.
LEMMA TripFacts ==
    ASSUME FlagsInv, NEW why \in Reasons, NEW bad, Trip(why, bad)
    PROVE  /\ stop' \in BOOLEAN /\ latch' \in BOOLEAN /\ owed' \in BOOLEAN
           /\ reason' \in Reasons /\ faults' \in Nat
<1>1. stop' \in BOOLEAN /\ latch' \in BOOLEAN /\ owed' \in BOOLEAN BY Zenon DEF Trip
<1>2. reason' \in Reasons BY DEF Trip, FlagsInv
<1>3. \E b : Fault(b) BY DEF Trip
<1>4. faults' \in Nat BY <1>3 DEF Fault, FlagsInv
<1> QED BY <1>1, <1>2, <1>4

\* Each action keeps the flags flags, and the count of low samples below its limit.
LEMMA FlagsStep == NumbersInv /\ AlarmInv /\ FlagsInv /\ [Next]_vars => FlagsInv'
<1> SUFFICES ASSUME NumbersInv, AlarmInv, FlagsInv, [Next]_vars PROVE FlagsInv'
    OBVIOUS
<1> USE DEF world, files, proc, history
<1>0. Sustained \in Nat /\ dd \in Nat /\ Sustained # 0 BY KillAssumption DEF NumbersInv
<1>1. CASE UNCHANGED vars BY <1>1 DEF vars, FlagsInv
<1>2. CASE Buy \/ Sell \/ Devalue \/ Recover \/ Publish \/ Midnight
      BY <1>2 DEF Buy, Sell, Devalue, Recover, Publish, Midnight, FlagsInv
<1>3. CASE ClearLatch BY <1>3 DEF ClearLatch, FlagsInv
<1>4. CASE Start
  <2>1. stop' \in BOOLEAN /\ traded' \in BOOLEAN /\ sawLoss' \in BOOLEAN BY <1>4 DEF Start, FlagsInv
  <2> QED BY <1>0, <1>4, <2>1 DEF Start, FlagsInv, Places, Reasons
<1>5. CASE BootLatch
  <2>1. /\ stop' \in BOOLEAN /\ latch' \in BOOLEAN /\ owed' \in BOOLEAN
        /\ reason' \in Reasons /\ faults' \in Nat
    <3>1. CASE latch
      <4>1. Trip("kill-latch", FALSE) BY <1>5, <3>1, Zenon DEF BootLatch
      <4>2. "kill-latch" \in Reasons BY DEF Reasons
      <4> QED BY <4>1, <4>2, TripFacts
    <3>2. CASE ~latch BY <1>5, <3>2 DEF BootLatch, FlagsInv
    <3> QED BY <3>1, <3>2
  <2> QED BY <1>5, <2>1 DEF BootLatch, FlagsInv, Places
<1>6. CASE Arm
  <2>1. \E b : Fault(b) BY <1>6 DEF Arm
  <2>2. faults' \in Nat BY <2>1 DEF Fault, FlagsInv
  <2>3. UNCHANGED <<latch, stop, reason, dd, traded, owed, sawLoss>> /\ pc' = "check" BY <1>6 DEF Arm
  <2>4. unread' \in BOOLEAN
    <3>1. PICK readable \in BOOLEAN, posRead \in BOOLEAN, parsed \in BOOLEAN,
               write \in {"done", "closed", "torn"} : ArmWith(readable, posRead, parsed, write)
          BY <1>6, Zenon DEF Arm
    <3>2. unread' = TRUE \/ unread' = unread BY <3>1 DEF ArmWith
    <3> QED BY <3>2 DEF FlagsInv
  <2> QED BY <2>2, <2>3, <2>4 DEF FlagsInv, Places
<1>7. CASE Sample
  <2>1. dd < Sustained BY <1>7 DEF Sample, AlarmInv
  <2>2. dd' <= Sustained BY <1>0, <1>7, <2>1 DEF Sample, Drawdown
  <2>3. sawLoss' \in BOOLEAN BY <1>7, Zenon DEF Sample
  <2>4. \/ (\E bad : Trip("drawdown", bad)) /\ pc' = "stopping"
        \/ (\E bad : Fault(bad)) /\ (pc' = "place" \/ pc' = pc) /\ UNCHANGED <<stop, reason, latch, owed>>
        BY <1>7 DEF Sample
  <2>5. /\ stop' \in BOOLEAN /\ latch' \in BOOLEAN /\ owed' \in BOOLEAN
        /\ reason' \in Reasons /\ faults' \in Nat /\ pc' \in Places
    <3>1. CASE (\E bad : Trip("drawdown", bad)) /\ pc' = "stopping"
      <4>1. "drawdown" \in Reasons BY DEF Reasons
      <4>2. pc' \in Places BY <3>1 DEF Places
      <4> QED BY <3>1, <4>1, <4>2, TripFacts
    <3>2. CASE (\E bad : Fault(bad)) /\ (pc' = "place" \/ pc' = pc) /\ UNCHANGED <<stop, reason, latch, owed>>
          BY <3>2 DEF FlagsInv, Fault, Places
    <3> QED BY <2>4, <3>1, <3>2
  <2>6. traded' = traded /\ unread' = unread BY <1>7 DEF Sample
  <2> QED BY <2>2, <2>3, <2>5, <2>6 DEF FlagsInv
<1>8. CASE RiskKill \/ Signal
  <2>0. "risk" \in Reasons /\ "signal" \in Reasons BY DEF Reasons
  <2>1. Trip("risk", FALSE) \/ Trip("signal", FALSE) BY <1>8, Zenon DEF RiskKill, Signal
  <2>2. /\ stop' \in BOOLEAN /\ latch' \in BOOLEAN /\ owed' \in BOOLEAN
        /\ reason' \in Reasons /\ faults' \in Nat
        BY <2>0, <2>1, TripFacts
  <2>3. pc' = "stopping" /\ dd' = dd /\ traded' = traded /\ sawLoss' = sawLoss /\ unread' = unread
        BY <1>8, Zenon DEF RiskKill, Signal
  <2> QED BY <2>2, <2>3 DEF FlagsInv, Places
<1>9. CASE Quiet \/ BootPlace \/ Iterate
      BY <1>9 DEF Quiet, BootPlace, Iterate, FlagsInv, Places
<1>10. CASE Stopped \/ Crash
  <2>1. faults' \in Nat BY <1>10 DEF Stopped, Crash, Fault, FlagsInv
  <2>2. stop' \in BOOLEAN /\ sawLoss' \in BOOLEAN BY <1>10, Zenon DEF Stopped, Crash, Exit
  <2>3. UNCHANGED <<latch, traded, owed, unread>> BY <1>10, Zenon DEF Stopped, Crash
  <2>4. pc' = "down" /\ reason' = "none" /\ dd' = 0 BY <1>10 DEF Stopped, Crash, Exit
  <2> QED BY <1>0, <2>1, <2>2, <2>3, <2>4 DEF FlagsInv, Places, Reasons
<1> QED BY <1>1, <1>2, <1>3, <1>4, <1>5, <1>6, <1>7, <1>8, <1>9, <1>10 DEF Next, Process

\* The inductive invariant holds in every reachable state.
THEOREM Inductive == Spec => []IInv
<1>1. Init => IInv
  <2> SUFFICES ASSUME Init PROVE IInv
      OBVIOUS
  <2>1. NumbersInv
        BY KillAssumption DEF Init, NumbersInv, None
  <2>2. LatchInv /\ AlarmInv
        BY KillAssumption DEF Init, LatchInv, AlarmInv
  <2>3. BudgetInv
        BY KillAssumption DEF Init, BudgetInv, None
  <2>4. FlagsInv
    <3>1. /\ latch \in BOOLEAN /\ stop \in BOOLEAN /\ traded \in BOOLEAN /\ owed \in BOOLEAN
          /\ sawLoss \in BOOLEAN /\ unread \in BOOLEAN
          BY DEF Init
    <3> QED BY <3>1, KillAssumption DEF Init, FlagsInv, Places, Reasons
  <2> QED BY <2>1, <2>2, <2>3, <2>4 DEF IInv
<1>2. IInv /\ [Next]_vars => IInv'
      BY NumbersStep, LatchStep, BudgetStep, AlarmStep, FlagsStep DEF IInv
<1> QED BY <1>1, <1>2, PTL DEF Spec

\* KillSwitch is type correct; in particular equity_dd_count_ never passes the number of
\* samples that trips the switch (runner.cpp:1523-1533).
THEOREM TypeCorrect == Spec => []TypeOK
<1>1. IInv => TypeOK
      BY KillAssumption DEF IInv, NumbersInv, FlagsInv, TypeOK
<1> QED BY <1>1, Inductive, PTL

\* Restarts share the day's loss budget (runner.cpp:269-305).
THEOREM BudgetIsDaily == Spec => []DailyBudget
<1>1. IInv => DailyBudget
      BY DEF IInv, NumbersInv, BudgetInv, DailyBudget
<1> QED BY <1>1, Inductive, PTL

\* Only the operator ends a risk kill (runner.cpp:161-170,251-259).
THEOREM KillIsSticky == Spec => []KillSticks
<1>1. IInv => KillSticks
      BY DEF IInv, LatchInv, KillSticks
<1> QED BY <1>1, Inductive, PTL

\* A drawdown kill without `Sustained` misread samples in a row had a real loss
\* behind it (runner.cpp:1523-1533).
THEOREM AlarmsAreReal == Spec => []NoFalseKill
<1>1. IInv => NoFalseKill
      BY KillAssumption DEF IInv, NumbersInv, AlarmInv, NoFalseKill
<1> QED BY <1>1, Inductive, PTL
=============================================================================
