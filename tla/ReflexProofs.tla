---------------------------- MODULE ReflexProofs ----------------------------
(***************************************************************************)
(* TLAPS proofs about Reflex, for any markets, any number of workers, any   *)
(* number of pulls and of failed calls, with and without the order refresh. *)
(***************************************************************************)
EXTENDS Reflex, TLAPS

\* A worker that has a token in hand and has not set loop_wake_ yet.
Owed(p) == \E w \in Workers : wcur[w] = p /\ wpc[w] \in {"pullYes", "pullNo", "wake"}

\* What NoLostWake rests on.  From the moment poll_once empties reflex_cancelled_
\* the flag has not been reset, so a token in the set is still its worker's to
\* announce unless the flag is up; and a loop that is blocked with the flag up has
\* blocked before its worker, which then has not notified yet.
WakeInv ==
    /\ pc \in {"accrue", "wait", "blocked"} /\ ~wake => \A p \in cancelled : Owed(p)
    /\ pc = "blocked" /\ wake => \E w \in Workers : wpc[w] = "notify"

-----------------------------------------------------------------------------
\* The exchange calls of the main thread and of the workers keep `resting` and the
\* fault count well typed.
LEMMA CallType ==
    ASSUME NEW p \in Pools, NEW leg \in Legs, NEW ok \in BOOLEAN, TypeOK,
           Cancel(p, leg, ok) \/ Place(p, leg, ok)
    PROVE  resting' \in [Pools -> SUBSET Legs] /\ faults' \in Nat
BY ReflexAssumption DEF TypeOK, Cancel, Place, Fault

\* Every step keeps the types.
LEMMA TypeStep == TypeOK /\ [Next]_vars => TypeOK'
<1> SUFFICES ASSUME TypeOK, [Next]_vars PROVE TypeOK'
    OBVIOUS
<1> USE ReflexAssumption DEF quotes, shared, main, workers, Passes, Seqs, Steps
<1>1. CASE UNCHANGED vars BY <1>1 DEF vars, TypeOK
<1>2. CASE BeatEnd BY <1>2 DEF BeatEnd, TypeOK
<1>3. CASE PollEnd BY <1>3 DEF PollEnd, TypeOK
<1>4. CASE Wait BY <1>4 DEF Wait, TypeOK
<1>5. CASE Timeout BY <1>5 DEF Timeout, TypeOK
<1>6. CASE Clear BY <1>6 DEF Clear, TypeOK
<1>7. ASSUME NEW leg \in Legs, Exit(leg) PROVE TypeOK'
  <2>1. cur \in Pools BY <1>7 DEF Exit, TypeOK
  <2>2. PICK ok \in BOOLEAN : Cancel(cur, leg, ok) BY <1>7 DEF Exit
  <2>3. resting' \in [Pools -> SUBSET Legs] /\ faults' \in Nat BY <2>1, <2>2, CallType
  <2>4. active' \subseteq Pools /\ cur' \in Pools \cup {None} /\ seq' \in Seqs
        /\ (seq' = "none" <=> cur' = None)
    BY <1>7, <2>1 DEF Exit, TypeOK, Legs
  <2> QED BY <1>7, <2>3, <2>4 DEF Exit, TypeOK
<1>8. ASSUME NEW leg \in Legs, Recentre(leg) PROVE TypeOK'
  <2>1. cur \in Pools BY <1>8 DEF Recentre, TypeOK, Legs
  <2>2. PICK ok \in BOOLEAN : Cancel(cur, leg, ok) BY <1>8 DEF Recentre
  <2>3. resting' \in [Pools -> SUBSET Legs] /\ faults' \in Nat BY <2>1, <2>2, CallType
  <2> QED BY <1>8, <2>1, <2>3 DEF Recentre, TypeOK, Legs
<1>9. ASSUME NEW leg \in Legs, Send(leg) PROVE TypeOK'
  <2>1. cur \in Pools BY <1>9 DEF Send, TypeOK
  <2>2. PICK ok \in BOOLEAN : Place(cur, leg, ok) BY <1>9 DEF Send
  <2>3. resting' \in [Pools -> SUBSET Legs] /\ faults' \in Nat BY <2>1, <2>2, CallType
  <2>4. cur' \in Pools \cup {None} /\ seq' \in Seqs /\ (seq' = "none" <=> cur' = None)
    BY <1>9, <2>1 DEF Send, TypeOK, Legs
  <2> QED BY <1>9, <2>3, <2>4 DEF Send, TypeOK
<1>10. ASSUME NEW due \in SUBSET Pools, PollTake(due) PROVE TypeOK'
  BY <1>10 DEF PollTake, TypeOK
<1>11. ASSUME NEW p \in Pools, Visit(p) PROVE TypeOK'
  BY <1>11 DEF Visit, AccrueSkip, AccrueExit, AccrueRecenter, AccrueHold, Accruing, Fault, TypeOK
<1>12. ASSUME NEW p \in Pools, BeatPlace(p) \/ BeatExit(p) PROVE TypeOK'
  BY <1>12 DEF BeatPlace, BeatExit, TypeOK
<1>13. ASSUME NEW w \in Workers, PullYes(w) \/ PullNo(w) PROVE TypeOK'
  <2>1. wcur[w] \in Pools BY <1>13 DEF PullYes, PullNo, TypeOK
  <2>2. PICK leg \in Legs, ok \in BOOLEAN : Cancel(wcur[w], leg, ok)
    BY <1>13 DEF PullYes, PullNo, Legs
  <2>3. resting' \in [Pools -> SUBSET Legs] /\ faults' \in Nat BY <2>1, <2>2, CallType
  <2> QED BY <1>13, <2>1, <2>3 DEF PullYes, PullNo, TypeOK
<1>14. ASSUME NEW w \in Workers, WakeSet(w) \/ WakeNotify(w) \/ Moved(w) PROVE TypeOK'
  <2>1. CASE WakeSet(w) BY <2>1 DEF WakeSet, TypeOK
  <2>2. CASE WakeNotify(w)
    <3>1. pc' \in Passes BY <2>2 DEF WakeNotify, TypeOK
    <3>2. wpc' \in [Workers -> Steps] /\ wcur' \in [Workers -> Pools \cup {None}]
          /\ \A v \in Workers : wpc'[v] \in {"pullYes", "pullNo"} => wcur'[v] \in Pools
      BY <2>2 DEF WakeNotify, TypeOK
    <3> QED BY <2>2, <3>1, <3>2 DEF WakeNotify, TypeOK
  <2>3. CASE Moved(w) BY <2>3 DEF Moved, TypeOK
  <2> QED BY <1>14, <2>1, <2>2, <2>3
<1>15. ASSUME NEW w \in Workers, NEW p \in Pools, PullBegin(w, p) PROVE TypeOK'
  BY <1>15 DEF PullBegin, TypeOK
<1> QED
  BY <1>1, <1>2, <1>3, <1>4, <1>5, <1>6, <1>7, <1>8, <1>9, <1>10, <1>11, <1>12, <1>13, <1>14,
     <1>15 DEF Next, MainStep, WorkerStep

\* Every state is well typed; in particular the main thread has a pool in hand
\* exactly while it has exchange calls to send for it (runner.cpp:755-774,1386-1412).
THEOREM TypeCorrect == Spec => []TypeOK
<1>1. Init => TypeOK
  <2> SUFFICES ASSUME Init PROVE TypeOK OBVIOUS
  <2>1. resting \in [Pools -> SUBSET Legs] /\ wpc \in [Workers -> Steps]
        /\ wcur \in [Workers -> Pools \cup {None}]
    BY DEF Init, Steps
  <2>2. \A w \in Workers : wpc[w] \in {"pullYes", "pullNo"} => wcur[w] \in Pools
    BY DEF Init
  <2> QED BY <2>1, <2>2 DEF Init, TypeOK, Passes, Seqs
<1> QED BY <1>1, TypeStep, PTL DEF Spec

-----------------------------------------------------------------------------
\* Every step keeps the bookkeeping of the wake-ups.
LEMMA WakeStep == TypeOK /\ WakeInv /\ [Next]_vars => WakeInv'
<1> SUFFICES ASSUME TypeOK, WakeInv, [Next]_vars PROVE WakeInv'
    OBVIOUS
<1> USE DEF quotes, shared, main, workers
<1>1. CASE UNCHANGED vars BY <1>1 DEF vars, WakeInv, Owed
<1>2. CASE BeatEnd BY <1>2 DEF BeatEnd, WakeInv
<1>3. CASE PollEnd BY <1>3 DEF PollEnd, WakeInv, Owed
<1>4. CASE Wait BY <1>4 DEF Wait, WakeInv, Owed
<1>5. CASE Timeout BY <1>5 DEF Timeout, WakeInv
<1>6. CASE Clear BY <1>6 DEF Clear, WakeInv
<1>7. CASE \E leg \in Legs : Exit(leg) \/ Recentre(leg) \/ Send(leg)
  <2>1. UNCHANGED <<shared, pc, workers>> BY <1>7 DEF Exit, Recentre, Send
  <2> QED BY <2>1 DEF WakeInv, Owed
<1>8. CASE \E due \in SUBSET Pools : PollTake(due)
  BY <1>8 DEF PollTake, WakeInv
<1>9. CASE \E p \in Pools : Visit(p) \/ BeatPlace(p) \/ BeatExit(p)
  <2>1. UNCHANGED <<shared, pc, workers>>
    BY <1>9 DEF Visit, AccrueSkip, AccrueExit, AccrueRecenter, AccrueHold, BeatPlace, BeatExit
  <2> QED BY <2>1 DEF WakeInv, Owed
\* A worker on its way from the pull to the flag stays the owner of its token.
<1>10. ASSUME NEW w \in Workers, PullYes(w) \/ PullNo(w) PROVE WakeInv'
  <2>1. UNCHANGED <<shared, pc, wcur>> BY <1>10 DEF PullYes, PullNo
  <2>2. \A v \in Workers : wpc[v] \in {"pullYes", "pullNo", "wake"}
                              => wpc'[v] \in {"pullYes", "pullNo", "wake"}
    BY <1>10 DEF PullYes, PullNo, TypeOK
  <2>3. \A v \in Workers : wpc[v] = "notify" => wpc'[v] = "notify"
    BY <1>10 DEF PullYes, PullNo, TypeOK
  <2> QED BY <2>1, <2>2, <2>3 DEF WakeInv, Owed
<1>11. ASSUME NEW w \in Workers, Moved(w) PROVE WakeInv'
  <2>1. UNCHANGED <<shared, pc, wcur>> BY <1>11 DEF Moved
  <2>2. \A v \in Workers : wpc[v] \in {"pullYes", "pullNo", "wake", "notify"} => wpc'[v] = wpc[v]
    BY <1>11 DEF Moved, TypeOK
  <2> QED BY <2>1, <2>2 DEF WakeInv, Owed
\* The flag goes up in the same step as its worker becomes a notifier.
<1>12. ASSUME NEW w \in Workers, WakeSet(w) PROVE WakeInv'
  BY <1>12 DEF WakeSet, WakeInv, TypeOK
\* A notification finds the loop blocked and makes it look again.
<1>13. ASSUME NEW w \in Workers, WakeNotify(w) PROVE WakeInv'
  <2>1. \A v \in Workers : wpc[v] \in {"pullYes", "pullNo", "wake"}
                              => wpc'[v] = wpc[v] /\ wcur'[v] = wcur[v]
    BY <1>13 DEF WakeNotify, TypeOK
  <2>2. pc' # "blocked" /\ (pc' \in {"accrue", "wait", "blocked"} => pc \in {"accrue", "wait", "blocked"})
    BY <1>13 DEF WakeNotify
  <2>3. UNCHANGED shared BY <1>13 DEF WakeNotify
  <2> QED BY <2>1, <2>2, <2>3 DEF WakeInv, Owed
<1>14. ASSUME NEW w \in Workers, NEW p \in Pools, PullBegin(w, p) PROVE WakeInv'
  <2>1. wpc'[w] = "pullYes" /\ wcur'[w] = p BY <1>14 DEF PullBegin, TypeOK
  <2>2. \A v \in Workers : wpc[v] \in {"pullYes", "pullNo", "wake", "notify"}
                              => wpc'[v] = wpc[v] /\ wcur'[v] = wcur[v]
    BY <1>14 DEF PullBegin, TypeOK
  <2>3. UNCHANGED <<wake, pc>> /\ cancelled' = cancelled \cup {p} BY <1>14 DEF PullBegin
  <2> QED BY <2>1, <2>2, <2>3 DEF WakeInv, Owed
<1> QED
  BY <1>1, <1>2, <1>3, <1>4, <1>5, <1>6, <1>7, <1>8, <1>9, <1>10, <1>11, <1>12, <1>13, <1>14
     DEF Next, MainStep, WorkerStep

\* A pulled token is never slept on: the flag is stored outside loop_mu_ and still
\* no wake-up is lost, with any number of workers pulling at once
\* (runner.hpp:164-168, runner.cpp:472-477).
THEOREM WakeNeverLost == Spec => []NoLostWake
<1>1. Init => WakeInv BY DEF Init, WakeInv
<1>2. WakeInv => NoLostWake BY DEF WakeInv, NoLostWake, Owed
<1> QED BY <1>1, <1>2, WakeStep, TypeCorrect, PTL DEF Spec
=============================================================================
