-------------------------- MODULE LiveMakerProofs --------------------------
(***************************************************************************)
(* TLAPS proofs about LiveMaker, for any set of pools, any capital and any  *)
(* number of fills, failed calls and crashes.                               *)
(***************************************************************************)
EXTENDS LiveMaker, FiniteSetTheorems, TLAPS

PlaceOps == {"debited", "legYes", "legNo", "legNoBad", "rollback"}
CloseOps == {"credit", "credited"}
LoopPasses == {"kill", "beat", "reeval", "drop", "add", "poll"}

\* Which statement sequences each pass may be in the middle of, and which pools
\* its worklist may name.
PassInv ==
    /\ op \in PlaceOps => pc = "add"
    /\ op \in CloseOps => pc \in {"reeval", "drop", "add", "poll", "stopping"}
    /\ op = "debited" => cur \in Pools \ active
    /\ op \in (PlaceOps \ {"debited"}) \cup CloseOps => cur \in active
    /\ pc \in {"reeval", "drop", "poll", "stopping"} => todo \subseteq active
    /\ pc = "add" => todo \cap active = {}
    /\ op # "none" => cur \notin todo

\* placed_ follows the ledger; in the middle of a placement it lags by one pool.
PlacedInv ==
    pc \in LoopPasses =>
        placed = IF pc = "add" /\ op \notin {"none", "debited"} THEN active \ {cur} ELSE active

\* The cash owed to or by the statement sequence under way.
Owed == IF op = "debited" THEN 0 - Cap ELSE IF op = "credited" THEN Cap ELSE 0

MoneyInv ==
    /\ Cap * Cardinality(active) <= Capital
    /\ Up => cash - (Capital - Cap * Cardinality(active) + Owed) \in Surplus

\* A token has no order, or at most one, unless its last cancel is in doubt.
Free(t) == orders[t] = 0 \/ t \in unconfirmed
Single(t) == orders[t] <= 1 \/ t \in unconfirmed

\* A pool about to be closed has no orders, a leg about to be placed has none.
OrderInv ==
    /\ OrdersOwned
    /\ OneOrderPerLeg
    /\ op \in CloseOps => \A t \in Legs(cur) : Free(t)
    /\ op = "legYes" => \A t \in Legs(cur) : Free(t)
    /\ op \in {"legNo", "legNoBad"} => Free(No(cur))

\* A doubtful cancel has cost a fault; shutdown still has every active quote before it;
\* after its sweep, only a second fault can have left an order on an account of its own.
StopInv ==
    /\ unconfirmed # {} => faults >= 1
    /\ pc = "stopping" => active \subseteq todo \cup (IF op = "none" THEN {} ELSE {cur})
    /\ pc \in {"residual", "stopped"} /\ OrphanSweep =>
          faults >= 2 \/ \A t \in Tokens : orders[t] = 0

IInv == TypeOK /\ PassInv /\ PlacedInv /\ MoneyInv /\ OrderInv /\ StopInv

-----------------------------------------------------------------------------
\* The tokens of a pool, and a pool of every token.
LEMMA LegFacts ==
    /\ \A p \in Pools : Yes(p) \in Tokens /\ No(p) \in Tokens /\ Legs(p) \subseteq Tokens
    /\ \A p \in Pools : Yes(p) # No(p) /\ Yes(p)[1] = p /\ No(p)[1] = p
    /\ \A p \in Pools : \A t \in Legs(p) : t[1] = p
    /\ \A t \in Tokens : t[1] \in Pools /\ t \in Legs(t[1])
BY DEF Tokens, Yes, No, Legs

\* A flatten sells no more than is held.
LEMMA FlattenType ==
    ASSUME TypeOK, NEW ts, NEW size, NEW failed, Flatten(ts, size, failed)
    PROVE  pos' \in [Tokens -> Nat]
<1>1. PICK sold \in Solds :
          /\ \A t \in Tokens : sold[t] <= pos[t]
          /\ pos' = [t \in Tokens |-> pos[t] - sold[t]]
      BY DEF Flatten
<1>2. SUFFICES ASSUME NEW t \in Tokens PROVE pos[t] - sold[t] \in Nat
      BY <1>1
<1>3. sold[t] \in Nat /\ pos[t] \in Nat /\ sold[t] <= pos[t]
      BY <1>1, BoundsAssumption DEF Solds, TypeOK
<1> QED BY <1>3

\* After a cancel, a token it was sent for has no order or is in doubt, and
\* nothing changed on the others.
LEMMA CancelFacts ==
    ASSUME TypeOK, NEW ts \in SUBSET Tokens, NEW lost \in SUBSET ts, Cancel(ts, lost)
    PROVE  /\ orders' \in [Tokens -> Nat]
           /\ unconfirmed' \in SUBSET Tokens
           /\ \A t \in ts : orders'[t] = 0 \/ t \in unconfirmed'
           /\ \A t \in Tokens \ ts : orders'[t] = orders[t]
           /\ \A t \in Tokens \ ts : t \in unconfirmed' <=> t \in unconfirmed
           /\ \A t \in Tokens : orders'[t] <= orders[t]
<1>1. PICK kept \in SUBSET lost :
          orders' = [t \in Tokens |-> IF t \in ts \ kept THEN 0 ELSE orders[t]]
      BY DEF Cancel, Cancelled
<1>2. unconfirmed' = (unconfirmed \ ts) \cup lost
      BY DEF Cancel
<1> QED BY <1>1, <1>2 DEF TypeOK

\* One PLACE adds at most one order.
LEMMA PlaceFacts ==
    ASSUME TypeOK, NEW t \in Tokens, NEW acked \in BOOLEAN, Place(t, acked)
    PROVE  /\ orders' \in [Tokens -> Nat] /\ faults' \in Nat
           /\ orders'[t] <= orders[t] + 1
           /\ \A u \in Tokens \ {t} : orders'[u] = orders[u]
<1>1. PICK rests \in BOOLEAN :
          orders' = [orders EXCEPT ![t] = @ + (IF rests THEN 1 ELSE 0)]
      BY DEF Place
<1>2. faults' \in Nat
      BY DEF Place, Fault, TypeOK
<1> QED BY <1>1, <1>2 DEF TypeOK

\* Type correctness of the start state.
LEMMA InitType == Init => TypeOK
<1> SUFFICES ASSUME Init PROVE TypeOK
    OBVIOUS
<1>1. Zero \in [Tokens -> Nat] /\ [p \in Pools |-> 0] \in [Pools -> Nat]
      BY DEF Zero
<1>2. armed \in BOOLEAN /\ booting \in BOOLEAN /\ fresh \in BOOLEAN
      BY Zenon DEF Init
<1> QED BY <1>1, <1>2, MoneyAssumption DEF Init, TypeOK, Passes, Ops

\* Each action preserves the type invariant.
LEMMA TypeStep == TypeOK /\ PassInv /\ [Next]_vars => TypeOK'
<1> SUFFICES ASSUME TypeOK, PassInv, [Next]_vars PROVE TypeOK'
    OBVIOUS
<1> USE DEF exchange, ledger, memory, Passes, Ops, EndOp
<1>1. CASE UNCHANGED vars
      BY <1>1 DEF vars, TypeOK
<1>2. CASE Beat
  <2>1. CASE BeatSkip BY <2>1 DEF BeatSkip, TypeOK, Zero
  <2>2. CASE BeatStart BY <2>2 DEF BeatStart, TypeOK
  <2>3. CASE Reselect BY <2>3 DEF Reselect, TypeOK
  <2>4. CASE ReselectStale BY <2>4 DEF ReselectStale, TypeOK
  <2>5. CASE AddStart BY <2>5 DEF AddStart, TypeOK
  <2>6. CASE BeatEnd
    <3>1. booting' \in BOOLEAN /\ armed' \in BOOLEAN /\ fresh' \in BOOLEAN
          BY <2>6, Zenon DEF BeatEnd, TypeOK
    <3> QED BY <2>6, <3>1 DEF BeatEnd, TypeOK, Zero
  <2> QED BY <1>2, <2>1, <2>2, <2>3, <2>4, <2>5, <2>6 DEF Beat
<1>3. CASE PlaceStep
  <2>1. CASE PlaceCreate BY <2>1 DEF PlaceCreate, PassInv, TypeOK
  <2>2. CASE PlaceYes
    <3>1. cur \in Pools
          BY <2>2 DEF PlaceYes, PassInv, PlaceOps, TypeOK
    <3>2. orders' \in [Tokens -> Nat] /\ faults' \in Nat
          BY <2>2, <3>1, PlaceFacts, LegFacts DEF PlaceYes
    <3> QED BY <2>2, <3>2 DEF PlaceYes, TypeOK
  <2>3. CASE PlaceNo
    <3>1. cur \in Pools
          BY <2>3 DEF PlaceNo, PassInv, PlaceOps, TypeOK
    <3>2. orders' \in [Tokens -> Nat] /\ faults' \in Nat
          BY <2>3, <3>1, PlaceFacts, LegFacts DEF PlaceNo
    <3> QED BY <2>3, <3>1, <3>2 DEF PlaceNo, TypeOK
  <2>4. CASE PlaceRollback
    <3>1. cur \in Pools
          BY <2>4 DEF PlaceRollback, PassInv, PlaceOps, TypeOK
    <3>2. orders' \in [Tokens -> Nat] /\ unconfirmed' \in SUBSET Tokens
          BY <2>4, <3>1, CancelFacts, LegFacts DEF PlaceRollback
    <3>3. faults' \in Nat
          BY <2>4 DEF PlaceRollback, Fault, TypeOK
    <3> QED BY <2>4, <3>2, <3>3 DEF PlaceRollback, TypeOK
  <2> QED BY <1>3, <2>1, <2>2, <2>3, <2>4 DEF PlaceStep
<1>4. CASE Statement
  <2>1. CASE CreditCash BY <2>1, MoneyAssumption DEF CreditCash, TypeOK
  <2>2. CASE CloseQuote BY <2>2 DEF CloseQuote, TypeOK
  <2> QED BY <1>4, <2>1, <2>2 DEF Statement
<1>5. ASSUME NEW p \in Pools, Visit(p) PROVE TypeOK'
  <2>1. CASE Keep(p) BY <2>1 DEF Keep, TypeOK
  <2>2. CASE ExitHeld(p)
    <3>1. orders' \in [Tokens -> Nat] /\ unconfirmed' \in SUBSET Tokens
          BY <2>2, LegFacts, CancelFacts DEF ExitHeld
    <3>2. pos' \in [Tokens -> Nat]
          BY <2>2, FlattenType DEF ExitHeld
    <3>3. faults' \in Nat
          BY <2>2 DEF ExitHeld, Fault, TypeOK
    <3> QED BY <2>2, <3>1, <3>2, <3>3, BoundsAssumption DEF ExitHeld, TypeOK
  <2>3. CASE PlaceDebit(p) BY <2>3, MoneyAssumption DEF PlaceDebit, TypeOK
  <2>4. CASE PlaceSkip(p) BY <2>4 DEF PlaceSkip, TypeOK
  <2>5. CASE AccrueSkip(p) BY <2>5 DEF AccrueSkip, Fault, TypeOK
  <2>6. ASSUME NEW ended \in BOOLEAN, AccrueExit(p, ended) PROVE TypeOK'
    <3>1. orders' \in [Tokens -> Nat] /\ unconfirmed' \in SUBSET Tokens
          BY <2>6, LegFacts, CancelFacts DEF AccrueExit
    <3>2. pos' \in [Tokens -> Nat]
          BY <2>6, FlattenType DEF AccrueExit
    <3>3. faults' \in Nat
          BY <2>6 DEF AccrueExit, Fault, TypeOK
    <3>4. inv' \in [Tokens -> Nat]
          BY <2>6 DEF AccrueExit, TypeOK
    <3>5. op' \in Ops /\ cur' \in Pools \cup {NoPool} /\ cooldown' \in [Pools -> Nat]
          BY <2>6, BoundsAssumption DEF AccrueExit, TypeOK
    <3> QED BY <2>6, <3>1, <3>2, <3>3, <3>4, <3>5 DEF AccrueExit, TypeOK
  <2>7. CASE AccrueDrift(p)
    <3>1. orders' \in [Tokens -> Nat] /\ unconfirmed' \in SUBSET Tokens
          BY <2>7, LegFacts, CancelFacts DEF AccrueDrift
    <3>2. faults' \in Nat
          BY <2>7 DEF AccrueDrift, Fault, TypeOK
    <3>3. op' \in Ops /\ cur' \in Pools \cup {NoPool} /\ cooldown' \in [Pools -> Nat]
          BY <2>7, BoundsAssumption DEF AccrueDrift, TypeOK
    <3> QED BY <2>7, <3>1, <3>2, <3>3 DEF AccrueDrift, TypeOK
  <2>8. CASE AccrueRecenter(p)
    <3>1. orders' \in [Tokens -> Nat]
          BY <2>8 DEF AccrueRecenter, Cancelled, TypeOK
    <3>2. unconfirmed' \in SUBSET Tokens /\ faults' \in Nat
          BY <2>8, LegFacts DEF AccrueRecenter, Fault, TypeOK
    <3> QED BY <2>8, <3>1, <3>2 DEF AccrueRecenter, TypeOK
  <2>9. CASE AccrueHold(p) BY <2>9 DEF AccrueHold, TypeOK
  <2>10. CASE StopQuote(p)
    <3>1. orders' \in [Tokens -> Nat] /\ unconfirmed' \in SUBSET Tokens
          BY <2>10, LegFacts, CancelFacts DEF StopQuote
    <3>2. pos' \in [Tokens -> Nat]
          BY <2>10, FlattenType DEF StopQuote
    <3>3. faults' \in Nat
          BY <2>10 DEF StopQuote, Fault, TypeOK
    <3> QED BY <2>10, <3>1, <3>2, <3>3 DEF StopQuote, TypeOK
  <2> QED BY <1>5, <2>1, <2>2, <2>3, <2>4, <2>5, <2>6, <2>7, <2>8, <2>9, <2>10 DEF Visit
<1>6. CASE PollEnd BY <1>6 DEF PollEnd, TypeOK, Zero
<1>7. CASE KillCheckQuiet BY <1>7 DEF KillCheckQuiet, TypeOK
<1>8. CASE KillCheckRefresh
  <2>1. \A reading \in ChainReads : reading \in [Tokens -> Nat]
        BY DEF ChainReads, TypeOK, Zero
  <2>2. pos' \in [Tokens -> Nat]
        BY <1>8, FlattenType DEF KillCheckRefresh
  <2>3. inv' \in [Tokens -> Nat] /\ held' \in [Tokens -> Nat]
        BY <1>8, <2>1 DEF KillCheckRefresh, Reconciled, TypeOK
  <2>4. faults' \in Nat
        BY <1>8 DEF KillCheckRefresh, Fault, TypeOK
  <2>5. booting' \in BOOLEAN /\ armed' \in BOOLEAN /\ fresh' \in BOOLEAN
        BY <1>8, Zenon DEF KillCheckRefresh, TypeOK
  <2> QED BY <1>8, <2>2, <2>3, <2>4, <2>5 DEF KillCheckRefresh, TypeOK
<1>9. CASE StopSweep
  <2>1. Sweepable({Yes(p) : p \in placed}) \in SUBSET Tokens
        BY DEF Sweepable
  <2>2. orders' \in [Tokens -> Nat] /\ unconfirmed' \in SUBSET Tokens
        BY <1>9, <2>1, CancelFacts DEF StopSweep
  <2>3. faults' \in Nat
        BY <1>9 DEF StopSweep, Fault, TypeOK
  <2> QED BY <1>9, <2>2, <2>3 DEF StopSweep, TypeOK
<1>10. CASE StopResidual
  <2>1. pos' \in [Tokens -> Nat]
        BY <1>10, FlattenType DEF StopResidual
  <2>2. unseen' \in [Tokens -> Nat] /\ warned' \in SUBSET Tokens
        BY <1>10 DEF StopResidual, TypeOK, Zero
  <2>3. faults' \in Nat
        BY <1>10 DEF StopResidual, Fault, TypeOK
  <2> QED BY <1>10, <2>1, <2>2, <2>3 DEF StopResidual, TypeOK
<1>11. CASE TripKill \/ Raise BY <1>11 DEF TripKill, Raise, Fault, TypeOK, Zero
<1>12. CASE Crash
  <2>1. booting' \in BOOLEAN /\ armed' \in BOOLEAN /\ fresh' \in BOOLEAN
        BY <1>12, Zenon DEF Crash
  <2> QED BY <1>12, <2>1 DEF Crash, Fault, TypeOK, Zero
<1>13. CASE Start
  <2> DEFINE foreign == {t \in Tokens : OrphanSweep /\ orders[t] > 0
                                         /\ t \notin {Yes(p) : p \in active}}
  <2>1. PICK reading \in ChainReads, readable \in BOOLEAN, lost \in SUBSET foreign :
            /\ inv' = Reconciled(reading)
            /\ armed' = readable
            /\ Fault(reading # chain \/ ~readable \/ lost # {})
            /\ Cancel(foreign, lost)
        BY <1>13, Zenon DEF Start
  <2>2. orders' \in [Tokens -> Nat] /\ unconfirmed' \in SUBSET Tokens
        BY <2>1, CancelFacts
  <2>3. faults' \in Nat
        BY <2>1 DEF Fault, TypeOK
  <2>4. inv' \in [Tokens -> Nat]
        BY <2>1 DEF ChainReads, Reconciled, TypeOK, Zero
  <2>5. booting' \in BOOLEAN /\ armed' \in BOOLEAN /\ fresh' \in BOOLEAN
        BY <1>13, <2>1, Zenon DEF Start
  <2>6. Cardinality(active) \in Nat
        BY PoolsAssumption, FS_Subset, FS_CardinalityType DEF TypeOK
  <2>7. cash' \in Nat
        BY <1>13, <2>6, MoneyAssumption DEF Start
  <2> QED BY <1>13, <2>2, <2>3, <2>4, <2>5, <2>7 DEF Start, TypeOK, Zero
<1>14. CASE Settle BY <1>14 DEF Settle, TypeOK
<1>15. ASSUME NEW t \in Tokens, Fill(t) PROVE TypeOK'
       BY <1>15 DEF Fill, TypeOK
<1>16. ASSUME NEW t \in Tokens, ReflexCancel(t) PROVE TypeOK'
  <2>1. orders' \in [Tokens -> Nat] /\ unconfirmed' \in SUBSET Tokens
        BY <1>16, CancelFacts DEF ReflexCancel
  <2>2. faults' \in Nat
        BY <1>16 DEF ReflexCancel, Fault, TypeOK
  <2> QED BY <1>16, <2>1, <2>2 DEF ReflexCancel, TypeOK
<1> QED BY <1>1, <1>2, <1>3, <1>4, <1>5, <1>6, <1>7, <1>8, <1>9, <1>10, <1>11, <1>12, <1>13,
           <1>14, <1>15, <1>16 DEF Next, MainThread, KillCheck, Stop

\* Each action preserves which sequence runs in which pass and on which pools.
LEMMA PassStep == TypeOK /\ PassInv /\ PlacedInv /\ [Next]_vars => PassInv'
<1> SUFFICES ASSUME TypeOK, PassInv, PlacedInv, [Next]_vars PROVE PassInv'
    OBVIOUS
<1> USE DEF exchange, ledger, memory, EndOp, PassInv, PlaceOps, CloseOps
<1>0. active \subseteq Pools /\ todo \subseteq Pools /\ placed \subseteq Pools /\ op \in Ops
      BY DEF TypeOK
<1>1. CASE UNCHANGED vars
      BY <1>1 DEF vars
<1>2. CASE Beat
      BY <1>2, <1>0 DEF Beat, BeatSkip, BeatStart, Reselect, ReselectStale, AddStart, BeatEnd,
                        PlacedInv, LoopPasses, Ops
<1>3. CASE PlaceStep
  <2>1. CASE PlaceCreate BY <2>1, <1>0 DEF PlaceCreate
  <2>2. CASE PlaceYes BY <2>2, <1>0 DEF PlaceYes
  <2>3. CASE PlaceNo BY <2>3, <1>0 DEF PlaceNo
  <2>4. CASE PlaceRollback BY <2>4, <1>0 DEF PlaceRollback
  <2> QED BY <1>3, <2>1, <2>2, <2>3, <2>4 DEF PlaceStep
<1>4. CASE Statement
      BY <1>4, <1>0 DEF Statement, CreditCash, CloseQuote
<1>5. ASSUME NEW p \in Pools, Visit(p) PROVE PassInv'
  <2>1. CASE Keep(p) BY <2>1, <1>0 DEF Keep
  <2>2. CASE ExitHeld(p) BY <2>2, <1>0 DEF ExitHeld
  <2>3. CASE PlaceDebit(p) BY <2>3, <1>0 DEF PlaceDebit
  <2>4. CASE PlaceSkip(p) BY <2>4, <1>0 DEF PlaceSkip
  <2>5. CASE AccrueSkip(p) BY <2>5, <1>0 DEF AccrueSkip
  <2>6. ASSUME NEW ended \in BOOLEAN, AccrueExit(p, ended) PROVE PassInv'
    <3>1. \/ op' = "credit" /\ cur' = p
          \/ op' = op /\ cur' = cur
          BY <2>6 DEF AccrueExit
    <3> QED BY <2>6, <3>1, <1>0 DEF AccrueExit
  <2>7. CASE AccrueDrift(p)
    <3>1. \/ op' = "credit" /\ cur' = p
          \/ op' = op /\ cur' = cur
          BY <2>7 DEF AccrueDrift
    <3> QED BY <2>7, <3>1, <1>0 DEF AccrueDrift
  <2>8. CASE AccrueRecenter(p) BY <2>8, <1>0 DEF AccrueRecenter
  <2>9. CASE AccrueHold(p) BY <2>9, <1>0 DEF AccrueHold
  <2>10. CASE StopQuote(p) BY <2>10, <1>0 DEF StopQuote
  <2> QED BY <1>5, <2>1, <2>2, <2>3, <2>4, <2>5, <2>6, <2>7, <2>8, <2>9, <2>10 DEF Visit
<1>6. CASE PollEnd BY <1>6, <1>0 DEF PollEnd
<1>7. CASE KillCheck BY <1>7, <1>0 DEF KillCheck, KillCheckQuiet, KillCheckRefresh
<1>8. CASE Stop BY <1>8, <1>0 DEF Stop, StopSweep, StopResidual
<1>9. CASE TripKill \/ Raise BY <1>9, <1>0 DEF TripKill, Raise, Ops
<1>10. CASE Crash BY <1>10, <1>0 DEF Crash
<1>11. CASE Start BY <1>11, <1>0 DEF Start, Up
<1>12. CASE Settle BY <1>12, <1>0 DEF Settle
<1>13. ASSUME NEW t \in Tokens, Fill(t) \/ ReflexCancel(t) PROVE PassInv'
       BY <1>13, <1>0 DEF Fill, ReflexCancel
<1> QED BY <1>1, <1>2, <1>3, <1>4, <1>5, <1>6, <1>7, <1>8, <1>9, <1>10, <1>11, <1>12, <1>13
        DEF Next, MainThread

\* Each action keeps placed_ and the ledger together.
LEMMA PlacedStep == TypeOK /\ PassInv /\ PlacedInv /\ [Next]_vars => PlacedInv'
<1> SUFFICES ASSUME TypeOK, PassInv, PlacedInv, [Next]_vars PROVE PlacedInv'
    OBVIOUS
<1> USE DEF exchange, ledger, memory, EndOp, PlacedInv, LoopPasses
<1>0. PassInv /\ op \in Ops
      BY DEF TypeOK
<1>1. CASE UNCHANGED vars
      BY <1>1 DEF vars
<1>2. CASE Beat
      BY <1>2, <1>0 DEF Beat, BeatSkip, BeatStart, Reselect, ReselectStale, AddStart, BeatEnd,
                        PassInv, PlaceOps, CloseOps, Ops
<1>3. CASE PlaceStep
  <2> USE <1>0 DEF PassInv, PlaceOps, CloseOps
  <2>1. CASE PlaceCreate BY <2>1 DEF PlaceCreate
  <2>2. CASE PlaceYes BY <2>2 DEF PlaceYes
  <2>3. CASE PlaceNo BY <2>3 DEF PlaceNo
  <2>4. CASE PlaceRollback BY <2>4 DEF PlaceRollback
  <2> QED BY <1>3, <2>1, <2>2, <2>3, <2>4 DEF PlaceStep
<1>4. CASE Statement
      BY <1>4, <1>0 DEF Statement, CreditCash, CloseQuote, PassInv, PlaceOps, CloseOps
<1>5. ASSUME NEW p \in Pools, Visit(p) PROVE PlacedInv'
  <2>1. active' = active /\ placed' = placed /\ pc' = pc
        BY <1>5 DEF Visit, Keep, ExitHeld, PlaceDebit, PlaceSkip, AccrueSkip, AccrueExit,
                    AccrueDrift, AccrueRecenter, AccrueHold, StopQuote
  <2>2. pc = "add" => op = "none" /\ op' \in {"none", "debited"}
        BY <1>5 DEF Visit, Keep, ExitHeld, PlaceDebit, PlaceSkip, AccrueSkip, AccrueExit,
                    AccrueDrift, AccrueRecenter, AccrueHold, StopQuote
  <2> QED BY <2>1, <2>2
<1>6. CASE PollEnd BY <1>6 DEF PollEnd
<1>7. CASE KillCheck BY <1>7 DEF KillCheck, KillCheckQuiet, KillCheckRefresh
<1>8. CASE Stop BY <1>8 DEF Stop, StopSweep, StopResidual
<1>9. CASE TripKill \/ Raise BY <1>9 DEF TripKill, Raise
<1>10. CASE Crash BY <1>10 DEF Crash
<1>11. CASE Start BY <1>11 DEF Start
<1>12. CASE Settle BY <1>12 DEF Settle
<1>13. ASSUME NEW t \in Tokens, Fill(t) \/ ReflexCancel(t) PROVE PlacedInv'
       BY <1>13 DEF Fill, ReflexCancel
<1> QED BY <1>1, <1>2, <1>3, <1>4, <1>5, <1>6, <1>7, <1>8, <1>9, <1>10, <1>11, <1>12, <1>13
        DEF Next, MainThread

\* The capital of one more quote, and of one less.
LEMMA CommitFacts ==
    ASSUME TypeOK
    PROVE  /\ Cardinality(active) \in Nat
           /\ Cap * Cardinality(active) \in Nat
           /\ \A p \in Pools \ active :
                 Cap * Cardinality(active \cup {p}) = Cap * Cardinality(active) + Cap
           /\ \A p \in active :
                 Cap * Cardinality(active \ {p}) = Cap * Cardinality(active) - Cap
<1>1. IsFiniteSet(active) /\ Cardinality(active) \in Nat
      BY PoolsAssumption, FS_Subset, FS_CardinalityType DEF TypeOK
<1>2. \A n \in Int : Cap * n \in Int /\ Cap * (n + 1) = Cap * n + Cap /\ Cap * (n - 1) = Cap * n - Cap
      BY MoneyAssumption
<1>3. \A n \in Nat : Cap * n \in Nat
      BY MoneyAssumption
<1>4. \A p \in Pools \ active : Cardinality(active \cup {p}) = Cardinality(active) + 1
      BY <1>1, FS_AddElement
<1>5. \A p \in active : Cardinality(active \ {p}) = Cardinality(active) - 1
      BY <1>1, FS_RemoveElement
<1> QED BY <1>1, <1>2, <1>3, <1>4, <1>5

\* Each action keeps the books balanced.
LEMMA MoneyStep == TypeOK /\ PassInv /\ MoneyInv /\ [Next]_vars => MoneyInv'
<1> SUFFICES ASSUME TypeOK, PassInv, MoneyInv, [Next]_vars PROVE MoneyInv'
    OBVIOUS
<1> USE DEF exchange, ledger, memory, EndOp
<1> DEFINE Com == Cap * Cardinality(active)
           Still == /\ active' = active /\ cash' = cash /\ (Up' => Up /\ Surplus \subseteq Surplus')
                    /\ op \notin {"debited", "credited"} /\ op' \notin {"debited", "credited"}
<1>0. Com \in Nat /\ cash \in Nat /\ Capital \in Nat /\ Cap \in Nat
      BY CommitFacts, MoneyAssumption DEF TypeOK
<1>s. Still => MoneyInv'
      BY DEF MoneyInv, Owed
<1>r. pc \in LoopPasses => Surplus = {0}
      BY DEF Surplus, LoopPasses
<1>1. CASE UNCHANGED vars
      BY <1>1 DEF vars, MoneyInv, Owed, Surplus, Up
<1>2. CASE Beat
  <2>1. Still
        BY <1>2 DEF Beat, BeatSkip, BeatStart, Reselect, ReselectStale, AddStart, BeatEnd, Up,
                    Surplus, PassInv, PlaceOps, CloseOps
  <2> QED BY <2>1, <1>s
<1>3. CASE PlaceCreate
  <2>1. Up /\ cur \in Pools \ active /\ op = "debited" /\ Surplus = {0} /\ Surplus' = {0}
        BY <1>3 DEF PlaceCreate, PassInv, PlaceOps, Up, Surplus
  <2>2. active' = active \cup {cur} /\ cash' = cash /\ op' \in {"none", "legYes"}
        BY <1>3 DEF PlaceCreate
  <2>3. Cap * Cardinality(active') = Com + Cap
        BY <2>1, <2>2, CommitFacts
  <2>4. cash = Capital - Com - Cap
        BY <2>1, <1>0 DEF MoneyInv, Owed
  <2> QED BY <2>1, <2>2, <2>3, <2>4, <1>0 DEF MoneyInv, Owed
<1>4. CASE PlaceYes \/ PlaceNo \/ PlaceRollback
  <2>1. Still
        BY <1>4 DEF PlaceYes, PlaceNo, PlaceRollback, Up, Surplus
  <2> QED BY <2>1, <1>s
<1>5. CASE CreditCash
  <2>1. Up /\ op = "credit" /\ op' = "credited" /\ active' = active /\ cash' = cash + Cap
        BY <1>5 DEF CreditCash, PassInv, CloseOps, Up
  <2>2. Surplus' = Surplus
        BY <1>5 DEF CreditCash, Surplus
  <2>3. cash' - (Capital - Com + Cap) = cash - (Capital - Com + 0)
        BY <2>1, <1>0
  <2> QED BY <2>1, <2>2, <2>3, <1>0 DEF MoneyInv, Owed
<1>6. CASE CloseQuote
  <2>1. Up /\ cur \in active /\ op = "credited"
        BY <1>6 DEF CloseQuote, PassInv, CloseOps, Up
  <2>2. active' = active \ {cur} /\ cash' = cash /\ op' = "none"
        BY <1>6 DEF CloseQuote
  <2>3. Cap * Cardinality(active') = Com - Cap
        BY <2>1, <2>2, CommitFacts
  <2>4. Surplus' = Surplus /\ cash - (Capital - Com + Cap) \in Surplus
        BY <1>6, <2>1, <1>0 DEF CloseQuote, MoneyInv, Owed, Surplus
  <2>5. cash' - (Capital - (Com - Cap) + 0) = cash - (Capital - Com + Cap)
        BY <2>2, <1>0
  <2>6. Cap * Cardinality(active') <= Capital
        BY <2>3, <1>0 DEF MoneyInv
  <2> QED BY <2>2, <2>3, <2>4, <2>5, <2>6 DEF MoneyInv, Owed
<1>7. ASSUME NEW p \in Pools, PlaceDebit(p) PROVE MoneyInv'
      BY <1>7, <1>0 DEF PlaceDebit, MoneyInv, Owed, Up, Surplus
<1>8. ASSUME NEW p \in Pools, Visit(p), ~PlaceDebit(p) PROVE MoneyInv'
  <2>1. active' = active /\ cash' = cash /\ pc' = pc /\ op = "none" /\ op' \in {"none", "credit"}
        BY <1>8 DEF Visit, Keep, ExitHeld, PlaceSkip, AccrueSkip, AccrueExit,
                    AccrueDrift, AccrueRecenter, AccrueHold, StopQuote
  <2>2. Still
        BY <2>1 DEF Up, Surplus
  <2> QED BY <2>2, <1>s
<1>9. CASE PollEnd \/ KillCheck \/ Stop \/ TripKill
  <2>1. Still
        BY <1>9 DEF PollEnd, KillCheck, KillCheckQuiet, KillCheckRefresh, Stop, StopSweep,
                    StopResidual, TripKill, Up, Surplus, PassInv, PlaceOps, CloseOps
  <2> QED BY <2>1, <1>s
<1>10. CASE Crash BY <1>10 DEF Crash, MoneyInv, Up
<1>11. CASE Start
  <2>1. op = "none"
        BY <1>11 DEF Start, Up, PassInv, PlaceOps, CloseOps, TypeOK, Ops
  <2>2. active' = active /\ op' = op /\ cash' = IF Capital - Com > 0 THEN Capital - Com ELSE 0
        BY <1>11 DEF Start
  <2>3. Surplus' = {0}
        BY <1>11 DEF Start, Surplus
  <2> QED BY <2>1, <2>2, <2>3, <1>0 DEF MoneyInv, Owed
<1>12. CASE Settle \/ \E t \in Tokens : Fill(t) \/ ReflexCancel(t)
       BY <1>12 DEF Settle, Fill, ReflexCancel, MoneyInv, Owed, Surplus, Up
<1>13. CASE Raise
  <2>1. Up /\ active' = active /\ cash' = cash /\ op' = "none" /\ Surplus' = {0, Cap} /\ Surplus = {0}
        BY <1>13, <1>r DEF Raise, Up, Surplus, LoopPasses
  <2>2. Owed \in {0, Cap} /\ Owed' = 0
        BY <1>13, <2>1 DEF Raise, Owed
  <2> QED BY <2>1, <2>2, <1>0 DEF MoneyInv
<1> QED BY <1>1, <1>2, <1>3, <1>4, <1>5, <1>6, <1>7, <1>8, <1>9, <1>10, <1>11, <1>12, <1>13
        DEF Next, MainThread, PlaceStep, Statement

\* A cancel frees the tokens it is sent for and stacks no orders.
LEMMA CancelFrees ==
    ASSUME TypeOK, NEW ts \in SUBSET Tokens, NEW lost \in SUBSET ts, Cancel(ts, lost)
    PROVE  /\ \A t \in ts : Free(t)'
           /\ \A t \in Tokens : Free(t) => Free(t)'
           /\ \A t \in Tokens : Single(t) => Single(t)'
<1>1. \A t \in Tokens : orders[t] \in Nat /\ orders'[t] \in Nat
      BY CancelFacts DEF TypeOK
<1>2. /\ \A t \in ts : orders'[t] = 0 \/ t \in unconfirmed'
      /\ \A t \in Tokens \ ts : orders'[t] = orders[t] /\ (t \in unconfirmed' <=> t \in unconfirmed)
      BY CancelFacts
<1>3. \A t \in ts : Free(t)'
      BY <1>2 DEF Free
<1>4. \A t \in Tokens \ ts : (Free(t) => Free(t)') /\ (Single(t) => Single(t)')
      BY <1>2 DEF Free, Single
<1>5. \A t \in ts : Single(t)'
      BY <1>1, <1>2 DEF Single
<1> QED BY <1>3, <1>4, <1>5

\* A step that adds no order and closes no quote, and whose statement sequence
\* stays, ends or begins to close a freed pool, preserves the order invariant.
LEMMA OrderFrame ==
    ASSUME TypeOK, OrderInv, active \subseteq active',
           \A t \in Tokens : Free(t) => Free(t)',
           \A t \in Tokens : Single(t) => Single(t)',
           \/ op' \in {"none", "debited"}
           \/ op' = op /\ cur' = cur /\ (op # "none" => cur \in Pools)
           \/ op' \in CloseOps /\ \A t \in Legs(cur') : Free(t)'
    PROVE  OrderInv'
<1>1. OrdersOwned' /\ OneOrderPerLeg'
  <2>1. \A t \in Tokens : orders[t] > 0 <=> orders[t] # 0
        BY DEF TypeOK
  <2>2. ASSUME NEW t \in Tokens PROVE orders'[t] > 0 /\ t[1] \notin active' => t \in unconfirmed'
        BY <2>1 DEF OrderInv, OrdersOwned, Free
  <2>3. ASSUME NEW t \in Tokens PROVE orders'[t] <= 1 \/ t \in unconfirmed'
        BY DEF OrderInv, OneOrderPerLeg, Single
  <2>4. OrdersOwned'
        BY <2>2 DEF OrdersOwned
  <2>5. OneOrderPerLeg'
        BY <2>3 DEF OneOrderPerLeg
  <2> QED BY <2>4, <2>5
<1>2. CASE op' \in {"none", "debited"}
      BY <1>1, <1>2 DEF OrderInv, CloseOps
<1>3. CASE op' = op /\ cur' = cur /\ (op # "none" => cur \in Pools)
      BY <1>1, <1>3, LegFacts DEF OrderInv, CloseOps
<1>4. CASE op' \in CloseOps /\ \A t \in Legs(cur') : Free(t)'
      BY <1>1, <1>4 DEF OrderInv, CloseOps
<1> QED BY <1>2, <1>3, <1>4

\* Each action keeps the orders owned and single.
LEMMA OrderStep == TypeOK /\ PassInv /\ OrderInv /\ [Next]_vars => OrderInv'
<1> SUFFICES ASSUME TypeOK, PassInv, OrderInv, [Next]_vars PROVE OrderInv'
    OBVIOUS
<1> USE DEF exchange, ledger, memory, EndOp
<1> DEFINE Same == UNCHANGED <<orders, unconfirmed>>
<1>0. /\ op # "none" => cur \in Pools
      /\ Same => /\ \A t \in Tokens : Free(t) => Free(t)'
                 /\ \A t \in Tokens : Single(t) => Single(t)'
      BY DEF Free, Single, PassInv, PlaceOps, CloseOps, TypeOK, Ops
<1>1. CASE UNCHANGED vars
  <2>1. Same /\ active' = active /\ op' = op /\ cur' = cur
        BY <1>1 DEF vars
  <2> QED BY <2>1, <1>0, OrderFrame
<1>2. CASE Beat \/ PollEnd \/ KillCheck \/ StopResidual \/ TripKill \/ Settle
  <2>1. Same /\ active' = active /\ op' = op /\ cur' = cur
        BY <1>2 DEF Beat, BeatSkip, BeatStart, Reselect, ReselectStale, AddStart, BeatEnd, PollEnd,
                    KillCheck, KillCheckQuiet, KillCheckRefresh, StopResidual, TripKill, Settle
  <2> QED BY <2>1, <1>0, OrderFrame
<1>3. CASE PlaceCreate
  <2>1. Same /\ active' = active \cup {cur} /\ cur \in Pools \ active
        BY <1>3 DEF PlaceCreate, PassInv
  <2>2. CASE op' = "none"
        BY <2>1, <2>2, <1>0, OrderFrame
  <2>3. CASE op' = "legYes" /\ cur' = cur
    <3>1. \A t \in Legs(cur) : Free(t)'
          BY <2>1, LegFacts DEF OrderInv, OrdersOwned, Free, TypeOK
    <3>2. OrdersOwned' /\ OneOrderPerLeg'
          BY <2>1 DEF OrderInv, OrdersOwned, OneOrderPerLeg
    <3> QED BY <2>3, <3>1, <3>2 DEF OrderInv, CloseOps
  <2> QED BY <1>3, <2>2, <2>3 DEF PlaceCreate
<1>4. CASE PlaceYes
  <2>1. PICK acked \in BOOLEAN : Place(Yes(cur), acked)
        BY <1>4 DEF PlaceYes
  <2>2. cur \in active /\ cur \in Pools /\ op = "legYes"
        BY <1>4 DEF PlaceYes, PassInv, PlaceOps, TypeOK
  <2>3. unconfirmed' = unconfirmed /\ active' = active /\ cur' = cur /\ op' \in {"legNo", "legNoBad"}
        BY <1>4 DEF PlaceYes
  <2>4. /\ orders' \in [Tokens -> Nat]
        /\ orders'[Yes(cur)] <= orders[Yes(cur)] + 1
        /\ \A u \in Tokens \ {Yes(cur)} : orders'[u] = orders[u]
        BY <2>1, <2>2, LegFacts, PlaceFacts
  <2>5. Free(Yes(cur)) /\ Free(No(cur))
        BY <2>2 DEF OrderInv, Legs
  <2>6. Free(No(cur))'
        BY <2>2, <2>3, <2>4, <2>5, LegFacts DEF Free
  <2>7. OneOrderPerLeg'
    <3> SUFFICES ASSUME NEW t \in Tokens PROVE orders'[t] <= 1 \/ t \in unconfirmed'
        BY DEF OneOrderPerLeg
    <3>1. CASE t = Yes(cur)
          BY <3>1, <2>3, <2>4, <2>5 DEF Free
    <3>2. CASE t # Yes(cur)
          BY <3>2, <2>3, <2>4 DEF OrderInv, OneOrderPerLeg
    <3> QED BY <3>1, <3>2
  <2>8. OrdersOwned'
        BY <2>2, <2>3, <2>4, LegFacts DEF OrderInv, OrdersOwned
  <2> QED BY <2>3, <2>6, <2>7, <2>8 DEF OrderInv, CloseOps
<1>5. CASE PlaceNo
  <2>1. PICK acked \in BOOLEAN : Place(No(cur), acked)
        BY <1>5 DEF PlaceNo
  <2>2. cur \in active /\ cur \in Pools /\ op \in {"legNo", "legNoBad"}
        BY <1>5 DEF PlaceNo, PassInv, PlaceOps, TypeOK
  <2>3. unconfirmed' = unconfirmed /\ active' = active /\ op' \in {"none", "rollback"}
        BY <1>5 DEF PlaceNo
  <2>4. /\ orders' \in [Tokens -> Nat]
        /\ orders'[No(cur)] <= orders[No(cur)] + 1
        /\ \A u \in Tokens \ {No(cur)} : orders'[u] = orders[u]
        BY <2>1, <2>2, LegFacts, PlaceFacts
  <2>5. Free(No(cur))
        BY <2>2 DEF OrderInv
  <2>6. OneOrderPerLeg'
    <3> SUFFICES ASSUME NEW t \in Tokens PROVE orders'[t] <= 1 \/ t \in unconfirmed'
        BY DEF OneOrderPerLeg
    <3>1. CASE t = No(cur)
          BY <3>1, <2>3, <2>4, <2>5 DEF Free
    <3>2. CASE t # No(cur)
          BY <3>2, <2>3, <2>4 DEF OrderInv, OneOrderPerLeg
    <3> QED BY <3>1, <3>2
  <2>7. OrdersOwned'
        BY <2>2, <2>3, <2>4, LegFacts DEF OrderInv, OrdersOwned
  <2> QED BY <2>3, <2>6, <2>7 DEF OrderInv, CloseOps
<1>6. CASE PlaceRollback
  <2>1. PICK lost \in SUBSET Legs(cur) : Cancel(Legs(cur), lost)
        BY <1>6 DEF PlaceRollback
  <2>2. active' = active /\ op' = "credit" /\ cur' = cur /\ cur \in Pools
        BY <1>6, <1>0 DEF PlaceRollback
  <2> QED BY <2>1, <2>2, LegFacts, CancelFrees, OrderFrame DEF CloseOps
<1>7. CASE CreditCash
  <2>1. Same /\ active' = active /\ op' = "credited" /\ cur' = cur /\ cur \in Pools /\ op = "credit"
        BY <1>7, <1>0 DEF CreditCash
  <2>2. \A t \in Legs(cur) : Free(t)'
        BY <2>1, <1>0, LegFacts DEF OrderInv, CloseOps
  <2> QED BY <2>1, <2>2, <1>0, OrderFrame DEF CloseOps
<1>8. CASE CloseQuote
  <2>1. Same /\ active' = active \ {cur} /\ op' = "none" /\ cur \in Pools /\ op = "credited"
        BY <1>8, <1>0 DEF CloseQuote
  <2>2. \A t \in Legs(cur) : Free(t)
        BY <2>1 DEF OrderInv, CloseOps
  <2>3. OrdersOwned'
    <3> SUFFICES ASSUME NEW t \in Tokens, orders'[t] > 0, t[1] \notin active' PROVE t \in unconfirmed'
        BY DEF OrdersOwned
    <3>1. CASE t[1] = cur
          BY <3>1, <2>1, <2>2, LegFacts DEF Free
    <3>2. CASE t[1] # cur
          BY <3>2, <2>1 DEF OrderInv, OrdersOwned
    <3> QED BY <3>1, <3>2
  <2>4. OneOrderPerLeg'
        BY <2>1 DEF OrderInv, OneOrderPerLeg
  <2> QED BY <2>1, <2>3, <2>4 DEF OrderInv, CloseOps
<1>9. ASSUME NEW p \in Pools, Visit(p) PROVE OrderInv'
  <2>1. CASE Keep(p) \/ PlaceDebit(p) \/ PlaceSkip(p) \/ AccrueSkip(p) \/ AccrueHold(p)
    <3>1. Same /\ active' = active /\ op' \in {"none", "debited"}
          BY <2>1 DEF Keep, PlaceDebit, PlaceSkip, AccrueSkip, AccrueHold
    <3> QED BY <3>1, <1>0, OrderFrame
  <2>2. ASSUME ExitHeld(p) \/ StopQuote(p) \/ AccrueDrift(p) \/ AccrueExit(p, TRUE) \/ AccrueExit(p, FALSE)
        PROVE  OrderInv'
    <3>1. active' = active /\ op = "none" /\ (op' = "none" \/ (op' = "credit" /\ cur' = p))
      <4>1. CASE ExitHeld(p) \/ StopQuote(p) BY <4>1 DEF ExitHeld, StopQuote
      <4>2. CASE AccrueDrift(p)
        <5>1. (op' = "credit" /\ cur' = p) \/ (op' = op /\ cur' = cur)
              BY <4>2 DEF AccrueDrift
        <5> QED BY <4>2, <5>1 DEF AccrueDrift
      <4>3. ASSUME NEW ended \in BOOLEAN, AccrueExit(p, ended)
            PROVE  active' = active /\ op = "none" /\ (op' = "none" \/ (op' = "credit" /\ cur' = p))
        <5>1. (op' = "credit" /\ cur' = p) \/ (op' = op /\ cur' = cur)
              BY <4>3 DEF AccrueExit
        <5> QED BY <4>3, <5>1 DEF AccrueExit
      <4> QED BY <2>2, <4>1, <4>2, <4>3
    <3>2. PICK lost \in SUBSET Legs(p) : Cancel(Legs(p), lost)
          BY <2>2, Zenon DEF ExitHeld, StopQuote, AccrueDrift, AccrueExit
    <3> QED BY <3>1, <3>2, LegFacts, CancelFrees, OrderFrame DEF CloseOps
  <2>3. CASE AccrueRecenter(p)
    <3>1. PICK lost \in SUBSET Legs(p), refused \in SUBSET Legs(p) :
              \E kept \in SUBSET lost, hidden \in SUBSET refused :
                 /\ orders' = [t \in Tokens |->
                       Cancelled(Legs(p), kept)[t]
                         + (IF t \in (Legs(p) \ refused) \cup hidden THEN 1 ELSE 0)]
                 /\ unconfirmed' = (unconfirmed \ Legs(p)) \cup lost
          BY <2>3, Zenon DEF AccrueRecenter
    <3>2. active' = active /\ op = "none" /\ op' = "none" /\ p \in active
          BY <2>3 DEF AccrueRecenter, PassInv
    <3>3. \A t \in Legs(p) : orders'[t] <= 1 \/ t \in unconfirmed'
          BY <3>1, LegFacts DEF Cancelled, TypeOK
    <3>4. \A t \in Tokens \ Legs(p) : orders'[t] = orders[t] /\ (t \in unconfirmed' <=> t \in unconfirmed)
          BY <3>1, LegFacts DEF Cancelled, TypeOK
    <3>5. OrdersOwned'
          BY <3>2, <3>4, LegFacts DEF OrderInv, OrdersOwned
    <3>6. OneOrderPerLeg'
          BY <3>3, <3>4 DEF OrderInv, OneOrderPerLeg
    <3> QED BY <3>2, <3>5, <3>6 DEF OrderInv, CloseOps
  <2> QED BY <1>9, <2>1, <2>2, <2>3 DEF Visit
<1>10. CASE StopSweep
  <2> DEFINE swept == Sweepable({Yes(p) : p \in placed})
  <2>1. swept \in SUBSET Tokens
        BY DEF Sweepable
  <2>2. PICK lost \in SUBSET swept : Cancel(swept, lost)
        BY <1>10 DEF StopSweep
  <2>3. active' = active /\ op' = "none"
        BY <1>10 DEF StopSweep
  <2> QED BY <2>1, <2>2, <2>3, CancelFrees, OrderFrame
<1>11. CASE Crash \/ Raise
  <2>1. Same /\ active' = active /\ op' = "none"
        BY <1>11 DEF Crash, Raise
  <2> QED BY <2>1, <1>0, OrderFrame
<1>12. CASE Start
  <2> DEFINE foreign == {t \in Tokens : OrphanSweep /\ orders[t] > 0
                                         /\ t \notin {Yes(p) : p \in active}}
  <2>1. PICK lost \in SUBSET foreign : Cancel(foreign, lost)
        BY <1>12, Zenon DEF Start
  <2>2. active' = active /\ op' = op /\ cur' = cur
        BY <1>12 DEF Start
  <2> QED BY <2>1, <2>2, <1>0, CancelFrees, OrderFrame
<1>13. ASSUME NEW t \in Tokens, Fill(t) PROVE OrderInv'
  <2>1. active' = active /\ op' = op /\ cur' = cur /\ unconfirmed' = unconfirmed
        BY <1>13 DEF Fill
  <2>2. \A u \in Tokens : orders[u] \in Nat /\ orders'[u] <= orders[u] /\ (orders[u] = 0 => orders'[u] = 0)
        BY <1>13 DEF Fill, TypeOK
  <2>3. /\ \A u \in Tokens : Free(u) => Free(u)'
        /\ \A u \in Tokens : Single(u) => Single(u)'
        BY <2>1, <2>2, TypeStep DEF Free, Single, TypeOK
  <2> QED BY <2>1, <2>3, <1>0, OrderFrame
<1>14. ASSUME NEW t \in Tokens, ReflexCancel(t) PROVE OrderInv'
  <2>1. PICK lost \in SUBSET {t} : Cancel({t}, lost)
        BY <1>14 DEF ReflexCancel
  <2>2. active' = active /\ op' = op /\ cur' = cur
        BY <1>14 DEF ReflexCancel
  <2> QED BY <2>1, <2>2, <1>0, CancelFrees, OrderFrame
<1> QED BY <1>1, <1>2, <1>3, <1>4, <1>5, <1>6, <1>7, <1>8, <1>9, <1>10, <1>11, <1>12, <1>13, <1>14
        DEF Next, MainThread, PlaceStep, Statement, Stop

\* A step never takes a fault back, and a cancel that becomes doubtful costs one.
LEMMA DoubtCosts ==
    ASSUME TypeOK, [Next]_vars
    PROVE  faults' >= faults /\ (unconfirmed' \subseteq unconfirmed \/ faults' >= 1)
<1> USE DEF exchange, ledger, memory
<1>0. faults \in Nat BY DEF TypeOK
\* A step that spends a fault on a cancel with lost answers.
<1>1. ASSUME NEW ts, NEW lost, NEW bad, Fault(lost # {} \/ bad), unconfirmed' = (unconfirmed \ ts) \cup lost
      PROVE  faults' >= faults /\ (unconfirmed' \subseteq unconfirmed \/ faults' >= 1)
  <2>1. CASE lost = {} BY <1>0, <1>1, <2>1 DEF Fault
  <2>2. CASE lost # {} BY <1>0, <1>1, <2>2 DEF Fault
  <2> QED BY <2>1, <2>2
<1>2. ASSUME NEW ts, NEW lost, Fault(lost # {}), unconfirmed' = (unconfirmed \ ts) \cup lost
      PROVE  faults' >= faults /\ (unconfirmed' \subseteq unconfirmed \/ faults' >= 1)
  <2>1. Fault(lost # {} \/ FALSE) BY <1>2 DEF Fault
  <2> QED BY <1>1, <1>2, <2>1
<1>3. CASE UNCHANGED vars \/ Beat \/ Statement \/ PlaceCreate \/ PollEnd \/ KillCheckQuiet \/ TripKill \/ Settle
      BY <1>0, <1>3 DEF vars, Beat, BeatSkip, BeatStart, Reselect, ReselectStale, AddStart, BeatEnd,
                        Statement, CreditCash, CloseQuote, PlaceCreate, PollEnd, KillCheckQuiet,
                        TripKill, Settle
<1>4. CASE PlaceYes \/ PlaceNo \/ KillCheckRefresh \/ StopResidual \/ Crash \/ Raise
  <2>1. unconfirmed' = unconfirmed /\ \E bad : Fault(bad)
        BY <1>4 DEF PlaceYes, PlaceNo, Place, KillCheckRefresh, StopResidual, Crash, Raise
  <2> QED BY <1>0, <2>1 DEF Fault
<1>5. CASE PlaceRollback
  <2>1. PICK lost \in SUBSET Legs(cur) : Fault(lost # {}) /\ Cancel(Legs(cur), lost)
        BY <1>5 DEF PlaceRollback
  <2> QED BY <1>2, <2>1 DEF Cancel
<1>6. CASE StopSweep
  <2>1. PICK ts, lost : Fault(lost # {}) /\ Cancel(ts, lost)
        BY <1>6 DEF StopSweep
  <2> QED BY <1>2, <2>1 DEF Cancel
<1>7. CASE Start
  <2>1. PICK ts, lost, reading, readable :
            Fault(reading # chain \/ ~readable \/ lost # {}) /\ Cancel(ts, lost)
        BY <1>7 DEF Start
  <2>2. Fault(lost # {} \/ (reading # chain \/ ~readable))
        BY <2>1 DEF Fault
  <2> QED BY <1>1, <2>1, <2>2 DEF Cancel
<1>8. ASSUME NEW p \in Pools, Visit(p)
      PROVE  faults' >= faults /\ (unconfirmed' \subseteq unconfirmed \/ faults' >= 1)
  <2>1. CASE Keep(p) \/ PlaceDebit(p) \/ PlaceSkip(p) \/ AccrueSkip(p) \/ AccrueHold(p)
    <3>1. unconfirmed' = unconfirmed /\ (faults' = faults \/ \E bad : Fault(bad))
          BY <2>1 DEF Keep, PlaceDebit, PlaceSkip, AccrueSkip, AccrueHold
    <3> QED BY <1>0, <3>1 DEF Fault
  <2>2. CASE ExitHeld(p) \/ StopQuote(p)
    <3>1. PICK lost, bad : Fault(lost # {} \/ bad) /\ Cancel(Legs(p), lost)
          BY <2>2 DEF ExitHeld, StopQuote
    <3> QED BY <1>1, <3>1 DEF Cancel
  <2>3. ASSUME NEW ended \in BOOLEAN, AccrueExit(p, ended)
        PROVE  faults' >= faults /\ (unconfirmed' \subseteq unconfirmed \/ faults' >= 1)
    <3>1. PICK lost, bad : Fault(lost # {} \/ bad) /\ Cancel(Legs(p), lost)
          BY <2>3 DEF AccrueExit
    <3> QED BY <1>1, <3>1 DEF Cancel
  <2>4. CASE AccrueDrift(p)
    <3>1. PICK lost : Fault(lost # {}) /\ Cancel(Legs(p), lost)
          BY <2>4 DEF AccrueDrift
    <3> QED BY <1>2, <3>1 DEF Cancel
  <2>5. CASE AccrueRecenter(p)
    <3>1. PICK lost, refused : Fault(lost \cup refused # {})
                               /\ unconfirmed' = (unconfirmed \ Legs(p)) \cup lost
          BY <2>5 DEF AccrueRecenter
    <3>2. Fault(lost # {} \/ refused # {})
      <4>1. lost \cup refused # {} <=> lost # {} \/ refused # {} OBVIOUS
      <4> QED BY <3>1, <4>1 DEF Fault
    <3> QED BY <1>1, <3>1, <3>2
  <2> QED BY <1>8, <2>1, <2>2, <2>3, <2>4, <2>5 DEF Visit
<1>9. ASSUME NEW t \in Tokens, Fill(t)
      PROVE  faults' >= faults /\ (unconfirmed' \subseteq unconfirmed \/ faults' >= 1)
      BY <1>0, <1>9 DEF Fill
<1>10. ASSUME NEW t \in Tokens, ReflexCancel(t)
       PROVE  faults' >= faults /\ (unconfirmed' \subseteq unconfirmed \/ faults' >= 1)
  <2>1. PICK lost : Fault(lost # {}) /\ Cancel({t}, lost)
        BY <1>10 DEF ReflexCancel
  <2> QED BY <1>2, <2>1 DEF Cancel
<1> QED BY <1>3, <1>4, <1>5, <1>6, <1>7, <1>8, <1>9, <1>10
        DEF Next, MainThread, PlaceStep, Stop, KillCheck

\* Shutdown works through the active quotes, and only a second fault leaves an order.
LEMMA StopStep == TypeOK /\ PassInv /\ OrderInv /\ StopInv /\ [Next]_vars => StopInv'
<1> SUFFICES ASSUME TypeOK, PassInv, OrderInv, StopInv, [Next]_vars PROVE StopInv'
    OBVIOUS
<1> USE DEF exchange, ledger, memory
<1>0. faults \in Nat /\ faults' \in Nat /\ orders \in [Tokens -> Nat] /\ orders' \in [Tokens -> Nat]
  <2>1. TypeOK' BY TypeStep
  <2> QED BY <2>1 DEF TypeOK
<1>1. faults' >= faults /\ (unconfirmed' \subseteq unconfirmed \/ faults' >= 1)
      BY DoubtCosts
<1>2. unconfirmed' # {} => faults' >= 1
      BY <1>0, <1>1 DEF StopInv
\* A quote is still to be visited, or its statements are under way.
<1>3. pc' = "stopping" => active' \subseteq todo' \cup (IF op' = "none" THEN {} ELSE {cur'})
  <2> SUFFICES ASSUME pc' = "stopping"
               PROVE  active' \subseteq todo' \cup (IF op' = "none" THEN {} ELSE {cur'})
      OBVIOUS
  <2>1. CASE TripKill \/ Raise BY <2>1 DEF TripKill, Raise
  <2>2. CASE Statement BY <2>2 DEF Statement, CreditCash, CloseQuote, EndOp, StopInv
  <2>3. ASSUME NEW p \in Pools, Visit(p)
        PROVE  active' \subseteq todo' \cup (IF op' = "none" THEN {} ELSE {cur'})
    <3>1. StopQuote(p)
          BY <2>3 DEF Visit, Keep, ExitHeld, PlaceDebit, PlaceSkip, AccrueSkip, AccrueExit,
                      AccrueDrift, AccrueRecenter, AccrueHold
    <3> QED BY <3>1 DEF StopQuote, StopInv
  <2>4. CASE PlaceStep
        BY <2>4 DEF PlaceStep, PlaceCreate, PlaceYes, PlaceNo, PlaceRollback, PassInv, PlaceOps
  <2>5. CASE Beat \/ PollEnd \/ KillCheck \/ Stop \/ Crash \/ Start
        BY <2>5 DEF Beat, BeatSkip, BeatStart, Reselect, ReselectStale, AddStart, BeatEnd, PollEnd,
                    KillCheck, KillCheckQuiet, KillCheckRefresh, Stop, StopSweep, StopResidual,
                    Crash, Start
  <2>6. CASE UNCHANGED vars \/ Settle \/ \E t \in Tokens : Fill(t) \/ ReflexCancel(t)
        BY <2>6 DEF vars, Settle, Fill, ReflexCancel, StopInv
  <2> QED BY <2>1, <2>2, <2>3, <2>4, <2>5, <2>6 DEF Next, MainThread
<1>4. pc' \in {"residual", "stopped"} /\ OrphanSweep => faults' >= 2 \/ \A t \in Tokens : orders'[t] = 0
  <2> SUFFICES ASSUME pc' \in {"residual", "stopped"}, OrphanSweep, faults' < 2
               PROVE  \A t \in Tokens : orders'[t] = 0
      BY <1>0
  <2>1. CASE StopSweep
    <3>1. PICK lost \in SUBSET {t \in Tokens : orders[t] > 0} :
              /\ Fault(lost # {})
              /\ \E kept \in SUBSET lost :
                    orders' = Cancelled({t \in Tokens : orders[t] > 0}, kept)
          BY <2>1 DEF StopSweep, Sweepable, Cancel
    <3>2. active = {}
          BY <2>1 DEF StopSweep, StopInv
    <3>3. lost = {}
      <4> SUFFICES ASSUME lost # {} PROVE FALSE
          OBVIOUS
      <4>1. PICK t \in lost : TRUE OBVIOUS
      <4>2. t \in unconfirmed BY <3>1, <3>2, <4>1 DEF OrderInv, OrdersOwned
      <4>3. faults >= 1 BY <4>2 DEF StopInv
      <4>4. faults' = faults + 1 BY <3>1 DEF Fault
      <4> QED BY <1>0, <4>3, <4>4
    <3>4. orders' = [t \in Tokens |-> IF orders[t] > 0 THEN 0 ELSE orders[t]]
          BY <3>1, <3>3 DEF Cancelled
    <3> QED BY <1>0, <3>4
  <2>2. CASE pc \in {"residual", "stopped"}
    <3>1. \A t \in Tokens : orders[t] = 0 BY <1>0, <1>1, <2>2 DEF StopInv
    <3>2. orders' = orders
      <4>1. CASE PlaceStep
            BY <2>2, <4>1 DEF PlaceStep, PlaceCreate, PlaceYes, PlaceNo, PlaceRollback, PassInv, PlaceOps
      <4>2. CASE \E p \in Pools : Visit(p)
            BY <2>2, <4>2 DEF Visit, Keep, ExitHeld, PlaceDebit, PlaceSkip, AccrueSkip, AccrueExit,
                              AccrueDrift, AccrueRecenter, AccrueHold, StopQuote
      <4>3. CASE \E t \in Tokens : Fill(t) \/ ReflexCancel(t)
            BY <3>1, <2>2, <4>3 DEF Fill, ReflexCancel
      <4>4. CASE Stop \/ Start
            BY <2>2, <4>4 DEF Stop, StopSweep, StopResidual, Start
      <4>5. CASE UNCHANGED vars \/ Settle \/ Statement \/ TripKill \/ Raise \/ Crash
            BY <4>5 DEF vars, Settle, Statement, CreditCash, CloseQuote, TripKill, Raise, Crash
      <4>6. CASE Beat \/ PollEnd \/ KillCheck
            BY <4>6 DEF Beat, BeatSkip, BeatStart, Reselect, ReselectStale, AddStart, BeatEnd, PollEnd,
                        KillCheck, KillCheckQuiet, KillCheckRefresh
      <4> QED BY <4>1, <4>2, <4>3, <4>4, <4>5, <4>6 DEF Next, MainThread
    <3> QED BY <3>1, <3>2
  <2>3. ASSUME pc \notin {"residual", "stopped"}, ~StopSweep PROVE FALSE
    <3>1. pc' # "residual" /\ pc' # "stopped"
      <4>1. CASE PlaceStep \/ Statement \/ \E p \in Pools : Visit(p)
        <5>1. pc' = pc
              BY <4>1 DEF PlaceStep, PlaceCreate, PlaceYes, PlaceNo, PlaceRollback, Statement, CreditCash,
                          CloseQuote, Visit, Keep, ExitHeld, PlaceDebit, PlaceSkip, AccrueSkip, AccrueExit,
                          AccrueDrift, AccrueRecenter, AccrueHold, StopQuote
        <5> QED BY <2>3, <5>1
      <4>2. CASE Beat \/ PollEnd \/ KillCheck \/ Stop \/ TripKill \/ Raise \/ Crash \/ Start
            BY <2>3, <4>2 DEF Beat, BeatSkip, BeatStart, Reselect, ReselectStale, AddStart, BeatEnd,
                  PollEnd, KillCheck, KillCheckQuiet, KillCheckRefresh, Stop, StopResidual,
                  TripKill, Raise, Crash, Start
      <4>3. CASE UNCHANGED vars \/ Settle \/ \E t \in Tokens : Fill(t) \/ ReflexCancel(t)
            BY <2>3, <4>3 DEF vars, Settle, Fill, ReflexCancel
      <4> QED BY <4>1, <4>2, <4>3 DEF Next, MainThread
    <3> QED BY <3>1
  <2> QED BY <2>1, <2>2, <2>3
<1> QED BY <1>2, <1>3, <1>4 DEF StopInv

-----------------------------------------------------------------------------
\* The inductive invariant holds in every reachable state.
THEOREM Inductive == Spec => []IInv
<1>1. Init => IInv
  <2> SUFFICES ASSUME Init PROVE IInv
      OBVIOUS
  <2>1. TypeOK
        BY InitType
  <2>2. PassInv /\ PlacedInv
        BY DEF Init, PassInv, PlaceOps, CloseOps, PlacedInv, LoopPasses
  <2>3. MoneyInv
    <3>1. Cardinality({}) = 0 /\ Cap * 0 = 0
          BY FS_EmptySet, MoneyAssumption
    <3> QED BY <3>1, MoneyAssumption DEF Init, MoneyInv, Up
  <2>4. OrderInv
        BY DEF Init, OrderInv, OrdersOwned, OneOrderPerLeg, CloseOps, Zero
  <2>5. StopInv
        BY DEF Init, StopInv
  <2> QED BY <2>1, <2>2, <2>3, <2>4, <2>5 DEF IInv
<1>2. IInv /\ [Next]_vars => IInv'
      BY TypeStep, PassStep, PlacedStep, MoneyStep, OrderStep, StopStep DEF IInv
<1> QED BY <1>1, <1>2, PTL DEF Spec

\* Type correctness.
THEOREM TypeCorrect == Spec => []TypeOK
<1>1. IInv => TypeOK
      BY DEF IInv
<1> QED BY <1>1, Inductive, PTL

\* No sequence of placements, rollbacks, exits, crashes and restarts loses or
\* duplicates capital, for any number of pools (engine.cpp:101-107,340-341,849-857).
THEOREM CapitalIsConserved == Spec => []CapitalConserved
<1>1. IInv => CapitalConserved
      BY CommitFacts, MoneyAssumption DEF IInv, MoneyInv, Owed, Surplus, CapitalConserved, TypeOK
<1> QED BY <1>1, Inductive, PTL

\* placed_ and the ledger agree between operations of the loop
\* (runner.cpp:485-504,955-1012,1258-1290,1454-1460).
THEOREM QuotesAreManaged == Spec => []ManagedQuotes
<1>1. IInv => ManagedQuotes
      BY DEF IInv, PlacedInv, LoopPasses, ManagedQuotes
<1> QED BY <1>1, Inductive, PTL

\* Only an unacknowledged cancel leaves an order behind on a pool without quote
\* (engine.cpp:513-521, runner.cpp:1258-1290,1661-1673).
THEOREM OrdersAreOwned == Spec => []OrdersOwned
<1>1. IInv => OrdersOwned
      BY DEF IInv, OrderInv
<1> QED BY <1>1, Inductive, PTL

\* Only an unacknowledged cancel lets two orders rest on one leg
\* (engine.cpp:703-721).
THEOREM LegsAreSingle == Spec => []OneOrderPerLeg
<1>1. IInv => OneOrderPerLeg
      BY DEF IInv, OrderInv
<1> QED BY <1>1, Inductive, PTL

\* On an account of its own, shutdown leaves an order on the book only after two failed
\* calls: the sweep finds what one lost cancel has left (runner.cpp:1676-1703).
THEOREM StopSweepsOrders == Spec => []StopLeavesNoOrder
<1>1. IInv => StopLeavesNoOrder
      BY DEF IInv, TypeOK, StopInv, StopLeavesNoOrder
<1> QED BY <1>1, Inductive, PTL
=============================================================================
