-------------------------- MODULE TailVendorProofs --------------------------
(***************************************************************************)
(* TLAPS proofs about TailVendor, for any tokens, scopes, limits, pages and *)
(* number of fills and faults: a limit is exceeded by no more than what was *)
(* out of sight.                                                            *)
(***************************************************************************)
EXTENDS TailVendor, FiniteSetTheorems, TLAPS

\* What is at rest between the phases of a round; a halted program has stopped.
RoundInv ==
    /\ pc \notin {"recover", "fills"} => batch = {}
    /\ pc \notin {"exec", "placed"} => toCancel = {} /\ toPlace = {}
    /\ pc # "down" => rejects < RejectLimit

\* The trades that will still be ingested: while the program is down, what the ledger
\* has not seen; then what the batch holds or the next poll finds.
Unread ==
    {i \in (last + 1)..Len(trades) :
        /\ trades[i].maker
        /\ pc \notin {"down", "boot", "fetch"} => i \in batch \/ (i > cursor /\ \A j \in batch : j < i)}
Dark(t) == {i \in Unread \cup missed : trades[i].token = t}

\* The orders of a token that plan does not count: all but the one it keeps, and all
\* of them where it is about to place another.
Blind(t) ==
    IF t \in toPlace \ toCancel THEN orders[t] ELSE IF orders[t] > 0 THEN orders[t] - 1 ELSE 0

\* A position is in the ledger, among the trades to be read or missed, or slipped; so
\* is every order plan does not count.
SightInv ==
    \A t \in Tokens : /\ Blind(t) <= slip[t]
                      /\ Blind(t) + pos[t] <= held[t] + Cardinality(Dark(t)) + slip[t]

\* The orders the plan keeps, the positions and the placements still to come.
Real == [t \in Tokens |-> orders[t] + pos[t]]
Load ==
    [t \in Tokens |-> (IF t \in toCancel THEN 0 ELSE orders[t]) + pos[t]
                      + (IF t \in toPlace THEN 1 ELSE 0)]
PlanInv ==
    \A s \in Scopes : toPlace \cap s # {} => Total(Load, s) <= Limit(s) + Total(Unseen, s)

IInv == TypeOK /\ RoundInv /\ SightInv /\ PlanInv /\ OvershootBounded

-----------------------------------------------------------------------------
(* Sums of collateral.                                                      *)

\* The units of a sum.
LEMMA InUnits ==
    ASSUME NEW f, NEW S, NEW u
    PROVE  u \in Units(f, S) <=> \E t \in S : \E k \in 1..f[t] : u = <<t, k>>
BY DEF Units

\* A sum is a natural number.
LEMMA UnitsFinite ==
    ASSUME NEW f \in [Tokens -> Nat], NEW S \in SUBSET Tokens
    PROVE  IsFiniteSet(Units(f, S)) /\ Total(f, S) \in Nat
<1> DEFINE g == [t \in S |-> {t} \X (1..f[t])]
           U == {{t} \X (1..f[t]) : t \in S}
<1>1. IsFiniteSet(S) BY TailAssumption, FS_Subset
<1>2. g \in Surjection(S, U) BY DEF Surjection
<1>3. IsFiniteSet(U)
  <2> HIDE DEF g, U
  <2> QED BY <1>1, <1>2, FS_Surjection
<1>4. ASSUME NEW t \in S PROVE IsFiniteSet({t} \X (1..f[t]))
  <2>1. IsFiniteSet({t}) BY FS_Singleton
  <2>2. IsFiniteSet(1..f[t])
    <3>1. 1 \in Int /\ f[t] \in Int OBVIOUS
    <3> QED BY <3>1, FS_Interval
  <2> QED BY <2>1, <2>2, FS_Product
<1>5. IsFiniteSet(UNION U)
  <2>1. \A T \in U : IsFiniteSet(T) BY <1>4
  <2> HIDE DEF U
  <2> QED BY <1>3, <2>1, FS_UNION
<1> QED BY <1>5, FS_CardinalityType DEF Units, Total

\* A sum over fewer or smaller parts is not larger.
LEMMA Less ==
    ASSUME NEW f \in [Tokens -> Nat], NEW g \in [Tokens -> Nat],
           NEW S \in SUBSET Tokens, NEW R \in SUBSET Tokens,
           \A t \in S : f[t] = 0 \/ (t \in R /\ f[t] <= g[t])
    PROVE  Total(f, S) <= Total(g, R)
<1>1. \A t \in S : \A k \in 1..f[t] : t \in R /\ k \in 1..g[t]
  <2> TAKE t \in S
  <2>1. f[t] \in Nat /\ g[t] \in Nat OBVIOUS
  <2> QED BY <2>1
<1>2. Units(f, S) \in SUBSET Units(g, R) BY <1>1, InUnits
<1> QED BY <1>2, UnitsFinite, FS_Subset DEF Total

\* Sums add up.
LEMMA Sum ==
    ASSUME NEW f \in [Tokens -> Nat], NEW g \in [Tokens -> Nat], NEW S \in SUBSET Tokens
    PROVE  Total([t \in Tokens |-> f[t] + g[t]], S) = Total(f, S) + Total(g, S)
<1> DEFINE h == [t \in Tokens |-> f[t] + g[t]]
           B == {<<u[1], f[u[1]] + u[2]>> : u \in Units(g, S)}
           m == [u \in Units(g, S) |-> <<u[1], f[u[1]] + u[2]>>]
<1>1. \A u \in Units(g, S) : u[1] \in S /\ u[2] \in Nat /\ u = <<u[1], u[2]>> /\ f[u[1]] \in Nat
  BY InUnits
<1>2. m \in Bijection(Units(g, S), B)
  <2>1. \A u, v \in Units(g, S) : m[u] = m[v] => u = v BY <1>1
  <2>2. m \in [Units(g, S) -> B] OBVIOUS
  <2>3. m \in Injection(Units(g, S), B)
    <3> HIDE DEF m, B
    <3> QED BY <2>1, <2>2 DEF Injection, IsInjective
  <2>4. m \in Surjection(Units(g, S), B) BY <2>2 DEF Surjection
  <2> QED BY <2>3, <2>4 DEF Bijection
<1>3. Units(h, S) = Units(f, S) \cup B
  <2>1. ASSUME NEW u \in Units(h, S) PROVE u \in Units(f, S) \cup B
    <3>1. PICK t \in S : \E k \in 1..h[t] : u = <<t, k>> BY <2>1, InUnits
    <3>2. PICK k \in 1..h[t] : u = <<t, k>> BY <3>1
    <3>3. f[t] \in Nat /\ g[t] \in Nat /\ h[t] = f[t] + g[t] OBVIOUS
    <3>4. CASE k <= f[t]
      <4>1. k \in 1..f[t] BY <3>3, <3>4
      <4> QED BY <3>2, <4>1, InUnits
    <3>5. CASE k > f[t]
      <4>1. k - f[t] \in 1..g[t] BY <3>3, <3>5
      <4>2. <<t, k - f[t]>> \in Units(g, S) BY <4>1, InUnits
      <4>3. u = <<t, f[t] + (k - f[t])>> BY <3>2, <3>3
      <4> QED BY <4>2, <4>3
    <3> QED BY <3>3, <3>4, <3>5
  <2>2. ASSUME NEW u \in Units(f, S) PROVE u \in Units(h, S)
    <3>1. PICK t \in S : \E k \in 1..f[t] : u = <<t, k>> BY <2>2, InUnits
    <3>2. PICK k \in 1..f[t] : u = <<t, k>> BY <3>1
    <3>3. f[t] \in Nat /\ g[t] \in Nat /\ h[t] = f[t] + g[t] OBVIOUS
    <3>4. k \in 1..h[t] BY <3>3
    <3> QED BY <3>2, <3>4, InUnits
  <2>3. ASSUME NEW v \in Units(g, S) PROVE <<v[1], f[v[1]] + v[2]>> \in Units(h, S)
    <3>1. PICK t \in S : \E k \in 1..g[t] : v = <<t, k>> BY <2>3, InUnits
    <3>2. PICK k \in 1..g[t] : v = <<t, k>> BY <3>1
    <3>3. f[t] \in Nat /\ g[t] \in Nat /\ h[t] = f[t] + g[t] OBVIOUS
    <3>4. f[t] + k \in 1..h[t] BY <3>3
    <3>5. <<t, f[t] + k>> \in Units(h, S) BY <3>4, InUnits
    <3> QED BY <3>2, <3>5
  <2> HIDE DEF h
  <2> QED BY <2>1, <2>2, <2>3
<1>4. Units(f, S) \cap B = {}
  <2>1. ASSUME NEW v \in Units(g, S), <<v[1], f[v[1]] + v[2]>> \in Units(f, S) PROVE FALSE
    <3>1. PICK t \in S : \E k \in 1..g[t] : v = <<t, k>> BY <2>1, InUnits
    <3>2. PICK k \in 1..g[t] : v = <<t, k>> BY <3>1
    <3>3. f[t] \in Nat /\ g[t] \in Nat OBVIOUS
    <3>4. <<t, f[t] + k>> \in Units(f, S) BY <2>1, <3>2
    <3>5. f[t] + k \in 1..f[t] BY <3>4, InUnits
    <3> QED BY <3>3, <3>5
  <2> QED BY <2>1
<1>5. IsFiniteSet(Units(f, S)) /\ IsFiniteSet(Units(g, S)) /\ Total(f, S) \in Nat /\ Total(g, S) \in Nat
  BY UnitsFinite
<1>6. IsFiniteSet(B) /\ Cardinality(B) = Cardinality(Units(g, S))
  <2> HIDE DEF m, B
  <2>1. ExistsBijection(Units(g, S), B) BY <1>2 DEF ExistsBijection
  <2> QED BY <1>5, <2>1, FS_Bijection
<1>7. Cardinality(Units(f, S) \cup B) = Cardinality(Units(f, S)) + Cardinality(B) - Cardinality({})
  <2> HIDE DEF B
  <2> QED BY <1>4, <1>5, <1>6, FS_Union
<1>8. Cardinality({}) = 0 BY FS_EmptySet
<1>9. Cardinality(Units(h, S)) = Cardinality(Units(f, S)) + Cardinality(Units(g, S))
  <2> HIDE DEF B, h
  <2>1. Cardinality(Units(f, S)) \in Nat /\ Cardinality(Units(g, S)) \in Nat BY <1>5 DEF Total
  <2> QED BY <1>3, <1>6, <1>7, <1>8, <2>1
<1> QED BY <1>9 DEF Total

\* Sums keep an inequality that holds on every token.
LEMMA Balance ==
    ASSUME NEW f \in [Tokens -> Nat], NEW g \in [Tokens -> Nat], NEW h \in [Tokens -> Nat],
           NEW k \in [Tokens -> Nat], NEW S \in SUBSET Tokens,
           \A t \in S : f[t] + g[t] <= h[t] + k[t]
    PROVE  Total(f, S) + Total(g, S) <= Total(h, S) + Total(k, S)
<1> DEFINE fg == [t \in Tokens |-> f[t] + g[t]]
           hk == [t \in Tokens |-> h[t] + k[t]]
<1>1. fg \in [Tokens -> Nat] /\ hk \in [Tokens -> Nat] OBVIOUS
<1>2. \A t \in S : fg[t] = 0 \/ (t \in S /\ fg[t] <= hk[t]) OBVIOUS
<1>3. Total(fg, S) <= Total(hk, S)
  <2> HIDE DEF fg, hk
  <2> QED BY <1>1, <1>2, Less
<1>4. Total(fg, S) = Total(f, S) + Total(g, S) /\ Total(hk, S) = Total(h, S) + Total(k, S) BY Sum
<1> QED BY <1>3, <1>4

\* At most one unit on each token of K and none elsewhere.
LEMMA Singles ==
    ASSUME NEW f \in [Tokens -> Nat], NEW S \in SUBSET Tokens, NEW K \in SUBSET Tokens,
           \A t \in S : f[t] = 0 \/ (t \in K /\ f[t] <= 1)
    PROVE  Total(f, S) <= Cardinality(K) /\ Cardinality(K) \in Nat
<1>1. IsFiniteSet(K) /\ Cardinality(K) \in Nat BY TailAssumption, FS_Subset, FS_CardinalityType
<1>2. IsFiniteSet({1}) /\ Cardinality({1}) = 1 BY FS_Singleton
<1>3. IsFiniteSet(K \X {1}) /\ Cardinality(K \X {1}) = Cardinality(K)
  <2>1. IsFiniteSet(K \X {1}) /\ Cardinality(K \X {1}) = Cardinality(K) * Cardinality({1})
    BY <1>1, <1>2, FS_Product
  <2> QED BY <1>1, <1>2, <2>1
<1>4. \A t \in S : \A k \in 1..f[t] : t \in K /\ k = 1
  <2> TAKE t \in S
  <2>1. f[t] \in Nat OBVIOUS
  <2> QED BY <2>1
<1>5. Units(f, S) \in SUBSET (K \X {1}) BY <1>4, InUnits
<1> QED BY <1>1, <1>3, <1>5, FS_Subset DEF Total

\* Sets of tokens are finite.
LEMMA TokenSets ==
    ASSUME NEW S \in SUBSET Tokens
    PROVE  /\ IsFiniteSet(S) /\ Cardinality(S) \in Nat
           /\ \A t \in S : Cardinality(S \ {t}) = Cardinality(S) - 1 /\ Cardinality(S) >= 1
           /\ \A T \in SUBSET S : Cardinality(T) <= Cardinality(S)
<1>1. IsFiniteSet(S) /\ Cardinality(S) \in Nat BY TailAssumption, FS_Subset, FS_CardinalityType
<1>2. ASSUME NEW t \in S PROVE Cardinality(S \ {t}) = Cardinality(S) - 1 /\ Cardinality(S) >= 1
  <2>1. Cardinality(S \ {t}) = Cardinality(S) - 1 BY <1>1, FS_RemoveElement
  <2>2. Cardinality(S) # 0 BY <1>1, FS_EmptySet
  <2> QED BY <1>1, <2>1, <2>2
<1> QED BY <1>1, <1>2, FS_Subset

-----------------------------------------------------------------------------
(* Types, and what is at rest.                                              *)

\* A row of the trades.
LEMMA Row ==
    ASSUME TypeOK, NEW i \in 1..Len(trades)
    PROVE  /\ trades[i].token \in Tokens /\ trades[i].maker \in BOOLEAN
           /\ Len(trades) \in Nat /\ i \in 0..Len(trades)
<1>1. trades \in Seq([token : Tokens, maker : BOOLEAN]) BY DEF TypeOK
<1>2. Len(trades) \in Nat BY <1>1
<1>3. trades[i] \in [token : Tokens, maker : BOOLEAN]
  <2>1. PICK R : R = [token : Tokens, maker : BOOLEAN] OBVIOUS
  <2>2. trades \in Seq(R) BY <1>1, <2>1
  <2>3. trades[i] \in R BY <2>2
  <2> QED BY <2>1, <2>3
<1> QED BY <1>2, <1>3

\* The rows and cursors stay within the trades, as these grow.
LEMMA Grown ==
    ASSUME TypeOK, NEW n \in Nat, n >= Len(trades)
    PROVE  /\ Len(trades) \in Nat /\ last \in 0..n /\ cursor \in 0..n
           /\ batch \subseteq 1..n /\ missed \subseteq 1..n
<1>1. /\ Len(trades) \in Nat /\ last \in 0..Len(trades) /\ cursor \in 0..Len(trades)
      /\ batch \subseteq 1..Len(trades) /\ missed \subseteq 1..Len(trades)
  <2>1. trades \in Seq([token : Tokens, maker : BOOLEAN]) BY DEF TypeOK
  <2>2. Len(trades) \in Nat BY <2>1
  <2> QED BY <2>2 DEF TypeOK
<1>2. 0..Len(trades) \subseteq 0..n /\ 1..Len(trades) \subseteq 1..n BY <1>1
<1> QED BY <1>1, <1>2

\* A new trade is the last row.
LEMMA NewRow ==
    ASSUME TypeOK, NEW t \in Tokens, NEW b \in BOOLEAN,
           trades' = Append(trades, [token |-> t, maker |-> b])
    PROVE  /\ trades' \in Seq([token : Tokens, maker : BOOLEAN]) /\ Len(trades) \in Nat
           /\ Len(trades') = Len(trades) + 1
           /\ \A i \in 1..Len(trades) : trades'[i] = trades[i]
           /\ trades'[Len(trades) + 1].token = t /\ trades'[Len(trades) + 1].maker = b
<1>1. [token |-> t, maker |-> b] \in [token : Tokens, maker : BOOLEAN] OBVIOUS
<1>2. trades \in Seq([token : Tokens, maker : BOOLEAN]) BY DEF TypeOK
<1> QED BY <1>1, <1>2

\* Every step keeps the types, and leaves nothing of a phase behind.
LEMMA TypeStep == TypeOK /\ RoundInv /\ [Next]_vars => TypeOK' /\ RoundInv'
<1> SUFFICES ASSUME TypeOK, RoundInv, [Next]_vars PROVE TypeOK' /\ RoundInv'
    OBVIOUS
<1>0. RejectLimit \in Nat \ {0} /\ Len(trades) \in Nat BY TailAssumption DEF TypeOK
<1>1. ASSUME NEW bad \in BOOLEAN, Fault(bad) PROVE faults' \in Nat
  BY <1>1 DEF Fault, TypeOK
<1>2. CASE UNCHANGED vars
  BY <1>2 DEF vars, world, ledger, round, counts, ghosts, TypeOK, RoundInv
<1>3. ASSUME NEW t \in Tokens, Fill(t) PROVE TypeOK' /\ RoundInv'
  <2>1. orders[t] \in Nat /\ pos[t] \in Nat /\ orders[t] > 0 BY <1>3 DEF Fill, TypeOK
  <2>2. orders' \in [Tokens -> Nat] /\ pos' \in [Tokens -> Nat] BY <1>3, <2>1 DEF Fill, TypeOK
  <2>3. trades' \in Seq([token : Tokens, maker : BOOLEAN]) /\ Len(trades') = Len(trades) + 1
    BY <1>3, NewRow DEF Fill
  <2>4. /\ last' \in 0..Len(trades') /\ cursor' \in 0..Len(trades') /\ batch' \subseteq 1..Len(trades')
        /\ missed' \subseteq 1..Len(trades') /\ slip' = slip
    <3>1. Len(trades') \in Nat /\ Len(trades') >= Len(trades) BY <1>0, <2>3
    <3>2. Len(trades) + 1 \in 1..Len(trades') BY <1>0, <2>3
    <3>3. missed' \subseteq missed \cup {Len(trades) + 1} /\ UNCHANGED <<last, cursor, batch, slip>>
      BY <1>3 DEF Fill, ledger, round
    <3> QED BY <3>1, <3>2, <3>3, Grown
  <2>5. UNCHANGED <<chain, held, known, pc, batch, toCancel, toPlace, cur, rejects, neterr, faults>>
    BY <1>3 DEF Fill, ledger, round, counts
  <2> QED BY <2>2, <2>3, <2>4, <2>5 DEF TypeOK, RoundInv
<1>4. ASSUME NEW t \in Tokens, Redeem(t) PROVE TypeOK' /\ RoundInv'
  BY <1>4 DEF Redeem, TypeOK, RoundInv, ledger, round, counts, ghosts
<1>5. CASE Settle BY <1>5 DEF Settle, TypeOK, RoundInv, ledger, round, counts, ghosts
<1>6. CASE Start
  <2>1. cursor' \in 0..Len(trades) /\ faults' \in Nat
    <3>1. PICK primed \in BOOLEAN : /\ Fault(~primed)
                                    /\ cursor' = IF primed THEN Len(trades) ELSE 0
      BY <1>6 DEF Start
    <3>2. faults' \in Nat BY <1>1, <3>1
    <3>3. cursor' = Len(trades) \/ cursor' = 0 BY <3>1
    <3> QED BY <1>0, <3>2, <3>3
  <2>2. pc' = "boot" /\ rejects' = 0 /\ neterr' = 0 /\ pc = "down" BY <1>6 DEF Start
  <2>3. UNCHANGED <<orders, pos, chain, trades, held, known, last, batch, toCancel, toPlace, cur, missed, slip>>
    BY <1>6 DEF Start, world, ledger, round, ghosts
  <2> QED BY <1>0, <2>1, <2>2, <2>3 DEF TypeOK, RoundInv, Places
<1>7. CASE Reconcile
  <2>1. PICK shown \in SUBSET Tokens, others \in 0..Others :
          LET reading == [t \in Tokens |-> IF t \in shown THEN chain[t] ELSE 0]
              real == [t \in Tokens |-> IF held[t] < pos[t] THEN held[t] ELSE pos[t]] IN
          /\ Fault(others < Others \/ \E t \in Tokens \ shown : chain[t] > 0)
          /\ held' = IF Cardinality(shown) + others >= MinShown THEN Reconciled(reading) ELSE held
          /\ Slips([t \in Tokens |-> IF held'[t] < real[t] THEN real[t] - held'[t] ELSE 0])
    BY <1>7 DEF Reconcile
  <2>2. [t \in Tokens |-> IF t \in shown THEN chain[t] ELSE 0] \in [Tokens -> Nat] BY DEF TypeOK
  <2>3. ASSUME NEW r \in [Tokens -> Nat] PROVE Reconciled(r) \in [Tokens -> Nat]
    BY DEF Reconciled, TypeOK
  <2>4. held' \in [Tokens -> Nat] /\ faults' \in Nat
    BY <1>1, <2>1, <2>2, <2>3 DEF TypeOK
  <2>7. slip' \in [Tokens -> Nat] /\ missed' = missed
    <3>1. missed' = missed /\ slip' = [t \in Tokens |-> slip[t] +
             [u \in Tokens |-> IF held'[u] < [v \in Tokens |-> IF held[v] < pos[v] THEN held[v] ELSE pos[v]][u]
                THEN [v \in Tokens |-> IF held[v] < pos[v] THEN held[v] ELSE pos[v]][u] - held'[u] ELSE 0][t]]
      BY <2>1 DEF Slips
    <3>2. slip' = [t \in Tokens |-> slip[t] +
             IF held'[t] < (IF held[t] < pos[t] THEN held[t] ELSE pos[t])
             THEN (IF held[t] < pos[t] THEN held[t] ELSE pos[t]) - held'[t] ELSE 0]
      BY <3>1
    <3>3. \A t \in Tokens : slip[t] \in Nat /\ held[t] \in Nat /\ pos[t] \in Nat /\ held'[t] \in Nat
      BY <2>4 DEF TypeOK
    <3> QED BY <3>1, <3>2, <3>3
  <2>5. pc \in {"boot", "top"} /\ pc' = IF pc = "boot" THEN "fetch" ELSE "poll"
    BY <1>7 DEF Reconcile
  <2>6. UNCHANGED <<orders, pos, chain, trades, known, last, cursor, batch, toCancel, toPlace, cur,
                    rejects, neterr>>
    BY <1>7 DEF Reconcile, world, round, counts
  <2> QED BY <2>4, <2>5, <2>6, <2>7 DEF TypeOK, RoundInv, Places
<1>9. CASE Fetch
  <2>1. faults' \in Nat BY <1>1, <1>9 DEF Fetch
  <2>2. batch' \subseteq 1..Len(trades)
    <3>1. batch' \subseteq (last + 1)..Len(trades) BY <1>9 DEF Fetch, Shown
    <3> QED BY <1>0, <3>1 DEF TypeOK
  <2>3. missed' \subseteq 1..Len(trades) /\ slip' = slip
    <3>1. /\ slip' = slip
          /\ \A i \in missed' : i \in missed \/ i \in (last + 1)..Len(trades) \/ i \in (last + 1)..cursor
      BY <1>9 DEF Fetch, Misses
    <3>2. (last + 1)..Len(trades) \subseteq 1..Len(trades) /\ (last + 1)..cursor \subseteq 1..Len(trades)
      BY <1>0 DEF TypeOK
    <3>3. missed \subseteq 1..Len(trades) BY DEF TypeOK
    <3> QED BY <3>1, <3>2, <3>3
  <2>4. pc = "fetch" /\ pc' = "recover" BY <1>9 DEF Fetch
  <2>5. UNCHANGED <<orders, pos, chain, trades, held, known, last, cursor, toCancel, toPlace, cur,
                    rejects, neterr>>
    BY <1>9 DEF Fetch, world, ledger, counts
  <2> QED BY <2>1, <2>2, <2>3, <2>4, <2>5 DEF TypeOK, RoundInv, Places
<1>10. CASE Recovered
  BY <1>10 DEF Recovered, TypeOK, RoundInv, Places, world, ledger, round, counts, ghosts
<1>11. CASE Poll
  <2>1. faults' \in Nat BY <1>1, <1>11 DEF Poll
  <2>2. batch' \subseteq 1..Len(trades) /\ cursor' \in 0..Len(trades)
    <3>1. batch' \subseteq (cursor + 1)..Len(trades) /\ (cursor' = Len(trades) \/ cursor' = cursor)
      BY <1>11 DEF Poll, Shown
    <3> QED BY <1>0, <3>1 DEF TypeOK
  <2>5. missed' \subseteq 1..Len(trades) /\ slip' = slip
    <3>1. slip' = slip /\ \A i \in missed' : i \in missed \/ i \in (cursor + 1)..Len(trades)
      BY <1>11 DEF Poll, Misses
    <3>2. (cursor + 1)..Len(trades) \subseteq 1..Len(trades) BY <1>0 DEF TypeOK
    <3>3. missed \subseteq 1..Len(trades) BY DEF TypeOK
    <3> QED BY <3>1, <3>2, <3>3
  <2>3. pc = "poll" /\ pc' = "fills" BY <1>11 DEF Poll
  <2>4. UNCHANGED <<orders, pos, chain, trades, held, known, last, toCancel, toPlace, cur,
                    rejects, neterr>>
    BY <1>11 DEF Poll, world, ledger, counts
  <2> QED BY <2>1, <2>2, <2>3, <2>4, <2>5 DEF TypeOK, RoundInv, Places
<1>12. CASE Ingest
  <2>1. PICK i \in batch : /\ batch' = batch \ {i} /\ last' = i
                           /\ held' = IF trades[i].token \in known
                                      THEN [held EXCEPT ![trades[i].token] = @ + 1] ELSE held
                           /\ Misses(IF trades[i].token \in known THEN {} ELSE {i})
    BY <1>12 DEF Ingest
  <2>2. i \in 1..Len(trades) /\ trades[i].token \in Tokens /\ i \in 0..Len(trades)
    <3>1. i \in 1..Len(trades) BY <2>1 DEF TypeOK
    <3> QED BY <3>1, Row
  <2>3. /\ held' \in [Tokens -> Nat] /\ missed' \subseteq 1..Len(trades) /\ slip' = slip
        /\ batch' \subseteq 1..Len(trades)
    <3>1. PICK t : t = trades[i].token OBVIOUS
    <3>2. held' \in [Tokens -> Nat]
      <4>1. held \in [Tokens -> Nat] /\ t \in Tokens BY <2>2, <3>1 DEF TypeOK
      <4>2. [held EXCEPT ![t] = @ + 1] \in [Tokens -> Nat] BY <4>1
      <4>3. held' = [held EXCEPT ![t] = @ + 1] \/ held' = held BY <2>1, <3>1
      <4> QED BY <4>1, <4>2, <4>3
    <3>3. slip' = slip /\ missed' \subseteq missed \cup {i} BY <2>1 DEF Misses
    <3> QED BY <2>1, <2>2, <3>2, <3>3 DEF TypeOK
  <2>4. pc \in {"recover", "fills"} BY <1>12 DEF Ingest
  <2>5. UNCHANGED <<orders, pos, chain, trades, known, pc, cursor, toCancel, toPlace, cur,
                    rejects, neterr, faults>>
    BY <1>12 DEF Ingest, world, counts
  <2> QED BY <2>1, <2>2, <2>3, <2>4, <2>5 DEF TypeOK, RoundInv
<1>13. CASE Plan
  <2>1. PICK listed \in BOOLEAN, keep \in SUBSET Tokens, place \in SUBSET Tokens, both \in SUBSET Tokens :
          /\ Fault(~listed)
          /\ toCancel' = ({t \in Tokens : listed /\ orders[t] > 0} \ keep) \cup both /\ toPlace' = place
          /\ missed' = missed \cup {i \in (cursor + 1)..Len(trades) : place # {}}
          /\ slip' = [t \in Tokens |-> slip[t] + IF place = {} \/ listed THEN 0 ELSE orders[t]]
    BY <1>13 DEF Plan
  <2>2. missed' \subseteq 1..Len(trades)
    <3>1. \A i \in (cursor + 1)..Len(trades) : i \in 1..Len(trades) BY <1>0 DEF TypeOK
    <3> QED BY <2>1, <3>1 DEF TypeOK
  <2>3. toCancel' \subseteq Tokens /\ toPlace' \subseteq Tokens /\ slip' \in [Tokens -> Nat]
    BY <2>1 DEF TypeOK
  <2>4. faults' \in Nat BY <1>1, <2>1
  <2>5. pc = "fills" /\ batch = {} /\ pc' = "exec" BY <1>13 DEF Plan
  <2>6. UNCHANGED <<orders, pos, chain, trades, held, known, last, cursor, batch, cur, rejects, neterr>>
    BY <1>13 DEF Plan, world, ledger, counts
  <2> QED BY <2>2, <2>3, <2>4, <2>5, <2>6 DEF TypeOK, RoundInv, Places
<1>14. CASE Register
  BY <1>14 DEF Register, TypeOK, RoundInv, Places, world, counts, ghosts
<1>15. CASE RoundEnd
  BY <1>15 DEF RoundEnd, TypeOK, RoundInv, Places, world, ledger, round, counts, ghosts
<1>16. CASE Abort
  BY <1>16 DEF Abort, TypeOK, RoundInv, Places, world, ledger, counts, ghosts
<1>17. CASE StopFile
  <2>1. faults' \in Nat /\ orders' \in [Tokens -> Nat]
    <3>1. PICK failed \in SUBSET Tokens :
            /\ Fault(failed # {})
            /\ orders' = [t \in Tokens |-> IF t \in failed THEN orders[t] ELSE 0]
      BY <1>17 DEF StopFile
    <3>2. faults' \in Nat BY <1>1, <3>1
    <3> QED BY <3>1, <3>2 DEF TypeOK
  <2>2. pc = "top" /\ pc' = "down" BY <1>17 DEF StopFile
  <2>3. UNCHANGED <<pos, chain, trades, held, known, last, cursor, batch, toCancel, toPlace, cur,
                    rejects, neterr, missed, slip>>
    BY <1>17 DEF StopFile, ledger, round, counts, ghosts
  <2> QED BY <2>1, <2>2, <2>3 DEF TypeOK, RoundInv, Places
<1>18. CASE Crash
  <2>1. faults' \in Nat BY <1>1, <1>18 DEF Crash
  <2> QED BY <1>18, <2>1 DEF Crash, TypeOK, RoundInv, Places, world, ledger, counts, ghosts
<1> DEFINE PlacedTypes ==
             /\ orders' \in [Tokens -> Nat] /\ pos' \in [Tokens -> Nat]
             /\ trades' \in Seq([token : Tokens, maker : BOOLEAN])
             /\ Len(trades') \in Nat /\ Len(trades') >= Len(trades)
             /\ missed' \subseteq 1..Len(trades')
<1>20. ASSUME NEW t \in Tokens, Rests(t) \/ Crosses(t) PROVE PlacedTypes
  <2>1. CASE Rests(t)
    <3>1. Len(trades) \in Nat /\ Len(trades) >= Len(trades) BY <1>0
    <3>2. orders' \in [Tokens -> Nat] BY <2>1 DEF Rests, TypeOK
    <3> QED BY <2>1, <3>1, <3>2 DEF Rests, TypeOK
  <2>2. CASE Crosses(t)
    <3>1. trades' \in Seq([token : Tokens, maker : BOOLEAN]) /\ Len(trades') = Len(trades) + 1
      BY <2>2, NewRow DEF Crosses
    <3>2. missed' \subseteq 1..Len(trades')
      <4>1. Len(trades') \in Nat /\ Len(trades') >= Len(trades) /\ Len(trades) + 1 \in 1..Len(trades')
        BY <1>0, <3>1
      <4>2. missed' = missed \cup {Len(trades) + 1} BY <2>2 DEF Crosses
      <4> QED BY <4>1, <4>2, Grown
    <3>3. pos' \in [Tokens -> Nat] /\ orders' \in [Tokens -> Nat] BY <2>2 DEF Crosses, TypeOK
    <3> QED BY <1>0, <3>1, <3>2, <3>3
  <2> QED BY <1>20, <2>1, <2>2
<1>19. ASSUME NEW t \in Tokens, Execute(t) PROVE TypeOK' /\ RoundInv'
  <2>1. CASE Cancel(t)
    <3>1. faults' \in Nat BY <1>1, <2>1 DEF Cancel
    <3>2. orders' \in [Tokens -> Nat] /\ slip' \in [Tokens -> Nat] /\ missed' = missed
      BY <1>19, <2>1 DEF Cancel, Slips, TypeOK
    <3> QED BY <2>1, <3>1, <3>2 DEF Cancel, TypeOK, RoundInv, ledger, counts
  <2>2. CASE WouldCross(t)
    BY <2>2 DEF WouldCross, Due, TypeOK, RoundInv, world, ledger, counts, ghosts
  <2>3. CASE PlaceAccepted(t)
    <3>1. PlacedTypes BY <2>3, <1>20 DEF PlaceAccepted
    <3>2. rejects' = 0 /\ neterr' = 0 /\ cur' = {t} /\ toPlace' = toPlace \ {t}
      BY <2>3 DEF PlaceAccepted
    <3>3. pc = "exec" /\ pc' = "placed" BY <2>3 DEF PlaceAccepted, Due
    <3>4. UNCHANGED <<chain, held, known, last, cursor, batch, toCancel, slip, faults>>
      BY <2>3 DEF PlaceAccepted, ledger
    <3>5. rejects' \in 0..RejectLimit /\ rejects' < RejectLimit /\ neterr' \in Nat BY <1>0, <3>2
    <3>6. last \in 0..Len(trades') /\ cursor \in 0..Len(trades') /\ batch \subseteq 1..Len(trades')
      BY <1>0, <3>1 DEF TypeOK
    <3> QED BY <3>1, <3>2, <3>3, <3>4, <3>5, <3>6 DEF TypeOK, RoundInv, Places
  <2>4. CASE PlaceTransient(t)
    <3>1. faults' \in Nat BY <1>1, <2>4 DEF PlaceTransient
    <3>2. PlacedTypes
      <4>1. CASE UNCHANGED <<orders, pos, trades, missed>>
        <5>1. Len(trades) \in Nat /\ Len(trades) >= Len(trades) BY <1>0
        <5> QED BY <4>1, <5>1 DEF TypeOK
      <4> QED BY <2>4, <1>20, <4>1 DEF PlaceTransient
    <3>3. neterr' \in Nat BY <2>4 DEF PlaceTransient, TypeOK
    <3>4. toPlace' \subseteq Tokens BY <2>4 DEF PlaceTransient, TypeOK
    <3>5. UNCHANGED <<chain, held, known, last, pc, cursor, batch, toCancel, cur, rejects, slip>>
          /\ pc = "exec"
      BY <2>4 DEF PlaceTransient, Due, ledger
    <3>6. last \in 0..Len(trades') /\ cursor \in 0..Len(trades') /\ batch \subseteq 1..Len(trades')
      BY <1>0, <3>2 DEF TypeOK
    <3> QED BY <3>1, <3>2, <3>3, <3>4, <3>5, <3>6 DEF TypeOK, RoundInv
  <2>5. CASE PlaceRejected(t)
    <3>1. pc = "exec" /\ toCancel = {} BY <2>5 DEF PlaceRejected, Due
    <3>2. rejects \in Nat /\ rejects < RejectLimit BY <1>0, <3>1 DEF TypeOK, RoundInv
    <3>3. rejects' \in 0..RejectLimit /\ neterr' = 0 BY <1>0, <2>5, <3>2 DEF PlaceRejected
    <3>4. \/ pc' = "down" /\ toPlace' = {}
          \/ pc' = pc /\ rejects' < RejectLimit /\ toPlace' = toPlace \ {t}
      BY <1>0, <2>5, <3>2, <3>3 DEF PlaceRejected
    <3>5. UNCHANGED <<orders, pos, chain, trades, held, known, last, cursor, batch, toCancel, cur, missed, slip,
                      faults>>
      BY <2>5 DEF PlaceRejected, world, ledger, ghosts
    <3> QED BY <3>1, <3>3, <3>4, <3>5 DEF TypeOK, RoundInv, Places
  <2> QED BY <1>19, <2>1, <2>2, <2>3, <2>4, <2>5 DEF Execute
<1> QED BY <1>2, <1>3, <1>4, <1>5, <1>6, <1>7, <1>9, <1>10, <1>11, <1>12, <1>13, <1>14, <1>15,
           <1>16, <1>17, <1>18, <1>19 DEF Next, Process

-----------------------------------------------------------------------------
(* The ledger sees every position, or it was missed.                        *)

\* Sets of rows are finite.
LEMMA RowSets ==
    ASSUME NEW n \in Nat, NEW D \in SUBSET (1..n)
    PROVE  IsFiniteSet(D) /\ Cardinality(D) \in Nat
<1>1. IsFiniteSet(1..n) BY FS_Interval
<1> QED BY <1>1, FS_Subset, FS_CardinalityType

\* The numbers SightInv speaks of, in both states of a step.
LEMMA SightTypes ==
    ASSUME TypeOK, TypeOK', NEW t \in Tokens
    PROVE  /\ Len(trades) \in Nat /\ Dark(t) \in SUBSET (1..Len(trades))
           /\ IsFiniteSet(Dark(t)) /\ Cardinality(Dark(t)) \in Nat
           /\ Len(trades') \in Nat /\ Dark(t)' \in SUBSET (1..Len(trades'))
           /\ IsFiniteSet(Dark(t)') /\ Cardinality(Dark(t)') \in Nat
           /\ orders[t] \in Nat /\ pos[t] \in Nat /\ held[t] \in Nat /\ slip[t] \in Nat /\ Blind(t) \in Nat
           /\ orders'[t] \in Nat /\ pos'[t] \in Nat /\ held'[t] \in Nat /\ slip'[t] \in Nat
           /\ Blind(t)' \in Nat
<1>1. trades \in Seq([token : Tokens, maker : BOOLEAN]) /\ trades' \in Seq([token : Tokens, maker : BOOLEAN])
  BY DEF TypeOK
<1>2. Len(trades) \in Nat /\ Len(trades') \in Nat BY <1>1
<1>3. Dark(t) \in SUBSET (1..Len(trades))
  <2>0. last \in 0..Len(trades) /\ missed \subseteq 1..Len(trades) BY DEF TypeOK
  <2>1. (last + 1)..Len(trades) \subseteq 1..Len(trades) /\ missed \subseteq 1..Len(trades)
    BY <1>2, <2>0
  <2> QED BY <2>1 DEF Dark, Unread
<1>4. Dark(t)' \in SUBSET (1..Len(trades'))
  <2>0. last' \in 0..Len(trades') /\ missed' \subseteq 1..Len(trades') BY DEF TypeOK
  <2>1. (last' + 1)..Len(trades') \subseteq 1..Len(trades') /\ missed' \subseteq 1..Len(trades')
    BY <1>2, <2>0
  <2> QED BY <2>1 DEF Dark, Unread
<1>5. orders[t] \in Nat /\ pos[t] \in Nat /\ held[t] \in Nat /\ slip[t] \in Nat
  BY DEF TypeOK
<1>6. orders'[t] \in Nat /\ pos'[t] \in Nat /\ held'[t] \in Nat /\ slip'[t] \in Nat
  BY DEF TypeOK
<1>7. Blind(t) \in Nat /\ Blind(t)' \in Nat BY <1>5, <1>6 DEF Blind
<1> QED BY <1>2, <1>3, <1>4, <1>5, <1>6, <1>7, RowSets

\* No row leaves the dark in a step that keeps the trades and reads or misses the rest.
LEMMA DarkKept ==
    ASSUME TypeOK, TypeOK', UNCHANGED trades, missed \subseteq missed', Unread \subseteq Unread' \cup missed',
           NEW t \in Tokens
    PROVE  Dark(t) \in SUBSET Dark(t)' /\ Cardinality(Dark(t)) <= Cardinality(Dark(t)')
<1>1. Dark(t) \in SUBSET Dark(t)' BY DEF Dark
<1> QED BY <1>1, SightTypes, FS_Subset

\* A step that adds no position, keeps the ledger and pays for the orders it hides.
LEMMA SightKept ==
    ASSUME TypeOK, TypeOK', SightInv,
           UNCHANGED trades, missed \subseteq missed', Unread \subseteq Unread' \cup missed',
           \A t \in Tokens : /\ Blind(t)' + slip[t] <= Blind(t) + slip'[t]
                             /\ pos'[t] <= pos[t] /\ held'[t] >= held[t]
    PROVE  SightInv'
<1> SUFFICES ASSUME NEW t \in Tokens
             PROVE  /\ Blind(t)' <= slip'[t]
                    /\ Blind(t)' + pos'[t] <= held'[t] + Cardinality(Dark(t)') + slip'[t]
    BY DEF SightInv
<1>1. PICK c, c1, b, b1 : /\ c = Cardinality(Dark(t)) /\ c1 = Cardinality(Dark(t)')
                          /\ b = Blind(t) /\ b1 = Blind(t)'
  OBVIOUS
<1>2. /\ c \in Nat /\ c1 \in Nat /\ b \in Nat /\ b1 \in Nat
      /\ pos[t] \in Nat /\ held[t] \in Nat /\ slip[t] \in Nat
      /\ pos'[t] \in Nat /\ held'[t] \in Nat /\ slip'[t] \in Nat
  BY <1>1, SightTypes
<1>3. c <= c1 BY <1>1, DarkKept
<1>4. b <= slip[t] /\ b + pos[t] <= held[t] + c + slip[t] BY <1>1 DEF SightInv
<1>5. b1 + slip[t] <= b + slip'[t] /\ pos'[t] <= pos[t] /\ held'[t] >= held[t] BY <1>1
<1>6. b1 <= slip'[t] /\ b1 + pos'[t] <= held'[t] + c1 + slip'[t] BY <1>2, <1>3, <1>4, <1>5
<1> QED BY <1>1, <1>6

\* Arithmetic: one position more is paid for by one row more.
LEMMA Shift ==
    ASSUME NEW d \in Nat, NEW d1 \in Nat, NEW x \in Nat, NEW y \in Nat, NEW z \in Nat,
           NEW m \in Nat, NEW m1 \in Nat, d <= z, d + x <= y + m + z, d1 <= d
    PROVE  /\ m <= m1 => d1 <= z /\ d1 + x <= y + m1 + z
           /\ m + 1 <= m1 => d1 <= z /\ d1 + (x + 1) <= y + m1 + z
OBVIOUS

\* A new trade is a position and a row in the dark.
LEMMA SightTrade ==
    ASSUME TypeOK, TypeOK', SightInv, NEW t \in Tokens, NEW b \in BOOLEAN,
           trades' = Append(trades, [token |-> t, maker |-> b]), pos' = [pos EXCEPT ![t] = @ + 1],
           UNCHANGED <<held, last, cursor, batch, slip>>,
           (pc \in {"down", "boot", "fetch"} => pc' \in {"down", "boot", "fetch"}),
           missed \subseteq missed', b \/ Len(trades) + 1 \in missed',
           \A u \in Tokens : Blind(u)' <= Blind(u)
    PROVE  SightInv'
<1>1. PICK n : n = Len(trades) OBVIOUS
<1>2. /\ n \in Nat /\ Len(trades') = n + 1 /\ \A i \in 1..n : trades'[i] = trades[i]
      /\ trades'[n + 1].token = t /\ trades'[n + 1].maker = b
  BY <1>1, NewRow
<1>3. last \in 0..n /\ cursor \in 0..n /\ batch \subseteq 1..n /\ missed \subseteq 1..n
  <2>1. n \in Nat /\ n >= Len(trades) BY <1>1, <1>2
  <2> QED BY <2>1, Grown
<1>4. n + 1 \in Unread' \cup missed'
  <2>1. n + 1 \in (last' + 1)..Len(trades') /\ n + 1 > cursor' BY <1>2, <1>3
  <2>2. \A j \in batch' : j < n + 1 BY <1>2, <1>3
  <2>3. CASE b BY <1>2, <2>1, <2>2, <2>3 DEF Unread
  <2>4. CASE ~b BY <1>1, <2>4
  <2> QED BY <2>3, <2>4
<1>5. ASSUME NEW i \in Unread \cup missed PROVE i \in 1..n /\ i \in Unread' \cup missed'
  <2>1. CASE i \in missed BY <1>3, <2>1
  <2>2. CASE i \in Unread
    <3>1. i \in (last + 1)..n /\ trades[i].maker BY <1>1, <2>2 DEF Unread
    <3>2. i \in 1..n /\ i \in (last' + 1)..Len(trades') BY <1>2, <1>3, <3>1
    <3>3. trades'[i].maker BY <1>2, <3>1, <3>2
    <3>4. pc' \notin {"down", "boot", "fetch"} => i \in batch' \/ (i > cursor' /\ \A j \in batch' : j < i)
      BY <2>2 DEF Unread
    <3> QED BY <3>2, <3>3, <3>4 DEF Unread
  <2> QED BY <1>5, <2>1, <2>2
<1> SUFFICES ASSUME NEW u \in Tokens
             PROVE  /\ Blind(u)' <= slip'[u]
                    /\ Blind(u)' + pos'[u] <= held'[u] + Cardinality(Dark(u)') + slip'[u]
    BY DEF SightInv
<1>6. PICK c, c1, d, d1 : /\ c = Cardinality(Dark(u)) /\ c1 = Cardinality(Dark(u)')
                          /\ d = Blind(u) /\ d1 = Blind(u)'
  OBVIOUS
<1>7. /\ c \in Nat /\ c1 \in Nat /\ d \in Nat /\ d1 \in Nat /\ IsFiniteSet(Dark(u)) /\ IsFiniteSet(Dark(u)')
      /\ pos[u] \in Nat /\ held[u] \in Nat /\ slip[u] \in Nat
  BY <1>6, SightTypes
<1>8. d <= slip[u] /\ d + pos[u] <= held[u] + c + slip[u] /\ d1 <= d
  <2>1. d <= slip[u] /\ d + pos[u] <= held[u] + c + slip[u] BY <1>6 DEF SightInv
  <2>2. d1 <= d BY <1>6
  <2> QED BY <2>1, <2>2
<1>9. Dark(u) \in SUBSET Dark(u)' BY <1>2, <1>5 DEF Dark
<1>10. CASE u = t
  <2>1. Dark(u) \cup {n + 1} \in SUBSET Dark(u)' BY <1>2, <1>4, <1>9, <1>10 DEF Dark
  <2>2. n + 1 \notin Dark(u) BY <1>2, <1>5 DEF Dark
  <2>3. Cardinality(Dark(u) \cup {n + 1}) = c + 1 BY <1>6, <1>7, <2>2, FS_AddElement
  <2>4. c + 1 <= c1 BY <1>6, <1>7, <2>1, <2>3, FS_Subset
  <2>5. pos'[u] = pos[u] + 1 /\ held'[u] = held[u] /\ slip'[u] = slip[u] BY <1>10 DEF TypeOK
  <2>6. d1 <= slip[u] /\ d1 + (pos[u] + 1) <= held[u] + c1 + slip[u]
    BY <1>7, <1>8, <2>4, Shift
  <2> QED BY <1>6, <2>5, <2>6
<1>11. CASE u # t
  <2>1. c <= c1 BY <1>6, <1>7, <1>9, FS_Subset
  <2>2. pos'[u] = pos[u] /\ held'[u] = held[u] /\ slip'[u] = slip[u] BY <1>11 DEF TypeOK
  <2>3. d1 <= slip[u] /\ d1 + pos[u] <= held[u] + c1 + slip[u]
    BY <1>7, <1>8, <2>1, Shift
  <2> QED BY <1>6, <2>2, <2>3
<1> QED BY <1>10, <1>11

\* A trade moves from the batch into the ledger, the only row the ledger's cursor
\* passes; one it takes for another strategy's is missed.
LEMMA SightIngest ==
    ASSUME TypeOK, TypeOK', SightInv, Ingest
    PROVE  SightInv'
<1>1. PICK i \in batch : /\ \A k \in batch : i <= k
                         /\ batch' = batch \ {i} /\ last' = i
                         /\ held' = IF trades[i].token \in known
                                    THEN [held EXCEPT ![trades[i].token] = @ + 1] ELSE held
                         /\ Misses(IF trades[i].token \in known THEN {} ELSE {i})
  BY DEF Ingest
<1>2. /\ pc \in {"recover", "fills"} /\ UNCHANGED <<orders, pos, trades, pc, cursor, toCancel, toPlace>>
      /\ slip' = slip /\ missed \subseteq missed'
  BY <1>1 DEF Ingest, world, Misses
<1>3. i \in 1..Len(trades) /\ batch \subseteq 1..Len(trades) BY <1>1 DEF TypeOK
<1>4. i \in Nat /\ Len(trades) \in Nat /\ last \in Nat
  <2>1. Len(trades) \in Nat BY <1>3, Row
  <2>2. last \in 0..Len(trades) BY DEF TypeOK
  <2> QED BY <1>3, <2>1, <2>2
<1>5. ASSUME NEW k \in Unread, k # i PROVE k \in Unread'
  <2>1. k \in (last + 1)..Len(trades) /\ trades[k].maker BY DEF Unread
  <2>2. k \in Int BY <2>1
  <2>3. CASE k \in batch
    <3>1. k > i BY <1>1, <1>4, <1>5, <2>2, <2>3
    <3>2. k \in (i + 1)..Len(trades) BY <1>4, <2>1, <3>1
    <3> QED BY <1>1, <1>2, <1>5, <2>1, <2>3, <3>2 DEF Unread
  <2>4. CASE k > cursor /\ \A j \in batch : j < k
    <3>1. k > i BY <1>1, <2>4
    <3>2. k \in (i + 1)..Len(trades) BY <1>4, <2>1, <3>1
    <3> QED BY <1>1, <1>2, <2>1, <2>4, <3>2 DEF Unread
  <2> QED BY <1>2, <2>3, <2>4 DEF Unread
<1> SUFFICES ASSUME NEW u \in Tokens
             PROVE  /\ Blind(u)' <= slip'[u]
                    /\ Blind(u)' + pos'[u] <= held'[u] + Cardinality(Dark(u)') + slip'[u]
    BY DEF SightInv
<1>6. PICK c, c1, d : /\ c = Cardinality(Dark(u)) /\ c1 = Cardinality(Dark(u)') /\ d = Blind(u)
  OBVIOUS
<1>7. /\ c \in Nat /\ c1 \in Nat /\ d \in Nat /\ IsFiniteSet(Dark(u)) /\ IsFiniteSet(Dark(u)')
      /\ pos[u] \in Nat /\ held[u] \in Nat /\ slip[u] \in Nat
  BY <1>6, SightTypes
<1>8. d <= slip[u] /\ d + pos[u] <= held[u] + c + slip[u] BY <1>6 DEF SightInv
<1>9. Blind(u)' = d /\ pos'[u] = pos[u] /\ slip'[u] = slip[u] BY <1>2, <1>6 DEF Blind
<1>10. CASE u = trades[i].token /\ u \in known
  <2>1. held'[u] = held[u] + 1 BY <1>1, <1>10 DEF TypeOK
  <2>2. Dark(u) \ {i} \in SUBSET Dark(u)' BY <1>2, <1>5 DEF Dark
  <2>3. /\ IsFiniteSet(Dark(u) \ {i})
        /\ Cardinality(Dark(u) \ {i}) = IF i \in Dark(u) THEN c - 1 ELSE c
    BY <1>6, <1>7, FS_RemoveElement
  <2>4. Cardinality(Dark(u) \ {i}) <= c1 BY <1>6, <1>7, <2>2, FS_Subset
  <2>5. c - 1 <= c1 BY <1>7, <2>3, <2>4
  <2>6. d + pos[u] <= (held[u] + 1) + c1 + slip[u] BY <1>7, <1>8, <2>5
  <2> QED BY <1>6, <1>8, <1>9, <2>1, <2>6
<1>11. CASE u # trades[i].token \/ u \notin known
  <2>1. held'[u] = held[u] BY <1>1, <1>11 DEF TypeOK
  <2>2. Dark(u) \in SUBSET Dark(u)'
    <3>1. ASSUME NEW k \in Dark(u) PROVE k \in Dark(u)'
      <4>1. k \in Unread \cup missed /\ trades[k].token = u BY DEF Dark
      <4>2. CASE k # i BY <1>2, <1>5, <4>1, <4>2 DEF Dark
      <4>3. CASE k = i
        <5>1. u = trades[i].token /\ u \notin known BY <1>11, <4>1, <4>3
        <5>2. i \in missed \/ trades[i].maker BY <4>1, <4>3 DEF Unread
        <5>3. i \in missed' BY <1>1, <5>1, <5>2 DEF Misses
        <5> QED BY <1>2, <4>1, <4>3, <5>3 DEF Dark
      <4> QED BY <4>2, <4>3
    <3> QED BY <3>1
  <2>3. c <= c1 BY <1>6, <1>7, <2>2, FS_Subset
  <2>4. d + pos[u] <= held[u] + c1 + slip[u] BY <1>7, <1>8, <2>3
  <2> QED BY <1>6, <1>8, <1>9, <2>1, <2>4
<1> QED BY <1>10, <1>11

\* A release pays for the positions that are still held.
LEMMA SightReconcile ==
    ASSUME TypeOK, TypeOK', RoundInv, SightInv, Reconcile
    PROVE  SightInv'
<1>1. /\ UNCHANGED <<orders, pos, trades, last, cursor, batch, toCancel, toPlace, missed>>
      /\ pc \in {"boot", "top"} /\ pc' = IF pc = "boot" THEN "fetch" ELSE "poll"
  BY DEF Reconcile, world, round, Slips
<1>2. Unread' = Unread BY <1>1 DEF Unread
<1>3. slip' = [t \in Tokens |-> slip[t] +
         IF held'[t] < (IF held[t] < pos[t] THEN held[t] ELSE pos[t])
         THEN (IF held[t] < pos[t] THEN held[t] ELSE pos[t]) - held'[t] ELSE 0]
  <2>1. slip' = [t \in Tokens |-> slip[t] +
           [u \in Tokens |-> IF held'[u] < [v \in Tokens |-> IF held[v] < pos[v] THEN held[v] ELSE pos[v]][u]
              THEN [v \in Tokens |-> IF held[v] < pos[v] THEN held[v] ELSE pos[v]][u] - held'[u] ELSE 0][t]]
    BY DEF Reconcile, Slips
  <2> QED BY <2>1
<1> SUFFICES ASSUME NEW t \in Tokens
             PROVE  /\ Blind(t)' <= slip'[t]
                    /\ Blind(t)' + pos'[t] <= held'[t] + Cardinality(Dark(t)') + slip'[t]
    BY DEF SightInv
<1>4. PICK c, d : c = Cardinality(Dark(t)) /\ d = Blind(t) OBVIOUS
<1>5. Dark(t)' = Dark(t) /\ Blind(t)' = d /\ pos'[t] = pos[t] BY <1>1, <1>2, <1>4 DEF Dark, Blind
<1>6. /\ c \in Nat /\ d \in Nat /\ pos[t] \in Nat /\ held[t] \in Nat /\ slip[t] \in Nat /\ held'[t] \in Nat
  BY <1>4, SightTypes
<1>7. d <= slip[t] /\ d + pos[t] <= held[t] + c + slip[t] BY <1>4 DEF SightInv
<1>8. slip'[t] = slip[t] + IF held'[t] < (IF held[t] < pos[t] THEN held[t] ELSE pos[t])
                           THEN (IF held[t] < pos[t] THEN held[t] ELSE pos[t]) - held'[t] ELSE 0
  BY <1>3
<1>9. d <= slip'[t] /\ d + pos[t] <= held'[t] + c + slip'[t]
  <2>1. PICK p, h, h1, z, z1 : /\ p = pos[t] /\ h = held[t] /\ h1 = held'[t]
                               /\ z = slip[t] /\ z1 = slip'[t]
    OBVIOUS
  <2>2. z1 = z + IF h1 < (IF h < p THEN h ELSE p) THEN (IF h < p THEN h ELSE p) - h1 ELSE 0
    BY <1>8, <2>1
  <2>3. d <= z1 /\ d + p <= h1 + c + z1 BY <1>6, <1>7, <2>1, <2>2
  <2> QED BY <2>1, <2>3
<1> QED BY <1>4, <1>5, <1>9

\* What a plan does.
LEMMA Planned ==
    ASSUME Plan
    PROVE  \E listed \in BOOLEAN, keep \in SUBSET Tokens, place \in SUBSET Tokens, both \in SUBSET Tokens :
             /\ \A t \in keep : listed /\ orders[t] > 0
             /\ \A t \in place : t \notin keep
             /\ \A t \in both : t \in keep
             /\ Affordable(place, keep)
             /\ toCancel' = ({t \in Tokens : listed /\ orders[t] > 0} \ keep) \cup both /\ toPlace' = place
             /\ missed' = missed \cup {i \in (cursor + 1)..Len(trades) : place # {}}
             /\ slip' = [t \in Tokens |-> slip[t] + IF place = {} \/ listed THEN 0 ELSE orders[t]]
<1> DEFINE open(listed) == {t \in Tokens : listed /\ orders[t] > 0}
           body(listed, keep, place, both) ==
             /\ Fault(~listed)
             /\ Affordable(place, keep)
             /\ toCancel' = (open(listed) \ keep) \cup both /\ toPlace' = place
             /\ missed' = missed \cup {i \in (cursor + 1)..Len(trades) : place # {}}
             /\ slip' = [t \in Tokens |-> slip[t] + IF place = {} \/ listed THEN 0 ELSE orders[t]]
<1>1. \E listed \in BOOLEAN : \E keep \in SUBSET open(listed) :
        \E place \in SUBSET (Tokens \ keep), both \in SUBSET {t \in keep : orders[t] > 1} :
          body(listed, keep, place, both)
  BY DEF Plan
<1>2. PICK listed \in BOOLEAN : \E keep \in SUBSET open(listed) :
        \E place \in SUBSET (Tokens \ keep), both \in SUBSET {t \in keep : orders[t] > 1} :
          body(listed, keep, place, both)
  <2> HIDE DEF body, open
  <2> QED BY <1>1
<1>3. PICK keep \in SUBSET open(listed) :
        \E place \in SUBSET (Tokens \ keep), both \in SUBSET {t \in keep : orders[t] > 1} :
          body(listed, keep, place, both)
  <2> HIDE DEF body, open
  <2> QED BY <1>2
<1>4. PICK place \in SUBSET (Tokens \ keep), both \in SUBSET {t \in keep : orders[t] > 1} :
          body(listed, keep, place, both)
  <2> HIDE DEF body, open
  <2> QED BY <1>3
<1>5. /\ keep \in SUBSET Tokens /\ place \in SUBSET Tokens /\ both \in SUBSET Tokens
      /\ \A t \in keep : listed /\ orders[t] > 0
      /\ \A t \in place : t \notin keep
      /\ \A t \in both : t \in keep
  <2> HIDE DEF body
  <2> QED BY <1>3, <1>4
<1> QED BY <1>4, <1>5

\* Every step keeps the positions and the orders in sight, or they are missed or slip.
LEMMA SightStep ==
    TypeOK /\ TypeOK' /\ RoundInv /\ SightInv /\ [Next]_vars => SightInv'
<1> SUFFICES ASSUME TypeOK, TypeOK', RoundInv, SightInv, [Next]_vars
             PROVE  SightInv'
    OBVIOUS
<1>0. \A t \in Tokens : /\ orders[t] \in Nat /\ pos[t] \in Nat /\ held[t] \in Nat /\ slip[t] \in Nat
                        /\ Blind(t) \in Nat /\ Blind(t)' \in Nat
  BY SightTypes
<1>1. ASSUME UNCHANGED <<trades, last>>,
             \/ pc' \in {"down", "boot", "fetch"}
             \/ UNCHANGED <<cursor, batch>> /\ pc \notin {"down", "boot", "fetch"}
      PROVE  Unread \subseteq Unread'
  BY <1>1 DEF Unread
<1>2. ASSUME UNCHANGED <<orders, pos, trades, held, slip>>, missed \subseteq missed',
             toPlace' \ toCancel' \subseteq toPlace \ toCancel, Unread \subseteq Unread' \cup missed'
      PROVE  SightInv'
  <2>1. ASSUME NEW t \in Tokens
        PROVE  Blind(t)' + slip[t] <= Blind(t) + slip'[t] /\ pos'[t] <= pos[t] /\ held'[t] >= held[t]
    <3>1. Blind(t)' <= Blind(t) BY <1>0, <1>2 DEF Blind
    <3> QED BY <1>0, <1>2, <3>1
  <2> QED BY <1>2, <2>1, SightKept
<1>3. ASSUME UNCHANGED <<orders, pos, trades, held, last, missed, slip>>,
             toPlace' \ toCancel' \subseteq toPlace \ toCancel,
             \/ pc' \in {"down", "boot", "fetch"}
             \/ UNCHANGED <<cursor, batch>> /\ pc \notin {"down", "boot", "fetch"}
      PROVE  SightInv'
  BY <1>1, <1>2, <1>3
<1>4. CASE UNCHANGED vars
  <2>1. UNCHANGED <<orders, pos, trades, held, last, pc, cursor, batch, toCancel, toPlace, missed, slip>>
    BY <1>4 DEF vars, world, ledger, round, ghosts
  <2> QED BY <1>3, <2>1
<1>5. ASSUME NEW t \in Tokens, Fill(t) PROVE SightInv'
  <2>1. /\ trades' = Append(trades, [token |-> t, maker |-> TRUE]) /\ pos' = [pos EXCEPT ![t] = @ + 1]
        /\ orders' = [orders EXCEPT ![t] = @ - 1] /\ orders[t] > 0
        /\ UNCHANGED <<held, last, pc, cursor, batch, toCancel, toPlace, slip>> /\ missed \subseteq missed'
    BY <1>5 DEF Fill, ledger, round
  <2>2. ASSUME NEW u \in Tokens PROVE Blind(u)' <= Blind(u)
    <3>1. orders'[u] = IF u = t THEN orders[u] - 1 ELSE orders[u] BY <2>1 DEF TypeOK
    <3> QED BY <1>0, <2>1, <3>1 DEF Blind
  <2> QED BY <2>1, <2>2, SightTrade
<1>6. ASSUME NEW t \in Tokens, Redeem(t) PROVE SightInv'
  <2>1. UNCHANGED <<orders, trades, held, last, pc, cursor, batch, toCancel, toPlace, missed, slip>>
    BY <1>6 DEF Redeem, ledger, round, ghosts
  <2>2. Unread \subseteq Unread' BY <2>1 DEF Unread
  <2>3. ASSUME NEW u \in Tokens
        PROVE  Blind(u)' + slip[u] <= Blind(u) + slip'[u] /\ pos'[u] <= pos[u] /\ held'[u] >= held[u]
    <3>1. pos'[u] = pos[u] \/ pos'[u] = 0 BY <1>6 DEF Redeem, TypeOK
    <3>2. Blind(u)' = Blind(u) BY <2>1 DEF Blind
    <3> QED BY <1>0, <2>1, <3>1, <3>2
  <2> QED BY <2>1, <2>2, <2>3, SightKept
<1>7. CASE Settle
  <2>1. UNCHANGED <<orders, pos, trades, held, last, pc, cursor, batch, toCancel, toPlace, missed, slip>>
    BY <1>7 DEF Settle, ledger, round, ghosts
  <2> QED BY <1>3, <2>1
<1>8. CASE Start BY <1>3, <1>8 DEF Start, world, ledger, round, ghosts
<1>9. CASE Reconcile BY <1>9, SightReconcile
<1>10. CASE Fetch
  <2>1. /\ pc = "fetch" /\ pc' = "recover"
        /\ UNCHANGED <<orders, pos, trades, held, last, cursor, toCancel, toPlace, slip>>
        /\ missed \subseteq missed'
    BY <1>10 DEF Fetch, world, ledger, Misses
  <2>2. PICK fetched \in BOOLEAN :
          /\ batch' = IF fetched THEN Shown(last) ELSE {}
          /\ Misses(IF fetched THEN ((last + 1)..Len(trades)) \ Shown(last) ELSE (last + 1)..cursor)
    BY <1>10 DEF Fetch
  <2>3. ASSUME NEW i \in Unread PROVE i \in Unread' \cup missed'
    <3>1. i \in (last + 1)..Len(trades) /\ trades[i].maker BY DEF Unread
    <3>2. CASE fetched
      <4>1. i \in batch' \/ i \in missed' BY <2>2, <3>1, <3>2 DEF Misses
      <4> QED BY <2>1, <3>1, <4>1 DEF Unread
    <3>3. CASE ~fetched
      <4>1. i > cursor \/ i \in (last + 1)..cursor
        <5>1. Len(trades) \in Nat BY <2>1, Grown DEF TypeOK
        <5>2. last \in 0..Len(trades) /\ cursor \in 0..Len(trades) BY DEF TypeOK
        <5> QED BY <3>1, <5>1, <5>2
      <4>2. i \in (last + 1)..cursor => i \in missed' BY <2>2, <3>1, <3>3 DEF Misses
      <4>3. batch' = {} BY <2>2, <3>3
      <4> QED BY <2>1, <3>1, <4>1, <4>2, <4>3 DEF Unread
    <3> QED BY <3>2, <3>3
  <2> QED BY <1>2, <2>1, <2>3
<1>11. CASE Recovered BY <1>3, <1>11 DEF Recovered, world, ledger, round, ghosts
<1>12. CASE Poll
  <2>1. /\ pc = "poll" /\ pc' = "fills" /\ batch = {}
        /\ UNCHANGED <<orders, pos, trades, held, last, toCancel, toPlace, slip>>
        /\ missed \subseteq missed'
    BY <1>12 DEF Poll, world, ledger, RoundInv, Misses
  <2>2. PICK answered \in BOOLEAN :
          /\ batch' = IF answered THEN Shown(cursor) ELSE {}
          /\ cursor' = IF answered THEN Len(trades) ELSE cursor
          /\ Misses(IF answered THEN ((cursor + 1)..Len(trades)) \ Shown(cursor) ELSE {})
    BY <1>12 DEF Poll
  <2>3. ASSUME NEW i \in Unread PROVE i \in Unread' \cup missed'
    <3>1. i \in (last + 1)..Len(trades) /\ trades[i].maker /\ i > cursor BY <2>1 DEF Unread
    <3>2. CASE answered
      <4>1. i \in (cursor + 1)..Len(trades)
        <5>1. last \in 0..Len(trades) /\ cursor \in 0..Len(trades) BY DEF TypeOK
        <5> QED BY <3>1, <5>1
      <4>2. i \in batch' \/ i \in missed' BY <2>2, <3>1, <3>2, <4>1 DEF Misses
      <4> QED BY <2>1, <3>1, <4>2 DEF Unread
    <3>3. CASE ~answered
      <4>1. batch' = {} /\ cursor' = cursor BY <2>2, <3>3
      <4> QED BY <2>1, <3>1, <4>1 DEF Unread
    <3> QED BY <3>2, <3>3
  <2> QED BY <1>2, <2>1, <2>3
<1>13. CASE Ingest BY <1>13, SightIngest
<1>14. CASE Plan
  <2>1. /\ pc = "fills" /\ pc' = "exec" /\ batch = {} /\ toPlace = {} /\ toCancel = {}
        /\ UNCHANGED <<orders, pos, trades, held, last, cursor, batch>> /\ missed \subseteq missed'
    BY <1>14 DEF Plan, world, ledger, RoundInv
  <2>2. PICK listed \in BOOLEAN, keep \in SUBSET Tokens, place \in SUBSET Tokens, both \in SUBSET Tokens :
          /\ \A t \in keep : listed /\ orders[t] > 0
          /\ \A t \in place : t \notin keep
          /\ \A t \in both : t \in keep
          /\ Affordable(place, keep)
          /\ toCancel' = ({t \in Tokens : listed /\ orders[t] > 0} \ keep) \cup both /\ toPlace' = place
          /\ missed' = missed \cup {i \in (cursor + 1)..Len(trades) : place # {}}
          /\ slip' = [t \in Tokens |-> slip[t] + IF place = {} \/ listed THEN 0 ELSE orders[t]]
    BY <1>14, Planned
  <2>3. Unread \subseteq Unread' BY <1>1, <2>1
  <2>4. ASSUME NEW t \in Tokens
        PROVE  Blind(t)' + slip[t] <= Blind(t) + slip'[t] /\ pos'[t] <= pos[t] /\ held'[t] >= held[t]
    <3>1. CASE t \in place \ toCancel'
      <4>1. ~listed \/ orders[t] = 0 BY <1>0, <2>2, <3>1
      <4>2. Blind(t)' = orders[t] BY <2>1, <2>2, <3>1 DEF Blind
      <4>3. slip'[t] = slip[t] + orders[t] BY <1>0, <2>2, <3>1, <4>1
      <4> QED BY <1>0, <2>1, <4>2, <4>3
    <3>2. CASE t \notin place \ toCancel'
      <4>1. Blind(t)' = Blind(t) BY <2>1, <2>2, <3>2 DEF Blind
      <4>2. slip'[t] = slip[t] \/ slip'[t] = slip[t] + orders[t] BY <1>0, <2>2
      <4> QED BY <1>0, <2>1, <4>1, <4>2
    <3> QED BY <3>1, <3>2
  <2> QED BY <2>1, <2>3, <2>4, SightKept
<1>15. CASE Register
  <2>1. UNCHANGED <<orders, pos, trades, held, last, cursor, batch, toCancel, toPlace, missed, slip>>
        /\ pc = "placed"
    BY <1>15 DEF Register, world, ghosts
  <2> QED BY <1>3, <2>1
<1>16. CASE RoundEnd BY <1>3, <1>16 DEF RoundEnd, world, ledger, round, ghosts
<1>17. CASE Abort BY <1>3, <1>17 DEF Abort, world, ledger, ghosts
<1>18. CASE StopFile
  <2>1. UNCHANGED <<pos, trades, held, last, toCancel, toPlace, missed, slip>> /\ pc' = "down" /\ pc = "top"
    BY <1>18 DEF StopFile, ledger, round, ghosts
  <2>2. Unread \subseteq Unread' BY <1>1, <2>1
  <2>3. ASSUME NEW t \in Tokens
        PROVE  Blind(t)' + slip[t] <= Blind(t) + slip'[t] /\ pos'[t] <= pos[t] /\ held'[t] >= held[t]
    <3>1. orders'[t] = orders[t] \/ orders'[t] = 0 BY <1>18 DEF StopFile
    <3>2. Blind(t)' <= Blind(t) BY <1>0, <2>1, <3>1 DEF Blind
    <3> QED BY <1>0, <2>1, <3>2
  <2> QED BY <2>1, <2>2, <2>3, SightKept
<1>19. CASE Crash BY <1>3, <1>19 DEF Crash, world, ledger, ghosts
<1>20. ASSUME NEW t \in Tokens, Execute(t) PROVE SightInv'
  <2>1. CASE Cancel(t)
    <3>1. /\ UNCHANGED <<pos, trades, held, last, pc, cursor, batch, toPlace, missed>> /\ pc = "exec"
          /\ toCancel' = toCancel \ {t} /\ t \in toCancel
      BY <2>1 DEF Cancel, ledger, Slips
    <3>2. PICK done \in BOOLEAN :
            /\ orders' = IF done THEN [orders EXCEPT ![t] = 0] ELSE orders
            /\ slip' = [u \in Tokens |-> slip[u] + IF u = t /\ ~done /\ toPlace # {} THEN orders[t] ELSE 0]
      BY <2>1 DEF Cancel, Slips
    <3>3. Unread \subseteq Unread' BY <1>1, <3>1
    <3>4. ASSUME NEW u \in Tokens
          PROVE  Blind(u)' + slip[u] <= Blind(u) + slip'[u] /\ pos'[u] <= pos[u] /\ held'[u] >= held[u]
      <4>1. CASE u # t
        <5>0. slip'[u] = slip[u] + 0 BY <3>2, <4>1
        <5>3. orders' = [orders EXCEPT ![t] = 0] \/ orders' = orders BY <3>2
        <5>4. orders'[u] = orders[u] BY <4>1, <5>3 DEF TypeOK
        <5>1. orders'[u] = orders[u] /\ slip'[u] = slip[u] BY <1>0, <5>0, <5>4
        <5>2. Blind(u)' = Blind(u) BY <3>1, <4>1, <5>1 DEF Blind
        <5> QED BY <1>0, <3>1, <5>1, <5>2
      <4>2. CASE u = t /\ done
        <5>1. orders'[u] = 0 /\ slip'[u] = slip[u] BY <1>0, <3>2, <4>2 DEF TypeOK
        <5>2. Blind(u)' = 0 BY <5>1 DEF Blind
        <5> QED BY <1>0, <3>1, <5>1, <5>2
      <4>3. CASE u = t /\ ~done /\ toPlace # {}
        <5>1. orders'[u] = orders[u] /\ slip'[u] = slip[u] + orders[u] BY <1>0, <3>2, <4>3 DEF TypeOK
        <5>2. Blind(u)' <= orders[u] BY <1>0, <5>1 DEF Blind
        <5> QED BY <1>0, <3>1, <5>1, <5>2
      <4>4. CASE u = t /\ ~done /\ toPlace = {}
        <5>0. slip'[u] = slip[u] + 0 /\ orders' = orders BY <3>2, <4>4
        <5>1. orders'[u] = orders[u] /\ slip'[u] = slip[u] BY <1>0, <5>0
        <5>2. Blind(u)' = Blind(u) BY <3>1, <4>4, <5>1 DEF Blind
        <5> QED BY <1>0, <3>1, <5>1, <5>2
      <4> QED BY <4>1, <4>2, <4>3, <4>4
    <3> QED BY <3>1, <3>3, <3>4, SightKept
  <2>2. CASE WouldCross(t) BY <1>3, <2>2 DEF WouldCross, Due, world, ledger, ghosts
  <2>3. ASSUME Due(t), toPlace' \subseteq toPlace \ {t}, UNCHANGED <<held, last, cursor, batch, toCancel, slip>>,
               pc' \in {"exec", "placed"}, Rests(t) \/ Crosses(t)
        PROVE  SightInv'
    <3>1. pc = "exec" /\ toCancel = {} /\ t \in toPlace BY <2>3 DEF Due
    <3>2. CASE Rests(t)
      <4>1. UNCHANGED <<pos, trades, missed>> /\ orders' = [orders EXCEPT ![t] = @ + 1] BY <3>2 DEF Rests
      <4>2. Unread \subseteq Unread' BY <2>3, <3>1, <4>1 DEF Unread
      <4>3. ASSUME NEW u \in Tokens
            PROVE  Blind(u)' + slip[u] <= Blind(u) + slip'[u] /\ pos'[u] <= pos[u] /\ held'[u] >= held[u]
        <5>1. CASE u = t
          <6>1. orders'[u] = orders[u] + 1 BY <4>1, <5>1 DEF TypeOK
          <6>2. Blind(u) = orders[u] /\ Blind(u)' = orders[u] BY <1>0, <2>3, <3>1, <5>1, <6>1 DEF Blind
          <6> QED BY <1>0, <2>3, <4>1, <6>2
        <5>2. CASE u # t
          <6>1. orders'[u] = orders[u] BY <4>1, <5>2 DEF TypeOK
          <6>2. Blind(u)' <= Blind(u) BY <1>0, <2>3, <3>1, <6>1 DEF Blind
          <6> QED BY <1>0, <2>3, <4>1, <6>2
        <5> QED BY <5>1, <5>2
      <4> QED BY <4>1, <4>2, <4>3, SightKept
    <3>3. CASE Crosses(t)
      <4>1. /\ trades' = Append(trades, [token |-> t, maker |-> FALSE]) /\ pos' = [pos EXCEPT ![t] = @ + 1]
            /\ missed \subseteq missed' /\ Len(trades) + 1 \in missed' /\ orders' = orders
        BY <3>3 DEF Crosses
      <4>2. \A u \in Tokens : Blind(u)' <= Blind(u) BY <1>0, <2>3, <3>1, <4>1 DEF Blind
      <4>3. pc \in {"down", "boot", "fetch"} => pc' \in {"down", "boot", "fetch"} BY <3>1
      <4>4. UNCHANGED <<held, last, cursor, batch, slip>> BY <2>3
      <4> QED BY <4>1, <4>2, <4>3, <4>4, SightTrade
    <3> QED BY <2>3, <3>2, <3>3
  <2>4. CASE PlaceAccepted(t) BY <2>3, <2>4 DEF PlaceAccepted, ledger
  <2>5. CASE PlaceTransient(t)
    <3>1. /\ Due(t) /\ toPlace' \subseteq toPlace \ {t} /\ UNCHANGED <<held, last, pc, cursor, batch, toCancel, slip>>
          /\ pc = "exec"
      BY <2>5 DEF PlaceTransient, Due, ledger
    <3>2. CASE Rests(t) \/ Crosses(t) BY <2>3, <3>1, <3>2
    <3>3. CASE UNCHANGED <<orders, pos, trades, missed>> BY <1>3, <3>1, <3>3
    <3> QED BY <2>5, <3>2, <3>3 DEF PlaceTransient
  <2>6. CASE PlaceRejected(t)
    <3>1. UNCHANGED <<orders, pos, trades, held, last, cursor, batch, missed, slip>> /\ pc = "exec"
          /\ toPlace' \ toCancel' \subseteq toPlace \ toCancel
      BY <2>6 DEF PlaceRejected, Due, world, ledger, ghosts
    <3>2. pc' = "down" \/ pc' = pc BY <2>6 DEF PlaceRejected
    <3> QED BY <1>3, <3>1, <3>2
  <2> QED BY <1>20, <2>1, <2>2, <2>4, <2>5, <2>6 DEF Execute
<1> QED BY <1>4, <1>5, <1>6, <1>7, <1>8, <1>9, <1>10, <1>11, <1>12, <1>13, <1>14, <1>15, <1>16, <1>17,
           <1>18, <1>19, <1>20 DEF Next, Process

-----------------------------------------------------------------------------
(* The limits.                                                              *)

\* The sums the limits speak of, in both states of a step.
LEMMA LimitTypes ==
    ASSUME TypeOK, TypeOK'
    PROVE  /\ Unseen \in [Tokens -> Nat] /\ Real \in [Tokens -> Nat] /\ Load \in [Tokens -> Nat]
           /\ Unseen' \in [Tokens -> Nat] /\ Real' \in [Tokens -> Nat] /\ Load' \in [Tokens -> Nat]
           /\ \A t \in Tokens : IsFiniteSet(MissedOf(t)) /\ IsFiniteSet(MissedOf(t)')
           /\ \A s \in SUBSET Tokens :
                 /\ Exposure(s) = Total(Real, s) /\ Exposure(s)' = Total(Real', s)
                 /\ {Total(Real, s), Total(Load, s), Total(Unseen, s),
                     Total(Real', s), Total(Load', s), Total(Unseen', s)} \subseteq Nat
<1>1. ASSUME NEW t \in Tokens
      PROVE  /\ IsFiniteSet(MissedOf(t)) /\ Cardinality(MissedOf(t)) \in Nat
             /\ IsFiniteSet(MissedOf(t)') /\ Cardinality(MissedOf(t)') \in Nat
  <2>1. Len(trades) \in Nat /\ Len(trades') \in Nat BY <1>1, SightTypes
  <2>2. MissedOf(t) \in SUBSET (1..Len(trades)) /\ MissedOf(t)' \in SUBSET (1..Len(trades'))
    BY DEF MissedOf, TypeOK
  <2> QED BY <2>1, <2>2, RowSets
<1>2. \A t \in Tokens : /\ orders[t] \in Nat /\ pos[t] \in Nat /\ slip[t] \in Nat
                        /\ orders'[t] \in Nat /\ pos'[t] \in Nat /\ slip'[t] \in Nat
  BY SightTypes
<1>3. Unseen \in [Tokens -> Nat] /\ Unseen' \in [Tokens -> Nat] BY <1>1, <1>2 DEF Unseen
<1>4. /\ Real \in [Tokens -> Nat] /\ Real' \in [Tokens -> Nat]
      /\ Load \in [Tokens -> Nat] /\ Load' \in [Tokens -> Nat]
  BY <1>2 DEF Real, Load
<1>5. ASSUME NEW s \in SUBSET Tokens
      PROVE  Exposure(s) = Total(Real, s) /\ Exposure(s)' = Total(Real', s)
  <2>1. /\ orders \in [Tokens -> Nat] /\ pos \in [Tokens -> Nat]
        /\ orders' \in [Tokens -> Nat] /\ pos' \in [Tokens -> Nat]
    BY DEF TypeOK
  <2>2. /\ Total([t \in Tokens |-> orders[t] + pos[t]], s) = Total(orders, s) + Total(pos, s)
        /\ Total([t \in Tokens |-> orders'[t] + pos'[t]], s) = Total(orders', s) + Total(pos', s)
    BY <2>1, Sum
  <2> QED BY <2>2 DEF Exposure, Real
<1>6. ASSUME NEW s \in SUBSET Tokens
      PROVE  {Total(Real, s), Total(Load, s), Total(Unseen, s),
              Total(Real', s), Total(Load', s), Total(Unseen', s)} \subseteq Nat
  BY <1>3, <1>4, UnitsFinite
<1> QED BY <1>1, <1>3, <1>4, <1>5, <1>6

\* What was not seen stays so.
LEMMA UnseenGrows ==
    ASSUME TypeOK, TypeOK', missed \subseteq missed', \A i \in missed : trades'[i] = trades[i],
           NEW t \in Tokens, slip[t] <= slip'[t]
    PROVE  Unseen[t] <= Unseen'[t]
<1>1. PICK c, c1 : c = Cardinality(MissedOf(t)) /\ c1 = Cardinality(MissedOf(t)') OBVIOUS
<1>2. Unseen[t] = slip[t] + c /\ Unseen'[t] = slip'[t] + c1 BY <1>1 DEF Unseen
<1>3. MissedOf(t) \in SUBSET MissedOf(t)' BY DEF MissedOf
<1>4. c \in Nat /\ c1 \in Nat /\ c <= c1 BY <1>1, <1>3, LimitTypes, FS_Subset, FS_CardinalityType
<1>5. slip[t] \in Nat /\ slip'[t] \in Nat BY DEF TypeOK
<1> QED BY <1>2, <1>4, <1>5

\* Step by step on every token, hence on every scope.
LEMMA PlanKept ==
    ASSUME TypeOK, TypeOK', PlanInv, OvershootBounded,
           \A s \in Scopes :
              \/ \A t \in s : Real'[t] + Unseen[t] <= Real[t] + Unseen'[t]
              \/ toPlace \cap s # {} /\ \A t \in s : Real'[t] + Unseen[t] <= Load[t] + Unseen'[t],
           \A s \in Scopes : toPlace' \cap s # {} =>
              /\ toPlace \cap s # {}
              /\ \A t \in s : Load'[t] + Unseen[t] <= Load[t] + Unseen'[t]
    PROVE  PlanInv' /\ OvershootBounded'
<1>1. ASSUME NEW s \in Scopes
      PROVE  /\ Exposure(s)' <= Limit(s) + Total(Unseen', s)
             /\ toPlace' \cap s # {} => Total(Load', s) <= Limit(s) + Total(Unseen', s)
  <2>1. s \in SUBSET Tokens /\ Limit(s) \in Nat BY TailAssumption
  <2>2. PICK r, l, u, r1, l1, u1 :
          /\ r = Total(Real, s) /\ l = Total(Load, s) /\ u = Total(Unseen, s)
          /\ r1 = Total(Real', s) /\ l1 = Total(Load', s) /\ u1 = Total(Unseen', s)
    OBVIOUS
  <2>3. r \in Nat /\ l \in Nat /\ u \in Nat /\ r1 \in Nat /\ l1 \in Nat /\ u1 \in Nat
    BY <2>1, <2>2, LimitTypes
  <2>4. r <= Limit(s) + u
    <3>1. Exposure(s) <= Limit(s) + Total(Unseen, s) BY DEF OvershootBounded
    <3>2. Exposure(s) = r BY <2>1, <2>2, LimitTypes
    <3> QED BY <2>2, <3>1, <3>2
  <2>5. toPlace \cap s # {} => l <= Limit(s) + u BY <2>2 DEF PlanInv
  <2>6. r1 <= Limit(s) + u1
    <3>1. CASE \A t \in s : Real'[t] + Unseen[t] <= Real[t] + Unseen'[t]
      <4>1. r1 + u <= r + u1 BY <2>1, <2>2, <3>1, LimitTypes, Balance
      <4> QED BY <2>1, <2>3, <2>4, <4>1
    <3>2. CASE toPlace \cap s # {} /\ \A t \in s : Real'[t] + Unseen[t] <= Load[t] + Unseen'[t]
      <4>1. r1 + u <= l + u1 BY <2>1, <2>2, <3>2, LimitTypes, Balance
      <4> QED BY <2>1, <2>3, <2>5, <3>2, <4>1
    <3> QED BY <3>1, <3>2
  <2>7. ASSUME toPlace' \cap s # {} PROVE l1 <= Limit(s) + u1
    <3>1. toPlace \cap s # {} /\ \A t \in s : Load'[t] + Unseen[t] <= Load[t] + Unseen'[t] BY <2>7
    <3>2. l1 + u <= l + u1 BY <2>1, <2>2, <3>1, LimitTypes, Balance
    <3> QED BY <2>1, <2>3, <2>5, <3>1, <3>2
  <2>8. Exposure(s)' = r1 BY <2>1, <2>2, LimitTypes
  <2> QED BY <2>2, <2>6, <2>7, <2>8
<1> QED BY <1>1 DEF PlanInv, OvershootBounded

\* A plan that places fits the limits but for what it does not see.
LEMMA PlanPlan ==
    ASSUME TypeOK, TypeOK', RoundInv, SightInv, PlanInv, OvershootBounded, Plan
    PROVE  PlanInv' /\ OvershootBounded'
<1>1. /\ UNCHANGED <<orders, pos, held, trades>> /\ pc = "fills" /\ batch = {}
      /\ toPlace = {} /\ toCancel = {} /\ missed \subseteq missed'
  BY DEF Plan, world, ledger, RoundInv
<1>2. PICK listed \in BOOLEAN, keep \in SUBSET Tokens, place \in SUBSET Tokens, both \in SUBSET Tokens :
        /\ \A t \in keep : listed /\ orders[t] > 0
        /\ \A t \in place : t \notin keep
        /\ \A t \in both : t \in keep
        /\ Affordable(place, keep)
        /\ toCancel' = ({t \in Tokens : listed /\ orders[t] > 0} \ keep) \cup both /\ toPlace' = place
        /\ missed' = missed \cup {i \in (cursor + 1)..Len(trades) : place # {}}
        /\ slip' = [t \in Tokens |-> slip[t] + IF place = {} \/ listed THEN 0 ELSE orders[t]]
  BY Planned
<1>3. \A t \in Tokens : /\ orders[t] \in Nat /\ pos[t] \in Nat /\ held[t] \in Nat
                        /\ slip[t] \in Nat /\ Blind(t) \in Nat /\ slip'[t] \in Nat
  BY SightTypes
<1>4. ASSUME NEW s \in Scopes PROVE Exposure(s)' <= Limit(s) + Total(Unseen', s)
  <2>1. s \in SUBSET Tokens /\ Limit(s) \in Nat BY TailAssumption
  <2>2. ASSUME NEW t \in s PROVE Unseen[t] <= Unseen'[t]
    <3>1. t \in Tokens BY <2>1
    <3>2. slip[t] <= slip'[t]
      <4>1. slip'[t] = slip[t] + 0 \/ slip'[t] = slip[t] + orders[t] BY <1>2, <3>1
      <4> QED BY <1>3, <3>1, <4>1
    <3> QED BY <1>1, <3>1, <3>2, UnseenGrows
  <2>3. \A t \in s : Unseen[t] = 0 \/ (t \in s /\ Unseen[t] <= Unseen'[t]) BY <2>2
  <2>4. Total(Unseen, s) <= Total(Unseen', s) BY <2>1, <2>3, LimitTypes, Less
  <2>5. Exposure(s)' = Exposure(s) BY <1>1 DEF Exposure
  <2>6. Exposure(s) \in Nat /\ Total(Unseen, s) \in Nat /\ Total(Unseen', s) \in Nat BY <2>1, LimitTypes
  <2>7. Exposure(s) <= Limit(s) + Total(Unseen, s) BY DEF OvershootBounded
  <2> QED BY <2>1, <2>4, <2>5, <2>6, <2>7
<1>5. ASSUME NEW s \in Scopes, place \cap s # {}
      PROVE  Total(Load', s) <= Limit(s) + Total(Unseen', s)
  <2> DEFINE K == [t \in Tokens |-> IF t \in keep THEN 1 ELSE 0]
             P == [t \in Tokens |-> IF t \in place THEN 1 ELSE 0]
             HK == [t \in Tokens |-> held[t] + K[t]]
             PU == [t \in Tokens |-> P[t] + Unseen'[t]]
  <2>1. /\ s \in SUBSET Tokens /\ Limit(s) \in Nat
        /\ keep \cap s \in SUBSET Tokens /\ place \cap s \in SUBSET Tokens
    BY TailAssumption
  <2>2. /\ K \in [Tokens -> Nat] /\ P \in [Tokens -> Nat] /\ held \in [Tokens -> Nat]
        /\ Unseen' \in [Tokens -> Nat] /\ Load' \in [Tokens -> Nat]
    BY LimitTypes DEF TypeOK
  <2>3. HK \in [Tokens -> Nat] /\ PU \in [Tokens -> Nat] BY <2>2
  <2>4. ASSUME NEW t \in s PROVE Load'[t] <= HK[t] + PU[t]
    <3>1. t \in Tokens BY <2>1
    <3>2. PICK c1, d : c1 = Cardinality(MissedOf(t)') /\ d = Blind(t) OBVIOUS
    <3>3. Unseen'[t] = slip'[t] + c1 BY <3>1, <3>2 DEF Unseen
    <3>4. Dark(t) \in SUBSET MissedOf(t)'
      <4>1. ASSUME NEW i \in Dark(t) PROVE i \in MissedOf(t)'
        <5>1. i \in Unread \cup missed /\ trades[i].token = t BY DEF Dark
        <5>2. CASE i \in Unread
          <6>1. i \in (last + 1)..Len(trades) /\ i > cursor BY <1>1, <5>2 DEF Unread
          <6>2. last \in 0..Len(trades) /\ cursor \in 0..Len(trades) BY DEF TypeOK
          <6>3. i \in (cursor + 1)..Len(trades) BY <6>1, <6>2
          <6>4. i \in missed' BY <1>2, <1>5, <6>3
          <6> QED BY <1>1, <5>1, <6>4 DEF MissedOf
        <5> QED BY <1>1, <5>1, <5>2 DEF MissedOf
      <4> QED BY <4>1
    <3>5. c1 \in Nat /\ Cardinality(Dark(t)) <= c1 /\ Cardinality(Dark(t)) \in Nat
      <4>1. IsFiniteSet(MissedOf(t)') BY <3>1, LimitTypes
      <4> QED BY <3>1, <3>2, <3>4, <4>1, SightTypes, FS_Subset, FS_CardinalityType
    <3>6. d \in Nat /\ d + pos[t] <= held[t] + c1 + slip[t]
      <4>1. d + pos[t] <= held[t] + Cardinality(Dark(t)) + slip[t] BY <3>1, <3>2 DEF SightInv
      <4>2. d \in Nat BY <1>3, <3>1, <3>2
      <4> QED BY <1>3, <3>1, <3>5, <4>1, <4>2
    <3>7. Load'[t] = (IF t \in toCancel' THEN 0 ELSE orders[t]) + pos[t] + P[t]
      BY <1>1, <1>2, <3>1 DEF Load
    <3>8. P[t] \in Nat /\ HK[t] = held[t] + K[t] /\ PU[t] = P[t] + (slip'[t] + c1) BY <2>2, <3>1, <3>3
    <3>9. (IF t \in toCancel' THEN 0 ELSE orders[t]) + pos[t] <= held[t] + K[t] + slip'[t] + c1
      <4>1. CASE t \in keep
        <5>1. K[t] = 1 /\ listed /\ orders[t] > 0 BY <1>2, <3>1, <4>1
        <5>2. slip'[t] = slip[t] + 0 BY <1>2, <3>1, <5>1
        <5>3. d = orders[t] - 1 BY <1>1, <3>2, <5>1 DEF Blind
        <5> QED BY <1>3, <3>1, <3>5, <3>6, <5>1, <5>2, <5>3
      <4>2. CASE t \notin keep /\ listed
        <5>1. K[t] = 0 /\ slip'[t] = slip[t] + 0 BY <1>2, <3>1, <4>2
        <5>2. t \in toCancel' \/ orders[t] = 0 BY <1>2, <1>3, <3>1, <4>2
        <5> QED BY <1>3, <3>1, <3>5, <3>6, <5>1, <5>2
      <4>3. CASE t \notin keep /\ ~listed
        <5>1. K[t] = 0 /\ slip'[t] = slip[t] + orders[t] BY <1>2, <1>5, <3>1, <4>3
        <5> QED BY <1>3, <3>1, <3>5, <3>6, <5>1
      <4> QED BY <4>1, <4>2, <4>3
    <3>10. K[t] \in Nat BY <2>2, <3>1
    <3> HIDE DEF K, P, HK, PU
    <3> QED BY <1>3, <3>1, <3>5, <3>7, <3>8, <3>9, <3>10
  <2>5. Total(Load', s) <= Total(HK, s) + Total(PU, s)
    <3> DEFINE Z == [t \in Tokens |-> 0]
    <3>1. Z \in [Tokens -> Nat] /\ \A t \in s : Load'[t] + Z[t] <= HK[t] + PU[t]
      <4>1. \A t \in s : Z[t] = 0 /\ Load'[t] \in Nat /\ HK[t] \in Nat /\ PU[t] \in Nat BY <2>1, <2>2, <2>3
      <4> HIDE DEF Z, HK, PU
      <4>2. \A t \in s : Load'[t] + Z[t] <= HK[t] + PU[t] BY <2>4, <4>1
      <4> QED BY <4>2 DEF Z
    <3> HIDE DEF Z, HK, PU
    <3>2. Total(Load', s) + Total(Z, s) <= Total(HK, s) + Total(PU, s)
      BY <2>1, <2>2, <2>3, <3>1, Balance
    <3>3. Total(Load', s) \in Nat /\ Total(Z, s) \in Nat /\ Total(HK, s) \in Nat /\ Total(PU, s) \in Nat
      BY <2>1, <2>2, <2>3, <3>1, UnitsFinite
    <3> QED BY <3>2, <3>3
  <2>6. Total(HK, s) = Total(held, s) + Total(K, s) /\ Total(PU, s) = Total(P, s) + Total(Unseen', s)
    <3> HIDE DEF K, P
    <3> QED BY <2>1, <2>2, Sum
  <2>7. /\ Total(K, s) <= Cardinality(keep \cap s) /\ Cardinality(keep \cap s) \in Nat
        /\ Total(P, s) <= Cardinality(place \cap s) /\ Cardinality(place \cap s) \in Nat
    <3>1. \A t \in s : K[t] = 0 \/ (t \in keep \cap s /\ K[t] <= 1) BY <2>1
    <3>2. \A t \in s : P[t] = 0 \/ (t \in place \cap s /\ P[t] <= 1) BY <2>1
    <3> HIDE DEF K, P
    <3> QED BY <2>1, <2>2, <3>1, <3>2, Singles
  <2>8. Total(held, s) + Cardinality(keep \cap s) + Cardinality(place \cap s) <= Limit(s)
    BY <1>2, <1>5 DEF Affordable, Used
  <2>9. /\ Total(held, s) \in Nat /\ Total(K, s) \in Nat /\ Total(P, s) \in Nat
        /\ Total(Unseen', s) \in Nat /\ Total(Load', s) \in Nat
    <3> HIDE DEF K, P
    <3> QED BY <2>1, <2>2, UnitsFinite
  <2> HIDE DEF K, P, HK, PU
  <2> QED BY <2>1, <2>5, <2>6, <2>7, <2>8, <2>9
<1> QED BY <1>2, <1>4, <1>5 DEF PlanInv, OvershootBounded

\* Every step keeps the limits, but for what was not seen.
LEMMA PlanStep ==
    ASSUME TypeOK, TypeOK', RoundInv, SightInv, PlanInv, OvershootBounded, [Next]_vars
    PROVE  PlanInv' /\ OvershootBounded'
<1>0. /\ \A t \in Tokens : /\ orders[t] \in Nat /\ pos[t] \in Nat /\ slip[t] \in Nat
                           /\ orders'[t] \in Nat /\ pos'[t] \in Nat /\ slip'[t] \in Nat
                           /\ Unseen[t] \in Nat /\ Unseen'[t] \in Nat
      /\ \A s \in Scopes : s \subseteq Tokens
  <2>1. Unseen \in [Tokens -> Nat] /\ Unseen' \in [Tokens -> Nat] BY LimitTypes
  <2>2. \A t \in Tokens : Unseen[t] \in Nat /\ Unseen'[t] \in Nat BY <2>1
  <2> QED BY <2>2, SightTypes, TailAssumption
<1>1. ASSUME \A t \in Tokens : Real'[t] <= Real[t],
             toPlace' = {} \/ (toPlace' \subseteq toPlace /\ \A t \in Tokens : Load'[t] <= Load[t]),
             trades' = trades, missed \subseteq missed', \A t \in Tokens : slip[t] <= slip'[t]
      PROVE  PlanInv' /\ OvershootBounded'
  <2>1. \A t \in Tokens : Unseen[t] <= Unseen'[t] BY <1>1, UnseenGrows
  <2>2. /\ \A t \in Tokens : Real[t] \in Nat /\ Real'[t] \in Nat /\ Load[t] \in Nat /\ Load'[t] \in Nat
    BY <1>0 DEF Real, Load
  <2>3. \A t \in Tokens : Real'[t] + Unseen[t] <= Real[t] + Unseen'[t] BY <1>0, <1>1, <2>1, <2>2
  <2>4. toPlace' = {} \/ (toPlace' \subseteq toPlace
                          /\ \A t \in Tokens : Load'[t] + Unseen[t] <= Load[t] + Unseen'[t])
    BY <1>0, <1>1, <2>1, <2>2
  <2>5. ASSUME NEW s \in Scopes PROVE \A t \in s : Real'[t] + Unseen[t] <= Real[t] + Unseen'[t]
    BY <1>0, <2>3
  <2>6. ASSUME NEW s \in Scopes, toPlace' \cap s # {}
        PROVE  /\ toPlace \cap s # {}
               /\ \A t \in s : Load'[t] + Unseen[t] <= Load[t] + Unseen'[t]
    BY <1>0, <2>4, <2>6
  <2> QED BY <2>5, <2>6, PlanKept
<1>2. ASSUME UNCHANGED <<orders, pos, trades>>, missed \subseteq missed', \A t \in Tokens : slip[t] <= slip'[t],
             toPlace' = {} \/ (toPlace' \subseteq toPlace /\ toCancel' = toCancel)
      PROVE  PlanInv' /\ OvershootBounded'
  <2>1. \A t \in Tokens : Real'[t] <= Real[t] BY <1>0, <1>2 DEF Real
  <2>2. ASSUME toPlace' \subseteq toPlace, toCancel' = toCancel, NEW t \in Tokens PROVE Load'[t] <= Load[t]
    <3>1. /\ Load[t] = (IF t \in toCancel THEN 0 ELSE orders[t]) + pos[t] + (IF t \in toPlace THEN 1 ELSE 0)
          /\ Load'[t] = (IF t \in toCancel THEN 0 ELSE orders[t]) + pos[t] + (IF t \in toPlace' THEN 1 ELSE 0)
      BY <1>2, <2>2 DEF Load
    <3> QED BY <1>0, <2>2, <3>1
  <2> QED BY <1>1, <1>2, <2>1, <2>2
<1>3. \A t \in Tokens : slip[t] <= slip[t] BY <1>0
<1>4. CASE UNCHANGED vars
  BY <1>2, <1>3, <1>4 DEF vars, world, round, ghosts
<1>5. ASSUME NEW t \in Tokens, Fill(t) PROVE PlanInv' /\ OvershootBounded'
  <2>1. /\ orders[t] > 0 /\ orders' = [orders EXCEPT ![t] = @ - 1] /\ pos' = [pos EXCEPT ![t] = @ + 1]
        /\ UNCHANGED <<toCancel, toPlace, slip>> /\ missed \subseteq missed'
    BY <1>5 DEF Fill, round
  <2>2. \A i \in missed : trades'[i] = trades[i]
    <3>1. missed \subseteq 1..Len(trades) BY DEF TypeOK
    <3> QED BY <1>5, <3>1, NewRow DEF Fill
  <2>3. \A u \in Tokens : Unseen[u] <= Unseen'[u] BY <1>3, <2>1, <2>2, UnseenGrows
  <2>4. \A u \in Tokens : Real'[u] = Real[u] /\ Real[u] \in Nat
    <3>1. orders \in [Tokens -> Nat] /\ pos \in [Tokens -> Nat] BY DEF TypeOK
    <3>2. \A u \in Tokens : /\ orders'[u] = IF u = t THEN orders[u] - 1 ELSE orders[u]
                            /\ pos'[u] = IF u = t THEN pos[u] + 1 ELSE pos[u]
      BY <2>1, <3>1
    <3> QED BY <1>0, <3>2 DEF Real
  <2>5. ASSUME t \in toCancel, toPlace # {} PROVE Unseen'[t] >= Unseen[t] + 1
    <3>1. /\ missed' = missed \cup {Len(trades) + 1} /\ trades'[Len(trades) + 1].token = t
          /\ Len(trades) \in Nat
      BY <1>5, <2>5, NewRow DEF Fill
    <3>2. MissedOf(t)' = MissedOf(t) \cup {Len(trades) + 1} BY <2>2, <3>1 DEF MissedOf
    <3>3. Len(trades) + 1 \notin MissedOf(t)
      <4>1. MissedOf(t) \subseteq 1..Len(trades) BY DEF MissedOf, TypeOK
      <4> QED BY <3>1, <4>1
    <3>4. IsFiniteSet(MissedOf(t)) BY LimitTypes
    <3>5. Cardinality(MissedOf(t)') = Cardinality(MissedOf(t)) + 1 BY <3>2, <3>3, <3>4, FS_AddElement
    <3>6. PICK c, c1 : c = Cardinality(MissedOf(t)) /\ c1 = Cardinality(MissedOf(t)') OBVIOUS
    <3>7. c \in Nat /\ c1 = c + 1 BY <3>4, <3>5, <3>6, FS_CardinalityType
    <3>8. Unseen[t] = slip[t] + c /\ Unseen'[t] = slip[t] + c1 BY <2>1, <3>6 DEF Unseen
    <3> QED BY <1>0, <3>7, <3>8
  <2>6. ASSUME toPlace # {}, NEW u \in Tokens PROVE Load'[u] + Unseen[u] <= Load[u] + Unseen'[u]
    <3>1. PICK p : p = IF u \in toPlace THEN 1 ELSE 0 OBVIOUS
    <3>2. p \in Nat BY <3>1
    <3>3. /\ Load[u] = (IF u \in toCancel THEN 0 ELSE orders[u]) + pos[u] + p
          /\ Load'[u] = (IF u \in toCancel THEN 0 ELSE orders'[u]) + pos'[u] + p
      BY <2>1, <3>1 DEF Load
    <3>4. CASE u # t
      <4>1. orders'[u] = orders[u] /\ pos'[u] = pos[u] BY <2>1, <3>4 DEF TypeOK
      <4> QED BY <1>0, <2>3, <3>2, <3>3, <4>1
    <3>5. CASE u = t
      <4>1. orders'[t] = orders[t] - 1 /\ pos'[t] = pos[t] + 1 BY <2>1 DEF TypeOK
      <4>2. CASE t \in toCancel BY <1>0, <2>5, <2>6, <3>2, <3>3, <3>5, <4>1, <4>2
      <4>3. CASE t \notin toCancel BY <1>0, <2>3, <3>2, <3>3, <3>5, <4>1, <4>3
      <4> QED BY <4>2, <4>3
    <3> QED BY <3>4, <3>5
  <2>7. ASSUME NEW s \in Scopes PROVE \A u \in s : Real'[u] + Unseen[u] <= Real[u] + Unseen'[u]
    BY <1>0, <2>3, <2>4
  <2>8. ASSUME NEW s \in Scopes, toPlace' \cap s # {}
        PROVE  toPlace \cap s # {} /\ \A u \in s : Load'[u] + Unseen[u] <= Load[u] + Unseen'[u]
    BY <1>0, <2>1, <2>6, <2>8
  <2> QED BY <2>7, <2>8, PlanKept
<1>6. ASSUME \A t \in Tokens : orders'[t] <= orders[t] /\ pos'[t] <= pos[t],
             UNCHANGED <<trades, missed, slip, toCancel, toPlace>>
      PROVE  PlanInv' /\ OvershootBounded'
  <2>1. \A t \in Tokens : Real'[t] <= Real[t] BY <1>0, <1>6 DEF Real
  <2>2. \A t \in Tokens : Load'[t] <= Load[t] BY <1>0, <1>6 DEF Load
  <2> QED BY <1>1, <1>3, <1>6, <2>1, <2>2
<1>7. ASSUME NEW t \in Tokens, Redeem(t) PROVE PlanInv' /\ OvershootBounded'
  <2>1. UNCHANGED <<orders, trades, missed, slip, toCancel, toPlace>> /\ pos' = [pos EXCEPT ![t] = 0]
    BY <1>7 DEF Redeem, round, ghosts
  <2>2. \A u \in Tokens : orders'[u] <= orders[u] /\ pos'[u] <= pos[u]
    <3>1. pos \in [Tokens -> Nat] BY DEF TypeOK
    <3>2. \A u \in Tokens : pos'[u] = IF u = t THEN 0 ELSE pos[u] BY <2>1, <3>1
    <3> QED BY <1>0, <2>1, <3>2
  <2> QED BY <1>6, <2>1, <2>2
<1>8. CASE StopFile
  <2>1. UNCHANGED <<pos, trades, missed, slip, toCancel, toPlace>> BY <1>8 DEF StopFile, round, ghosts
  <2>2. PICK failed : orders' = [t \in Tokens |-> IF t \in failed THEN orders[t] ELSE 0]
    BY <1>8 DEF StopFile
  <2>3. \A u \in Tokens : orders'[u] <= orders[u] /\ pos'[u] <= pos[u] BY <1>0, <2>1, <2>2
  <2> QED BY <1>6, <2>1, <2>3
<1>9. CASE Settle BY <1>2, <1>3, <1>9 DEF Settle, round, ghosts
<1>10. CASE Start BY <1>2, <1>3, <1>10 DEF Start, world, round, ghosts
<1>11. CASE Reconcile
  <2>1. UNCHANGED <<orders, pos, trades, toCancel, toPlace>> BY <1>11 DEF Reconcile, world, round
  <2>2. missed' = missed /\ \E n : slip' = [t \in Tokens |-> slip[t] + n[t]] /\ \A t \in Tokens : n[t] \in Nat
    <3>1. PICK shown, others :
            LET real == [t \in Tokens |-> IF held[t] < pos[t] THEN held[t] ELSE pos[t]] IN
            Slips([t \in Tokens |-> IF held'[t] < real[t] THEN real[t] - held'[t] ELSE 0])
      BY <1>11 DEF Reconcile
    <3> DEFINE real == [t \in Tokens |-> IF held[t] < pos[t] THEN held[t] ELSE pos[t]]
               n == [t \in Tokens |-> IF held'[t] < real[t] THEN real[t] - held'[t] ELSE 0]
    <3>2. \A t \in Tokens : real[t] \in Nat BY DEF TypeOK
    <3>3. \A t \in Tokens : held'[t] \in Nat BY DEF TypeOK
    <3>4. \A t \in Tokens : n[t] \in Nat
      <4> HIDE DEF real
      <4> QED BY <3>2, <3>3
    <3>5. Slips(n) BY <3>1
    <3>6. missed' = missed /\ slip' = [t \in Tokens |-> slip[t] + n[t]]
      <4> HIDE DEF n
      <4> QED BY <3>5 DEF Slips
    <3> HIDE DEF n
    <3> QED BY <3>4, <3>6
  <2>3. \A t \in Tokens : slip[t] <= slip'[t]
    <3>1. PICK n : slip' = [t \in Tokens |-> slip[t] + n[t]] /\ \A t \in Tokens : n[t] \in Nat BY <2>2
    <3> QED BY <1>0, <3>1
  <2> QED BY <1>2, <2>1, <2>2, <2>3
<1>12. CASE Fetch \/ Poll \/ Ingest
  <2>1. UNCHANGED <<orders, pos, trades, toCancel, toPlace>>
    BY <1>12 DEF Fetch, Poll, Ingest, world
  <2>2. missed \subseteq missed' /\ slip' = slip BY <1>12 DEF Fetch, Poll, Ingest, Misses
  <2> QED BY <1>2, <1>3, <2>1, <2>2
<1>13. CASE Recovered \/ Register \/ RoundEnd \/ Abort \/ Crash
  <2>1. UNCHANGED <<orders, pos, trades, missed, slip>>
    BY <1>13 DEF Recovered, Register, RoundEnd, Abort, Crash, world, ghosts
  <2>2. toPlace' = {} \/ (toPlace' \subseteq toPlace /\ toCancel' = toCancel)
    BY <1>13 DEF Recovered, Register, RoundEnd, Abort, Crash, round
  <2> QED BY <1>2, <1>3, <2>1, <2>2
<1>14. CASE Plan BY <1>14, PlanPlan
<1>15. ASSUME NEW t \in Tokens, Execute(t) PROVE PlanInv' /\ OvershootBounded'
  <2>1. CASE Cancel(t)
    <3>1. /\ UNCHANGED <<pos, trades, toPlace>> /\ toCancel' = toCancel \ {t} /\ t \in toCancel
      BY <2>1 DEF Cancel
    <3>2. PICK done \in BOOLEAN :
            /\ orders' = IF done THEN [orders EXCEPT ![t] = 0] ELSE orders
            /\ Slips([u \in Tokens |-> IF u = t /\ ~done /\ toPlace # {} THEN orders[t] ELSE 0])
      BY <2>1 DEF Cancel
    <3>3. /\ missed' = missed
          /\ slip' = [u \in Tokens |-> slip[u] + (IF u = t /\ ~done /\ toPlace # {} THEN orders[t] ELSE 0)]
      BY <3>2 DEF Slips
    <3>4. \A u \in Tokens : slip[u] <= slip'[u] BY <1>0, <3>3
    <3>5. \A u \in Tokens : orders'[u] <= orders[u]
      <4>1. orders \in [Tokens -> Nat] BY DEF TypeOK
      <4>2. \A u \in Tokens : orders'[u] = IF done /\ u = t THEN 0 ELSE orders[u] BY <3>2, <4>1
      <4> QED BY <1>0, <4>2
    <3>6. \A u \in Tokens : Real'[u] <= Real[u] BY <1>0, <3>1, <3>5 DEF Real
    <3>7. CASE toPlace = {} BY <1>1, <3>1, <3>3, <3>4, <3>6, <3>7
    <3>8. CASE done
      <4>1. \A u \in Tokens : Load'[u] <= Load[u]
        <5>1. \A u \in Tokens : orders'[u] = IF u = t THEN 0 ELSE orders[u] BY <3>2, <3>8 DEF TypeOK
        <5> QED BY <1>0, <3>1, <5>1 DEF Load
      <4> QED BY <1>1, <3>1, <3>3, <3>4, <3>6, <4>1
    <3>9. CASE ~done /\ toPlace # {}
      <4>1. orders' = orders BY <3>2, <3>9
      <4>2. \A u \in Tokens : Unseen[u] <= Unseen'[u] BY <3>1, <3>3, <3>4, UnseenGrows
      <4>3. Unseen'[t] = Unseen[t] + orders[t]
        <5>1. MissedOf(t)' = MissedOf(t) BY <3>1, <3>3 DEF MissedOf
        <5>2. PICK c : c = Cardinality(MissedOf(t)) OBVIOUS
        <5>3. c \in Nat BY <5>2, LimitTypes, FS_CardinalityType
        <5>4. Unseen[t] = slip[t] + c /\ Unseen'[t] = slip'[t] + c BY <5>1, <5>2 DEF Unseen
        <5>5. slip'[t] = slip[t] + orders[t] BY <3>3, <3>9
        <5> QED BY <1>0, <5>3, <5>4, <5>5
      <4>4. ASSUME NEW u \in Tokens PROVE Load'[u] + Unseen[u] <= Load[u] + Unseen'[u]
        <5>1. PICK p : p = IF u \in toPlace THEN 1 ELSE 0 OBVIOUS
        <5>2. p \in Nat BY <5>1
        <5>3. /\ Load[u] = (IF u \in toCancel THEN 0 ELSE orders[u]) + pos[u] + p
              /\ Load'[u] = (IF u \in toCancel \ {t} THEN 0 ELSE orders[u]) + pos[u] + p
          BY <3>1, <4>1, <5>1 DEF Load
        <5>4. CASE u = t BY <1>0, <3>1, <4>3, <5>2, <5>3, <5>4
        <5>5. CASE u # t BY <1>0, <4>2, <5>2, <5>3, <5>5
        <5> QED BY <5>4, <5>5
      <4>5. \A u \in Tokens : Real'[u] + Unseen[u] <= Real[u] + Unseen'[u]
        <5>1. \A u \in Tokens : Real[u] \in Nat /\ Real'[u] \in Nat BY <1>0 DEF Real
        <5> QED BY <1>0, <3>6, <4>2, <5>1
      <4>6. ASSUME NEW s \in Scopes PROVE \A u \in s : Real'[u] + Unseen[u] <= Real[u] + Unseen'[u]
        BY <1>0, <4>5
      <4>7. ASSUME NEW s \in Scopes, toPlace' \cap s # {}
            PROVE  toPlace \cap s # {} /\ \A u \in s : Load'[u] + Unseen[u] <= Load[u] + Unseen'[u]
        BY <1>0, <3>1, <4>4, <4>7
      <4> QED BY <4>6, <4>7, PlanKept
    <3> QED BY <3>7, <3>8, <3>9
  <2>2. CASE WouldCross(t)
    BY <1>2, <1>3, <2>2 DEF WouldCross, world, ghosts
  <2>3. ASSUME Due(t), Rests(t) \/ Crosses(t), toPlace' \subseteq toPlace \ {t}, slip' = slip, toCancel' = toCancel
        PROVE  PlanInv' /\ OvershootBounded'
    <3>1. toCancel = {} /\ toCancel' = {} /\ t \in toPlace /\ t \notin toPlace' BY <2>3 DEF Due
    <3>2. /\ \A u \in Tokens : orders'[u] + pos'[u] = orders[u] + pos[u] + (IF u = t THEN 1 ELSE 0)
          /\ missed \subseteq missed'
      <4>1. CASE Rests(t)
        <5>1. orders \in [Tokens -> Nat] BY DEF TypeOK
        <5>2. \A u \in Tokens : orders'[u] = IF u = t THEN orders[u] + 1 ELSE orders[u] BY <4>1, <5>1 DEF Rests
        <5>3. pos' = pos /\ missed \subseteq missed' BY <4>1 DEF Rests
        <5> QED BY <1>0, <5>2, <5>3
      <4>2. CASE Crosses(t)
        <5>1. pos \in [Tokens -> Nat] BY DEF TypeOK
        <5>2. \A u \in Tokens : pos'[u] = IF u = t THEN pos[u] + 1 ELSE pos[u] BY <4>2, <5>1 DEF Crosses
        <5>3. orders' = orders /\ missed \subseteq missed' BY <4>2 DEF Crosses
        <5> QED BY <1>0, <5>2, <5>3
      <4> QED BY <2>3, <4>1, <4>2
    <3>3. \A i \in missed : trades'[i] = trades[i]
      <4>1. missed \subseteq 1..Len(trades) BY DEF TypeOK
      <4>2. CASE Rests(t) BY <4>2 DEF Rests
      <4>3. CASE Crosses(t) BY <4>1, <4>3, NewRow DEF Crosses
      <4> QED BY <2>3, <4>2, <4>3
    <3>4. \A u \in Tokens : Unseen[u] <= Unseen'[u] BY <1>3, <2>3, <3>2, <3>3, UnseenGrows
    <3>5. ASSUME NEW u \in Tokens
          PROVE  /\ Real[u] = orders[u] + pos[u] /\ Real'[u] = orders'[u] + pos'[u]
                 /\ Load[u] = orders[u] + pos[u] + (IF u \in toPlace THEN 1 ELSE 0)
                 /\ Load'[u] = orders'[u] + pos'[u] + (IF u \in toPlace' THEN 1 ELSE 0)
      BY <3>1 DEF Real, Load
    <3>6. ASSUME NEW u \in Tokens
          PROVE  /\ Real'[u] + Unseen[u] <= Load[u] + Unseen'[u]
                 /\ Load'[u] + Unseen[u] <= Load[u] + Unseen'[u]
                 /\ u # t => Real'[u] + Unseen[u] <= Real[u] + Unseen'[u]
      <4>1. CASE u = t BY <1>0, <3>1, <3>2, <3>4, <3>5, <4>1
      <4>2. CASE u # t
        <5>1. orders'[u] + pos'[u] = orders[u] + pos[u] BY <1>0, <3>2, <4>2
        <5>2. u \in toPlace' => u \in toPlace BY <2>3
        <5> QED BY <1>0, <3>4, <3>5, <4>2, <5>1, <5>2
      <4> QED BY <4>1, <4>2
    <3>7. ASSUME NEW s \in Scopes
          PROVE  \/ \A u \in s : Real'[u] + Unseen[u] <= Real[u] + Unseen'[u]
                 \/ toPlace \cap s # {} /\ \A u \in s : Real'[u] + Unseen[u] <= Load[u] + Unseen'[u]
      BY <1>0, <3>1, <3>6
    <3>8. ASSUME NEW s \in Scopes, toPlace' \cap s # {}
          PROVE  toPlace \cap s # {} /\ \A u \in s : Load'[u] + Unseen[u] <= Load[u] + Unseen'[u]
      BY <1>0, <2>3, <3>6, <3>8
    <3> QED BY <3>7, <3>8, PlanKept
  <2>4. CASE PlaceAccepted(t)
    <3>1. Due(t) /\ (Rests(t) \/ Crosses(t)) /\ toPlace' = toPlace \ {t} /\ slip' = slip /\ toCancel' = toCancel
      BY <2>4 DEF PlaceAccepted
    <3> QED BY <2>3, <3>1
  <2>5. CASE PlaceTransient(t)
    <3>1. Due(t) /\ toPlace' \subseteq toPlace \ {t} /\ slip' = slip /\ toCancel' = toCancel
      BY <2>5 DEF PlaceTransient
    <3>2. CASE Rests(t) \/ Crosses(t) BY <2>3, <3>1, <3>2
    <3>3. CASE UNCHANGED <<orders, pos, trades, missed>> BY <1>2, <1>3, <3>1, <3>3
    <3> QED BY <2>5, <3>2, <3>3 DEF PlaceTransient
  <2>6. CASE PlaceRejected(t)
    <3>1. UNCHANGED <<orders, pos, trades, missed, slip, toCancel>>
      BY <2>6 DEF PlaceRejected, world, ghosts
    <3>2. toPlace' \subseteq toPlace BY <2>6 DEF PlaceRejected
    <3> QED BY <1>2, <1>3, <3>1, <3>2
  <2> QED BY <1>15, <2>1, <2>2, <2>4, <2>5, <2>6 DEF Execute
<1> QED BY <1>4, <1>5, <1>7, <1>8, <1>9, <1>10, <1>11, <1>12, <1>13, <1>14, <1>15 DEF Next, Process

\* At first nothing is held, resting or unseen.
LEMMA Initially == Init => IInv
<1> SUFFICES ASSUME Init PROVE IInv
    OBVIOUS
<1>0. RejectLimit \in Nat \ {0} BY TailAssumption
<1>1. Zero \in [Tokens -> Nat] BY DEF Zero
<1>2. TypeOK
  <2>1. trades \in Seq([token : Tokens, maker : BOOLEAN]) /\ Len(trades) = 0 BY DEF Init
  <2> QED BY <1>0, <1>1, <2>1 DEF Init, TypeOK, Places
<1>3. RoundInv BY <1>0 DEF Init, RoundInv
<1>4. SightInv
  <2>1. ASSUME NEW t \in Tokens
        PROVE  Blind(t) <= slip[t] /\ Blind(t) + pos[t] <= held[t] + Cardinality(Dark(t)) + slip[t]
    <3>1. orders[t] = 0 /\ pos[t] = 0 /\ held[t] = 0 /\ slip[t] = 0 BY DEF Init, Zero
    <3>2. Blind(t) = 0 BY <3>1 DEF Blind
    <3>3. Dark(t) = {}
      <4>1. missed = {} /\ last = 0 /\ Len(trades) = 0 BY DEF Init
      <4>2. (last + 1)..Len(trades) = {} BY <4>1
      <4> QED BY <4>1, <4>2 DEF Dark, Unread
    <3>4. Cardinality(Dark(t)) = 0 BY <3>3, FS_EmptySet
    <3> QED BY <3>1, <3>2, <3>4
  <2> QED BY <2>1 DEF SightInv
<1>5. PlanInv BY DEF Init, PlanInv
<1>6. OvershootBounded
  <2>1. ASSUME NEW s \in Scopes PROVE Exposure(s) <= Limit(s) + Total(Unseen, s)
    <3>1. s \in SUBSET Tokens /\ Limit(s) \in Nat BY TailAssumption
    <3>2. orders = Zero /\ pos = Zero BY DEF Init
    <3>3. Units(Zero, s) = {}
      <4>1. \A t \in s : Zero[t] = 0 BY <3>1 DEF Zero
      <4>2. \A t \in s : 1..Zero[t] = {} BY <4>1
      <4> QED BY <4>2, InUnits
    <3>4. Total(Zero, s) = 0 BY <3>3, FS_EmptySet DEF Total
    <3>5. Exposure(s) = 0 BY <3>2, <3>4 DEF Exposure
    <3>6. Total(Unseen, s) \in Nat
      <4>1. \A t \in Tokens : MissedOf(t) = {} BY DEF Init, MissedOf
      <4>2. \A t \in Tokens : slip[t] = 0 BY DEF Init, Zero
      <4>3. Unseen \in [Tokens -> Nat] BY <4>1, <4>2, FS_EmptySet DEF Unseen
      <4> QED BY <3>1, <4>3, UnitsFinite
    <3> QED BY <3>1, <3>5, <3>6
  <2> QED BY <2>1 DEF OvershootBounded
<1> QED BY <1>2, <1>3, <1>4, <1>5, <1>6 DEF IInv

-----------------------------------------------------------------------------
(* Theorems.                                                                *)

\* The strengthened invariant: each position is in the ledger, will still be read, or
\* has been counted as missed or slipped, and each plan fits its limits but for those.
THEOREM Inductive == Spec => []IInv
<1>1. IInv /\ [Next]_vars => IInv'
  <2> SUFFICES ASSUME IInv, [Next]_vars PROVE IInv'
      OBVIOUS
  <2>1. TypeOK /\ RoundInv /\ SightInv /\ PlanInv /\ OvershootBounded BY DEF IInv
  <2>2. TypeOK' /\ RoundInv' BY <2>1, TypeStep
  <2>3. SightInv' BY <2>1, <2>2, SightStep
  <2>4. PlanInv' /\ OvershootBounded' BY <2>1, <2>2, PlanStep
  <2> QED BY <2>2, <2>3, <2>4 DEF IInv
<1> QED BY <1>1, Initially, PTL DEF Spec

\* The process state is always well formed; in particular a running program has had
\* fewer business rejects in a row than the halt limit (tail_vendor_main.cpp:556).
THEOREM TypeCorrect == Spec => []TypeOK
<1>1. IInv => TypeOK BY DEF IInv
<1> QED BY <1>1, Inductive, PTL

\* Every market, coin and book stays within its limit but for the units that were out of
\* the program's sight, one for one: whatever crosses, is filled during a round or while
\* the program is down, is not shown by a page, fails or is released falsely
\* (tail_vendor.cpp:191-236, tail_vendor_main.cpp:308-328,441-501).
THEOREM OvershootLimited == Spec => []OvershootBounded
<1>1. IInv => OvershootBounded BY DEF IInv
<1> QED BY <1>1, Inductive, PTL

=============================================================================
