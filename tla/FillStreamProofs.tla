-------------------------- MODULE FillStreamProofs --------------------------
(***************************************************************************)
(* TLAPS proofs about FillStream, for any sizes of the page, the memories   *)
(* of ids and the reordering that satisfy StreamAssumption, any number of   *)
(* trades, failed queries and crashes.                                      *)
(***************************************************************************)
EXTENDS FillStream, FiniteSetTheorems, TLAPS

Looping == pc \in {"run", "hand"}

\* How far publishing and polling are behind the exchange, and what a process that
\* has not reached its main loop has not done yet.
PaceInv ==
    /\ Len(trades) <= visible + Reorder
    /\ \A i \in 1..Len(trades) : trades[i] \in 0..MaxLegs
    /\ before <= visible
    /\ blind \/ cursor >= before
    /\ Looping => polled <= Len(trades) /\ Len(trades) <= polled + Reorder /\ before <= polled
    /\ ~Looping => queue = <<>> /\ batch = <<>> /\ wsSeen = Nothing /\ handed = None
                  /\ byRest = {} /\ polled = 0
    /\ pc \in {"down", "prime"} => seen = Nothing
    /\ pc \notin {"mark", "hand"} => rest = {}
    /\ pc \in {"prime", "mark"} => cursor <= before

\* Whatever is on its way to poll_fills lies in a window behind the last poll.
OfferInv ==
    /\ Looping => \A i \in Range(queue) : polled - Reorder < i /\ i <= Len(trades) /\ before - Reorder < i
    /\ \A i \in Range(batch) : polled - 2 * Reorder < i /\ i <= polled /\ before - Reorder < i
    /\ pc = "hand" => \A f \in rest : /\ polled - Reorder - Page < f[1] /\ f[1] <= polled
                                      /\ blind \/ before < f[1]
    /\ pc = "mark" => \A f \in rest : /\ ~blind /\ before - Page < f[1] /\ f[1] <= before
                                      /\ Len(seen.fifo) < MaxLegs * (before - f[1]) + f[2]

\* The runner's memory: first what the start-up marked, then what was handed over,
\* each trade once and never much older than an earlier one.
Fifo(n) ==
    /\ n <= MaxLegs * Page
    /\ n > 0 => ~blind
    /\ \A k \in 1..n : /\ handed[seen.fifo[k]] = 0 /\ seen.fifo[k] <= before
                       /\ seen.fifo[k] > polled - 2 * Reorder => seen.fifo[k] \in seen.ids
    /\ \A k \in (n + 1)..Len(seen.fifo) :
          handed[seen.fifo[k]] >= 1 /\ (n > 0 => seen.fifo[k] > before - Reorder)
    /\ \A k, l \in (n + 1)..Len(seen.fifo) :
          k < l => seen.fifo[k] # seen.fifo[l] /\ seen.fifo[l] > seen.fifo[k] - Window

\* No id is forgotten while its trade can be offered again.
SeenInv ==
    /\ \E n \in 0..Len(seen.fifo) : Fifo(n)
    /\ Looping => \A i \in Range(seen.fifo) : i <= polled
    /\ \A i \in Ids : handed[i] >= 1 /\ i > polled - Window => i \in seen.ids

\* A fill behind the cursor was handed over, is about to be, or was off the page.
CursorInv ==
    Looping => \A i \in (before + 1)..cursor :
        trades[i] > 0 => handed[i] > 0 \/ i \in offPage \/ \E f \in rest : f[1] = i

IInv == TypeOK /\ PaceInv /\ OfferInv /\ SeenInv /\ CursorInv /\ HandedOnce /\ NoReplayByRest

-----------------------------------------------------------------------------
(* Sequences and counting.                                                  *)

\* Different values from an interval cannot be more than the interval has.
LEMMA Counting ==
    ASSUME NEW lo \in Int, NEW hi \in Int, lo <= hi, NEW a \in Int, NEW b \in Int, NEW s,
           \A k \in lo..hi : s[k] \in a..b,
           \A k, l \in lo..hi : k < l => s[k] # s[l]
    PROVE  hi - lo <= b - a
<1> SUFFICES ASSUME b - a < hi - lo PROVE FALSE
    OBVIOUS
<1> DEFINE f == [k \in lo..hi |-> s[k]]
<1>1. f \in [lo..hi -> a..b] OBVIOUS
<1>2. IsFiniteSet(lo..hi) /\ Cardinality(lo..hi) = hi - lo + 1 BY FS_Interval
<1>3. IsFiniteSet(a..b) /\ Cardinality(a..b) = IF a > b THEN 0 ELSE b - a + 1 BY FS_Interval
<1>4. Cardinality(a..b) < Cardinality(lo..hi) BY <1>2, <1>3
<1>5. \E x, y \in lo..hi : x # y /\ f[x] = f[y]
  <2> HIDE DEF f
  <2> QED BY <1>1, <1>2, <1>3, <1>4, FS_PigeonHole
<1>6. PICK x \in lo..hi, y \in lo..hi : x # y /\ s[x] = s[y] BY <1>5
<1>7. x < y \/ y < x BY <1>6
<1> QED BY <1>6, <1>7

\* The elements of a longer sequence.
LEMMA Appended ==
    ASSUME NEW S, NEW s \in Seq(S), NEW x \in S
    PROVE  /\ Append(s, x) \in Seq(S) /\ Len(Append(s, x)) = Len(s) + 1 /\ Len(s) \in Nat
           /\ \A k \in 1..Len(s) : Append(s, x)[k] = s[k] /\ s[k] \in S
           /\ Append(s, x)[Len(s) + 1] = x
           /\ Range(Append(s, x)) = Range(s) \cup {x}
<1>1. Append(s, x) \in Seq(S) /\ Len(Append(s, x)) = Len(s) + 1 /\ Len(s) \in Nat OBVIOUS
<1>2. \A k \in 1..Len(s) : Append(s, x)[k] = s[k] /\ s[k] \in S OBVIOUS
<1>3. Append(s, x)[Len(s) + 1] = x OBVIOUS
<1>4. DOMAIN s = 1..Len(s) /\ DOMAIN Append(s, x) = 1..(Len(s) + 1) OBVIOUS
<1>5. Range(Append(s, x)) = Range(s) \cup {x}
  BY <1>1, <1>2, <1>3, <1>4 DEF Range
<1> QED BY <1>1, <1>2, <1>3, <1>5

\* The elements of a sequence without its first one.
LEMMA Shortened ==
    ASSUME NEW S, NEW s \in Seq(S), s # <<>>
    PROVE  /\ Tail(s) \in Seq(S) /\ Len(Tail(s)) = Len(s) - 1 /\ Len(s) \in Nat \ {0}
           /\ \A k \in 1..(Len(s) - 1) : Tail(s)[k] = s[k + 1]
           /\ Head(s) = s[1] /\ Head(s) \in S /\ Head(s) \in Range(s)
           /\ Range(Tail(s)) \subseteq Range(s)
           /\ Range(s) \subseteq Range(Tail(s)) \cup {s[1]}
<1>1. Tail(s) \in Seq(S) /\ Len(Tail(s)) = Len(s) - 1 /\ Len(s) \in Nat \ {0} OBVIOUS
<1>2. \A k \in 1..(Len(s) - 1) : Tail(s)[k] = s[k + 1] OBVIOUS
<1>3. Head(s) = s[1] /\ Head(s) \in S OBVIOUS
<1>4. DOMAIN s = 1..Len(s) /\ DOMAIN Tail(s) = 1..(Len(s) - 1) BY <1>1
<1>5. 1 \in 1..Len(s) BY <1>1
<1>6. Head(s) \in Range(s) BY <1>3, <1>4, <1>5 DEF Range
<1>7. \A k \in 1..(Len(s) - 1) : k + 1 \in 1..Len(s) BY <1>1
<1>8. Range(Tail(s)) \subseteq Range(s) BY <1>2, <1>4, <1>7 DEF Range
<1>9. ASSUME NEW k \in 1..Len(s) PROVE s[k] \in Range(Tail(s)) \cup {s[1]}
  <2>1. CASE k = 1 BY <2>1
  <2>2. CASE k # 1
    <3>1. k - 1 \in 1..(Len(s) - 1) /\ (k - 1) + 1 = k BY <1>1, <2>2
    <3> QED BY <1>2, <1>4, <3>1 DEF Range
  <2> QED BY <2>1, <2>2
<1> QED BY <1>1, <1>2, <1>3, <1>4, <1>6, <1>8, <1>9 DEF Range

\* What Remember does: the id is added at the end, and a full memory loses its oldest
\* entry.
Memory(m) == m.ids \subseteq Range(m.fifo) /\ m.fifo \in Seq(Ids) /\ Len(m.fifo) <= SeenCap
LEMMA Remembered ==
    ASSUME NEW m, Memory(m), NEW i \in Ids
    PROVE  /\ Memory(Remember(m, i))
           /\ Range(Remember(m, i).fifo) \subseteq Range(m.fifo) \cup {i}
           /\ Len(m.fifo) < SeenCap =>
                /\ Remember(m, i).ids = m.ids \cup {i}
                /\ Remember(m, i).fifo = Append(m.fifo, i)
           /\ Len(m.fifo) = SeenCap =>
                /\ Remember(m, i).ids = (m.ids \cup {i}) \ {m.fifo[1]}
                /\ Len(Remember(m, i).fifo) = SeenCap
                /\ \A k \in 1..SeenCap : Remember(m, i).fifo[k] = Append(m.fifo, i)[k + 1]
<1> USE StreamAssumption DEF Memory
<1>1. /\ Append(m.fifo, i) \in Seq(Ids) /\ Len(Append(m.fifo, i)) = Len(m.fifo) + 1
      /\ Len(m.fifo) \in Nat
      /\ \A k \in 1..Len(m.fifo) : Append(m.fifo, i)[k] = m.fifo[k]
      /\ Range(Append(m.fifo, i)) = Range(m.fifo) \cup {i}
  BY Appended
<1>2. CASE Len(m.fifo) < SeenCap
  <2>1. Remember(m, i) = [ids |-> m.ids \cup {i}, fifo |-> Append(m.fifo, i)]
    BY <1>1, <1>2 DEF Remember
  <2> QED BY <1>1, <1>2, <2>1
<1>3. CASE Len(m.fifo) = SeenCap
  <2>1. PICK t : t = Append(m.fifo, i) OBVIOUS
  <2>2. t \in Seq(Ids) /\ Len(t) = SeenCap + 1 /\ t[1] = m.fifo[1] /\ Range(t) = Range(m.fifo) \cup {i}
    BY <1>1, <1>3, <2>1
  <2>3. t # <<>> BY <2>2
  <2>4. /\ Tail(t) \in Seq(Ids) /\ Len(Tail(t)) = Len(t) - 1
        /\ \A k \in 1..(Len(t) - 1) : Tail(t)[k] = t[k + 1]
        /\ Head(t) = t[1] /\ Range(Tail(t)) \subseteq Range(t)
        /\ Range(t) \subseteq Range(Tail(t)) \cup {t[1]}
    BY <2>2, <2>3, Shortened
  <2>5. Remember(m, i) = [ids |-> (m.ids \cup {i}) \ {Head(t)}, fifo |-> Tail(t)]
    <3>1. Len(t) > SeenCap BY <2>2
    <3> QED BY <2>1, <3>1 DEF Remember
  <2>6. (m.ids \cup {i}) \ {Head(t)} \subseteq Range(Tail(t)) BY <2>2, <2>4
  <2>7. Len(Tail(t)) = SeenCap /\ \A k \in 1..SeenCap : Tail(t)[k] = t[k + 1] BY <2>2, <2>4
  <2> QED BY <1>3, <2>1, <2>2, <2>4, <2>5, <2>6, <2>7
<1> QED BY <1>1, <1>2, <1>3

-----------------------------------------------------------------------------
(* The runner's memory.                                                     *)

\* The arithmetic every step below needs.
Counts ==
    /\ SeenCap \in Nat \ {0} /\ Page \in Nat \ {0} /\ Reorder \in Nat \ {0} /\ MaxLegs \in Nat \ {0}
    /\ Window \in Nat /\ Window >= Reorder + Page /\ Window >= 2 * Reorder
    /\ 2 * Window - 1 <= SeenCap
    /\ MaxLegs * Page \in Nat /\ MaxLegs * Page + 3 * Reorder - 2 <= SeenCap
    /\ Len(trades) \in Nat /\ visible \in Nat /\ cursor \in Nat /\ before \in Nat /\ polled \in Nat
    /\ faults \in Nat /\ MaxTrades \in Nat /\ MaxFaults \in Nat /\ visible <= Len(trades) /\ cursor <= visible
    /\ Len(trades) <= MaxTrades
    /\ Memory(seen) /\ Memory(wsSeen) /\ Len(seen.fifo) \in Nat /\ blind \in BOOLEAN

\* It follows from the types.
LEMMA Numbers == ASSUME TypeOK PROVE Counts
<1>1. MaxLegs * Page \in Nat BY StreamAssumption
<1>2. Window \in Nat /\ Window >= Reorder + Page /\ Window >= 2 * Reorder
  BY StreamAssumption DEF Window
<1>3. Memory(seen) /\ Memory(wsSeen) BY DEF TypeOK, Memory
<1>4. Len(seen.fifo) \in Nat BY <1>3 DEF Memory
<1>5. Len(trades) \in Nat BY DEF TypeOK
<1> QED BY <1>1, <1>2, <1>3, <1>4, <1>5, StreamAssumption DEF TypeOK, Counts

\* An id as poll_fills meets it.
Offered(i) ==
    /\ i \in Ids /\ polled - Window < i /\ i <= polled
    /\ blind \/ before - Reorder < i
    /\ blind \/ before < i \/ polled - 2 * Reorder < i

\* The oldest entry of a full memory is too old to be offered again when a new id
\* pushes it out: counted against the window, the entries behind it are too many.
LEMMA OldestIsDead ==
    ASSUME IInv, pc = "hand", NEW i, Offered(i), i \notin seen.ids, Len(seen.fifo) = SeenCap,
           NEW n \in 0..Len(seen.fifo), Fifo(n)
    PROVE  /\ n = 0 => seen.fifo[1] <= polled - Window
           /\ n > 0 => seen.fifo[1] <= polled - 2 * Reorder
<1>0. Counts BY Numbers DEF IInv
<1>1. PICK h : h = seen.fifo[1] OBVIOUS
<1>2. PICK t : t = Append(seen.fifo, i) OBVIOUS
<1>3. /\ \A k \in 1..SeenCap : t[k] = seen.fifo[k] /\ t[k] \in Int /\ t[k] \in Range(seen.fifo)
      /\ t[SeenCap + 1] = i /\ h \in Int /\ h = t[1] /\ i \in Int
  <2>1. seen.fifo \in Seq(Ids) /\ i \in Ids BY <1>0 DEF Counts, Memory, Offered
  <2>2. /\ \A k \in 1..SeenCap : t[k] = seen.fifo[k] /\ seen.fifo[k] \in Ids
        /\ t[SeenCap + 1] = i
    BY <1>2, <2>1, Appended
  <2>3. \A k \in 1..SeenCap : seen.fifo[k] \in Range(seen.fifo) BY <2>1 DEF Range
  <2>4. 1 \in 1..SeenCap BY <1>0 DEF Counts
  <2>5. \A j \in Ids : j \in Int BY DEF Ids
  <2> QED BY <1>1, <2>1, <2>2, <2>3, <2>4, <2>5
<1>4. \A j \in Range(seen.fifo) : j <= polled BY DEF IInv, SeenInv, Looping
<1>5. handed[i] = 0
  <2>1. handed[i] \in Nat BY DEF IInv, TypeOK, Offered
  <2> QED BY <2>1 DEF IInv, SeenInv, Offered
<1>6. \A k \in (n + 1)..SeenCap : handed[t[k]] >= 1 /\ (n > 0 => t[k] > before - Reorder)
  BY <1>0, <1>3 DEF Fifo, Counts
<1>7. \A k, l \in (n + 1)..SeenCap : k < l => t[k] # t[l] /\ t[l] > t[k] - Window
  <2>1. \A k \in (n + 1)..SeenCap : k \in 1..SeenCap BY <1>0 DEF Counts
  <2>2. \A k \in (n + 1)..SeenCap : t[k] = seen.fifo[k] BY <1>3, <2>1
  <2>3. \A k, l \in (n + 1)..SeenCap :
           k < l => seen.fifo[k] # seen.fifo[l] /\ seen.fifo[l] > seen.fifo[k] - Window
    BY DEF Fifo
  <2> QED BY <2>2, <2>3
<1>8. \A k, l \in (n + 1)..(SeenCap + 1) : k < l => t[k] # t[l]
  <2> SUFFICES ASSUME NEW k \in (n + 1)..(SeenCap + 1), NEW l \in (n + 1)..(SeenCap + 1), k < l
               PROVE  t[k] # t[l]
      OBVIOUS
  <2>1. k \in (n + 1)..SeenCap BY <1>0 DEF Counts
  <2>2. CASE l \in (n + 1)..SeenCap BY <1>7, <2>1, <2>2
  <2>3. CASE l = SeenCap + 1 BY <1>3, <1>5, <1>6, <2>1, <2>3
  <2>4. SeenCap \in Nat /\ n \in Nat BY <1>0 DEF Counts
  <2>5. l \in (n + 1)..SeenCap \/ l = SeenCap + 1 BY <2>4
  <2> QED BY <2>2, <2>3, <2>5
<1>9. ASSUME n = 0, h > polled - Window PROVE FALSE
  <2>1. \A k \in 1..(SeenCap + 1) : t[k] \in (h - Window + 1)..(h + Window - 1)
    <3> SUFFICES ASSUME NEW k \in 1..(SeenCap + 1)
                 PROVE  t[k] \in (h - Window + 1)..(h + Window - 1)
        OBVIOUS
    <3>1. CASE k = 1 BY <1>0, <1>3, <3>1 DEF Counts
    <3>2. CASE k \in 2..SeenCap
      <4>1. t[k] > h - Window BY <1>0, <1>3, <1>7, <1>9, <3>2 DEF Counts
      <4>2. t[k] <= polled BY <1>3, <1>4, <3>2
      <4> QED BY <1>0, <1>3, <1>9, <3>2, <4>1, <4>2 DEF Counts
    <3>3. CASE k = SeenCap + 1
      <4>0. 1 \in 1..SeenCap BY <1>0 DEF Counts
      <4>1. h <= polled BY <1>3, <1>4, <4>0
      <4> QED BY <1>0, <1>3, <1>9, <3>3, <4>1 DEF Counts, Offered
    <3> QED BY <1>0, <3>1, <3>2, <3>3 DEF Counts
  <2>2. (SeenCap + 1) - 1 <= (h + Window - 1) - (h - Window + 1)
    <3>1. \A k, l \in 1..(SeenCap + 1) : k < l => t[k] # t[l] BY <1>8, <1>9
    <3>2. 1 \in Int /\ 1 <= SeenCap + 1 /\ SeenCap + 1 \in Int /\ h - Window + 1 \in Int /\ h + Window - 1 \in Int
      BY <1>0, <1>3 DEF Counts
    <3> QED BY <2>1, <3>1, <3>2, Counting
  <2> QED BY <1>0, <1>3, <2>2 DEF Counts
<1>10. ASSUME n > 0, h > polled - 2 * Reorder PROVE FALSE
  <2> DEFINE u == [k \in n..(SeenCap + 1) |-> IF k = n THEN h ELSE t[k]]
  <2>1. ~blind /\ handed[h] = 0 /\ h <= before
    BY <1>0, <1>1, <1>10 DEF Fifo, Counts
  <2>2. h # i BY <1>0, <1>1, <1>10 DEF Fifo, Counts
  <2>3. \A k \in n..(SeenCap + 1) : k = n \/ k \in (n + 1)..SeenCap \/ k = SeenCap + 1
    BY <1>0 DEF Counts
  <2>4. \A k \in n..(SeenCap + 1) : u[k] \in (h - Reorder + 1)..(h + 2 * Reorder - 1)
    <3> SUFFICES ASSUME NEW k \in n..(SeenCap + 1)
                 PROVE  u[k] \in (h - Reorder + 1)..(h + 2 * Reorder - 1)
        OBVIOUS
    <3>1. CASE k = n BY <1>0, <1>3, <3>1 DEF Counts
    <3>2. CASE k \in (n + 1)..SeenCap
      <4>1. u[k] = t[k] /\ k \in 1..SeenCap BY <1>0, <3>2 DEF Counts
      <4>2. t[k] > h - Reorder BY <1>0, <1>3, <1>6, <1>10, <2>1, <3>2, <4>1 DEF Counts
      <4>3. t[k] <= polled BY <1>3, <1>4, <4>1
      <4> HIDE DEF u
      <4> QED BY <1>0, <1>3, <1>10, <4>1, <4>2, <4>3 DEF Counts
    <3>3. CASE k = SeenCap + 1
      <4>1. u[k] = i BY <1>0, <1>3, <3>3 DEF Counts
      <4>2. i > h - Reorder /\ i <= polled BY <1>0, <1>3, <2>1 DEF Counts, Offered
      <4> HIDE DEF u
      <4> QED BY <1>0, <1>3, <1>10, <4>1, <4>2 DEF Counts
    <3> QED BY <2>3, <3>1, <3>2, <3>3
  <2>5. \A k, l \in n..(SeenCap + 1) : k < l => u[k] # u[l]
    <3> SUFFICES ASSUME NEW k \in n..(SeenCap + 1), NEW l \in n..(SeenCap + 1), k < l
                 PROVE  u[k] # u[l]
        OBVIOUS
    <3>1. l \in (n + 1)..(SeenCap + 1) /\ u[l] = t[l] BY <1>0 DEF Counts
    <3>2. t[l] # h
      <4>1. CASE l = SeenCap + 1 BY <1>3, <2>2, <4>1
      <4>2. CASE l \in (n + 1)..SeenCap
        <5>1. handed[t[l]] >= 1 BY <1>6, <4>2
        <5> QED BY <2>1, <5>1
      <4> QED BY <1>0, <3>1, <4>1, <4>2 DEF Counts
    <3>3. CASE k = n
      <4>1. u[k] = h BY <3>3
      <4> QED BY <3>1, <3>2, <4>1
    <3>4. CASE k # n
      <4>1. k \in (n + 1)..(SeenCap + 1) /\ u[k] = t[k] BY <1>0, <3>4 DEF Counts
      <4> QED BY <1>8, <3>1, <4>1
    <3> QED BY <3>3, <3>4
  <2>6. (SeenCap + 1) - n <= (h + 2 * Reorder - 1) - (h - Reorder + 1)
    <3>1. n \in Int /\ n <= SeenCap + 1 /\ SeenCap + 1 \in Int
          /\ h - Reorder + 1 \in Int /\ h + 2 * Reorder - 1 \in Int
      BY <1>0, <1>3 DEF Counts
    <3> HIDE DEF u
    <3> QED BY <2>4, <2>5, <3>1, Counting
  <2>7. n <= MaxLegs * Page BY DEF Fifo
  <2> QED BY <1>0, <1>3, <2>6, <2>7 DEF Counts
<1>11. h > polled - Window \/ h <= polled - Window BY <1>0, <1>3 DEF Counts
<1>12. h > polled - 2 * Reorder \/ h <= polled - 2 * Reorder BY <1>0, <1>3 DEF Counts
<1> QED BY <1>1, <1>9, <1>10, <1>11, <1>12

\* One id goes through poll_fills: the memory stays as it should be, no trade is handed
\* over twice, and one that is newer than the start has been handed over now.
LEMMA Passed ==
    ASSUME IInv, pc = "hand", NEW i, Offered(i), Pass(i), UNCHANGED <<pc, before, blind, polled>>
    PROVE  /\ Memory(seen') /\ handed' \in [Ids -> Nat] /\ SeenInv' /\ HandedOnce'
           /\ \A j \in Ids : handed'[j] >= handed[j]
           /\ i > before => handed'[i] > 0
<1>0. Counts BY Numbers DEF IInv
<1>1. handed \in [Ids -> Nat] /\ i \in Ids /\ i \in Int /\ Memory(seen) /\ seen.fifo \in Seq(Ids)
  BY <1>0 DEF IInv, TypeOK, Offered, Counts, Memory, Ids
<1>2. PICK n \in 0..Len(seen.fifo) : Fifo(n) BY DEF IInv, SeenInv
<1>3. DOMAIN seen.fifo = 1..Len(seen.fifo) /\ Len(seen.fifo) \in Nat BY <1>1
<1>4. \A k \in 1..Len(seen.fifo) : seen.fifo[k] \in Range(seen.fifo) /\ seen.fifo[k] \in Ids
                                   /\ seen.fifo[k] \in Int /\ seen.fifo[k] <= polled
  <2>1. \A k \in 1..Len(seen.fifo) : seen.fifo[k] \in Range(seen.fifo) /\ seen.fifo[k] \in Ids
    BY <1>1, <1>3 DEF Range
  <2>2. \A j \in Range(seen.fifo) : j <= polled BY DEF IInv, SeenInv, Looping
  <2>3. \A j \in Ids : j \in Int BY DEF Ids
  <2> QED BY <2>1, <2>2, <2>3
<1>5. CASE i \in seen.ids
  <2>1. seen' = seen /\ handed' = handed BY <1>5 DEF Pass
  <2>2. SeenInv' /\ HandedOnce'
    <3>1. SeenInv /\ HandedOnce BY DEF IInv
    <3> QED BY <2>1, <3>1 DEF SeenInv, HandedOnce, Fifo, Looping
  <2>3. i > before => handed[i] > 0
    <3>1. PICK k \in 1..Len(seen.fifo) : seen.fifo[k] = i
      BY <1>1, <1>3, <1>5 DEF Memory, Range
    <3>2. k \in 1..n \/ k \in (n + 1)..Len(seen.fifo) BY <1>3
    <3>3. k \in 1..n => i <= before BY <1>2, <3>1 DEF Fifo
    <3>4. k \in (n + 1)..Len(seen.fifo) => handed[i] >= 1 BY <1>2, <3>1 DEF Fifo
    <3>5. before \in Int /\ handed[i] \in Int BY <1>0, <1>1 DEF Counts
    <3> QED BY <1>1, <3>2, <3>3, <3>4, <3>5
  <2>4. \A j \in Ids : handed[j] \in Nat BY <1>1
  <2> QED BY <1>1, <2>1, <2>2, <2>3, <2>4
<1>6. CASE i \notin seen.ids
  <2>1. seen' = Remember(seen, i) /\ handed' = [handed EXCEPT ![i] = @ + 1] BY <1>6 DEF Pass
  <2>2. handed[i] = 0
    <3>1. handed[i] \in Nat BY <1>1
    <3>2. handed[i] >= 1 => i \in seen.ids BY <1>1 DEF IInv, SeenInv, Offered
    <3> QED BY <1>6, <3>1, <3>2
  <2>3. handed'[i] = 1 /\ (\A j \in Ids : j # i => handed'[j] = handed[j]) /\ handed' \in [Ids -> Nat]
    BY <1>1, <2>1, <2>2
  <2>4. HandedOnce' BY <2>3 DEF IInv, HandedOnce
  <2>5. \A j \in Ids : handed'[j] >= handed[j]
    <3>1. \A j \in Ids : handed[j] \in Nat BY <1>1
    <3> QED BY <2>2, <2>3, <3>1
  <2>6. PICK t : t = Append(seen.fifo, i) OBVIOUS
  <2>7. PICK L : L = Len(seen.fifo) OBVIOUS
  <2>8. /\ t \in Seq(Ids) /\ Len(t) = L + 1 /\ L \in Nat /\ t[L + 1] = i /\ n \in 0..L
        /\ \A k \in 1..L : t[k] = seen.fifo[k]
    BY <1>1, <1>3, <2>6, <2>7, Appended
  <2>9. /\ Memory(seen') /\ Range(seen'.fifo) \subseteq Range(seen.fifo) \cup {i}
        /\ L < SeenCap => seen'.ids = seen.ids \cup {i} /\ seen'.fifo = t
        /\ L = SeenCap => /\ seen'.ids = (seen.ids \cup {i}) \ {seen.fifo[1]}
                          /\ Len(seen'.fifo) = SeenCap
                          /\ \A k \in 1..SeenCap : seen'.fifo[k] = t[k + 1]
    <3>1. /\ Memory(Remember(seen, i))
          /\ Range(Remember(seen, i).fifo) \subseteq Range(seen.fifo) \cup {i}
          /\ Len(seen.fifo) < SeenCap =>
               /\ Remember(seen, i).ids = seen.ids \cup {i}
               /\ Remember(seen, i).fifo = Append(seen.fifo, i)
          /\ Len(seen.fifo) = SeenCap =>
               /\ Remember(seen, i).ids = (seen.ids \cup {i}) \ {seen.fifo[1]}
               /\ Len(Remember(seen, i).fifo) = SeenCap
               /\ \A k \in 1..SeenCap : Remember(seen, i).fifo[k] = Append(seen.fifo, i)[k + 1]
      BY <1>1, Remembered
    <3>2. seen' = Remember(seen, i) /\ Append(seen.fifo, i) = t /\ Len(seen.fifo) = L
      BY <2>1, <2>6, <2>7
    <3>3. Memory(seen') BY <3>1, <3>2 DEF Memory
    <3> QED BY <3>1, <3>2, <3>3
  <2>10. L < SeenCap \/ L = SeenCap
    <3>1. L <= SeenCap /\ L \in Nat /\ SeenCap \in Nat BY <1>0, <1>1, <2>7, <2>8 DEF Memory, Counts
    <3> QED BY <3>1
  \* An entry of the start-up is not the new id.
  <2>11. ASSUME NEW k \in 1..n PROVE t[k] # i /\ k \in 1..L
    <3>1. k \in 1..L /\ t[k] = seen.fifo[k] BY <2>8
    <3>2. seen.fifo[k] <= before /\ (seen.fifo[k] > polled - 2 * Reorder => seen.fifo[k] \in seen.ids)
      BY <1>2 DEF Fifo
    <3>3. ~blind BY <1>2, <2>8 DEF Fifo
    <3> QED BY <1>0, <1>1, <1>6, <3>1, <3>2, <3>3 DEF Offered, Counts
  \* What Fifo says of the memory with the new id at its end.
  <2>12. \A k \in 1..n : handed'[t[k]] = 0 /\ t[k] <= before
    <3> SUFFICES ASSUME NEW k \in 1..n PROVE handed'[t[k]] = 0 /\ t[k] <= before
        OBVIOUS
    <3>1. t[k] # i /\ t[k] = seen.fifo[k] /\ seen.fifo[k] \in Ids BY <1>4, <2>7, <2>8, <2>11
    <3>2. handed[seen.fifo[k]] = 0 /\ seen.fifo[k] <= before BY <1>2 DEF Fifo
    <3> QED BY <2>3, <3>1, <3>2
  <2>13. \A k \in (n + 1)..(L + 1) : handed'[t[k]] >= 1 /\ (n > 0 => t[k] > before - Reorder)
    <3> SUFFICES ASSUME NEW k \in (n + 1)..(L + 1)
                 PROVE  handed'[t[k]] >= 1 /\ (n > 0 => t[k] > before - Reorder)
        OBVIOUS
    <3>1. CASE k = L + 1
      <4>1. t[k] = i BY <2>8, <3>1
      <4>2. n > 0 => i > before - Reorder BY <1>0, <1>1, <1>2 DEF Fifo, Offered, Counts
      <4> QED BY <2>3, <4>1, <4>2
    <3>2. CASE k # L + 1
      <4>1. k \in (n + 1)..L /\ k \in 1..L BY <2>8, <3>2
      <4>2. t[k] = seen.fifo[k] /\ seen.fifo[k] \in Ids BY <1>4, <2>7, <2>8, <4>1
      <4>3. handed[seen.fifo[k]] >= 1 /\ (n > 0 => seen.fifo[k] > before - Reorder)
        BY <1>2, <2>7, <4>1 DEF Fifo
      <4>4. handed'[seen.fifo[k]] >= 1 BY <2>3, <4>2, <4>3
      <4> QED BY <4>2, <4>3, <4>4
    <3> QED BY <3>1, <3>2
  <2>14. \A k, l \in (n + 1)..(L + 1) : k < l => t[k] # t[l] /\ t[l] > t[k] - Window
    <3> SUFFICES ASSUME NEW k \in (n + 1)..(L + 1), NEW l \in (n + 1)..(L + 1), k < l
                 PROVE  t[k] # t[l] /\ t[l] > t[k] - Window
        OBVIOUS
    <3>1. k \in (n + 1)..L /\ k \in 1..L BY <2>8
    <3>2. t[k] = seen.fifo[k] /\ seen.fifo[k] \in Int /\ seen.fifo[k] <= polled
      BY <1>4, <2>7, <2>8, <3>1
    <3>3. CASE l = L + 1
      <4>1. t[l] = i BY <2>8, <3>3
      <4>2. handed[seen.fifo[k]] >= 1 BY <1>2, <2>7, <3>1 DEF Fifo
      <4>3. seen.fifo[k] # i BY <2>2, <4>2
      <4>4. i > seen.fifo[k] - Window
        <5>1. polled \in Int /\ Window \in Int BY <1>0 DEF Counts
        <5>2. polled - Window < i BY DEF Offered
        <5>3. PICK e : e = seen.fifo[k] OBVIOUS
        <5>4. e \in Int /\ e <= polled /\ i \in Int BY <1>1, <3>2, <5>3
        <5>5. i > e - Window BY <5>1, <5>2, <5>4
        <5> QED BY <5>3, <5>5
      <4> QED BY <3>2, <4>1, <4>3, <4>4
    <3>4. CASE l # L + 1
      <4>1. l \in (n + 1)..L /\ l \in 1..L BY <2>8, <3>4
      <4>2. t[l] = seen.fifo[l] BY <2>8, <4>1
      <4>3. seen.fifo[k] # seen.fifo[l] /\ seen.fifo[l] > seen.fifo[k] - Window
        BY <1>2, <2>7, <3>1, <4>1 DEF Fifo
      <4> QED BY <3>2, <4>2, <4>3
    <3> QED BY <3>3, <3>4
  <2>15. \A j \in Range(seen'.fifo) : j <= polled
    <3>1. \A j \in Range(seen.fifo) : j <= polled BY DEF IInv, SeenInv, Looping
    <3>2. i <= polled BY DEF Offered
    <3> QED BY <2>9, <3>1, <3>2
  <2>16. \A j \in Ids : handed'[j] >= 1 /\ j > polled - Window => j \in seen.ids \cup {i}
    BY <2>3 DEF IInv, SeenInv
  <2>17. n <= MaxLegs * Page /\ (n > 0 => ~blind) BY <1>2 DEF Fifo
  <2>18. CASE L < SeenCap
    <3>1. seen'.ids = seen.ids \cup {i} /\ seen'.fifo = t BY <2>9, <2>18
    <3>2. Fifo(n)'
      <4>1. \A k \in 1..n : t[k] > polled - 2 * Reorder => t[k] \in seen'.ids
        <5> SUFFICES ASSUME NEW k \in 1..n, t[k] > polled - 2 * Reorder PROVE t[k] \in seen.ids
            BY <3>1
        <5>1. t[k] = seen.fifo[k] BY <2>8, <2>11
        <5> QED BY <1>2, <5>1 DEF Fifo
      <4> QED BY <2>8, <2>12, <2>13, <2>14, <2>17, <3>1, <4>1 DEF Fifo
    <3>3. n \in 0..Len(seen'.fifo) BY <2>8, <3>1
    <3>4. \E m \in 0..Len(seen'.fifo) : Fifo(m)' BY <3>2, <3>3
    <3>5. SeenInv'
      BY <2>15, <2>16, <3>1, <3>4 DEF SeenInv
    <3> QED BY <2>3, <2>4, <2>5, <2>9, <3>5
  <2>19. CASE L = SeenCap
    <3>1. PICK h : h = seen.fifo[1] OBVIOUS
    <3>2. /\ n = 0 => h <= polled - Window
          /\ n > 0 => h <= polled - 2 * Reorder
      BY <1>2, <1>6, <2>7, <2>19, <3>1, OldestIsDead
    <3>3. /\ seen'.ids = (seen.ids \cup {i}) \ {h} /\ Len(seen'.fifo) = SeenCap
          /\ \A k \in 1..SeenCap : seen'.fifo[k] = t[k + 1]
      BY <2>9, <2>19, <3>1
    <3>4. h \in Int /\ SeenCap \in Nat /\ SeenCap >= 1 /\ h = t[1]
      <4>1. SeenCap \in Nat /\ SeenCap >= 1 BY <1>0 DEF Counts
      <4>2. 1 \in 1..L BY <2>19, <4>1
      <4> QED BY <1>4, <2>7, <2>8, <3>1, <4>1, <4>2
    <3>5. PICK m : m = IF n = 0 THEN 0 ELSE n - 1 OBVIOUS
    <3>6. /\ m \in 0..SeenCap /\ m <= n /\ (m > 0 => n > 0) /\ m <= MaxLegs * Page
          /\ \A k \in 1..m : k + 1 \in 1..n /\ k \in 1..SeenCap
          /\ \A k \in (m + 1)..SeenCap : k + 1 \in (n + 1)..(L + 1) /\ k \in 1..SeenCap
      <4>1. n \in 0..SeenCap /\ MaxLegs * Page \in Nat /\ n <= MaxLegs * Page
        BY <1>0, <2>8, <2>17, <2>19 DEF Counts
      <4> QED BY <2>19, <3>4, <3>5, <4>1
    <3>7. \A k \in 1..m : /\ handed'[seen'.fifo[k]] = 0 /\ seen'.fifo[k] <= before
                          /\ seen'.fifo[k] > polled - 2 * Reorder => seen'.fifo[k] \in seen'.ids
      <4> SUFFICES ASSUME NEW k \in 1..m
                   PROVE  /\ handed'[t[k + 1]] = 0 /\ t[k + 1] <= before
                          /\ t[k + 1] > polled - 2 * Reorder => t[k + 1] \in seen'.ids
          BY <3>3, <3>6
      <4>1. k + 1 \in 1..n BY <3>6
      <4>2. handed'[t[k + 1]] = 0 /\ t[k + 1] <= before BY <2>12, <4>1
      <4>3. ASSUME t[k + 1] > polled - 2 * Reorder PROVE t[k + 1] \in seen'.ids
        <5>1. t[k + 1] = seen.fifo[k + 1] BY <2>8, <2>11, <4>1
        <5>2. t[k + 1] \in seen.ids BY <1>2, <4>1, <4>3, <5>1 DEF Fifo
        <5>3. n > 0 BY <4>1
        <5>4. t[k + 1] # h
          <6>1. t[k + 1] \in Int BY <1>4, <2>7, <2>8, <2>11, <4>1
          <6> QED BY <1>0, <3>2, <3>4, <4>3, <5>3, <6>1 DEF Counts
        <5> QED BY <3>3, <5>2, <5>4
      <4> QED BY <4>2, <4>3
    <3>8. \A k \in (m + 1)..SeenCap :
             handed'[seen'.fifo[k]] >= 1 /\ (m > 0 => seen'.fifo[k] > before - Reorder)
      <4> SUFFICES ASSUME NEW k \in (m + 1)..SeenCap
                   PROVE  handed'[t[k + 1]] >= 1 /\ (m > 0 => t[k + 1] > before - Reorder)
          BY <3>3, <3>6
      <4> QED BY <2>13, <3>6
    <3>9. \A k, l \in (m + 1)..SeenCap :
             k < l => seen'.fifo[k] # seen'.fifo[l] /\ seen'.fifo[l] > seen'.fifo[k] - Window
      <4> SUFFICES ASSUME NEW k \in (m + 1)..SeenCap, NEW l \in (m + 1)..SeenCap, k < l
                   PROVE  t[k + 1] # t[l + 1] /\ t[l + 1] > t[k + 1] - Window
          BY <3>3, <3>6
      <4>1. k + 1 < l + 1 BY <3>6
      <4> QED BY <2>14, <3>6, <4>1
    <3>10. Fifo(m)' BY <2>17, <3>3, <3>6, <3>7, <3>8, <3>9 DEF Fifo
    <3>11. \A j \in Ids : handed'[j] >= 1 /\ j > polled - Window => j \in seen'.ids
      <4> SUFFICES ASSUME NEW j \in Ids, handed'[j] >= 1, j > polled - Window PROVE j # h
          BY <2>16, <3>3
      <4>1. j \in Int BY DEF Ids
      <4>2. CASE n = 0 BY <1>0, <3>2, <3>4, <4>1, <4>2 DEF Counts
      <4>3. CASE n > 0
        <5>1. 1 \in 1..n BY <4>3
        <5>2. handed'[h] = 0 BY <2>12, <3>4, <5>1
        <5> QED BY <5>2
      <4>4. n = 0 \/ n > 0 BY <2>8
      <4> QED BY <4>2, <4>3, <4>4
    <3>12. \E k \in 0..Len(seen'.fifo) : Fifo(k)' BY <3>3, <3>6, <3>10
    <3>13. SeenInv' BY <2>15, <3>11, <3>12 DEF SeenInv
    <3> QED BY <2>3, <2>4, <2>5, <2>9, <3>13
  <2> QED BY <2>10, <2>18, <2>19
<1> QED BY <1>5, <1>6

-----------------------------------------------------------------------------
(* What a query returns.                                                    *)

\* The fills of an answer are of the rows after the cursor, and every row after the
\* cursor is in the answer or has left the page.
LEMMA Queried ==
    ASSUME TypeOK, PaceInv
    PROVE  /\ NextCursor = visible
           /\ Fills \subseteq Ids \X (1..MaxLegs)
           /\ \A f \in Fills : /\ f[1] \in Int /\ f[2] \in 1..MaxLegs
                               /\ cursor < f[1] /\ f[1] <= visible /\ visible - Page < f[1]
           /\ \A i \in NewRows : i \in Ids /\ cursor < i /\ (trades[i] > 0 => \E f \in Fills : f[1] = i)
           /\ \A i \in (cursor + 1)..visible : i \in NewRows \/ (trades[i] > 0 => i \in Missed)
           /\ Missed \subseteq Ids
<1>0. Counts BY Numbers
<1>1. NextCursor = visible BY <1>0 DEF NextCursor, Counts
<1>2. OldestRow \in Int /\ OldestRow >= 1 /\ OldestRow > visible - Page BY <1>0 DEF OldestRow, Counts
<1>3. \A i \in NewRows : i \in Int /\ i >= 1 /\ cursor < i /\ i <= visible /\ visible - Page < i
  BY <1>0, <1>2 DEF NewRows, Counts
<1>4. \A i \in NewRows : i \in Ids /\ i \in 1..Len(trades) BY <1>0, <1>3 DEF Ids, Counts
<1>5. \A i \in NewRows : trades[i] \in 0..MaxLegs BY <1>4 DEF PaceInv
<1>6. ASSUME NEW f \in Fills
      PROVE  f[1] \in NewRows /\ f[2] \in 1..MaxLegs /\ f \in Ids \X (1..MaxLegs)
  <2>1. PICK i \in NewRows : f \in {i} \X (1..trades[i]) BY DEF Fills
  <2>2. f[1] = i /\ f[2] \in 1..trades[i] /\ f = <<f[1], f[2]>> BY <2>1
  <2>3. MaxLegs \in Nat BY <1>0 DEF Counts
  <2>4. f[2] \in 1..MaxLegs BY <1>5, <2>2, <2>3
  <2> QED BY <1>4, <2>2, <2>4
<1>7. ASSUME NEW i \in NewRows, trades[i] > 0 PROVE \E f \in Fills : f[1] = i
  <2>1. 1 \in 1..trades[i] BY <1>5, <1>7
  <2>2. <<i, 1>> \in {i} \X (1..trades[i]) BY <2>1
  <2>3. <<i, 1>> \in Fills BY <2>2 DEF Fills
  <2>4. <<i, 1>>[1] = i OBVIOUS
  <2> QED BY <2>3, <2>4
<1>8. ASSUME NEW i \in (cursor + 1)..visible PROVE i \in NewRows \/ (trades[i] > 0 => i \in Missed)
  <2>1. cursor \in Nat /\ visible \in Nat BY <1>0 DEF Counts
  <2>2. CASE i >= OldestRow BY <1>2, <2>1, <2>2 DEF NewRows
  <2>3. CASE i < OldestRow BY <1>2, <2>1, <2>3 DEF Missed
  <2> QED BY <1>2, <2>1, <2>2, <2>3
<1>9. Missed \subseteq Ids
  <2>1. OldestRow - 1 <= visible BY <1>0 DEF OldestRow, Counts
  <2> QED BY <1>0, <1>2, <2>1 DEF Missed, Ids, Counts
<1> QED BY <1>1, <1>3, <1>4, <1>6, <1>7, <1>8, <1>9

-----------------------------------------------------------------------------
(* The initial states and the steps of the exchange.                        *)

\* An empty memory.
LEMMA Empty ==
    /\ Memory(Nothing) /\ Nothing.fifo = <<>> /\ Nothing.ids = {} /\ Range(<<>>) = {} /\ Len(<<>>) = 0
    /\ None \in [Ids -> Nat] /\ \A i \in Ids : None[i] = 0
<1>1. Nothing.fifo = <<>> /\ Nothing.ids = {} BY DEF Nothing
<1>2. Range(<<>>) = {} BY DEF Range
<1>3. Memory(Nothing) BY <1>1, StreamAssumption DEF Memory
<1>4. None \in [Ids -> Nat] /\ \A i \in Ids : None[i] = 0 BY DEF None
<1> QED BY <1>1, <1>2, <1>3, <1>4

\* With nothing remembered and nothing handed over there is nothing to forget.
LEMMA NothingSeen ==
    ASSUME seen = Nothing, handed = None, ~Looping
    PROVE  SeenInv /\ HandedOnce
<1>1. seen.fifo = <<>> /\ Len(seen.fifo) = 0 BY Empty
<1>2. \A i \in Ids : handed[i] = 0 BY Empty
<1>3. Fifo(0)
  <2>1. MaxLegs * Page \in Nat BY StreamAssumption
  <2> QED BY <1>1, <2>1 DEF Fifo
<1>4. \E n \in 0..Len(seen.fifo) : Fifo(n) BY <1>1, <1>3
<1> QED BY <1>2, <1>4 DEF SeenInv, HandedOnce

\* The invariant holds initially.
LEMMA Initially == Init => IInv
<1> SUFFICES ASSUME Init PROVE IInv
    OBVIOUS
<1>1. ~Looping /\ pc = "down" BY DEF Init, Looping
<1>2. /\ seen = Nothing /\ wsSeen = Nothing /\ handed = None /\ queue = <<>> /\ batch = <<>>
      /\ rest = {} /\ byRest = {} /\ offPage = {} /\ polled = 0 /\ blind = TRUE /\ before = 0
      /\ cursor = 0 /\ faults = 0 /\ visible = Len(trades)
  BY DEF Init
<1>3. trades \in Seq(Nat) /\ Len(trades) \in Nat /\ Len(trades) <= MaxTrades
  <2>1. <<>> \in Seq(Nat) /\ Len(<<>>) = 0 /\ <<1>> \in Seq(Nat) /\ Len(<<1>>) = 1 OBVIOUS
  <2>2. MaxTrades \in Nat /\ MaxTrades >= 1 BY StreamAssumption
  <2>3. CASE trades = <<>> BY <2>1, <2>2, <2>3
  <2>4. CASE trades = <<1>> BY <2>1, <2>2, <2>4
  <2> QED BY <2>3, <2>4 DEF Init
<1>4. \A i \in 1..Len(trades) : trades[i] \in 0..MaxLegs
  <2>1. 1 \in 0..MaxLegs BY StreamAssumption
  <2>2. CASE trades = <<>> BY <2>2
  <2>3. CASE trades = <<1>>
    <3>1. Len(trades) = 1 /\ trades[1] = 1 BY <2>3
    <3> QED BY <2>1, <3>1
  <2> QED BY <2>2, <2>3 DEF Init
<1>5. TypeOK
  <2>1. Memory(seen) /\ Memory(wsSeen) BY <1>2, Empty
  <2>2. handed \in [Ids -> Nat] BY <1>2, Empty
  <2>3. queue \in Seq(Ids) /\ batch \in Seq(Ids) BY <1>2
  <2> QED BY <1>1, <1>2, <1>3, <2>1, <2>2, <2>3, StreamAssumption DEF TypeOK, Memory
<1>6. PaceInv BY <1>1, <1>2, <1>3, <1>4, StreamAssumption DEF PaceInv
<1>7. OfferInv BY <1>1, <1>2, Empty DEF OfferInv
<1>8. SeenInv /\ HandedOnce BY <1>1, <1>2, NothingSeen
<1>9. CursorInv BY <1>1 DEF CursorInv
<1>10. NoReplayByRest BY <1>2 DEF NoReplayByRest
<1> QED BY <1>5, <1>6, <1>7, <1>8, <1>9, <1>10 DEF IInv

\* The parts of the invariant about the runner's memory, in a step that leaves the
\* memory alone and may move the last poll forward.
LEMMA SeenKept ==
    ASSUME IInv, UNCHANGED <<seen, handed, before, blind>>, polled' \in Nat, polled <= polled',
           Looping' => Looping
    PROVE  SeenInv' /\ HandedOnce'
<1>0. Counts BY Numbers DEF IInv
<1>1. polled \in Nat /\ Reorder \in Nat /\ Window \in Nat BY <1>0 DEF Counts
<1>2. PICK n \in 0..Len(seen.fifo) : Fifo(n) BY DEF IInv, SeenInv
<1>3. \A k \in 1..Len(seen.fifo) : seen.fifo[k] \in Int
  <2>1. seen.fifo \in Seq(Ids) BY <1>0 DEF Counts, Memory
  <2>2. \A j \in Ids : j \in Int BY DEF Ids
  <2> QED BY <2>1, <2>2
<1>4. Fifo(n)'
  <2>1. \A k \in 1..n : seen.fifo[k] > polled' - 2 * Reorder => seen.fifo[k] \in seen.ids
    <3> SUFFICES ASSUME NEW k \in 1..n, seen.fifo[k] > polled' - 2 * Reorder
                 PROVE  seen.fifo[k] \in seen.ids
        OBVIOUS
    <3>1. k \in 1..Len(seen.fifo) BY <1>0 DEF Counts
    <3>2. PICK e : e = seen.fifo[k] OBVIOUS
    <3>3. e \in Int /\ e > polled' - 2 * Reorder BY <1>3, <3>1, <3>2
    <3>4. e > polled - 2 * Reorder BY <1>1, <3>3
    <3> QED BY <1>2, <3>2, <3>4 DEF Fifo
  <2> QED BY <1>2, <2>1 DEF Fifo
<1>5. Looping' => \A i \in Range(seen.fifo) : i <= polled'
  <2> SUFFICES ASSUME Looping', NEW i \in Range(seen.fifo) PROVE i <= polled'
      OBVIOUS
  <2>1. i <= polled BY DEF IInv, SeenInv
  <2>2. i \in Ids BY <1>0 DEF Counts, Memory, Range
  <2> QED BY <1>1, <2>1, <2>2 DEF Ids
<1>6. \A i \in Ids : handed[i] >= 1 /\ i > polled' - Window => i \in seen.ids
  <2>1. \A i \in Int : i > polled' - Window => i > polled - Window
    <3>1. PICK w : w = Window OBVIOUS
    <3>2. PICK q : q = polled' OBVIOUS
    <3>3. w \in Nat /\ q \in Nat /\ polled \in Nat /\ polled <= q BY <1>1, <3>1, <3>2
    <3>4. \A i \in Int : i > q - w => i > polled - w BY <3>3
    <3> QED BY <3>1, <3>2, <3>4
  <2>2. \A i \in Ids : i \in Int BY DEF Ids
  <2> QED BY <2>1, <2>2 DEF IInv, SeenInv
<1>7. \E m \in 0..Len(seen'.fifo) : Fifo(m)' BY <1>2, <1>4
<1> QED BY <1>5, <1>6, <1>7 DEF SeenInv, IInv, HandedOnce

\* The exchange makes a trade, or publishes one.
LEMMA ExchangeStep ==
    ASSUME IInv, (\E legs \in LegCounts : Trade(legs)) \/ Publish
    PROVE  IInv'
<1>0. Counts BY Numbers DEF IInv
<1>1. UNCHANGED <<pc, cursor, wsSeen, queue, rest, batch, seen, ghosts, faults>>
  BY DEF Trade, Publish
<1>2. /\ UNCHANGED <<pc, cursor, wsSeen, queue, rest, batch, seen>>
      /\ UNCHANGED <<handed, offPage, before, byRest, blind, polled, faults>>
  BY <1>1 DEF ghosts
<1>3. /\ trades' \in Seq(Nat) /\ Len(trades') \in Nat /\ Len(trades') <= MaxTrades
      /\ Len(trades) <= Len(trades') /\ visible <= visible' /\ visible' \in 0..Len(trades')
      /\ Len(trades') <= visible' + Reorder
      /\ Looping => Len(trades') <= polled + Reorder
      /\ \A i \in 1..Len(trades) : trades'[i] = trades[i]
      /\ \A i \in 1..Len(trades') : trades'[i] \in 0..MaxLegs
  <2>1. CASE Publish
    <3>1. trades' = trades /\ visible < Len(trades) /\ visible' = visible + 1 BY <2>1 DEF Publish
    <3>2. trades \in Seq(Nat) /\ \A i \in 1..Len(trades) : trades[i] \in 0..MaxLegs
      BY DEF IInv, TypeOK, PaceInv
    <3>3. Len(trades) <= visible + Reorder /\ (Looping => Len(trades) <= polled + Reorder)
      BY DEF IInv, PaceInv
    <3>4. visible' \in 0..Len(trades) /\ visible <= visible' /\ Len(trades) <= visible' + Reorder
      BY <1>0, <3>1, <3>3 DEF Counts
    <3> QED BY <1>0, <3>1, <3>2, <3>3, <3>4 DEF Counts
  <2>2. CASE \E legs \in LegCounts : Trade(legs)
    <3>0. PICK legs \in LegCounts : Trade(legs) BY <2>2
    <3>1. /\ trades' = Append(trades, legs) /\ visible' = visible /\ Len(trades) < MaxTrades
          /\ Len(trades) - visible < Reorder /\ (Looping => Len(trades) - polled < Reorder)
      BY <3>0 DEF Trade, Looping
    <3>2. legs \in Nat /\ legs \in 0..MaxLegs BY StreamAssumption
    <3>3. trades \in Seq(Nat) BY DEF IInv, TypeOK
    <3>4. /\ trades' \in Seq(Nat) /\ Len(trades') = Len(trades) + 1
          /\ \A k \in 1..Len(trades) : trades'[k] = trades[k]
          /\ trades'[Len(trades) + 1] = legs
      BY <3>1, <3>2, <3>3, Appended
    <3>5. \A i \in 1..Len(trades') : trades'[i] \in 0..MaxLegs
      <4> SUFFICES ASSUME NEW i \in 1..Len(trades') PROVE trades'[i] \in 0..MaxLegs
          OBVIOUS
      <4>1. i \in 1..Len(trades) \/ i = Len(trades) + 1 BY <1>0, <3>4 DEF Counts
      <4>2. \A k \in 1..Len(trades) : trades[k] \in 0..MaxLegs BY DEF IInv, PaceInv
      <4> QED BY <3>2, <3>4, <4>1, <4>2
    <3>6. Len(trades') \in Nat /\ Len(trades') <= MaxTrades /\ Len(trades) <= Len(trades')
      BY <1>0, <3>1, <3>4 DEF Counts
    <3>7. Len(trades') <= visible' + Reorder /\ visible <= visible' /\ visible' \in 0..Len(trades')
      BY <1>0, <3>1, <3>4 DEF Counts
    <3>8. Looping => Len(trades') <= polled + Reorder
      BY <1>0, <3>1, <3>4 DEF Counts
    <3> QED BY <3>4, <3>5, <3>6, <3>7, <3>8
  <2> QED BY <2>1, <2>2
<1>4. TypeOK'
  <2>1. cursor' \in 0..visible' BY <1>0, <1>2, <1>3 DEF Counts
  <2> QED BY <1>2, <1>3, <2>1 DEF IInv, TypeOK
<1>5. PaceInv'
  <2>1. before' <= visible' BY <1>0, <1>2, <1>3 DEF IInv, PaceInv, Counts
  <2>2. Looping' => polled' <= Len(trades') /\ Len(trades') <= polled' + Reorder /\ before' <= polled'
    BY <1>0, <1>2, <1>3 DEF IInv, PaceInv, Counts, Looping
  <2> QED BY <1>2, <1>3, <2>1, <2>2 DEF IInv, PaceInv, Looping
<1>6. OfferInv'
  <2>1. Looping' => \A i \in Range(queue') :
           polled' - Reorder < i /\ i <= Len(trades') /\ before' - Reorder < i
    <3> SUFFICES ASSUME Looping, NEW i \in Range(queue)
                 PROVE  polled - Reorder < i /\ i <= Len(trades') /\ before - Reorder < i
        BY <1>2 DEF Looping
    <3>1. polled - Reorder < i /\ i <= Len(trades) /\ before - Reorder < i BY DEF IInv, OfferInv
    <3>2. i \in Ids BY DEF IInv, TypeOK, Range
    <3> QED BY <1>0, <1>3, <3>1, <3>2 DEF Ids, Counts
  <2> QED BY <1>2, <2>1 DEF IInv, OfferInv
<1>7. SeenInv' /\ HandedOnce' BY <1>0, <1>2, SeenKept DEF Counts, Looping
<1>8. CursorInv'
  <2>1. \A i \in (before + 1)..cursor : i \in 1..Len(trades) BY <1>0 DEF Counts
  <2>2. \A i \in (before + 1)..cursor : trades'[i] = trades[i] BY <1>3, <2>1
  <2> QED BY <1>2, <2>2 DEF IInv, CursorInv, Looping
<1>9. NoReplayByRest' BY <1>2 DEF IInv, NoReplayByRest
<1> QED BY <1>4, <1>5, <1>6, <1>7, <1>8, <1>9 DEF IInv

\* The user channel takes an event.
LEMMA WsStep ==
    ASSUME IInv, NEW i \in Ids, WsEvent(i)
    PROVE  IInv'
<1>0. Counts BY Numbers DEF IInv
<1>1. /\ UNCHANGED <<trades, visible, pc, cursor, rest, batch, seen>>
      /\ UNCHANGED <<handed, offPage, before, byRest, blind, polled, faults>>
      /\ wsSeen' = Remember(wsSeen, i) /\ queue' = Append(queue, i)
      /\ Looping /\ i <= Len(trades) /\ Len(trades) - i < Reorder
  BY DEF WsEvent, account, ghosts, Looping
<1>2. Memory(wsSeen')
  <2>1. Memory(Remember(wsSeen, i)) BY <1>0, Remembered DEF Counts
  <2> QED BY <1>1, <2>1 DEF Memory
<1>3. queue \in Seq(Ids) BY DEF IInv, TypeOK
<1>4. queue' \in Seq(Ids) /\ Range(queue') = Range(queue) \cup {i} BY <1>1, <1>3, Appended
<1>5. TypeOK'
  <2>1. Memory(seen) BY <1>0 DEF Counts
  <2> QED BY <1>1, <1>2, <1>4, <2>1 DEF IInv, TypeOK, Memory
<1>6. PaceInv' BY <1>1 DEF IInv, PaceInv, Looping
<1>7. OfferInv'
  <2>1. \A j \in Range(queue) : polled - Reorder < j /\ j <= Len(trades) /\ before - Reorder < j
    BY <1>1 DEF IInv, OfferInv
  <2>2. polled - Reorder < i /\ i <= Len(trades) /\ before - Reorder < i
    <3>1. polled <= Len(trades) /\ before <= polled BY <1>1 DEF IInv, PaceInv
    <3> QED BY <1>0, <1>1, <3>1 DEF Counts, Ids
  <2>3. \A j \in Range(queue') : polled - Reorder < j /\ j <= Len(trades) /\ before - Reorder < j
    BY <1>4, <2>1, <2>2
  <2> QED BY <1>1, <2>3 DEF IInv, OfferInv
<1>8. SeenInv' /\ HandedOnce' BY <1>0, <1>1, SeenKept DEF Counts, Looping
<1>9. CursorInv' BY <1>1 DEF IInv, CursorInv, Looping
<1>10. NoReplayByRest' BY <1>1 DEF IInv, NoReplayByRest
<1> QED BY <1>5, <1>6, <1>7, <1>8, <1>9, <1>10 DEF IInv

-----------------------------------------------------------------------------
(* The steps of the process.                                                *)

\* The submitter's constructor.
LEMMA ConstructStep ==
    ASSUME IInv, NEW ok \in BOOLEAN, Construct(ok)
    PROVE  IInv'
<1>0. Counts BY Numbers DEF IInv
<1>1. /\ UNCHANGED <<trades, visible, wsSeen, queue, rest, batch, seen, handed, offPage, byRest, polled>>
      /\ pc = "down" /\ pc' = "prime" /\ before' = visible /\ blind' = ~ok
      /\ cursor' = IF ok THEN visible ELSE cursor
  <2>1. NextCursor = visible BY Queried DEF IInv
  <2> QED BY <2>1 DEF Construct, account
<1>2. ~Looping /\ ~Looping' BY <1>1 DEF Looping
<1>3. /\ seen = Nothing /\ wsSeen = Nothing /\ handed = None /\ queue = <<>> /\ batch = <<>>
      /\ rest = {} /\ byRest = {} /\ polled = 0
  BY <1>1, <1>2 DEF IInv, PaceInv
<1>4. faults' \in 0..MaxFaults BY <1>0 DEF Construct, IInv, TypeOK, Counts
<1>5. cursor' \in 0..visible' /\ (blind' \/ cursor' >= before') /\ cursor' <= before'
  <2>1. visible \in Nat /\ cursor \in Nat /\ cursor <= visible /\ visible' = visible
    BY <1>0, <1>1 DEF Counts
  <2>2. CASE ok
    <3>1. cursor' = visible /\ before' = visible BY <1>1, <2>2
    <3> QED BY <2>1, <3>1
  <2>3. CASE ~ok
    <3>1. cursor' = cursor /\ before' = visible /\ blind' = TRUE BY <1>1, <2>3
    <3> QED BY <2>1, <3>1
  <2> QED BY <2>2, <2>3
<1>6. before' \in 0..MaxTrades /\ before' <= visible' /\ blind' \in BOOLEAN BY <1>0, <1>1 DEF Counts
<1>7. TypeOK'
  BY <1>1, <1>4, <1>5, <1>6 DEF IInv, TypeOK
<1>8. PaceInv'
  BY <1>1, <1>2, <1>3, <1>5, <1>6 DEF IInv, PaceInv
<1>9. OfferInv' BY <1>1, <1>2, <1>3, Empty DEF OfferInv
<1>10. SeenInv' /\ HandedOnce'
  <2>1. seen' = Nothing /\ handed' = None BY <1>1, <1>3
  <2>2. Len(seen'.fifo) = 0 /\ \A i \in Ids : handed'[i] = 0 BY <2>1, Empty
  <2>3. Fifo(0)'
    <3>1. MaxLegs * Page \in Nat BY <1>0 DEF Counts
    <3> QED BY <2>2, <3>1 DEF Fifo
  <2>4. \E n \in 0..Len(seen'.fifo) : Fifo(n)' BY <2>2, <2>3
  <2> QED BY <1>2, <2>2, <2>4 DEF SeenInv, HandedOnce
<1>11. CursorInv' BY <1>2 DEF CursorInv
<1>12. NoReplayByRest' BY <1>1, <1>3 DEF NoReplayByRest
<1> QED BY <1>7, <1>8, <1>9, <1>10, <1>11, <1>12 DEF IInv

\* The start-up query.
LEMMA PrimeStep ==
    ASSUME IInv, NEW ok \in BOOLEAN, Prime(ok)
    PROVE  IInv'
<1>0. Counts BY Numbers DEF IInv
<1>1. /\ UNCHANGED <<trades, visible, wsSeen, queue, batch, seen, handed, offPage, byRest, polled>>
      /\ pc = "prime" /\ pc' = "mark"
      /\ ok => rest' = Fills /\ cursor' = visible /\ blind' = FALSE /\ before' = visible
      /\ ~ok => UNCHANGED <<rest, cursor, blind, before>>
  <2>1. NextCursor = visible BY Queried DEF IInv
  <2> QED BY <2>1 DEF Prime, account
<1>2. ~Looping /\ ~Looping' BY <1>1 DEF Looping
<1>3. /\ seen = Nothing /\ wsSeen = Nothing /\ handed = None /\ queue = <<>> /\ batch = <<>>
      /\ rest = {} /\ byRest = {} /\ polled = 0 /\ cursor <= before /\ before <= visible
      /\ blind \/ cursor >= before
  BY <1>1, <1>2 DEF IInv, PaceInv
<1>4. faults' \in 0..MaxFaults BY <1>0 DEF Prime, IInv, TypeOK, Counts
<1>5. /\ cursor' \in 0..visible' /\ (blind' \/ cursor' >= before') /\ cursor' <= before'
      /\ before' <= visible' /\ blind' \in BOOLEAN /\ before' \in 0..MaxTrades
  <2>1. CASE ok
    <3>1. cursor' = visible /\ before' = visible /\ blind' = FALSE /\ visible' = visible BY <1>1, <2>1
    <3>2. visible \in 0..MaxTrades /\ visible \in Nat BY <1>0 DEF Counts
    <3>3. blind' \in BOOLEAN BY <3>1
    <3>4. /\ cursor' \in 0..visible' /\ cursor' >= before' /\ cursor' <= before'
          /\ before' <= visible' /\ before' \in 0..MaxTrades
      BY <3>1, <3>2
    <3> QED BY <3>3, <3>4
  <2>2. CASE ~ok
    <3>1. cursor' = cursor /\ before' = before /\ blind' = blind /\ visible' = visible BY <1>1, <2>2
    <3>2. before \in 0..MaxTrades BY DEF IInv, TypeOK
    <3> QED BY <1>0, <1>3, <3>1, <3>2 DEF Counts
  <2> QED BY <2>1, <2>2
<1>6. /\ rest' \subseteq Ids \X (1..MaxLegs)
      /\ \A f \in rest' : f[1] \in Int /\ f[2] \in 1..MaxLegs /\ ~blind' /\ before' - Page < f[1] /\ f[1] <= before'
  <2>1. CASE ok BY <1>1, <2>1, Queried DEF IInv
  <2>2. CASE ~ok BY <1>1, <1>3, <2>2
  <2> QED BY <2>1, <2>2
<1>7. TypeOK' BY <1>1, <1>4, <1>5, <1>6 DEF IInv, TypeOK
<1>8. PaceInv' BY <1>1, <1>2, <1>3, <1>5 DEF IInv, PaceInv
<1>9. OfferInv'
  <2>1. Len(seen'.fifo) = 0 BY <1>1, <1>3, Empty
  <2>2. ASSUME NEW f \in rest' PROVE 0 < MaxLegs * (before' - f[1]) + f[2]
    <3>1. before' - f[1] \in Nat /\ MaxLegs \in Nat /\ f[2] \in Nat /\ f[2] >= 1
      <4>1. before' \in Int /\ MaxLegs \in Nat BY <1>0, <1>5 DEF Counts
      <4>2. f[1] \in Int /\ f[1] <= before' /\ f[2] \in 1..MaxLegs BY <1>6
      <4> QED BY <4>1, <4>2
    <3>2. PICK d : d = before' - f[1] OBVIOUS
    <3>3. MaxLegs * d \in Nat BY <3>1, <3>2
    <3> QED BY <3>1, <3>2, <3>3
  <2>3. Range(batch') = {} BY <1>1, <1>3, Empty
  <2> QED BY <1>1, <1>2, <1>6, <2>1, <2>2, <2>3 DEF OfferInv
<1>10. SeenInv' /\ HandedOnce'
  <2>1. seen' = Nothing /\ handed' = None BY <1>1, <1>3
  <2>2. Len(seen'.fifo) = 0 /\ \A i \in Ids : handed'[i] = 0 BY <2>1, Empty
  <2>3. Fifo(0)'
    <3>1. MaxLegs * Page \in Nat BY <1>0 DEF Counts
    <3> QED BY <2>2, <3>1 DEF Fifo
  <2>4. \E n \in 0..Len(seen'.fifo) : Fifo(n)' BY <2>2, <2>3
  <2> QED BY <1>2, <2>2, <2>4 DEF SeenInv, HandedOnce
<1>11. CursorInv' BY <1>2 DEF CursorInv
<1>12. NoReplayByRest' BY <1>1, <1>3 DEF NoReplayByRest
<1> QED BY <1>7, <1>8, <1>9, <1>10, <1>11, <1>12 DEF IInv

\* Before the main loop, everything in the memory is of the start-up.
LEMMA OnlyMarked ==
    ASSUME IInv, pc = "mark"
    PROVE  /\ Fifo(Len(seen.fifo)) /\ polled = 0 /\ handed = None
           /\ \A k \in 1..Len(seen.fifo) : seen.fifo[k] \in Ids /\ seen.fifo[k] \in seen.ids
<1>0. Counts BY Numbers DEF IInv
<1>1. ~Looping BY DEF Looping
<1>2. polled = 0 /\ handed = None BY <1>1 DEF IInv, PaceInv
<1>3. PICK n \in 0..Len(seen.fifo) : Fifo(n) BY DEF IInv, SeenInv
<1>4. seen.fifo \in Seq(Ids) /\ Len(seen.fifo) \in Nat BY <1>0 DEF Counts, Memory
<1>5. \A k \in 1..Len(seen.fifo) : seen.fifo[k] \in Ids BY <1>4
<1>6. n = Len(seen.fifo)
  <2> SUFFICES ASSUME n < Len(seen.fifo) PROVE FALSE
      BY <1>4
  <2>1. Len(seen.fifo) \in (n + 1)..Len(seen.fifo) /\ Len(seen.fifo) \in 1..Len(seen.fifo) BY <1>4
  <2>2. handed[seen.fifo[Len(seen.fifo)]] >= 1 BY <1>3, <2>1 DEF Fifo
  <2>3. handed[seen.fifo[Len(seen.fifo)]] = 0 BY <1>2, <1>5, <2>1, Empty
  <2> QED BY <2>2, <2>3
<1>7. ASSUME NEW k \in 1..Len(seen.fifo) PROVE seen.fifo[k] \in seen.ids
  <2>1. PICK e : e = seen.fifo[k] OBVIOUS
  <2>2. e \in Int /\ e >= 1 BY <1>5, <2>1 DEF Ids
  <2>3. e > polled - 2 * Reorder BY <1>0, <1>2, <2>2 DEF Counts
  <2> QED BY <1>3, <1>6, <2>1, <2>3 DEF Fifo
<1> QED BY <1>2, <1>3, <1>5, <1>6, <1>7

\* One fill of the start-up query is marked as seen.
LEMMA MarkStep ==
    ASSUME IInv, Mark
    PROVE  IInv'
<1>0. Counts BY Numbers DEF IInv
<1>1. /\ UNCHANGED <<trades, visible, pc, cursor, wsSeen, queue, batch>>
      /\ UNCHANGED <<handed, offPage, before, byRest, blind, polled, faults>> /\ pc = "mark"
  BY DEF Mark, account, ghosts
<1>2. PICK f \in rest : /\ First(f, rest) /\ rest' = rest \ {f}
                        /\ seen' = [ids |-> seen.ids \cup {f[1]}, fifo |-> Append(seen.fifo, f[1])]
  BY DEF Mark
<1>3. ~Looping /\ ~Looping' BY <1>1 DEF Looping
<1>4. rest \subseteq Ids \X (1..MaxLegs) BY DEF IInv, TypeOK
<1>5. \A g \in rest : g[1] \in Ids /\ g[2] \in 1..MaxLegs /\ g = <<g[1], g[2]>> /\ g[1] \in Int
  BY <1>4 DEF Ids
<1>6. \A g \in rest : /\ ~blind /\ before - Page < g[1] /\ g[1] <= before
                      /\ Len(seen.fifo) < MaxLegs * (before - g[1]) + g[2]
  BY <1>1 DEF IInv, OfferInv
<1>7. PICK L : L = Len(seen.fifo) OBVIOUS
<1>8. /\ seen'.fifo \in Seq(Ids) /\ Len(seen'.fifo) = L + 1 /\ L \in Nat
      /\ \A k \in 1..L : seen'.fifo[k] = seen.fifo[k]
      /\ seen'.fifo[L + 1] = f[1] /\ Range(seen'.fifo) = Range(seen.fifo) \cup {f[1]}
  <2>1. seen.fifo \in Seq(Ids) /\ f[1] \in Ids BY <1>0, <1>5 DEF Counts, Memory
  <2>2. seen'.fifo = Append(seen.fifo, f[1]) BY <1>2
  <2> QED BY <1>7, <2>1, <2>2, Appended
\* Room for the entry, and for those after it.
<1>9. L + 1 <= MaxLegs * Page
  <2>1. PICK d : d = before - f[1] OBVIOUS
  <2>2. d \in Nat /\ d <= Page - 1 /\ L < MaxLegs * d + f[2] /\ f[2] <= MaxLegs /\ f[2] \in Nat
    <3>1. before \in Nat /\ Page \in Nat /\ MaxLegs \in Nat BY <1>0 DEF Counts
    <3>2. f[1] \in Int /\ f[2] \in 1..MaxLegs BY <1>5
    <3>3. before - Page < f[1] /\ f[1] <= before /\ L < MaxLegs * (before - f[1]) + f[2] BY <1>6, <1>7
    <3> QED BY <2>1, <3>1, <3>2, <3>3
  <2>3. MaxLegs \in Nat /\ Page \in Nat BY <1>0 DEF Counts
  <2>4. MaxLegs * d <= MaxLegs * (Page - 1) BY <2>2, <2>3
  <2>5. MaxLegs * (Page - 1) = MaxLegs * Page - MaxLegs /\ MaxLegs * d \in Nat /\ MaxLegs * Page \in Nat
    BY <2>2, <2>3
  <2>6. PICK x : x = MaxLegs * d OBVIOUS
  <2>7. PICK y : y = MaxLegs * Page OBVIOUS
  <2>8. PICK z : z = f[2] OBVIOUS
  <2>9. /\ x \in Nat /\ y \in Nat /\ z \in Nat /\ L \in Nat /\ MaxLegs \in Nat
        /\ L < x + z /\ z <= MaxLegs /\ x <= y - MaxLegs
    BY <1>8, <2>2, <2>3, <2>4, <2>5, <2>6, <2>7, <2>8
  <2>10. L + 1 <= y BY <2>9
  <2> QED BY <2>7, <2>10
<1>10. ASSUME NEW g \in rest' PROVE L + 1 < MaxLegs * (before - g[1]) + g[2]
  <2>1. g \in rest /\ g # f BY <1>2
  <2>2. g[1] < f[1] \/ (g[1] = f[1] /\ f[2] <= g[2]) BY <1>2, <2>1 DEF First
  <2>3. /\ f[1] \in Int /\ g[1] \in Int /\ f[2] \in 1..MaxLegs /\ g[2] \in 1..MaxLegs
        /\ L < MaxLegs * (before - f[1]) + f[2] /\ MaxLegs \in Nat /\ before \in Nat
    BY <1>0, <1>5, <1>6, <1>7, <2>1 DEF Counts
  <2>4. CASE g[1] = f[1] /\ f[2] <= g[2]
    <3>1. f[2] # g[2] BY <1>5, <2>1, <2>4
    <3>2. PICK p : p = MaxLegs * (before - f[1]) OBVIOUS
    <3>3. p \in Int BY <2>3, <3>2
    <3>4. L + 1 < p + g[2] BY <1>8, <2>3, <2>4, <3>1, <3>2, <3>3
    <3> QED BY <2>4, <3>2, <3>4
  <2>5. CASE g[1] < f[1]
    <3>1. PICK x : x = before - f[1] OBVIOUS
    <3>2. PICK y : y = before - g[1] OBVIOUS
    <3>3. x \in Int /\ y \in Int /\ x + 1 <= y BY <2>3, <2>5, <3>1, <3>2
    <3>4. MaxLegs * (x + 1) <= MaxLegs * y BY <2>3, <3>3
    <3>5. MaxLegs * (x + 1) = MaxLegs * x + MaxLegs /\ MaxLegs * x \in Int /\ MaxLegs * y \in Int
      BY <2>3, <3>3
    <3>6. L < MaxLegs * x + f[2] BY <2>3, <3>1
    <3>7. L + 1 < MaxLegs * y + g[2] BY <1>8, <2>3, <3>4, <3>5, <3>6
    <3> QED BY <3>2, <3>7
  <2> QED BY <2>2, <2>4, <2>5
<1>11. Memory(seen')
  <2>1. seen'.ids = seen.ids \cup {f[1]} BY <1>2
  <2>2. seen.ids \subseteq Range(seen.fifo) BY <1>0 DEF Counts, Memory
  <2>3. Len(seen'.fifo) <= SeenCap BY <1>0, <1>8, <1>9 DEF Counts
  <2> QED BY <1>8, <2>1, <2>2, <2>3 DEF Memory
<1>12. TypeOK'
  <2>1. rest' \subseteq Ids \X (1..MaxLegs) BY <1>2, <1>4
  <2>2. Memory(wsSeen) BY <1>0 DEF Counts
  <2> QED BY <1>1, <1>11, <2>1, <2>2 DEF IInv, TypeOK, Memory
<1>13. PaceInv' BY <1>1, <1>3 DEF IInv, PaceInv
<1>14. OfferInv'
  <2>1. \A g \in rest' : ~blind /\ before - Page < g[1] /\ g[1] <= before BY <1>2, <1>6
  <2>2. \A g \in rest' : Len(seen'.fifo) < MaxLegs * (before - g[1]) + g[2] BY <1>8, <1>10
  <2> QED BY <1>1, <1>3, <2>1, <2>2 DEF IInv, OfferInv
<1>15. SeenInv' /\ HandedOnce'
  <2>1. /\ Fifo(L) /\ handed = None
        /\ \A k \in 1..L : seen.fifo[k] \in Ids /\ seen.fifo[k] \in seen.ids
    BY <1>1, <1>7, OnlyMarked
  <2>2. \A j \in Ids : handed'[j] = 0 BY <1>1, <2>1, Empty
  <2>3. ASSUME NEW k \in 1..(L + 1)
        PROVE  handed'[seen'.fifo[k]] = 0 /\ seen'.fifo[k] <= before /\ seen'.fifo[k] \in seen'.ids
    <3>1. CASE k = L + 1
      <4>1. seen'.fifo[k] = f[1] /\ f[1] \in Ids /\ f[1] <= before /\ f[1] \in seen'.ids
        BY <1>2, <1>5, <1>6, <1>8, <3>1
      <4> QED BY <2>2, <4>1
    <3>2. CASE k # L + 1
      <4>1. k \in 1..L BY <1>8, <3>2
      <4>2. seen.fifo[k] <= before BY <2>1, <4>1 DEF Fifo
      <4>3. seen'.fifo[k] = seen.fifo[k] /\ seen.fifo[k] \in Ids /\ seen.fifo[k] \in seen'.ids
        BY <1>2, <1>8, <2>1, <4>1
      <4> QED BY <2>2, <4>2, <4>3
    <3> QED BY <3>1, <3>2
  <2>4. Fifo(L + 1)'
    <3>1. ~blind' BY <1>1, <1>2, <1>6
    <3>2. (L + 2)..(L + 1) = {} /\ (L + 1) + 1 = L + 2 BY <1>8
    <3> QED BY <1>1, <1>8, <1>9, <2>3, <3>1, <3>2 DEF Fifo
  <2>5. \E n \in 0..Len(seen'.fifo) : Fifo(n)' BY <1>8, <2>4
  <2> QED BY <1>3, <2>2, <2>5 DEF SeenInv, HandedOnce
<1>16. CursorInv' BY <1>3 DEF CursorInv
<1>17. NoReplayByRest' BY <1>1 DEF IInv, NoReplayByRest
<1> QED BY <1>12, <1>13, <1>14, <1>15, <1>16, <1>17 DEF IInv

\* The main loop begins.
LEMMA EnterStep ==
    ASSUME IInv, Enter
    PROVE  IInv'
<1>0. Counts BY Numbers DEF IInv
<1>1. /\ UNCHANGED <<trades, visible, cursor, wsSeen, queue, rest, batch, seen, handed, offPage>>
      /\ UNCHANGED <<before, byRest, blind, faults>>
      /\ pc = "mark" /\ rest = {} /\ pc' = "run" /\ polled' = Len(trades)
  BY DEF Enter, account
<1>2. ~Looping /\ Looping' BY <1>1 DEF Looping
<1>3. /\ Fifo(Len(seen.fifo)) /\ handed = None
      /\ \A k \in 1..Len(seen.fifo) : seen.fifo[k] \in Ids /\ seen.fifo[k] \in seen.ids
  BY <1>1, OnlyMarked
<1>4. queue = <<>> /\ batch = <<>> /\ byRest = {} /\ cursor <= before /\ before <= visible
  BY <1>1, <1>2 DEF IInv, PaceInv
<1>5. polled' \in 0..MaxTrades BY <1>0, <1>1 DEF Counts
<1>6. TypeOK' BY <1>1, <1>5 DEF IInv, TypeOK
<1>7. PaceInv'
  <2>1. polled' <= Len(trades) /\ Len(trades) <= polled' + Reorder /\ before <= polled'
    BY <1>0, <1>1, <1>4 DEF Counts
  <2> QED BY <1>1, <1>2, <2>1 DEF IInv, PaceInv
<1>8. OfferInv' BY <1>1, <1>4, Empty DEF OfferInv
<1>9. SeenInv' /\ HandedOnce'
  <2>1. \A j \in Ids : handed[j] = 0 BY <1>3, Empty
  <2>2. Fifo(Len(seen.fifo))' BY <1>1, <1>3 DEF Fifo
  <2>3. \E n \in 0..Len(seen'.fifo) : Fifo(n)'
    <3>1. Len(seen.fifo) \in 0..Len(seen'.fifo) BY <1>0, <1>1 DEF Counts
    <3> QED BY <2>2, <3>1
  <2>4. \A i \in Range(seen'.fifo) : i <= polled'
    <3> SUFFICES ASSUME NEW i \in Range(seen.fifo) PROVE i <= Len(trades)
        BY <1>1
    <3>1. PICK k \in 1..Len(seen.fifo) : seen.fifo[k] = i
      BY <1>0 DEF Counts, Memory, Range
    <3>2. i \in Int BY <1>3, <3>1 DEF Ids
    <3>3. i <= before BY <1>3, <3>1 DEF Fifo
    <3> QED BY <1>0, <1>4, <3>2, <3>3 DEF Counts
  <2> QED BY <1>1, <2>1, <2>3, <2>4 DEF SeenInv, HandedOnce
<1>10. CursorInv' BY <1>0, <1>1, <1>4 DEF CursorInv, Counts
<1>11. NoReplayByRest' BY <1>1, <1>4 DEF NoReplayByRest
<1> QED BY <1>6, <1>7, <1>8, <1>9, <1>10, <1>11 DEF IInv

\* poll_fills asks for the new fills.
LEMMA PollStep ==
    ASSUME IInv, NEW ok \in BOOLEAN, Poll(ok)
    PROVE  IInv'
<1>0. Counts BY Numbers DEF IInv
<1>1. /\ UNCHANGED <<trades, visible, wsSeen, seen, handed, before, blind>>
      /\ batch' = queue /\ queue' = <<>> /\ polled' = Len(trades)
      /\ pc = "run" /\ pc' = "hand"
      /\ ok => /\ rest' = Fills /\ cursor' = visible /\ offPage' = offPage \cup Missed
               /\ byRest' = byRest \cup {i \in NewRows : trades[i] > 0 /\ handed[i] = 0}
      /\ ~ok => rest' = {} /\ UNCHANGED <<cursor, offPage, byRest>>
  <2>1. NextCursor = visible BY Queried DEF IInv
  <2> QED BY <2>1 DEF Poll, account
<1>2. Looping /\ Looping' BY <1>1 DEF Looping
<1>3. /\ rest = {} /\ polled <= Len(trades) /\ Len(trades) <= polled + Reorder /\ before <= polled
      /\ Len(trades) <= visible + Reorder /\ before <= visible /\ (blind \/ cursor >= before)
  BY <1>1, <1>2 DEF IInv, PaceInv
<1>4. faults' \in 0..MaxFaults BY <1>0 DEF Poll, IInv, TypeOK, Counts
<1>5. cursor' \in 0..visible' /\ cursor <= cursor'
  <2>1. CASE ok BY <1>0, <1>1, <2>1 DEF Counts
  <2>2. CASE ~ok BY <1>0, <1>1, <2>2 DEF Counts
  <2> QED BY <2>1, <2>2
<1>6. /\ rest' \subseteq Ids \X (1..MaxLegs) /\ offPage' \subseteq Ids /\ byRest' \subseteq Ids
      /\ \A f \in rest' : f[1] \in Int /\ cursor < f[1] /\ f[1] <= visible /\ visible - Page < f[1]
      /\ \A i \in byRest' : i \in byRest \/ cursor < i
  <2>1. offPage \subseteq Ids /\ byRest \subseteq Ids BY DEF IInv, TypeOK
  <2>2. CASE ok
    <3>1. /\ Fills \subseteq Ids \X (1..MaxLegs)
          /\ \A f \in Fills : f[1] \in Int /\ cursor < f[1] /\ f[1] <= visible /\ visible - Page < f[1]
          /\ \A i \in NewRows : i \in Ids /\ cursor < i
          /\ Missed \subseteq Ids
      BY Queried DEF IInv
    <3> QED BY <1>1, <2>1, <2>2, <3>1
  <2>3. CASE ~ok BY <1>1, <2>1, <2>3
  <2> QED BY <2>2, <2>3
<1>7. TypeOK'
  <2>1. polled' \in 0..MaxTrades BY <1>0, <1>1 DEF Counts
  <2>2. queue' \in Seq(Ids) /\ batch' \in Seq(Ids) BY <1>1 DEF IInv, TypeOK
  <2> QED BY <1>1, <1>4, <1>5, <1>6, <2>1, <2>2 DEF IInv, TypeOK
<1>8. PaceInv'
  <2>1. Len(trades) <= polled' + Reorder /\ polled' <= Len(trades) /\ before <= polled'
    BY <1>0, <1>1, <1>3 DEF Counts
  <2>2. blind \/ cursor' >= before BY <1>0, <1>1, <1>3, <1>5 DEF Counts
  <2> QED BY <1>1, <1>2, <2>1, <2>2 DEF IInv, PaceInv
<1>9. OfferInv'
  <2>1. ASSUME NEW i \in Range(queue)
        PROVE  polled' - 2 * Reorder < i /\ i <= polled' /\ before - Reorder < i
    <3>1. polled - Reorder < i /\ i <= Len(trades) /\ before - Reorder < i
      BY <1>2 DEF IInv, OfferInv
    <3>2. i \in Ids BY DEF IInv, TypeOK, Range
    <3>3. i \in Int BY <3>2 DEF Ids
    <3> QED BY <1>0, <1>1, <1>3, <3>1, <3>3 DEF Counts
  <2>2. ASSUME NEW f \in rest'
        PROVE  polled' - Reorder - Page < f[1] /\ f[1] <= polled' /\ (blind \/ before < f[1])
    <3>1. PICK e : e = f[1] OBVIOUS
    <3>2. e \in Int /\ cursor < e /\ e <= visible /\ visible - Page < e BY <1>6, <3>1
    <3>3. polled' - Reorder - Page < e /\ e <= polled' BY <1>0, <1>1, <1>3, <3>2 DEF Counts
    <3>4. blind \/ before < e BY <1>0, <1>3, <3>2 DEF Counts
    <3> QED BY <3>1, <3>3, <3>4
  <2>3. Range(queue') = {} BY <1>1, Empty
  <2> QED BY <1>1, <2>1, <2>2, <2>3 DEF OfferInv
<1>10. SeenInv' /\ HandedOnce'
  <2>1. polled' \in Nat /\ polled <= polled' BY <1>0, <1>1, <1>3 DEF Counts
  <2> QED BY <1>1, <1>2, <2>1, SeenKept
<1>11. CursorInv'
  <2> SUFFICES ASSUME NEW i \in (before + 1)..cursor', trades[i] > 0
               PROVE  handed[i] > 0 \/ i \in offPage' \/ \E f \in rest' : f[1] = i
      BY <1>1 DEF CursorInv
  <2>1. CASE i \in (before + 1)..cursor
    <3>1. handed[i] > 0 \/ i \in offPage BY <1>2, <1>3, <2>1 DEF IInv, CursorInv
    <3> QED BY <1>1, <3>1
  <2>2. CASE i \notin (before + 1)..cursor
    <3>1. ok BY <1>1, <2>2
    <3>2. i \in (cursor + 1)..visible BY <1>0, <1>1, <2>2, <3>1 DEF Counts
    <3>3. i \in NewRows \/ i \in Missed BY <3>2, Queried DEF IInv
    <3>4. i \in NewRows => \E f \in Fills : f[1] = i BY Queried DEF IInv
    <3> QED BY <1>1, <3>1, <3>3, <3>4
  <2> QED BY <2>1, <2>2
<1>12. NoReplayByRest'
  <2> SUFFICES ASSUME NEW i \in byRest' PROVE i > before \/ blind
      BY <1>1 DEF NoReplayByRest
  <2>1. CASE i \in byRest BY <2>1 DEF IInv, NoReplayByRest
  <2>2. CASE cursor < i
    <3>1. i \in Int BY <1>6 DEF Ids
    <3> QED BY <1>0, <1>3, <2>2, <3>1 DEF Counts
  <2> QED BY <1>6, <2>1, <2>2
<1> QED BY <1>7, <1>8, <1>9, <1>10, <1>11, <1>12 DEF IInv

\* The next fill goes through poll_fills.
LEMMA HandOverStep ==
    ASSUME IInv, HandOver
    PROVE  IInv'
<1>0. Counts BY Numbers DEF IInv
<1>1. /\ UNCHANGED <<trades, visible, pc, cursor, wsSeen, queue>>
      /\ UNCHANGED <<offPage, before, byRest, blind, polled, faults>> /\ pc = "hand"
  BY DEF HandOver, account
<1>2. Looping /\ Looping' BY <1>1 DEF Looping
<1>3. rest \subseteq Ids \X (1..MaxLegs) /\ batch \in Seq(Ids) BY DEF IInv, TypeOK
\* The id is one that may be offered, and only it leaves what is still to come.
<1>4. \E i : /\ Offered(i) /\ Pass(i) /\ rest' \subseteq rest /\ batch' \in Seq(Ids)
             /\ Range(batch') \subseteq Range(batch) /\ \A g \in rest : g \in rest' \/ g[1] = i
  <2>1. ASSUME NEW f \in rest, Pass(f[1]), rest' = rest \ {f}, batch' = batch PROVE <1>4
    <3>1. PICK i : i = f[1] OBVIOUS
    <3>2. i \in Ids BY <1>3, <3>1
    <3>3. polled - Reorder - Page < i /\ i <= polled /\ (blind \/ before < i)
      BY <1>1, <3>1 DEF IInv, OfferInv
    <3>4. Offered(i)
      <4>1. i \in Int BY <3>2 DEF Ids
      <4>2. polled - Window < i BY <1>0, <3>3, <4>1 DEF Counts
      <4>3. blind \/ before - Reorder < i BY <1>0, <3>3, <4>1 DEF Counts
      <4> QED BY <3>2, <3>3, <4>2, <4>3 DEF Offered
    <3> QED BY <1>3, <2>1, <3>1, <3>4
  <2>2. ASSUME batch # <<>>, Pass(Head(batch)), batch' = Tail(batch), rest' = rest PROVE <1>4
    <3>1. PICK i : i = Head(batch) OBVIOUS
    <3>2. /\ Tail(batch) \in Seq(Ids) /\ Range(Tail(batch)) \subseteq Range(batch)
          /\ i \in Range(batch) /\ i \in Ids
      BY <1>3, <2>2, <3>1, Shortened
    <3>3. polled - 2 * Reorder < i /\ i <= polled /\ before - Reorder < i BY <3>2 DEF IInv, OfferInv
    <3>4. Offered(i)
      <4>1. i \in Int BY <3>2 DEF Ids
      <4>2. polled - Window < i BY <1>0, <3>3, <4>1 DEF Counts
      <4> QED BY <3>2, <3>3, <4>2 DEF Offered
    <3> QED BY <2>2, <3>1, <3>2, <3>4
  <2> QED BY <2>1, <2>2 DEF HandOver
<1>5. PICK i : /\ Offered(i) /\ Pass(i) /\ rest' \subseteq rest /\ batch' \in Seq(Ids)
               /\ Range(batch') \subseteq Range(batch) /\ \A g \in rest : g \in rest' \/ g[1] = i
  BY <1>4
<1>6. /\ Memory(seen') /\ handed' \in [Ids -> Nat] /\ SeenInv' /\ HandedOnce'
      /\ \A j \in Ids : handed'[j] >= handed[j]
      /\ i > before => handed'[i] > 0
  BY <1>1, <1>5, Passed
<1>7. TypeOK'
  <2>1. Memory(wsSeen) BY <1>0 DEF Counts
  <2> QED BY <1>1, <1>3, <1>5, <1>6, <2>1 DEF IInv, TypeOK, Memory
<1>8. PaceInv' BY <1>1, <1>2 DEF IInv, PaceInv
<1>9. OfferInv' BY <1>1, <1>2, <1>5 DEF IInv, OfferInv
<1>10. CursorInv'
  <2> SUFFICES ASSUME NEW j \in (before + 1)..cursor, trades[j] > 0
               PROVE  handed'[j] > 0 \/ j \in offPage \/ \E f \in rest' : f[1] = j
      BY <1>1 DEF CursorInv
  <2>1. j \in Ids /\ j > before BY <1>0 DEF Counts, Ids
  <2>2. handed[j] > 0 \/ j \in offPage \/ \E f \in rest : f[1] = j BY <1>2 DEF IInv, CursorInv
  <2>3. CASE handed[j] > 0
    <3>1. handed[j] \in Nat /\ handed'[j] \in Nat BY <1>6, <2>1 DEF IInv, TypeOK
    <3> QED BY <1>6, <2>1, <2>3, <3>1
  <2>4. CASE \E f \in rest : f[1] = j
    <3>1. PICK f \in rest : f[1] = j BY <2>4
    <3>2. f \in rest' \/ j = i BY <1>5, <3>1
    <3> QED BY <1>6, <2>1, <3>1, <3>2
  <2> QED BY <2>2, <2>3, <2>4
<1>11. NoReplayByRest' BY <1>1 DEF IInv, NoReplayByRest
<1> QED BY <1>6, <1>7, <1>8, <1>9, <1>10, <1>11 DEF IInv

\* The poll has ended.
LEMMA PollEndStep ==
    ASSUME IInv, PollEnd
    PROVE  IInv'
<1>0. Counts BY Numbers DEF IInv
<1>1. /\ UNCHANGED <<trades, visible, cursor, wsSeen, queue, rest, batch, seen>>
      /\ UNCHANGED <<handed, offPage, before, byRest, blind, polled, faults>>
      /\ pc = "hand" /\ pc' = "run" /\ rest = {}
  BY DEF PollEnd, account, ghosts
<1>2. Looping /\ Looping' BY <1>1 DEF Looping
<1>3. TypeOK' BY <1>1 DEF IInv, TypeOK
<1>4. PaceInv' BY <1>1, <1>2 DEF IInv, PaceInv
<1>5. OfferInv' BY <1>1, <1>2 DEF IInv, OfferInv
<1>6. SeenInv' /\ HandedOnce' BY <1>0, <1>1, <1>2, SeenKept DEF Counts
<1>7. CursorInv' BY <1>1, <1>2 DEF IInv, CursorInv
<1>8. NoReplayByRest' BY <1>1 DEF IInv, NoReplayByRest
<1> QED BY <1>3, <1>4, <1>5, <1>6, <1>7, <1>8 DEF IInv

\* The process dies, and its memory with it.
LEMMA CrashStep ==
    ASSUME IInv, Crash
    PROVE  IInv'
<1>0. Counts BY Numbers DEF IInv
<1>1. /\ trades' = trades /\ visible' = visible /\ pc' = "down" /\ cursor' = 0 /\ wsSeen' = Nothing
      /\ queue' = <<>> /\ rest' = {} /\ batch' = <<>> /\ seen' = Nothing /\ handed' = None
      /\ offPage' = {} /\ byRest' = {} /\ before' = 0 /\ blind' = TRUE /\ polled' = 0
  BY DEF Crash, account
<1>2. ~Looping' BY <1>1 DEF Looping
<1>3. TypeOK'
  <2>1. faults' \in 0..MaxFaults BY <1>0 DEF Crash, IInv, TypeOK, Counts
  <2>2. Memory(Nothing) /\ None \in [Ids -> Nat] BY Empty
  <2>3. 0 \in 0..visible /\ 0 \in 0..MaxTrades BY <1>0 DEF Counts
  <2>4. <<>> \in Seq(Ids) OBVIOUS
  <2> QED BY <1>1, <2>1, <2>2, <2>3, <2>4 DEF IInv, TypeOK, Memory
<1>4. PaceInv'
  <2>1. 0 <= visible BY <1>0 DEF Counts
  <2> QED BY <1>1, <1>2, <2>1 DEF IInv, PaceInv
<1>5. OfferInv' BY <1>1, <1>2, Empty DEF OfferInv
<1>6. SeenInv' /\ HandedOnce'
  <2>2. Len(seen'.fifo) = 0 /\ \A i \in Ids : handed'[i] = 0 BY <1>1, Empty
  <2>3. Fifo(0)'
    <3>1. MaxLegs * Page \in Nat BY <1>0 DEF Counts
    <3> QED BY <2>2, <3>1 DEF Fifo
  <2>4. \E n \in 0..Len(seen'.fifo) : Fifo(n)' BY <2>2, <2>3
  <2> QED BY <1>2, <2>2, <2>4 DEF SeenInv, HandedOnce
<1>7. CursorInv' BY <1>2 DEF CursorInv
<1>8. NoReplayByRest' BY <1>1 DEF NoReplayByRest
<1> QED BY <1>3, <1>4, <1>5, <1>6, <1>7, <1>8 DEF IInv

\* Every step preserves the invariant.
LEMMA Inductive == IInv /\ [Next]_vars => IInv'
<1> SUFFICES ASSUME IInv, [Next]_vars PROVE IInv'
    OBVIOUS
<1>1. CASE UNCHANGED vars
  <2>1. /\ UNCHANGED <<trades, visible, pc, cursor, wsSeen, queue, rest, batch, seen>>
        /\ UNCHANGED <<handed, offPage, before, byRest, blind, polled, faults>>
    BY <1>1 DEF vars, account, ghosts
  <2>2. TypeOK' BY <2>1 DEF IInv, TypeOK
  <2>3. PaceInv' BY <2>1 DEF IInv, PaceInv, Looping
  <2>4. OfferInv' BY <2>1 DEF IInv, OfferInv, Looping
  <2>5. SeenInv' BY <2>1 DEF IInv, SeenInv, Fifo, Looping
  <2>6. CursorInv' /\ HandedOnce' /\ NoReplayByRest'
    BY <2>1 DEF IInv, CursorInv, HandedOnce, NoReplayByRest, Looping
  <2> QED BY <2>2, <2>3, <2>4, <2>5, <2>6 DEF IInv
<1>2. CASE Next
  <2>1. CASE (\E legs \in LegCounts : Trade(legs)) \/ Publish BY <2>1, ExchangeStep
  <2>2. CASE \E i \in Ids : WsEvent(i) BY <2>2, WsStep
  <2>3. ASSUME NEW ok \in BOOLEAN, Construct(ok) PROVE IInv' BY <2>3, ConstructStep
  <2>4. ASSUME NEW ok \in BOOLEAN, Prime(ok) PROVE IInv' BY <2>4, PrimeStep
  <2>5. ASSUME NEW ok \in BOOLEAN, Poll(ok) PROVE IInv' BY <2>5, PollStep
  <2>6. CASE Mark BY <2>6, MarkStep
  <2>7. CASE Enter BY <2>7, EnterStep
  <2>8. CASE HandOver BY <2>8, HandOverStep
  <2>9. CASE PollEnd BY <2>9, PollEndStep
  <2>10. CASE Crash BY <2>10, CrashStep
  <2> QED BY <1>2, <2>1, <2>2, <2>3, <2>4, <2>5, <2>6, <2>7, <2>8, <2>9, <2>10 DEF Next
<1> QED BY <1>1, <1>2

-----------------------------------------------------------------------------
(* The theorems.                                                            *)

\* FillStream is type correct; in particular the memories of ids in
\* LiveRunner::poll_fills and UserChannel never hold more than SeenCap entries, and
\* neither does the one the start-up fills without a bound.
THEOREM TypeCorrect == Spec => []TypeOK
<1>1. IInv => TypeOK BY DEF IInv
<1> QED BY <1>1, Initially, Inductive, PTL DEF Spec

\* LiveRunner::poll_fills hands a trade to the engine at most once, for every size of
\* the page, the reordering and the memories that satisfies StreamAssumption.
THEOREM HandedAtMostOnce == Spec => []HandedOnce
<1>1. IInv => HandedOnce BY DEF IInv
<1> QED BY <1>1, Initially, Inductive, PTL DEF Spec

\* The cursor of ClobSubmitter::poll_fills passes no fill of ours that was on the page
\* and has not been handed over.
THEOREM CursorPassesNoFill == Spec => []CursorSkipsNothing
<1>1. IInv => CursorSkipsNothing
  <2> SUFFICES ASSUME IInv, pc = "run" PROVE CursorSkipsNothing
      BY DEF CursorSkipsNothing
  <2>1. Looping /\ rest = {} BY DEF IInv, PaceInv, Looping
  <2> QED BY <2>1 DEF IInv, CursorInv, CursorSkipsNothing
<1> QED BY <1>1, Initially, Inductive, PTL DEF Spec

\* A query of LiveRunner::poll_fills hands over no trade from before the start, if one
\* of the two start-up queries succeeded.
THEOREM RestNeverReplays == Spec => []NoReplayByRest
<1>1. IInv => NoReplayByRest BY DEF IInv
<1> QED BY <1>1, Initially, Inductive, PTL DEF Spec
=============================================================================
