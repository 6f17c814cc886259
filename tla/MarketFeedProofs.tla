-------------------------- MODULE MarketFeedProofs --------------------------
(***************************************************************************)
(* TLAPS proofs about MarketFeed, for any number of tokens, workers, levels *)
(* and faults: what the reader applies, in its order, is what happened at   *)
(* the exchange.                                                            *)
(***************************************************************************)
EXTENDS MarketFeed, FiniteSetTheorems, SequenceTheorems, TLAPS

\* Between two connections the server streams nothing.
LinkInv == rpc \in {"top", "opening", "exit"} => srv = {}

IInv == TypeOK /\ LinkInv /\ WsReplay

-----------------------------------------------------------------------------
(* Replaying messages.                                                      *)

\* A level of the replayed book.
LEMMA InReplayed ==
    ASSUME NEW ms \in Seq(Messages), NEW book, NEW t, NEW l \in Levels
    PROVE  l \in Replayed(ms, book, t) <=>
              \/ \E i \in 1..Len(ms) : /\ About(ms[i], t, l) /\ ms[i].kind # "erase" /\ l \in ms[i].book
                                       /\ \A j \in 1..Len(ms) : j > i => ~About(ms[j], t, l)
              \/ l \in book /\ \A i \in 1..Len(ms) : ~About(ms[i], t, l)
<1>1. DOMAIN ms = 1..Len(ms) OBVIOUS
<1> QED BY <1>1 DEF Replayed, Decides

\* Replaying gives a set of levels.
LEMMA ReplayedLevels ==
    ASSUME NEW ms, NEW book, NEW t PROVE Replayed(ms, book, t) \subseteq Levels
BY DEF Replayed

\* Messages about other tokens change nothing.
LEMMA ReplayOthers ==
    ASSUME NEW ms \in Seq(Messages), NEW e \in Seq(Messages), NEW book, NEW t,
           \A i \in 1..Len(e) : e[i].t # t
    PROVE  Replayed(ms \o e, book, t) = Replayed(ms, book, t)
<1> DEFINE w == ms \o e
<1>1. PICK n, k : n = Len(ms) /\ k = Len(e) OBVIOUS
<1>2. n \in Nat /\ k \in Nat /\ w \in Seq(Messages) /\ Len(w) = n + k
  BY <1>1
<1>3. \A i \in 1..(n + k) : (i \in 1..n /\ w[i] = ms[i]) \/ (i > n /\ i - n \in 1..k /\ w[i] = e[i - n])
  BY <1>1, <1>2
<1>4. \A i \in 1..n : i \in 1..(n + k) /\ w[i] = ms[i] BY <1>1, <1>2
<1>5. ASSUME NEW i \in 1..(n + k), NEW l, i > n PROVE ~About(w[i], t, l)
  BY <1>1, <1>2, <1>3, <1>5 DEF About
<1> HIDE DEF w
<1>6. ASSUME NEW l \in Levels PROVE l \in Replayed(w, book, t) <=> l \in Replayed(ms, book, t)
  <2> DEFINE Put(v, m, i) == /\ About(v[i], t, l) /\ v[i].kind # "erase" /\ l \in v[i].book
                             /\ \A j \in 1..m : j > i => ~About(v[j], t, l)
  <2>1. l \in Replayed(w, book, t) <=> \/ \E i \in 1..(n + k) : Put(w, n + k, i)
                                       \/ l \in book /\ \A i \in 1..(n + k) : ~About(w[i], t, l)
    BY <1>2, InReplayed
  <2>2. l \in Replayed(ms, book, t) <=> \/ \E i \in 1..n : Put(ms, n, i)
                                        \/ l \in book /\ \A i \in 1..n : ~About(ms[i], t, l)
    BY <1>1, InReplayed
  <2>3. (\A i \in 1..(n + k) : ~About(w[i], t, l)) <=> (\A i \in 1..n : ~About(ms[i], t, l))
    BY <1>3, <1>4, <1>5
  <2>4. ASSUME NEW i \in 1..n PROVE Put(w, n + k, i) <=> Put(ms, n, i)
    BY <1>3, <1>4, <1>5
  <2>5. (\E i \in 1..(n + k) : Put(w, n + k, i)) <=> (\E i \in 1..n : Put(ms, n, i))
    BY <1>3, <1>4, <1>5, <2>4
  <2> QED BY <2>1, <2>2, <2>3, <2>5
<1>7. Replayed(w, book, t) \subseteq Levels /\ Replayed(ms, book, t) \subseteq Levels
  BY ReplayedLevels
<1>8. Replayed(w, book, t) = Replayed(ms, book, t) BY <1>6, <1>7
<1> QED BY <1>8 DEF w

\* The k-th message of e is a snapshot of t, and the only one about t.
OnlySnapshot(e, k, t) ==
    /\ k \in 1..Len(e) /\ e[k].t = t /\ e[k].kind = "book"
    /\ \A j \in 1..Len(e) : j # k => e[j].t # t

\* A snapshot at the end, alone of its token, decides the whole book.
LEMMA ReplaySnapshot ==
    ASSUME NEW ms \in Seq(Messages), NEW e \in Seq(Messages), NEW book, NEW t, NEW k,
           OnlySnapshot(e, k, t)
    PROVE  Replayed(ms \o e, book, t) = e[k].book
<1>0. /\ k \in 1..Len(e) /\ e[k].t = t /\ e[k].kind = "book"
      /\ \A j \in 1..Len(e) : j # k => e[j].t # t
  BY DEF OnlySnapshot
<1> DEFINE w == ms \o e
<1>1. PICK n, h : n = Len(ms) /\ h = Len(e) OBVIOUS
<1>2. n \in Nat /\ h \in Nat /\ k \in 1..h /\ w \in Seq(Messages) /\ Len(w) = n + h
  BY <1>0, <1>1
<1>3. \A i \in 1..(n + h) : i > n => i - n \in 1..h /\ w[i] = e[i - n]
  BY <1>1, <1>2
<1>4. PICK q : q = n + k OBVIOUS
<1>5. q \in 1..(n + h) /\ w[q] = e[k] BY <1>2, <1>3, <1>4
<1>6. ASSUME NEW l PROVE About(w[q], t, l) /\ \A j \in 1..(n + h) : j > q => ~About(w[j], t, l)
  <2>1. About(w[q], t, l) BY <1>0, <1>5 DEF About
  <2>2. ASSUME NEW j \in 1..(n + h), j > q PROVE ~About(w[j], t, l)
    <3>1. j > n /\ j - n # k BY <1>2, <1>4, <2>2
    <3>2. j - n \in 1..h /\ w[j] = e[j - n] BY <1>3, <3>1
    <3>3. e[j - n].t # t BY <1>0, <1>1, <3>1, <3>2
    <3> QED BY <3>2, <3>3 DEF About
  <2> QED BY <2>1, <2>2
<1>7. w[q].kind = "book" /\ e[k].book \subseteq Levels
  <2>1. e[k] \in Messages BY <1>0, ElementOfSeq
  <2> QED BY <1>0, <1>5, <2>1 DEF Messages
<1> HIDE DEF w
<1>8. ASSUME NEW l \in Levels PROVE l \in Replayed(w, book, t) <=> l \in e[k].book
  <2>1. l \in Replayed(w, book, t) <=>
           \/ \E i \in 1..(n + h) : /\ About(w[i], t, l) /\ w[i].kind # "erase" /\ l \in w[i].book
                                    /\ \A j \in 1..(n + h) : j > i => ~About(w[j], t, l)
           \/ l \in book /\ \A i \in 1..(n + h) : ~About(w[i], t, l)
    BY <1>2, InReplayed
  <2>2. ASSUME l \in e[k].book PROVE l \in Replayed(w, book, t)
    BY <1>5, <1>6, <1>7, <2>1, <2>2
  <2>3. ASSUME l \in Replayed(w, book, t) PROVE l \in e[k].book
    <3>1. PICK i \in 1..(n + h) : /\ About(w[i], t, l) /\ l \in w[i].book
                                  /\ \A j \in 1..(n + h) : j > i => ~About(w[j], t, l)
      BY <1>5, <1>6, <2>1, <2>3
    <3>2. ~(q > i) /\ ~(i > q) BY <1>5, <1>6, <3>1
    <3>3. i = q BY <1>5, <3>2
    <3> QED BY <1>5, <3>1, <3>3
  <2> QED BY <2>2, <2>3
<1>9. Replayed(w, book, t) \subseteq Levels BY ReplayedLevels
<1>10. Replayed(w, book, t) = e[k].book BY <1>7, <1>8, <1>9
<1> QED BY <1>10 DEF w

\* A price_change of level x of token t.
IsDelta(m, t, x) == m \in Messages /\ m.t = t /\ m.kind \in {"set", "erase"} /\ m.book = {x}

\* A price_change at the end decides its level.
LEMMA ReplayDelta ==
    ASSUME NEW ms \in Seq(Messages), NEW m, NEW book, NEW t, NEW x \in Levels, IsDelta(m, t, x)
    PROVE  /\ m.kind = "set" => Replayed(Append(ms, m), book, t) = Replayed(ms, book, t) \cup {x}
           /\ m.kind = "erase" => Replayed(Append(ms, m), book, t) = Replayed(ms, book, t) \ {x}
<1> DEFINE w == Append(ms, m)
<1>0. m \in Messages /\ m.t = t /\ m.kind \in {"set", "erase"} /\ m.book = {x} BY DEF IsDelta
<1>1. PICK n : n = Len(ms) OBVIOUS
<1>2. n \in Nat /\ w \in Seq(Messages) /\ Len(w) = n + 1 /\ w[n + 1] = m
      /\ \A i \in 1..n : i \in 1..(n + 1) /\ w[i] = ms[i] /\ n + 1 > i
  BY <1>0, <1>1
<1>3. \A i \in 1..(n + 1) : i \in 1..n \/ i = n + 1 BY <1>2
<1>4. ASSUME NEW l PROVE About(m, t, l) <=> l = x BY <1>0, <1>1 DEF About
<1> HIDE DEF w
<1>5. ASSUME NEW l \in Levels
      PROVE  l \in Replayed(w, book, t) <=>
                IF l = x THEN m.kind = "set" ELSE l \in Replayed(ms, book, t)
  <2> DEFINE Put(v, h, i) == /\ About(v[i], t, l) /\ v[i].kind # "erase" /\ l \in v[i].book
                             /\ \A j \in 1..h : j > i => ~About(v[j], t, l)
  <2>1. l \in Replayed(w, book, t) <=> \/ \E i \in 1..(n + 1) : Put(w, n + 1, i)
                                       \/ l \in book /\ \A i \in 1..(n + 1) : ~About(w[i], t, l)
    BY <1>2, InReplayed
  <2>2. l \in Replayed(ms, book, t) <=> \/ \E i \in 1..n : Put(ms, n, i)
                                        \/ l \in book /\ \A i \in 1..n : ~About(ms[i], t, l)
    BY <1>1, InReplayed
  <2>3. CASE l = x
    <3>1. About(w[n + 1], t, l) /\ n + 1 \in 1..(n + 1) BY <1>2, <1>4, <2>3
    <3>2. ASSUME NEW i \in 1..n PROVE ~Put(w, n + 1, i) BY <1>2, <3>1
    <3>3. Put(w, n + 1, n + 1) <=> m.kind = "set"
      <4>1. \A j \in 1..(n + 1) : ~(j > n + 1) BY <1>2
      <4> QED BY <1>0, <1>2, <2>3, <3>1, <4>1
    <3>4. (\E i \in 1..(n + 1) : Put(w, n + 1, i)) <=> m.kind = "set" BY <1>3, <3>1, <3>2, <3>3
    <3> QED BY <2>1, <2>3, <3>1, <3>4
  <2>4. CASE l # x
    <3>1. ~About(w[n + 1], t, l) BY <1>2, <1>4, <2>4
    <3>2. ASSUME NEW i \in 1..n PROVE Put(w, n + 1, i) <=> Put(ms, n, i) BY <1>2, <1>3, <3>1
    <3>3. (\E i \in 1..(n + 1) : Put(w, n + 1, i)) <=> (\E i \in 1..n : Put(ms, n, i))
      BY <1>2, <1>3, <3>1, <3>2
    <3>4. (\A i \in 1..(n + 1) : ~About(w[i], t, l)) <=> (\A i \in 1..n : ~About(ms[i], t, l))
      BY <1>2, <1>3, <3>1
    <3> QED BY <2>1, <2>2, <2>4, <3>3, <3>4
  <2> QED BY <2>3, <2>4
<1>6. Replayed(w, book, t) \subseteq Levels /\ Replayed(ms, book, t) \subseteq Levels BY ReplayedLevels
<1>7. /\ m.kind = "set" => Replayed(w, book, t) = Replayed(ms, book, t) \cup {x}
      /\ m.kind = "erase" => Replayed(w, book, t) = Replayed(ms, book, t) \ {x}
  BY <1>0, <1>5, <1>6
<1> QED BY <1>7 DEF w

\* The reader applies the first message: the rest, replayed over the new book, gives
\* what all of them gave over the old one.
LEMMA ReplayTail ==
    ASSUME NEW ms \in Seq(Messages), ms # <<>>, NEW book, NEW t, NEW new,
           new = IF Head(ms).t = t THEN Applied(book, Head(ms)) ELSE book
    PROVE  Replayed(Tail(ms), new, t) = Replayed(ms, book, t)
<1> DEFINE w == Tail(ms)
<1>1. PICK n, m : n = Len(ms) - 1 /\ m = Head(ms) OBVIOUS
<1>2. /\ n \in Nat /\ Len(ms) = n + 1 /\ w \in Seq(Messages) /\ Len(w) = n /\ m = ms[1] /\ m \in Messages
      /\ \A i \in 1..n : w[i] = ms[i + 1]
  BY <1>1
<1> HIDE DEF w
<1>3. \A i \in 1..(n + 1) : i = 1 \/ (i - 1 \in 1..n /\ w[i - 1] = ms[i])
  <2> TAKE i \in 1..(n + 1)
  <2>1. i = 1 \/ (i - 1 \in 1..n /\ (i - 1) + 1 = i) BY <1>2
  <2> QED BY <1>2, <2>1
<1>4. \A i \in 1..n : i + 1 \in 1..(n + 1) /\ w[i] = ms[i + 1] /\ i + 1 > 1 BY <1>2
<1>5. ASSUME NEW l \in Levels PROVE l \in Replayed(w, new, t) <=> l \in Replayed(ms, book, t)
  <2> DEFINE Put(v, h, i) == /\ About(v[i], t, l) /\ v[i].kind # "erase" /\ l \in v[i].book
                             /\ \A j \in 1..h : j > i => ~About(v[j], t, l)
  <2>1. l \in Replayed(w, new, t) <=> \/ \E i \in 1..n : Put(w, n, i)
                                      \/ l \in new /\ \A i \in 1..n : ~About(w[i], t, l)
    BY <1>2, InReplayed
  <2>2. l \in Replayed(ms, book, t) <=> \/ \E i \in 1..(n + 1) : Put(ms, n + 1, i)
                                        \/ l \in book /\ \A i \in 1..(n + 1) : ~About(ms[i], t, l)
    BY <1>2, InReplayed
  <2>3. ASSUME NEW i \in 1..n PROVE Put(w, n, i) <=> Put(ms, n + 1, i + 1)
    <3>1. (\A j \in 1..n : j > i => ~About(w[j], t, l))
          <=> (\A j \in 1..(n + 1) : j > i + 1 => ~About(ms[j], t, l))
      <4>1. ASSUME \A j \in 1..n : j > i => ~About(w[j], t, l), NEW j \in 1..(n + 1), j > i + 1
            PROVE  ~About(ms[j], t, l)
        <5>1. j - 1 \in 1..n /\ j - 1 > i /\ w[j - 1] = ms[j] BY <1>2, <1>3, <4>1
        <5> QED BY <4>1, <5>1
      <4>2. ASSUME \A j \in 1..(n + 1) : j > i + 1 => ~About(ms[j], t, l), NEW j \in 1..n, j > i
            PROVE  ~About(w[j], t, l)
        <5>1. j + 1 \in 1..(n + 1) /\ j + 1 > i + 1 /\ w[j] = ms[j + 1] BY <1>2, <1>4, <4>2
        <5> QED BY <4>2, <5>1
      <4> QED BY <4>1, <4>2
    <3> QED BY <1>4, <3>1
  <2>4. (\A i \in 1..(n + 1) : ~About(ms[i], t, l))
        <=> ~About(m, t, l) /\ (\A i \in 1..n : ~About(w[i], t, l))
    <3>1. 1 \in 1..(n + 1) BY <1>2
    <3> QED BY <1>2, <1>3, <1>4, <3>1
  <2>5. Put(ms, n + 1, 1) <=> /\ About(m, t, l) /\ m.kind # "erase" /\ l \in m.book
                              /\ \A i \in 1..n : ~About(w[i], t, l)
    <3>1. (\A j \in 1..(n + 1) : j > 1 => ~About(ms[j], t, l)) <=> (\A i \in 1..n : ~About(w[i], t, l))
      BY <1>2, <1>3, <1>4
    <3> QED BY <1>2, <3>1
  <2>6. (\E i \in 1..(n + 1) : Put(ms, n + 1, i)) <=> Put(ms, n + 1, 1) \/ (\E i \in 1..n : Put(w, n, i))
    <3>1. 1 \in 1..(n + 1) BY <1>2
    <3>2. ASSUME NEW i \in 1..(n + 1), i # 1, Put(ms, n + 1, i) PROVE \E k \in 1..n : Put(w, n, k)
      <4>1. PICK k : k = i - 1 OBVIOUS
      <4>2. k \in 1..n /\ i = k + 1 BY <1>2, <1>3, <3>2, <4>1
      <4> QED BY <2>3, <3>2, <4>2
    <3>3. ASSUME NEW i \in 1..n, Put(w, n, i) PROVE \E k \in 1..(n + 1) : Put(ms, n + 1, k)
      BY <1>4, <2>3, <3>3
    <3> HIDE DEF Put
    <3> QED BY <3>1, <3>2, <3>3
  <2>7. l \in new <=> \/ About(m, t, l) /\ m.kind # "erase" /\ l \in m.book
                      \/ l \in book /\ ~About(m, t, l)
    <3>1. m.kind \in {"book", "set", "erase"} BY <1>2 DEF Messages
    <3> QED BY <1>1, <3>1 DEF About, Applied
  <2> HIDE DEF Put
  <2> QED BY <2>1, <2>2, <2>4, <2>5, <2>6, <2>7
<1>6. Replayed(w, new, t) \subseteq Levels /\ Replayed(ms, book, t) \subseteq Levels BY ReplayedLevels
<1>7. Replayed(w, new, t) = Replayed(ms, book, t) BY <1>5, <1>6
<1> QED BY <1>7 DEF w

\* Under a snapshot the book that is there does not matter.
LEMMA ReplayCovered ==
    ASSUME NEW ms \in Seq(Messages), NEW book, NEW other, NEW t,
           \E i \in 1..Len(ms) : ms[i].t = t /\ ms[i].kind = "book"
    PROVE  Replayed(ms, book, t) = Replayed(ms, other, t)
<1>1. \A l : \E i \in 1..Len(ms) : About(ms[i], t, l) BY DEF About
<1>2. ASSUME NEW l \in Levels PROVE l \in Replayed(ms, book, t) <=> l \in Replayed(ms, other, t)
  <2>1. \A b : l \in Replayed(ms, b, t) <=>
           \/ \E i \in 1..Len(ms) : /\ About(ms[i], t, l) /\ ms[i].kind # "erase" /\ l \in ms[i].book
                                    /\ \A j \in 1..Len(ms) : j > i => ~About(ms[j], t, l)
           \/ l \in b /\ \A i \in 1..Len(ms) : ~About(ms[i], t, l)
    BY InReplayed
  <2> QED BY <1>1, <2>1
<1>3. Replayed(ms, book, t) \subseteq Levels /\ Replayed(ms, other, t) \subseteq Levels BY ReplayedLevels
<1> QED BY <1>2, <1>3

-----------------------------------------------------------------------------
(* Subscribing.                                                             *)

\* The snapshots of a set of tokens, in some order: each token once.
LEMMA Snapshots ==
    ASSUME TypeOK, NEW S \in SUBSET Tokens, NEW order \in SetToSeqs(S), NEW e,
           e = [i \in DOMAIN order |-> Snapshot(order[i])]
    PROVE  /\ e \in Seq(Messages)
           /\ \A i \in 1..Len(e) : e[i].t \in S
           /\ \A t \in S : \E k : OnlySnapshot(e, k, t) /\ e[k].book = truth[t]
<1>1. PICK n : n = Cardinality(S) OBVIOUS
<1>2. IsFiniteSet(S) /\ n \in Nat
  <2>1. 1 \in Int /\ NumTokens \in Int BY FeedAssumption
  <2>2. IsFiniteSet(Tokens) BY <2>1, FS_Interval DEF Tokens
  <2> QED BY <1>1, <2>2, FS_Subset, FS_CardinalityType
<1>3. order \in [1..n -> S] /\ \A i, j \in 1..n : i # j => order[i] # order[j]
  BY <1>1 DEF SetToSeqs
<1>4. order \in Injection(1..n, S) BY <1>3 DEF Injection, IsInjective
<1>5. Cardinality(1..n) = n
  <2>1. 1 \in Int /\ n \in Int BY <1>2
  <2>2. Cardinality(1..n) = IF 1 > n THEN 0 ELSE n - 1 + 1 BY <2>1, FS_Interval
  <2> QED BY <1>2, <2>2
<1>6. order \in Surjection(1..n, S) BY <1>1, <1>2, <1>4, <1>5, FS_Injection
<1>7. \A t \in S : \E k \in 1..n : order[k] = t BY <1>6 DEF Surjection
<1>8. \A t \in Tokens : Snapshot(t) \in Messages /\ Snapshot(t).t = t /\ Snapshot(t).kind = "book"
                        /\ Snapshot(t).book = truth[t]
  BY DEF Snapshot, Messages, TypeOK
<1>9. e = [i \in 1..n |-> Snapshot(order[i])] BY <1>3
<1>10. \A i \in 1..n : order[i] \in S /\ order[i] \in Tokens BY <1>3
<1>11. e \in [1..n -> Messages] BY <1>8, <1>9, <1>10
<1>12. e \in Seq(Messages) /\ Len(e) = n BY <1>2, <1>11
<1>13. \A i \in 1..n : e[i].t = order[i] /\ e[i].kind = "book" /\ e[i].book = truth[order[i]]
  BY <1>8, <1>9, <1>10
<1>14. ASSUME NEW t \in S
       PROVE  \E k : OnlySnapshot(e, k, t) /\ e[k].book = truth[t]
  <2>1. PICK k \in 1..n : order[k] = t BY <1>7
  <2>2. \A j \in 1..n : j # k => e[j].t # t BY <1>3, <1>13, <2>1
  <2>3. OnlySnapshot(e, k, t) BY <1>12, <1>13, <2>1, <2>2 DEF OnlySnapshot
  <2>4. e[k].book = truth[t] BY <1>13, <2>1
  <2> QED BY <2>3, <2>4
<1> QED BY <1>10, <1>12, <1>13, <1>14

\* A frame lets the server stream its tokens, each from a snapshot on.
LEMMA SendStep ==
    ASSUME TypeOK, WsReplay, NEW ts \in SUBSET Tokens, Send(ts) \/ NoSend,
           UNCHANGED <<truth, conn, levels, tainted>>
    PROVE  /\ WsReplay' /\ wire' \in Seq(Messages) /\ srv' \in SUBSET Tokens
           /\ sendLost' \in BOOLEAN /\ faults' \in 0..MaxFaults
<1>0. /\ wire \in Seq(Messages) /\ srv \in SUBSET Tokens /\ faults \in 0..MaxFaults /\ MaxFaults \in Nat
  BY FeedAssumption DEF TypeOK
<1>1. sendLost' \in BOOLEAN
  <2>1. sendLost \in BOOLEAN BY DEF TypeOK
  <2>2. sendLost' = sendLost \/ sendLost' = TRUE BY DEF Send, NoSend
  <2> QED BY <2>1, <2>2
<1>2. faults' \in 0..MaxFaults
  <2>1. faults' = faults \/ (faults < MaxFaults /\ faults' = faults + 1) BY DEF Send, NoSend
  <2> QED BY <1>0, <2>1
<1>3. CASE UNCHANGED <<srv, wire>>
  BY <1>0, <1>1, <1>2, <1>3 DEF WsReplay, SnapshotUnderWay
<1>4. CASE ~UNCHANGED <<srv, wire>>
  <2>1. PICK again \in SUBSET (ts \cap srv) :
          /\ conn = "up" /\ srv' = srv \cup ts
          /\ \E order \in SetToSeqs((ts \ srv) \cup again) :
                wire' = wire \o [i \in DOMAIN order |-> Snapshot(order[i])]
    BY <1>4 DEF Send, NoSend
  <2>2. PICK S : S = (ts \ srv) \cup again OBVIOUS
  <2>3. S \in SUBSET Tokens BY <1>0, <2>2
  <2>4. PICK order \in SetToSeqs(S) : wire' = wire \o [i \in DOMAIN order |-> Snapshot(order[i])]
    BY <2>1, <2>2
  <2>5. PICK e : e = [i \in DOMAIN order |-> Snapshot(order[i])] OBVIOUS
  <2>6. /\ e \in Seq(Messages) /\ wire' = wire \o e
        /\ \A i \in 1..Len(e) : e[i].t \in S
        /\ \A t \in S : \E k : OnlySnapshot(e, k, t) /\ e[k].book = truth[t]
    <3>1. /\ e \in Seq(Messages)
          /\ \A i \in 1..Len(e) : e[i].t \in S
          /\ \A t \in S : \E k : OnlySnapshot(e, k, t) /\ e[k].book = truth[t]
      BY <2>3, <2>5, Snapshots
    <3> QED BY <2>4, <2>5, <3>1
  <2>7. wire' \in Seq(Messages) BY <1>0, <2>6
  <2>8. ASSUME NEW t \in S PROVE Replayed(wire', levels'[t], t) = truth'[t]
    <3>1. PICK k : OnlySnapshot(e, k, t) /\ e[k].book = truth[t]
      BY <2>6, <2>8
    <3>2. wire \in Seq(Messages) /\ e \in Seq(Messages) BY <1>0, <2>6
    <3>3. Replayed(wire \o e, levels[t], t) = e[k].book BY <3>1, <3>2, ReplaySnapshot
    <3> QED BY <2>6, <3>1, <3>3
  <2>9. ASSUME NEW t \in srv', t \notin S, t \notin tainted' \/ SnapshotUnderWay(t)'
        PROVE  Replayed(wire', levels'[t], t) = truth'[t]
    <3>1. t \in srv BY <2>1, <2>2, <2>9
    <3>2. \A i \in 1..Len(e) : e[i].t # t BY <2>6, <2>9
    <3>3. Replayed(wire \o e, levels[t], t) = Replayed(wire, levels[t], t) BY <1>0, <2>6, <3>2, ReplayOthers
    <3>4. SnapshotUnderWay(t)' => SnapshotUnderWay(t)
      <4>1. ASSUME NEW i \in DOMAIN wire', wire'[i].t = t, wire'[i].kind = "book" PROVE SnapshotUnderWay(t)
        <5>1. \/ i \in 1..Len(wire) /\ wire'[i] = wire[i]
              \/ i - Len(wire) \in 1..Len(e) /\ wire'[i] = e[i - Len(wire)]
          BY <1>0, <2>6, <4>1
        <5>2. i \in DOMAIN wire /\ wire'[i] = wire[i] BY <1>0, <3>2, <4>1, <5>1
        <5> QED BY <4>1, <5>2 DEF SnapshotUnderWay
      <4> QED BY <4>1 DEF SnapshotUnderWay
    <3>5. Replayed(wire, levels[t], t) = truth[t] BY <2>1, <2>9, <3>1, <3>4 DEF WsReplay
    <3> QED BY <2>6, <3>3, <3>5
  <2>10. WsReplay' BY <2>8, <2>9 DEF WsReplay
  <2>11. srv' \in SUBSET Tokens BY <1>0, <2>1
  <2> QED BY <1>1, <1>2, <2>7, <2>10, <2>11
<1> QED BY <1>3, <1>4

-----------------------------------------------------------------------------
(* The steps.                                                               *)

\* A step that leaves books, messages and truth alone.
LEMMA ReplayKept ==
    ASSUME WsReplay, UNCHANGED <<truth, wire, levels, tainted>>, srv' \subseteq srv, conn' = "up" => conn = "up"
    PROVE  WsReplay'
BY DEF WsReplay, SnapshotUnderWay

\* A book that is written past the connection is tainted, until a snapshot repairs it.
LEMMA ReplayTainted ==
    ASSUME TypeOK, WsReplay, UNCHANGED <<truth, wire, conn, srv>>, tainted \subseteq tainted',
           \A t \in Tokens : t \in tainted' \/ levels'[t] = levels[t]
    PROVE  WsReplay'
<1> SUFFICES ASSUME NEW t \in srv, conn = "up", t \notin tainted' \/ SnapshotUnderWay(t)
             PROVE  Replayed(wire, levels'[t], t) = truth[t]
    BY DEF WsReplay, SnapshotUnderWay
<1>1. Replayed(wire, levels[t], t) = truth[t] BY DEF WsReplay
<1>2. CASE SnapshotUnderWay(t)
  <2>1. wire \in Seq(Messages) /\ DOMAIN wire = 1..Len(wire) BY DEF TypeOK
  <2>2. \E i \in 1..Len(wire) : wire[i].t = t /\ wire[i].kind = "book" BY <1>2, <2>1 DEF SnapshotUnderWay
  <2>3. Replayed(wire, levels'[t], t) = Replayed(wire, levels[t], t) BY <2>1, <2>2, ReplayCovered
  <2> QED BY <1>1, <2>3
<1>3. CASE t \notin tainted'
  <2>1. t \in Tokens BY DEF TypeOK
  <2> QED BY <1>1, <1>3, <2>1
<1> QED BY <1>2, <1>3

\* A price change at the exchange, and the message about it.
LEMMA ChangeStep ==
    ASSUME IInv, NEW t \in Movers, NEW x \in Moving, Change(t, x)
    PROVE  IInv'
<1>1. /\ t \in Tokens /\ x \in Levels /\ truth[t] \subseteq Levels
      /\ truth \in [Tokens -> SUBSET Levels] /\ wire \in Seq(Messages) /\ DOMAIN wire = 1..Len(wire)
  BY FeedAssumption DEF IInv, TypeOK, Tokens, Levels
<1>2. /\ truth' = [truth EXCEPT ![t] = Toggle(@, x)]
      /\ UNCHANGED <<conn, srv, subs, levels, stop, registered, rpc, toks, refs, mpc, todo, rest, dstop, waits,
                     tainted, sendLost, sets, faults>>
  BY DEF Change, channel, reader, runner
<1>3. Toggle(truth[t], x) \subseteq Levels BY <1>1 DEF Toggle
<1>4. PICK m : m = Delta(t, x) OBVIOUS
<1>5. /\ m \in Messages /\ m.t = t /\ m.book = {x} /\ m.kind \in {"set", "erase"}
      /\ m.kind = "erase" <=> x \in truth[t]
  BY <1>1, <1>4 DEF Delta, Messages
<1>6. wire' \in Seq(Messages) BY <1>1, <1>4, <1>5 DEF Change
<1>7. TypeOK'
  <2>1. changes' \in 0..MaxChanges BY FeedAssumption DEF Change, IInv, TypeOK
  <2>2. truth' \in [Tokens -> SUBSET Levels] BY <1>1, <1>2, <1>3
  <2> QED BY <1>2, <1>6, <2>1, <2>2 DEF IInv, TypeOK
<1>8. WsReplay'
  <2> SUFFICES ASSUME NEW u \in srv, conn = "up", u \notin tainted \/ SnapshotUnderWay(u)'
               PROVE  Replayed(wire', levels[u], u) = truth'[u]
      BY <1>2 DEF WsReplay
  <2>1. u \in Tokens BY DEF IInv, TypeOK
  <2>2. CASE t \notin srv
    <3>1. wire' = wire /\ u # t BY <2>2 DEF Change
    <3>2. Replayed(wire, levels[u], u) = truth[u] BY <3>1 DEF IInv, WsReplay, SnapshotUnderWay
    <3> QED BY <1>1, <1>2, <2>1, <3>1, <3>2
  <2>3. CASE t \in srv
    <3>1. wire' = Append(wire, m) BY <1>4, <2>3 DEF Change
    <3>2. SnapshotUnderWay(u)' => SnapshotUnderWay(u)
      <4>1. ASSUME NEW i \in DOMAIN wire', wire'[i].kind = "book" PROVE i \in DOMAIN wire /\ wire'[i] = wire[i]
        <5>1. i \in 1..(Len(wire) + 1) BY <1>1, <3>1, <4>1
        <5>2. i # Len(wire) + 1 BY <1>1, <1>5, <3>1, <4>1
        <5> QED BY <1>1, <3>1, <5>1, <5>2
      <4> QED BY <4>1 DEF SnapshotUnderWay
    <3>3. Replayed(wire, levels[u], u) = truth[u] BY <3>2 DEF IInv, WsReplay
    <3>4. CASE u = t
      <4>1. IsDelta(m, t, x) BY <1>5 DEF IsDelta
      <4>2. /\ m.kind = "set" => Replayed(Append(wire, m), levels[t], t) = Replayed(wire, levels[t], t) \cup {x}
            /\ m.kind = "erase" => Replayed(Append(wire, m), levels[t], t) = Replayed(wire, levels[t], t) \ {x}
        BY <1>1, <4>1, ReplayDelta
      <4>3. truth'[t] = Toggle(truth[t], x) BY <1>1, <1>2
      <4> QED BY <1>5, <3>1, <3>3, <3>4, <4>2, <4>3 DEF Toggle
    <3>5. CASE u # t
      <4>0. PICK e : e = <<m>> OBVIOUS
      <4>1. wire' = wire \o e /\ e \in Seq(Messages) /\ \A i \in 1..Len(e) : e[i].t # u
        BY <1>1, <1>5, <3>1, <3>5, <4>0
      <4>2. Replayed(wire \o e, levels[u], u) = Replayed(wire, levels[u], u)
        BY <1>1, <4>1, ReplayOthers
      <4>3. truth'[u] = truth[u] BY <1>1, <1>2, <2>1, <3>5
      <4> QED BY <3>3, <4>1, <4>2, <4>3
    <3> QED BY <3>4, <3>5
  <2> QED BY <2>2, <2>3
<1>9. LinkInv' BY <1>2 DEF IInv, LinkInv
<1> QED BY <1>7, <1>8, <1>9 DEF IInv

\* The reader applies the first message under way.
LEMMA HandleStep ==
    ASSUME IInv, Handle
    PROVE  IInv'
<1>1. PICK m : m = Head(wire) OBVIOUS
<1>2. /\ wire \in Seq(Messages) /\ wire # <<>> /\ m \in Messages /\ m = wire[1] /\ wire' = Tail(wire)
      /\ Tail(wire) \in Seq(Messages) /\ DOMAIN wire = 1..Len(wire) /\ 1 \in 1..Len(wire)
      /\ \A i \in DOMAIN Tail(wire) : i + 1 \in DOMAIN wire /\ Tail(wire)[i] = wire[i + 1]
  BY <1>1 DEF Handle, IInv, TypeOK
<1>3. m.t \in Tokens /\ m.kind \in {"book", "set", "erase"} /\ m.book \subseteq Levels BY <1>2 DEF Messages
<1>4. /\ levels' = [levels EXCEPT ![m.t] = Applied(@, m)]
      /\ tainted' = IF m.kind = "book" THEN tainted \ {m.t} ELSE tainted
      /\ rpc = "recv" /\ rpc' = "loop"
      /\ UNCHANGED <<truth, conn, srv, subs, stop, registered, toks, refs, mpc, todo, rest, dstop, waits, sendLost,
                     changes, sets, faults>>
  BY <1>1 DEF Handle, Goto, runner
<1>5. levels \in [Tokens -> SUBSET Levels] BY DEF IInv, TypeOK
<1>6. levels' \in [Tokens -> SUBSET Levels]
  <2>1. levels[m.t] \subseteq Levels BY <1>3, <1>5
  <2>2. Applied(levels[m.t], m) \subseteq Levels BY <1>3, <2>1 DEF Applied
  <2> QED BY <1>3, <1>4, <1>5, <2>2
<1>7. TypeOK' BY <1>2, <1>4, <1>6 DEF IInv, TypeOK
<1>8. ASSUME NEW t \in srv, conn = "up", t \notin tainted' \/ SnapshotUnderWay(t)'
      PROVE  Replayed(wire', levels'[t], t) = truth[t]
  <2>1. t \in Tokens BY DEF IInv, TypeOK
  <2>2. SnapshotUnderWay(t)' => SnapshotUnderWay(t) BY <1>2 DEF SnapshotUnderWay
  <2>3. t \notin tainted' => t \notin tainted \/ SnapshotUnderWay(t) BY <1>2, <1>4 DEF SnapshotUnderWay
  <2>4. Replayed(wire, levels[t], t) = truth[t] BY <1>8, <2>2, <2>3 DEF IInv, WsReplay
  <2>5. levels'[t] = IF Head(wire).t = t THEN Applied(levels[t], Head(wire)) ELSE levels[t]
    BY <1>1, <1>3, <1>4, <1>5, <2>1
  <2>6. Replayed(Tail(wire), levels'[t], t) = Replayed(wire, levels[t], t) BY <1>2, <2>5, ReplayTail
  <2> QED BY <1>2, <2>4, <2>6
<1>9. WsReplay' BY <1>4, <1>8 DEF WsReplay
<1>10. LinkInv' BY <1>4 DEF LinkInv
<1> QED BY <1>7, <1>9, <1>10 DEF IInv

\* The reader drops the first message under way: a later snapshot of its token decides
\* the book as before.
LEMMA OversizeStep ==
    ASSUME IInv, Oversize, faults' \in 0..MaxFaults
    PROVE  IInv'
<1>1. PICK m : m = Head(wire) OBVIOUS
<1>2. /\ wire \in Seq(Messages) /\ wire # <<>> /\ m \in Messages /\ wire' = Tail(wire)
      /\ Tail(wire) \in Seq(Messages) /\ DOMAIN Tail(wire) = 1..Len(Tail(wire))
      /\ \A i \in DOMAIN Tail(wire) : i + 1 \in DOMAIN wire /\ Tail(wire)[i] = wire[i + 1]
  BY <1>1 DEF Oversize, IInv, TypeOK
<1>3. m.t \in Tokens BY <1>2 DEF Messages
<1>4. /\ tainted' = tainted \cup {m.t} /\ rpc = "recv" /\ rpc' = "loop"
      /\ UNCHANGED <<truth, conn, srv, subs, levels, stop, registered, toks, refs, mpc, todo, rest, dstop,
                     waits, sendLost, changes, sets>>
  BY <1>1 DEF Oversize, Goto, channel, runner
<1>5. TypeOK' BY <1>2, <1>3, <1>4 DEF IInv, TypeOK
<1>6. ASSUME NEW t \in srv, conn = "up", t \notin tainted' \/ SnapshotUnderWay(t)'
      PROVE  Replayed(wire', levels[t], t) = truth[t]
  <2>1. SnapshotUnderWay(t)' => SnapshotUnderWay(t) BY <1>2 DEF SnapshotUnderWay
  <2>2. Replayed(wire, levels[t], t) = truth[t] BY <1>4, <1>6, <2>1 DEF IInv, WsReplay
  <2>3. PICK new : new = IF Head(wire).t = t THEN Applied(levels[t], Head(wire)) ELSE levels[t] OBVIOUS
  <2>4. Replayed(Tail(wire), new, t) = truth[t] BY <1>2, <2>2, <2>3, ReplayTail
  <2>5. CASE SnapshotUnderWay(t)'
    <3>1. \E i \in 1..Len(Tail(wire)) : Tail(wire)[i].t = t /\ Tail(wire)[i].kind = "book"
      BY <1>2, <2>5 DEF SnapshotUnderWay
    <3>2. Replayed(Tail(wire), levels[t], t) = Replayed(Tail(wire), new, t) BY <1>2, <3>1, ReplayCovered
    <3> QED BY <1>2, <2>4, <3>2
  <2>6. CASE t \notin tainted'
    <3>1. new = levels[t] BY <1>1, <1>4, <2>3, <2>6
    <3> QED BY <1>2, <2>4, <3>1
  <2> QED BY <1>6, <2>5, <2>6
<1>7. WsReplay' BY <1>4, <1>6 DEF WsReplay
<1>8. LinkInv' BY <1>4 DEF LinkInv
<1> QED BY <1>5, <1>7, <1>8 DEF IInv

\* Every step keeps the invariant.
LEMMA NextInv == IInv /\ [Next]_vars => IInv'
<1> SUFFICES ASSUME IInv, [Next]_vars PROVE IInv'
    OBVIOUS
<1> USE DEF IInv
<1>0. MaxFaults \in Nat /\ MaxSets \in Nat /\ faults \in 0..MaxFaults BY FeedAssumption DEF TypeOK
<1>1. ASSUME faults < MaxFaults, faults' = faults + 1 PROVE faults' \in 0..MaxFaults BY <1>0, <1>1
<1>2. CASE UNCHANGED vars
  <2>1. TypeOK' /\ LinkInv'
    BY <1>2 DEF vars, exchange, channel, reader, runner, ghosts, TypeOK, LinkInv
  <2>2. WsReplay' BY <1>2, ReplayKept DEF vars, exchange, channel, ghosts
  <2> QED BY <2>1, <2>2
<1>3. ASSUME NEW t \in Movers, NEW l \in Moving, Change(t, l) PROVE IInv' BY <1>3, ChangeStep
<1>4. CASE Drop
  <2>1. faults' \in 0..MaxFaults BY <1>1, <1>4 DEF Drop
  <2>2. TypeOK' /\ LinkInv' BY <1>4, <2>1 DEF Drop, channel, reader, runner, TypeOK, LinkInv
  <2>3. WsReplay' BY <1>4, ReplayKept DEF Drop, channel
  <2> QED BY <2>2, <2>3
<1>5. CASE Top \/ Timeout \/ Closed
  <2>1. WsReplay' BY <1>5, ReplayKept DEF Top, Timeout, Closed, exchange, channel, ghosts
  <2>2. TypeOK'
    BY <1>5 DEF Top, Timeout, Closed, Goto, exchange, channel, runner, ghosts, TypeOK
  <2>3. LinkInv' BY <1>5 DEF Top, Timeout, Closed, Goto, exchange, LinkInv
  <2> QED BY <2>1, <2>2, <2>3
<1>6. CASE Connect
  <2>1. srv = {} /\ srv' = {} BY <1>6 DEF Connect, LinkInv
  <2>2. TypeOK' BY <1>6 DEF Connect, Goto, channel, runner, ghosts, TypeOK
  <2> QED BY <1>6, <2>1, <2>2 DEF Connect, Goto, LinkInv, WsReplay
<1>7. CASE ConnectFail
  <2>1. faults' \in 0..MaxFaults BY <1>1, <1>7 DEF ConnectFail
  <2>2. TypeOK' BY <1>7, <2>1 DEF ConnectFail, exchange, channel, runner, TypeOK
  <2>3. LinkInv' BY <1>7 DEF ConnectFail, exchange, LinkInv
  <2>4. WsReplay' BY <1>7, ReplayKept DEF ConnectFail, exchange, channel
  <2> QED BY <2>2, <2>3, <2>4
<1>8. CASE Register
  <2>1. toks \in SUBSET Tokens /\ UNCHANGED <<truth, conn, levels, tainted>> /\ Send(toks)
    BY <1>8 DEF Register, TypeOK
  <2>2. /\ WsReplay' /\ wire' \in Seq(Messages) /\ srv' \in SUBSET Tokens
        /\ sendLost' \in BOOLEAN /\ faults' \in 0..MaxFaults
    BY <2>1, SendStep
  <2>3. /\ registered' = TRUE /\ rpc' = "loop"
        /\ UNCHANGED <<toks, subs, stop, refs, mpc, todo, rest, dstop, waits, changes, sets>>
    BY <1>8 DEF Register, Goto, runner
  <2>4. TypeOK' BY <2>1, <2>2, <2>3 DEF TypeOK
  <2>5. LinkInv' BY <2>3 DEF LinkInv
  <2> QED BY <2>2, <2>4, <2>5
<1>9. CASE Loop
  <2>1. subs \in SUBSET Tokens /\ UNCHANGED <<truth, conn, levels, tainted>> /\ (Send(subs) \/ NoSend)
    BY <1>9 DEF Loop, channel, TypeOK
  <2>2. /\ WsReplay' /\ wire' \in Seq(Messages) /\ srv' \in SUBSET Tokens
        /\ sendLost' \in BOOLEAN /\ faults' \in 0..MaxFaults
    BY <2>1, SendStep
  <2>3. /\ rpc' \in {"closing", "recv"} /\ toks' \in SUBSET Tokens
        /\ UNCHANGED <<subs, stop, registered, refs, mpc, todo, rest, dstop, waits, changes, sets>>
    BY <1>9, <2>1 DEF Loop, Goto, channel, runner, TypeOK
  <2>4. TypeOK' BY <2>1, <2>2, <2>3 DEF TypeOK
  <2>5. LinkInv' BY <2>3 DEF LinkInv
  <2> QED BY <2>2, <2>4, <2>5
<1>10. CASE Handle BY <1>10, HandleStep
<1>13. CASE Oversize
  <2>1. faults' \in 0..MaxFaults BY <1>1, <1>13 DEF Oversize
  <2> QED BY <1>13, <2>1, OversizeStep
<1>11. CASE Close
  <2>1. TypeOK'
    <3>1. /\ registered' = FALSE /\ sendLost' = FALSE /\ conn' = "none" /\ srv' = {} /\ wire' = <<>>
          /\ tainted' = Tokens /\ rpc' = "top" /\ toks' = {}
          /\ UNCHANGED <<truth, subs, levels, stop, refs, mpc, todo, rest, dstop, waits, changes, sets, faults>>
      BY <1>11 DEF Close, runner
    <3>2. wire' \in Seq(Messages) BY <3>1
    <3> QED BY <3>1, <3>2 DEF TypeOK
  <2> QED BY <1>11, <2>1 DEF Close, LinkInv, WsReplay
<1>12. ASSUME NEW w \in Workers, Ask(w) PROVE IInv'
  <2>1. WsReplay' /\ LinkInv'
    BY <1>12, ReplayKept DEF Ask, exchange, channel, reader, ghosts, LinkInv
  <2>2. PICK left \in SUBSET Tokens, t \in Tokens :
          /\ rest' = [rest EXCEPT ![w] = [t |-> t, book |-> truth[t]]]
          /\ todo' = [todo EXCEPT ![w] = left \ {t}]
    <3>1. todo[w] \in SUBSET Tokens /\ Slice(w) \in SUBSET Tokens BY <1>12 DEF Slice, TypeOK
    <3> QED BY <1>12, <3>1 DEF Ask
  <2>3. [t |-> t, book |-> truth[t]] \in [t : Tokens, book : SUBSET Levels] BY <2>2 DEF TypeOK
  <2>4. /\ rest' \in [Workers -> [t : Tokens, book : SUBSET Levels] \cup {NoBook}]
        /\ todo' \in [Workers -> SUBSET Tokens]
    BY <1>12, <2>2, <2>3 DEF TypeOK
  <2>5. TypeOK' BY <1>12, <2>4 DEF Ask, exchange, channel, reader, ghosts, TypeOK
  <2> QED BY <2>1, <2>5
<1>14. ASSUME NEW w \in Workers, Resync(w) PROVE IInv'
  <2>1. rest[w].t \in Tokens /\ rest[w].book \in SUBSET Levels BY <1>14 DEF Resync, TypeOK
  <2>2. /\ UNCHANGED <<truth, conn, srv, wire, subs, stop, registered, rpc, toks, refs, mpc, todo, dstop, waits,
                       sendLost, changes, sets, faults>>
        /\ rest' = [rest EXCEPT ![w] = NoBook]
    BY <1>14 DEF Resync, exchange, reader
  <2>3. rest' \in [Workers -> [t : Tokens, book : SUBSET Levels] \cup {NoBook}] BY <2>2 DEF TypeOK
  <2>4. CASE ~TwoSided(rest[w].book)
    <3>1. UNCHANGED <<levels, tainted>> BY <1>14, <2>4 DEF Resync, RestApplied
    <3>2. WsReplay' BY <2>2, <3>1, ReplayKept
    <3>3. TypeOK' /\ LinkInv' BY <2>2, <2>3, <3>1 DEF TypeOK, LinkInv
    <3> QED BY <3>2, <3>3
  <2>5. CASE TwoSided(rest[w].book)
    <3>1. /\ levels' = [levels EXCEPT ![rest[w].t] = rest[w].book]
          /\ tainted' = tainted \cup {rest[w].t}
      BY <1>14, <2>5 DEF Resync, RestApplied
    <3>2. levels \in [Tokens -> SUBSET Levels] BY DEF TypeOK
    <3>3. levels' \in [Tokens -> SUBSET Levels] BY <2>1, <3>1, <3>2
    <3>4. \A t \in Tokens : t \in tainted' \/ levels'[t] = levels[t] BY <3>1, <3>2
    <3>5. WsReplay' BY <2>2, <3>1, <3>4, ReplayTainted
    <3>6. TypeOK' /\ LinkInv' BY <2>1, <2>2, <2>3, <3>1, <3>3 DEF TypeOK, LinkInv
    <3> QED BY <3>5, <3>6
  <2> QED BY <2>4, <2>5
<1>15. ASSUME NEW w \in Workers, ResyncFail(w) PROVE IInv'
  <2>1. faults' \in 0..MaxFaults BY <1>1, <1>15 DEF ResyncFail
  <2>2. rest' \in [Workers -> [t : Tokens, book : SUBSET Levels] \cup {NoBook}]
    BY <1>15 DEF ResyncFail, TypeOK
  <2>3. TypeOK' /\ LinkInv'
    BY <1>15, <2>1, <2>2 DEF ResyncFail, exchange, channel, reader, TypeOK, LinkInv
  <2>4. WsReplay' BY <1>15, ReplayKept DEF ResyncFail, exchange, channel
  <2> QED BY <2>3, <2>4
<1>16. ASSUME NEW S \in Selections, SetTokens(S) PROVE IInv'
  <2>0. S \in SUBSET Tokens BY FeedAssumption DEF Tokens
  <2>1. sets' \in 0..MaxSets BY <1>0, <1>16 DEF SetTokens, TypeOK
  <2>2. /\ levels' = [t \in Tokens |-> IF t \in S THEN levels[t] ELSE {}]
        /\ tainted' = tainted \cup (Tokens \ S) /\ subs' = S /\ mpc' = "refs"
        /\ UNCHANGED <<truth, conn, srv, wire, stop, registered, rpc, toks, refs, todo, rest, dstop, waits,
                       sendLost, changes, faults>>
    BY <1>16 DEF SetTokens, exchange, reader
  <2>3. levels' \in [Tokens -> SUBSET Levels] BY <2>2 DEF TypeOK
  <2>4. TypeOK' /\ LinkInv' BY <2>0, <2>1, <2>2, <2>3 DEF TypeOK, LinkInv
  <2>5. \A t \in Tokens : t \in tainted' \/ levels'[t] = levels[t] BY <2>2
  <2>6. WsReplay' BY <2>2, <2>5, ReplayTainted
  <2> QED BY <2>4, <2>6
<1>17. CASE RefreshRefs \/ Shutdown \/ ScanEnds \/ StopFlag \/ Join \/ UserUpgraded \/ UserJoin
  <2>1. WsReplay' /\ LinkInv'
    BY <1>17, ReplayKept DEF RefreshRefs, Shutdown, ScanEnds, StopFlag, Join, UserUpgraded, UserJoin,
       exchange, channel, reader, ghosts, LinkInv
  <2>2. TypeOK'
    BY <1>17 DEF RefreshRefs, Shutdown, ScanEnds, StopFlag, Join, UserUpgraded, UserJoin,
       exchange, channel, reader, ghosts, TypeOK
  <2> QED BY <2>1, <2>2
<1>18. CASE ShutdownSocket
  <2>1. WsReplay' /\ LinkInv'
    BY <1>18, ReplayKept DEF ShutdownSocket, channel, reader, ghosts, LinkInv
  <2>2. TypeOK' BY <1>18 DEF ShutdownSocket, channel, reader, ghosts, TypeOK
  <2> QED BY <2>1, <2>2
<1> QED BY <1>2, <1>3, <1>4, <1>5, <1>6, <1>7, <1>8, <1>9, <1>10, <1>11, <1>12, <1>13, <1>14, <1>15, <1>16, <1>17,
           <1>18 DEF Next, Reader

-----------------------------------------------------------------------------
(* The theorems.                                                            *)

\* The invariant holds at the start.
LEMMA Initially == Init => IInv
<1> SUFFICES ASSUME Init PROVE IInv
    OBVIOUS
<1>1. LinkInv /\ WsReplay BY DEF Init, LinkInv, WsReplay
<1>2. wire \in Seq(Messages) BY DEF Init
<1>3. changes \in 0..MaxChanges /\ sets \in 0..MaxSets /\ faults \in 0..MaxFaults
  BY FeedAssumption DEF Init
<1>4. TypeOK BY <1>2, <1>3 DEF Init, TypeOK
<1> QED BY <1>1, <1>4 DEF IInv

\* The invariant holds in every reachable state.
THEOREM Inductive == Spec => []IInv
BY Initially, NextInv, PTL DEF Spec

\* Types are kept: no message puts a level into a book that is not one (ws.cpp).
THEOREM TypeCorrect == Spec => []TypeOK
<1>1. IInv => TypeOK BY DEF IInv
<1> QED BY <1>1, Inductive, PTL

\* For any number of tokens, levels, workers, reconnects and resyncs, the messages under
\* way turn the local book of a token into the exchange's, as long as this connection
\* alone has built it or a snapshot is on its way (ws.cpp).
THEOREM ReplayIsExact == Spec => []WsReplay
<1>1. IInv => WsReplay BY DEF IInv
<1> QED BY <1>1, Inductive, PTL
=============================================================================
