---------------------------- MODULE ApiGetProofs ----------------------------
(***************************************************************************)
(* TLAPS proofs about HttpsPool and ApiGet, for any set of threads, pool    *)
(* size, rates and bursts: the pool keeps its promises; a call of           *)
(* PolymarketClient keeps to the rules of the pool, is never given another  *)
(* call's answer, and passes buckets that never exceed burst and rate.      *)
(***************************************************************************)
EXTENDS ApiGet, FiniteSetTheorems, SequenceTheorems, TLAPS

-----------------------------------------------------------------------------
(* The pool by itself, module HttpsPool.                                    *)

Holders == At("creating") \cup At("using")
Awake == At("notify") \cup At("checkout")

\* Each of the three safety properties is inductive beside the type invariant.
IInv == TypeOK /\ PoolBound /\ NoSlotLeak /\ NoLostWakeup

\* Sets of threads are finite; adding or removing one thread counts as one.
LEMMA ThreadSets ==
    ASSUME NEW S \in SUBSET Threads
    PROVE  /\ Cardinality(S) \in Nat
           /\ \A t \in Threads \ S : Cardinality(S \cup {t}) = Cardinality(S) + 1
           /\ \A t \in S : Cardinality(S \ {t}) = Cardinality(S) - 1
<1>1. IsFiniteSet(S)
      BY ThreadsAssumption, FS_Subset
<1> QED BY <1>1, FS_CardinalityType, FS_AddElement, FS_RemoveElement

\* Who holds a slot and who is awake after each kind of step.
LEMMA SetsAfter ==
    ASSUME TypeOK, NEW t \in Threads, Get(t) \/ Step(t) \/ SpuriousWake(t)
    PROVE  /\ TakeIdle(t) \/ Reserve(t) =>
                 /\ t \in Threads \ Holders /\ Holders' = Holders \cup {t}
                 /\ t \in Awake /\ Awake' = Awake \ {t}
           /\ ConstructFails(t) \/ Checkin(t) =>
                 /\ t \in Holders /\ Holders' = Holders \ {t}
                 /\ t \in Threads \ Awake /\ Awake' = Awake \cup {t}
           /\ Get(t) \/ SpuriousWake(t) =>
                 /\ Holders' = Holders
                 /\ t \in Threads \ Awake /\ Awake' = Awake \cup {t}
           /\ Construct(t) => Holders' = Holders /\ Awake' = Awake
           /\ Wait(t) => Holders' = Holders
           /\ NotifyOne(t) =>
                 /\ Holders' = Holders
                 /\ \/ At("waiting")' = {}
                    \/ \E w \in Threads \ Awake : t \in Awake /\ Awake' = (Awake \cup {w}) \ {t}
<1> USE DEF TypeOK, Holders, Awake, At, Goto, Places
<1>1. CASE TakeIdle(t) \/ Reserve(t)
      BY <1>1 DEF TakeIdle, Reserve, ConstructFails, Checkin, Get, SpuriousWake, Construct, Wait, NotifyOne
<1>2. CASE ConstructFails(t) \/ Checkin(t)
      BY <1>2 DEF TakeIdle, Reserve, ConstructFails, Checkin, Get, SpuriousWake, Construct, Wait, NotifyOne
<1>3. CASE Get(t) \/ SpuriousWake(t)
      BY <1>3 DEF TakeIdle, Reserve, ConstructFails, Checkin, Get, SpuriousWake, Construct, Wait, NotifyOne
<1>4. CASE Construct(t)
      BY <1>4 DEF TakeIdle, Reserve, ConstructFails, Checkin, Get, SpuriousWake, Construct, Wait, NotifyOne
<1>5. CASE Wait(t)
      BY <1>5 DEF TakeIdle, Reserve, ConstructFails, Checkin, Get, SpuriousWake, Construct, Wait, NotifyOne
<1>6. CASE NotifyOne(t)
      BY <1>6 DEF TakeIdle, Reserve, ConstructFails, Checkin, Get, SpuriousWake, Construct, Wait, NotifyOne
<1> QED BY <1>1, <1>2, <1>3, <1>4, <1>5, <1>6 DEF Step

\* Every step of a thread preserves the invariant.
LEMMA StepInv ==
    ASSUME IInv, NEW t \in Threads, Get(t) \/ Step(t) \/ SpuriousWake(t)
    PROVE  IInv'
<1>1. /\ TypeOK /\ idle \in Nat /\ outstanding \in Nat /\ MaxConns \in Nat
      /\ idle + outstanding <= MaxConns
      /\ outstanding = Cardinality(Holders)
      /\ At("waiting") # {} => MaxConns - outstanding <= Cardinality(Awake)
      BY MaxConnsAssumption DEF IInv, TypeOK, PoolBound, NoSlotLeak, NoLostWakeup, Holders, Awake
<1>2. Holders \in SUBSET Threads /\ Awake \in SUBSET Threads
      BY DEF Holders, Awake, At
<1>3. pc' \in [Threads -> Places]
      BY <1>1 DEF TypeOK, Get, Step, SpuriousWake, TakeIdle, Reserve, Wait, Construct,
                  ConstructFails, Checkin, NotifyOne, Goto, Places, At
<1>4. SUFFICES /\ idle' \in Nat /\ outstanding' \in Nat
               /\ idle' + outstanding' <= MaxConns
               /\ outstanding' = Cardinality(Holders')
               /\ At("waiting")' # {} => MaxConns - outstanding' <= Cardinality(Awake')
      BY <1>3, <1>4 DEF IInv, TypeOK, PoolBound, NoSlotLeak, NoLostWakeup, Holders, Awake
<1>5. CASE TakeIdle(t) \/ Reserve(t)
  <2>1. /\ Cardinality(Holders') = Cardinality(Holders) + 1
        /\ Cardinality(Awake') = Cardinality(Awake) - 1
        /\ Cardinality(Awake) \in Nat
        BY <1>1, <1>2, <1>5, SetsAfter, ThreadSets
  <2>2. At("waiting")' = At("waiting")
        BY <1>1, <1>5 DEF TypeOK, TakeIdle, Reserve, At, Goto
  <2>3. /\ outstanding' = outstanding + 1
        /\ (idle > 0 /\ idle' = idle - 1) \/ (idle' = idle /\ idle = 0 /\ outstanding < MaxConns)
        BY <1>5 DEF TakeIdle, Reserve
  <2> QED BY <1>1, <2>1, <2>2, <2>3
<1>6. CASE ConstructFails(t) \/ Checkin(t)
  <2>1. /\ Cardinality(Holders') = Cardinality(Holders) - 1
        /\ Cardinality(Holders') \in Nat
        /\ Cardinality(Awake') = Cardinality(Awake) + 1
        /\ Cardinality(Awake) \in Nat
        BY <1>1, <1>2, <1>6, SetsAfter, ThreadSets
  <2>2. At("waiting")' = At("waiting")
        BY <1>1, <1>6 DEF TypeOK, ConstructFails, Checkin, At, Goto
  <2>3. outstanding' = outstanding - 1 /\ (idle' = idle \/ idle' = idle + 1)
        BY <1>6 DEF ConstructFails, Checkin
  <2> QED BY <1>1, <2>1, <2>2, <2>3
<1>7. CASE Get(t) \/ SpuriousWake(t)
  <2>1. /\ Holders' = Holders
        /\ Cardinality(Awake') = Cardinality(Awake) + 1
        /\ Cardinality(Awake) \in Nat
        BY <1>1, <1>2, <1>7, SetsAfter, ThreadSets
  <2>2. At("waiting")' # {} => At("waiting") # {}
        BY <1>1, <1>7 DEF TypeOK, Get, SpuriousWake, At, Goto
  <2>3. idle' = idle /\ outstanding' = outstanding
        BY <1>7 DEF Get, SpuriousWake
  <2> QED BY <1>1, <2>1, <2>2, <2>3
<1>8. CASE Construct(t)
  <2>1. Holders' = Holders /\ Awake' = Awake
        BY <1>1, <1>8, SetsAfter
  <2>2. At("waiting")' = At("waiting") /\ idle' = idle /\ outstanding' = outstanding
        BY <1>1, <1>8 DEF TypeOK, Construct, At, Goto
  <2> QED BY <1>1, <2>1, <2>2
<1>9. CASE Wait(t)
  <2>1. Holders' = Holders /\ idle' = idle /\ outstanding' = outstanding
        BY <1>1, <1>9, SetsAfter DEF Wait
  <2>2. outstanding >= MaxConns
        BY <1>1, <1>9 DEF Wait, SlotFree
  <2>3. Cardinality(Awake') \in Nat
    <3>1. Awake' \in SUBSET Threads
          BY DEF Awake, At
    <3> QED BY <3>1, ThreadSets
  <2> QED BY <1>1, <2>1, <2>2, <2>3
<1>10. CASE NotifyOne(t)
  <2>1. Holders' = Holders /\ idle' = idle /\ outstanding' = outstanding
        BY <1>1, <1>10, SetsAfter DEF NotifyOne
  <2>2. At("waiting")' # {} => At("waiting") # {}
        BY <1>1, <1>10 DEF TypeOK, NotifyOne, At, Goto
  <2>3. ASSUME NEW w \in Threads \ Awake, t \in Awake, Awake' = (Awake \cup {w}) \ {t}
        PROVE  Cardinality(Awake') = Cardinality(Awake)
    <3>1. Cardinality(Awake \cup {w}) = Cardinality(Awake) + 1 /\ Cardinality(Awake) \in Nat
          BY <1>2, ThreadSets
    <3>2. Awake \cup {w} \in SUBSET Threads /\ t \in Awake \cup {w}
          BY <1>2, <2>3
    <3>3. Cardinality(Awake') = Cardinality(Awake \cup {w}) - 1
          BY <2>3, <3>2, ThreadSets
    <3> QED BY <3>1, <3>3
  <2>4. At("waiting")' = {} \/ Cardinality(Awake') = Cardinality(Awake)
        BY <1>1, <1>10, <2>3, SetsAfter
  <2> QED BY <1>1, <2>1, <2>2, <2>4
<1> QED BY <1>5, <1>6, <1>7, <1>8, <1>9, <1>10 DEF Step

\* The invariant holds initially.
LEMMA Initially == Init => IInv
<1> SUFFICES ASSUME Init PROVE IInv
    OBVIOUS
<1>1. At("creating") \cup At("using") = {} /\ At("waiting") = {}
      BY DEF Init, At
<1>2. Cardinality({}) = 0
      BY FS_EmptySet
<1>3. TypeOK
      BY DEF Init, TypeOK, Places
<1>4. PoolBound
      BY MaxConnsAssumption DEF Init, PoolBound
<1>5. NoSlotLeak
      BY <1>1, <1>2 DEF Init, NoSlotLeak
<1>6. NoLostWakeup
      BY <1>1 DEF NoLostWakeup
<1> QED BY <1>3, <1>4, <1>5, <1>6 DEF IInv

\* Every step preserves the invariant.
LEMMA NextInv == IInv /\ [Next]_vars => IInv'
<1>1. ASSUME IInv, UNCHANGED vars PROVE IInv'
      BY <1>1 DEF vars, IInv, TypeOK, PoolBound, NoSlotLeak, NoLostWakeup, At
<1> QED BY <1>1, StepInv DEF Next

\* The invariant holds in every reachable state.
THEOREM Inductive == Spec => []IInv
BY Initially, NextInv, PTL DEF Spec

\* However many threads call Get and however often constructing a connection
\* fails, the host never sees more than max_ connections (https_pool.hpp:47-72).
THEOREM PoolIsBounded == Spec => []PoolBound
<1>1. IInv => PoolBound
      BY DEF IInv
<1> QED BY <1>1, Inductive, PTL

\* No path through Get leaks a slot (https_pool.hpp:31-44,55-67).
THEOREM SlotsAreCounted == Spec => []NoSlotLeak
<1>1. IInv => NoSlotLeak
      BY DEF IInv
<1> QED BY <1>1, Inductive, PTL

\* A free slot never goes unnoticed while somebody waits for one
\* (https_pool.hpp:69,74-81).
THEOREM WakeupsAreNotLost == Spec => []NoLostWakeup
<1>1. IInv => NoLostWakeup
      BY DEF IInv
<1> QED BY <1>1, Inductive, PTL

-----------------------------------------------------------------------------
(* The calls through it: the invariant.                                     *)

\* No connection holds an unread answer: at most a CRLF, or the rest of an answer
\* whose server has closed.
Clean == [open : BOOLEAN, crlf : BOOLEAN, left : {<<>>, <<"rest">>}]

ConnInv ==
    /\ stack \in Seq(Clean) /\ Len(stack) = idle
    /\ mine \in [Threads -> Clean]
    /\ DOMAIN got = Threads /\ AnswerIsOwn

\* A bucket's grants up to its last refill, with the tokens that are left, are within
\* the bound of every window that ends there; later there are none.
BucketInv(b) ==
    /\ tokens[b] \in 0..Cap(b) /\ last[b] \in 0..now /\ sent[b] \in Seq(0..MaxTime)
    /\ \A k \in 1..Len(sent[b]) : sent[b][k] <= last[b]
    /\ \A i \in 0..last[b] :
          Cardinality(Window(b, i, last[b])) + tokens[b] <= Cap(b) + Rate(b) * (last[b] - i)
RateInv ==
    /\ now \in 0..MaxTime
    /\ DOMAIN tokens = Buckets /\ DOMAIN last = Buckets /\ DOMAIN sent = Buckets
    /\ \A b \in Buckets : BucketInv(b)
    /\ WindowBound

AInv == IInv /\ ConnInv /\ RateInv

-----------------------------------------------------------------------------
(* The pool inside.                                                         *)

\* Every step of a call is a step of the pool or leaves it alone.
LEMMA PoolSteps == [ANext]_allvars => [Next]_vars
<1> SUFFICES ASSUME [ANext]_allvars PROVE [Next]_vars
    OBVIOUS
<1>1. CASE UNCHANGED allvars BY <1>1 DEF allvars
<1>2. CASE Tick BY <1>2 DEF Tick
<1>3. ASSUME NEW t \in Threads, Request(t) \/ AcquireEndpoint(t) \/ AcquireHost(t) PROVE UNCHANGED vars
  BY <1>3 DEF Request, AcquireEndpoint, AcquireHost, Acquire
<1>4. ASSUME NEW t \in Threads, EnterPool(t) PROVE Get(t)
  BY <1>4 DEF EnterPool
<1>5. ASSUME NEW t \in Threads, Inside(t) PROVE Step(t) \/ SpuriousWake(t) \/ UNCHANGED vars
  BY <1>5 DEF Inside, Borrow, Create, CreateFails, Pool, NotConnected, Unanswered, Truncated,
              Answered, Unframed, Return, Done, Step
<1> QED BY <1>1, <1>2, <1>3, <1>4, <1>5 DEF ANext, Next

-----------------------------------------------------------------------------
(* The connections.                                                         *)

\* A step inside PersistentHttps::Get that leaves a clean connection and returns the
\* thread's own answer or an error.
LEMMA DoneStep ==
    ASSUME ConnInv, NEW t \in Threads, NEW conn \in Clean, NEW answer \in {"error", t},
           Done(t, conn, answer)
    PROVE  ConnInv'
<1>1. UNCHANGED <<stack, idle>> BY DEF Done, vars
<1>2. mine' \in [Threads -> Clean] BY DEF Done, ConnInv
<1>3. DOMAIN got' = Threads /\ \A u \in Threads : got'[u] \in {"nothing", "error", u}
  BY DEF Done, ConnInv, AnswerIsOwn
<1> QED BY <1>1, <1>2, <1>3 DEF ConnInv, AnswerIsOwn

\* A connection whose input can be read has nothing of another call in it.
LEMMA OwnInput ==
    ASSUME ConnInv, NEW t \in Threads, Readable(t)
    PROVE  Head(Input(t)) = t /\ Tail(Input(t)) = <<>>
<1>1. mine[t].left \in {<<>>, <<"rest">>} BY DEF ConnInv, Clean
<1>2. mine[t].left # <<"rest">>
  <2>1. "rest" \in Range(<<"rest">>)
    <3>1. 1 \in DOMAIN <<"rest">> /\ <<"rest">>[1] = "rest" OBVIOUS
    <3> QED BY <3>1 DEF Range
  <2> QED BY <2>1 DEF Readable
<1>3. mine[t].left = <<>> BY <1>1, <1>2
<1>4. Input(t) = <<t>> BY <1>3 DEF Input
<1> QED BY <1>4

\* Every step keeps the connections clean and the answers with their callers.
LEMMA ConnStep == IInv /\ ConnInv /\ [ANext]_allvars => ConnInv'
<1> SUFFICES ASSUME IInv, ConnInv, [ANext]_allvars PROVE ConnInv'
    OBVIOUS
<1>0. Closed \in Clean /\ \A c \in BOOLEAN : Open(c, <<>>) \in Clean /\ Open(c, <<"rest">>) \in Clean
  BY DEF Closed, Open, Clean
<1>1. ASSUME UNCHANGED <<idle, stack, mine, got>> PROVE ConnInv'
  BY <1>1 DEF ConnInv, AnswerIsOwn
<1>2. CASE UNCHANGED allvars \/ Tick
  BY <1>1, <1>2 DEF allvars, vars, conns, Tick
<1>3. ASSUME NEW t \in Threads, Request(t) \/ AcquireEndpoint(t) \/ AcquireHost(t) \/ EnterPool(t)
      PROVE  ConnInv'
  BY <1>1, <1>3 DEF Request, AcquireEndpoint, AcquireHost, Acquire, EnterPool, Get, vars, conns
<1>4. ASSUME NEW t \in Threads, Inside(t) PROVE ConnInv'
  <2>1. CASE Borrow(t)
    <3>1. PICK n : n = Len(stack) OBVIOUS
    <3>2. n \in Nat /\ n > 0 /\ n = idle /\ stack \in Seq(Clean)
      BY <2>1, <3>1 DEF Borrow, TakeIdle, ConnInv
    <3>3. \A i \in 1..n : stack[i] \in Clean
      <4>1. \A i \in 1..Len(stack) : stack[i] \in Clean BY <3>2, ElementOfSeq
      <4> QED BY <3>1, <4>1
    <3>4. stack[n] \in Clean BY <3>2, <3>3
    <3>5. SubSeq(stack, 1, n - 1) \in Seq(Clean) /\ Len(SubSeq(stack, 1, n - 1)) = n - 1
      <4>1. 1 \in Int /\ n - 1 \in Int /\ \A i \in 1..(n - 1) : stack[i] \in Clean BY <3>2, <3>3
      <4>2. /\ SubSeq(stack, 1, n - 1) \in Seq(Clean)
            /\ Len(SubSeq(stack, 1, n - 1)) = IF 1 <= n - 1 THEN (n - 1) - 1 + 1 ELSE 0
        BY <4>1, SubSeqProperties
      <4> QED BY <3>2, <4>2
    <3>6. stack' = SubSeq(stack, 1, n - 1) /\ idle' = n - 1 /\ got' = got
      BY <2>1, <3>1, <3>2 DEF Borrow, TakeIdle
    <3>7. mine' \in [Threads -> Clean] BY <2>1, <3>1, <3>4 DEF Borrow, ConnInv
    <3> QED BY <3>5, <3>6, <3>7 DEF ConnInv, AnswerIsOwn
  <2>2. CASE Create(t)
    <3>1. UNCHANGED <<idle, stack, got>> BY <2>2 DEF Create, Construct
    <3>2. mine' \in [Threads -> Clean] BY <1>0, <2>2 DEF Create, ConnInv
    <3> QED BY <3>1, <3>2 DEF ConnInv, AnswerIsOwn
  <2>3. CASE CreateFails(t) \/ Pool(t)
    <3>1. UNCHANGED <<idle, stack, mine, got>>
      BY <2>3 DEF CreateFails, Pool, ConstructFails, Reserve, Wait, NotifyOne, SpuriousWake, conns
    <3> QED BY <1>1, <3>1
  <2>4. CASE NotConnected(t) \/ Unanswered(t) \/ Truncated(t)
    <3>1. Done(t, Closed, "error") BY <2>4 DEF NotConnected, Unanswered, Truncated, Shut
    <3> QED BY <1>0, <3>1, DoneStep
  <2>5. CASE Answered(t)
    <3>1. Head(Input(t)) = t /\ Tail(Input(t)) = <<>> BY <2>5, OwnInput DEF Answered
    <3>2. PICK late \in BOOLEAN, answer \in {"error", t} : Done(t, Open(late, <<>>), answer)
      BY <2>5, <3>1 DEF Answered
    <3> QED BY <1>0, <3>2, DoneStep
  <2>6. CASE Unframed(t)
    <3>1. Head(Input(t)) = t /\ Tail(Input(t)) = <<>> BY <2>6, OwnInput DEF Unframed
    <3>2. Append(<<>>, "rest") = <<"rest">> OBVIOUS
    <3>3. PICK answer \in {"error", t} : Done(t, Open(FALSE, <<"rest">>), answer)
      BY <2>6, <3>1, <3>2 DEF Unframed
    <3> QED BY <1>0, <3>3, DoneStep
  <2>7. CASE Return(t)
    <3>1. /\ stack' = Append(stack, mine[t]) /\ idle' = idle + 1
          /\ mine' = [mine EXCEPT ![t] = Closed] /\ got' = [got EXCEPT ![t] = "nothing"]
      BY <2>7 DEF Return, Checkin
    <3>2. mine[t] \in Clean /\ mine' \in [Threads -> Clean] BY <1>0, <3>1 DEF ConnInv
    <3>3. stack' \in Seq(Clean) /\ Len(stack') = idle' BY <3>1, <3>2 DEF ConnInv
    <3>4. DOMAIN got' = Threads /\ \A u \in Threads : got'[u] \in {"nothing", "error", u}
      BY <3>1 DEF ConnInv, AnswerIsOwn
    <3> QED BY <3>2, <3>3, <3>4 DEF ConnInv, AnswerIsOwn
  <2> QED BY <1>4, <2>1, <2>2, <2>3, <2>4, <2>5, <2>6, <2>7 DEF Inside
<1> QED BY <1>2, <1>3, <1>4 DEF ANext

-----------------------------------------------------------------------------
(* The buckets.                                                             *)

\* The arithmetic of a bucket.
LEMMA BucketFacts ==
    ASSUME NEW b \in Buckets
    PROVE  Cap(b) \in Nat \ {0} /\ Rate(b) \in Nat \ {0}
BY RateAssumption DEF Cap, Rate

\* The grants of a window are finitely many.
LEMMA WindowFinite ==
    ASSUME RateInv, NEW b \in Buckets, NEW i \in Int, NEW j \in Int
    PROVE  /\ IsFiniteSet(Window(b, i, j)) /\ Cardinality(Window(b, i, j)) \in Nat
           /\ Len(sent[b]) \in Nat
<1>1. Len(sent[b]) \in Nat BY DEF RateInv, BucketInv
<1>2. IsFiniteSet(1..Len(sent[b])) BY <1>1, FS_Interval
<1>3. Window(b, i, j) \in SUBSET (1..Len(sent[b])) BY DEF Window
<1>4. IsFiniteSet(Window(b, i, j)) BY <1>2, <1>3, FS_Subset
<1> QED BY <1>1, <1>4, FS_CardinalityType

\* A bucket whose variables a step leaves alone keeps its part of the invariant, the
\* clock going on.
LEMMA BucketRests ==
    ASSUME RateInv, NEW b \in Buckets, now' \in Nat, now' >= now,
           tokens'[b] = tokens[b], last'[b] = last[b], sent'[b] = sent[b]
    PROVE  /\ BucketInv(b)'
           /\ \A i \in 0..MaxTime : \A j \in i..MaxTime :
                 Cardinality(Window(b, i, j)') <= Cap(b) + Rate(b) * (j - i)
<1>1. \A i, j : Window(b, i, j)' = Window(b, i, j) BY DEF Window
<1>2. BucketInv(b) /\ now \in Nat BY RateAssumption DEF RateInv
<1>3. last'[b] \in 0..now' BY <1>2 DEF BucketInv
<1>4. \A i : Window(b, i, last[b])' = Window(b, i, last[b])
  BY DEF Window
<1>5. \A i \in 0..last'[b] :
        Cardinality(Window(b, i, last[b])') + tokens'[b] <= Cap(b) + Rate(b) * (last'[b] - i)
  BY <1>2, <1>4 DEF BucketInv
<1>6. BucketInv(b)' BY <1>2, <1>3, <1>5 DEF BucketInv
<1> QED BY <1>1, <1>6 DEF RateInv, WindowBound

\* The one bucket a grant goes through.
LEMMA Grant ==
    ASSUME RateInv, NEW t \in Threads, NEW b \in Buckets, NEW next, Acquire(t, b, next)
    PROVE  /\ BucketInv(b)'
           /\ \A i \in 0..MaxTime : \A j \in i..MaxTime :
                 Cardinality(Window(b, i, j)') <= Cap(b) + Rate(b) * (j - i)
<1>1. PICK N, L, T, C, R, s, F, M :
        /\ N = now /\ L = last[b] /\ T = tokens[b] /\ C = Cap(b) /\ R = Rate(b) /\ s = sent[b]
        /\ F = Refilled(b) /\ M = MaxTime
  OBVIOUS
<1>2. /\ C \in Nat /\ R \in Nat /\ M \in Nat /\ N \in 0..M /\ T \in 0..C /\ L \in 0..N /\ s \in Seq(0..M)
      /\ \A k \in 1..Len(s) : s[k] <= L
      /\ \A i \in 0..L : Cardinality(Window(b, i, L)) + T <= C + R * (L - i)
  BY <1>1, BucketFacts, RateAssumption DEF RateInv, BucketInv
<1>3. F \in 1..C /\ F <= T + (N - L) * R
  <2>1. PICK p : p = (N - L) * R OBVIOUS
  <2>2. p \in Nat BY <1>2, <2>1
  <2>3. F = IF T + p < C THEN T + p ELSE C BY <1>1, <2>1 DEF Refilled
  <2>4. F >= 1 BY <1>1 DEF Acquire
  <2> QED BY <1>2, <2>1, <2>2, <2>3, <2>4
<1>4. tokens'[b] = F - 1 /\ last'[b] = N /\ sent'[b] = Append(s, N) /\ now' = N
  BY <1>1 DEF Acquire, RateInv
<1>5. PICK n : n = Len(s) OBVIOUS
<1>6. n \in Nat /\ n + 1 \notin 1..n BY <1>2, <1>5
<1>7. /\ Append(s, N) \in Seq(0..M) /\ Len(Append(s, N)) = n + 1
      /\ \A k \in 1..n : Append(s, N)[k] = s[k]
      /\ Append(s, N)[n + 1] = N
  BY <1>2, <1>5, AppendProperties
<1>8. \A k \in 1..n : s[k] \in 0..L
  <2>1. \A k \in 1..Len(s) : s[k] \in 0..M BY <1>2, ElementOfSeq
  <2> QED BY <1>2, <1>5, <2>1
<1>9. ASSUME NEW i \in Int, NEW j \in Int
      PROVE  /\ Window(b, i, j) = {k \in 1..n : s[k] \in i..j}
             /\ Window(b, i, j)' = {k \in 1..(n + 1) : Append(s, N)[k] \in i..j}
  BY <1>1, <1>4, <1>5, <1>7 DEF Window
<1>10. ASSUME NEW i \in Int, NEW j \in Int, N \notin i..j
       PROVE  Window(b, i, j)' = Window(b, i, j)
  <2>1. {k \in 1..(n + 1) : Append(s, N)[k] \in i..j} = {k \in 1..n : s[k] \in i..j}
    BY <1>6, <1>7, <1>10
  <2> QED BY <1>9, <2>1
<1>11. ASSUME NEW i \in Int, NEW j \in Int, N \in i..j
       PROVE  /\ Window(b, i, j)' = Window(b, i, j) \cup {n + 1}
              /\ Cardinality(Window(b, i, j)') = Cardinality(Window(b, i, j)) + 1
              /\ Window(b, i, j) = Window(b, i, L) /\ Cardinality(Window(b, i, j)) \in Nat
  <2>1. Window(b, i, j)' = Window(b, i, j) \cup {n + 1} BY <1>6, <1>7, <1>9, <1>11
  <2>2. n + 1 \notin Window(b, i, j) BY <1>6, <1>9
  <2>3. IsFiniteSet(Window(b, i, j)) /\ Cardinality(Window(b, i, j)) \in Nat BY WindowFinite
  <2>4. Cardinality(Window(b, i, j) \cup {n + 1}) = Cardinality(Window(b, i, j)) + 1
    BY <2>2, <2>3, FS_AddElement
  <2>5. Window(b, i, L) = {k \in 1..n : s[k] \in i..L} BY <1>2, <1>9
  <2>6. \A k \in 1..n : s[k] \in i..j <=> s[k] \in i..L
    <3>1. \A v \in 0..L : v \in i..j <=> v \in i..L BY <1>2, <1>11
    <3> QED BY <1>8, <3>1
  <2>7. Window(b, i, j) = Window(b, i, L) BY <1>9, <2>5, <2>6
  <2> QED BY <2>1, <2>3, <2>4, <2>7
<1>12. ASSUME NEW i \in 0..N, NEW j \in Int, N <= j
       PROVE  Cardinality(Window(b, i, j)') + (F - 1) <= C + R * (N - i)
  <2>1. i \in Int /\ N \in i..j BY <1>2, <1>12
  <2>2. PICK w : w = Cardinality(Window(b, i, L)) OBVIOUS
  <2>3. w \in Nat /\ Cardinality(Window(b, i, j)') = w + 1 BY <1>11, <2>1, <2>2
  <2>4. CASE i <= L
    <3>1. PICK p, q, r : p = R * (L - i) /\ q = (N - L) * R /\ r = R * (N - i) OBVIOUS
    <3>2. p \in Nat /\ q \in Nat /\ r = p + q BY <1>2, <2>4, <3>1
    <3>3. w + T <= C + p BY <1>2, <2>2, <2>4, <3>1
    <3>4. F <= T + q BY <1>3, <3>1
    <3>5. (w + 1) + (F - 1) <= C + r BY <1>2, <1>3, <2>3, <3>2, <3>3, <3>4
    <3> QED BY <2>3, <3>1, <3>5
  <2>5. CASE i > L
    <3>1. Window(b, i, L) = {} BY <1>2, <1>9, <2>5
    <3>2. w = 0 BY <2>2, <3>1, FS_EmptySet
    <3>3. PICK r : r = R * (N - i) OBVIOUS
    <3>4. r \in Nat BY <1>2, <3>3
    <3>5. (0 + 1) + (F - 1) <= C + r BY <1>2, <1>3, <3>4
    <3> QED BY <2>3, <3>2, <3>3, <3>5
  <2> QED BY <1>2, <2>4, <2>5
<1>13. BucketInv(b)'
  <2>1. tokens'[b] \in 0..Cap(b) /\ last'[b] \in 0..now' /\ sent'[b] \in Seq(0..MaxTime)
    <3>1. F - 1 \in 0..C /\ N \in 0..N BY <1>2, <1>3
    <3> QED BY <1>1, <1>4, <1>7, <3>1
  <2>2. \A k \in 1..Len(sent'[b]) : sent'[b][k] <= last'[b]
    <3>0. \A v \in 0..L : v <= N BY <1>2
    <3>1. \A k \in 1..(n + 1) : k \in 1..n \/ k = n + 1 BY <1>6
    <3>2. \A k \in 1..(n + 1) : Append(s, N)[k] <= N BY <1>2, <1>7, <1>8, <3>0, <3>1
    <3> QED BY <1>4, <1>7, <3>2
  <2>3. \A i \in 0..N : Cardinality(Window(b, i, N)') + (F - 1) <= C + R * (N - i)
    BY <1>2, <1>12
  <2>4. \A i : Window(b, i, last[b])' = Window(b, i, N)' BY <1>4 DEF Window
  <2>5. \A i \in 0..last'[b] :
          Cardinality(Window(b, i, last[b])') + tokens'[b] <= Cap(b) + Rate(b) * (last'[b] - i)
    BY <1>1, <1>4, <2>3, <2>4
  <2> QED BY <2>1, <2>2, <2>5 DEF BucketInv
<1>14. ASSUME NEW i \in 0..M, NEW j \in i..M
       PROVE  Cardinality(Window(b, i, j)') <= C + R * (j - i)
  <2>0. i \in Int /\ j \in Int /\ i <= j BY <1>2
  <2>1. CASE N \in i..j
    <3>1. i \in 0..N /\ N <= j BY <1>2, <2>0, <2>1
    <3>2. Cardinality(Window(b, i, j)') + (F - 1) <= C + R * (N - i) BY <1>12, <2>0, <3>1
    <3>3. Cardinality(Window(b, i, j)') \in Nat BY <1>11, <2>0, <2>1
    <3>4. PICK p, q, r : p = R * (N - i) /\ q = R * (j - N) /\ r = R * (j - i) OBVIOUS
    <3>5. p \in Nat /\ q \in Nat /\ r = p + q BY <1>2, <2>0, <3>1, <3>4
    <3>6. PICK w : w = Cardinality(Window(b, i, j)') OBVIOUS
    <3>7. w \in Nat /\ w + (F - 1) <= C + p BY <3>2, <3>3, <3>4, <3>6
    <3>8. w <= C + r BY <1>2, <1>3, <3>5, <3>7
    <3> QED BY <3>4, <3>6, <3>8
  <2>2. CASE N \notin i..j
    <3>1. Window(b, i, j)' = Window(b, i, j) BY <1>10, <2>0, <2>2
    <3> QED BY <1>1, <3>1 DEF RateInv, WindowBound
  <2> QED BY <2>1, <2>2
<1> QED BY <1>1, <1>13, <1>14

\* Every step keeps every bucket within its bounds.
LEMMA RateStep == RateInv /\ [ANext]_allvars => RateInv'
<1> SUFFICES ASSUME RateInv, [ANext]_allvars PROVE RateInv'
    OBVIOUS
<1>1. MaxTime \in Nat /\ now \in 0..MaxTime BY RateAssumption DEF RateInv
<1>2. ASSUME UNCHANGED <<tokens, last, sent>>, now' \in 0..MaxTime, now' >= now PROVE RateInv'
  <2>1. \A b \in Buckets : /\ BucketInv(b)'
                           /\ \A i \in 0..MaxTime : \A j \in i..MaxTime :
                                 Cardinality(Window(b, i, j)') <= Cap(b) + Rate(b) * (j - i)
    BY <1>1, <1>2, BucketRests
  <2> QED BY <1>2, <2>1 DEF RateInv, WindowBound
<1>3. ASSUME UNCHANGED <<now, tokens, last, sent>> PROVE RateInv'
  BY <1>1, <1>2, <1>3
<1>4. CASE UNCHANGED allvars BY <1>3, <1>4 DEF allvars, limiter
<1>5. CASE Tick BY <1>1, <1>2, <1>5 DEF Tick
<1>6. ASSUME NEW t \in Threads, NEW b \in Buckets, NEW next, Acquire(t, b, next) PROVE RateInv'
  <2>1. /\ BucketInv(b)'
        /\ \A i \in 0..MaxTime : \A j \in i..MaxTime :
              Cardinality(Window(b, i, j)') <= Cap(b) + Rate(b) * (j - i)
    BY <1>6, Grant
  <2>2. ASSUME NEW c \in Buckets \ {b}
        PROVE  /\ BucketInv(c)'
               /\ \A i \in 0..MaxTime : \A j \in i..MaxTime :
                     Cardinality(Window(c, i, j)') <= Cap(c) + Rate(c) * (j - i)
    <3>1. /\ tokens'[c] = tokens[c] /\ last'[c] = last[c] /\ sent'[c] = sent[c]
          /\ now' = now
      BY <1>6, <2>2 DEF Acquire, RateInv
    <3> QED BY <1>1, <3>1, BucketRests
  <2>3. /\ now' \in 0..MaxTime
        /\ DOMAIN tokens' = Buckets /\ DOMAIN last' = Buckets /\ DOMAIN sent' = Buckets
    BY <1>1, <1>6 DEF Acquire, RateInv
  <2> QED BY <2>1, <2>2, <2>3 DEF RateInv, WindowBound
<1>7. ASSUME NEW t \in Threads, Request(t) \/ AcquireEndpoint(t) \/ AcquireHost(t) \/ EnterPool(t)
      PROVE  RateInv'
  <2>1. CASE Request(t) \/ EnterPool(t) BY <1>3, <2>1 DEF Request, EnterPool
  <2>2. CASE AcquireEndpoint(t) BY <1>6, <2>2 DEF AcquireEndpoint, Buckets
  <2>3. CASE AcquireHost(t) BY <1>6, <2>3 DEF AcquireHost, Buckets
  <2> QED BY <1>7, <2>1, <2>2, <2>3
<1>8. ASSUME NEW t \in Threads, Inside(t) PROVE UNCHANGED <<now, tokens, last, sent>>
  BY <1>8 DEF Inside, Borrow, Create, CreateFails, Pool, NotConnected, Unanswered, Truncated,
              Answered, Unframed, Return, Done, limiter
<1> QED BY <1>3, <1>4, <1>5, <1>7, <1>8 DEF ANext

-----------------------------------------------------------------------------
(* The theorems.                                                            *)

\* The invariant holds at the start.
LEMMA AInitially == AInit => AInv
<1> SUFFICES ASSUME AInit PROVE AInv
    OBVIOUS
<1>1. IInv BY Initially DEF AInit
<1>2. ConnInv
  <2>1. Closed \in Clean BY DEF Closed, Clean
  <2>2. stack \in Seq(Clean) /\ Len(stack) = 0 /\ idle = 0 BY DEF AInit, Init
  <2> QED BY <2>1, <2>2 DEF AInit, ConnInv, AnswerIsOwn
<1>3. RateInv
  <2>1. now = 0 /\ MaxTime \in Nat BY RateAssumption DEF AInit
  <2>2. ASSUME NEW b \in Buckets
        PROVE  tokens[b] = Cap(b) /\ last[b] = 0 /\ sent[b] = <<>> /\ \A i, j : Window(b, i, j) = {}
    BY DEF AInit, Window
  <2>3. ASSUME NEW b \in Buckets, NEW i \in Int, NEW j \in Int, i <= j
        PROVE  0 <= Cap(b) + Rate(b) * (j - i) /\ Cap(b) + Rate(b) * (i - i) = Cap(b)
    <3>1. PICK p : p = Rate(b) * (j - i) OBVIOUS
    <3>2. p \in Nat BY <2>3, <3>1, BucketFacts
    <3>3. 0 <= Cap(b) + p BY <3>2, BucketFacts
    <3> QED BY <3>1, <3>3, BucketFacts
  <2>4. ASSUME NEW b \in Buckets PROVE BucketInv(b)
    <3>1. tokens[b] \in 0..Cap(b) /\ last[b] \in 0..now BY <2>1, <2>2, BucketFacts
    <3>2. sent[b] \in Seq(0..MaxTime) /\ \A k \in 1..Len(sent[b]) : sent[b][k] <= last[b]
      <4>1. sent[b] = <<>> /\ Len(<<>>) = 0 BY <2>2
      <4> QED BY <4>1
    <3>3. Cardinality(Window(b, 0, 0)) + Cap(b) <= Cap(b) + Rate(b) * (0 - 0)
      <4>1. Cardinality(Window(b, 0, 0)) = 0 BY <2>2, FS_EmptySet
      <4> QED BY <4>1, BucketFacts
    <3> QED BY <2>2, <3>1, <3>2, <3>3 DEF BucketInv
  <2>5. WindowBound
    <3>1. ASSUME NEW b \in Buckets, NEW i \in 0..MaxTime, NEW j \in i..MaxTime
          PROVE  Cardinality(Window(b, i, j)) <= Cap(b) + Rate(b) * (j - i)
      <4>1. i \in Int /\ j \in Int /\ i <= j BY <2>1
      <4>2. Cardinality(Window(b, i, j)) = 0 BY <2>2, FS_EmptySet
      <4> QED BY <2>3, <4>1, <4>2
    <3> QED BY <3>1 DEF WindowBound
  <2> QED BY <2>1, <2>4, <2>5 DEF AInit, RateInv
<1> QED BY <1>1, <1>2, <1>3 DEF AInv

\* The invariant holds in every reachable state.
THEOREM ACorrect == ASpec => []AInv
<1>1. AInv /\ [ANext]_allvars => AInv'
  BY PoolSteps, NextInv, ConnStep, RateStep DEF AInv
<1> QED BY <1>1, AInitially, PTL DEF ASpec

\* However the calls interleave, and whatever times out, breaks off or stays unread on
\* a connection, no call returns what another one asked for (persistent_https.hpp,
\* https_pool.hpp).
THEOREM AnswersAreOwn == ASpec => []AnswerIsOwn
<1>1. AInv => AnswerIsOwn BY DEF AInv, ConnInv
<1> QED BY <1>1, ACorrect, PTL

\* For every rate, burst and number of callers, no window of time has more grants than
\* the burst and the rate allow (rate_limiter.hpp).
THEOREM RateIsBounded == ASpec => []WindowBound
<1>1. AInv => WindowBound BY DEF AInv, RateInv
<1> QED BY <1>1, ACorrect, PTL

\* A call uses the pool by the pool's rules only: with the limiter in front and the
\* connections inside, ApiGet implements the safety part of HttpsPool.
THEOREM CallsUseThePool == ASpec => Init /\ [][Next]_vars
<1>1. AInit => Init BY DEF AInit
<1> QED BY <1>1, PoolSteps, PTL DEF ASpec

\* So these calls keep the pool's promises: never more than max_ connections, no slot
\* leaked, no free slot unnoticed (https_pool.hpp:31-81).
THEOREM CallsKeepThePool == ASpec => [](PoolBound /\ NoSlotLeak /\ NoLostWakeup)
<1>1. AInv => PoolBound /\ NoSlotLeak /\ NoLostWakeup BY DEF AInv, IInv
<1> QED BY <1>1, ACorrect, PTL
=============================================================================
