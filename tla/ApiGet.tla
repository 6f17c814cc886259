------------------------------- MODULE ApiGet -------------------------------
(***************************************************************************)
(* A GET of PolymarketClient or RewardsClient: RateLimiter, then HttpsPool, *)
(* then PersistentHttps on the borrowed connection.  The pool's steps are   *)
(* those of module HttpsPool; this module adds the two token buckets in     *)
(* front of it and what its connections carry: idle_ becomes a stack of     *)
(* connections, each with the input its last user left unread.              *)
(*                                                                          *)
(* An answer is the thread that asked for it.                               *)
(***************************************************************************)
EXTENDS HttpsPool, Sequences, Functions

CONSTANTS
    EndpointRate, EndpointCap,  \* the bucket of classify(path): tokens per tick, burst
    HostRate, HostCap,          \* host_
    MaxTime                     \* bound: ticks of the clock

ASSUME RateAssumption ==
    /\ {EndpointRate, HostRate, EndpointCap, HostCap} \subseteq Nat \ {0} /\ MaxTime \in Nat
    /\ EndpointRate <= EndpointCap /\ HostRate <= HostCap

VARIABLES
    now, tokens, last,  \* the clock; tokens_ and last_ of the two buckets
    gate,               \* per thread: its step in RateLimiter::acquire
    stack, mine,        \* idle_; the connection each thread holds
    got,                \* what the call of each thread is about to return
    sent                \* ghost: the times of the grants of each bucket

limiter == <<now, tokens, last, gate, sent>>
conns == <<stack, mine, got>>
allvars == <<vars, limiter, conns>>

Buckets == {"endpoint", "host"}
Rate(b) == IF b = "host" THEN HostRate ELSE EndpointRate
Cap(b) == IF b = "host" THEN HostCap ELSE EndpointCap

\* ssl_ null, or a connection with input nobody has read: the CRLF that ends a chunked
\* answer, then answers, then the rest of one without framing (its server has closed).
Closed == [open |-> FALSE, crlf |-> FALSE, left |-> <<>>]
Open(crlf, left) == [open |-> TRUE, crlf |-> crlf, left |-> left]

AInit ==
    /\ Init
    /\ now = 0 /\ tokens = [b \in Buckets |-> Cap(b)] /\ last = [b \in Buckets |-> 0]
    /\ gate = [t \in Threads |-> "idle"]
    /\ stack = <<>> /\ mine = [t \in Threads |-> Closed] /\ got = [t \in Threads |-> "nothing"]
    /\ sent = [b \in Buckets |-> <<>>]

-----------------------------------------------------------------------------
(* RateLimiter.                                                             *)

Tick ==
    /\ now < MaxTime
    /\ now' = now + 1
    /\ UNCHANGED <<vars, tokens, last, gate, sent, conns>>

Request(t) ==
    /\ pc[t] = "caller" /\ gate[t] = "idle"
    /\ gate' = [gate EXCEPT ![t] = "endpoint"]
    /\ UNCHANGED <<vars, now, tokens, last, sent, conns>>

\* Mutant: an idle bucket keeps filling.
RefilledMutant(b) == tokens[b] + (now - last[b]) * Rate(b)

\* refill_locked.
Refilled(b) ==
    LET full == tokens[b] + (now - last[b]) * Rate(b)
    IN  IF full < Cap(b) THEN full ELSE Cap(b)

\* TokenBucket::acquire: one token.  A refused attempt sleeps and tries again; its
\* refill is part of the next one's.
Acquire(t, b, next) ==
    /\ gate[t] = b /\ Refilled(b) >= 1
    /\ tokens' = [tokens EXCEPT ![b] = Refilled(b) - 1]
    /\ last' = [last EXCEPT ![b] = now]
    /\ sent' = [sent EXCEPT ![b] = Append(@, now)]
    /\ gate' = [gate EXCEPT ![t] = next]
    /\ UNCHANGED <<vars, now, conns>>

\* The endpoint's token is taken first and kept while the thread waits for the host's.
AcquireEndpoint(t) == Acquire(t, "endpoint", "host")
AcquireHost(t) == Acquire(t, "host", "granted")

-----------------------------------------------------------------------------
(* The pool's steps, with the connections they move.                        *)

EnterPool(t) ==
    /\ gate[t] = "granted"
    /\ Get(t)
    /\ gate' = [gate EXCEPT ![t] = "pool"]
    /\ UNCHANGED <<now, tokens, last, sent, conns>>

\* The connection returned last is used next.
Borrow(t) ==
    /\ TakeIdle(t)
    /\ mine' = [mine EXCEPT ![t] = stack[Len(stack)]]
    /\ stack' = SubSeq(stack, 1, Len(stack) - 1)
    /\ UNCHANGED <<limiter, got>>

\* PersistentHttps is constructed without connecting.
Create(t) ==
    /\ Construct(t)
    /\ mine' = [mine EXCEPT ![t] = Closed]
    /\ UNCHANGED <<limiter, stack, got>>

\* The exception leaves the call.
CreateFails(t) ==
    /\ ConstructFails(t)
    /\ gate' = [gate EXCEPT ![t] = "idle"]
    /\ UNCHANGED <<now, tokens, last, sent, conns>>

Pool(t) ==
    /\ Reserve(t) \/ Wait(t) \/ NotifyOne(t) \/ SpuriousWake(t)
    /\ UNCHANGED <<limiter, conns>>

-----------------------------------------------------------------------------
(* PersistentHttps::Get.                                                    *)

Using(t) == pc[t] = "using" /\ got[t] = "nothing"
Done(t, conn, answer) ==
    /\ mine' = [mine EXCEPT ![t] = conn]
    /\ got' = [got EXCEPT ![t] = answer]
    /\ UNCHANGED <<vars, limiter, stack>>

\* Mutant: after a timeout the connection is kept for the next request.
ShutMutant(t) == Open(FALSE, <<t>>)

\* Shut: whatever the server still sends is lost with the connection.
Shut(t) == Closed

\* Open fails: TCP, TLS or the certificate.
NotConnected(t) == Using(t) /\ ~mine[t].open /\ Done(t, Closed, "error")

\* The write fails, or no complete header comes in time: status 0.
Unanswered(t) == Using(t) /\ Done(t, Shut(t), "error")

\* The answers this connection gives its user to read.
Input(t) == Append(mine[t].left, t)
Readable(t) == "rest" \notin Range(mine[t].left)

\* The body ends early: Shut, and a status 200 with half a document, which
\* json::parse refuses.
Truncated(t) == Using(t) /\ Readable(t) /\ Done(t, Shut(t), "error")

\* A framed answer.  Behind a CRLF the status line reads as empty and the status as 0;
\* an HTTP error is an error too.  Of a chunked answer the last CRLF may be unread.
Answered(t) ==
    /\ Using(t) /\ Readable(t)
    /\ \E late \in BOOLEAN, answer \in {"error", Head(Input(t))} :
        /\ mine[t].crlf => answer = "error"
        /\ Done(t, Open(late, Tail(Input(t))), answer)

\* Neither a length nor chunks: what came with the header is the body, all of it or
\* too little to parse; the server closes.
Unframed(t) ==
    /\ Using(t) /\ Readable(t)
    /\ \E answer \in {"error", Head(Input(t))} :
        /\ mine[t].crlf => answer = "error"
        /\ Done(t, Open(FALSE, Append(Tail(Input(t)), "rest")), answer)

Return(t) ==
    /\ got[t] # "nothing"
    /\ Checkin(t)
    /\ stack' = Append(stack, mine[t])
    /\ mine' = [mine EXCEPT ![t] = Closed]
    /\ got' = [got EXCEPT ![t] = "nothing"]
    /\ gate' = [gate EXCEPT ![t] = "idle"]
    /\ UNCHANGED <<now, tokens, last, sent>>

Inside(t) ==
    \/ Borrow(t) \/ Create(t) \/ CreateFails(t) \/ Pool(t)
    \/ NotConnected(t) \/ Unanswered(t) \/ Truncated(t) \/ Answered(t) \/ Unframed(t)
    \/ Return(t)

ANext ==
    \/ Tick
    \/ \E t \in Threads : \/ Request(t) \/ AcquireEndpoint(t) \/ AcquireHost(t) \/ EnterPool(t)
                          \/ Inside(t)

\* Threads run, a request ends (PersistentHttps has time limits on every call), and
\* construction does not fail for ever.
ASpec ==
    /\ AInit /\ [][ANext]_allvars
    /\ \A t \in Threads :
          WF_allvars(Inside(t) /\ ~SpuriousWake(t)) /\ SF_allvars(Create(t))

-----------------------------------------------------------------------------
(* Properties.                                                              *)

\* A call returns its own answer or an error: no thread is given what another one
\* asked for on the same connection, whatever timed out, broke off or was left unread
\* before.
AnswerIsOwn == \A t \in Threads : got[t] \in {"nothing", "error", t}

\* The grants of a bucket in a window of time.
Window(b, i, j) == {k \in 1..Len(sent[b]) : sent[b][k] \in i..j}

\* In no window of time does a bucket grant more requests than its burst and what the
\* exchange allows for the window (docs: "官方 per-endpoint 限额"), whatever callers
\* wait, race for the last token or come after an idle time.  It is about the grants:
\* a request goes out later, after its second bucket and its wait for a connection.
WindowBound ==
    \A b \in Buckets : \A i \in 0..MaxTime : \A j \in i..MaxTime :
        Cardinality(Window(b, i, j)) <= Cap(b) + Rate(b) * (j - i)
=============================================================================
