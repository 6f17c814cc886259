----------------------------- MODULE HttpsPool -----------------------------
(***************************************************************************)
(* pmm::net::HttpsPool: a pool of at most `max_` keep-alive connections to  *)
(* one host, shared by the poll loop, the discovery thread and the resync   *)
(* workers.  Get borrows a connection (an idle one, else a new one below    *)
(* the limit, else it waits on cv_), uses it and gives it back.             *)
(*                                                                          *)
(* Connections are interchangeable, so idle_ is a count.  Each critical     *)
(* section under mu_ is one step; constructing a connection, the request    *)
(* and notify_one run outside the lock and are steps of their own.          *)
(***************************************************************************)
EXTENDS Integers, FiniteSets

CONSTANTS
    Threads,  \* the threads that call Get
    MaxConns  \* max_

ASSUME ThreadsAssumption == IsFiniteSet(Threads)
\* The constructor replaces 0 by 1 (https_pool.hpp:28).
ASSUME MaxConnsAssumption == MaxConns \in Nat \ {0}

VARIABLES
    idle,         \* idle_.size()
    outstanding,  \* outstanding_
    pc            \* where each thread is in Get

vars == <<idle, outstanding, pc>>

Places == {"caller", "checkout", "waiting", "creating", "using", "notify"}

At(place) == {t \in Threads : pc[t] = place}

Init ==
    /\ idle = 0
    /\ outstanding = 0
    /\ pc = [t \in Threads |-> "caller"]

Goto(t, place) == pc' = [pc EXCEPT ![t] = place]

\* A caller enters Get and competes for mu_.
Get(t) ==
    /\ pc[t] = "caller"
    /\ Goto(t, "checkout")
    /\ UNCHANGED <<idle, outstanding>>

SlotFree == idle > 0 \/ outstanding < MaxConns

\* Mutant: the slot of a reused connection is not counted.
TakeIdleMutant(t) ==
    /\ pc[t] = "checkout"
    /\ idle > 0
    /\ idle' = idle - 1
    /\ Goto(t, "using")
    /\ UNCHANGED outstanding

\* An idle connection is handed out.
TakeIdle(t) ==
    /\ pc[t] = "checkout"
    /\ idle > 0
    /\ idle' = idle - 1
    /\ outstanding' = outstanding + 1
    /\ Goto(t, "using")

\* Mutant: the limit test forgets that the constructing thread counts too.
ReserveMutant(t) ==
    /\ pc[t] = "checkout"
    /\ idle = 0
    /\ outstanding <= MaxConns
    /\ outstanding' = outstanding + 1
    /\ Goto(t, "creating")
    /\ UNCHANGED idle

\* Nothing idle, below the limit: reserve the slot, then construct unlocked.
Reserve(t) ==
    /\ pc[t] = "checkout"
    /\ idle = 0
    /\ outstanding < MaxConns
    /\ outstanding' = outstanding + 1
    /\ Goto(t, "creating")
    /\ UNCHANGED idle

\* At the limit: wait (atomically releasing mu_).
Wait(t) ==
    /\ pc[t] = "checkout"
    /\ ~SlotFree
    /\ Goto(t, "waiting")
    /\ UNCHANGED <<idle, outstanding>>

Construct(t) ==
    /\ pc[t] = "creating"
    /\ Goto(t, "using")
    /\ UNCHANGED <<idle, outstanding>>

\* Mutant: the constructor's exception leaves the slot taken.
ConstructFailsMutant(t) ==
    /\ pc[t] = "creating"
    /\ Goto(t, "notify")
    /\ UNCHANGED <<idle, outstanding>>

\* make_unique threw: give the slot back, then notify.
ConstructFails(t) ==
    /\ pc[t] = "creating"
    /\ outstanding' = outstanding - 1
    /\ Goto(t, "notify")
    /\ UNCHANGED idle

\* Mutant: the connection comes back but nobody is told.
CheckinMutant(t) ==
    /\ pc[t] = "using"
    /\ idle' = idle + 1
    /\ outstanding' = outstanding - 1
    /\ Goto(t, "caller")

\* The request returned or threw; both paths run checkin.
Checkin(t) ==
    /\ pc[t] = "using"
    /\ idle' = idle + 1
    /\ outstanding' = outstanding - 1
    /\ Goto(t, "notify")

\* cv_.notify_one(), after the lock is released: wakes one waiter if any.
NotifyOne(t) ==
    /\ pc[t] = "notify"
    /\ \/ /\ At("waiting") = {}
          /\ Goto(t, "caller")
       \/ \E w \in At("waiting") :
             pc' = [pc EXCEPT ![t] = "caller", ![w] = "checkout"]
    /\ UNCHANGED <<idle, outstanding>>

\* A condition variable may wake without a notification.
SpuriousWake(t) ==
    /\ pc[t] = "waiting"
    /\ Goto(t, "checkout")
    /\ UNCHANGED <<idle, outstanding>>

Step(t) ==
    \/ TakeIdle(t) \/ Reserve(t) \/ Wait(t)
    \/ Construct(t) \/ ConstructFails(t) \/ Checkin(t) \/ NotifyOne(t)

Next == \E t \in Threads : Get(t) \/ Step(t) \/ SpuriousWake(t)

\* Threads inside Get keep running and an allocation does not fail for ever;
\* callers and spurious wake-ups owe nothing.
Spec ==
    /\ Init /\ [][Next]_vars
    /\ \A t \in Threads : WF_vars(Step(t)) /\ SF_vars(Construct(t))

-----------------------------------------------------------------------------
TypeOK ==
    /\ idle \in Nat
    /\ outstanding \in Nat
    /\ pc \in [Threads -> Places]

\* The host never sees more than max_ connections from this pool, idle ones
\* included: a slot is only added when nothing is idle (https_pool.hpp:47-72).
PoolBound == idle + outstanding <= MaxConns

\* outstanding_ counts exactly the callers that hold a slot: no path through
\* Get, the throwing ones included, leaks one ("不泄漏槽位", https_pool.hpp:31).
NoSlotLeak == outstanding = Cardinality(At("creating") \cup At("using"))

\* While somebody waits, every free slot is matched by a notification still to
\* be sent or by a thread already awake that will look at it: no lost wake-up,
\* although notify_one is called after mu_ is released and wakes only one.
NoLostWakeup ==
    At("waiting") # {} =>
        MaxConns - outstanding <= Cardinality(At("notify") \cup At("checkout"))

\* Whenever somebody waits, somebody is eventually served: the pool as a whole
\* never stalls (single threads may be overtaken for ever: cv_ is not fair).
SomebodyServed ==
    (At("waiting") # {}) ~> (At("using") # {} \/ At("waiting") = {})
=============================================================================
