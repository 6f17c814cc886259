----------------------------- MODULE DurableLog -----------------------------
(***************************************************************************)
(* What EventLog promises its callers, without the queue, the batches and   *)
(* the per-file buffers: an accepted line can be read from its file at some *)
(* later point, in any order between files, and close() returns only when   *)
(* that holds for every line accepted before the call.                      *)
(***************************************************************************)
EXTENDS Naturals

CONSTANT Clients

VARIABLES
    total,   \* lines accepted so far, numbered 1..total
    settled, \* numbers of the lines a reader of the files finds
    asked,   \* close() calls under way: client -> lines accepted before the call
    up       \* the process runs

dvars == <<total, settled, asked, up>>

NotAsking == [open |-> FALSE, upto |-> 0]

DInit ==
    /\ total = 0 /\ settled = {}
    /\ asked = [c \in Clients |-> NotAsking]
    /\ up = TRUE

\* A line whose file has already expired needs no place in it.
Accept ==
    /\ up
    /\ total' = total + 1
    /\ settled' \in {settled, settled \cup {total + 1}}
    /\ UNCHANGED <<asked, up>>

Settle ==
    /\ up
    /\ settled' \in SUBSET (1..total)
    /\ settled \subseteq settled'
    /\ UNCHANGED <<total, asked, up>>

Ask(c) ==
    /\ up /\ ~asked[c].open
    /\ asked' = [asked EXCEPT ![c] = [open |-> TRUE, upto |-> total]]
    /\ UNCHANGED <<total, settled, up>>

Answer(c) ==
    /\ up /\ asked[c].open
    /\ 1..asked[c].upto \subseteq settled
    /\ asked' = [asked EXCEPT ![c] = NotAsking]
    /\ UNCHANGED <<total, settled, up>>

\* The destructor: the last lines reach their files and the writer thread ends.
Stop ==
    /\ up
    /\ up' = FALSE
    /\ settled' = 1..total
    /\ UNCHANGED <<total, asked>>

DNext == Accept \/ Settle \/ Stop \/ \E c \in Clients : Ask(c) \/ Answer(c)

DSpec == DInit /\ [][DNext]_dvars
=============================================================================
