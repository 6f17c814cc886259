-------------------------- MODULE BackgroundWriter --------------------------
(***************************************************************************)
(* EventLog on top of BackgroundWriter.  Any thread writes a line: the day  *)
(* is read first, the bounded queue takes the line or drops it.  The writer *)
(* thread takes the whole queue, fills one buffer per file, and flushes the *)
(* buffers once a second, when one is large, and on request.                *)
(*                                                                          *)
(* A line is the number of its acceptance; file[n] is the file it is for: a *)
(* day, or Snapshot for WriteFileAtomic, whose .tmp is renamed in one step. *)
(***************************************************************************)
EXTENDS Integers, Sequences, SequencesExt

CONSTANTS
    Clients,    \* threads that hold the EventLog
    Snapshot,   \* the path of WriteFileAtomic
    KMaxQueue,  \* kMaxQueue
    Retention,  \* retention_days_, at least 1
    MaxDay,     \* bound: days the clock passes through
    MaxLines,   \* bound: calls of AppendLine and WriteFileAtomic
    MaxCloses,  \* bound: calls of close()
    MaxFaults   \* bound: flushes that cannot open or write their file

ASSUME ClientsAssumption == Snapshot \notin Int
ASSUME WriterAssumption ==
    /\ KMaxQueue \in Nat \ {0} /\ Retention \in Nat \ {0} /\ MaxDay \in Nat \ {0}
    /\ MaxLines \in Nat /\ MaxCloses \in Nat /\ MaxFaults \in Nat

Days == 1..MaxDay
Files == Days \cup {Snapshot}

VARIABLES
    today, curDay,       \* the UTC day, cur_day_ (0 before the first write)
    pc, day, target,     \* per client: step of its call, day read, Flush / FlushToDisk target
    q, stop, enqueued, processed, diskReq, diskDone,   \* under mu_
    wpc, batch, at, stopping, diskTarget,              \* the writer's round
    buf, fp,             \* sinks_: buffer and handle of each file
    disk,                \* contents of the files, as line numbers
    \* Ghosts: the file of each accepted line, what a close() has to cover,
    \* lines whose flush failed; bounds.
    file, mark, lost, faults

client == <<pc, day, target, mark>>
queue == <<q, stop, enqueued, processed, diskReq, diskDone>>
round == <<wpc, batch, at, stopping, diskTarget>>
sinks == <<buf, fp, disk, lost, faults>>
vars == <<today, curDay, client, queue, round, sinks, file>>

Init ==
    /\ today = 1 /\ curDay = 0
    /\ pc = [c \in Clients |-> "idle"]
    /\ day = [c \in Clients |-> 0] /\ target = [c \in Clients |-> 0]
    /\ q = <<>> /\ stop = FALSE /\ enqueued = 0 /\ processed = 0
    /\ diskReq = 0 /\ diskDone = 0
    /\ wpc = "wait" /\ batch = <<>> /\ at = 0 /\ stopping = FALSE /\ diskTarget = 0
    /\ buf = [f \in Files |-> <<>>] /\ fp = [f \in Files |-> "null"]
    /\ disk = [f \in Files |-> <<>>]
    /\ file = <<>> /\ mark = [c \in Clients |-> 0] /\ lost = {}
    /\ faults = 0

Alive == wpc # "exit"
\* Lines accepted or about to be offered.
Writes == enqueued + Cardinality({c \in Clients : pc[c] = "stamped"})

-----------------------------------------------------------------------------
(* The callers.                                                             *)

NewDay ==
    /\ Alive /\ today < MaxDay
    /\ today' = today + 1
    /\ UNCHANGED <<curDay, client, queue, round, sinks, file>>

\* EventLog::write reads the clock before it takes the lock.
Stamp(c) ==
    /\ Alive /\ ~stop /\ pc[c] \in {"idle", "closed"} /\ Writes < MaxLines
    /\ pc' = [pc EXCEPT ![c] = "stamped"]
    /\ day' = [day EXCEPT ![c] = today]
    /\ mark' = [mark EXCEPT ![c] = 0]
    /\ UNCHANGED <<today, curDay, target, queue, round, sinks, file>>

\* prune(): removes the files of days before now - retention_days_.  A handle the
\* writer holds on a removed file writes to nothing from then on.
Expired(d) == d < today - Retention
Prune ==
    /\ disk' = [f \in Files |-> IF f \in Days /\ Expired(f) THEN <<>> ELSE disk[f]]
    /\ fp' = [f \in Files |-> IF f \in Days /\ Expired(f) /\ fp[f] = "open"
                              THEN "unlinked" ELSE fp[f]]

\* Mutant: the bound is off by one.
EnqueueBoundMutant(f) ==
    IF Len(q) > KMaxQueue
    THEN UNCHANGED <<queue, file>>
    ELSE /\ q' = Append(q, enqueued + 1)
         /\ enqueued' = enqueued + 1
         /\ file' = Append(file, f)
         /\ UNCHANGED <<stop, processed, diskReq, diskDone>>

\* Mutant: a full queue forgets its oldest line.
EnqueueMutant(f) ==
    /\ q' = Append(IF Len(q) >= KMaxQueue THEN Tail(q) ELSE q, enqueued + 1)
    /\ enqueued' = enqueued + 1
    /\ file' = Append(file, f)
    /\ UNCHANGED <<stop, processed, diskReq, diskDone>>

\* AppendLine and WriteFileAtomic: a full queue drops the new line (dropped_).
Enqueue(f) ==
    IF Len(q) >= KMaxQueue
    THEN UNCHANGED <<queue, file>>
    ELSE /\ q' = Append(q, enqueued + 1)
         /\ enqueued' = enqueued + 1
         /\ file' = Append(file, f)
         /\ UNCHANGED <<stop, processed, diskReq, diskDone>>

Write(c) ==
    /\ Alive /\ pc[c] = "stamped"
    /\ Enqueue(day[c])
    /\ pc' = [pc EXCEPT ![c] = "idle"]
    /\ curDay' = day[c]
    /\ day' = [day EXCEPT ![c] = 0]
    /\ IF day[c] # curDay THEN Prune ELSE UNCHANGED <<disk, fp>>
    /\ UNCHANGED <<today, target, mark, round, buf, lost, faults>>

WriteFileAtomic(c) ==
    /\ Alive /\ ~stop /\ pc[c] \in {"idle", "closed"} /\ Writes < MaxLines
    /\ Enqueue(Snapshot)
    /\ pc' = [pc EXCEPT ![c] = "idle"]
    /\ mark' = [mark EXCEPT ![c] = 0]
    /\ UNCHANGED <<today, curDay, day, target, round, sinks>>

\* close(): Flush, then FlushToDisk, each waiting on its own counter.
Close(c) ==
    /\ Alive /\ ~stop /\ pc[c] = "idle" /\ diskReq < MaxCloses
    /\ pc' = [pc EXCEPT ![c] = "flush"]
    /\ target' = [target EXCEPT ![c] = enqueued]
    /\ mark' = [mark EXCEPT ![c] = enqueued]
    /\ UNCHANGED <<today, curDay, day, queue, round, sinks, file>>

\* Flush returns, FlushToDisk files its request.
FlushToDisk(c) ==
    /\ Alive /\ pc[c] = "flush" /\ (processed >= target[c] \/ stop)
    /\ pc' = [pc EXCEPT ![c] = "disk"]
    /\ diskReq' = diskReq + 1
    /\ target' = [target EXCEPT ![c] = diskReq + 1]
    /\ UNCHANGED <<today, curDay, day, mark, q, stop, enqueued, processed, diskDone,
                   round, sinks, file>>

\* Mutant: the wait's predicate is off by one.
ClosedMutant(c) ==
    /\ Alive /\ pc[c] = "disk" /\ (diskDone > target[c] \/ stop)
    /\ pc' = [pc EXCEPT ![c] = "closed"]
    /\ target' = [target EXCEPT ![c] = 0]
    /\ UNCHANGED <<today, curDay, day, mark, queue, round, sinks, file>>

Closed(c) ==
    /\ Alive /\ pc[c] = "disk" /\ (diskDone >= target[c] \/ stop)
    /\ pc' = [pc EXCEPT ![c] = "closed"]
    /\ target' = [target EXCEPT ![c] = 0]
    /\ UNCHANGED <<today, curDay, day, mark, queue, round, sinks, file>>

\* The destructor: every thread that used the log has been joined.
Destroy ==
    /\ Alive /\ ~stop /\ \A c \in Clients : pc[c] \in {"idle", "closed"}
    /\ stop' = TRUE
    /\ UNCHANGED <<today, curDay, client, q, enqueued, processed, diskReq, diskDone,
                   round, sinks, file>>

-----------------------------------------------------------------------------
(* The writer thread, Run_.                                                 *)

\* Woken, or after kFlushIntervalMs: the whole queue and the request counter in
\* one critical section.
Take ==
    /\ wpc = "wait"
    /\ wpc' = "apply" /\ at' = 0
    /\ batch' = q /\ q' = <<>>
    /\ stopping' = stop /\ diskTarget' = diskReq
    /\ UNCHANGED <<today, curDay, client, stop, enqueued, processed, diskReq, diskDone,
                   sinks, file>>

\* One item of the batch: into its buffer, or .tmp and rename.
Item ==
    /\ wpc = "apply" /\ at < Len(batch)
    /\ at' = at + 1
    /\ LET n == batch[at + 1] IN
       IF file[n] # Snapshot
       THEN /\ buf' = [buf EXCEPT ![file[n]] = Append(@, n)]
            /\ UNCHANGED <<disk, lost, faults>>
       ELSE \/ /\ disk' = [disk EXCEPT ![Snapshot] = <<n>>]
               /\ UNCHANGED <<buf, lost, faults>>
            \/ /\ faults < MaxFaults
               /\ faults' = faults + 1 /\ lost' = lost \cup {n}
               /\ UNCHANGED <<buf, disk>>
    /\ UNCHANGED <<today, curDay, client, queue, wpc, batch, stopping, diskTarget, fp, file>>

\* FlushSink_ on the files fs: the buffer goes to the file, or is discarded when
\* the file cannot be opened (bad).  Whole buffers only: what a short fwrite, whose
\* result the code ignores, or a crash inside the call leaves of one line is left out.
FlushSinks(fs) ==
    \E bad \in SUBSET {f \in fs : buf[f] # <<>>} :
        /\ faults + Cardinality(bad) <= MaxFaults
        /\ faults' = faults + Cardinality(bad)
        /\ buf' = [f \in Files |-> IF f \in fs THEN <<>> ELSE buf[f]]
        /\ disk' = [f \in Files |-> IF f \in fs \ bad /\ fp[f] # "unlinked"
                                    THEN disk[f] \o buf[f] ELSE disk[f]]
        /\ fp' = [f \in Files |-> IF f \in fs \ bad /\ buf[f] # <<>> /\ fp[f] = "null"
                                  THEN "open" ELSE fp[f]]
        /\ lost' = lost \cup UNION {Range(buf[f]) : f \in bad}

AfterBatch == wpc = "apply" /\ at = Len(batch)
ToDisk == wpc' = IF diskTarget > diskDone THEN "disk" ELSE "ack"

\* A buffer has reached kFlushBytes; none may have.
Threshold ==
    /\ AfterBatch /\ ~stopping
    /\ \E fs \in SUBSET Days : FlushSinks(fs)
    /\ ToDisk
    /\ UNCHANGED <<today, curDay, client, queue, batch, at, stopping, diskTarget, file>>

\* Mutant: the timer is looked at only when there are new lines.
TimedMutant ==
    /\ AfterBatch /\ (batch # <<>> \/ stopping)
    /\ FlushSinks(Days)
    /\ ToDisk
    /\ UNCHANGED <<today, curDay, client, queue, batch, at, stopping, diskTarget, file>>

\* kFlushIntervalMs have passed, or the destructor is waiting.
Timed ==
    /\ AfterBatch
    /\ FlushSinks(Days)
    /\ ToDisk
    /\ UNCHANGED <<today, curDay, client, queue, batch, at, stopping, diskTarget, file>>

\* Mutant: a round without new lines is taken for nothing to flush.
DiskRoundMutant ==
    /\ wpc = "disk"
    /\ IF batch = <<>> THEN UNCHANGED sinks ELSE FlushSinks(Days)
    /\ diskDone' = diskTarget
    /\ wpc' = "ack"
    /\ UNCHANGED <<today, curDay, client, q, stop, enqueued, processed, diskReq,
                   batch, at, stopping, diskTarget, file>>

\* The request of FlushToDisk: every buffer, then disk_done_.
DiskRound ==
    /\ wpc = "disk"
    /\ FlushSinks(Days)
    /\ diskDone' = diskTarget
    /\ wpc' = "ack"
    /\ UNCHANGED <<today, curDay, client, q, stop, enqueued, processed, diskReq,
                   batch, at, stopping, diskTarget, file>>

\* Mutant: the writer stops without looking at what it has just taken.
AckMutant ==
    /\ wpc = "ack"
    /\ processed' = processed + Len(batch)
    /\ batch' = <<>> /\ at' = 0
    /\ wpc' = IF stop THEN "final" ELSE "wait"
    /\ UNCHANGED <<today, curDay, client, q, stop, enqueued, diskReq, diskDone,
                   stopping, diskTarget, sinks, file>>

\* processed_; a round that saw stop_ is the last.
Ack ==
    /\ wpc = "ack"
    /\ processed' = processed + Len(batch)
    /\ batch' = <<>> /\ at' = 0
    /\ wpc' = IF stopping THEN "final" ELSE "wait"
    /\ UNCHANGED <<today, curDay, client, q, stop, enqueued, diskReq, diskDone,
                   stopping, diskTarget, sinks, file>>

\* The last flush, fclose; the destructor's join returns.
Final ==
    /\ wpc = "final"
    /\ FlushSinks(Days)
    /\ wpc' = "exit"
    /\ UNCHANGED <<today, curDay, client, queue, batch, at, stopping, diskTarget, file>>

Writer == Take \/ Item \/ Threshold \/ Timed \/ DiskRound \/ Ack \/ Final

Next ==
    \/ NewDay \/ Destroy
    \/ \E c \in Clients : \/ Stamp(c) \/ Write(c) \/ WriteFileAtomic(c)
                          \/ Close(c) \/ FlushToDisk(c) \/ Closed(c)
    \/ Writer

Spec == Init /\ [][Next]_vars

\* The writer thread is scheduled, its clock moves (some round is timed), and a
\* waiter whose predicate holds is woken: both condition variables are notified
\* under the lock that changes the counters.
FairSpec ==
    /\ Spec
    /\ WF_vars(Writer) /\ SF_vars(Timed)
    /\ \A c \in Clients : WF_vars(FlushToDisk(c)) /\ WF_vars(Closed(c))

-----------------------------------------------------------------------------
(* Properties.                                                              *)

TypeOK ==
    /\ today \in Days /\ curDay \in Days \cup {0}
    /\ pc \in [Clients -> {"idle", "stamped", "flush", "disk", "closed"}]
    /\ day \in [Clients -> Days \cup {0}]
    /\ target \in [Clients -> Nat] /\ mark \in [Clients -> Nat]
    /\ q \in Seq(Nat) /\ batch \in Seq(Nat) /\ Len(q) <= KMaxQueue
    /\ {stop, stopping} \subseteq BOOLEAN
    /\ {enqueued, processed, diskReq, diskDone, diskTarget, at} \subseteq Nat
    /\ faults \in 0..MaxFaults
    /\ wpc \in {"wait", "apply", "disk", "ack", "final", "exit"}
    /\ buf \in [Files -> Seq(Nat)] /\ disk \in [Files -> Seq(Nat)]
    /\ fp \in [Files -> {"null", "open", "unlinked"}]
    /\ file \in Seq(Files) /\ Len(file) = enqueued
    /\ lost \subseteq 1..enqueued

\* Where an accepted line can be read: its file, or, for a snapshot, the file holds
\* it or a newer one.  A line whose flush failed, or whose day has expired, is exempt.
Readable(n) ==
    \/ n \in lost
    \/ file[n] = Snapshot /\ \E m \in Range(disk[Snapshot]) : m >= n
    \/ file[n] \in Days /\ (Expired(file[n]) \/ n \in Range(disk[file[n]]))

\* close() returned: every line accepted before the call can be read from the disk
\* ("close() 返回后事件必在磁盘"), whatever was written, flushed or requested by
\* other threads meanwhile.
CloseDurable ==
    \A c \in Clients : pc[c] = "closed" => \A n \in 1..mark[c] : Readable(n)

\* The process may die in any state and leaves `disk`: a file then has no hole and
\* no duplicate.  It holds its lines in the order of acceptance, and every line
\* before its last one is there too, unless that one's flush failed or the file's
\* day has expired.
CrashPrefix ==
    \A f \in Days :
        /\ \A i, j \in DOMAIN disk[f] : i < j => disk[f][i] < disk[f][j]
        /\ ~Expired(f) =>
             \A n \in 1..enqueued :
                (file[n] = f /\ \E m \in Range(disk[f]) : n < m) => Readable(n)

\* close() returns: neither of its two waits can miss its wake-up or wait for lines
\* accepted after the call.
CloseReturns ==
    \A c \in Clients : (pc[c] = "flush") ~> (pc[c] = "closed")

\* An accepted line reaches its file without any close(): the timed flush is enough.
LinesReachDisk == \A n \in 1..MaxLines : (n <= enqueued) ~> (n <= enqueued /\ Readable(n))

\* What a reader of DurableLog sees of the state.
Settled == {n \in 1..enqueued : Readable(n)}
Asked == [c \in Clients |-> IF pc[c] \in {"flush", "disk"}
                            THEN [open |-> TRUE, upto |-> mark[c]]
                            ELSE [open |-> FALSE, upto |-> 0]]
Log == INSTANCE DurableLog WITH
    total <- enqueued, settled <- Settled, asked <- Asked, up <- Alive

\* The batches, buffers and counters implement DurableLog.  In particular the
\* destructor leaves nothing accepted in memory, lines written after the last close()
\* included (shutdown logs its cancels after it).
ImplementsDurableLog == Log!DSpec
=============================================================================
