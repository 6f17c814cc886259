----------------------- MODULE BackgroundWriterProofs -----------------------
(***************************************************************************)
(* TLAPS proofs about BackgroundWriter, for any number of clients, any      *)
(* queue bound, retention and number of days, lines, closes and failed      *)
(* flushes: types, durability of close(), what a crash leaves, and that the *)
(* queue, the batches and the buffers implement DurableLog.                 *)
(***************************************************************************)
EXTENDS BackgroundWriter, FiniteSetTheorems, TLAPS

\* Lines the writer thread has put into a buffer or a snapshot file.
Done == processed + at

Increasing(s) == \A i, j \in DOMAIN s : i < j => s[i] < s[j]

\* The accepted lines, in order: processed ones, the batch, the queue.
QueueInv ==
    /\ processed + Len(batch) + Len(q) = enqueued
    /\ \A i \in 1..Len(batch) : batch[i] = processed + i
    /\ \A i \in 1..Len(q) : q[i] = processed + Len(batch) + i
    /\ at <= Len(batch)
    /\ wpc \in {"disk", "ack"} => at = Len(batch)
    /\ wpc \in {"wait", "final", "exit"} => batch = <<>> /\ at = 0

\* After the destructor nobody writes, so the round that saw stop_ took everything.
StopInv ==
    /\ stop => \A c \in Clients : pc[c] \in {"idle", "closed"}
    /\ stopping => stop /\ q = <<>> /\ wpc # "wait"
    /\ wpc \in {"final", "exit"} => stopping

\* Where a line the writer has handled is, and in which order it got there.
LineInv ==
    /\ \A n \in 1..Done : Readable(n) \/ (file[n] \in Days /\ n \in Range(buf[file[n]]))
    /\ \A f \in Files : Range(disk[f]) \subseteq 1..Done
    /\ \A f \in Days :
          /\ Increasing(disk[f]) /\ Increasing(buf[f])
          /\ \A m \in Range(disk[f]), n \in Range(buf[f]) : m < n
          /\ \A n \in Range(buf[f]) : n \in 1..Done /\ file[n] = f
    /\ \A f \in Files : fp[f] = "unlinked" => f \in Days /\ Expired(f)

\* How far each close() has come: a request that is answered covers its lines.
CloseInv ==
    /\ diskTarget <= diskReq /\ diskDone <= diskReq
    /\ \A c \in Clients :
          /\ mark[c] <= enqueued
          /\ pc[c] = "stamped" => day[c] \in Days
          /\ pc[c] = "flush" => target[c] = mark[c]
          /\ pc[c] = "disk" => mark[c] <= processed
          /\ pc[c] = "disk" /\ target[c] <= diskDone => \A n \in 1..mark[c] : Readable(n)
          /\ pc[c] = "closed" => \A n \in 1..mark[c] : Readable(n)

IInv == TypeOK /\ QueueInv /\ StopInv /\ LineInv /\ CloseInv

-----------------------------------------------------------------------------
(* Sequences of line numbers.                                               *)

\* Append adds one element to the range.
LEMMA RangeAppend ==
    ASSUME NEW S, NEW s \in Seq(S), NEW x \in S
    PROVE  /\ Append(s, x) \in Seq(S)
           /\ Range(Append(s, x)) = Range(s) \cup {x}
<1>1. Append(s, x) \in Seq(S) OBVIOUS
<1>2. DOMAIN s = 1..Len(s) /\ DOMAIN Append(s, x) = 1..(Len(s) + 1) /\ Len(s) \in Nat
  OBVIOUS
<1>3. \A i \in 1..Len(s) : Append(s, x)[i] = s[i]
  OBVIOUS
<1>4. Append(s, x)[Len(s) + 1] = x
  OBVIOUS
<1> QED BY <1>1, <1>2, <1>3, <1>4 DEF Range

\* Concatenation unites the ranges.
LEMMA RangeConcat ==
    ASSUME NEW S, NEW s \in Seq(S), NEW t \in Seq(S)
    PROVE  /\ s \o t \in Seq(S)
           /\ Range(s \o t) = Range(s) \cup Range(t)
<1>1. s \o t \in Seq(S) OBVIOUS
<1>2. DOMAIN s = 1..Len(s) /\ DOMAIN t = 1..Len(t) /\ DOMAIN (s \o t) = 1..(Len(s) + Len(t))
      /\ Len(s) \in Nat /\ Len(t) \in Nat
  OBVIOUS
<1>3. \A i \in 1..Len(s) : (s \o t)[i] = s[i]
  OBVIOUS
<1>4. \A i \in 1..Len(t) : (s \o t)[Len(s) + i] = t[i]
  OBVIOUS
<1>5. \A i \in 1..(Len(s) + Len(t)) : i \in 1..Len(s) \/ (i - Len(s) \in 1..Len(t) /\ i = Len(s) + (i - Len(s)))
  BY <1>2
<1>6. \A i \in 1..Len(s) : i \in 1..(Len(s) + Len(t))
  BY <1>2
<1>7. \A i \in 1..Len(t) : Len(s) + i \in 1..(Len(s) + Len(t))
  BY <1>2
<1>8. ASSUME NEW i \in 1..(Len(s) + Len(t)) PROVE (s \o t)[i] \in Range(s) \cup Range(t)
  BY <1>2, <1>3, <1>4, <1>5 DEF Range
<1>9. Range(s \o t) \subseteq Range(s) \cup Range(t) BY <1>2, <1>8 DEF Range
<1>10. \A i \in 1..Len(s) : s[i] \in Range(s \o t) BY <1>2, <1>3, <1>6 DEF Range
<1>11. \A i \in 1..Len(t) : t[i] \in Range(s \o t) BY <1>2, <1>4, <1>7 DEF Range
<1> QED BY <1>1, <1>2, <1>9, <1>10, <1>11 DEF Range

\* A larger number at the end keeps a sequence increasing.
LEMMA IncreasingAppend ==
    ASSUME NEW s \in Seq(Nat), NEW x \in Nat, Increasing(s), \A m \in Range(s) : m < x
    PROVE  Increasing(Append(s, x))
<1>1. DOMAIN s = 1..Len(s) /\ DOMAIN Append(s, x) = 1..(Len(s) + 1) /\ Len(s) \in Nat
  OBVIOUS
<1>2. \A i \in 1..Len(s) : Append(s, x)[i] = s[i] /\ s[i] < x
  BY <1>1 DEF Range
<1>3. Append(s, x)[Len(s) + 1] = x
  OBVIOUS
<1>4. \A i, j \in 1..(Len(s) + 1) : i < j => i \in 1..Len(s) /\ (j \in 1..Len(s) \/ j = Len(s) + 1)
  BY <1>1
<1> QED BY <1>1, <1>2, <1>3, <1>4 DEF Increasing

\* So does a sequence of larger numbers.
LEMMA IncreasingConcat ==
    ASSUME NEW s \in Seq(Nat), NEW t \in Seq(Nat), Increasing(s), Increasing(t),
           \A m \in Range(s), n \in Range(t) : m < n
    PROVE  Increasing(s \o t)
<1>1. DOMAIN s = 1..Len(s) /\ DOMAIN t = 1..Len(t) /\ DOMAIN (s \o t) = 1..(Len(s) + Len(t))
      /\ Len(s) \in Nat /\ Len(t) \in Nat
  OBVIOUS
<1>2. \A i \in 1..Len(s) : (s \o t)[i] = s[i]
  OBVIOUS
<1>3. \A i \in 1..(Len(s) + Len(t)) : i \notin 1..Len(s) => i - Len(s) \in 1..Len(t) /\ (s \o t)[i] = t[i - Len(s)]
  OBVIOUS
<1>4. \A i \in 1..Len(s), j \in 1..Len(t) : s[i] < t[j]
  BY <1>1 DEF Range
<1>5. ASSUME NEW i \in 1..(Len(s) + Len(t)), NEW j \in 1..(Len(s) + Len(t)), i < j
      PROVE  (s \o t)[i] < (s \o t)[j]
  <2>1. CASE j \in 1..Len(s)
    <3>1. i \in 1..Len(s) BY <1>1, <1>5, <2>1
    <3> QED BY <1>1, <1>2, <1>5, <2>1, <3>1 DEF Increasing
  <2>2. CASE i \in 1..Len(s) /\ j \notin 1..Len(s)
    BY <1>2, <1>3, <1>4, <2>2
  <2>3. CASE i \notin 1..Len(s)
    <3>1. j \notin 1..Len(s) BY <1>1, <1>5, <2>3
    <3>2. i - Len(s) < j - Len(s) BY <1>1, <1>5
    <3> QED BY <1>1, <1>3, <2>3, <3>1, <3>2 DEF Increasing
  <2> QED BY <2>1, <2>2, <2>3
<1> QED BY <1>1, <1>5 DEF Increasing

-----------------------------------------------------------------------------
(* What one flush does.                                                     *)

\* The arithmetic every step below needs.
Counts ==
    /\ enqueued \in Nat /\ processed \in Nat /\ at \in Nat /\ today \in Nat
    /\ diskReq \in Nat /\ diskDone \in Nat /\ diskTarget \in Nat /\ faults \in Nat
    /\ Len(q) \in Nat /\ Len(batch) \in Nat /\ Len(file) = enqueued
    /\ Done \in 0..enqueued
    /\ Days \subseteq Files /\ Snapshot \in Files /\ Snapshot \notin Days
    /\ stop \in BOOLEAN /\ stopping \in BOOLEAN

\* It follows from the invariant.
LEMMA Numbers == ASSUME IInv PROVE Counts
BY ClientsAssumption, WriterAssumption DEF IInv, TypeOK, QueueInv, Done, Days, Files, Counts

\* A set of days is finite.
LEMMA DaysFinite == ASSUME NEW bad \in SUBSET Days PROVE Cardinality(bad) \in Nat
<1>1. IsFiniteSet(Days) BY WriterAssumption, FS_Interval DEF Days
<1>2. IsFiniteSet(bad) BY <1>1, FS_Subset
<1> QED BY <1>2, FS_CardinalityType

\* A flush empties the buffers of fs: each goes to its file, or its lines are lost, or
\* its file was removed because its day has expired.
LEMMA Flushed ==
    ASSUME IInv, NEW fs \in SUBSET Days, FlushSinks(fs)
    PROVE  /\ buf' \in [Files -> Seq(Nat)] /\ disk' \in [Files -> Seq(Nat)]
           /\ fp' \in [Files -> {"null", "open", "unlinked"}]
           /\ faults' \in 0..MaxFaults
           /\ lost \subseteq lost' /\ lost' \subseteq 1..enqueued
           /\ \A f \in Files : fp'[f] = "unlinked" => fp[f] = "unlinked"
           /\ \A f \in fs : buf'[f] = <<>>
           /\ \A f \in Files \ fs : buf'[f] = buf[f] /\ disk'[f] = disk[f]
           /\ \A f \in fs : \/ disk'[f] = disk[f] \o buf[f]
                            \/ disk'[f] = disk[f] /\ Range(buf[f]) \subseteq lost'
                            \/ disk'[f] = disk[f] /\ Expired(f)
<1> USE DEF IInv
<1>1. PICK bad \in SUBSET {f \in fs : buf[f] # <<>>} :
        /\ faults + Cardinality(bad) <= MaxFaults
        /\ faults' = faults + Cardinality(bad)
        /\ buf' = [f \in Files |-> IF f \in fs THEN <<>> ELSE buf[f]]
        /\ disk' = [f \in Files |-> IF f \in fs \ bad /\ fp[f] # "unlinked"
                                    THEN disk[f] \o buf[f] ELSE disk[f]]
        /\ fp' = [f \in Files |-> IF f \in fs \ bad /\ buf[f] # <<>> /\ fp[f] = "null"
                                  THEN "open" ELSE fp[f]]
        /\ lost' = lost \cup UNION {Range(buf[f]) : f \in bad}
  BY DEF FlushSinks
<1>2. Days \subseteq Files BY DEF Files
<1>3. \A f \in Files : buf[f] \in Seq(Nat) /\ disk[f] \in Seq(Nat) BY DEF TypeOK
<1>4. buf' \in [Files -> Seq(Nat)]
  BY <1>1, <1>3
<1>5. disk' \in [Files -> Seq(Nat)]
  <2>1. \A f \in Files : disk[f] \o buf[f] \in Seq(Nat) BY <1>3, RangeConcat
  <2> QED BY <1>1, <1>3, <2>1
<1>6. fp' \in [Files -> {"null", "open", "unlinked"}]
      /\ \A f \in Files : fp'[f] = "unlinked" => fp[f] = "unlinked"
  BY <1>1 DEF TypeOK
<1>7. faults' \in 0..MaxFaults
  <2>1. Cardinality(bad) \in Nat BY DaysFinite
  <2> QED BY <1>1, <2>1, WriterAssumption DEF TypeOK
<1>8. lost \subseteq lost' /\ lost' \subseteq 1..enqueued
  <2>1. \A f \in bad : Range(buf[f]) \subseteq 1..enqueued
    <3> SUFFICES ASSUME NEW f \in bad, NEW n \in Range(buf[f]) PROVE n \in 1..enqueued
        OBVIOUS
    <3>1. n \in 1..Done BY DEF LineInv
    <3> QED BY <3>1, Numbers DEF Counts
  <2>2. lost \subseteq 1..enqueued BY DEF TypeOK
  <2>3. \A n \in lost' : n \in lost \/ \E f \in bad : n \in Range(buf[f]) BY <1>1
  <2> QED BY <1>1, <2>1, <2>2, <2>3
<1>9. \A f \in fs : buf'[f] = <<>> BY <1>1, <1>2
<1>10. \A f \in Files \ fs : buf'[f] = buf[f] /\ disk'[f] = disk[f] BY <1>1
<1>11. ASSUME NEW f \in fs
       PROVE  \/ disk'[f] = disk[f] \o buf[f]
              \/ disk'[f] = disk[f] /\ Range(buf[f]) \subseteq lost'
              \/ disk'[f] = disk[f] /\ Expired(f)
  <2>1. f \in Files BY <1>2
  <2>2. CASE f \in bad BY <1>1, <2>1, <2>2
  <2>3. CASE f \notin bad /\ fp[f] # "unlinked" BY <1>1, <2>1, <2>3
  <2>4. CASE f \notin bad /\ fp[f] = "unlinked" BY <1>1, <2>1, <2>4 DEF LineInv
  <2> QED BY <2>2, <2>3, <2>4
<1> QED BY <1>4, <1>5, <1>6, <1>7, <1>8, <1>9, <1>10, <1>11

\* What was readable stays so, and the lines of the flushed buffers become so.
LEMMA FlushedLines ==
    ASSUME IInv, NEW fs \in SUBSET Days, FlushSinks(fs), UNCHANGED <<today, file>>
    PROVE  /\ \A n \in 1..enqueued : Readable(n) => Readable(n)'
           /\ \A f \in fs : \A n \in Range(buf[f]) : Readable(n)'
<1> USE DEF IInv
<1>1. lost \subseteq lost' BY Flushed
<1>2. \A f \in Files : Range(disk[f]) \subseteq Range(disk'[f])
  <2> SUFFICES ASSUME NEW f \in Files PROVE Range(disk[f]) \subseteq Range(disk'[f])
      OBVIOUS
  <2>1. buf[f] \in Seq(Nat) /\ disk[f] \in Seq(Nat) BY DEF TypeOK
  <2>2. Range(disk[f] \o buf[f]) = Range(disk[f]) \cup Range(buf[f]) BY <2>1, RangeConcat
  <2> QED BY <2>2, Flushed
<1>3. \A d \in Days : Expired(d)' <=> Expired(d) BY DEF Expired
<1>4. disk[Snapshot] = disk'[Snapshot] BY Flushed, Numbers DEF Counts
<1>5. \A n \in 1..enqueued : Readable(n) => Readable(n)'
  BY <1>1, <1>2, <1>3, <1>4 DEF Readable, Files
<1>6. ASSUME NEW f \in fs, NEW n \in Range(buf[f]) PROVE Readable(n)'
  <2>1. f \in Days /\ file[n] = f /\ f \in Files BY DEF LineInv, Files
  <2>2. CASE disk'[f] = disk[f] \o buf[f]
    <3>1. buf[f] \in Seq(Nat) /\ disk[f] \in Seq(Nat) BY <2>1 DEF TypeOK
    <3>2. n \in Range(disk'[f]) BY <2>2, <3>1, RangeConcat
    <3> QED BY <2>1, <3>2 DEF Readable
  <2>3. CASE Range(buf[f]) \subseteq lost' BY <2>3 DEF Readable
  <2>4. CASE Expired(f) BY <1>3, <2>1, <2>4 DEF Readable
  <2> QED BY <2>2, <2>3, <2>4, Flushed
<1> QED BY <1>5, <1>6

-----------------------------------------------------------------------------
(* What the queue takes, and one item of a batch.                           *)

\* A line offered to the queue is dropped, or gets the next number and the last place.
LEMMA Offered ==
    ASSUME IInv, NEW f \in Files, Enqueue(f)
    PROVE  /\ UNCHANGED <<stop, processed, diskReq, diskDone>>
           /\ enqueued' \in {enqueued, enqueued + 1}
           /\ file' \in Seq(Files) /\ Len(file') = enqueued'
           /\ q' \in Seq(Nat) /\ Len(q') <= KMaxQueue
           /\ processed + Len(batch) + Len(q') = enqueued'
           /\ \A i \in 1..Len(q') : q'[i] = processed + Len(batch) + i
           /\ \A n \in 1..enqueued : file'[n] = file[n]
           /\ enqueued' = enqueued => q' = q /\ file' = file
<1>0. Counts BY Numbers
<1> USE <1>0 DEF IInv, Counts
<1>1. q \in Seq(Nat) /\ file \in Seq(Files) /\ Len(q) <= KMaxQueue BY DEF TypeOK
<1>2. processed + Len(batch) + Len(q) = enqueued
      /\ \A i \in 1..Len(q) : q[i] = processed + Len(batch) + i
  BY DEF QueueInv
<1>3. CASE Len(q) >= KMaxQueue
  <2>1. UNCHANGED <<queue, file>> BY <1>3 DEF Enqueue
  <2> QED BY <1>1, <1>2, <2>1 DEF queue
<1>4. CASE ~(Len(q) >= KMaxQueue)
  <2>1. /\ q' = Append(q, enqueued + 1) /\ enqueued' = enqueued + 1
        /\ file' = Append(file, f) /\ UNCHANGED <<stop, processed, diskReq, diskDone>>
    BY <1>4 DEF Enqueue
  <2>2. q' \in Seq(Nat) /\ Len(q') = Len(q) + 1
    <3>1. enqueued + 1 \in Nat OBVIOUS
    <3> HIDE DEF Counts
    <3> QED BY <1>1, <2>1, <3>1
  <2>3. file' \in Seq(Files) /\ Len(file') = Len(file) + 1 BY <1>1, <2>1
  <2>4. \A n \in 1..enqueued : file'[n] = file[n] BY <1>1, <2>1
  <2>5. Len(q') <= KMaxQueue BY <1>4, <2>2, WriterAssumption
  <2>6. ASSUME NEW i \in 1..Len(q') PROVE q'[i] = processed + Len(batch) + i
    <3>1. CASE i \in 1..Len(q) BY <1>1, <1>2, <2>1, <3>1
    <3>2. CASE i = Len(q) + 1
      <4>1. q'[Len(q) + 1] = enqueued + 1 BY <1>1, <2>1
      <4>2. enqueued + 1 = processed + Len(batch) + (Len(q) + 1) BY <1>2
      <4> QED BY <3>2, <4>1, <4>2
    <3> QED BY <2>2, <3>1, <3>2
  <2>7. processed + Len(batch) + Len(q') = enqueued'
    <3>1. enqueued' = enqueued + 1 BY <2>1
    <3> QED BY <1>2, <2>2, <3>1
  <2>8. Len(file') = enqueued' BY <2>1, <2>3
  <2>9. enqueued' # enqueued BY <2>1
  <2> HIDE <1>0 DEF Counts
  <2> QED BY <2>1, <2>2, <2>3, <2>4, <2>5, <2>6, <2>7, <2>8, <2>9
<1> QED BY <1>3, <1>4

\* The item the writer applies next is the first line it has not handled.
LEMMA NextItem ==
    ASSUME IInv, Item
    PROVE  /\ batch[at + 1] = Done + 1 /\ Done + 1 \in 1..enqueued
           /\ file[Done + 1] \in Files /\ Done' = Done + 1
<1>0. Counts BY Numbers
<1> USE <1>0 DEF IInv, Counts
<1>1. at + 1 \in 1..Len(batch) /\ at' = at + 1 /\ processed' = processed BY DEF Item, queue
<1>2. batch[at + 1] = Done + 1 BY <1>1 DEF QueueInv, Done
<1>3. Done + 1 \in 1..enqueued BY <1>1 DEF QueueInv, Done
<1>4. file[Done + 1] \in Files BY <1>3 DEF TypeOK
<1>5. Done' = Done + 1 BY <1>1 DEF Done
<1> QED BY <1>2, <1>3, <1>4, <1>5

\* What one item does to the files and buffers.
LEMMA Applied ==
    ASSUME IInv, Item
    PROVE  /\ UNCHANGED <<fp, today, file, enqueued>>
           /\ buf' \in [Files -> Seq(Nat)] /\ disk' \in [Files -> Seq(Nat)]
           /\ \/ /\ file[Done + 1] \in Days
                 /\ buf'[file[Done + 1]] = Append(buf[file[Done + 1]], Done + 1)
                 /\ \A f \in Files \ {file[Done + 1]} : buf'[f] = buf[f]
                 /\ UNCHANGED <<disk, lost, faults>>
              \/ /\ file[Done + 1] = Snapshot /\ disk'[Snapshot] = <<Done + 1>>
                 /\ \A f \in Files \ {Snapshot} : disk'[f] = disk[f]
                 /\ UNCHANGED <<buf, lost, faults>>
              \/ /\ file[Done + 1] = Snapshot /\ lost' = lost \cup {Done + 1}
                 /\ faults < MaxFaults /\ faults' = faults + 1
                 /\ UNCHANGED <<buf, disk>>
<1>0. Counts BY Numbers
<1> USE <1>0 DEF IInv, Counts
<1>1. batch[at + 1] = Done + 1 /\ Done + 1 \in 1..enqueued /\ file[Done + 1] \in Files
  BY NextItem
<1>2. UNCHANGED <<fp, today, file, enqueued>> BY DEF Item, queue
<1>3. buf \in [Files -> Seq(Nat)] /\ disk \in [Files -> Seq(Nat)] BY DEF TypeOK
<1>4. CASE file[Done + 1] # Snapshot
  <2>1. buf' = [buf EXCEPT ![file[Done + 1]] = Append(@, Done + 1)]
        /\ UNCHANGED <<disk, lost, faults>>
    BY <1>1, <1>4 DEF Item
  <2>2. file[Done + 1] \in Days BY <1>1, <1>4 DEF Files
  <2>3. Append(buf[file[Done + 1]], Done + 1) \in Seq(Nat) BY <1>1, <1>3
  <2> QED BY <1>1, <1>2, <1>3, <2>1, <2>2, <2>3
<1>5. CASE file[Done + 1] = Snapshot
  <2>1. \/ disk' = [disk EXCEPT ![Snapshot] = <<Done + 1>>] /\ UNCHANGED <<buf, lost, faults>>
        \/ /\ faults < MaxFaults /\ faults' = faults + 1 /\ lost' = lost \cup {Done + 1}
           /\ UNCHANGED <<buf, disk>>
    BY <1>1, <1>5 DEF Item
  <2>2. <<Done + 1>> \in Seq(Nat) BY <1>1
  <2> QED BY <1>1, <1>2, <1>3, <1>5, <2>1, <2>2
<1> QED BY <1>4, <1>5

-----------------------------------------------------------------------------
(* The kinds of step.                                                       *)

\* Steps that touch no file, buffer or line.
Quiet ==
    /\ UNCHANGED <<today, file, enqueued, sinks, curDay>>
    /\ Done' = Done
Silent ==
    \/ UNCHANGED vars
    \/ \E c \in Clients : Stamp(c) \/ Close(c) \/ FlushToDisk(c) \/ Closed(c)
    \/ Destroy \/ Take \/ Ack

\* Steps that flush.
Flushes == Threshold \/ Timed \/ DiskRound \/ Final

\* Every step is of one of five kinds.
LEMMA Kinds ==
    ASSUME [Next]_vars
    PROVE  \/ Silent \/ NewDay \/ Item \/ Flushes
           \/ \E c \in Clients : Write(c) \/ WriteFileAtomic(c)
BY DEF Next, Writer, Silent, Flushes

\* The silent steps are quiet.
LEMMA SilentIsQuiet == ASSUME IInv, Silent PROVE Quiet
<1>0. Counts BY Numbers
<1> USE <1>0 DEF IInv, Counts, Quiet, Done, client, queue, round, sinks
<1>1. CASE UNCHANGED vars BY <1>1 DEF vars
<1>2. CASE \E c \in Clients : Stamp(c) \/ Close(c) \/ FlushToDisk(c) \/ Closed(c)
  BY <1>2 DEF Stamp, Close, FlushToDisk, Closed
<1>3. CASE Destroy BY <1>3 DEF Destroy
<1>4. CASE Take BY <1>4 DEF Take, QueueInv
<1>5. CASE Ack BY <1>5 DEF Ack, QueueInv
<1> QED BY <1>1, <1>2, <1>3, <1>4, <1>5 DEF Silent

\* What a flushing step leaves alone.
LEMMA FlushesFrame ==
    ASSUME IInv, Flushes
    PROVE  /\ UNCHANGED <<today, file, curDay, client, q, stop, enqueued, processed, diskReq,
                          batch, at, stopping, diskTarget>>
           /\ Done' = Done
           /\ \E fs \in SUBSET Days : FlushSinks(fs)
           /\ ~Threshold => FlushSinks(Days)
BY DEF Flushes, Threshold, Timed, DiskRound, Final, queue, round, Done

\* An accepted line keeps its file, whoever writes next.
LEMMA OfferedBy ==
    ASSUME IInv, NEW c \in Clients, Write(c) \/ WriteFileAtomic(c)
    PROVE  \E f \in Files : Enqueue(f)
<1>1. CASE Write(c)
  <2>1. day[c] \in Files BY <1>1 DEF Write, IInv, CloseInv, Files
  <2> QED BY <1>1, <2>1 DEF Write
<1>2. CASE WriteFileAtomic(c) BY <1>2 DEF WriteFileAtomic, Files
<1> QED BY <1>1, <1>2

\* A write prunes expired days at most.
LEMMA Pruned ==
    ASSUME IInv, NEW c \in Clients, Write(c) \/ WriteFileAtomic(c)
    PROVE  /\ UNCHANGED <<today, buf, lost, faults, round>>
           /\ disk' \in [Files -> Seq(Nat)] /\ fp' \in [Files -> {"null", "open", "unlinked"}]
           /\ \A f \in Files : disk'[f] = disk[f] \/ (f \in Days /\ Expired(f) /\ disk'[f] = <<>>)
           /\ \A f \in Files : fp'[f] = fp[f] \/ (f \in Days /\ Expired(f))
<1> USE DEF IInv
<1>1. UNCHANGED <<today, buf, lost, faults, round>>
  BY DEF Write, WriteFileAtomic, sinks
<1>2. CASE UNCHANGED <<disk, fp>> BY <1>1, <1>2 DEF TypeOK
<1>3. CASE Prune
  <2>1. <<>> \in Seq(Nat) OBVIOUS
  <2> QED BY <1>1, <1>3, <2>1 DEF Prune, TypeOK
<1> QED BY <1>2, <1>3 DEF Write, WriteFileAtomic, sinks

\* A line that can be read can be read ever after, or has expired.
LEMMA ReadableKept ==
    ASSUME IInv, [Next]_vars
    PROVE  \A n \in 1..enqueued : Readable(n) => Readable(n)'
<1>0. Counts BY Numbers
<1> USE DEF IInv
<1>1. CASE Silent
  <2>1. UNCHANGED <<today, file, disk, lost>> BY <1>1, SilentIsQuiet DEF Quiet, sinks
  <2> QED BY <2>1 DEF Readable, Expired
<1>2. CASE NewDay
  <2>1. UNCHANGED <<file, disk, lost>> /\ today' = today + 1 BY <1>2 DEF NewDay, sinks
  <2>2. \A d \in Days : Expired(d) => Expired(d)'
    BY <1>0, <2>1, WriterAssumption DEF Expired, Counts, Days
  <2> QED BY <2>1, <2>2 DEF Readable
<1>3. CASE Item
  <2>1. \A n \in 1..enqueued : file[n] \in Files BY <1>0 DEF TypeOK, Counts
  <2>2. UNCHANGED <<today, file>> BY <1>3, Applied
  <2>3. \A d : Expired(d)' <=> Expired(d) BY <2>2 DEF Expired
  <2>4. CASE UNCHANGED <<disk, lost>> BY <2>2, <2>3, <2>4 DEF Readable
  <2>5. CASE UNCHANGED disk /\ lost \subseteq lost' BY <2>2, <2>3, <2>5 DEF Readable
  <2>6. CASE /\ disk'[Snapshot] = <<Done + 1>> /\ UNCHANGED lost
             /\ \A f \in Files \ {Snapshot} : disk'[f] = disk[f]
    <3>1. ASSUME NEW n \in 1..enqueued, NEW m \in Range(disk[Snapshot]), m >= n
          PROVE  Done + 1 >= n
      BY <1>0, <3>1 DEF LineInv, Counts
    <3>2. Done + 1 \in Range(disk'[Snapshot]) BY <2>6 DEF Range
    <3>3. \A n \in 1..enqueued : (\E m \in Range(disk[Snapshot]) : m >= n)
                                    => \E m \in Range(disk'[Snapshot]) : m >= n
      BY <3>1, <3>2
    <3>4. \A f \in Days : disk'[f] = disk[f] BY <1>0, <2>6 DEF Counts
    <3> QED BY <2>2, <2>3, <2>6, <3>3, <3>4 DEF Readable
  <2> QED BY <1>3, <2>4, <2>5, <2>6, Applied
<1>4. CASE Flushes BY <1>4, FlushesFrame, FlushedLines
<1>5. ASSUME NEW c \in Clients, Write(c) \/ WriteFileAtomic(c)
      PROVE  \A n \in 1..enqueued : Readable(n) => Readable(n)'
  <2>1. \A n \in 1..enqueued : file'[n] = file[n] BY <1>5, OfferedBy, Offered
  <2>2. UNCHANGED <<today, lost>> BY <1>5, Pruned
  <2>3. \A d : Expired(d)' <=> Expired(d) BY <2>2 DEF Expired
  <2>4. disk'[Snapshot] = disk[Snapshot] BY <1>0, <1>5, Pruned DEF Counts
  <2>5. \A f \in Days : disk'[f] = disk[f] \/ Expired(f) BY <1>0, <1>5, Pruned DEF Counts
  <2> QED BY <2>1, <2>2, <2>3, <2>4, <2>5 DEF Readable
<1> QED BY <1>1, <1>2, <1>3, <1>4, <1>5, Kinds

-----------------------------------------------------------------------------
(* The parts of the invariant, step by step.                                *)

\* Every step keeps the types.
LEMMA TypeStep == IInv /\ [Next]_vars => TypeOK'
<1> SUFFICES ASSUME IInv, [Next]_vars PROVE TypeOK'
    OBVIOUS
<1>0. Counts BY Numbers
<1> USE WriterAssumption DEF IInv, client, queue, round, sinks
<1>1. CASE Silent
  <2>1. CASE UNCHANGED vars BY <2>1 DEF vars, TypeOK
  <2>2. ASSUME NEW c \in Clients, Stamp(c) PROVE TypeOK'
    BY <2>2 DEF Stamp, TypeOK
  <2>3. ASSUME NEW c \in Clients, Close(c) PROVE TypeOK'
    BY <2>3 DEF Close, TypeOK
  <2>4. ASSUME NEW c \in Clients, FlushToDisk(c) PROVE TypeOK'
    <3>1. target' \in [Clients -> Nat] /\ diskReq' \in Nat
          /\ pc' \in [Clients -> {"idle", "stamped", "flush", "disk", "closed"}]
      BY <1>0, <2>4 DEF FlushToDisk, TypeOK, Counts
    <3>2. UNCHANGED <<today, curDay, day, mark, q, stop, enqueued, processed, diskDone,
                      round, sinks, file>>
      BY <2>4 DEF FlushToDisk
    <3> QED BY <3>1, <3>2 DEF TypeOK
  <2>5. ASSUME NEW c \in Clients, Closed(c) PROVE TypeOK'
    BY <2>5 DEF Closed, TypeOK
  <2>6. CASE Destroy BY <2>6 DEF Destroy, TypeOK
  <2>7. CASE Take
    <3>1. q' \in Seq(Nat) /\ Len(q') <= KMaxQueue BY <2>7 DEF Take
    <3> QED BY <2>7, <3>1 DEF Take, TypeOK
  <2>8. CASE Ack
    <3>1. batch' \in Seq(Nat) BY <2>8 DEF Ack
    <3>2. processed' \in Nat BY <1>0, <2>8 DEF Ack, Counts
    <3>3. wpc' \in {"final", "wait"} BY <2>8 DEF Ack
    <3>4. UNCHANGED <<today, curDay, client, q, stop, enqueued, diskReq, diskDone,
                      stopping, diskTarget, sinks, file>> /\ at' = 0
      BY <2>8 DEF Ack
    <3>5. {enqueued', processed', diskReq', diskDone', diskTarget', at'} \subseteq Nat
      BY <1>0, <3>2, <3>4 DEF Counts
    <3> QED BY <3>1, <3>3, <3>4, <3>5 DEF TypeOK
  <2> QED BY <1>1, <2>1, <2>2, <2>3, <2>4, <2>5, <2>6, <2>7, <2>8 DEF Silent
<1>2. CASE NewDay
  <2>1. today' \in Days BY <1>2 DEF NewDay, TypeOK, Days
  <2> QED BY <1>2, <2>1 DEF NewDay, TypeOK
<1>3. CASE Item
  <2>1. /\ buf' \in [Files -> Seq(Nat)] /\ disk' \in [Files -> Seq(Nat)]
        /\ UNCHANGED <<fp, today, file, enqueued>>
    BY <1>3, Applied
  <2>2. lost' \subseteq 1..enqueued /\ faults' \in 0..MaxFaults
    <3>1. Done + 1 \in 1..enqueued BY <1>3, NextItem
    <3>2. lost \subseteq 1..enqueued /\ faults \in 0..MaxFaults BY DEF TypeOK
    <3>3. CASE UNCHANGED <<lost, faults>> BY <3>2, <3>3
    <3>4. CASE lost' = lost \cup {Done + 1} /\ faults < MaxFaults /\ faults' = faults + 1
      <4>1. lost' \subseteq 1..enqueued BY <3>1, <3>2, <3>4
      <4>2. faults' \in 0..MaxFaults BY <3>2, <3>4
      <4> QED BY <4>1, <4>2
    <3> QED BY <1>3, <3>3, <3>4, Applied
  <2>3. at' \in Nat BY <1>0, <1>3 DEF Item, Counts
  <2>4. UNCHANGED <<curDay, client, queue, wpc, batch, stopping, diskTarget>> BY <1>3 DEF Item
  <2> QED BY <2>1, <2>2, <2>3, <2>4 DEF TypeOK
<1>4. CASE Flushes
  <2>1. PICK fs \in SUBSET Days : FlushSinks(fs) BY <1>4, FlushesFrame
  <2>2. /\ buf' \in [Files -> Seq(Nat)] /\ disk' \in [Files -> Seq(Nat)]
        /\ fp' \in [Files -> {"null", "open", "unlinked"}]
        /\ faults' \in 0..MaxFaults /\ lost' \subseteq 1..enqueued
    BY <2>1, Flushed
  <2>3. wpc' \in {"wait", "apply", "disk", "ack", "final", "exit"} /\ diskDone' \in Nat
    BY <1>0, <1>4 DEF Flushes, Threshold, Timed, DiskRound, Final, ToDisk, Counts
  <2> QED BY <1>4, <2>2, <2>3, FlushesFrame DEF TypeOK
<1>5. ASSUME NEW c \in Clients, Write(c) \/ WriteFileAtomic(c) PROVE TypeOK'
  <2>1. PICK f \in Files : Enqueue(f) BY <1>5, OfferedBy
  <2>2. /\ file' \in Seq(Files) /\ Len(file') = enqueued' /\ enqueued' \in {enqueued, enqueued + 1}
        /\ q' \in Seq(Nat) /\ Len(q') <= KMaxQueue
        /\ UNCHANGED <<stop, processed, diskReq, diskDone>>
    BY <2>1, Offered
  <2>3. /\ disk' \in [Files -> Seq(Nat)] /\ fp' \in [Files -> {"null", "open", "unlinked"}]
        /\ UNCHANGED <<today, buf, lost, faults, round>>
    BY <1>5, Pruned
  <2>4. /\ pc' \in [Clients -> {"idle", "stamped", "flush", "disk", "closed"}]
        /\ day' \in [Clients -> Days \cup {0}] /\ curDay' \in Days \cup {0}
        /\ target' \in [Clients -> Nat] /\ mark' \in [Clients -> Nat]
    <3>1. CASE Write(c) BY <3>1 DEF Write, TypeOK
    <3>2. CASE WriteFileAtomic(c) BY <3>2 DEF WriteFileAtomic, TypeOK
    <3> QED BY <1>5, <3>1, <3>2
  <2>5. enqueued' \in Nat /\ lost' \subseteq 1..enqueued'
    <3>1. lost \subseteq 1..enqueued BY DEF TypeOK
    <3> QED BY <1>0, <2>2, <2>3, <3>1 DEF Counts
  <2>6. {enqueued', processed', diskReq', diskDone', diskTarget', at'} \subseteq Nat
    BY <1>0, <2>2, <2>3, <2>5 DEF Counts
  <2>7. wpc' = wpc /\ batch' = batch /\ stop' = stop /\ stopping' = stopping BY <2>2, <2>3
  <2> QED BY <2>2, <2>3, <2>4, <2>5, <2>6, <2>7 DEF TypeOK
<1> QED BY <1>1, <1>2, <1>3, <1>4, <1>5, Kinds

\* The lines stay in order through the queue and the batch.
LEMMA QueueStep == IInv /\ [Next]_vars => QueueInv'
<1> SUFFICES ASSUME IInv, [Next]_vars PROVE QueueInv'
    OBVIOUS
<1>0. Counts BY Numbers
<1> USE DEF IInv, client, queue, round, sinks
<1>1. CASE UNCHANGED vars \/ NewDay \/ Destroy
         \/ \E c \in Clients : Stamp(c) \/ Close(c) \/ FlushToDisk(c) \/ Closed(c)
  <2>1. UNCHANGED <<processed, batch, q, enqueued, at, wpc>>
    BY <1>1 DEF vars, NewDay, Destroy, Stamp, Close, FlushToDisk, Closed
  <2> QED BY <2>1 DEF QueueInv
<1>2. CASE Take
  <2>1. q' = <<>> /\ batch' = q /\ at' = 0 /\ wpc' = "apply" /\ UNCHANGED <<enqueued, processed>>
    BY <1>2 DEF Take
  <2>2. batch = <<>> /\ at = 0 BY <1>2 DEF Take, QueueInv
  <2>3. Len(q') = 0 /\ Len(batch) = 0 BY <2>1, <2>2
  <2> QED BY <1>0, <2>1, <2>2, <2>3 DEF QueueInv, Counts
<1>3. CASE Ack
  <2>1. batch' = <<>> /\ at' = 0 /\ processed' = processed + Len(batch) /\ wpc' \in {"final", "wait"}
        /\ UNCHANGED <<q, enqueued>>
    BY <1>3 DEF Ack
  <2>2. Len(batch') = 0 BY <2>1
  <2> QED BY <1>0, <2>1, <2>2 DEF QueueInv, Counts
<1>4. CASE Item
  <2>1. at' = at + 1 /\ at < Len(batch) /\ wpc = "apply" /\ UNCHANGED <<processed, batch, q, enqueued, wpc>>
    BY <1>4 DEF Item
  <2> QED BY <1>0, <2>1 DEF QueueInv, Counts
<1>5. CASE Flushes
  <2>1. UNCHANGED <<processed, batch, q, enqueued, at>> BY <1>5, FlushesFrame
  <2>2. CASE wpc' \in {"disk", "ack"} /\ at = Len(batch) BY <2>1, <2>2 DEF QueueInv
  <2>3. CASE wpc' = "exit" /\ wpc = "final" BY <2>1, <2>3 DEF QueueInv
  <2> QED BY <1>5, <2>2, <2>3
          DEF Flushes, Threshold, Timed, DiskRound, Final, ToDisk, AfterBatch, QueueInv
<1>6. ASSUME NEW c \in Clients, Write(c) \/ WriteFileAtomic(c) PROVE QueueInv'
  <2>1. UNCHANGED <<batch, at, wpc>> BY <1>6, Pruned
  <2>2. PICK f \in Files : Enqueue(f) BY <1>6, OfferedBy
  <2>3. UNCHANGED processed /\ processed + Len(batch) + Len(q') = enqueued'
        /\ \A i \in 1..Len(q') : q'[i] = processed + Len(batch) + i
    BY <2>2, Offered
  <2> QED BY <2>1, <2>3 DEF QueueInv
<1> QED BY <1>1, <1>2, <1>3, <1>4, <1>5, <1>6, Kinds DEF Silent

\* Nobody writes once the destructor runs.
LEMMA StopStep == IInv /\ [Next]_vars => StopInv'
<1> SUFFICES ASSUME IInv, [Next]_vars PROVE StopInv'
    OBVIOUS
<1> USE DEF IInv, client, queue, round, sinks
<1>0. pc \in [Clients -> {"idle", "stamped", "flush", "disk", "closed"}] BY DEF TypeOK
<1>1. CASE UNCHANGED vars \/ NewDay
  BY <1>1 DEF vars, NewDay, StopInv
<1>2. CASE \E c \in Clients : Stamp(c) \/ Close(c)
  BY <1>2 DEF Stamp, Close, StopInv
<1>3. ASSUME NEW c \in Clients, FlushToDisk(c) \/ Closed(c) PROVE StopInv'
  <2>1. ~stop BY <1>3 DEF FlushToDisk, Closed, StopInv
  <2> QED BY <1>3, <2>1 DEF FlushToDisk, Closed, StopInv
<1>4. CASE Destroy BY <1>4 DEF Destroy, StopInv
<1>5. CASE Take BY <1>5 DEF Take, StopInv
<1>6. CASE Ack BY <1>6 DEF Ack, StopInv
<1>7. CASE Item BY <1>7 DEF Item, StopInv
<1>8. CASE Flushes
  <2>1. UNCHANGED <<stop, pc, stopping, q>> BY <1>8, FlushesFrame
  <2>2. wpc' # "wait" /\ (wpc' \in {"final", "exit"} => wpc = "final")
    BY <1>8 DEF Flushes, Threshold, Timed, DiskRound, Final, ToDisk
  <2> QED BY <2>1, <2>2 DEF StopInv
<1>9. ASSUME NEW c \in Clients, Write(c) \/ WriteFileAtomic(c) PROVE StopInv'
  <2>1. ~stop BY <1>9 DEF Write, WriteFileAtomic, StopInv
  <2>2. UNCHANGED <<stopping, wpc>> BY <1>9, Pruned
  <2>3. UNCHANGED stop BY <1>9, OfferedBy, Offered
  <2> QED BY <2>1, <2>2, <2>3 DEF StopInv
<1> QED BY <1>1, <1>2, <1>3, <1>4, <1>5, <1>6, <1>7, <1>8, <1>9, Kinds DEF Silent

\* Every handled line is readable or in its buffer, behind what its file already has.
LEMMA LineStep == IInv /\ [Next]_vars => LineInv'
<1> SUFFICES ASSUME IInv, [Next]_vars PROVE LineInv'
    OBVIOUS
<1>0. Counts BY Numbers
<1>k. \A n \in 1..Done : Readable(n) => Readable(n)' BY <1>0, ReadableKept DEF Counts
<1> USE DEF IInv
<1>1. CASE Silent
  <2>1. Quiet BY <1>1, SilentIsQuiet
  <2> QED BY <2>1 DEF Quiet, sinks, LineInv, Readable, Expired
<1>2. CASE NewDay
  <2>1. UNCHANGED <<file, disk, buf, fp, lost, Done>> /\ today' = today + 1
    BY <1>2 DEF NewDay, sinks, queue, round, Done
  <2>2. \A d \in Days : Expired(d) => Expired(d)'
    BY <1>0, <2>1, WriterAssumption DEF Expired, Counts, Days
  <2> QED BY <1>k, <2>1, <2>2 DEF LineInv
<1>3. CASE Item
  <2>0. PICK n : n = Done + 1 OBVIOUS
  <2>1. n \in 1..enqueued /\ file[n] \in Files /\ Done' = n BY <1>3, <2>0, NextItem
  <2>2. UNCHANGED <<fp, today, file, enqueued>> BY <1>3, Applied
  <2>3. \A d : Expired(d)' <=> Expired(d) BY <2>2 DEF Expired
  <2>4. \A m \in 1..Done' : m \in 1..Done \/ m = n BY <1>0, <2>0, <2>1 DEF Counts
  <2>4a. \A m \in 1..Done : m \in 1..Done' /\ m < n BY <1>0, <2>0, <2>1 DEF Counts
  <2>5. \A f \in Files : fp'[f] = "unlinked" => f \in Days /\ Expired(f)'
    BY <2>2, <2>3 DEF LineInv
  <2>6. CASE /\ file[n] \in Days /\ buf'[file[n]] = Append(buf[file[n]], n)
             /\ \A f \in Files \ {file[n]} : buf'[f] = buf[f]
             /\ UNCHANGED <<disk, lost>>
    <3>1. \A f \in Days : buf[f] \in Seq(Nat) /\ f \in Files BY <1>0 DEF TypeOK, Counts
    <3>2. n \in Nat BY <2>1
    <3>3. Range(buf'[file[n]]) = Range(buf[file[n]]) \cup {n}
      BY <2>6, <3>1, <3>2, RangeAppend
    <3>4. \A f \in Days : Range(buf[f]) \subseteq 1..Done BY DEF LineInv
    <3>5. Increasing(buf'[file[n]])
      <4>1. \A m \in Range(buf[file[n]]) : m < n BY <2>4a, <2>6, <3>4
      <4>2. Increasing(buf[file[n]]) BY <2>6 DEF LineInv
      <4> QED BY <2>6, <3>1, <3>2, <4>1, <4>2, IncreasingAppend
    <3>6. \A m \in 1..Done' : Readable(m)' \/ (file'[m] \in Days /\ m \in Range(buf'[file'[m]]))
      <4> SUFFICES ASSUME NEW m \in 1..Done'
                   PROVE  Readable(m)' \/ (file'[m] \in Days /\ m \in Range(buf'[file'[m]]))
          OBVIOUS
      <4>1. CASE m = n BY <2>2, <2>6, <3>3, <4>1
      <4>2. CASE m \in 1..Done
        <5>1. Readable(m) \/ (file[m] \in Days /\ m \in Range(buf[file[m]])) BY <4>2 DEF LineInv
        <5>2. \A f \in Days : Range(buf[f]) \subseteq Range(buf'[f]) BY <2>6, <3>1, <3>3
        <5> QED BY <1>k, <2>2, <4>2, <5>1, <5>2
      <4> QED BY <2>4, <4>1, <4>2
    <3>7. \A f \in Files : Range(disk'[f]) \subseteq 1..Done' BY <2>4a, <2>6 DEF LineInv
    <3>8. ASSUME NEW f \in Days
          PROVE  /\ Increasing(disk'[f]) /\ Increasing(buf'[f])
                 /\ \A a \in Range(disk'[f]), b \in Range(buf'[f]) : a < b
                 /\ \A b \in Range(buf'[f]) : b \in 1..Done' /\ file'[b] = f
      <4>1. /\ Increasing(disk[f]) /\ Increasing(buf[f]) /\ Range(disk[f]) \subseteq 1..Done
            /\ \A a \in Range(disk[f]), b \in Range(buf[f]) : a < b
            /\ \A b \in Range(buf[f]) : b \in 1..Done /\ file[b] = f
        BY <3>1 DEF LineInv
      <4>2. CASE f # file[n]
        <5>1. buf'[f] = buf[f] /\ disk'[f] = disk[f] BY <2>6, <3>1, <4>2
        <5> QED BY <2>2, <2>4a, <4>1, <5>1
      <4>3. CASE f = file[n]
        <5>1. disk'[f] = disk[f] BY <2>6
        <5>2. n \in 1..Done' BY <2>1
        <5> QED BY <2>2, <2>4a, <3>3, <3>5, <4>1, <4>3, <5>1, <5>2
      <4> QED BY <4>2, <4>3
    <3> QED BY <2>5, <3>6, <3>7, <3>8 DEF LineInv
  <2>7. CASE /\ file[n] = Snapshot /\ UNCHANGED buf
             /\ \A f \in Days : disk'[f] = disk[f]
             /\ Range(disk'[Snapshot]) \subseteq 1..n /\ Readable(n)'
    <3>1. \A m \in 1..Done' : Readable(m)' \/ (file'[m] \in Days /\ m \in Range(buf'[file'[m]]))
      BY <1>k, <2>2, <2>4, <2>7 DEF LineInv
    <3>2. \A f \in Files : Range(disk'[f]) \subseteq 1..Done'
      BY <2>1, <2>4a, <2>7 DEF LineInv, Files
    <3>3. \A f \in Days :
             /\ Increasing(disk'[f]) /\ Increasing(buf'[f])
             /\ \A a \in Range(disk'[f]), b \in Range(buf'[f]) : a < b
             /\ \A b \in Range(buf'[f]) : b \in 1..Done' /\ file'[b] = f
      BY <2>2, <2>4a, <2>7 DEF LineInv
    <3> QED BY <2>5, <3>1, <3>2, <3>3 DEF LineInv
  <2>8. CASE /\ file[n] = Snapshot /\ disk'[Snapshot] = <<n>>
             /\ \A f \in Files \ {Snapshot} : disk'[f] = disk[f]
             /\ UNCHANGED <<buf, lost>>
    <3>1. Range(disk'[Snapshot]) = {n} BY <2>8 DEF Range
    <3>2. Readable(n)' BY <2>1, <2>2, <2>8, <3>1 DEF Readable
    <3>3. \A f \in Days : disk'[f] = disk[f] BY <1>0, <2>8 DEF Counts
    <3> QED BY <2>1, <2>7, <2>8, <3>1, <3>2, <3>3
  <2>9. CASE file[n] = Snapshot /\ lost' = lost \cup {n} /\ UNCHANGED <<buf, disk>>
    <3>1. Readable(n)' BY <2>9 DEF Readable
    <3>2. Range(disk[Snapshot]) \subseteq 1..n BY <1>0, <2>1, <2>4a DEF LineInv, Counts
    <3> QED BY <2>7, <2>9, <3>1, <3>2
  <2> QED BY <1>3, <2>0, <2>6, <2>8, <2>9, Applied
<1>4. CASE Flushes
  <2>1. UNCHANGED <<today, file, Done>> BY <1>4, FlushesFrame
  <2>2. PICK fs \in SUBSET Days : FlushSinks(fs) BY <1>4, FlushesFrame
  <2>3. \A d : Expired(d)' <=> Expired(d) BY <2>1 DEF Expired
  <2>4. \A f \in Files : fp'[f] = "unlinked" => f \in Days /\ Expired(f)'
    BY <2>2, <2>3, Flushed DEF LineInv
  <2>5. ASSUME NEW n \in 1..Done
        PROVE  Readable(n)' \/ (file[n] \in Days /\ n \in Range(buf'[file[n]]))
    <3>1. CASE Readable(n) BY <1>k, <3>1
    <3>2. CASE file[n] \in fs /\ n \in Range(buf[file[n]]) BY <2>1, <2>2, <3>2, FlushedLines
    <3>3. CASE file[n] \in Days \ fs /\ n \in Range(buf[file[n]])
      <4>1. buf'[file[n]] = buf[file[n]] BY <1>0, <2>2, <3>3, Flushed DEF Counts
      <4> QED BY <3>3, <4>1
    <3> QED BY <3>1, <3>2, <3>3 DEF LineInv
  <2>6. ASSUME NEW f \in Files
        PROVE  \/ buf'[f] = buf[f] /\ disk'[f] = disk[f]
               \/ f \in Days /\ buf'[f] = <<>> /\ disk'[f] = disk[f] \o buf[f]
               \/ f \in Days /\ buf'[f] = <<>> /\ disk'[f] = disk[f]
    BY <2>2, Flushed
  <2>7. ASSUME NEW f \in Files
        PROVE  /\ Range(disk'[f]) \subseteq 1..Done
               /\ f \in Days =>
                    /\ Increasing(disk'[f]) /\ Increasing(buf'[f])
                    /\ \A a \in Range(disk'[f]), b \in Range(buf'[f]) : a < b
                    /\ \A b \in Range(buf'[f]) : b \in 1..Done /\ file[b] = f
    <3>1. /\ Range(disk[f]) \subseteq 1..Done
          /\ f \in Days =>
               /\ Increasing(disk[f]) /\ Increasing(buf[f])
               /\ \A a \in Range(disk[f]), b \in Range(buf[f]) : a < b
               /\ \A b \in Range(buf[f]) : b \in 1..Done /\ file[b] = f
      BY DEF LineInv
    <3>2. buf[f] \in Seq(Nat) /\ disk[f] \in Seq(Nat) BY DEF TypeOK
    <3>3. Range(<<>>) = {} /\ Increasing(<<>>) BY DEF Range, Increasing
    <3>4. CASE buf'[f] = buf[f] /\ disk'[f] = disk[f] BY <3>1, <3>4
    <3>5. CASE f \in Days /\ buf'[f] = <<>> /\ disk'[f] = disk[f] \o buf[f]
      <4>1. Range(disk'[f]) = Range(disk[f]) \cup Range(buf[f]) BY <3>2, <3>5, RangeConcat
      <4>2. Increasing(disk'[f]) BY <3>1, <3>2, <3>5, IncreasingConcat
      <4> QED BY <3>1, <3>3, <3>5, <4>1, <4>2
    <3>6. CASE f \in Days /\ buf'[f] = <<>> /\ disk'[f] = disk[f] BY <3>1, <3>3, <3>6
    <3> QED BY <2>6, <3>4, <3>5, <3>6
  <2>8. Days \subseteq Files BY <1>0 DEF Counts
  <2> QED BY <2>1, <2>4, <2>5, <2>7, <2>8 DEF LineInv
<1>5. ASSUME NEW c \in Clients, Write(c) \/ WriteFileAtomic(c) PROVE LineInv'
  <2>1. \A n \in 1..enqueued : file'[n] = file[n] BY <1>5, OfferedBy, Offered
  <2>2. Done' = Done /\ UNCHANGED <<today, buf, lost>>
    BY <1>5, Pruned, OfferedBy, Offered DEF Done, round
  <2>3. \A d : Expired(d)' <=> Expired(d) BY <2>2 DEF Expired
  <2>4. \A n \in 1..Done : n \in 1..enqueued BY <1>0 DEF Counts
  <2>5. \A f \in Files : disk'[f] = disk[f] \/ disk'[f] = <<>> BY <1>5, Pruned
  <2>6. Range(<<>>) = {} /\ Increasing(<<>>) BY DEF Range, Increasing
  <2>7. \A n \in 1..Done : Readable(n)' \/ (file'[n] \in Days /\ n \in Range(buf'[file'[n]]))
    BY <1>k, <2>1, <2>2, <2>4 DEF LineInv
  <2>8. \A f \in Files : Range(disk'[f]) \subseteq 1..Done BY <2>5, <2>6 DEF LineInv
  <2>9. Days \subseteq Files BY <1>0 DEF Counts
  <2>10. \A f \in Days :
            /\ Increasing(disk'[f]) /\ Increasing(buf'[f])
            /\ \A a \in Range(disk'[f]), b \in Range(buf'[f]) : a < b
            /\ \A b \in Range(buf'[f]) : b \in 1..Done /\ file'[b] = f
    BY <2>1, <2>2, <2>4, <2>5, <2>6, <2>9 DEF LineInv
  <2>11. \A f \in Files : fp'[f] = "unlinked" => f \in Days /\ Expired(f)'
    BY <1>5, <2>3, Pruned DEF LineInv
  <2> QED BY <2>2, <2>7, <2>8, <2>10, <2>11 DEF LineInv
<1> QED BY <1>1, <1>2, <1>3, <1>4, <1>5, Kinds

\* After a flush of every buffer all handled lines can be read.
LEMMA AllFlushed ==
    ASSUME IInv, FlushSinks(Days), UNCHANGED <<today, file>>
    PROVE  \A n \in 1..Done : Readable(n)'
<1>1. Counts BY Numbers
<1>2. \A n \in 1..Done : n \in 1..enqueued BY <1>1 DEF Counts
<1> QED BY <1>2, FlushedLines DEF IInv, LineInv

\* An answered request covers the lines of its close().
LEMMA CloseStep == IInv /\ [Next]_vars => CloseInv'
<1> SUFFICES ASSUME IInv, [Next]_vars PROVE CloseInv'
    OBVIOUS
<1>0. Counts BY Numbers
<1>k. \A n \in 1..enqueued : Readable(n) => Readable(n)' BY ReadableKept
<1> USE DEF IInv, client, queue, round, sinks
<1>t. /\ pc \in [Clients -> {"idle", "stamped", "flush", "disk", "closed"}]
      /\ day \in [Clients -> Days \cup {0}]
      /\ target \in [Clients -> Nat] /\ mark \in [Clients -> Nat]
  BY DEF TypeOK
<1>m. \A c \in Clients : \A n \in 1..mark[c] : n \in 1..enqueued
  BY <1>0, <1>t DEF CloseInv, Counts
<1>1. CASE /\ UNCHANGED <<client, enqueued, diskReq, diskDone>>
           /\ diskTarget' \in {diskTarget, diskReq}
           /\ processed' \in {processed, processed + Len(batch)}
  <2>1. \A c \in Clients : mark[c] <= processed => mark[c] <= processed'
    BY <1>0, <1>1, <1>t DEF Counts
  <2>2. diskTarget' <= diskReq' /\ diskDone' <= diskReq' BY <1>0, <1>1 DEF CloseInv, Counts
  <2> QED BY <1>1, <1>k, <1>m, <2>1, <2>2 DEF CloseInv
<1>2. CASE DiskRound
  <2>1. UNCHANGED <<today, file, client, enqueued, processed, diskReq, diskTarget>>
        /\ diskDone' = diskTarget /\ FlushSinks(Days)
    BY <1>2 DEF DiskRound
  <2>2. \A n \in 1..Done : Readable(n)' BY <2>1, AllFlushed
  <2>3. ASSUME NEW c \in Clients, pc[c] = "disk" PROVE \A n \in 1..mark[c] : Readable(n)'
    <3>1. mark[c] <= processed /\ mark[c] \in Nat BY <1>t, <2>3 DEF CloseInv
    <3>2. \A n \in 1..mark[c] : n \in 1..Done BY <1>0, <3>1 DEF Counts, Done
    <3> QED BY <2>2, <3>2
  <2> QED BY <1>k, <1>m, <2>1, <2>3 DEF CloseInv
\* Steps of one client leave the others as they are.
<1>3. ASSUME NEW c \in Clients, Stamp(c) PROVE CloseInv'
  <2>1. today \in Days BY DEF TypeOK
  <2>2. /\ pc' = [pc EXCEPT ![c] = "stamped"] /\ day' = [day EXCEPT ![c] = today]
        /\ mark' = [mark EXCEPT ![c] = 0]
        /\ UNCHANGED <<target, enqueued, processed, diskReq, diskDone, diskTarget>>
    BY <1>3 DEF Stamp
  <2> QED BY <1>0, <1>k, <1>m, <1>t, <2>1, <2>2 DEF CloseInv, Counts
<1>4. ASSUME NEW c \in Clients, Close(c) PROVE CloseInv'
  <2>1. /\ pc' = [pc EXCEPT ![c] = "flush"] /\ target' = [target EXCEPT ![c] = enqueued]
        /\ mark' = [mark EXCEPT ![c] = enqueued]
        /\ UNCHANGED <<day, enqueued, processed, diskReq, diskDone, diskTarget>>
    BY <1>4 DEF Close
  <2> QED BY <1>0, <1>k, <1>m, <1>t, <2>1 DEF CloseInv, Counts
<1>5. ASSUME NEW c \in Clients, FlushToDisk(c) PROVE CloseInv'
  <2>1. /\ pc' = [pc EXCEPT ![c] = "disk"] /\ target' = [target EXCEPT ![c] = diskReq + 1]
        /\ diskReq' = diskReq + 1 /\ pc[c] = "flush"
        /\ UNCHANGED <<day, mark, enqueued, processed, diskDone, diskTarget>>
    BY <1>5 DEF FlushToDisk
  <2>2. processed >= target[c] BY <1>5 DEF FlushToDisk, StopInv
  <2>3. mark[c] <= processed BY <2>1, <2>2 DEF CloseInv
  <2>4. ~(diskReq + 1 <= diskDone) /\ diskTarget <= diskReq + 1 /\ diskDone <= diskReq + 1
    BY <1>0 DEF CloseInv, Counts
  <2> QED BY <1>k, <1>m, <1>t, <2>1, <2>3, <2>4 DEF CloseInv
<1>6. ASSUME NEW c \in Clients, Closed(c) PROVE CloseInv'
  <2>1. /\ pc' = [pc EXCEPT ![c] = "closed"] /\ target' = [target EXCEPT ![c] = 0]
        /\ pc[c] = "disk"
        /\ UNCHANGED <<day, mark, enqueued, processed, diskReq, diskDone, diskTarget>>
    BY <1>6 DEF Closed
  <2>2. target[c] <= diskDone BY <1>6 DEF Closed, StopInv
  <2>3. \A n \in 1..mark[c] : Readable(n) BY <2>1, <2>2 DEF CloseInv
  <2> QED BY <1>k, <1>m, <1>t, <2>1, <2>3 DEF CloseInv
<1>7. ASSUME NEW c \in Clients, Write(c) \/ WriteFileAtomic(c) PROVE CloseInv'
  <2>1. UNCHANGED <<processed, diskReq, diskDone>> /\ enqueued' \in {enqueued, enqueued + 1}
    BY <1>7, OfferedBy, Offered
  <2>2. UNCHANGED <<target, diskTarget>> /\ pc' = [pc EXCEPT ![c] = "idle"]
    BY <1>7 DEF Write, WriteFileAtomic
  <2>3. \A d \in Clients : /\ d # c => day'[d] = day[d] /\ mark'[d] = mark[d]
                           /\ mark'[c] \in {0, mark[c]}
    BY <1>7, <1>t DEF Write, WriteFileAtomic
  <2>4. \A d \in Clients : mark'[d] <= enqueued'
    BY <1>0, <1>t, <2>1, <2>3 DEF CloseInv, Counts
  <2> QED BY <1>k, <1>m, <1>t, <2>1, <2>2, <2>3, <2>4 DEF CloseInv
<1>8. CASE UNCHANGED vars \/ NewDay \/ Destroy \/ Take \/ Ack \/ Item \/ Threshold \/ Timed \/ Final
  BY <1>1, <1>8 DEF vars, NewDay, Destroy, Take, Ack, Item, Threshold, Timed, Final
<1> QED BY <1>2, <1>3, <1>4, <1>5, <1>6, <1>7, <1>8 DEF Next, Writer

-----------------------------------------------------------------------------
(* The results.                                                             *)

\* The invariant holds at the start.
LEMMA Initially == Init => IInv
<1> SUFFICES ASSUME Init PROVE IInv
    OBVIOUS
<1> USE WriterAssumption DEF Init
<1>1. <<>> \in Seq(Nat) /\ <<>> \in Seq(Files) /\ Len(<<>>) = 0 OBVIOUS
<1>2. Range(<<>>) = {} /\ Increasing(<<>>) BY DEF Range, Increasing
<1>3. TypeOK
  <2>1. today \in Days /\ curDay \in Days \cup {0} BY DEF Days
  <2>2. buf \in [Files -> Seq(Nat)] /\ disk \in [Files -> Seq(Nat)] BY <1>1
  <2>3. fp \in [Files -> {"null", "open", "unlinked"}] OBVIOUS
  <2>4. /\ pc \in [Clients -> {"idle", "stamped", "flush", "disk", "closed"}]
        /\ day \in [Clients -> Days \cup {0}]
        /\ target \in [Clients -> Nat] /\ mark \in [Clients -> Nat]
    OBVIOUS
  <2>5. {stop, stopping} \subseteq BOOLEAN OBVIOUS
  <2>6. {enqueued, processed, diskReq, diskDone, diskTarget, at} \subseteq Nat OBVIOUS
  <2>7. q \in Seq(Nat) /\ batch \in Seq(Nat) /\ file \in Seq(Files) BY <1>1
  <2>8. Len(q) <= KMaxQueue /\ Len(file) = enqueued BY <1>1
  <2>9. lost \subseteq 1..enqueued /\ faults \in 0..MaxFaults
        /\ wpc \in {"wait", "apply", "disk", "ack", "final", "exit"}
    OBVIOUS
  <2> HIDE DEF Init
  <2> QED BY <2>1, <2>2, <2>3, <2>4, <2>5, <2>6, <2>7, <2>8, <2>9 DEF TypeOK
<1>4. QueueInv BY <1>1 DEF QueueInv
<1>5. StopInv BY DEF StopInv
<1>6. LineInv
  <2>1. Done = 0 BY DEF Done
  <2>2. Days \subseteq Files BY DEF Files
  <2>3. \A f \in Files : disk[f] = <<>> /\ buf[f] = <<>> /\ fp[f] = "null" OBVIOUS
  <2>4. \A f \in Days :
          /\ Increasing(disk[f]) /\ Increasing(buf[f])
          /\ \A m \in Range(disk[f]), n \in Range(buf[f]) : m < n
          /\ \A n \in Range(buf[f]) : n \in 1..Done /\ file[n] = f
    BY <1>2, <2>2, <2>3
  <2>5. \A n \in 1..Done : FALSE BY <2>1
  <2> QED BY <1>2, <2>3, <2>4, <2>5 DEF LineInv
<1>7. CloseInv BY DEF CloseInv
<1> QED BY <1>3, <1>4, <1>5, <1>6, <1>7 DEF IInv

\* Every reachable state satisfies the inductive invariant.
LEMMA Inductive == Spec => []IInv
<1>1. IInv /\ [Next]_vars => IInv'
  BY TypeStep, QueueStep, StopStep, LineStep, CloseStep DEF IInv
<1> QED BY <1>1, Initially, PTL DEF Spec

\* Types, the queue bound kMaxQueue, and file ghosts that number the accepted lines
\* (background_writer.hpp).
THEOREM TypeCorrect == Spec => []TypeOK
<1>1. IInv => TypeOK BY DEF IInv
<1> QED BY <1>1, Inductive, PTL

\* close() returned: its lines are on the disk, however many threads write, close and
\* wait at once (event_log.hpp, background_writer.cpp).
THEOREM CloseIsDurable == Spec => []CloseDurable
<1>1. IInv => CloseDurable BY DEF IInv, CloseInv, CloseDurable
<1> QED BY <1>1, Inductive, PTL

\* A crash in any state leaves files without holes and without duplicates
\* (background_writer.cpp: one writer thread, buffers flushed whole).
THEOREM CrashLeavesPrefix == Spec => []CrashPrefix
<1>1. IInv => CrashPrefix
  <2> SUFFICES ASSUME IInv, NEW f \in Days
               PROVE  /\ \A i, j \in DOMAIN disk[f] : i < j => disk[f][i] < disk[f][j]
                      /\ \A n \in 1..enqueued :
                           (file[n] = f /\ \E m \in Range(disk[f]) : n < m) => Readable(n)
      BY DEF CrashPrefix
  <2>0. Counts BY Numbers
  <2> USE DEF IInv
  <2>1. f \in Files BY <2>0 DEF Counts
  <2>2. Increasing(disk[f]) BY DEF LineInv
  <2>3. ASSUME NEW n \in 1..enqueued, file[n] = f, NEW m \in Range(disk[f]), n < m
        PROVE  Readable(n)
    <3>1. n \in 1..Done BY <2>0, <2>1, <2>3 DEF LineInv, Counts
    <3>2. n \notin Range(buf[f])
      <4> SUFFICES ASSUME n \in Range(buf[f]) PROVE FALSE
          OBVIOUS
      <4>1. m < n BY DEF LineInv
      <4>2. m \in 1..Done BY <2>1 DEF LineInv
      <4> QED BY <2>0, <2>3, <4>1, <4>2 DEF Counts
    <3> QED BY <2>3, <3>1, <3>2 DEF LineInv
  <2> QED BY <2>2, <2>3 DEF Increasing
<1> QED BY <1>1, Inductive, PTL

-----------------------------------------------------------------------------
(* Refinement of DurableLog.                                                *)

\* The lines that are settled stay settled.
LEMMA SettledGrows ==
    ASSUME IInv, [Next]_vars, enqueued' = enqueued
    PROVE  Settled \subseteq Settled' /\ Settled' \in SUBSET (1..enqueued)
BY ReadableKept DEF Settled

\* A step that accepts nothing, answers nobody and does not end the writer lets at most
\* some lines settle.
LEMMA SettleStep ==
    ASSUME IInv, [Next]_vars, Alive, Alive', enqueued' = enqueued, Asked' = Asked
    PROVE  Log!Settle
<1>1. Settled \subseteq Settled' /\ Settled' \in SUBSET (1..enqueued) BY SettledGrows
<1> QED BY <1>1 DEF Log!Settle, Alive

\* A write changes no line but the one it adds.
LEMMA SettledByWrite ==
    ASSUME IInv, NEW c \in Clients, Write(c) \/ WriteFileAtomic(c), enqueued' = enqueued + 1
    PROVE  Settled' \in {Settled, Settled \cup {enqueued + 1}}
<1>0. Counts BY Numbers
<1> USE DEF IInv
<1>1. \A n \in 1..enqueued : file'[n] = file[n] BY OfferedBy, Offered
<1>2. UNCHANGED <<today, lost>> BY Pruned
<1>3. \A d : Expired(d)' <=> Expired(d) BY <1>2 DEF Expired
<1>4. disk'[Snapshot] = disk[Snapshot] BY <1>0, Pruned DEF Counts
<1>5. \A f \in Days : disk'[f] = disk[f] \/ Expired(f) BY <1>0, Pruned DEF Counts
<1>6. \A n \in 1..enqueued : Readable(n)' <=> Readable(n)
  BY <1>1, <1>2, <1>3, <1>4, <1>5 DEF Readable
<1>7. PICK k : k = enqueued + 1 OBVIOUS
<1>8. 1..enqueued' = 1..enqueued \cup {k} BY <1>0, <1>7 DEF Counts
<1>9. CASE Readable(k)'
  <2>1. Settled' = Settled \cup {k} BY <1>6, <1>8, <1>9 DEF Settled
  <2> QED BY <1>7, <2>1
<1>10. CASE ~Readable(k)'
  <2>1. Settled' = Settled BY <1>6, <1>8, <1>10 DEF Settled
  <2> QED BY <2>1
<1> QED BY <1>9, <1>10

\* Every step of the writer and its clients is a step of DurableLog, or changes nothing
\* it speaks of.
LEMMA RefinementStep == IInv /\ [Next]_vars => [Log!DNext]_(Log!dvars)
<1> SUFFICES ASSUME IInv, [Next]_vars PROVE [Log!DNext]_(Log!dvars)
    OBVIOUS
<1>0. Counts BY Numbers
<1>t. /\ pc \in [Clients -> {"idle", "stamped", "flush", "disk", "closed"}]
      /\ mark \in [Clients -> Nat]
  BY DEF IInv, TypeOK
<1> USE DEF client, queue, round, sinks
<1>s. ASSUME Log!Settle PROVE [Log!DNext]_(Log!dvars) BY <1>s DEF Log!DNext
<1>1. CASE UNCHANGED vars
  BY <1>1 DEF vars, Log!dvars, Settled, Asked, Alive, Readable, Expired
<1>2. CASE NewDay \/ Destroy
  <2>1. Alive /\ Alive' /\ enqueued' = enqueued /\ Asked' = Asked
    BY <1>2 DEF NewDay, Destroy, Alive, Asked
  <2> QED BY <1>s, <2>1, SettleStep
<1>3. CASE Take \/ Item \/ Threshold \/ Timed \/ DiskRound \/ Ack
  <2>1. UNCHANGED client /\ enqueued' = enqueued
    BY <1>3 DEF Take, Item, Threshold, Timed, DiskRound, Ack
  <2>2. Alive /\ Alive'
    BY <1>3 DEF Take, Item, Threshold, Timed, DiskRound, Ack, Alive, AfterBatch, ToDisk
  <2>3. Asked' = Asked BY <2>1 DEF Asked
  <2> QED BY <1>s, <2>1, <2>2, <2>3, SettleStep
<1>4. CASE Final
  <2>1. FlushSinks(Days) /\ wpc = "final" /\ wpc' = "exit"
        /\ UNCHANGED <<today, file, client, enqueued>>
    BY <1>4 DEF Final
  <2>2. Done = enqueued
    <3>1. q = <<>> /\ batch = <<>> /\ at = 0
      BY <2>1 DEF IInv, StopInv, QueueInv
    <3>2. Len(q) = 0 /\ Len(batch) = 0 BY <3>1
    <3> QED BY <1>0, <3>1, <3>2 DEF IInv, QueueInv, Done, Counts
  <2>3. \A n \in 1..enqueued : Readable(n)' BY <2>1, <2>2, AllFlushed
  <2>4. Settled' = 1..enqueued BY <2>1, <2>3 DEF Settled
  <2>5. Asked' = Asked BY <2>1 DEF Asked
  <2>6. Log!Stop BY <2>1, <2>4, <2>5 DEF Log!Stop, Alive
  <2> QED BY <2>6 DEF Log!DNext
<1>5. ASSUME NEW c \in Clients, Stamp(c) \/ FlushToDisk(c) PROVE [Log!DNext]_(Log!dvars)
  <2>1. Alive /\ Alive' /\ enqueued' = enqueued
    BY <1>5 DEF Stamp, FlushToDisk, Alive
  <2>2. Asked' = Asked
    BY <1>5, <1>t DEF Stamp, FlushToDisk, Asked
  <2> QED BY <1>s, <2>1, <2>2, SettleStep
<1>6. ASSUME NEW c \in Clients, Close(c) PROVE [Log!DNext]_(Log!dvars)
  <2>1. Alive /\ Alive' /\ UNCHANGED <<today, file, disk, lost, enqueued>> BY <1>6 DEF Close, Alive
  <2>2. Settled' = Settled BY <2>1 DEF Settled, Readable, Expired
  <2>3. ~Asked[c].open BY <1>6 DEF Close, Asked
  <2>4. Asked' = [Asked EXCEPT ![c] = [open |-> TRUE, upto |-> enqueued]]
    BY <1>6, <1>t DEF Close, Asked
  <2>5. Log!Ask(c) BY <2>1, <2>2, <2>3, <2>4 DEF Log!Ask, Alive
  <2> QED BY <2>5 DEF Log!DNext
<1>7. ASSUME NEW c \in Clients, Closed(c) PROVE [Log!DNext]_(Log!dvars)
  <2>1. Alive /\ Alive' /\ UNCHANGED <<today, file, disk, lost, enqueued>> BY <1>7 DEF Closed, Alive
  <2>2. Settled' = Settled BY <2>1 DEF Settled, Readable, Expired
  <2>3. Asked[c] = [open |-> TRUE, upto |-> mark[c]] BY <1>7 DEF Closed, Asked
  <2>4. Asked' = [Asked EXCEPT ![c] = [open |-> FALSE, upto |-> 0]]
    BY <1>7, <1>t DEF Closed, Asked
  <2>5. target[c] <= diskDone /\ pc[c] = "disk" BY <1>7 DEF Closed, IInv, StopInv
  <2>6. 1..mark[c] \subseteq Settled
    <3>1. \A n \in 1..mark[c] : Readable(n) BY <2>5 DEF IInv, CloseInv
    <3>2. mark[c] <= enqueued /\ mark[c] \in Nat BY <1>t DEF IInv, CloseInv
    <3> QED BY <1>0, <3>1, <3>2 DEF Settled, Counts
  <2>7. Log!Answer(c) BY <2>1, <2>2, <2>3, <2>4, <2>6 DEF Log!Answer, Log!NotAsking, Alive
  <2> QED BY <2>7 DEF Log!DNext
<1>8. ASSUME NEW c \in Clients, Write(c) \/ WriteFileAtomic(c) PROVE [Log!DNext]_(Log!dvars)
  <2>1. Alive /\ Alive' BY <1>8 DEF Write, WriteFileAtomic, Alive
  <2>2. Asked' = Asked
    <3>1. CASE Write(c) BY <1>t, <3>1 DEF Write, Asked
    <3>2. CASE WriteFileAtomic(c) BY <1>t, <3>2 DEF WriteFileAtomic, Asked
    <3> QED BY <1>8, <3>1, <3>2
  <2>3. CASE enqueued' = enqueued BY <1>s, <2>1, <2>2, <2>3, SettleStep
  <2>4. CASE enqueued' = enqueued + 1
    <3>1. Settled' \in {Settled, Settled \cup {enqueued + 1}} BY <1>8, <2>4, SettledByWrite
    <3>2. Log!Accept BY <2>1, <2>2, <2>4, <3>1 DEF Log!Accept, Alive
    <3> QED BY <3>2 DEF Log!DNext
  <2> QED BY <1>8, <2>3, <2>4, OfferedBy, Offered
<1> QED BY <1>1, <1>2, <1>3, <1>4, <1>5, <1>6, <1>7, <1>8 DEF Next, Writer

\* The queue, the batches, the per-file buffers and the two counters of close()
\* implement the promise of DurableLog, for every number of threads and lines; the
\* destructor included (background_writer.cpp, event_log.hpp).
THEOREM Refinement == Spec => ImplementsDurableLog
<1>1. Init => Log!DInit
  BY DEF Init, Log!DInit, Log!NotAsking, Settled, Asked, Alive
<1> QED BY <1>1, RefinementStep, Inductive, PTL DEF Spec, ImplementsDurableLog, Log!DSpec
=============================================================================
