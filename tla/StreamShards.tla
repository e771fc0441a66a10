---------------------------- MODULE StreamShards ----------------------------
(* streams/manager.cpp: the records of one stream and the shard iterators    *)
(* that read them.  Which streams exist, and which is a table's active one,  *)
(* is module TableLifecycle's subject; a stream once made is never dropped.  *)
(*                                                                           *)
(* records is a deque: append_record numbers a record by the deque's length, *)
(* pushes it, and then pops what is older than the retention.  An iterator   *)
(* is an index into the deque; nothing adjusts it when the front is popped.  *)
EXTENDS Integers, Sequences, FiniteSetsExt

CONSTANTS
    Writers,            \* threads in append_record
    Iterators,          \* iterator ids that create_shard_iterator may draw
    Limits,             \* values of GetRecords' Limit
    Retention,          \* 86400 seconds
    IteratorLifetime,   \* 15 minutes
    Garbage,            \* what a read beyond the deque's end may yield
    MaxAppends, MaxTime, MaxSteps,  \* bounds: appends, clock values, clock corrections
    MaxReads                        \* bound: calls of get_records

VARIABLES
    records,    \* the deque: [sequence_number, time, change]
    writing,    \* the date of the record a writer has built but not appended, if any
    iterators_, \* [record_index, expires_at] of each open iterator
    wall,       \* system_clock, in seconds; an operator may set it back
    steady,     \* steady_clock
    steps, reads,
    down,       \* the process died of a read out of range
    appended,   \* history: every record ever appended, in order
    reading     \* history: per iterator, where it started and what it returned

streamVars == <<records, writing, iterators_, wall, steady, steps, reads, down, appended, reading>>

SizeT == 256    \* stands for 2^64: larger than any length or time that occurs

StreamInit ==
    /\ records = <<>>
    /\ writing = [w \in Writers |-> {}]
    /\ iterators_ = [i \in {} |-> 0]
    /\ wall = 1
    /\ steady = 1
    /\ steps = 0
    /\ reads = 0
    /\ down = FALSE
    /\ appended = <<>>
    /\ reading = [i \in {} |-> 0]

-----------------------------------------------------------------------------
\* append_record up to the second lock: the record is built and dated.
BuildRecord(w) ==
    /\ ~down
    /\ writing[w] = {}
    /\ Len(appended) + Cardinality({v \in Writers : writing[v] # {}}) < MaxAppends
    /\ writing' = [writing EXCEPT ![w] = {wall}]
    /\ UNCHANGED <<records, iterators_, wall, steady, steps, reads, down, appended, reading>>

\* The age is a difference of unsigned numbers.
Old(record, now_s) == (now_s - record.time) % SizeT > Retention

Purged(deque, now_s) ==
    LET young == {i \in DOMAIN deque : ~Old(deque[i], now_s)}
    IN  IF young = {} THEN <<>> ELSE SubSeq(deque, Min(young), Len(deque))

\* append_record under the stream's records_mutex.
AppendRecord(w) ==
    \E built \in writing[w] :
        LET record == [sequence_number |-> Len(records) + 1, time |-> built,
                       change |-> Len(appended) + 1]
        IN  /\ ~down
            /\ records' = Purged(Append(records, record), wall)
            /\ appended' = Append(appended, record)
            /\ writing' = [writing EXCEPT ![w] = {}]
            /\ UNCHANGED <<iterators_, wall, steady, steps, reads, down, reading>>

-----------------------------------------------------------------------------
SequenceNumbers == 1 .. MaxAppends

\* The iterator types that the code tells apart; any other starts at the front.
StartIndexes ==
    {[type |-> "TRIM_HORIZON", index |-> 0], [type |-> "LATEST", index |-> Len(records)]} \cup
    {[type |-> "AT_SEQUENCE_NUMBER",
      index |-> LET found == {i \in DOMAIN records : records[i].sequence_number = n}
                IN  IF found = {} THEN Len(records) ELSE Min(found) - 1] : n \in SequenceNumbers}

PurgedSoFar == Len(appended) - Len(records)

create_shard_iterator(i) ==
    /\ ~down
    /\ i \notin DOMAIN reading
    /\ \E start \in StartIndexes :
        /\ iterators_' = [j \in DOMAIN iterators_ \cup {i} |-> IF j # i THEN iterators_[j]
              ELSE [record_index |-> start.index, expires_at |-> steady + IteratorLifetime]]
        /\ reading' = [j \in DOMAIN reading \cup {i} |-> IF j # i THEN reading[j]
              ELSE [from |-> PurgedSoFar + start.index, purged |-> PurgedSoFar, got |-> <<>>]]
    /\ UNCHANGED <<records, writing, wall, steady, steps, reads, down, appended>>

\* size - start is a difference of size_t: after a purge it may wrap.
Count(limit, size, start) == Min({limit, (size - start) % SizeT})

Fetched(start, count) ==
    [k \in 1 .. count |-> IF start + k \in DOMAIN records THEN records[start + k].change
                          ELSE Garbage]

\* The iterator moves by what was asked for, not by what was there.
MovedByLimit(start, count, limit) == start + limit

NextIndex(start, count, limit) == start + count

Expired(i) == steady > iterators_[i].expires_at

\* A read beyond the deque's end is undefined: it yields garbage or ends the process.
get_records(i, limit) ==
    /\ ~down
    /\ i \in DOMAIN iterators_
    /\ reads < MaxReads
    /\ ~Expired(i)
    /\ LET start == iterators_[i].record_index
           count == Count(limit, Len(records), start)
       IN  \/ /\ iterators_' = [iterators_ EXCEPT ![i].record_index = NextIndex(start, count, limit)]
              /\ reading' = [reading EXCEPT ![i].got = @ \o Fetched(start, count)]
              /\ UNCHANGED down
           \/ /\ start + count > Len(records)
              /\ down' = TRUE
              /\ UNCHANGED <<iterators_, reading>>
    /\ reads' = reads + 1
    /\ UNCHANGED <<records, writing, wall, steady, steps, appended>>

\* The first call after an iterator's time erases it.
GetRecordsExpired(i) ==
    /\ ~down
    /\ i \in DOMAIN iterators_
    /\ Expired(i)
    /\ iterators_' = [j \in DOMAIN iterators_ \ {i} |-> iterators_[j]]
    /\ UNCHANGED <<records, writing, wall, steady, steps, reads, down, appended, reading>>

-----------------------------------------------------------------------------
Tick ==
    /\ ~down
    /\ steady < MaxTime
    /\ steady' = steady + 1
    /\ wall' = wall + 1
    /\ UNCHANGED <<records, writing, iterators_, steps, reads, down, appended, reading>>

SetClockBack ==
    /\ ~down
    /\ steps < MaxSteps
    /\ wall > 0
    /\ wall' = wall - 1
    /\ steps' = steps + 1
    /\ UNCHANGED <<records, writing, iterators_, steady, reads, down, appended, reading>>
StreamNext ==
    \/ \E w \in Writers : BuildRecord(w) \/ AppendRecord(w)
    \/ \E i \in Iterators :
        \/ create_shard_iterator(i)
        \/ \E limit \in Limits : get_records(i, limit)
        \/ GetRecordsExpired(i)
    \/ Tick
    \/ SetClockBack

StreamSpec == StreamInit /\ [][StreamNext]_streamVars

-----------------------------------------------------------------------------
Changes(got) == SelectSeq(got, LAMBDA c : c # Garbage)

\* A shard iterator moves forward through the stream and never back: over all
\* the calls made with it, GetRecords returns changes in the order they were
\* appended, none twice, also across purges and clock corrections.  As long as
\* nothing was purged since it was made it returns them without a gap, from
\* the place it was made for.
IteratorsMoveForward ==
    \A i \in DOMAIN reading :
        LET r       == reading[i]
            changes == Changes(r.got)
        IN  /\ \A k \in 1 .. Len(changes) - 1 : changes[k] < changes[k + 1]
            /\ r.purged = PurgedSoFar => r.got = [k \in 1 .. Len(r.got) |-> r.from + k]

\* The records a reader may fetch at one time have increasing sequence numbers:
\* docs/v2_docs/Phase_21__API_Storage_Fuzzing.md:31 asks to verify that stream
\* records have monotonically increasing SequenceNumbers.
SequenceNumbersIncrease ==
    \A i \in 1 .. Len(records) - 1 :
        records[i].sequence_number < records[i + 1].sequence_number
=============================================================================
