------------------------------ MODULE CircBuf ------------------------------
(***************************************************************************)
(* The byte ring of src/circ_buf.c.  simple_circ_buf_read and              *)
(* simple_circ_buf_write run under the mutex, copy in at most two passes   *)
(* and store each index twice, first past the end and then reduced modulo  *)
(* the size; the two counters take no lock and load head and tail in two   *)
(* steps, so they may fall between any of those stores.                    *)
(***************************************************************************)
EXTENDS Integers, Sequences, FiniteSets

CONSTANTS Size,      \* the argument of simple_circ_buf_create
          Writers, Readers,
          Pollers,   \* the threads that also call the counter of their side
          Bytes,
          MaxBytes,    \* longest write and read (bound)
          MaxCounting, \* counters that run at once; they write nothing shared (bound)
          Junk,      \* a byte never written, or a value not computed
          None       \* the mutex is free

ASSUME SizeAssumption == Size \in Nat \ {0}
ASSUME LenAssumption == MaxBytes \in Nat /\ MaxCounting \in Nat
ASSUME ThreadsAssumption == Writers \cap Readers = {} /\ None \notin Writers \cup Readers
                            /\ Pollers \subseteq Writers \cup Readers
ASSUME JunkAssumption == Junk \notin Bytes /\ Junk \notin Int

Users == Writers \cup Readers
Cells == 0..(Size - 1)
Data == UNION {[1..n -> Bytes] : n \in 0..MaxBytes}

\* The remainder of C: the sign is that of the dividend.
CMod(a, b) == IF a >= 0 THEN a % b ELSE -((-a) % b)

_cnt(head, tail, size) == CMod((head + size) - tail, size)

\* Mutant: the cell that is kept free is counted.
SpaceOneMore(head, tail, size) == _cnt(tail, head, size)

_space(head, tail, size) == _cnt(tail, head + 1, size)

_circ_cnt_to_end(head, tail, size) ==
    LET end == size - tail
        n == CMod(head + end, size)
    IN  IF n < end THEN n ELSE end

\* Mutant: the last cell before the end is never used.
SpaceToEndLess(head, tail, size) ==
    LET end == size - 1 - head
        n == CMod(end + tail, size)
    IN  IF n <= end THEN n ELSE end

_circ_space_to_end(head, tail, size) ==
    LET end == size - 1 - head
        n == CMod(end + tail, size)
    IN  IF n <= end THEN n ELSE end + 1

VARIABLES
    buf, head, tail,   \* the circ_buf_t
    mutex,
    pc,                \* where each thread is
    data,              \* a write's bytes still to store
    left,              \* a read's number of bytes still to take
    out,               \* what the operation has stored or taken so far
    loads,               \* the indices a counter has loaded
    cnt,               \* its last count since its last operation, or Junk
    done,              \* history: the last finished operation and its result
    start              \* history: the holder's first index, and the size asked for

ringVars == <<buf, head, tail, mutex, pc, data, left, out, loads, cnt, done, start>>
ring == <<buf, head, tail, mutex, done, start>>

RingPCs == {"idle", "reduce", "second", "reduce2", "data", "space"}

\* Type invariant.
TypeOK ==
    /\ buf \in [Cells -> Bytes \cup {Junk}]
    /\ head \in Nat /\ tail \in Nat /\ start \in [at : Cells, size : 0..MaxBytes]
    /\ mutex \in Users \cup {None}
    /\ pc \in [Users -> RingPCs]
    /\ data \in [Writers -> Data] /\ left \in [Readers -> 0..MaxBytes]
    /\ out \in [Users -> Seq(Bytes \cup {Junk})]
    /\ done \in [by : Users \cup {None}, size : 0..MaxBytes,
                bytes : Seq(Bytes \cup {Junk})]
    /\ loads \in [Users -> [head : Nat \cup {Junk}, tail : Nat \cup {Junk}]]
    /\ cnt \in [Users -> [of : {"data", "space"}, n : Int] \cup {Junk}]

\* simple_circ_buf_create; malloc leaves the cells unset.
RingInit ==
    /\ buf = [x \in Cells |-> Junk] /\ head = 0 /\ tail = 0
    /\ mutex = None /\ start = [at |-> 0, size |-> 0]
    /\ pc = [th \in Users |-> "idle"]
    /\ data = [th \in Writers |-> <<>>] /\ left = [th \in Readers |-> 0]
    /\ out = [th \in Users |-> <<>>]
    /\ done = [by |-> None, size |-> 0, bytes |-> <<>>]
    /\ loads = [th \in Users |-> [head |-> Junk, tail |-> Junk]]
    /\ cnt = [th \in Users |-> Junk]

-----------------------------------------------------------------------------
(* One pass: a memcpy of k bytes and the first store to the index.         *)

\* memcpy into the ring; bytes past its end are lost to this model, and the
\* refinement of ByteFifo would miss them.
Put(bytes, k) ==
    /\ buf' = [x \in Cells |-> IF x \in head..(head + k - 1) THEN bytes[x - head + 1]
                               ELSE buf[x]]
    /\ head' = head + k
    /\ UNCHANGED tail

Taken(k) == [x \in 1..k |-> IF tail + x - 1 \in Cells THEN buf[tail + x - 1] ELSE Junk]

Take(k) == tail' = tail + k /\ UNCHANGED <<buf, head>>

Lesser(a, b) == IF a >= b THEN b ELSE a

\* simple_circ_buf_write: lock, length of the first pass, first pass.
Write(th, bytes) ==
    LET n == _circ_space_to_end(head, tail, Size)
        k == Lesser(Len(bytes), n)
    IN  /\ pc[th] = "idle" /\ mutex = None
        /\ mutex' = th /\ start' = [at |-> head, size |-> Len(bytes)]
        /\ Put(bytes, k)
        /\ out' = [out EXCEPT ![th] = SubSeq(bytes, 1, k)]
        /\ data' = [data EXCEPT ![th] = SubSeq(bytes, k + 1, Len(bytes))]
        /\ cnt' = [cnt EXCEPT ![th] = Junk]
        /\ pc' = [pc EXCEPT ![th] = IF Len(bytes) <= n THEN "reduce2" ELSE "reduce"]
        /\ UNCHANGED <<left, loads, done>>

\* simple_circ_buf_read up to the same point.
Read(th, size) ==
    LET n == _circ_cnt_to_end(head, tail, Size)
        k == Lesser(size, n)
    IN  /\ pc[th] = "idle" /\ mutex = None
        /\ mutex' = th /\ start' = [at |-> tail, size |-> size]
        /\ Take(k)
        /\ out' = [out EXCEPT ![th] = Taken(k)]
        /\ left' = [left EXCEPT ![th] = size - k]
        /\ cnt' = [cnt EXCEPT ![th] = Junk]
        /\ pc' = [pc EXCEPT ![th] = IF size <= n THEN "reduce2" ELSE "reduce"]
        /\ UNCHANGED <<data, loads, done>>

\* head %= size or tail %= size, after the first of two passes.
ReduceIndex(th) ==
    IF th \in Writers THEN head' = CMod(head, Size) /\ UNCHANGED tail
    ELSE tail' = CMod(tail, Size) /\ UNCHANGED head

Reduce(th) ==
    /\ pc[th] = "reduce"
    /\ ReduceIndex(th)
    /\ pc' = [pc EXCEPT ![th] = "second"]
    /\ UNCHANGED <<buf, mutex, start, data, left, out, loads, cnt, done>>

\* The second pass takes what is left of the request and fits.
WriteSecond(th) ==
    LET k == Lesser(Len(data[th]), _circ_space_to_end(head, tail, Size))
    IN  /\ th \in Writers /\ pc[th] = "second"
        /\ Put(data[th], k)
        /\ out' = [out EXCEPT ![th] = @ \o SubSeq(data[th], 1, k)]
        /\ pc' = [pc EXCEPT ![th] = "reduce2"]
        /\ UNCHANGED <<mutex, start, data, left, loads, cnt, done>>

ReadSecond(th) ==
    LET k == Lesser(left[th], _circ_cnt_to_end(head, tail, Size))
    IN  /\ th \in Readers /\ pc[th] = "second"
        /\ Take(k)
        /\ out' = [out EXCEPT ![th] = @ \o Taken(k)]
        /\ pc' = [pc EXCEPT ![th] = "reduce2"]
        /\ UNCHANGED <<mutex, start, data, left, loads, cnt, done>>

\* The last reduction, the unlock and the return.
Finish(th) ==
    /\ pc[th] = "reduce2"
    /\ ReduceIndex(th)
    /\ mutex' = None
    /\ pc' = [pc EXCEPT ![th] = "idle"]
    /\ IF th \in Writers THEN data' = [data EXCEPT ![th] = <<>>] /\ UNCHANGED left
       ELSE left' = [left EXCEPT ![th] = 0] /\ UNCHANGED data
    /\ done' = [by |-> th, size |-> start.size, bytes |-> out[th]]
    /\ out' = [out EXCEPT ![th] = <<>>] /\ start' = [at |-> 0, size |-> 0]
    /\ UNCHANGED <<buf, loads, cnt>>

-----------------------------------------------------------------------------
(* The counters, called by any thread: two loads, in the order the compiler *)
(* chose, then the arithmetic.                                             *)

Unloaded == [head |-> Junk, tail |-> Junk]

GetCnt(th, counter) ==
    /\ pc[th] = "idle"
    /\ Cardinality({x \in Users : pc[x] \in {"data", "space"}}) < MaxCounting
    /\ pc' = [pc EXCEPT ![th] = counter]
    /\ UNCHANGED <<ring, data, left, out, loads, cnt>>

LoadHead(th) ==
    /\ pc[th] \in {"data", "space"} /\ loads[th].head = Junk
    /\ loads' = [loads EXCEPT ![th].head = head]
    /\ UNCHANGED <<ring, pc, data, left, out, cnt>>

LoadTail(th) ==
    /\ pc[th] \in {"data", "space"} /\ loads[th].tail = Junk
    /\ loads' = [loads EXCEPT ![th].tail = tail]
    /\ UNCHANGED <<ring, pc, data, left, out, cnt>>

simple_circ_buf_get_data_cnt(h, t) == _cnt(h, t, Size)
simple_circ_buf_get_space_cnt(h, t) == _space(h, t, Size)

GetCntReturns(th) ==
    /\ pc[th] \in {"data", "space"} /\ Junk \notin {loads[th].head, loads[th].tail}
    /\ cnt' = [cnt EXCEPT ![th] =
          [of |-> pc[th],
           n  |-> IF pc[th] = "data"
                  THEN simple_circ_buf_get_data_cnt(loads[th].head, loads[th].tail)
                  ELSE simple_circ_buf_get_space_cnt(loads[th].head, loads[th].tail)]]
    /\ loads' = [loads EXCEPT ![th] = Unloaded]
    /\ pc' = [pc EXCEPT ![th] = "idle"]
    /\ UNCHANGED <<ring, data, left, out>>

-----------------------------------------------------------------------------
RingNext ==
    \/ \E th \in Writers, bytes \in Data : Write(th, bytes)
    \/ \E th \in Readers, size \in 0..MaxBytes : Read(th, size)
    \/ \E th \in Users :
          \/ Reduce(th) \/ WriteSecond(th) \/ ReadSecond(th) \/ Finish(th)
          \/ LoadHead(th) \/ LoadTail(th) \/ GetCntReturns(th)
    \/ \E th \in Pollers : GetCnt(th, IF th \in Writers THEN "space" ELSE "data")

RingSpec == RingInit /\ [][RingNext]_ringVars

-----------------------------------------------------------------------------
(* Properties.                                                             *)

\* What is stored, from the indices of the last finished operation.
Committed(index, side) == IF mutex \in side THEN start.at ELSE index
stored ==
    LET h == Committed(head, Writers)
        t == Committed(tail, Readers)
    IN  [x \in 1.._cnt(h, t, Size) |-> buf[(t + x - 1) % Size]]

F == INSTANCE ByteFifo WITH
        Capacity <- Size - 1, Lengths <- 0..MaxBytes, q <- stored, out <- done

\* Reads and writes of any lengths, in one pass or two, are atomic operations on
\* a bounded queue: no byte is lost, repeated, reordered or invented, a write is
\* short only when the ring is full and a read only when it is empty.
ImplementsByteFifo == F!FifoSpec

\* A thread that is alone on its side may rely on its own counter without the
\* lock: until its next operation there is at least the space (data) it saw.
Actual(of) == IF of = "data" THEN _cnt(CMod(head, Size), CMod(tail, Size), Size)
              ELSE _space(CMod(head, Size), CMod(tail, Size), Size)
OwnCountKept ==
    \A th \in Users : cnt[th] # Junk =>
        /\ Writers = {th} /\ cnt[th].of = "space" =>
              cnt[th].n \in 0..Actual("space")
        /\ Readers = {th} /\ cnt[th].of = "data" =>
              cnt[th].n \in 0..Actual("data")
=============================================================================
