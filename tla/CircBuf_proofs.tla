--------------------------- MODULE CircBuf_proofs ---------------------------
(* Proofs about the ring for any size, threads and lengths.                   *)
EXTENDS CircBuf, SequenceTheorems, TLAPS

Passes == {"reduce", "second", "reduce2"}
\* An index reduced once.
Around(i) == IF i >= Size THEN i - Size ELSE i

RingTypes ==
    /\ buf \in [Cells -> Bytes \cup {Junk}]
    /\ head \in 0..Size /\ tail \in 0..Size
    /\ mutex \in Users \cup {None}
    /\ pc \in [Users -> RingPCs]
    /\ data \in [Writers -> Seq(Bytes)] /\ left \in [Readers -> Nat]
    /\ out \in [Users -> Seq(Bytes \cup {Junk})]
    /\ start \in [at : Cells, size : 0..MaxBytes]
    /\ loads \in [Users -> [head : 0..Size \cup {Junk}, tail : 0..Size \cup {Junk}]]
    /\ DOMAIN cnt = Users

\* Who holds the mutex is in its passes, and each index is reduced whenever no
\* thread of its side is.
Locked ==
    /\ \A th \in Users : pc[th] \in Passes <=> mutex = th
    /\ \A th \in Users : mutex = th => cnt[th] = Junk
    /\ mutex \notin Writers => head \in Cells
    /\ mutex \notin Readers => tail \in Cells

\* The index n cells on from where the operation began, reduced or not.
Placed(index, n) == index = start.at + n \/ index = start.at + n - Size

\* A write under way has stored the first n of its bytes and not more than there
\* was space for when it began; it goes on only where there is none before the end.
Writing(th) ==
    LET n == Len(out[th])
        free == _space(start.at, tail, Size)
    IN  /\ n <= free /\ Placed(head, n)
        /\ \A x \in 1..n : buf[Around(start.at + x - 1)] = out[th][x]
        /\ \E d \in Data :
              /\ Len(d) = start.size /\ out[th] = SubSeq(d, 1, n) /\ n <= Len(d)
              /\ pc[th] # "reduce2" => data[th] = SubSeq(d, n + 1, Len(d))
              /\ pc[th] = "reduce2" => n = Lesser(Len(d), free)
        /\ pc[th] = "reduce" => n = free \/ head = Size
        /\ pc[th] = "second" => head \in Cells /\ (n = free \/ head = 0)

\* A read under way, likewise.
Reading(th) ==
    LET n == Len(out[th])
        avail == _cnt(head, start.at, Size)
    IN  /\ n <= avail /\ Placed(tail, n)
        /\ \A x \in 1..n : out[th][x] = buf[Around(start.at + x - 1)]
        /\ n <= start.size
        /\ pc[th] # "reduce2" => left[th] = start.size - n
        /\ pc[th] = "reduce2" => n = Lesser(start.size, avail)
        /\ pc[th] = "reduce" => n = avail \/ tail = Size
        /\ pc[th] = "second" => tail \in Cells /\ (n = avail \/ tail = 0)

Passing ==
    /\ \A th \in Writers : mutex = th => Writing(th)
    /\ \A th \in Readers : mutex = th => Reading(th)

\* The one writer sees its own index, and a reader's that it has since moved on
\* from at most; and the one reader likewise.
Counting == {"space", "data"}
Loaded ==
    \A th \in Users :
        /\ pc[th] \notin Counting => loads[th] = Unloaded
        /\ Writers = {th} /\ pc[th] = "space" =>
              /\ loads[th].head \in {Junk, head}
              /\ loads[th].tail # Junk => _space(head, loads[th].tail, Size) <= Actual("space")
        /\ Readers = {th} /\ pc[th] = "data" =>
              /\ loads[th].tail \in {Junk, tail}
              /\ loads[th].head # Junk => _cnt(loads[th].head, tail, Size) <= Actual("data")

RingInv == RingTypes /\ Locked /\ Passing /\ Loaded /\ OwnCountKept
-----------------------------------------------------------------------------
(* The arithmetic of the indices.                                             *)

LEMMA Remainder ==
    ASSUME NEW a \in Nat, NEW b \in Nat \ {0}, a <= 2 * b
    PROVE  a % b = IF a < b THEN a ELSE IF a < 2 * b THEN a - b ELSE 0
<1>1. CASE a < b
  BY <1>1
<1>2. CASE a >= b /\ a < 2 * b
  BY <1>2
<1>3. CASE a = 2 * b
  BY <1>3
<1> QED BY <1>1, <1>2, <1>3

\* _cnt is the distance between the indices, for reduced ones and others.
LEMMA CntIs ==
    ASSUME SizeAssumption, NEW h \in 0..Size, NEW t \in 0..Size
    PROVE  /\ _cnt(h, t, Size) \in Cells
           /\ _cnt(h, t, Size) = IF h < t THEN h + Size - t
                                 ELSE IF h - t < Size THEN h - t ELSE 0
<1>1. /\ (h + Size) - t \in Nat /\ (h + Size) - t <= 2 * Size /\ Size \in Nat \ {0}
      /\ (h + Size) - t >= 0
  BY DEF SizeAssumption
<1>2. _cnt(h, t, Size) = ((h + Size) - t) % Size
  BY <1>1 DEF _cnt, CMod
<1>3. _cnt(h, t, Size) = LET a == (h + Size) - t
                         IN  IF a < Size THEN a ELSE IF a < 2 * Size THEN a - Size ELSE 0
  <2> DEFINE a == (h + Size) - t
  <2>1. a \in Nat /\ a <= 2 * Size /\ a >= 0
    BY <1>1
  <2> HIDE DEF a
  <2>2. a % Size = IF a < Size THEN a ELSE IF a < 2 * Size THEN a - Size ELSE 0
    BY <1>1, <2>1, Remainder
  <2> QED BY <1>2, <2>2 DEF a
<1> QED BY <1>1, <1>3 DEF Cells

\* One cell is kept free.
LEMMA SpaceIs ==
    ASSUME SizeAssumption, NEW h \in Cells, NEW t \in 0..Size
    PROVE  /\ _space(h, t, Size) \in Cells
           /\ _space(h, t, Size) = Size - 1 - _cnt(h, t, Size)
<1>1. h \in 0..Size /\ h + 1 \in 0..Size /\ Size \in Nat \ {0}
  BY DEF Cells, SizeAssumption
<1>2. _space(h, t, Size) = _cnt(t, h + 1, Size)
  BY DEF _space
<1>3. /\ _cnt(t, h + 1, Size) \in Cells
      /\ _cnt(t, h + 1, Size) = IF t < h + 1 THEN t + Size - (h + 1)
                               ELSE IF t - (h + 1) < Size THEN t - (h + 1) ELSE 0
  <2> DEFINE g == h + 1
  <2> HIDE DEF g
  <2>1. g \in 0..Size
    BY <1>1 DEF g
  <2> QED BY <2>1, CntIs DEF g
<1>4. _cnt(h, t, Size) = IF h < t THEN h + Size - t ELSE IF h - t < Size THEN h - t ELSE 0
  BY <1>1, CntIs
<1> QED BY <1>1, <1>2, <1>3, <1>4 DEF Cells

LEMMA ReducedIs ==
    ASSUME SizeAssumption, NEW i \in 0..Size
    PROVE  CMod(i, Size) = (IF i = Size THEN 0 ELSE i) /\ CMod(i, Size) \in Cells
<1>1. i \in Nat /\ i >= 0 /\ i <= 2 * Size /\ Size \in Nat \ {0}
  BY DEF SizeAssumption
<1>2. CMod(i, Size) = IF i < Size THEN i ELSE IF i < 2 * Size THEN i - Size ELSE 0
  BY <1>1, Remainder DEF CMod
<1> QED BY <1>1, <1>2 DEF Cells

\* Reduced or not, the indices are as far apart.
LEMMA CntReduced ==
    ASSUME SizeAssumption, NEW h \in 0..Size, NEW t \in 0..Size
    PROVE  _cnt(CMod(h, Size), CMod(t, Size), Size) = _cnt(h, t, Size)
<1>1. CMod(h, Size) \in 0..Size /\ CMod(t, Size) \in 0..Size /\ Size \in Nat \ {0}
  BY ReducedIs DEF SizeAssumption
<1> QED BY <1>1, CntIs, ReducedIs

\* What the first pass may take.
LEMMA ToEnd ==
    ASSUME SizeAssumption, NEW h \in Cells, NEW t \in Cells
    PROVE  /\ _circ_cnt_to_end(h, t, Size) = Lesser(_cnt(h, t, Size), Size - t)
           /\ _circ_space_to_end(h, t, Size) = Lesser(_space(h, t, Size), Size - h)
<1>1. Size \in Nat \ {0} /\ h \in 0..(Size - 1) /\ t \in 0..(Size - 1)
  BY DEF Cells, SizeAssumption
<1>2. /\ (h + Size) - t = h + (Size - t)
      /\ (t + Size) - (h + 1) = (Size - 1 - h) + t
  BY <1>1
<1>3. CMod(h + (Size - t), Size) = _cnt(h, t, Size)
      /\ CMod((Size - 1 - h) + t, Size) = _space(h, t, Size)
  BY <1>2 DEF _cnt, _space
<1>4. _cnt(h, t, Size) \in Int /\ _space(h, t, Size) \in Int
  BY <1>1, CntIs, SpaceIs DEF Cells
<1>5. _circ_cnt_to_end(h, t, Size) = Lesser(_cnt(h, t, Size), Size - t)
  BY <1>1, <1>3, <1>4 DEF _circ_cnt_to_end, Lesser
<1>6. _circ_space_to_end(h, t, Size) = Lesser(_space(h, t, Size), Size - h)
  BY <1>1, <1>3, <1>4 DEF _circ_space_to_end, Lesser
<1> QED BY <1>5, <1>6

LEMMA DataIs ==
    ASSUME LenAssumption, NEW d \in Data
    PROVE  d \in Seq(Bytes) /\ Len(d) \in 0..MaxBytes /\ Len(d) \in Nat
BY DEF Data, LenAssumption

LEMMA Pieces ==
    ASSUME NEW T, NEW s \in Seq(T), NEW m \in Nat, NEW n \in Nat, m <= n, n <= Len(s)
    PROVE  /\ SubSeq(s, m + 1, n) \in Seq(T) /\ Len(SubSeq(s, m + 1, n)) = n - m
           /\ \A x \in 1..(n - m) : SubSeq(s, m + 1, n)[x] = s[m + x]
OBVIOUS

\* The numbers that everything below is about.
LEMMA Numbers ==
    ASSUME SizeAssumption, RingTypes
    PROVE  /\ Size \in Nat /\ Size > 0
           /\ head \in 0..Size /\ tail \in 0..Size /\ start.at \in 0..(Size - 1)
           /\ _cnt(head, tail, Size) \in 0..(Size - 1)
           /\ _cnt(head, tail, Size) = IF head < tail THEN head + Size - tail
                                       ELSE IF head - tail < Size THEN head - tail ELSE 0
           /\ head \in Cells =>
                 /\ _space(head, tail, Size) = Size - 1 - _cnt(head, tail, Size)
                 /\ _cnt(head, start.at, Size) \in 0..(Size - 1)
                 /\ _cnt(head, start.at, Size) = IF head < start.at THEN head + Size - start.at
                                                 ELSE head - start.at
           /\ tail \in Cells =>
                 /\ _space(start.at, tail, Size) \in 0..(Size - 1)
                 /\ _space(start.at, tail, Size) = Size - 1 - _cnt(start.at, tail, Size)
                 /\ _cnt(start.at, tail, Size) \in 0..(Size - 1)
                 /\ _cnt(start.at, tail, Size) = IF start.at < tail THEN start.at + Size - tail
                                                 ELSE start.at - tail
<1>1. /\ Size \in Nat /\ Size > 0 /\ head \in 0..Size /\ tail \in 0..Size
      /\ start.at \in 0..(Size - 1) /\ start.at \in 0..Size /\ start.at \in Cells
  BY DEF SizeAssumption, RingTypes, Cells
<1>2. /\ _cnt(head, tail, Size) \in 0..(Size - 1)
      /\ _cnt(head, tail, Size) = IF head < tail THEN head + Size - tail
                                  ELSE IF head - tail < Size THEN head - tail ELSE 0
  BY <1>1, CntIs DEF Cells
<1>3. /\ _cnt(head, start.at, Size) \in 0..(Size - 1)
      /\ _cnt(head, start.at, Size) = IF head < start.at THEN head + Size - start.at
                                      ELSE IF head - start.at < Size THEN head - start.at ELSE 0
  BY <1>1, CntIs DEF Cells
<1>4. /\ _cnt(start.at, tail, Size) \in 0..(Size - 1)
      /\ _cnt(start.at, tail, Size) = IF start.at < tail THEN start.at + Size - tail
                                      ELSE IF start.at - tail < Size THEN start.at - tail ELSE 0
  BY <1>1, CntIs DEF Cells
<1>5. head \in Cells => /\ _space(head, tail, Size) = Size - 1 - _cnt(head, tail, Size)
                        /\ head - start.at < Size
  <2>1. ASSUME head \in Cells
        PROVE  _space(head, tail, Size) = Size - 1 - _cnt(head, tail, Size)
    BY <1>1, <2>1, SpaceIs
  <2>2. head \in Cells => head - start.at < Size
    BY <1>1 DEF Cells
  <2> QED BY <2>1, <2>2
<1>6. /\ _space(start.at, tail, Size) \in 0..(Size - 1)
      /\ _space(start.at, tail, Size) = Size - 1 - _cnt(start.at, tail, Size)
      /\ start.at - tail < Size
  <2>1. /\ _space(start.at, tail, Size) \in Cells
        /\ _space(start.at, tail, Size) = Size - 1 - _cnt(start.at, tail, Size)
    BY <1>1, SpaceIs
  <2>2. start.at - tail < Size
    BY <1>1
  <2> QED BY <2>1, <2>2 DEF Cells
<1> QED BY <1>1, <1>2, <1>3, <1>4, <1>5, <1>6

LEMMA ActualIs ==
    ASSUME SizeAssumption, RingTypes
    PROVE  /\ Actual("data") = _cnt(head, tail, Size)
           /\ Actual("space") = Size - 1 - _cnt(head, tail, Size)
<1>1. head \in 0..Size /\ tail \in 0..Size
  BY DEF RingTypes
<1>2. /\ CMod(head, Size) \in Cells /\ CMod(tail, Size) \in 0..Size
      /\ _cnt(CMod(head, Size), CMod(tail, Size), Size) = _cnt(head, tail, Size)
  BY <1>1, ReducedIs, CntReduced DEF Cells
<1>3. _space(CMod(head, Size), CMod(tail, Size), Size)
         = Size - 1 - _cnt(CMod(head, Size), CMod(tail, Size), Size)
  BY <1>2, SpaceIs
<1> QED BY <1>2, <1>3 DEF Actual
-----------------------------------------------------------------------------
(* The counters.                                                              *)

\* A step that leaves a lone thread's index alone, and does not take from what
\* that thread counts, keeps its counts; so does one of its own operations, which
\* forgets them.
LEMMA CountsKept ==
    ASSUME SizeAssumption, JunkAssumption, RingInv, RingTypes', UNCHANGED loads,
           \A th \in Users : cnt'[th] \in {Junk, cnt[th]},
           \A th \in Users : pc'[th] = pc[th] \/ {pc[th], pc'[th]} \cap Counting = {},
           \A th \in Writers : Writers = {th} =>
              \/ cnt'[th] = Junk /\ pc'[th] \notin Counting
              \/ /\ head' = head /\ head \in Cells
                 /\ _cnt(head, tail, Size)' <= _cnt(head, tail, Size),
           \A th \in Readers : Readers = {th} =>
              \/ cnt'[th] = Junk /\ pc'[th] \notin Counting
              \/ /\ tail' = tail /\ tail \in Cells
                 /\ _cnt(head, tail, Size)' >= _cnt(head, tail, Size)
    PROVE  Loaded' /\ OwnCountKept'
<1> USE DEF RingInv
<1>1. /\ Actual("data") = _cnt(head, tail, Size) /\ _cnt(head, tail, Size) \in Int
      /\ Actual("space") = Size - 1 - _cnt(head, tail, Size)
      /\ Size \in Int
  BY ActualIs, Numbers
<1>2. /\ Actual("data")' = _cnt(head, tail, Size)' /\ _cnt(head, tail, Size)' \in Int
      /\ Actual("space")' = Size - 1 - _cnt(head, tail, Size)'
  <2>1. head' \in 0..Size /\ tail' \in 0..Size
    BY DEF RingTypes
  <2>2. /\ CMod(head', Size) \in Cells /\ CMod(tail', Size) \in 0..Size
        /\ _cnt(CMod(head', Size), CMod(tail', Size), Size) = _cnt(head', tail', Size)
        /\ _cnt(head', tail', Size) \in Cells
    BY <2>1, ReducedIs, CntReduced, CntIs DEF Cells
  <2>3. _space(CMod(head', Size), CMod(tail', Size), Size)
           = Size - 1 - _cnt(CMod(head', Size), CMod(tail', Size), Size)
    BY <2>2, SpaceIs
  <2> QED BY <1>1, <2>2, <2>3 DEF Actual, Cells
<1> USE DEF Counting
<1>3. ASSUME NEW th \in Users, Writers = {th}
      PROVE  /\ pc'[th] = "space" =>
                  /\ loads'[th].head \in {Junk, head'}
                  /\ loads'[th].tail # Junk =>
                        _space(head', loads'[th].tail, Size) <= Actual("space")'
             /\ cnt'[th] # Junk /\ cnt'[th].of = "space" => cnt'[th].n \in 0..Actual("space")'
  <2>1. CASE cnt'[th] = Junk /\ pc'[th] \notin Counting
    BY <2>1
  <2>2. CASE /\ head' = head /\ head \in Cells
             /\ _cnt(head, tail, Size)' <= _cnt(head, tail, Size)
    <3>1. Actual("space") <= Actual("space")'
      BY <1>1, <1>2, <2>2
    <3>2. ASSUME pc'[th] = "space", loads'[th].tail # Junk
          PROVE  _space(head', loads'[th].tail, Size) <= Actual("space")'
      <4>1. pc[th] = "space" /\ loads[th].tail \in 0..Size /\ loads'[th].tail = loads[th].tail
        BY <3>2 DEF RingTypes
      <4>2. _space(head, loads[th].tail, Size) <= Actual("space")
        BY <1>3, <3>2, <4>1 DEF Loaded
      <4>3. _space(head, loads[th].tail, Size) \in Cells
        BY <2>2, <4>1, SpaceIs
      <4>4. _space(head, loads[th].tail, Size) \in Int
        BY <4>3 DEF Cells
      <4> QED BY <1>1, <1>2, <2>2, <3>1, <4>1, <4>2, <4>4
    <3>3. ASSUME pc'[th] = "space"
          PROVE  loads'[th].head \in {Junk, head'}
      BY <1>3, <2>2, <3>3 DEF Loaded
    <3>4. ASSUME cnt'[th] # Junk, cnt'[th].of = "space"
          PROVE  cnt'[th].n \in 0..Actual("space")'
      <4>1. cnt[th].n \in 0..Actual("space") /\ cnt'[th].n = cnt[th].n
        BY <1>3, <3>4 DEF OwnCountKept
      <4> QED BY <1>1, <1>2, <3>1, <4>1
    <3> QED BY <3>2, <3>3, <3>4
  <2> QED BY <1>3, <2>1, <2>2
<1>4. ASSUME NEW th \in Users, Readers = {th}
      PROVE  /\ pc'[th] = "data" =>
                  /\ loads'[th].tail \in {Junk, tail'}
                  /\ loads'[th].head # Junk =>
                        _cnt(loads'[th].head, tail', Size) <= Actual("data")'
             /\ cnt'[th] # Junk /\ cnt'[th].of = "data" => cnt'[th].n \in 0..Actual("data")'
  <2>1. CASE cnt'[th] = Junk /\ pc'[th] \notin Counting
    BY <2>1
  <2>2. CASE /\ tail' = tail /\ tail \in Cells
             /\ _cnt(head, tail, Size)' >= _cnt(head, tail, Size)
    <3>1. Actual("data") <= Actual("data")'
      BY <1>1, <1>2, <2>2
    <3>2. ASSUME pc'[th] = "data", loads'[th].head # Junk
          PROVE  _cnt(loads'[th].head, tail', Size) <= Actual("data")'
      <4>1. pc[th] = "data" /\ loads[th].head \in 0..Size /\ loads'[th].head = loads[th].head
            /\ tail \in 0..Size
        BY <3>2 DEF RingTypes
      <4>2. _cnt(loads[th].head, tail, Size) <= Actual("data")
        BY <1>4, <3>2, <4>1 DEF Loaded
      <4>3. _cnt(loads[th].head, tail, Size) \in Cells
        BY <4>1, CntIs
      <4>4. _cnt(loads[th].head, tail, Size) \in Int
        BY <4>3 DEF Cells
      <4> QED BY <1>1, <1>2, <2>2, <3>1, <4>1, <4>2, <4>4
    <3>3. ASSUME pc'[th] = "data"
          PROVE  loads'[th].tail \in {Junk, tail'}
      BY <1>4, <2>2, <3>3 DEF Loaded
    <3>4. ASSUME cnt'[th] # Junk, cnt'[th].of = "data"
          PROVE  cnt'[th].n \in 0..Actual("data")'
      <4>1. cnt[th].n \in 0..Actual("data") /\ cnt'[th].n = cnt[th].n
        BY <1>4, <3>4 DEF OwnCountKept
      <4> QED BY <1>1, <1>2, <3>1, <4>1
    <3> QED BY <3>2, <3>3, <3>4
  <2> QED BY <1>4, <2>1, <2>2
<1>5. \A th \in Users : pc'[th] \notin Counting => loads'[th] = Unloaded
  BY DEF Loaded
<1> QED BY <1>3, <1>4, <1>5 DEF Loaded, OwnCountKept

\* A step that touches neither the ring nor a pass.
LEMMA PassesFrame ==
    ASSUME RingInv, UNCHANGED <<ring, data, left, out>>,
           \A th \in Users : mutex = th => pc'[th] = pc[th]
    PROVE  Passing'
<1>1. UNCHANGED <<buf, head, tail, mutex, start, data, left, out>>
  BY DEF ring
<1> USE <1>1 DEF RingInv, Users
<1>2. ASSUME NEW th \in Writers, mutex = th
      PROVE  Writing(th)'
  <2>1. Writing(th) /\ pc'[th] = pc[th]
    BY <1>2 DEF Passing
  <2> QED BY <2>1 DEF Writing, Placed, Around, Lesser
<1>3. ASSUME NEW th \in Readers, mutex = th
      PROVE  Reading(th)'
  <2>1. Reading(th) /\ pc'[th] = pc[th]
    BY <1>3 DEF Passing
  <2> QED BY <2>1 DEF Reading, Placed, Around, Lesser
<1> QED BY <1>2, <1>3 DEF Passing

LEMMA CounterStep ==
    ASSUME SizeAssumption, JunkAssumption, ThreadsAssumption, RingInv, NEW th \in Users,
           \/ \E c \in Counting : GetCnt(th, c)
           \/ LoadHead(th) \/ LoadTail(th) \/ GetCntReturns(th)
    PROVE  RingInv'
<1> USE DEF RingInv
<1>1. UNCHANGED <<ring, data, left, out>> /\ UNCHANGED <<buf, head, tail, mutex, start>>
  BY DEF GetCnt, LoadHead, LoadTail, GetCntReturns, ring
<1>2. pc[th] \in {"idle"} \cup Counting /\ mutex # th /\ pc' \in [Users -> RingPCs]
  <2>1. pc[th] \in {"idle"} \cup Counting
    BY DEF GetCnt, LoadHead, LoadTail, GetCntReturns, Counting
  <2>2. mutex # th
    BY <2>1 DEF Locked, Passes, Counting
  <2>3. pc' \in [Users -> RingPCs]
    BY DEF GetCnt, LoadHead, LoadTail, GetCntReturns, RingTypes, RingPCs, Counting
  <2> QED BY <2>1, <2>2, <2>3
<1>3. /\ \A u \in Users : u # th => pc'[u] = pc[u] /\ loads'[u] = loads[u] /\ cnt'[u] = cnt[u]
      /\ pc'[th] \in {"idle"} \cup Counting
  BY <1>2 DEF GetCnt, LoadHead, LoadTail, GetCntReturns, RingTypes, Counting
<1>4. RingTypes'
  <2>1. loads' \in [Users -> [head : 0..Size \cup {Junk}, tail : 0..Size \cup {Junk}]]
    <3> DEFINE Pair == [head : 0..Size \cup {Junk}, tail : 0..Size \cup {Junk}]
    <3>1. loads[th] \in Pair /\ head \in 0..Size /\ tail \in 0..Size /\ loads \in [Users -> Pair]
      BY DEF RingTypes
    <3>2. /\ [loads[th] EXCEPT !.head = head] \in Pair /\ [loads[th] EXCEPT !.tail = tail] \in Pair
          /\ Unloaded \in Pair
      BY <3>1 DEF Unloaded
    <3>3. \/ loads' = loads \/ loads' = [loads EXCEPT ![th] = [loads[th] EXCEPT !.head = head]]
          \/ loads' = [loads EXCEPT ![th] = [loads[th] EXCEPT !.tail = tail]]
          \/ loads' = [loads EXCEPT ![th] = Unloaded]
      BY DEF GetCnt, LoadHead, LoadTail, GetCntReturns
    <3> HIDE DEF Pair
    <3>4. loads' \in [Users -> Pair]
      BY <3>1, <3>2, <3>3
    <3> QED BY <3>4 DEF Pair
  <2>2. DOMAIN cnt' = Users
    BY DEF GetCnt, LoadHead, LoadTail, GetCntReturns, RingTypes
  <2> QED BY <1>1, <1>2, <2>1, <2>2 DEF RingTypes
<1>5. Locked'
  BY <1>1, <1>2, <1>3 DEF Locked, Passes, Counting
<1>6. Passing'
  BY <1>1, <1>2, <1>3, PassesFrame
<1>7. /\ Actual("data") = _cnt(head, tail, Size) /\ _cnt(head, tail, Size) \in 0..(Size - 1)
      /\ Actual("space") = Size - 1 - _cnt(head, tail, Size) /\ Size \in Nat
      /\ Actual("data")' = Actual("data") /\ Actual("space")' = Actual("space")
  <2>1. Actual("data")' = Actual("data") /\ Actual("space")' = Actual("space")
    BY <1>1 DEF Actual
  <2> QED BY <2>1, ActualIs, Numbers
<1>8. ASSUME NEW u \in Users, u # th
      PROVE  /\ pc'[u] = pc[u] /\ loads'[u] = loads[u] /\ cnt'[u] = cnt[u]
  BY <1>3, <1>8
<1>9. CASE \E c \in Counting : GetCnt(th, c)
  <2>1. UNCHANGED <<loads, cnt>> /\ loads[th] = Unloaded /\ pc'[th] \in Counting
    BY <1>9 DEF GetCnt, Loaded, Counting, RingTypes
  <2>2. Loaded' /\ OwnCountKept'
    BY <1>1, <1>3, <1>7, <2>1 DEF Loaded, OwnCountKept, Unloaded
  <2> QED BY <1>4, <1>5, <1>6, <2>2
<1>10. CASE LoadHead(th) \/ LoadTail(th)
  <2>1. UNCHANGED <<pc, cnt>> /\ pc[th] \in Counting
    BY <1>10 DEF LoadHead, LoadTail, Counting
  <2>2. OwnCountKept'
    BY <1>7, <2>1 DEF OwnCountKept
  <2>3. \/ loads'[th].head = head /\ loads'[th].tail = loads[th].tail
        \/ loads'[th].tail = tail /\ loads'[th].head = loads[th].head
    BY <1>10 DEF LoadHead, LoadTail, RingTypes
  <2>4. ASSUME Writers = {th}, pc[th] = "space"
        PROVE  /\ loads'[th].head \in {Junk, head}
               /\ loads'[th].tail # Junk => _space(head, loads'[th].tail, Size) <= Actual("space")
    <3>1. head \in Cells
      BY <1>2, <2>4 DEF Locked
    <3>2. _space(head, tail, Size) <= Actual("space")
      BY <1>7, <3>1, Numbers
    <3>3. /\ loads[th].head \in {Junk, head}
          /\ loads[th].tail # Junk => _space(head, loads[th].tail, Size) <= Actual("space")
      BY <2>4 DEF Loaded
    <3> QED BY <2>3, <3>2, <3>3
  <2>5. ASSUME Readers = {th}, pc[th] = "data"
        PROVE  /\ loads'[th].tail \in {Junk, tail}
               /\ loads'[th].head # Junk => _cnt(loads'[th].head, tail, Size) <= Actual("data")
    <3>1. _cnt(head, tail, Size) <= Actual("data")
      BY <1>7
    <3>2. /\ loads[th].tail \in {Junk, tail}
          /\ loads[th].head # Junk => _cnt(loads[th].head, tail, Size) <= Actual("data")
      BY <2>5 DEF Loaded
    <3> QED BY <2>3, <3>1, <3>2
  <2>6. ASSUME NEW u \in Users
        PROVE  /\ pc'[u] \notin Counting => loads'[u] = Unloaded
               /\ Writers = {u} /\ pc'[u] = "space" =>
                    /\ loads'[u].head \in {Junk, head'}
                    /\ loads'[u].tail # Junk =>
                          _space(head', loads'[u].tail, Size) <= Actual("space")'
               /\ Readers = {u} /\ pc'[u] = "data" =>
                    /\ loads'[u].tail \in {Junk, tail'}
                    /\ loads'[u].head # Junk =>
                          _cnt(loads'[u].head, tail', Size) <= Actual("data")'
    <3>1. CASE u = th
      BY <1>1, <1>7, <2>1, <2>4, <2>5, <3>1
    <3>2. CASE u # th
      BY <1>1, <1>7, <1>8, <3>2 DEF Loaded
    <3> QED BY <3>1, <3>2
  <2> QED BY <1>4, <1>5, <1>6, <2>2, <2>6 DEF Loaded
<1>11. CASE GetCntReturns(th)
  <2>1. /\ pc'[th] = "idle" /\ loads'[th] = Unloaded /\ pc[th] \in Counting
        /\ loads[th].head # Junk /\ loads[th].tail # Junk
        /\ cnt'[th] = [of |-> pc[th],
                       n |-> IF pc[th] = "data" THEN _cnt(loads[th].head, loads[th].tail, Size)
                             ELSE _space(loads[th].head, loads[th].tail, Size)]
    BY <1>11 DEF GetCntReturns, RingTypes, Counting, simple_circ_buf_get_data_cnt,
                 simple_circ_buf_get_space_cnt
  <2>2. loads[th].head \in 0..Size /\ loads[th].tail \in 0..Size
    BY <2>1 DEF RingTypes
  <2>3. ASSUME Writers = {th}, pc[th] = "space"
        PROVE  cnt'[th].n \in 0..Actual("space")
    <3>1. loads[th].head = head /\ head \in Cells
          /\ _space(head, loads[th].tail, Size) <= Actual("space")
      BY <1>2, <2>1, <2>3 DEF Loaded, Locked
    <3>2. _space(head, loads[th].tail, Size) \in Cells
      BY <2>2, <3>1, SpaceIs
    <3> QED BY <1>7, <2>1, <2>3, <3>1, <3>2 DEF Cells
  <2>4. ASSUME Readers = {th}, pc[th] = "data"
        PROVE  cnt'[th].n \in 0..Actual("data")
    <3>1. loads[th].tail = tail /\ _cnt(loads[th].head, tail, Size) <= Actual("data")
      BY <2>1, <2>4 DEF Loaded
    <3>2. _cnt(loads[th].head, tail, Size) \in Cells
      BY <2>2, <3>1, CntIs
    <3> QED BY <1>7, <2>1, <2>4, <3>1, <3>2 DEF Cells
  <2>5. OwnCountKept'
    <3>1. ASSUME NEW u \in Users, cnt'[u] # Junk
          PROVE  /\ Writers = {u} /\ cnt'[u].of = "space" => cnt'[u].n \in 0..Actual("space")
                 /\ Readers = {u} /\ cnt'[u].of = "data" => cnt'[u].n \in 0..Actual("data")
      <4>1. CASE u = th
        <5>1. cnt'[th].of = pc[th]
          BY <2>1
        <5> QED BY <2>3, <2>4, <4>1, <5>1
      <4>2. CASE u # th
        BY <1>8, <3>1, <4>2 DEF OwnCountKept
      <4> QED BY <4>1, <4>2
    <3> QED BY <1>7, <3>1 DEF OwnCountKept
  <2>6. Loaded'
    <3>1. ASSUME NEW u \in Users
          PROVE  /\ pc'[u] \notin Counting => loads'[u] = Unloaded
                 /\ Writers = {u} /\ pc'[u] = "space" =>
                      /\ loads'[u].head \in {Junk, head'}
                      /\ loads'[u].tail # Junk =>
                            _space(head', loads'[u].tail, Size) <= Actual("space")'
                 /\ Readers = {u} /\ pc'[u] = "data" =>
                      /\ loads'[u].tail \in {Junk, tail'}
                      /\ loads'[u].head # Junk =>
                            _cnt(loads'[u].head, tail', Size) <= Actual("data")'
      <4>1. CASE u = th
        BY <2>1, <4>1
      <4>2. CASE u # th
        BY <1>1, <1>7, <1>8, <4>2 DEF Loaded
      <4> QED BY <4>1, <4>2
    <3> QED BY <3>1 DEF Loaded
  <2> QED BY <1>4, <1>5, <1>6, <2>5, <2>6
<1> QED BY <1>9, <1>10, <1>11
-----------------------------------------------------------------------------
(* The passes of a write.                                                     *)

\* What a pass of k bytes from where the index is does to the cells.
LEMMA PutCells ==
    ASSUME SizeAssumption, RingTypes, NEW bytes \in Seq(Bytes), NEW k \in Nat,
           k <= Len(bytes), head + k <= Size, Put(bytes, k)
    PROVE  /\ buf' \in [Cells -> Bytes \cup {Junk}]
           /\ head' = head + k /\ head' \in 0..Size /\ tail' = tail
           /\ \A x \in Cells : x < head \/ x >= head + k => buf'[x] = buf[x]
           /\ \A x \in 1..k : buf'[head + x - 1] = bytes[x]
<1>1. /\ head \in 0..Size /\ Size \in Nat /\ buf \in [Cells -> Bytes \cup {Junk}]
      /\ buf' = [x \in Cells |-> IF x \in head..(head + k - 1) THEN bytes[x - head + 1]
                                 ELSE buf[x]]
      /\ head' = head + k /\ tail' = tail
  BY DEF Put, RingTypes, SizeAssumption
<1>2. ASSUME NEW x \in Cells, x \in head..(head + k - 1)
      PROVE  bytes[x - head + 1] \in Bytes
  <2>1. x - head + 1 \in 1..Len(bytes)
    BY <1>1, <1>2
  <2> QED BY <2>1
<1>3. buf' \in [Cells -> Bytes \cup {Junk}]
  BY <1>1, <1>2
<1>4. \A x \in Cells : x < head \/ x >= head + k => buf'[x] = buf[x]
  BY <1>1 DEF Cells
<1>5. ASSUME NEW x \in 1..k
      PROVE  buf'[head + x - 1] = bytes[x]
  <2>1. head + x - 1 \in Cells /\ head + x - 1 \in head..(head + k - 1)
        /\ (head + x - 1) - head + 1 = x
    BY <1>1 DEF Cells
  <2> QED BY <1>1, <2>1
<1> QED BY <1>1, <1>3, <1>4, <1>5

LEMMA WriteStep ==
    ASSUME SizeAssumption, LenAssumption, ThreadsAssumption, JunkAssumption, RingInv,
           NEW th \in Writers, NEW bytes \in Data, Write(th, bytes)
    PROVE  RingInv'
<1> USE DEF RingInv
<1> DEFINE n == _circ_space_to_end(head, tail, Size)
           k == Lesser(Len(bytes), n)
<1>1. /\ th \in Users /\ th \notin Readers /\ mutex = None /\ mutex \notin Users
      /\ head \in Cells /\ tail \in Cells /\ pc[th] = "idle"
      /\ bytes \in Seq(Bytes) /\ Len(bytes) \in 0..MaxBytes /\ Len(bytes) \in Nat
  BY DataIs DEF Write, Users, Locked, ThreadsAssumption
<1>2. n = Lesser(_space(head, tail, Size), Size - head)
  BY <1>1, ToEnd
<1>3. /\ mutex' = th /\ start' = [at |-> head, size |-> Len(bytes)]
      /\ Put(bytes, k)
      /\ out' = [out EXCEPT ![th] = SubSeq(bytes, 1, k)]
      /\ data' = [data EXCEPT ![th] = SubSeq(bytes, k + 1, Len(bytes))]
      /\ cnt' = [cnt EXCEPT ![th] = Junk]
      /\ pc' = [pc EXCEPT ![th] = IF Len(bytes) <= n THEN "reduce2" ELSE "reduce"]
      /\ UNCHANGED <<left, loads, done>>
  BY DEF Write
<1> HIDE DEF n, k
<1>4. /\ n \in Nat /\ k \in Nat /\ k <= Len(bytes) /\ head + k <= Size
      /\ k <= _space(head, tail, Size) /\ _space(head, tail, Size) \in 0..(Size - 1)
      /\ Len(bytes) <= n => k = Lesser(Len(bytes), _space(head, tail, Size))
      /\ Len(bytes) > n => k = _space(head, tail, Size) \/ head + k = Size
  <2> DEFINE free == _space(head, tail, Size)
             L == Len(bytes)
  <2>1. free \in 0..(Size - 1) /\ L \in Nat /\ Size \in Nat /\ head \in 0..(Size - 1)
    <3>1. tail \in 0..Size /\ Size \in Nat
      BY Numbers
    <3>2. free \in Cells
      BY <1>1, <3>1, SpaceIs
    <3> QED BY <1>1, <3>1, <3>2 DEF Cells
  <2>2. n = Lesser(free, Size - head) /\ k = Lesser(L, n)
    BY <1>2 DEF k
  <2> HIDE DEF free, L
  <2>3. /\ n \in Nat /\ k \in Nat /\ k <= L /\ head + k <= Size /\ k <= free
        /\ L <= n => k = (IF L >= free THEN free ELSE L)
        /\ L > n => k = free \/ head + k = Size
    BY <2>1, <2>2 DEF Lesser
  <2> QED BY <2>1, <2>3 DEF free, L, Lesser
<1>5. /\ SubSeq(bytes, 1, k) \in Seq(Bytes) /\ Len(SubSeq(bytes, 1, k)) = k
      /\ \A x \in 1..k : SubSeq(bytes, 1, k)[x] = bytes[x]
      /\ SubSeq(bytes, k + 1, Len(bytes)) \in Seq(Bytes)
  <2>1. 0 \in Nat /\ 0 + 1 = 1 /\ 0 <= k /\ k - 0 = k
    BY <1>4
  <2>2. /\ SubSeq(bytes, 1, k) \in Seq(Bytes) /\ Len(SubSeq(bytes, 1, k)) = k
        /\ \A x \in 1..k : SubSeq(bytes, 1, k)[x] = bytes[0 + x]
    BY <1>1, <1>4, <2>1, Pieces
  <2>3. SubSeq(bytes, k + 1, Len(bytes)) \in Seq(Bytes)
    BY <1>1, <1>4, Pieces
  <2> QED BY <1>4, <2>2, <2>3
<1>6. /\ buf' \in [Cells -> Bytes \cup {Junk}]
      /\ head' = head + k /\ head' \in 0..Size /\ tail' = tail
      /\ \A x \in 1..k : buf'[head + x - 1] = bytes[x]
  BY <1>1, <1>3, <1>4, PutCells
<1>7. RingTypes'
  <2>1. /\ out' \in [Users -> Seq(Bytes \cup {Junk})] /\ data' \in [Writers -> Seq(Bytes)]
    <3>1. SubSeq(bytes, 1, k) \in Seq(Bytes \cup {Junk})
      BY <1>5
    <3> QED BY <1>1, <1>3, <1>5, <3>1 DEF RingTypes
  <2>2. /\ start' \in [at : Cells, size : 0..MaxBytes] /\ pc' \in [Users -> RingPCs]
        /\ mutex' \in Users \cup {None} /\ left' = left /\ loads' = loads
        /\ DOMAIN cnt' = Users
    BY <1>1, <1>3 DEF RingTypes, RingPCs
  <2> QED BY <1>6, <2>1, <2>2 DEF RingTypes
<1>8. \A u \in Users : u # th => pc'[u] = pc[u] /\ cnt'[u] = cnt[u]
  BY <1>3 DEF RingTypes
<1>9. /\ pc'[th] = (IF Len(bytes) <= n THEN "reduce2" ELSE "reduce") /\ cnt'[th] = Junk
      /\ out'[th] = SubSeq(bytes, 1, k) /\ data'[th] = SubSeq(bytes, k + 1, Len(bytes))
      /\ start'.at = head /\ start'.size = Len(bytes)
  BY <1>1, <1>3 DEF RingTypes
<1>10. Locked'
  BY <1>1, <1>3, <1>6, <1>8, <1>9 DEF Locked, Passes
<1>11. Writing(th)'
  <2>1. Len(out'[th]) = k /\ _space(start'.at, tail', Size) = _space(head, tail, Size)
    BY <1>5, <1>6, <1>9
  <2>2. \A x \in 1..k : buf'[Around(start'.at + x - 1)] = out'[th][x]
    <3>1. ASSUME NEW x \in 1..k
          PROVE  buf'[Around(start'.at + x - 1)] = out'[th][x]
      <4>1. head + x - 1 < Size /\ head + x - 1 \in Int
        BY <1>1, <1>4, Numbers DEF Cells
      <4>2. Around(head + x - 1) = head + x - 1
        BY <4>1, Numbers DEF Around
      <4> QED BY <1>5, <1>6, <1>9, <4>2
    <3> QED BY <3>1
  <2>3. /\ Len(bytes) = start'.size /\ out'[th] = SubSeq(bytes, 1, k) /\ k <= Len(bytes)
        /\ data'[th] = SubSeq(bytes, k + 1, Len(bytes))
        /\ pc'[th] = "reduce2" => k = Lesser(Len(bytes), _space(head, tail, Size))
    BY <1>4, <1>9
  <2>4. pc'[th] # "second" /\ (pc'[th] = "reduce" =>
            k = _space(head, tail, Size) \/ head' = Size)
    BY <1>1, <1>4, <1>6, <1>9
  <2>5. \E d \in Data :
              /\ Len(d) = start'.size /\ out'[th] = SubSeq(d, 1, k) /\ k <= Len(d)
              /\ pc'[th] # "reduce2" => data'[th] = SubSeq(d, k + 1, Len(d))
              /\ pc'[th] = "reduce2" => k = Lesser(Len(d), _space(head, tail, Size))
    BY <2>3
  <2> QED BY <1>4, <1>6, <1>9, <2>1, <2>2, <2>4, <2>5 DEF Writing, Placed
<1>12. Passing'
  BY <1>1, <1>3, <1>11 DEF Passing, Users
<1>13. _cnt(head, tail, Size)' >= _cnt(head, tail, Size)
  <2>1. _cnt(head', tail', Size) = IF head' < tail' THEN head' + Size - tail'
                                   ELSE IF head' - tail' < Size THEN head' - tail' ELSE 0
    BY <1>6, <1>7, CntIs DEF RingTypes
  <2>2. /\ _cnt(head, tail, Size) = IF head < tail THEN head + Size - tail
                                     ELSE IF head - tail < Size THEN head - tail ELSE 0
        /\ _space(head, tail, Size) = Size - 1 - _cnt(head, tail, Size)
        /\ head \in 0..(Size - 1) /\ tail \in 0..(Size - 1) /\ Size \in Nat
    BY <1>1, Numbers DEF Cells
  <2>3. _cnt(head', tail', Size) >= _cnt(head, tail, Size)
    BY <1>4, <1>6, <2>1, <2>2
  <2> QED BY <2>3
<1>14. Loaded' /\ OwnCountKept'
  <2>1. \A u \in Users : pc'[u] = pc[u] \/ {pc[u], pc'[u]} \cap Counting = {}
    BY <1>1, <1>8, <1>9 DEF Counting
  <2>2. \A u \in Users : cnt'[u] \in {Junk, cnt[u]}
    BY <1>8, <1>9
  <2>3. \A u \in Writers : Writers = {u} => cnt'[u] = Junk /\ pc'[u] \notin Counting
    BY <1>9 DEF Counting
  <2>4. \A u \in Readers : tail' = tail /\ tail \in Cells
                           /\ _cnt(head, tail, Size)' >= _cnt(head, tail, Size)
    BY <1>1, <1>6, <1>13
  <2> QED BY <1>3, <1>7, <2>1, <2>2, <2>3, <2>4, CountsKept
<1> QED BY <1>7, <1>10, <1>12, <1>14
-----------------------------------------------------------------------------
(* The stores of the reduced index.                                           *)

LEMMA ReduceIndexIs ==
    ASSUME SizeAssumption, ThreadsAssumption, RingInv, NEW th \in Users, ReduceIndex(th)
    PROVE  /\ head' \in 0..Size /\ tail' \in 0..Size
           /\ _cnt(head, tail, Size)' = _cnt(head, tail, Size)
           /\ th \in Writers =>
                 th \notin Readers /\ tail' = tail /\ head' \in Cells
                 /\ head' = IF head = Size THEN 0 ELSE head
           /\ th \notin Writers =>
                 th \in Readers /\ head' = head /\ tail' \in Cells
                 /\ tail' = IF tail = Size THEN 0 ELSE tail
<1>1. head \in 0..Size /\ tail \in 0..Size /\ Size \in Nat
  BY DEF RingInv, RingTypes, SizeAssumption
<1>2. /\ CMod(head, Size) = (IF head = Size THEN 0 ELSE head) /\ CMod(head, Size) \in Cells
      /\ CMod(tail, Size) = (IF tail = Size THEN 0 ELSE tail) /\ CMod(tail, Size) \in Cells
  BY <1>1, ReducedIs
<1>3. /\ th \in Writers => th \notin Readers
      /\ th \notin Writers => th \in Readers
  BY DEF Users, ThreadsAssumption
<1>4. head' \in 0..Size /\ tail' \in 0..Size
  BY <1>1, <1>2 DEF ReduceIndex, Cells
<1>5. _cnt(head', tail', Size) = _cnt(head, tail, Size)
  <2>1. /\ _cnt(head, tail, Size) = IF head < tail THEN head + Size - tail
                                    ELSE IF head - tail < Size THEN head - tail ELSE 0
        /\ _cnt(head', tail', Size) = IF head' < tail' THEN head' + Size - tail'
                                    ELSE IF head' - tail' < Size THEN head' - tail' ELSE 0
    BY <1>1, <1>4, CntIs
  <2>2. (th \in Writers => head' = (IF head = Size THEN 0 ELSE head) /\ tail' = tail)
        /\ (th \notin Writers => head' = head /\ tail' = (IF tail = Size THEN 0 ELSE tail))
    BY <1>2 DEF ReduceIndex
  <2> QED BY <1>1, <2>1, <2>2
<1> QED BY <1>2, <1>3, <1>4, <1>5 DEF ReduceIndex

LEMMA ReduceStep ==
    ASSUME SizeAssumption, ThreadsAssumption, JunkAssumption, RingInv, NEW th \in Users,
           Reduce(th)
    PROVE  RingInv'
<1> USE DEF RingInv
<1>1. /\ pc[th] = "reduce" /\ pc' = [pc EXCEPT ![th] = "second"] /\ ReduceIndex(th)
      /\ UNCHANGED <<buf, mutex, start, data, left, out, loads, cnt>>
      /\ mutex = th /\ pc'[th] = "second" /\ \A u \in Users : u # th => pc'[u] = pc[u]
  BY DEF Reduce, Locked, Passes, RingTypes
<1>2. /\ head' \in 0..Size /\ tail' \in 0..Size
      /\ _cnt(head, tail, Size)' = _cnt(head, tail, Size)
      /\ th \in Writers =>
            th \notin Readers /\ tail' = tail /\ head' \in Cells
            /\ head' = IF head = Size THEN 0 ELSE head
      /\ th \notin Writers =>
            th \in Readers /\ head' = head /\ tail' \in Cells
            /\ tail' = IF tail = Size THEN 0 ELSE tail
  BY <1>1, ReduceIndexIs
<1>3. RingTypes'
  BY <1>1, <1>2 DEF RingTypes, RingPCs
<1>4. Locked'
  BY <1>1, <1>2 DEF Locked, Passes
<1>5. /\ Size \in Nat /\ Size > 0 /\ head \in 0..Size /\ tail \in 0..Size
      /\ start.at \in 0..(Size - 1)
  BY Numbers
<1>6. ASSUME th \in Writers
      PROVE  Writing(th)'
  <2>1. /\ tail' = tail /\ head' \in Cells /\ head' = IF head = Size THEN 0 ELSE head
        /\ tail \in Cells /\ Writing(th)
    BY <1>1, <1>2, <1>6 DEF Locked, Passing
  <2>2. /\ _space(start.at, tail, Size) \in 0..(Size - 1)
        /\ Len(out[th]) \in Nat /\ Len(out[th]) <= _space(start.at, tail, Size)
        /\ Placed(head, Len(out[th]))
        /\ Len(out[th]) = _space(start.at, tail, Size) \/ head = Size
    BY <1>1, <2>1, Numbers DEF Writing, RingTypes
  <2>3. Placed(head', Len(out[th])) /\ (Len(out[th]) = _space(start.at, tail, Size) \/ head' = 0)
    BY <1>5, <2>1, <2>2 DEF Placed
  <2> QED BY <1>1, <2>1, <2>2, <2>3 DEF Writing, Placed, Around, Lesser
<1>7. ASSUME th \in Readers
      PROVE  Reading(th)'
  <2>1. /\ head' = head /\ tail' \in Cells /\ tail' = IF tail = Size THEN 0 ELSE tail
        /\ head \in Cells /\ Reading(th)
    BY <1>1, <1>2, <1>7 DEF Locked, Passing
  <2>2. /\ _cnt(head, start.at, Size) \in 0..(Size - 1)
        /\ Len(out[th]) \in Nat /\ Len(out[th]) <= _cnt(head, start.at, Size)
        /\ Placed(tail, Len(out[th]))
        /\ Len(out[th]) = _cnt(head, start.at, Size) \/ tail = Size
    BY <1>1, <2>1, Numbers DEF Reading, RingTypes
  <2>3. Placed(tail', Len(out[th])) /\ (Len(out[th]) = _cnt(head, start.at, Size) \/ tail' = 0)
    BY <1>5, <2>1, <2>2 DEF Placed
  <2> QED BY <1>1, <2>1, <2>2, <2>3 DEF Reading, Placed, Around, Lesser
<1>8. Passing'
  BY <1>1, <1>6, <1>7 DEF Passing, Users
<1>9. _cnt(head, tail, Size) \in Int
  BY Numbers
<1>10. Loaded' /\ OwnCountKept'
  <2>1. /\ \A u \in Users : pc'[u] = pc[u] \/ {pc[u], pc'[u]} \cap Counting = {}
        /\ \A u \in Users : cnt'[u] \in {Junk, cnt[u]}
        /\ cnt'[th] = Junk /\ pc'[th] \notin Counting
    BY <1>1 DEF Counting, Locked
  <2>2. ASSUME NEW u \in Writers, Writers = {u}
        PROVE  \/ cnt'[u] = Junk /\ pc'[u] \notin Counting
               \/ /\ head' = head /\ head \in Cells
                  /\ _cnt(head, tail, Size)' <= _cnt(head, tail, Size)
    BY <1>1, <1>2, <1>9, <2>1, <2>2 DEF Locked
  <2>3. ASSUME NEW u \in Readers, Readers = {u}
        PROVE  \/ cnt'[u] = Junk /\ pc'[u] \notin Counting
               \/ /\ tail' = tail /\ tail \in Cells
                  /\ _cnt(head, tail, Size)' >= _cnt(head, tail, Size)
    BY <1>1, <1>2, <1>9, <2>1, <2>3 DEF Locked
  <2> QED BY <1>1, <1>3, <2>1, <2>2, <2>3, CountsKept
<1> QED BY <1>3, <1>4, <1>8, <1>10

LEMMA FinishStep ==
    ASSUME SizeAssumption, ThreadsAssumption, JunkAssumption, LenAssumption, RingInv,
           NEW th \in Users, Finish(th)
    PROVE  RingInv'
<1> USE DEF RingInv
<1>1. /\ pc[th] = "reduce2" /\ pc' = [pc EXCEPT ![th] = "idle"] /\ ReduceIndex(th)
      /\ mutex = th /\ mutex' = None /\ UNCHANGED <<buf, loads, cnt>>
      /\ pc'[th] = "idle" /\ \A u \in Users : u # th => pc'[u] = pc[u]
      /\ out' = [out EXCEPT ![th] = <<>>] /\ start' = [at |-> 0, size |-> 0]
      /\ IF th \in Writers THEN data' = [data EXCEPT ![th] = <<>>] /\ UNCHANGED left
         ELSE left' = [left EXCEPT ![th] = 0] /\ UNCHANGED data
  BY DEF Finish, Locked, Passes, RingTypes
<1>2. /\ head' \in 0..Size /\ tail' \in 0..Size
      /\ _cnt(head, tail, Size)' = _cnt(head, tail, Size)
      /\ th \in Writers => th \notin Readers /\ tail' = tail /\ head' \in Cells
      /\ th \notin Writers => th \in Readers /\ head' = head /\ tail' \in Cells
  BY <1>1, ReduceIndexIs
<1>3. RingTypes'
  <2>1. start' \in [at : Cells, size : 0..MaxBytes]
    BY <1>1 DEF LenAssumption, SizeAssumption, Cells
  <2>2. /\ data' \in [Writers -> Seq(Bytes)] /\ left' \in [Readers -> Nat]
    <3>1. <<>> \in Seq(Bytes) /\ 0 \in Nat
      OBVIOUS
    <3>2. data \in [Writers -> Seq(Bytes)] /\ left \in [Readers -> Nat]
      BY DEF RingTypes
    <3>3. \/ data' = [data EXCEPT ![th] = <<>>] /\ left' = left
          \/ left' = [left EXCEPT ![th] = 0] /\ data' = data
      BY <1>1
    <3> QED BY <3>1, <3>2, <3>3
  <2>3. out' \in [Users -> Seq(Bytes \cup {Junk})]
    <3>1. <<>> \in Seq(Bytes \cup {Junk})
      OBVIOUS
    <3> QED BY <1>1, <3>1 DEF RingTypes
  <2> QED BY <1>1, <1>2, <2>1, <2>2, <2>3 DEF RingTypes, RingPCs
<1>4. mutex' \notin Users
  BY <1>1 DEF ThreadsAssumption, Users
<1>5. Locked'
  BY <1>1, <1>2, <1>4 DEF Locked, Passes, Users
<1>6. Passing'
  BY <1>4 DEF Passing, Users
<1>7. _cnt(head, tail, Size) \in Int
  BY Numbers
<1>8. Loaded' /\ OwnCountKept'
  <2>1. /\ \A u \in Users : pc'[u] = pc[u] \/ {pc[u], pc'[u]} \cap Counting = {}
        /\ \A u \in Users : cnt'[u] \in {Junk, cnt[u]}
        /\ cnt'[th] = Junk /\ pc'[th] \notin Counting
    BY <1>1 DEF Counting, Locked
  <2>2. ASSUME NEW u \in Writers, Writers = {u}
        PROVE  \/ cnt'[u] = Junk /\ pc'[u] \notin Counting
               \/ /\ head' = head /\ head \in Cells
                  /\ _cnt(head, tail, Size)' <= _cnt(head, tail, Size)
    BY <1>1, <1>2, <1>7, <2>1, <2>2 DEF Locked
  <2>3. ASSUME NEW u \in Readers, Readers = {u}
        PROVE  \/ cnt'[u] = Junk /\ pc'[u] \notin Counting
               \/ /\ tail' = tail /\ tail \in Cells
                  /\ _cnt(head, tail, Size)' >= _cnt(head, tail, Size)
    BY <1>1, <1>2, <1>7, <2>1, <2>3 DEF Locked
  <2> QED BY <1>1, <1>3, <2>1, <2>2, <2>3, CountsKept
<1> QED BY <1>3, <1>5, <1>6, <1>8
-----------------------------------------------------------------------------
(* The second pass of a write.                                                *)

LEMMA SameSeq ==
    ASSUME NEW T, NEW s \in Seq(T), NEW t \in Seq(T), Len(s) = Len(t),
           \A x \in 1..Len(s) : s[x] = t[x]
    PROVE  s = t
OBVIOUS

\* The first n and the k after them are the first n + k.
LEMMA PiecesMeet ==
    ASSUME NEW T, NEW d \in Seq(T), NEW n \in Nat, NEW k \in Nat, n + k <= Len(d)
    PROVE  SubSeq(d, 1, n) \o SubSeq(SubSeq(d, n + 1, Len(d)), 1, k) = SubSeq(d, 1, n + k)
<1> DEFINE a == SubSeq(d, 1, n)
           b == SubSeq(d, n + 1, Len(d))
           c == SubSeq(b, 1, k)
           e == SubSeq(d, 1, n + k)
<1>1. 0 \in Nat /\ 0 + 1 = 1 /\ Len(d) \in Nat /\ n + k \in Nat
  OBVIOUS
<1>2. /\ a \in Seq(T) /\ Len(a) = n /\ \A x \in 1..n : a[x] = d[x]
  <2>1. /\ a \in Seq(T) /\ Len(a) = n - 0 /\ \A x \in 1..(n - 0) : a[x] = d[0 + x]
    BY <1>1, Pieces
  <2> QED BY <2>1
<1>3. /\ b \in Seq(T) /\ Len(b) = Len(d) - n /\ \A x \in 1..(Len(d) - n) : b[x] = d[n + x]
  BY <1>1, Pieces
<1> HIDE DEF b
<1>4. /\ c \in Seq(T) /\ Len(c) = k /\ \A x \in 1..k : c[x] = b[x]
  <2>1. /\ c \in Seq(T) /\ Len(c) = k - 0 /\ \A x \in 1..(k - 0) : c[x] = b[0 + x]
    BY <1>1, <1>3, Pieces
  <2> QED BY <2>1
<1>5. /\ e \in Seq(T) /\ Len(e) = n + k /\ \A x \in 1..(n + k) : e[x] = d[x]
  <2>1. /\ e \in Seq(T) /\ Len(e) = (n + k) - 0 /\ \A x \in 1..((n + k) - 0) : e[x] = d[0 + x]
    BY <1>1, Pieces
  <2> QED BY <2>1
<1> HIDE DEF a, c, e
<1>6. a \o c \in Seq(T) /\ Len(a \o c) = n + k
  BY <1>2, <1>4
<1>7. ASSUME NEW x \in 1..(n + k)
      PROVE  (a \o c)[x] = e[x]
  <2>1. (a \o c)[x] = IF x <= n THEN a[x] ELSE c[x - n]
    <3>1. \A y \in 1..(Len(a) + Len(c)) :
             (a \o c)[y] = IF y <= Len(a) THEN a[y] ELSE c[y - Len(a)]
      BY <1>2, <1>4, ConcatProperties
    <3> QED BY <1>2, <1>4, <3>1
  <2>2. e[x] = d[x]
    BY <1>5
  <2>3. CASE x <= n
    <3>1. a[x] = d[x]
      BY <1>2, <2>3
    <3> QED BY <2>1, <2>2, <2>3, <3>1
  <2>4. CASE ~(x <= n)
    <3>1. x - n \in 1..k /\ x - n \in 1..(Len(d) - n) /\ n + (x - n) = x
      BY <1>1, <2>4
    <3>2. c[x - n] = b[x - n] /\ b[x - n] = d[x]
      BY <1>3, <1>4, <3>1
    <3> QED BY <2>1, <2>2, <2>4, <3>2
  <2> QED BY <2>3, <2>4
<1>8. a \o c = e
  BY <1>5, <1>6, <1>7, SameSeq
<1> QED BY <1>8 DEF a, b, c, e

LEMMA WriteSecondStep ==
    ASSUME SizeAssumption, LenAssumption, ThreadsAssumption, JunkAssumption, RingInv,
           NEW th \in Users, WriteSecond(th)
    PROVE  RingInv'
<1> USE DEF RingInv
<1> DEFINE room == _circ_space_to_end(head, tail, Size)
           k == Lesser(Len(data[th]), room)
           n == Len(out[th])
           free == _space(start.at, tail, Size)
<1>1. /\ th \in Writers /\ th \notin Readers /\ pc[th] = "second" /\ mutex = th
      /\ Put(data[th], k) /\ out' = [out EXCEPT ![th] = out[th] \o SubSeq(data[th], 1, k)]
      /\ pc' = [pc EXCEPT ![th] = "reduce2"]
      /\ UNCHANGED <<mutex, start, data, left, loads, cnt, done>>
      /\ pc'[th] = "reduce2" /\ \A u \in Users : u # th => pc'[u] = pc[u]
      /\ data[th] \in Seq(Bytes) /\ Len(data[th]) \in Nat
      /\ out[th] \in Seq(Bytes \cup {Junk}) /\ n \in Nat
  BY DEF WriteSecond, Locked, Passes, RingTypes, ThreadsAssumption
<1>2. Writing(th) /\ tail \in Cells /\ cnt[th] = Junk
  BY <1>1 DEF Passing, Locked
<1>3. /\ n <= free /\ Placed(head, n) /\ head \in Cells /\ (n = free \/ head = 0)
      /\ \A x \in 1..n : buf[Around(start.at + x - 1)] = out[th][x]
  BY <1>1, <1>2 DEF Writing
<1>4. PICK d \in Data : /\ Len(d) = start.size /\ out[th] = SubSeq(d, 1, n) /\ n <= Len(d)
                        /\ data[th] = SubSeq(d, n + 1, Len(d))
  BY <1>1, <1>2 DEF Writing
<1>5. /\ Size \in Nat /\ Size > 0 /\ head \in 0..(Size - 1) /\ tail \in 0..(Size - 1)
      /\ start.at \in 0..(Size - 1) /\ free \in 0..(Size - 1)
      /\ free = Size - 1 - _cnt(start.at, tail, Size)
      /\ _cnt(start.at, tail, Size) = IF start.at < tail THEN start.at + Size - tail
                                      ELSE start.at - tail
      /\ _space(head, tail, Size) = Size - 1 - _cnt(head, tail, Size)
      /\ _cnt(head, tail, Size) = IF head < tail THEN head + Size - tail ELSE head - tail
  <2>1. /\ Size \in Nat /\ Size > 0 /\ head \in 0..(Size - 1) /\ tail \in 0..(Size - 1)
        /\ start.at \in 0..(Size - 1)
    BY <1>2, <1>3, Numbers DEF Cells
  <2>2. /\ free \in 0..(Size - 1)
        /\ free = Size - 1 - _cnt(start.at, tail, Size)
        /\ _cnt(start.at, tail, Size) = IF start.at < tail THEN start.at + Size - tail
                                                 ELSE start.at - tail
    BY <1>2, Numbers
  <2>3. /\ _space(head, tail, Size) = Size - 1 - _cnt(head, tail, Size)
        /\ _cnt(head, tail, Size) = IF head < tail THEN head + Size - tail ELSE head - tail
    BY <1>3, <2>1, Numbers
  <2> QED BY <2>1, <2>2, <2>3
<1>6. room = Lesser(_space(head, tail, Size), Size - head)
  BY <1>2, <1>3, ToEnd
<1>7. d \in Seq(Bytes) /\ Len(d) \in Nat /\ Len(data[th]) = Len(d) - n
  <2>1. d \in Seq(Bytes) /\ Len(d) \in Nat
    BY DataIs
  <2> QED BY <1>1, <1>4, <2>1, Pieces
<1> HIDE DEF room, n, free
<1>8. _space(head, tail, Size) = free - n /\ room = free - n
  <2>1. /\ n \in Nat /\ n <= free /\ (n = free \/ head = 0)
        /\ head = start.at + n \/ head = start.at + n - Size
    BY <1>1, <1>3 DEF Placed
  <2>2. _space(head, tail, Size) = free - n
    <3> DEFINE room0 == _space(head, tail, Size)
               s == start.at
               c0 == _cnt(start.at, tail, Size)
               c1 == _cnt(head, tail, Size)
    <3>1. /\ Size \in Nat /\ head \in 0..(Size - 1) /\ tail \in 0..(Size - 1)
          /\ s \in 0..(Size - 1) /\ free \in 0..(Size - 1) /\ n \in Nat /\ n <= free
          /\ free = Size - 1 - c0 /\ room0 = Size - 1 - c1
          /\ c0 = IF s < tail THEN s + Size - tail ELSE s - tail
          /\ c1 = IF head < tail THEN head + Size - tail ELSE head - tail
          /\ head = s + n \/ head = s + n - Size
      BY <1>5, <2>1
    <3> HIDE DEF room0, s, c0, c1
    <3>2. room0 = free - n
      BY <3>1
    <3> QED BY <3>2 DEF room0
  <2>3. free - n < Size - head \/ (free - n = 0 /\ Size - head > 0)
    BY <1>5, <2>1
  <2> QED BY <1>5, <1>6, <2>1, <2>2, <2>3 DEF Lesser
<1>9. /\ k \in Nat /\ k <= Len(data[th]) /\ n + k = Lesser(Len(d), free) /\ n + k <= Len(d)
      /\ n + k <= free /\ head + k <= Size
  <2> DEFINE L == Len(data[th])
             D == Len(d)
  <2>1. /\ n \in Nat /\ n <= free /\ (n = free \/ head = 0) /\ free \in 0..(Size - 1)
        /\ Size \in Nat /\ head \in 0..(Size - 1) /\ L \in Nat /\ D \in Nat
        /\ L = D - n /\ n <= D /\ k = Lesser(L, free - n)
    BY <1>1, <1>3, <1>4, <1>5, <1>7, <1>8
  <2> HIDE DEF L, D, k
  <2>2. /\ k \in Nat /\ k <= L /\ n + k = Lesser(D, free) /\ n + k <= D
        /\ n + k <= free /\ head + k <= Size
    BY <2>1 DEF Lesser
  <2> QED BY <2>2 DEF L, D
<1> HIDE DEF k
\* The numbers of the pass and how they are related.
<1>a. /\ Size \in Nat /\ Size > 0 /\ head \in 0..(Size - 1) /\ tail \in 0..(Size - 1)
      /\ start.at \in 0..(Size - 1) /\ free \in 0..(Size - 1) /\ n \in Nat /\ k \in Nat
      /\ n + k <= free /\ head + k <= Size
      /\ head = start.at + n \/ head = start.at + n - Size
      /\ n + k \in Nat
  <2>1. n \in Nat /\ (head = start.at + n \/ head = start.at + n - Size)
    BY <1>1, <1>3 DEF Placed
  <2>2. k \in Nat /\ n + k <= free /\ head + k <= Size
    BY <1>9
  <2>3. n + k \in Nat
    BY <2>1, <2>2
  <2> QED BY <1>5, <2>1, <2>2, <2>3
<1>10. /\ buf' \in [Cells -> Bytes \cup {Junk}]
       /\ head' = head + k /\ head' \in 0..Size /\ tail' = tail
       /\ \A x \in Cells : x < head \/ x >= head + k => buf'[x] = buf[x]
       /\ \A x \in 1..k : buf'[head + x - 1] = data[th][x]
  BY <1>1, <1>9, PutCells
<1>11. out'[th] = SubSeq(d, 1, n + k)
  <2>1. out'[th] = out[th] \o SubSeq(data[th], 1, k)
    BY <1>1 DEF RingTypes
  <2>2. n \in Nat /\ k \in Nat /\ n + k <= Len(d) /\ d \in Seq(Bytes)
    BY <1>1, <1>7, <1>9
  <2>3. SubSeq(d, 1, n) \o SubSeq(SubSeq(d, n + 1, Len(d)), 1, k) = SubSeq(d, 1, n + k)
    BY <2>2, PiecesMeet
  <2> QED BY <1>4, <2>1, <2>3
<1>12. /\ out'[th] \in Seq(Bytes) /\ Len(out'[th]) = n + k
       /\ \A x \in 1..(n + k) : out'[th][x] = d[x]
  <2>1. 0 \in Nat /\ 0 + 1 = 1 /\ n + k \in Nat /\ (n + k) - 0 = n + k
    BY <1>1, <1>9
  <2>2. /\ SubSeq(d, 1, n + k) \in Seq(Bytes) /\ Len(SubSeq(d, 1, n + k)) = n + k
        /\ \A x \in 1..(n + k) : SubSeq(d, 1, n + k)[x] = d[0 + x]
    BY <1>7, <1>9, <2>1, Pieces
  <2> QED BY <1>11, <2>1, <2>2
<1>13. RingTypes'
  <2>1. out' \in [Users -> Seq(Bytes \cup {Junk})]
    <3>1. out[th] \o SubSeq(data[th], 1, k) = out'[th] /\ out'[th] \in Seq(Bytes \cup {Junk})
      BY <1>1, <1>12 DEF RingTypes
    <3> QED BY <1>1, <3>1 DEF RingTypes
  <2>2. pc' \in [Users -> RingPCs]
    BY <1>1 DEF RingTypes, RingPCs
  <2> QED BY <1>1, <1>10, <2>1, <2>2 DEF RingTypes
<1>14. Locked'
  BY <1>1, <1>2, <1>10 DEF Locked, Passes
<1>15. Writing(th)'
  <2>1. Placed(head', n + k)
    BY <1>a, <1>10 DEF Placed
  <2>2. ASSUME NEW x \in 1..(n + k)
        PROVE  buf'[Around(start.at + x - 1)] = out'[th][x]
    <3>1. CASE x <= n
      <4>1. x \in 1..n /\ out[th][x] = d[x]
        <5>1. 0 \in Nat /\ 0 + 1 = 1 /\ n - 0 = n /\ x \in 1..n
          BY <1>1, <1>9, <3>1
        <5>2. 0 <= n /\ n <= Len(d) /\ n \in Nat
          BY <1>a, <1>4
        <5>3. \A y \in 1..(n - 0) : SubSeq(d, 0 + 1, n)[y] = d[0 + y]
          BY <1>7, <5>1, <5>2, Pieces
        <5>4. 0 + x = x
          BY <5>1
        <5> QED BY <1>4, <5>1, <5>3, <5>4
      <4> DEFINE c == Around(start.at + x - 1)
      <4>2. c \in Cells /\ (c < head \/ c >= head + k)
        BY <1>a, <3>1 DEF Around, Cells
      <4>3. buf'[c] = buf[c] /\ buf[c] = out[th][x]
        BY <1>3, <1>10, <4>1, <4>2
      <4> QED BY <1>12, <4>1, <4>3
    <3>2. CASE x > n
      <4>1. x - n \in 1..k /\ Around(start.at + x - 1) = head + (x - n) - 1 /\ n + (x - n) = x
        BY <1>a, <3>2 DEF Around
      <4>2. data[th][x - n] = d[n + (x - n)]
        <5>1. x - n \in 1..(Len(d) - n)
          BY <1>1, <1>7, <1>9, <4>1
        <5>2. n \in Nat /\ n <= Len(d) /\ Len(d) \in Nat /\ Len(d) <= Len(d)
          BY <1>a, <1>4, <1>7
        <5>3. \A y \in 1..(Len(d) - n) : SubSeq(d, n + 1, Len(d))[y] = d[n + y]
          BY <1>7, <5>2, Pieces
        <5> QED BY <1>4, <5>1, <5>3
      <4> QED BY <1>10, <1>12, <4>1, <4>2
    <3> QED BY <1>a, <3>1, <3>2
  <2>3. _space(start'.at, tail', Size) = free /\ start'.at = start.at /\ start'.size = start.size
    BY <1>1, <1>10 DEF free
  <2>4. /\ Len(out'[th]) <= _space(start'.at, tail', Size)
        /\ head' = start'.at + Len(out'[th]) \/ head' = start'.at + Len(out'[th]) - Size
    BY <1>a, <1>12, <2>1, <2>3 DEF Placed
  <2>5. \A x \in 1..Len(out'[th]) : buf'[Around(start'.at + x - 1)] = out'[th][x]
    BY <1>12, <2>2, <2>3
  <2>6. /\ Len(d) = start'.size /\ out'[th] = SubSeq(d, 1, Len(out'[th])) /\ Len(out'[th]) <= Len(d)
        /\ Len(out'[th]) = Lesser(Len(d), _space(start'.at, tail', Size))
    BY <1>4, <1>9, <1>11, <1>12, <2>3
  <2> QED BY <1>1, <2>4, <2>5, <2>6 DEF Writing, Placed
<1>16. Passing'
  BY <1>1, <1>15 DEF Passing
<1>17. _cnt(head', tail', Size) >= _cnt(head, tail, Size)
  <2>1. _cnt(head', tail', Size) = IF head' < tail' THEN head' + Size - tail'
                                   ELSE IF head' - tail' < Size THEN head' - tail' ELSE 0
    BY <1>13, CntIs DEF RingTypes
  <2>2. /\ _space(head, tail, Size) = Size - 1 - _cnt(head, tail, Size)
        /\ _cnt(head, tail, Size) = IF head < tail THEN head + Size - tail ELSE head - tail
        /\ k <= Size - 1 - _cnt(head, tail, Size) /\ head' = head + k /\ tail' = tail
    BY <1>a, <1>5, <1>8, <1>10
  <2> QED BY <1>a, <2>1, <2>2
<1>18. Loaded' /\ OwnCountKept'
  <2>1. /\ \A u \in Users : pc'[u] = pc[u] \/ {pc[u], pc'[u]} \cap Counting = {}
        /\ \A u \in Users : cnt'[u] \in {Junk, cnt[u]}
        /\ cnt'[th] = Junk /\ pc'[th] \notin Counting
    BY <1>1, <1>2 DEF Counting
  <2>2. \A u \in Writers : Writers = {u} => cnt'[u] = Junk /\ pc'[u] \notin Counting
    BY <1>1, <2>1
  <2>3. \A u \in Readers : tail' = tail /\ tail \in Cells
                           /\ _cnt(head, tail, Size)' >= _cnt(head, tail, Size)
    BY <1>2, <1>10, <1>17
  <2> QED BY <1>1, <1>13, <2>1, <2>2, <2>3, CountsKept
<1> QED BY <1>13, <1>14, <1>16, <1>18
-----------------------------------------------------------------------------
(* The passes of a read.                                                      *)

LEMMA TakenIs ==
    ASSUME SizeAssumption, RingTypes, NEW k \in Nat, tail + k <= Size
    PROVE  /\ Taken(k) \in Seq(Bytes \cup {Junk}) /\ Len(Taken(k)) = k
           /\ \A x \in 1..k : Taken(k)[x] = buf[tail + x - 1]
<1>1. tail \in 0..Size /\ Size \in Nat /\ buf \in [Cells -> Bytes \cup {Junk}]
  BY DEF RingTypes, SizeAssumption
<1>2. \A x \in 1..k : tail + x - 1 \in Cells
  BY <1>1 DEF Cells
<1>3. Taken(k) = [x \in 1..k |-> buf[tail + x - 1]]
  BY <1>2 DEF Taken
<1>4. \A x \in 1..k : buf[tail + x - 1] \in Bytes \cup {Junk}
  BY <1>1, <1>2
<1> QED BY <1>3, <1>4

LEMMA ReadStep ==
    ASSUME SizeAssumption, LenAssumption, ThreadsAssumption, JunkAssumption, RingInv,
           NEW th \in Readers, NEW size \in 0..MaxBytes, Read(th, size)
    PROVE  RingInv'
<1> USE DEF RingInv
<1> DEFINE n == _circ_cnt_to_end(head, tail, Size)
           k == Lesser(size, n)
           avail == _cnt(head, tail, Size)
<1>1. /\ th \in Users /\ th \notin Writers /\ mutex = None /\ mutex \notin Users
      /\ head \in Cells /\ tail \in Cells /\ pc[th] = "idle" /\ size \in Nat
  BY DEF Read, Users, Locked, ThreadsAssumption, LenAssumption
<1>2. n = Lesser(avail, Size - tail)
  BY <1>1, ToEnd
<1>3. /\ mutex' = th /\ start' = [at |-> tail, size |-> size]
      /\ Take(k) /\ out' = [out EXCEPT ![th] = Taken(k)]
      /\ left' = [left EXCEPT ![th] = size - k]
      /\ cnt' = [cnt EXCEPT ![th] = Junk]
      /\ pc' = [pc EXCEPT ![th] = IF size <= n THEN "reduce2" ELSE "reduce"]
      /\ UNCHANGED <<data, loads, done>>
  BY DEF Read
<1>4. /\ Size \in Nat /\ Size > 0 /\ head \in 0..(Size - 1) /\ tail \in 0..(Size - 1)
      /\ avail \in 0..(Size - 1)
      /\ avail = IF head < tail THEN head + Size - tail ELSE head - tail
  <2>1. /\ Size \in Nat /\ Size > 0 /\ head \in 0..(Size - 1) /\ tail \in 0..(Size - 1)
    BY <1>1, Numbers DEF Cells
  <2>2. /\ avail \in 0..(Size - 1)
        /\ avail = IF head < tail THEN head + Size - tail
                   ELSE IF head - tail < Size THEN head - tail ELSE 0
    BY Numbers
  <2> QED BY <2>1, <2>2
<1> HIDE DEF n, k, avail
<1>5. /\ n \in Nat /\ k \in Nat /\ k <= size /\ tail + k <= Size /\ k <= avail
      /\ size <= n => k = Lesser(size, avail)
      /\ ~(size <= n) => k = avail \/ tail + k = Size
  <2>1. k = Lesser(size, n)
    BY DEF k
  <2> QED BY <1>1, <1>2, <1>4, <2>1 DEF Lesser
<1>6. buf' = buf /\ head' = head /\ tail' = tail + k
  BY <1>3 DEF Take
<1>7. /\ Taken(k) \in Seq(Bytes \cup {Junk}) /\ Len(Taken(k)) = k
      /\ \A x \in 1..k : Taken(k)[x] = buf[tail + x - 1]
  BY <1>5, TakenIs
<1>8. /\ pc'[th] = (IF size <= n THEN "reduce2" ELSE "reduce") /\ cnt'[th] = Junk
      /\ out'[th] = Taken(k) /\ left'[th] = size - k
      /\ start'.at = tail /\ start'.size = size
      /\ \A u \in Users : u # th => pc'[u] = pc[u] /\ cnt'[u] = cnt[u]
  BY <1>1, <1>3 DEF RingTypes
<1>9. RingTypes'
  <2>1. out' \in [Users -> Seq(Bytes \cup {Junk})] /\ left' \in [Readers -> Nat]
    <3>1. size - k \in Nat
      BY <1>1, <1>5
    <3> QED BY <1>1, <1>3, <1>7, <3>1 DEF RingTypes
  <2>2. /\ start' \in [at : Cells, size : 0..MaxBytes] /\ pc' \in [Users -> RingPCs]
        /\ mutex' \in Users \cup {None} /\ data' = data /\ loads' = loads
        /\ DOMAIN cnt' = Users
    BY <1>1, <1>3 DEF RingTypes, RingPCs
  <2>3. head' \in 0..Size /\ tail' \in 0..Size
    BY <1>4, <1>5, <1>6
  <2> QED BY <1>6, <2>1, <2>2, <2>3 DEF RingTypes
<1>10. Locked'
  BY <1>1, <1>3, <1>6, <1>8 DEF Locked, Passes
<1>11. Reading(th)'
  <2>1. Len(out'[th]) = k /\ _cnt(head', start'.at, Size) = avail
    BY <1>6, <1>7, <1>8 DEF avail
  <2>2. ASSUME NEW x \in 1..k
        PROVE  out'[th][x] = buf'[Around(start'.at + x - 1)]
    <3>1. Around(tail + x - 1) = tail + x - 1
      BY <1>4, <1>5 DEF Around
    <3> QED BY <1>6, <1>7, <1>8, <3>1
  <2>3. /\ k <= start'.size /\ left'[th] = start'.size - k
        /\ pc'[th] = "reduce2" => k = Lesser(start'.size, avail)
        /\ pc'[th] = "reduce" => k = avail \/ tail' = Size
        /\ pc'[th] # "second"
        /\ tail' = start'.at + k
    BY <1>5, <1>6, <1>8
  <2> QED BY <1>5, <2>1, <2>2, <2>3 DEF Reading, Placed
<1>12. Passing'
  BY <1>1, <1>3, <1>11 DEF Passing, Users
<1>13. _cnt(head', tail', Size) <= avail
  <2>1. _cnt(head', tail', Size) = IF head' < tail' THEN head' + Size - tail'
                                   ELSE IF head' - tail' < Size THEN head' - tail' ELSE 0
    BY <1>9, CntIs DEF RingTypes
  <2> QED BY <1>4, <1>5, <1>6, <2>1
<1>14. Loaded' /\ OwnCountKept'
  <2>1. /\ \A u \in Users : pc'[u] = pc[u] \/ {pc[u], pc'[u]} \cap Counting = {}
        /\ \A u \in Users : cnt'[u] \in {Junk, cnt[u]}
    BY <1>1, <1>8 DEF Counting
  <2>2. \A u \in Readers : Readers = {u} => cnt'[u] = Junk /\ pc'[u] \notin Counting
    BY <1>8 DEF Counting
  <2>3. \A u \in Writers : head' = head /\ head \in Cells
                           /\ _cnt(head, tail, Size)' <= _cnt(head, tail, Size)
    BY <1>1, <1>6, <1>13 DEF avail
  <2> QED BY <1>3, <1>9, <2>1, <2>2, <2>3, CountsKept
<1> QED BY <1>9, <1>10, <1>12, <1>14

LEMMA ReadSecondStep ==
    ASSUME SizeAssumption, LenAssumption, ThreadsAssumption, JunkAssumption, RingInv,
           NEW th \in Users, ReadSecond(th)
    PROVE  RingInv'
<1> USE DEF RingInv
<1> DEFINE data0 == _circ_cnt_to_end(head, tail, Size)
           k == Lesser(left[th], data0)
           n == Len(out[th])
           avail == _cnt(head, start.at, Size)
           rest == _cnt(head, tail, Size)
<1>1. /\ th \in Readers /\ th \notin Writers /\ pc[th] = "second" /\ mutex = th
      /\ Take(k) /\ out' = [out EXCEPT ![th] = out[th] \o Taken(k)]
      /\ pc' = [pc EXCEPT ![th] = "reduce2"]
      /\ UNCHANGED <<mutex, start, data, left, loads, cnt, done>>
      /\ pc'[th] = "reduce2" /\ \A u \in Users : u # th => pc'[u] = pc[u]
      /\ out[th] \in Seq(Bytes \cup {Junk}) /\ n \in Nat /\ left[th] \in Nat
  BY DEF ReadSecond, Locked, Passes, RingTypes, ThreadsAssumption
<1>2. /\ Reading(th) /\ head \in Cells /\ cnt[th] = Junk /\ start.size \in Nat
  BY <1>1 DEF Passing, Locked, RingTypes, LenAssumption
<1>3. /\ n <= avail /\ (tail = start.at + n \/ tail = start.at + n - Size) /\ tail \in Cells
      /\ (n = avail \/ tail = 0) /\ n <= start.size /\ left[th] = start.size - n
      /\ \A x \in 1..n : out[th][x] = buf[Around(start.at + x - 1)]
  BY <1>1, <1>2 DEF Reading, Placed
<1>4. /\ Size \in Nat /\ Size > 0 /\ head \in 0..(Size - 1) /\ tail \in 0..(Size - 1)
      /\ start.at \in 0..(Size - 1) /\ avail \in 0..(Size - 1) /\ rest \in 0..(Size - 1)
      /\ avail = IF head < start.at THEN head + Size - start.at ELSE head - start.at
      /\ rest = IF head < tail THEN head + Size - tail ELSE head - tail
  <2>1. /\ Size \in Nat /\ Size > 0 /\ head \in 0..(Size - 1) /\ tail \in 0..(Size - 1)
        /\ start.at \in 0..(Size - 1)
    BY <1>2, <1>3, Numbers DEF Cells
  <2>2. /\ avail \in 0..(Size - 1)
        /\ avail = IF head < start.at THEN head + Size - start.at ELSE head - start.at
    BY <1>2, Numbers
  <2>3. /\ rest \in 0..(Size - 1)
        /\ rest = IF head < tail THEN head + Size - tail
                  ELSE IF head - tail < Size THEN head - tail ELSE 0
    BY Numbers
  <2> QED BY <2>1, <2>2, <2>3
<1>5. data0 = Lesser(rest, Size - tail)
  BY <1>2, <1>3, ToEnd
<1> HIDE DEF data0, k, n, avail, rest
<1>6. /\ n \in Nat /\ k \in Nat /\ n + k = Lesser(start.size, avail) /\ n + k <= start.size
      /\ n + k <= avail /\ k <= rest /\ tail + k <= Size /\ n + k \in Nat
  <2> DEFINE s == start.at
             z == start.size
             r == left[th]
  <2>1. /\ n \in Nat /\ n <= avail /\ (n = avail \/ tail = 0) /\ z \in Nat /\ n <= z
        /\ r = z - n /\ (tail = s + n \/ tail = s + n - Size) /\ s \in 0..(Size - 1)
        /\ avail = IF head < s THEN head + Size - s ELSE head - s
        /\ k = Lesser(r, data0)
    BY <1>1, <1>2, <1>3, <1>4 DEF k
  <2> HIDE DEF s, z, r
  <2>2. rest = avail - n
    BY <1>4, <2>1
  <2>3. data0 = avail - n
    BY <1>4, <1>5, <2>1, <2>2 DEF Lesser
  <2>4. /\ k \in Nat /\ n + k = Lesser(z, avail) /\ n + k <= z
        /\ n + k <= avail /\ k <= rest
    BY <1>4, <2>1, <2>2, <2>3 DEF Lesser
  <2>5. tail + k <= Size
    BY <1>4, <2>1, <2>2, <2>4
  <2> QED BY <2>1, <2>4, <2>5 DEF z
<1>7. buf' = buf /\ head' = head /\ tail' = tail + k
  BY <1>1 DEF Take
<1>8. /\ Taken(k) \in Seq(Bytes \cup {Junk}) /\ Len(Taken(k)) = k
      /\ \A x \in 1..k : Taken(k)[x] = buf[tail + x - 1]
  BY <1>6, TakenIs
<1>9. /\ out'[th] = out[th] \o Taken(k) /\ out'[th] \in Seq(Bytes \cup {Junk})
      /\ Len(out'[th]) = n + k
      /\ \A x \in 1..(n + k) : out'[th][x] = IF x <= n THEN out[th][x] ELSE Taken(k)[x - n]
  <2>1. out'[th] = out[th] \o Taken(k)
    BY <1>1 DEF RingTypes
  <2>2. /\ out[th] \o Taken(k) \in Seq(Bytes \cup {Junk})
        /\ Len(out[th] \o Taken(k)) = Len(out[th]) + Len(Taken(k))
        /\ \A i \in 1..(Len(out[th]) + Len(Taken(k))) : (out[th] \o Taken(k))[i] =
               IF i <= Len(out[th]) THEN out[th][i] ELSE Taken(k)[i - Len(out[th])]
    <3> DEFINE a == out[th]
               c == Taken(k)
    <3>1. a \in Seq(Bytes \cup {Junk}) /\ c \in Seq(Bytes \cup {Junk})
      BY <1>1, <1>8
    <3> HIDE DEF a, c
    <3>2. /\ a \o c \in Seq(Bytes \cup {Junk}) /\ Len(a \o c) = Len(a) + Len(c)
          /\ \A i \in 1..(Len(a) + Len(c)) : (a \o c)[i] =
                 IF i <= Len(a) THEN a[i] ELSE c[i - Len(a)]
      BY <3>1, ConcatProperties
    <3> QED BY <3>2 DEF a, c
  <2> QED BY <1>8, <2>1, <2>2 DEF n
<1>10. RingTypes'
  <2>1. out' \in [Users -> Seq(Bytes \cup {Junk})]
    <3>1. out[th] \o Taken(k) \in Seq(Bytes \cup {Junk})
      BY <1>9
    <3> QED BY <1>1, <3>1 DEF RingTypes
  <2>2. pc' \in [Users -> RingPCs]
    BY <1>1 DEF RingTypes, RingPCs
  <2>3. head' \in 0..Size /\ tail' \in 0..Size
    BY <1>4, <1>6, <1>7
  <2> QED BY <1>1, <1>7, <2>1, <2>2, <2>3 DEF RingTypes
<1>11. Locked'
  BY <1>1, <1>2, <1>7 DEF Locked, Passes
<1>12. Reading(th)'
  <2>1. ASSUME NEW x \in 1..(n + k)
        PROVE  out'[th][x] = buf[Around(start.at + x - 1)]
    <3>1. CASE x <= n
      <4>1. x \in 1..n
        BY <1>6, <3>1
      <4> QED BY <1>3, <1>9, <3>1, <4>1
    <3>2. CASE ~(x <= n)
      <4>1. /\ x - n \in 1..k /\ start.at + x - 1 \in Int
            /\ Around(start.at + x - 1) = tail + (x - n) - 1
        <5> DEFINE s == start.at
        <5>1. /\ Size \in Nat /\ tail \in 0..(Size - 1) /\ s \in 0..(Size - 1)
              /\ n \in Nat /\ k \in Nat /\ tail + k <= Size /\ x \in 1..(n + k) /\ x > n
              /\ tail = s + n \/ tail = s + n - Size
          BY <1>3, <1>4, <1>6, <3>2
        <5> HIDE DEF s
        <5>2. x - n \in 1..k /\ s + x - 1 \in Int /\ Around(s + x - 1) = tail + (x - n) - 1
          BY <5>1 DEF Around
        <5> QED BY <5>2 DEF s
      <4>2. Taken(k)[x - n] = buf[tail + (x - n) - 1]
        BY <1>8, <4>1
      <4> QED BY <1>9, <3>2, <4>1, <4>2
    <3> QED BY <3>1, <3>2
  <2>2. /\ _cnt(head', start'.at, Size) = avail /\ start'.at = start.at
        /\ start'.size = start.size
    BY <1>1, <1>7 DEF avail
  <2>3. tail' = start.at + (n + k) \/ tail' = start.at + (n + k) - Size
    <3> DEFINE s == start.at
    <3>1. /\ s \in Int /\ n \in Int /\ k \in Int /\ Size \in Int /\ tail' = tail + k
          /\ tail = s + n \/ tail = s + n - Size
      BY <1>3, <1>4, <1>6, <1>7
    <3> HIDE DEF s
    <3>2. tail' = s + (n + k) \/ tail' = s + (n + k) - Size
      BY <3>1
    <3> QED BY <3>2 DEF s
  <2> QED BY <1>1, <1>6, <1>7, <1>9, <2>1, <2>2, <2>3 DEF Reading, Placed
<1>13. Passing'
  BY <1>1, <1>12 DEF Passing
<1>14. _cnt(head', tail', Size) <= rest
  <2>1. _cnt(head', tail', Size) = IF head' < tail' THEN head' + Size - tail'
                                   ELSE IF head' - tail' < Size THEN head' - tail' ELSE 0
    BY <1>10, CntIs DEF RingTypes
  <2> QED BY <1>4, <1>6, <1>7, <2>1
<1>15. Loaded' /\ OwnCountKept'
  <2>1. /\ \A u \in Users : pc'[u] = pc[u] \/ {pc[u], pc'[u]} \cap Counting = {}
        /\ \A u \in Users : cnt'[u] \in {Junk, cnt[u]}
        /\ cnt'[th] = Junk /\ pc'[th] \notin Counting
    BY <1>1, <1>2 DEF Counting
  <2>2. \A u \in Readers : Readers = {u} => cnt'[u] = Junk /\ pc'[u] \notin Counting
    BY <1>1, <2>1
  <2>3. \A u \in Writers : head' = head /\ head \in Cells
                           /\ _cnt(head, tail, Size)' <= _cnt(head, tail, Size)
    BY <1>2, <1>7, <1>14 DEF rest
  <2> QED BY <1>1, <1>10, <2>1, <2>2, <2>3, CountsKept
<1> QED BY <1>10, <1>11, <1>13, <1>15
-----------------------------------------------------------------------------
(* The invariant.                                                             *)

LEMMA RingStarts ==
    ASSUME SizeAssumption, LenAssumption, ThreadsAssumption, RingInit
    PROVE  RingInv
<1>1. RingTypes
  <2>1. <<>> \in Seq(Bytes) /\ <<>> \in Seq(Bytes \cup {Junk}) /\ 0 \in Nat
    OBVIOUS
  <2> QED BY <2>1 DEF RingInit, RingTypes, SizeAssumption, LenAssumption, Cells, RingPCs, Users
<1>2. None \notin Users /\ 0 \in Cells
  BY DEF ThreadsAssumption, Users, SizeAssumption, Cells
<1>3. Locked /\ Passing /\ Loaded /\ OwnCountKept
  BY <1>2 DEF RingInit, Locked, Passing, Loaded, OwnCountKept, Passes, Counting, Users, Unloaded
<1> QED BY <1>1, <1>3 DEF RingInv

LEMMA RingStep == RingInv /\ [RingNext]_ringVars => RingInv'
<1> USE SizeAssumption, LenAssumption, ThreadsAssumption, JunkAssumption
<1>1. SUFFICES ASSUME RingInv, [RingNext]_ringVars
               PROVE  RingInv'
  OBVIOUS
<1>2. ASSUME NEW th \in Pollers, GetCnt(th, IF th \in Writers THEN "space" ELSE "data")
      PROVE  RingInv'
  <2>1. th \in Users /\ (IF th \in Writers THEN "space" ELSE "data") \in Counting
    BY DEF ThreadsAssumption, Users, Counting
  <2> QED BY <1>1, <1>2, <2>1, CounterStep
<1>3. CASE UNCHANGED ringVars
  <2>1. UNCHANGED <<buf, head, tail, mutex, pc, data, left, out, loads, cnt, done, start>>
    BY <1>3 DEF ringVars
  <2>2. Passing'
    BY <1>1, <2>1, PassesFrame DEF ring
  <2> QED BY <1>1, <2>1, <2>2 DEF RingInv, RingTypes, Locked, Loaded, OwnCountKept, Actual
<1>4. ASSUME NEW th \in Users,
             \/ Reduce(th) \/ WriteSecond(th) \/ ReadSecond(th) \/ Finish(th)
             \/ LoadHead(th) \/ LoadTail(th) \/ GetCntReturns(th)
      PROVE  RingInv'
  BY <1>1, <1>4, ReduceStep, WriteSecondStep, ReadSecondStep, FinishStep, CounterStep
<1> QED BY <1>1, <1>2, <1>3, <1>4, WriteStep, ReadStep DEF RingNext

LEMMA RingInvariant == RingSpec => []RingInv
<1>1. RingInit => RingInv
  BY RingStarts, SizeAssumption, LenAssumption, ThreadsAssumption
<1> QED BY <1>1, RingStep, PTL DEF RingSpec

\* Whatever the other side does between the two loads of
\* simple_circ_buf_get_space_cnt (get_data_cnt) and after them, and between the
\* two stores of its index, the only writer (reader) finds at least the space
\* (data) it counted.
THEOREM OwnCountHolds == RingSpec => []OwnCountKept
<1>1. RingInv => OwnCountKept
  BY DEF RingInv
<1> QED BY RingInvariant, <1>1, PTL
-----------------------------------------------------------------------------
(* The ring implements the queue.                                             *)

To == Committed(head, Writers)
From == Committed(tail, Readers)

\* The bytes in b from index t up to index h.
Contents(b, h, t) == [x \in 1.._cnt(h, t, Size) |-> b[(t + x - 1) % Size]]

LEMMA DistanceIs ==
    ASSUME SizeAssumption, NEW h \in Cells, NEW t \in Cells
    PROVE  /\ Size \in Nat \ {0} /\ h \in 0..(Size - 1) /\ t \in 0..(Size - 1)
           /\ _cnt(h, t, Size) \in 0..(Size - 1)
           /\ _cnt(h, t, Size) = IF h < t THEN h + Size - t ELSE h - t
<1>1. /\ Size \in Nat \ {0} /\ h \in 0..(Size - 1) /\ t \in 0..(Size - 1) /\ h \in 0..Size
      /\ t \in 0..Size
  BY DEF SizeAssumption, Cells
<1>2. /\ _cnt(h, t, Size) \in Cells
      /\ _cnt(h, t, Size) = IF h < t THEN h + Size - t ELSE IF h - t < Size THEN h - t ELSE 0
  BY <1>1, CntIs
<1> QED BY <1>1, <1>2 DEF Cells

LEMMA AroundIs ==
    ASSUME SizeAssumption, NEW t \in Cells, NEW x \in 1..(Size - 1)
    PROVE  (t + x - 1) % Size = Around(t + x - 1) /\ Around(t + x - 1) \in Cells
<1>1. Size \in Nat \ {0} /\ t \in 0..(Size - 1)
  BY DEF SizeAssumption, Cells
<1> DEFINE a == t + x - 1
<1>2. a \in Nat /\ a < 2 * Size /\ a <= 2 * Size
  BY <1>1
<1> HIDE DEF a
<1>3. a % Size = IF a < Size THEN a ELSE IF a < 2 * Size THEN a - Size ELSE 0
  BY <1>1, <1>2, Remainder
<1>4. a % Size = Around(a) /\ Around(a) \in Cells
  BY <1>1, <1>2, <1>3 DEF Around, Cells
<1> QED BY <1>4 DEF a

LEMMA ContentsIs ==
    ASSUME SizeAssumption, NEW T, NEW b \in [Cells -> T], NEW h \in Cells, NEW t \in Cells
    PROVE  /\ Contents(b, h, t) \in Seq(T) /\ Len(Contents(b, h, t)) = _cnt(h, t, Size)
           /\ \A x \in 1.._cnt(h, t, Size) :
                 Around(t + x - 1) \in Cells /\ Contents(b, h, t)[x] = b[Around(t + x - 1)]
<1> DEFINE c == _cnt(h, t, Size)
<1>1. Size \in Nat \ {0} /\ c \in 0..(Size - 1)
  BY DistanceIs
<1>2. Contents(b, h, t) = [x \in 1..c |-> b[(t + x - 1) % Size]]
  BY DEF Contents
<1> HIDE DEF c
<1>3. ASSUME NEW x \in 1..c
      PROVE  (t + x - 1) % Size = Around(t + x - 1) /\ Around(t + x - 1) \in Cells
  BY <1>1, AroundIs
<1>4. \A x \in 1..c : b[(t + x - 1) % Size] \in T
  BY <1>3
<1>5. Contents(b, h, t) \in Seq(T) /\ Len(Contents(b, h, t)) = c
  BY <1>1, <1>2, <1>4
<1>6. \A x \in 1..c : Contents(b, h, t)[x] = b[Around(t + x - 1)]
  BY <1>2, <1>3
<1> QED BY <1>3, <1>5, <1>6 DEF c

LEMMA StoredIs ==
    ASSUME SizeAssumption, RingInv
    PROVE  stored = Contents(buf, To, From) /\ To \in Cells /\ From \in Cells
BY DEF stored, Contents, To, From, Committed, RingInv, RingTypes, Locked

\* Cells that a pass writes lie beyond what is stored.
LEMMA SameContents ==
    ASSUME SizeAssumption, NEW b, NEW c, NEW h \in Cells, NEW t \in Cells,
           \A x \in 1.._cnt(h, t, Size) : c[Around(t + x - 1)] = b[Around(t + x - 1)]
    PROVE  Contents(c, h, t) = Contents(b, h, t)
<1> DEFINE m == _cnt(h, t, Size)
<1>1. Size \in Nat \ {0} /\ m \in 0..(Size - 1)
  BY DistanceIs
<1>2. /\ Contents(b, h, t) = [x \in 1..m |-> b[(t + x - 1) % Size]]
      /\ Contents(c, h, t) = [x \in 1..m |-> c[(t + x - 1) % Size]]
      /\ \A x \in 1..m : c[Around(t + x - 1)] = b[Around(t + x - 1)]
  BY DEF Contents
<1> HIDE DEF m
<1>3. \A x \in 1..m : (t + x - 1) % Size = Around(t + x - 1)
  BY <1>1, AroundIs
<1> QED BY <1>2, <1>3

\* A pass of a write over k cells from i, which is n cells after the committed
\* index h, that stays in the space there was.
PassOver(b, c, h, t, i, n, k) ==
    /\ h \in Cells /\ t \in Cells /\ i \in 0..Size /\ n \in Nat /\ k \in Nat
    /\ i = h + n \/ i = h + n - Size
    /\ n + k <= Size - 1 - _cnt(h, t, Size) /\ i + k <= Size
    /\ \A x \in Cells : x < i \/ x >= i + k => c[x] = b[x]

LEMMA PassBeyond ==
    ASSUME SizeAssumption, NEW b, NEW c, NEW h, NEW t, NEW i, NEW n, NEW k,
           PassOver(b, c, h, t, i, n, k)
    PROVE  Contents(c, h, t) = Contents(b, h, t)
<1>0. /\ h \in Cells /\ t \in Cells /\ i \in 0..Size /\ n \in Nat /\ k \in Nat
      /\ i = h + n \/ i = h + n - Size
      /\ n + k <= Size - 1 - _cnt(h, t, Size) /\ i + k <= Size
      /\ \A x \in Cells : x < i \/ x >= i + k => c[x] = b[x]
  BY DEF PassOver
<1> DEFINE m == _cnt(h, t, Size)
<1>1. /\ Size \in Nat \ {0} /\ h \in 0..(Size - 1) /\ t \in 0..(Size - 1)
      /\ m \in 0..(Size - 1) /\ m = IF h < t THEN h + Size - t ELSE h - t
  BY <1>0, DistanceIs
<1>2. n + k <= Size - 1 - m
  BY <1>0
<1> HIDE DEF m
<1>3. ASSUME NEW x \in 1..m
      PROVE  c[Around(t + x - 1)] = b[Around(t + x - 1)]
  <2> DEFINE a == Around(t + x - 1)
  <2>1. a = IF t + x - 1 >= Size THEN t + x - 1 - Size ELSE t + x - 1
    BY <1>1 DEF Around
  <2>2. a \in Cells
    BY <1>0, <1>1, AroundIs
  <2> HIDE DEF a
  <2>3. a < i \/ a >= i + k
    BY <1>0, <1>1, <1>2, <2>1
  <2> QED BY <1>0, <2>2, <2>3 DEF a
<1> QED BY <1>0, <1>3, SameContents DEF m

\* The bytes at the committed index, up to the new one, join what is stored.
LEMMA Grows ==
    ASSUME SizeAssumption, NEW T, NEW b \in [Cells -> T], NEW h \in Cells, NEW t \in Cells,
           NEW g \in Cells, NEW s \in Seq(T), Len(s) <= Size - 1 - _cnt(h, t, Size),
           g = h + Len(s) \/ g = h + Len(s) - Size,
           \A x \in 1..Len(s) : b[Around(h + x - 1)] = s[x]
    PROVE  Contents(b, g, t) = Contents(b, h, t) \o s
<1> DEFINE m == _cnt(h, t, Size)
           p == _cnt(g, t, Size)
           n == Len(s)
           old == Contents(b, h, t)
           new == Contents(b, g, t)
<1>1. /\ Size \in Nat \ {0} /\ h \in 0..(Size - 1) /\ t \in 0..(Size - 1)
      /\ m \in 0..(Size - 1) /\ m = IF h < t THEN h + Size - t ELSE h - t
  BY DistanceIs
<1>2. /\ g \in 0..(Size - 1)
      /\ p \in 0..(Size - 1) /\ p = IF g < t THEN g + Size - t ELSE g - t
  BY DistanceIs
<1>3. /\ n \in Nat /\ n <= Size - 1 - m /\ (g = h + n \/ g = h + n - Size)
      /\ \A x \in 1..n : b[Around(h + x - 1)] = s[x]
  OBVIOUS
<1>4. /\ old \in Seq(T) /\ Len(old) = m
      /\ \A x \in 1..m : Around(t + x - 1) \in Cells /\ old[x] = b[Around(t + x - 1)]
  BY ContentsIs
<1>5. /\ new \in Seq(T) /\ Len(new) = p
      /\ \A x \in 1..p : Around(t + x - 1) \in Cells /\ new[x] = b[Around(t + x - 1)]
  BY ContentsIs
<1> HIDE DEF m, p, old, new
<1>6. /\ old \o s \in Seq(T) /\ Len(old \o s) = m + n
      /\ \A x \in 1..(m + n) : (old \o s)[x] = IF x <= m THEN old[x] ELSE s[x - m]
  <2>1. /\ old \o s \in Seq(T) /\ Len(old \o s) = Len(old) + Len(s)
        /\ \A x \in 1..(Len(old) + Len(s)) :
              (old \o s)[x] = IF x <= Len(old) THEN old[x] ELSE s[x - Len(old)]
    BY <1>4, ConcatProperties
  <2> QED BY <1>4, <2>1
<1> HIDE DEF n
<1>7. p = m + n
  BY <1>1, <1>2, <1>3
<1>8. ASSUME NEW x \in 1..p
      PROVE  new[x] = (old \o s)[x]
  <2>1. CASE x <= m
    <3>1. x \in 1..m
      BY <1>1, <2>1
    <3> QED BY <1>4, <1>5, <1>6, <1>7, <2>1, <3>1
  <2>2. CASE ~(x <= m)
    <3>1. x - m \in 1..n /\ Around(h + (x - m) - 1) = Around(t + x - 1)
      BY <1>1, <1>2, <1>3, <1>7, <2>2 DEF Around
    <3> QED BY <1>3, <1>5, <1>6, <1>7, <2>2, <3>1
  <2> QED BY <2>1, <2>2
<1>9. new = old \o s
  BY <1>5, <1>6, <1>7, <1>8, SameSeq
<1> QED BY <1>9 DEF new, old

\* The bytes from the committed index are the first of what is stored.
LEMMA Firsts ==
    ASSUME SizeAssumption, NEW T, NEW b \in [Cells -> T], NEW h \in Cells, NEW t \in Cells,
           NEW s \in Seq(T), Len(s) <= _cnt(h, t, Size),
           \A x \in 1..Len(s) : s[x] = b[Around(t + x - 1)]
    PROVE  s = SubSeq(Contents(b, h, t), 1, Len(s))
<1> DEFINE m == _cnt(h, t, Size)
           n == Len(s)
           old == Contents(b, h, t)
           first == SubSeq(old, 1, n)
<1>1. /\ m \in Nat /\ n \in Nat /\ n <= m /\ s \in Seq(T) /\ Len(s) = n
      /\ \A x \in 1..n : s[x] = b[Around(t + x - 1)]
  BY DistanceIs
<1>2. old \in Seq(T) /\ Len(old) = m /\ \A x \in 1..m : old[x] = b[Around(t + x - 1)]
  BY ContentsIs
<1> HIDE DEF m, n, old
<1>3. first \in Seq(T) /\ Len(first) = n /\ \A x \in 1..n : first[x] = old[x]
  <2>1. 0 \in Nat /\ 0 <= n /\ n <= Len(old) /\ 0 + 1 = 1
    BY <1>1, <1>2
  <2>2. /\ first \in Seq(T) /\ Len(first) = n - 0
        /\ \A x \in 1..(n - 0) : first[x] = old[0 + x]
    BY <1>1, <1>2, <2>1, Pieces
  <2> QED BY <1>1, <2>2
<1> HIDE DEF first
<1>4. \A x \in 1..n : s[x] = first[x]
  <2>1. \A x \in 1..n : x \in 1..m
    BY <1>1
  <2> QED BY <1>1, <1>2, <1>3, <2>1
<1>5. s = first
  BY <1>1, <1>3, <1>4, SameSeq
<1> QED BY <1>5 DEF first, n, old

\* A new index that lies past them leaves the rest.
LEMMA Shrinks ==
    ASSUME SizeAssumption, NEW T, NEW b \in [Cells -> T], NEW h \in Cells, NEW t \in Cells,
           NEW f \in Cells, NEW s \in Seq(T), Len(s) <= _cnt(h, t, Size),
           f = t + Len(s) \/ f = t + Len(s) - Size
    PROVE  Contents(b, h, f) = SubSeq(Contents(b, h, t), Len(s) + 1, _cnt(h, t, Size))
<1> DEFINE m == _cnt(h, t, Size)
           n == Len(s)
           p == _cnt(h, f, Size)
           old == Contents(b, h, t)
           new == Contents(b, h, f)
           rest == SubSeq(old, n + 1, m)
<1>1. /\ Size \in Nat \ {0} /\ h \in 0..(Size - 1) /\ t \in 0..(Size - 1)
      /\ m \in 0..(Size - 1) /\ m = IF h < t THEN h + Size - t ELSE h - t
  BY DistanceIs
<1>2. /\ f \in 0..(Size - 1)
      /\ p \in 0..(Size - 1) /\ p = IF h < f THEN h + Size - f ELSE h - f
  BY DistanceIs
<1>3. n \in Nat /\ n <= m /\ (f = t + n \/ f = t + n - Size)
  OBVIOUS
<1>4. /\ old \in Seq(T) /\ Len(old) = m
      /\ \A x \in 1..m : Around(t + x - 1) \in Cells /\ old[x] = b[Around(t + x - 1)]
  BY ContentsIs
<1>5. /\ new \in Seq(T) /\ Len(new) = p
      /\ \A x \in 1..p : Around(f + x - 1) \in Cells /\ new[x] = b[Around(f + x - 1)]
  BY ContentsIs
<1> HIDE DEF m, n, p, old, new
<1>6. p = m - n
  BY <1>1, <1>2, <1>3
<1>7. /\ rest \in Seq(T) /\ Len(rest) = m - n
      /\ \A x \in 1..(m - n) : rest[x] = old[n + x]
  <2>1. m \in Nat /\ m <= Len(old)
    BY <1>1, <1>4
  <2> QED BY <1>3, <1>4, <2>1, Pieces
<1> HIDE DEF rest
<1>8. ASSUME NEW x \in 1..p
      PROVE  new[x] = rest[x]
  <2>1. /\ x \in 1..(m - n) /\ n + x \in 1..m
        /\ Around(t + (n + x) - 1) = Around(f + x - 1)
    BY <1>1, <1>2, <1>3, <1>6 DEF Around
  <2> QED BY <1>4, <1>5, <1>7, <2>1
<1>9. new = rest
  BY <1>5, <1>6, <1>7, <1>8, SameSeq
<1> QED BY <1>9 DEF new, old, rest, m, n

\* The step of the queue that shows nothing.
LEMMA Unseen ==
    ASSUME Contents(buf', To', From') = Contents(buf, To, From), done' = done
    PROVE  [F!FifoNext]_(F!fifoVars)
<1>1. stored = Contents(buf, To, From) /\ stored' = Contents(buf', To', From')
  BY DEF stored, Contents, To, From
<1> QED BY <1>1 DEF F!fifoVars

LEMMA WriteUnseen ==
    ASSUME SizeAssumption, LenAssumption, ThreadsAssumption, JunkAssumption, RingInv,
           NEW th \in Writers, NEW bytes \in Data, Write(th, bytes)
    PROVE  [F!FifoNext]_(F!fifoVars)
<1> DEFINE n == _circ_space_to_end(head, tail, Size)
           k == Lesser(Len(bytes), n)
<1>1. /\ th \in Users /\ th \notin Readers /\ mutex = None /\ None \notin Users
      /\ head \in Cells /\ tail \in Cells /\ RingTypes
      /\ bytes \in Seq(Bytes) /\ Len(bytes) \in Nat
  BY DataIs DEF Write, Users, Locked, ThreadsAssumption, RingInv
<1>2. /\ mutex' = th /\ start' = [at |-> head, size |-> Len(bytes)]
      /\ Put(bytes, k) /\ done' = done
  BY DEF Write
<1>3. n = Lesser(_space(head, tail, Size), Size - head)
  BY <1>1, ToEnd
<1>4. /\ Size \in Nat /\ head \in 0..(Size - 1) /\ tail \in 0..(Size - 1)
      /\ _space(head, tail, Size) = Size - 1 - _cnt(head, tail, Size)
      /\ _cnt(head, tail, Size) \in 0..(Size - 1)
  BY <1>1, Numbers DEF Cells
<1> HIDE DEF n
<1>5. /\ k \in Nat /\ k <= Len(bytes) /\ head + k <= Size
      /\ 0 + k <= Size - 1 - _cnt(head, tail, Size)
  BY <1>1, <1>3, <1>4 DEF Lesser
<1> HIDE DEF k
<1>6. \A x \in Cells : x < head \/ x >= head + k => buf'[x] = buf[x]
  BY <1>1, <1>2, <1>5, PutCells
<1>7. tail' = tail
  BY <1>2 DEF Put
<1>8. To = head /\ To' = head /\ From = tail /\ From' = tail
  BY <1>1, <1>2, <1>7 DEF To, From, Committed, Users
<1>9. head \in 0..Size /\ 0 \in Nat /\ (head = head + 0 \/ head = head + 0 - Size)
  BY <1>4
<1>10. PassOver(buf, buf', head, tail, head, 0, k)
  BY <1>1, <1>5, <1>6, <1>9 DEF PassOver
<1>11. Contents(buf', head, tail) = Contents(buf, head, tail)
  BY <1>10, PassBeyond
<1> QED BY <1>2, <1>8, <1>11, Unseen

LEMMA WriteSecondUnseen ==
    ASSUME SizeAssumption, LenAssumption, ThreadsAssumption, JunkAssumption, RingInv,
           NEW th \in Users, WriteSecond(th)
    PROVE  [F!FifoNext]_(F!fifoVars)
<1> DEFINE room == _circ_space_to_end(head, tail, Size)
           k == Lesser(Len(data[th]), room)
           n == Len(out[th])
           m == _cnt(start.at, tail, Size)
           s == start.at
<1>1. /\ th \in Writers /\ th \notin Readers /\ pc[th] = "second" /\ mutex = th
      /\ Put(data[th], k) /\ UNCHANGED <<mutex, start, done>>
      /\ data[th] \in Seq(Bytes) /\ Len(data[th]) \in Nat /\ n \in Nat /\ RingTypes
  BY DEF WriteSecond, Locked, Passes, RingTypes, RingInv, ThreadsAssumption
<1>2. Writing(th) /\ tail \in Cells /\ start.at \in Cells
  BY <1>1 DEF RingInv, Passing, Locked, RingTypes
<1>3. /\ n <= _space(start.at, tail, Size) /\ Placed(head, n) /\ head \in Cells
      /\ (n = _space(start.at, tail, Size) \/ head = 0)
  BY <1>1, <1>2 DEF Writing
<1>4. room = Lesser(_space(head, tail, Size), Size - head)
  BY <1>2, <1>3, ToEnd
<1>5. /\ Size \in Nat \ {0} /\ head \in 0..(Size - 1) /\ tail \in 0..(Size - 1)
      /\ s \in 0..(Size - 1) /\ m \in 0..(Size - 1)
      /\ m = IF s < tail THEN s + Size - tail ELSE s - tail
  BY <1>2, <1>3, DistanceIs DEF Cells
<1>6. /\ _cnt(head, tail, Size) \in 0..(Size - 1)
      /\ _cnt(head, tail, Size) = IF head < tail THEN head + Size - tail ELSE head - tail
  BY <1>2, <1>3, DistanceIs
<1>7. /\ _space(head, tail, Size) = Size - 1 - _cnt(head, tail, Size)
      /\ _space(start.at, tail, Size) = Size - 1 - m
  BY <1>1, <1>2, <1>3, Numbers
<1> HIDE DEF room, n, m
<1>8. (head = s + n \/ head = s + n - Size) /\ n <= Size - 1 - m /\ n \in Nat
      /\ (n = Size - 1 - m \/ head = 0)
  BY <1>1, <1>3, <1>7 DEF Placed
<1> HIDE DEF s
<1>9. _cnt(head, tail, Size) = m + n
  BY <1>5, <1>6, <1>8
<1>10. /\ k \in Nat /\ k <= Len(data[th]) /\ head + k <= Size /\ n + k <= Size - 1 - m
  <2> DEFINE L == Len(data[th])
             space == _space(head, tail, Size)
  <2>1. L \in Nat /\ space = Size - 1 - (m + n)
    BY <1>1, <1>7, <1>9
  <2>2. room = Lesser(space, Size - head) /\ k = Lesser(L, room)
    BY <1>4
  <2> HIDE DEF L, space, k
  <2>3. k \in Nat /\ k <= L /\ head + k <= Size /\ n + k <= Size - 1 - m
    BY <1>5, <1>8, <2>1, <2>2 DEF Lesser
  <2> QED BY <2>3 DEF L
<1> HIDE DEF k
<1>11. \A x \in Cells : x < head \/ x >= head + k => buf'[x] = buf[x]
  BY <1>1, <1>10, PutCells
<1>12. tail' = tail
  BY <1>1 DEF Put
<1>13. To = s /\ To' = s /\ From = tail /\ From' = tail
  BY <1>1, <1>12 DEF To, From, Committed, s
<1>14. s \in Cells /\ head \in 0..Size /\ n + k <= Size - 1 - _cnt(s, tail, Size)
  BY <1>2, <1>5, <1>10 DEF s, m
<1>15. PassOver(buf, buf', s, tail, head, n, k)
  BY <1>2, <1>8, <1>10, <1>11, <1>14 DEF PassOver
<1>16. Contents(buf', s, tail) = Contents(buf, s, tail)
  BY <1>15, PassBeyond
<1> QED BY <1>1, <1>13, <1>16, Unseen

\* A read's passes, the reductions between the passes and the counters leave the
\* cells and the committed indices alone.
LEMMA OthersUnseen ==
    ASSUME SizeAssumption, LenAssumption, ThreadsAssumption, JunkAssumption, RingInv,
           NEW th \in Users,
           \/ th \in Readers /\ \E size \in 0..MaxBytes : Read(th, size)
           \/ Reduce(th) \/ ReadSecond(th)
           \/ UNCHANGED ring
    PROVE  [F!FifoNext]_(F!fifoVars)
<1> USE DEF To, From, Committed
<1>1. CASE th \in Readers /\ \E size \in 0..MaxBytes : Read(th, size)
  <2>1. /\ mutex = None /\ mutex' = th /\ start'.at = tail /\ buf' = buf /\ head' = head
        /\ done' = done /\ th \notin Writers /\ None \notin Readers /\ None \notin Writers
    BY <1>1 DEF Read, Take, ThreadsAssumption
  <2>2. To' = To /\ From' = From
    BY <1>1, <2>1
  <2> QED BY <2>1, <2>2, Unseen
<1>2. CASE Reduce(th)
  <2>1. /\ UNCHANGED <<buf, mutex, start, done>> /\ mutex = th
        /\ (th \in Writers /\ th \notin Readers /\ tail' = tail)
           \/ (th \in Readers /\ th \notin Writers /\ head' = head)
    <3>1. UNCHANGED <<buf, mutex, start, done>> /\ pc[th] \in Passes /\ ReduceIndex(th)
      BY <1>2 DEF Reduce, Passes
    <3>2. mutex = th
      BY <3>1 DEF RingInv, Locked
    <3> QED BY <3>1, <3>2 DEF ReduceIndex, ThreadsAssumption, Users
  <2>2. To' = To /\ From' = From
    BY <2>1
  <2> QED BY <2>1, <2>2, Unseen
<1>3. CASE ReadSecond(th)
  <2>1. /\ UNCHANGED <<buf, mutex, start, done, head>> /\ mutex = th
        /\ th \in Readers /\ th \notin Writers
    BY <1>3 DEF ReadSecond, Take, RingInv, Locked, Passes, ThreadsAssumption
  <2>2. To' = To /\ From' = From
    BY <2>1
  <2> QED BY <2>1, <2>2, Unseen
<1>4. CASE UNCHANGED ring
  <2>1. buf' = buf /\ done' = done /\ To' = To /\ From' = From
    BY <1>4 DEF ring
  <2> QED BY <2>1, Unseen
<1> QED BY <1>1, <1>2, <1>3, <1>4

\* The unlock of a write is the write of the queue: what fits of its bytes.
LEMMA WriteSeen ==
    ASSUME SizeAssumption, LenAssumption, ThreadsAssumption, JunkAssumption, RingInv,
           NEW th \in Writers, Finish(th)
    PROVE  F!FifoNext
<1> DEFINE n == Len(out[th])
           s == start.at
           m == _cnt(start.at, tail, Size)
           free == _space(start.at, tail, Size)
<1>1. /\ th \in Users /\ th \notin Readers /\ pc[th] = "reduce2" /\ ReduceIndex(th)
      /\ mutex = th /\ mutex' = None /\ buf' = buf /\ RingTypes /\ None \notin Users
      /\ done' = [by |-> th, size |-> start.size, bytes |-> out[th]]
  BY DEF Finish, RingInv, Locked, Passes, Users, ThreadsAssumption
<1>2. /\ Writing(th) /\ tail \in Cells /\ s \in Cells /\ buf \in [Cells -> Bytes \cup {Junk}]
      /\ out[th] \in Seq(Bytes \cup {Junk}) /\ n \in Nat
  BY <1>1 DEF RingInv, Passing, Locked, RingTypes
<1>3. PICK d \in Data : Len(d) = start.size /\ out[th] = SubSeq(d, 1, n) /\ n = Lesser(Len(d), free)
  BY <1>1, <1>2 DEF Writing
<1>4. /\ n <= free /\ (head = s + n \/ head = s + n - Size)
      /\ \A x \in 1..n : buf[Around(s + x - 1)] = out[th][x]
  BY <1>2 DEF Writing, Placed
<1>5. /\ head' \in Cells /\ tail' = tail /\ head' = IF head = Size THEN 0 ELSE head
  BY <1>1, ReduceIndexIs
<1>6. free = Size - 1 - m
  BY <1>1, <1>2, Numbers
<1>7. Size \in Nat /\ head \in 0..Size /\ s \in 0..(Size - 1) /\ m \in 0..(Size - 1)
  BY <1>1, <1>2, Numbers DEF Cells
<1>8. head' = s + n \/ head' = s + n - Size
  BY <1>2, <1>4, <1>5, <1>6, <1>7
<1>9. To = s /\ To' = head' /\ From = tail /\ From' = tail
  BY <1>1, <1>5 DEF To, From, Committed, Users
<1>10. Contents(buf, head', tail) = Contents(buf, s, tail) \o out[th]
  <2> DEFINE g == head'
             w == out[th]
             T == Bytes \cup {Junk}
  <2>1. /\ buf \in [Cells -> T] /\ s \in Cells /\ tail \in Cells /\ g \in Cells /\ w \in Seq(T)
        /\ Len(w) <= Size - 1 - _cnt(s, tail, Size) /\ (g = s + Len(w) \/ g = s + Len(w) - Size)
        /\ \A x \in 1..Len(w) : buf[Around(s + x - 1)] = w[x]
    BY <1>2, <1>4, <1>5, <1>6, <1>8
  <2> HIDE DEF g, w, T, s
  <2>2. Contents(buf, g, tail) = Contents(buf, s, tail) \o w
    BY <2>1, Grows
  <2> QED BY <2>2 DEF g, w
<1>11. stored = Contents(buf, s, tail) /\ stored' = Contents(buf, head', tail)
  <2>1. stored = Contents(buf, To, From) /\ stored' = Contents(buf', To', From')
    BY DEF stored, Contents, To, From
  <2> QED BY <1>1, <1>9, <2>1
<1>12. Len(stored) = m
  BY <1>2, <1>11, ContentsIs
<1>13. n = F!Least(Len(d), Size - 1 - Len(stored))
  <2>1. Len(d) \in Nat
    BY DataIs
  <2> QED BY <1>3, <1>6, <1>7, <1>12, <2>1 DEF Lesser, F!Least
<1>14. F!FifoWrite(th, d)
  <2>1. stored' = stored \o SubSeq(d, 1, n)
    BY <1>3, <1>10, <1>11
  <2>2. done' = [by |-> th, size |-> Len(d), bytes |-> SubSeq(d, 1, n)]
    BY <1>1, <1>3
  <2> HIDE DEF n
  <2> QED BY <1>13, <2>1, <2>2 DEF F!FifoWrite
<1> QED BY <1>14 DEF F!FifoNext

\* The unlock of a read is the read of the queue: what there is of what it asked.
LEMMA ReadSeen ==
    ASSUME SizeAssumption, LenAssumption, ThreadsAssumption, JunkAssumption, RingInv,
           NEW th \in Readers, Finish(th)
    PROVE  F!FifoNext
<1> DEFINE n == Len(out[th])
           s == start.at
           m == _cnt(head, start.at, Size)
<1>1. /\ th \in Users /\ th \notin Writers /\ pc[th] = "reduce2" /\ ReduceIndex(th)
      /\ mutex = th /\ mutex' = None /\ buf' = buf /\ RingTypes /\ None \notin Users
      /\ done' = [by |-> th, size |-> start.size, bytes |-> out[th]]
  BY DEF Finish, RingInv, Locked, Passes, Users, ThreadsAssumption
<1>2. /\ Reading(th) /\ head \in Cells /\ s \in Cells /\ buf \in [Cells -> Bytes \cup {Junk}]
      /\ out[th] \in Seq(Bytes \cup {Junk}) /\ n \in Nat /\ start.size \in 0..MaxBytes
  BY <1>1 DEF RingInv, Passing, Locked, RingTypes
<1>3. /\ n <= m /\ (tail = s + n \/ tail = s + n - Size) /\ n = Lesser(start.size, m)
      /\ \A x \in 1..n : out[th][x] = buf[Around(s + x - 1)]
  BY <1>1, <1>2 DEF Reading, Placed
<1>4. /\ tail' \in Cells /\ head' = head /\ tail' = IF tail = Size THEN 0 ELSE tail
  BY <1>1, ReduceIndexIs
<1>5. /\ Size \in Nat /\ tail \in 0..Size /\ s \in 0..(Size - 1) /\ m \in 0..(Size - 1)
      /\ start.size \in Nat
  BY <1>1, <1>2, Numbers DEF Cells, LenAssumption
<1>6. tail' = s + n \/ tail' = s + n - Size
  BY <1>2, <1>3, <1>4, <1>5
<1>7. To = head /\ To' = head /\ From = s /\ From' = tail'
  BY <1>1, <1>4 DEF To, From, Committed, Users
<1>8. stored = Contents(buf, head, s) /\ stored' = Contents(buf, head, tail')
  <2>1. stored = Contents(buf, To, From) /\ stored' = Contents(buf', To', From')
    BY DEF stored, Contents, To, From
  <2> QED BY <1>1, <1>7, <2>1
<1>9. Len(stored) = m
  BY <1>2, <1>8, ContentsIs
<1>10. stored' = SubSeq(stored, n + 1, Len(stored)) /\ out[th] = SubSeq(stored, 1, n)
  <2> DEFINE f == tail'
             w == out[th]
             T == Bytes \cup {Junk}
  <2>1. /\ buf \in [Cells -> T] /\ head \in Cells /\ s \in Cells /\ f \in Cells /\ w \in Seq(T)
        /\ Len(w) <= _cnt(head, s, Size) /\ (f = s + Len(w) \/ f = s + Len(w) - Size)
        /\ \A x \in 1..Len(w) : w[x] = buf[Around(s + x - 1)]
    BY <1>2, <1>3, <1>4, <1>6
  <2> HIDE DEF f, w, T, s
  <2>2. Contents(buf, head, f) = SubSeq(Contents(buf, head, s), Len(w) + 1, _cnt(head, s, Size))
    BY <2>1, Shrinks
  <2>3. w = SubSeq(Contents(buf, head, s), 1, Len(w))
    BY <2>1, Firsts
  <2> QED BY <1>8, <1>9, <2>2, <2>3 DEF f, w, s
<1>11. n = F!Least(start.size, Len(stored))
  BY <1>3, <1>5, <1>9 DEF Lesser, F!Least
<1>12. F!FifoRead(th, start.size)
  <2>1. done' = [by |-> th, size |-> start.size, bytes |-> SubSeq(stored, 1, n)]
    BY <1>1, <1>10
  <2> HIDE DEF n
  <2> QED BY <1>10, <1>11, <2>1 DEF F!FifoRead
<1> QED BY <1>2, <1>12 DEF F!FifoNext

LEMMA FifoStarts == RingInit => F!FifoInit
<1> USE SizeAssumption, LenAssumption, ThreadsAssumption
<1> SUFFICES ASSUME RingInit
             PROVE  F!FifoInit
  OBVIOUS
<1>1. 0 \in Cells /\ To = 0 /\ From = 0 /\ _cnt(0, 0, Size) = 0
  <2>1. 0 \in Cells /\ 0 \in 0..Size
    BY DEF SizeAssumption, Cells
  <2>2. To = 0 /\ From = 0
    BY DEF RingInit, To, From, Committed, ThreadsAssumption
  <2>3. _cnt(0, 0, Size) = 0
    BY <2>1, DistanceIs
  <2> QED BY <2>1, <2>2, <2>3
<1>2. stored = [x \in 1..0 |-> buf[(0 + x - 1) % Size]]
  <2>1. stored = Contents(buf, To, From)
    BY DEF stored, Contents, To, From
  <2> QED BY <1>1, <2>1 DEF Contents
<1>3. stored = <<>>
  BY <1>2
<1> QED BY <1>3 DEF RingInit, F!FifoInit

LEMMA FifoStep == RingInv /\ [RingNext]_ringVars => [F!FifoNext]_(F!fifoVars)
<1> USE SizeAssumption, LenAssumption, ThreadsAssumption, JunkAssumption
<1>1. SUFFICES ASSUME RingInv, [RingNext]_ringVars
               PROVE  [F!FifoNext]_(F!fifoVars)
  OBVIOUS
<1>2. ASSUME UNCHANGED ring
      PROVE  [F!FifoNext]_(F!fifoVars)
  <2>1. To' = To /\ From' = From /\ buf' = buf /\ done' = done
    BY <1>2 DEF ring, To, From, Committed
  <2> QED BY <2>1, Unseen
<1>3. ASSUME NEW th \in Users, Finish(th)
      PROVE  [F!FifoNext]_(F!fifoVars)
  BY <1>1, <1>3, WriteSeen, ReadSeen DEF Users
<1>4. ASSUME NEW th \in Users,
             \/ Reduce(th) \/ WriteSecond(th) \/ ReadSecond(th) \/ Finish(th)
             \/ LoadHead(th) \/ LoadTail(th) \/ GetCntReturns(th)
      PROVE  [F!FifoNext]_(F!fifoVars)
  <2>1. CASE LoadHead(th) \/ LoadTail(th) \/ GetCntReturns(th)
    BY <1>2, <2>1 DEF LoadHead, LoadTail, GetCntReturns
  <2> QED BY <1>1, <1>3, <1>4, <2>1, OthersUnseen, WriteSecondUnseen
<1>5. ASSUME NEW th \in Readers, NEW size \in 0..MaxBytes, Read(th, size)
      PROVE  [F!FifoNext]_(F!fifoVars)
  BY <1>1, <1>5, OthersUnseen DEF Users
<1>6. ASSUME NEW th \in Pollers, GetCnt(th, IF th \in Writers THEN "space" ELSE "data")
      PROVE  [F!FifoNext]_(F!fifoVars)
  BY <1>2, <1>6 DEF GetCnt
<1>7. CASE UNCHANGED ringVars
  BY <1>2, <1>7 DEF ringVars, ring
<1> QED BY <1>1, <1>4, <1>5, <1>6, <1>7, WriteUnseen DEF RingNext

\* simple_circ_buf_write and simple_circ_buf_read of any lengths, whatever their
\* passes wrap around and whoever counts meanwhile, are atomic writes and reads of
\* a bounded queue of bytes that take effect where they unlock.
THEOREM RingImplementsFifo == RingSpec => ImplementsByteFifo
BY FifoStarts, FifoStep, RingInvariant, PTL DEF RingSpec, ImplementsByteFifo, F!FifoSpec
=============================================================================
