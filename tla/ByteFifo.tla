------------------------------ MODULE ByteFifo ------------------------------
(***************************************************************************)
(* What a circ_buf_t promises: a bounded first-in first-out queue of bytes *)
(* on which a write stores as much of its data as fits, a read takes as    *)
(* much as there is up to what was asked, and each reports how much.       *)
(***************************************************************************)
EXTENDS Naturals, Sequences

CONSTANTS Capacity, Writers, Readers, Data, Lengths, None

VARIABLES
    q,    \* the bytes stored
    out   \* the last operation: who made it, for how many
          \* bytes, and the bytes it stored or took

fifoVars == <<q, out>>

Least(a, b) == IF a <= b THEN a ELSE b

FifoInit == q = <<>> /\ out = [by |-> None, size |-> 0, bytes |-> <<>>]

FifoWrite(th, data) ==
    LET k == Least(Len(data), Capacity - Len(q))
        stored == SubSeq(data, 1, k)
    IN  /\ q' = q \o stored
        /\ out' = [by |-> th, size |-> Len(data), bytes |-> stored]

FifoRead(th, n) ==
    LET k == Least(n, Len(q))
    IN  /\ q' = SubSeq(q, k + 1, Len(q))
        /\ out' = [by |-> th, size |-> n, bytes |-> SubSeq(q, 1, k)]

FifoNext ==
    \/ \E th \in Writers, data \in Data : FifoWrite(th, data)
    \/ \E th \in Readers, n \in Lengths : FifoRead(th, n)

FifoSpec == FifoInit /\ [][FifoNext]_fifoVars
=============================================================================
