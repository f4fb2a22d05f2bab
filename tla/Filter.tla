------------------------------- MODULE Filter -------------------------------
(* What a loop over a list keeps, by a recursive function rather than by      *)
(* SelectSeq, which has no definition that a proof could expand.              *)
EXTENDS Integers, Sequences

\* The elements of s that are in S, in their order.
OnlyIn(s, S) ==
    LET kept[k \in 0..Len(s)] ==
            IF k = 0 THEN <<>>
            ELSE IF s[k] \in S THEN Append(kept[k - 1], s[k]) ELSE kept[k - 1]
    IN  kept[Len(s)]
=============================================================================
