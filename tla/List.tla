-------------------------------- MODULE List --------------------------------
(***************************************************************************)
(* The intrusive doubly linked ring of include/simple/list.h: list heads   *)
(* and nodes are cells with prev and next, and every operation is a few    *)
(* pointer assignments whose order matters when cells coincide.  The       *)
(* variable seq says what each list is meant to hold; the properties       *)
(* compare the pointers with it.                                           *)
(***************************************************************************)
EXTENDS Naturals, Sequences, FiniteSets

CONSTANTS Heads, Nodes,
          Wild,           \* a pointer never assigned
          AdjacentToo     \* whether list_exchange meets neighbours

ASSUME CellsAssumption == Heads \cap Nodes = {} /\ Wild \notin Heads \cup Nodes
ASSUME AdjacentAssumption == AdjacentToo \in BOOLEAN

ListCells == Heads \cup Nodes

VARIABLES
    prev, next,  \* the pointers of every cell
    seq,         \* the intended contents of each list
    live,        \* heads that are initialised and not spliced away
    iter         \* a list_for_each_safe in progress

listVars == <<prev, next, seq, live, iter>>

Elements(s) == {s[k] : k \in 1..Len(s)}
Linked(n) == \E h \in live : n \in Elements(seq[h])

\* No loop is running.
NoLoop == [on |-> FALSE, head |-> Wild, pos |-> Wild, n |-> Wild,
           todo |-> <<>>, visited |-> <<>>]

\* Type invariant.
ListTypeOK ==
    /\ prev \in [ListCells -> ListCells \cup {Wild}]
    /\ next \in [ListCells -> ListCells \cup {Wild}]
    /\ seq \in [Heads -> Seq(Nodes)]
    /\ live \subseteq Heads
    /\ \A h \in live : Wild \notin {prev[h], next[h]}
    /\ iter \in [on : BOOLEAN, head : Heads \cup {Wild}, pos : ListCells \cup {Wild},
                 n : ListCells \cup {Wild}, todo : Seq(Nodes), visited : Seq(Nodes)]

ListInit ==
    /\ prev = [c \in ListCells |-> Wild] /\ next = [c \in ListCells |-> Wild]
    /\ seq = [h \in Heads |-> <<>>] /\ live = {} /\ iter = NoLoop

list_init(h) ==
    /\ ~iter.on /\ h \notin live
    /\ next' = [next EXCEPT ![h] = h] /\ prev' = [prev EXCEPT ![h] = h]
    /\ seq' = [seq EXCEPT ![h] = <<>>] /\ live' = live \cup {h}
    /\ UNCHANGED iter

list_empty(h) == next[h] = h

\* The four assignments of ____list_add, in order.
____list_add(n, p, x) ==
    /\ prev' = [prev EXCEPT ![x] = n, ![n] = p]
    /\ next' = [next EXCEPT ![n] = x, ![p] = n]

list_add(n, h) ==
    /\ ~iter.on /\ h \in live /\ ~Linked(n)
    /\ ____list_add(n, h, next[h])
    /\ seq' = [seq EXCEPT ![h] = <<n>> \o @]
    /\ UNCHANGED <<live, iter>>

list_add_tail(n, h) ==
    /\ ~iter.on /\ h \in live /\ ~Linked(n)
    /\ ____list_add(n, prev[h], h)
    /\ seq' = [seq EXCEPT ![h] = Append(@, n)]
    /\ UNCHANGED <<live, iter>>

\* The neighbours are joined; the node keeps its own pointers.
Unlink(n) ==
    /\ next' = [next EXCEPT ![prev[n]] = next[n]]
    /\ prev' = [prev EXCEPT ![next[n]] = prev[n]]

Without(s, n) ==
    IF n \notin Elements(s) THEN s
    ELSE LET at == CHOOSE k \in 1..Len(s) : s[k] = n
         IN  [k \in 1..(Len(s) - 1) |-> IF k < at THEN s[k] ELSE s[k + 1]]

list_del(n) ==
    /\ ~iter.on /\ Linked(n)
    /\ Unlink(n)
    /\ seq' = [h \in Heads |-> Without(seq[h], n)]
    /\ UNCHANGED <<live, iter>>

\* Mutant: the cell after the spliced nodes is not linked back to them.
SpliceOneWay(l, p, x) ==
    LET first == next[l]
        last == prev[l]
    IN  /\ prev' = [prev EXCEPT ![first] = p]
        /\ next' = [next EXCEPT ![p] = first, ![last] = x]

\* ____list_splice: the nodes of l go between p and x; l itself is left alone.
____list_splice(l, p, x) ==
    LET first == next[l]
        last == prev[l]
    IN  /\ prev' = [prev EXCEPT ![first] = p, ![x] = last]
        /\ next' = [next EXCEPT ![p] = first, ![last] = x]

\* The list spliced away is not initialised again: its head is dead until it is.
list_splice(l, h) ==
    /\ ~iter.on /\ {l, h} \subseteq live /\ l # h
    /\ IF list_empty(l) THEN UNCHANGED listVars
       ELSE /\ ____list_splice(l, h, next[h])
            /\ seq' = [seq EXCEPT ![h] = seq[l] \o @, ![l] = <<>>]
            /\ live' = live \ {l}
            /\ UNCHANGED iter

list_splice_tail(l, h) ==
    /\ ~iter.on /\ {l, h} \subseteq live /\ l # h
    /\ IF list_empty(l) THEN UNCHANGED listVars
       ELSE /\ ____list_splice(l, prev[h], h)
            /\ seq' = [seq EXCEPT ![h] = @ \o seq[l], ![l] = <<>>]
            /\ live' = live \ {l}
            /\ UNCHANGED iter

\* ____list_exchange: the neighbours are passed by value, then assigned.
____list_exchange(n1, p1, x1, n2, p2, x2) ==
    /\ prev' = [prev EXCEPT ![n1] = p2, ![x2] = n1, ![n2] = p1, ![x1] = n2]
    /\ next' = [next EXCEPT ![p2] = n1, ![n1] = x2, ![p1] = n2, ![n2] = x1]

Swap(s, a, b) ==
    [k \in 1..Len(s) |-> IF s[k] = a THEN b ELSE IF s[k] = b THEN a ELSE s[k]]

list_exchange(n1, n2) ==
    /\ ~iter.on /\ n1 # n2 /\ Linked(n1) /\ Linked(n2)
    /\ AdjacentToo \/ (next[n1] # n2 /\ next[n2] # n1)
    /\ ____list_exchange(n1, prev[n1], next[n1], n2, prev[n2], next[n2])
    /\ seq' = [h \in Heads |-> Swap(seq[h], n1, n2)]
    /\ UNCHANGED <<live, iter>>

-----------------------------------------------------------------------------
(* list_for_each_safe, whose body may list_del the current node.           *)

\* Mutant: no look-ahead.
ForEachStartAtPos(h) ==
    /\ ~iter.on /\ h \in live
    /\ iter' = [on |-> TRUE, head |-> h, pos |-> next[h], n |-> next[h],
                todo |-> seq[h], visited |-> <<>>]
    /\ UNCHANGED <<prev, next, seq, live>>

ForEachStart(h) ==
    /\ ~iter.on /\ h \in live
    /\ iter' = [on |-> TRUE, head |-> h, pos |-> next[h], n |-> next[next[h]],
                todo |-> seq[h], visited |-> <<>>]
    /\ UNCHANGED <<prev, next, seq, live>>

\* pos = n, n = pos->next, after the body has run on pos.
Advance == [iter EXCEPT !.visited = Append(@, iter.pos), !.pos = iter.n,
                        !.n = next'[iter.n]]

ForEachKeep ==
    /\ iter.on /\ iter.pos # iter.head
    /\ UNCHANGED <<prev, next, seq, live>>
    /\ iter' = Advance

ForEachDel ==
    /\ iter.on /\ iter.pos # iter.head
    /\ Unlink(iter.pos)
    /\ seq' = [seq EXCEPT ![iter.head] = Without(@, iter.pos)]
    /\ iter' = Advance
    /\ UNCHANGED live

ForEachEnd ==
    /\ iter.on /\ iter.pos = iter.head
    /\ iter' = NoLoop
    /\ UNCHANGED <<prev, next, seq, live>>

-----------------------------------------------------------------------------
\* Nothing else touches the lists while a loop runs.
ListNext ==
    \/ \E h \in Heads : list_init(h) \/ ForEachStart(h)
    \/ \E h \in Heads, n \in Nodes : list_add(n, h) \/ list_add_tail(n, h)
    \/ \E n \in Nodes : list_del(n)
    \/ \E l, h \in Heads : list_splice(l, h) \/ list_splice_tail(l, h)
    \/ \E n1, n2 \in Nodes : list_exchange(n1, n2)
    \/ ForEachKeep \/ ForEachDel \/ ForEachEnd

ListSpec == ListInit /\ [][ListNext]_listVars

-----------------------------------------------------------------------------
(* Properties.                                                             *)

\* The cells of a list in order, its head first.
RingOf(h) == <<h>> \o seq[h]
Succ(s, k) == s[(k % Len(s)) + 1]

\* Both directions of every list run through exactly its intended nodes in
\* order, whatever cells the assignments of an operation shared; in particular
\* list_empty is true of the empty lists only.
Represents ==
    /\ ListTypeOK
    /\ \A h \in live :
         \A k \in 1..Len(RingOf(h)) :
             /\ next[RingOf(h)[k]] = Succ(RingOf(h), k)
             /\ prev[Succ(RingOf(h), k)] = RingOf(h)[k]

\* list_for_each_safe visits every node the list had when it started, once and
\* in order, although its body deletes nodes.
VisitsAll ==
    iter.on => /\ Len(iter.visited) <= Len(iter.todo)
               /\ iter.visited = SubSeq(iter.todo, 1, Len(iter.visited))
               /\ (iter.pos = iter.head => iter.visited = iter.todo)
=============================================================================
