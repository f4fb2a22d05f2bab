----------------------------- MODULE MCLibrary -----------------------------
(* Five parts of the library that do not call each other, one at a time: a    *)
(* semaphore with a deadline, the URL parser under two threads, the TCP       *)
(* client beside another user of descriptors, two lists of three nodes, and a *)
(* ring of three cells.                                                     *)
EXTENDS SemTimeout, UrlParser, TcpClient, List, CircBuf

VARIABLE subject    \* which of the five is used

mcVars == <<semVars, urlVars, tcpVars, listVars, ringVars, subject>>

\* Seconds of three milliseconds of two nanoseconds.
MCTimeouts == {-1, 0, 1, 2, 3, 4, 7}

MCPairs == {"a=1", "b=2"}
MCQueries == {<<>>, <<"">>, <<"a=1", "b=2">>, <<"word", "a=1">>, <<"b=2", "", "a=1">>}

Init ==
    /\ SemInit /\ UrlInit /\ TcpInit /\ ListInit /\ RingInit
    /\ subject \in {"semaphore", "url", "tcp", "list", "ring"}

Next ==
    \/ subject = "semaphore" /\ SemNext /\ UNCHANGED <<urlVars, tcpVars, listVars, ringVars, subject>>
    \/ subject = "url" /\ UrlNext /\ UNCHANGED <<semVars, tcpVars, listVars, ringVars, subject>>
    \/ subject = "tcp" /\ TcpNext /\ UNCHANGED <<semVars, urlVars, listVars, ringVars, subject>>
    \/ subject = "list" /\ ListNext /\ UNCHANGED <<semVars, urlVars, tcpVars, ringVars, subject>>
    \/ subject = "ring" /\ RingNext /\ UNCHANGED <<semVars, urlVars, tcpVars, listVars, subject>>

Spec == Init /\ [][Next]_mcVars
=============================================================================
