------------------------------- MODULE MCHttp -------------------------------
(* The two parts of HTTP, one at a time: small messages for HttpExchange, and *)
(* the server with two workers and two connections.                         *)
EXTENDS HttpExchange, HttpServer

VARIABLE subject    \* which of the two

mcVars == <<exchangeVars, serverVars, subject>>

Init == ExchangeInit /\ ServerInit /\ subject \in {"exchange", "server"}

Exchange(A) == subject = "exchange" /\ A /\ UNCHANGED <<serverVars, subject>>
Server(A) == subject = "server" /\ A /\ UNCHANGED <<exchangeVars, subject>>

Next == Exchange(ExchangeNext) \/ Server(ServerNext)

\* The receiver reads on; main gets through add_task, workers run, and a peer sends its request or goes away
\* in the end.
FairSpec ==
    /\ Init /\ [][Next]_mcVars
    /\ WF_mcVars(Exchange(Receive))
    /\ WF_mcVars(Server(add_task))
    /\ \A w \in Workers : WF_mcVars(Server(Take(w) \/ handle(w)))
    /\ \A n \in Conns : WF_mcVars(Server(PeerSends(n) \/ PeerGoes(n)))

-----------------------------------------------------------------------------

MCNumerals == <<"1", "2", "3", "4", "5", "6">>
MCLetters == {"1", "2", "3", "4", "5", "6", "0", "HTTP/1.0", "404", "Not", "not", "Found", "found",
              "GET", "/url", "agent", "test", "none", "Content-Length", "content-length",
              "x1", "x2", "b1", "b2", "abcd", "efg"}
MCStartLines == {<<<<"HTTP/1.0">>, <<"404">>, <<"Not", SP, "Found">>>>}
MCKeys == {<<"agent">>, <<"content-length">>}
MCValues == {<<"x1", SP, "x2">>, utoa(2)}
MCChunks == {<<"b1">>, <<"b2", CR, LF>>}

Plain(k, v) == [key |-> k, before |-> <<>>, after |-> <<SP>>, pieces |-> <<v>>,
                behind |-> <<>>]

\* "test : abcd", folded, " efg "; a value with a colon and a blank in it; a CR
\* inside a value.
FoldedHeader == [key |-> <<"test">>, before |-> <<SP>>, after |-> <<SP>>,
                 pieces |-> <<<<"abcd">>, <<"efg">>>>, behind |-> <<SP>>]
ColonHeader == Plain(<<"agent">>, <<"x1", Colon, SP, "x2">>)
CRHeader == Plain(<<"agent">>, <<"x1", CR, "x2">>)
HeaderLists == {<<>>, <<FoldedHeader>>, <<ColonHeader>>, <<CRHeader>>,
                <<ColonHeader, FoldedHeader>>, <<FoldedHeader, CRHeader>>}
EmptyHeader == [Plain(<<"none">>, <<>>) EXCEPT !.after = <<>>]

\* Messages whose Content-Length agrees with the body; b may contain line ends.
Bodies == {<<>>, <<"b1">>, <<CR, LF, "b1">>}
LengthKeys == {Content_Length, <<"content-length">>}
WithLength(hs, b, key) ==
    IF b = <<>> THEN {hs, <<Plain(key, <<"0">>)>> \o hs}
    ELSE {<<Plain(key, utoa(Len(b)))>> \o hs, hs \o <<Plain(key, utoa(Len(b)))>>}
Message(hs, b) == [p1 |-> <<"GET">>, p2 |-> <<"/url">>, p3 |-> <<"not", SP, "found">>,
                   headers |-> hs, body |-> b]
Messages ==
    UNION {{Message(hs, b) : hs \in WithLength(some, b, key)} :
               some \in HeaderLists, b \in Bodies, key \in LengthKeys}

MCInputs == Messages \cup {Message(<<EmptyHeader>>, <<>>),
                           Message(<<FoldedHeader, EmptyHeader>>, <<>>)}
MCBehind == {<<>>, <<"GET", SP>>}
=============================================================================
