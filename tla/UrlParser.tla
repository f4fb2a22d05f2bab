----------------------------- MODULE UrlParser -----------------------------
(***************************************************************************)
(* simple_url_parse of src/urlparser.c under the threads of the server.    *)
(* Two things are shared: the regular expressions, compiled by whoever     *)
(* finds _inited unset, and the position that strtok keeps between calls.  *)
(* Of a URL only the query matters here: a sequence of pieces between the  *)
(* ampersands, each a pair, a text without "=" or nothing.                 *)
(***************************************************************************)
EXTENDS Filter, SequencesExt

CONSTANTS Threads,
          Pairs,      \* pieces key=value
          Words,      \* pieces without a "="
          Empty,      \* nothing between two ampersands
          Queries,    \* queries of the URLs that are parsed
          MaxCalls,   \* calls by each thread (bound)
          MaxPairs,   \* pairs made of freed memory (bound)
          Garbage,    \* what is read from freed memory
          NULL

\* A piece is one of the three, no piece is a null pointer, and what freed memory
\* holds is told from what a query holds.
Pieces == Pairs \cup Words \cup {Empty}
ASSUME PiecesAssumption ==
    /\ Empty \notin Pairs /\ Words \cap Pairs = {}
    /\ Garbage \notin Pieces /\ NULL \notin Pieces \cup {Garbage}
ASSUME QueriesAssumption == Queries \subseteq Seq(Pieces)

VARIABLES
    inited,   \* _inited
    reg,      \* _reg_url and _reg_auth: none, building, compiled
    inside,   \* the expressions each thread is compiling or executing
    saved,    \* strtok's position: the thread whose copy it points into, or NULL
    str,      \* each thread's copy of its query: the pieces strtok has not cut off
    heap,     \* whether that copy is allocated
    at, query, p, pairs, calls,
    overlap,  \* history: two threads have been in _parse_query at once
    raced     \* history: a thread has found _inited unset while another compiled

shared == <<inited, reg, saved>>
urlVars == <<shared, inside, str, heap, at, query, p, pairs, calls, overlap, raced>>
Regs == {"url", "auth"}
Done == [url |-> "urlDone", auth |-> "authDone"]
Outside == <<>>
Compiling == {"url", "urlDone", "auth", "authDone", "set"}
PCs == {"out", "test", "url", "urlDone", "auth", "authDone", "set", "exec", "execDone",
        "dup", "strtok", "piece", "free", "exec2", "exec2Done", "return"}

UrlInit ==
    /\ inited = FALSE /\ reg = [r \in Regs |-> "none"] /\ saved = NULL
    /\ inside = [t \in Threads |-> Outside]
    /\ str = [t \in Threads |-> <<>>] /\ heap = [t \in Threads |-> FALSE]
    /\ at = [t \in Threads |-> "out"] /\ query = [t \in Threads |-> <<>>]
    /\ p = [t \in Threads |-> NULL] /\ pairs = [t \in Threads |-> <<>>]
    /\ calls = [t \in Threads |-> 0] /\ overlap = FALSE /\ raced = FALSE

UrlGoto(t, from, to) == at[t] = from /\ at' = [at EXCEPT ![t] = to]

Enter(t, q) ==
    /\ calls[t] < MaxCalls
    /\ UrlGoto(t, "out", "test")
    /\ calls' = [calls EXCEPT ![t] = @ + 1]
    /\ query' = [query EXCEPT ![t] = q] /\ pairs' = [pairs EXCEPT ![t] = <<>>]
    /\ UNCHANGED <<overlap, raced, shared, inside, str, heap, p>>

-----------------------------------------------------------------------------
(* The expressions.                                                        *)

\* Mutant: _inited is set before the expressions are compiled.
TestAndSetInited(t) ==
    /\ UrlGoto(t, "test", IF inited THEN "exec" ELSE "url")
    /\ inited' = TRUE
    /\ raced' = (raced \/ (~inited /\ \E u \in Threads : at[u] \in Compiling))
    /\ UNCHANGED <<overlap, reg, inside, saved, str, heap, query, p, pairs, calls>>

TestInited(t) ==
    /\ UrlGoto(t, "test", IF inited THEN "exec" ELSE "url")
    /\ raced' = (raced \/ (~inited /\ \E u \in Threads : at[u] \in Compiling))
    /\ UNCHANGED <<overlap, shared, inside, str, heap, query, p, pairs, calls>>

Begin(t, r, what) == inside' = [inside EXCEPT ![t] = <<r, what>>]
End(t) == inside' = [inside EXCEPT ![t] = Outside]

\* regcomp of one expression, which takes time: it clears the regex_t, whatever it
\* held and whoever executes it, and builds in place.
CompBegin(t, r) ==
    /\ UrlGoto(t, r, Done[r])
    /\ Begin(t, r, "regcomp")
    /\ reg' = [reg EXCEPT ![r] = "building"]
    /\ UNCHANGED <<overlap, raced, inited, saved, str, heap, query, p, pairs, calls>>

CompEnd(t, r) ==
    /\ UrlGoto(t, Done[r], IF r = "url" THEN "auth" ELSE "set")
    /\ reg' = [reg EXCEPT ![r] = IF \E u \in Threads \ {t} : inside[u] = <<r, "regcomp">>
                                THEN "building" ELSE "compiled"]
    /\ End(t)
    /\ UNCHANGED <<overlap, raced, inited, saved, str, heap, query, p, pairs, calls>>

SetInited(t) ==
    /\ UrlGoto(t, "set", "exec")
    /\ inited' = TRUE
    /\ UNCHANGED <<overlap, raced, reg, inside, saved, str, heap, query, p, pairs, calls>>

\* regexec: of the URL before its query is parsed, of the authority after.  What it
\* finds in an expression that is being built is left open, as are its failures.
ExecBegin(t) ==
    /\ \/ UrlGoto(t, "exec", "execDone") /\ Begin(t, "url", "regexec")
       \/ UrlGoto(t, "exec2", "exec2Done") /\ Begin(t, "auth", "regexec")
    /\ UNCHANGED <<overlap, raced, inited, reg, saved, str, heap, query, p, pairs, calls>>

ExecEnd(t) ==
    /\ UrlGoto(t, "execDone", "dup") \/ UrlGoto(t, "exec2Done", "return")
    /\ End(t)
    /\ UNCHANGED <<overlap, raced, inited, reg, saved, str, heap, query, p, pairs, calls>>

\* The URL does not match, or regexec is out of memory: no url_t is returned.
ExecFails(t) ==
    /\ UrlGoto(t, "execDone", "out")
    /\ End(t)
    /\ UNCHANGED <<overlap, raced, inited, reg, saved, str, heap, query, p, pairs, calls>>

-----------------------------------------------------------------------------
(* _parse_query.                                                           *)

\* strtok in the copy of thread o, of which text is left: its first piece that is
\* not empty, and what follows is left then; or NULL at its end.
Strtok(t, o, text) ==
    LET Tokens == {k \in 1..Len(text) : text[k] # Empty}
    IN  /\ saved' = o
        /\ \/ /\ Tokens = {}
              /\ p' = [p EXCEPT ![t] = NULL] /\ str' = [str EXCEPT ![o] = <<>>]
           \/ \E k \in Tokens :
                 /\ \A j \in Tokens : k <= j
                 /\ p' = [p EXCEPT ![t] = text[k]]
                 /\ str' = [str EXCEPT ![o] = SubSeq(text, k + 1, Len(text))]

\* strdup, then the first strtok.
FirstStrtok(t) ==
    /\ UrlGoto(t, "dup", "piece")
    /\ heap' = [heap EXCEPT ![t] = TRUE]
    /\ overlap' = (overlap \/ \E u \in Threads : at[u] \in {"piece", "strtok"})
    /\ Strtok(t, t, query[t])
    /\ UNCHANGED <<raced, inited, reg, inside, query, pairs, calls>>

\* Mutant: list_add_tail.
PieceLast(t) ==
    /\ p[t] # NULL
    /\ UrlGoto(t, "piece", "strtok")
    /\ pairs' = [pairs EXCEPT ![t] = IF p[t] \in Pairs \cup {Garbage} THEN Append(@, p[t]) ELSE @]
    /\ UNCHANGED <<overlap, raced, shared, inside, str, heap, query, p, calls>>

\* _parse_kv; only a piece with "=" makes a pair, in front of the others.
Piece(t) ==
    /\ p[t] # NULL
    /\ UrlGoto(t, "piece", "strtok")
    /\ pairs' = [pairs EXCEPT ![t] = IF p[t] \in Pairs \cup {Garbage} THEN <<p[t]>> \o @ ELSE @]
    /\ UNCHANGED <<overlap, raced, shared, inside, str, heap, query, p, calls>>

\* strtok(0): goes on wherever strtok was last used.
NextStrtok(t) ==
    /\ UrlGoto(t, "strtok", "piece")
    /\ heap[saved]
    /\ Strtok(t, saved, str[saved])
    /\ UNCHANGED <<overlap, raced, inited, reg, inside, heap, query, pairs, calls>>

\* The copy it points into is gone: it finds anything or nothing.
NextStrtokFreed(t) ==
    /\ UrlGoto(t, "strtok", "piece")
    /\ ~heap[saved]
    /\ \E x \in {NULL} \cup {y \in {Garbage} : Len(pairs[t]) < MaxPairs} : p' = [p EXCEPT ![t] = x]
    /\ UNCHANGED <<overlap, raced, shared, inside, str, heap, query, pairs, calls>>

Free(t) ==
    /\ p[t] = NULL
    /\ UrlGoto(t, "piece", "exec2")
    /\ heap' = [heap EXCEPT ![t] = FALSE]
    /\ UNCHANGED <<overlap, raced, inited, reg, inside, saved, str, query, p, pairs, calls>>

\* The caller takes the url_t and releases it later, which touches nothing shared.
Return(t) ==
    /\ UrlGoto(t, "return", "out")
    /\ UNCHANGED <<overlap, raced, shared, inside, str, heap, query, p, pairs, calls>>

-----------------------------------------------------------------------------
simple_url_parse(t) ==
    \/ TestInited(t) \/ SetInited(t) \/ ExecBegin(t) \/ ExecEnd(t) \/ ExecFails(t)
    \/ \E r \in Regs : CompBegin(t, r) \/ CompEnd(t, r)
    \/ FirstStrtok(t) \/ Piece(t) \/ NextStrtok(t) \/ NextStrtokFreed(t) \/ Free(t)
    \/ Return(t)

UrlNext == \E t \in Threads : simple_url_parse(t) \/ \E q \in Queries : Enter(t, q)

UrlSpec == UrlInit /\ [][UrlNext]_urlVars

-----------------------------------------------------------------------------
(* Properties.                                                             *)

\* A URL is returned with the pairs of its own query, the last one first, and
\* nothing else.
Own(t) == pairs[t] = Reverse(OnlyIn(query[t], Pairs))

\* That holds whatever the URLs parsed before it did, and whatever the threads
\* do elsewhere, as long as no two of them are in _parse_query at once.
OwnPairs == \A t \in Threads : at[t] = "return" => Own(t) \/ overlap

\* Every thread executes whole expressions, compiled before it and not compiled
\* anew under it, however late it found _inited set, as long as no two threads
\* have been at the compilation together: once one call has returned, say.
CompiledBeforeUse ==
    \A t \in Threads, r \in Regs :
        inside[t] = <<r, "regexec">> => reg[r] = "compiled" \/ raced
=============================================================================
