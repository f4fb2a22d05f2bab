---------------------------- MODULE HttpMessage ----------------------------
(***************************************************************************)
(* The messages of src/httpc.c as values, and the functions on them.  A    *)
(* text is a sequence of characters: CR, LF, SP and the colon stand for    *)
(* themselves, any other character for a word of letters (of at least two, *)
(* unless it is in OneLetter) or for a number.                             *)
(***************************************************************************)
EXTENDS Filter, SequencesExt

CONSTANTS Null,       \* a null pointer
          Letters,    \* characters that are not special
          Numerals    \* the characters that stand for 1, 2, ...

CR == "CR"
LF == "LF"
SP == "SP"
Colon == ":"
NUL == "NUL"
Content_Length == <<"Content-Length">>

\* Texts, and the messages in memory; a null pointer is neither, and no number.
Char == {CR, LF, SP, Colon, NUL} \cup Letters
Texts == Seq(Char)
AnyMessage == [p1 : Texts \cup {Null}, p2 : Texts \cup {Null}, p3 : Texts \cup {Null},
               headers : Seq([key : Texts, value : Texts]), header_cnt : Nat, body : Texts]
ASSUME NullAssumption == Null \notin Texts \cup Nat /\ Null \notin AnyMessage
ASSUME NumeralsAssumption ==
    Numerals \in Texts /\ Range(Numerals) \cap {CR, LF, SP, NUL} = {}

\* strcasecmp: one key is spelled in two ways.
Folded(text) == [x \in DOMAIN text |-> IF text[x] = "content-length" THEN "Content-Length"
                                       ELSE text[x]]
SameKey(a, b) == Folded(a) = Folded(b)

\* "%u" and atoi, which makes 0 of what is no number.
utoa(n) == <<Numerals[n]>>
atoi(text) == LET Read == {n \in DOMAIN Numerals : text = utoa(n)}
              IN  IF Read = {} THEN 0 ELSE CHOOSE n \in Read : TRUE

\* httpc_Message_create.  The length of body is bodylen.
NewMessage == [p1 |-> Null, p2 |-> Null, p3 |-> Null,
               headers |-> <<>>, header_cnt |-> 0, body |-> <<>>]

setStartLine(msg, p1, p2, p3) == [msg EXCEPT !.p1 = p1, !.p2 = p2, !.p3 = p3]

\* Mutant: list_add_tail.
setValueTail(msg, key, value) ==
    [msg EXCEPT !.headers = Append(@, [key |-> key, value |-> value]),
                !.header_cnt = @ + 1]

\* A new pair is put in front of the others, also of one with the same key.
setValue(msg, key, value) ==
    [msg EXCEPT !.headers = <<[key |-> key, value |-> value]>> \o @,
                !.header_cnt = @ + 1]

Matching(msg, key) == {k \in DOMAIN msg.headers : SameKey(msg.headers[k].key, key)}

\* The value of the first match, Null when there is none.
getValue(msg, key) ==
    LET found == Matching(msg, key)
    IN  IF found = {} THEN Null
        ELSE msg.headers[CHOOSE k \in found : \A j \in found : k <= j].value

\* Every match is removed; header_cnt stays.
delValue(msg, key) ==
    [msg EXCEPT !.headers = OnlyIn(@, {h \in Range(@) : ~SameKey(h.key, key)})]

\* The body grows and a Content-Length is set, older ones stay behind it.
appendBody(msg, data) ==
    IF data = <<>> THEN msg
    ELSE LET grown == [msg EXCEPT !.body = @ \o data]
         IN  setValue(grown, Content_Length, utoa(Len(grown.body)))

clearBody(msg) == [msg EXCEPT !.body = <<>>]

\* httpc_Message_get_encode_length, for a message that has its start line.
get_encode_length(msg, with_body) ==
    LET line(h) == Len(h.key) + 2 + Len(h.value) + 2
        lines[k \in 0..Len(msg.headers)] ==
            IF k = 0 THEN 0 ELSE lines[k - 1] + line(msg.headers[k])
    IN  (Len(msg.p1) + 1) + (Len(msg.p2) + 1) + Len(msg.p3) + 2
        + lines[Len(msg.headers)]
        + 2 + (IF with_body THEN Len(msg.body) ELSE 0)

\* httpc_Message_encode: what the buffer holds afterwards.  The strcpy of the
\* blank line also stores its terminator, which the body overwrites.
encode(msg, with_body) ==
    LET line(h) == h.key \o <<Colon, SP>> \o h.value \o <<CR, LF>>
        head == msg.p1 \o <<SP>> \o msg.p2 \o <<SP>> \o msg.p3 \o <<CR, LF>>
                \o FlattenSeq([k \in DOMAIN msg.headers |-> line(msg.headers[k])])
                \o <<CR, LF>>
    IN  IF with_body /\ msg.body # <<>> THEN head \o msg.body ELSE Append(head, NUL)
=============================================================================
