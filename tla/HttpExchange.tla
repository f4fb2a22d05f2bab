---------------------------- MODULE HttpExchange ----------------------------
(***************************************************************************)
(* A message sent to src/httpparser.c, which parses it in pieces of any    *)
(* size.  Either it is composed with the functions of src/httpc.c and      *)
(* encoded, and the composer sets, deletes and appends as it likes:        *)
(* nothing in the code keeps the Content-Length headers in step with the   *)
(* body.  Or some other peer wrote it, as peers may: with blanks around    *)
(* the colon, values folded or empty, another message behind it.           *)
(***************************************************************************)
EXTENDS HttpParser

CONSTANTS StartLines, Keys, Values, Chunks,
          Inputs,      \* messages another peer may send (see Characters)
          Behind,      \* characters that may follow such a message
          MaxHeaders, MaxBody    \* headers ever set, and characters of the body (bounds)

-----------------------------------------------------------------------------
(* What may stand in a message, so that another program can read it: words    *)
(* without spaces, keys without a colon, values that do not begin or end with *)
(* a space, and no line end in the middle of anything but the body.          *)

Text(s) == s \in Texts
Spaceless(s) == Text(s) /\ \A k \in DOMAIN s : ~Isspace(s[k])
Word(s) == Spaceless(s) /\ s # <<>>
StartLine(p1, p2, p3) ==
    /\ Word(p1) /\ Word(p2)
    /\ Text(p3) /\ p3 # <<>> /\ ~Isspace(p3[1])
    /\ \A k \in DOMAIN p3 : p3[k] \notin {CR, LF}

\* A key of one letter the parser does not keep.
IsKey(s) ==
    /\ Word(s) /\ \A k \in DOMAIN s : s[k] # Colon
    /\ ~(Len(s) = 1 /\ s[1] \in OneLetter)

\* After a CR comes a character that is no part of a line end.
Clean(s) ==
    Text(s) /\ \A k \in DOMAIN s : s[k] = CR => k < Len(s) /\ s[k + 1] \notin {CR, LF}
Trimmed(s) == s # <<>> => ~Isspace(s[1]) /\ ~Isspace(s[Len(s)])
IsValue(s) == Clean(s) /\ s # <<>> /\ Trimmed(s)

\* A header of another peer: its value comes in pieces, on lines of their own that
\* begin with a blank.
ValueIn(h) == FlattenSeq(h.pieces)
IsHeader(h) ==
    /\ IsKey(h.key)
    /\ {h.before, h.after, h.behind} \subseteq Seq({SP})
    /\ h.pieces \in Seq(Texts) /\ h.pieces # <<>>
    /\ \A k \in DOMAIN h.pieces :
          /\ Clean(h.pieces[k])
          /\ k > 1 => h.pieces[k] # <<>> /\ ~Isspace(h.pieces[k][1])
    /\ Trimmed(ValueIn(h))

\* What the headers of such a message mean: the blanks around key and value gone,
\* folded values joined.
Meaning(m) == [k \in DOMAIN m.headers |->
                  [key |-> m.headers[k].key, value |-> ValueIn(m.headers[k])]]

\* The Content-Length that reaches the other side last is the first one set.
OldestLength(headers) ==
    LET found == {k \in DOMAIN headers : SameKey(headers[k].key, Content_Length)}
    IN  IF found = {} THEN 0
        ELSE atoi(headers[CHOOSE k \in found : \A j \in found : j <= k].value)

IsMessage(m) ==
    /\ StartLine(m.p1, m.p2, m.p3)
    /\ m.headers \in Seq(Range(m.headers))
    /\ \A k \in DOMAIN m.headers : IsHeader(m.headers[k])
    /\ Text(m.body)
    /\ Len(m.body) = OldestLength(Meaning(m))

ASSUME ComposerAssumption ==
    /\ \A l \in StartLines : StartLine(l[1], l[2], l[3])
    /\ \A k \in Keys \cup {Content_Length} : IsKey(k)
    /\ \A v \in Values : IsValue(v)
    /\ \A data \in Chunks : Text(data)
    /\ MaxBody \in 0..Len(Numerals)
ASSUME PeerAssumption ==
    /\ \A m \in Inputs : IsMessage(m)
    /\ \A b \in Behind : Text(b)
    /\ Null \notin [message : Inputs, next : Behind]

-----------------------------------------------------------------------------
VARIABLES out,    \* the message being composed
          handed, \* a message has been sent
          input   \* another peer's message and what is behind it, else Null

exchangeVars == <<wire, parser, out, handed, input>>

ExchangeInit ==
    /\ out = NewMessage /\ handed = FALSE /\ input = Null /\ wire = <<>>
    /\ ParserInit

-----------------------------------------------------------------------------
(* The composer.                                                           *)

Compose(m) == ~handed /\ out' = m /\ UNCHANGED <<wire, parser, handed, input>>

Room == out.header_cnt < MaxHeaders   \* header_cnt never falls

SetStartLine(l) == Compose(setStartLine(out, l[1], l[2], l[3]))
SetValue(k, v) == Room /\ Compose(setValue(out, k, v))
DelValue(k) == Compose(delValue(out, k))
AppendBody(data) == Room /\ Len(out.body) + Len(data) <= MaxBody
                    /\ Compose(appendBody(out, data))
ClearBody == Compose(clearBody(out))

\* As send_res does: get_encode_length characters of what encode has stored.
SendComposed ==
    /\ ~handed /\ Null \notin {out.p1, out.p2, out.p3}
    /\ handed' = TRUE
    /\ wire' = SubSeq(encode(out, TRUE), 1, get_encode_length(out, TRUE))
    /\ UNCHANGED <<parser, out, input>>

-----------------------------------------------------------------------------
(* Another peer: a message as lines and as characters.                     *)

FoldedValue(pieces) ==
    FlattenSeq([k \in DOMAIN pieces |-> IF k = 1 THEN pieces[k]
                                        ELSE <<CR, LF, SP>> \o pieces[k]])
HeaderLine(h) == h.key \o h.before \o <<Colon>> \o h.after \o FoldedValue(h.pieces)
                 \o h.behind \o <<CR, LF>>
Characters(m) ==
    m.p1 \o <<SP>> \o m.p2 \o <<SP>> \o m.p3 \o <<CR, LF>>
    \o FlattenSeq([k \in DOMAIN m.headers |-> HeaderLine(m.headers[k])])
    \o <<CR, LF>> \o m.body

OtherPeer ==
    /\ ~handed /\ out = NewMessage
    /\ handed' = TRUE
    /\ \E m \in Inputs, b \in Behind :
          input' = [message |-> m, next |-> b] /\ wire' = Characters(m) \o b
    /\ UNCHANGED <<parser, out>>

-----------------------------------------------------------------------------
\* The receiver reads until the message is complete, as make_request does.
Receive == handed /\ ParserNext /\ UNCHANGED <<out, handed, input>>

ExchangeNext ==
    \/ \E l \in StartLines : SetStartLine(l)
    \/ \E k \in Keys, v \in Values : SetValue(k, v)
    \/ \E k \in Keys : DelValue(k)
    \/ \E data \in Chunks : AppendBody(data)
    \/ ClearBody
    \/ SendComposed
    \/ OtherPeer
    \/ Receive

ExchangeSpec == ExchangeInit /\ [][ExchangeNext]_exchangeVars

-----------------------------------------------------------------------------
(* Properties.                                                             *)

\* What another peer's message is parsed to: the headers come newest first.
Expected(m) ==
    [p1 |-> m.p1, p2 |-> m.p2, p3 |-> m.p3, headers |-> Reverse(Meaning(m)),
     header_cnt |-> Len(m.headers), body |-> m.body]

\* However the input was cut, a complete message is the one that was sent, and
\* nothing of what follows it has been used.
Faithful ==
    input # Null /\ pd.state = "COMPLETE" => msg = Expected(input.message) /\ wire = input.next

\* What arrives is what was composed, header by header; its body is as long as
\* the oldest Content-Length says (so a body appended in two parts arrives cut,
\* and the rest is left on the wire), and it is whole when they agree.
RoundTrip ==
    input = Null /\ pd.state = "COMPLETE" =>
        /\ <<msg.p1, msg.p2, msg.p3>> = <<out.p1, out.p2, out.p3>>
        /\ msg.headers = Reverse(out.headers)
        /\ msg.body = SubSeq(out.body, 1, OldestLength(out.headers))
        /\ wire = Drop(out.body, OldestLength(out.headers))

\* A message is found complete once all of it has arrived, a composed one if its
\* body is as long as it announces; but the parser does not survive another
\* peer's header with an empty value.
EmptyValue ==
    /\ input # Null
    /\ \E k \in DOMAIN input.message.headers : ValueIn(input.message.headers[k]) = <<>>
Cut == input = Null /\ OldestLength(out.headers) > Len(out.body)
Completes == handed /\ ~Cut ~> pd.state = IF EmptyValue THEN "DEAD" ELSE "COMPLETE"
=============================================================================
