----------------------------- MODULE HttpParser -----------------------------
(***************************************************************************)
(* src/httpparser.c: httpc_parser_parse is called with the pieces of the   *)
(* input that happen to have arrived, keeps the unfinished line and its    *)
(* state in ParserData between calls, and says how much it used.  One step *)
(* is one round of its loop.  Module HttpExchange says where the           *)
(* characters come from.                                                   *)
(***************************************************************************)
EXTENDS HttpMessage

CONSTANTS MaxPiece,    \* longest piece handed over in a call (bound)
          OneLetter    \* words of one letter

ASSUME PieceAssumption == MaxPiece \in Nat \ {0}

VARIABLES
    wire,    \* characters not yet used by the parser
    msg,     \* the message under construction, Null before the first call
    pd,      \* its ParserData
    len      \* characters left of the current call, Null outside a call

parser == <<msg, pd, len>>

Isblank(c) == c = SP          \* SP stands for a blank or a tab
Isspace(c) == c \in {SP, CR, LF}

Unwritten == <<"unwritten">>  \* a malloc'ed text never written

-----------------------------------------------------------------------------
(* Lines.                                                                  *)

\* Length of the longest prefix of s whose characters all satisfy Test.
Span(s, Test(_)) ==
    CHOOSE n \in 0..Len(s) : /\ \A k \in 1..n : Test(s[k])
                             /\ n < Len(s) => ~Test(s[n + 1])
Drop(s, n) == SubSeq(s, n + 1, Len(s))
SkipSpace(s) == Drop(s, Span(s, Isspace))
TrimRight(s) == SubSeq(s, 1, Len(s) - Span(Reverse(s), Isspace))

\* The two words and the rest of the line up to CR or LF.
parseStartLine(m, line) ==
    LET word(s) == SubSeq(s, 1, Span(s, LAMBDA c : ~Isspace(c)))
        p1 == word(line)
        second == SkipSpace(Drop(line, Len(p1)))
        p2 == word(second)
        third == SkipSpace(Drop(second, Len(p2)))
        p3 == SubSeq(third, 1, Span(third, LAMBDA c : c \notin {CR, LF}))
    IN  setStartLine(m, p1, p2, p3)

\* Key and value around the first colon.  A key of one letter is not copied and
\* stays what malloc returned; a value of spaces only (or none, or no colon)
\* makes the length of its memcpy negative, which CopyLength tells.
HeaderStart(line) == SkipSpace(line)
KeyOf(line) ==
    LET s == HeaderStart(line)
        key == TrimRight(SubSeq(s, 1, Span(s, LAMBDA c : c # Colon)))
    IN  IF Len(key) = 1 /\ key[1] \in OneLetter THEN Unwritten ELSE key
ValueOf(line) ==
    LET s == HeaderStart(line)
    IN  TrimRight(SkipSpace(Drop(s, Span(s, LAMBDA c : c # Colon) + 1)))
CopyLength(line) == IF ValueOf(line) = <<>> THEN -1 ELSE Len(ValueOf(line))

parseHeaderLine(m, line) == setValue(m, KeyOf(line), ValueOf(line))

getmsglen(m) ==
    LET v == getValue(m, Content_Length) IN IF v = Null THEN 0 ELSE atoi(v)

-----------------------------------------------------------------------------
(* appendByte, an action for each state; c is the next character.          *)

c == wire[1]
Append1(data) == [data EXCEPT !.linedata = Append(@, c)]

\* HTTP_STARTLINE and HTTP_HEADERS.
InLine ==
    /\ pd.state \in {"STARTLINE", "HEADERS"}
    /\ pd' = IF c = CR THEN [Append1(pd) EXCEPT !.last_state = pd.state, !.state = "CR"]
             ELSE Append1(pd)
    /\ UNCHANGED msg

\* Mutant: a body is always waited for.
AfterCRBody ==
    /\ pd.state = "CR"
    /\ pd' = [Append1(pd) EXCEPT !.state =
                 IF c # LF THEN pd.last_state
                 ELSE IF SubSeq(pd.linedata \o <<c>>, 1, 2) # <<CR, LF>> THEN "CRLF"
                 ELSE "BODY"]
    /\ UNCHANGED msg

\* HTTP_CR: the end of a line, of the headers, or just a CR in the line.
AfterCR ==
    /\ pd.state = "CR"
    /\ pd' = [Append1(pd) EXCEPT !.state =
                 IF c # LF THEN pd.last_state
                 ELSE IF SubSeq(pd.linedata \o <<c>>, 1, 2) # <<CR, LF>> THEN "CRLF"
                 ELSE IF getmsglen(msg) > 0 THEN "BODY"
                 ELSE "COMPLETE"]
    /\ UNCHANGED msg

\* HTTP_CRLF and a blank: the line goes on, from its first CRLF.
Fold ==
    /\ pd.state = "CRLF" /\ Isblank(c)
    /\ pd' = [pd EXCEPT !.state = "LSW",
                        !.linedata = SubSeq(@, 1, CHOOSE n \in 0..(Len(@) - 2) :
                             /\ @[n + 1] = CR /\ @[n + 2] = LF
                             /\ \A k \in 1..n : <<@[k], @[k + 1]>> # <<CR, LF>>)]
    /\ UNCHANGED msg

\* HTTP_CRLF and anything else: the line is complete.
IsStart == pd.last_state = "STARTLINE"
EndLine ==
    /\ pd.state = "CRLF" /\ ~Isblank(c)
    /\ IsStart \/ CopyLength(pd.linedata) >= 0
    /\ msg' = IF IsStart THEN parseStartLine(msg, pd.linedata)
              ELSE parseHeaderLine(msg, pd.linedata)
    /\ pd' = [pd EXCEPT !.linedata = <<c>>, !.state = IF c = CR THEN "CR" ELSE "HEADERS"]

\* A memcpy of a negative length ends the program.
Dies ==
    /\ pd.state = "CRLF" /\ ~Isblank(c)
    /\ ~IsStart /\ CopyLength(pd.linedata) < 0
    /\ pd' = [pd EXCEPT !.state = "DEAD"]
    /\ UNCHANGED msg

\* HTTP_LSW: blanks are dropped; the first other character belongs to the line.
InLSW ==
    /\ pd.state = "LSW"
    /\ pd' = IF Isblank(c) THEN pd ELSE [Append1(pd) EXCEPT !.state = pd.last_state]
    /\ UNCHANGED msg

-----------------------------------------------------------------------------
(* httpc_parser_parse.                                                     *)

Use(n) == wire' = Drop(wire, n) /\ len' = len - n

Alive == pd.state # "DEAD"
Looping == len # Null /\ len > 0 /\ pd.state # "COMPLETE" /\ Alive

appendByte ==
    /\ Looping /\ pd.state # "BODY"
    /\ InLine \/ AfterCR \/ Fold \/ EndLine \/ Dies \/ InLSW
    /\ Use(1)

\* Mutant: all that has arrived is taken for the body.
appendBodyAll ==
    /\ Looping /\ pd.state = "BODY"
    /\ msg' = [msg EXCEPT !.body = @ \o SubSeq(wire, 1, len)]
    /\ pd' = [pd EXCEPT !.state = IF getmsglen(msg) <= Len(msg.body) + len THEN "COMPLETE"
                                  ELSE @]
    /\ Use(len)

\* appendBody: n characters join the body, which may be whole now.
BodyGrows(n) ==
    /\ msg' = [msg EXCEPT !.body = @ \o SubSeq(wire, 1, n)]
    /\ pd' = [pd EXCEPT !.state = IF getmsglen(msg) = Len(msg.body) + n THEN "COMPLETE"
                                  ELSE @]

\* What is there of the body, but no more than is still expected.
appendBodyPiece ==
    LET expect == getmsglen(msg) - Len(msg.body)
        n == IF len > expect THEN expect ELSE len
    IN  Looping /\ pd.state = "BODY" /\ BodyGrows(n) /\ Use(n)

\* A call with the next n characters; the first one makes the message.
parse(n) ==
    /\ len = Null /\ n <= Len(wire)
    /\ len' = n
    /\ IF msg # Null THEN UNCHANGED <<msg, pd>>
       ELSE /\ msg' = NewMessage
            /\ pd' = [linedata |-> <<>>, state |-> "STARTLINE", last_state |-> "UNKNOWN"]
    /\ UNCHANGED wire

\* The caller keeps what was not used, and goes on until the message is complete.
ParseReturns ==
    /\ len # Null /\ ~Looping /\ Alive
    /\ len' = Null
    /\ UNCHANGED <<wire, msg, pd>>

ParserInit ==
    /\ msg = Null /\ len = Null
    /\ pd = [linedata |-> <<>>, state |-> "UNKNOWN", last_state |-> "UNKNOWN"]

Caller == pd.state # "COMPLETE" /\ \E n \in 1..MaxPiece : parse(n)
Loop == appendByte \/ appendBodyPiece \/ ParseReturns
ParserNext == Caller \/ Loop
=============================================================================
