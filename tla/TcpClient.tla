----------------------------- MODULE TcpClient -----------------------------
(***************************************************************************)
(* The TCP client of src/tcpclient.c on the descriptors of src/fd.c, in a  *)
(* process where another thread opens and closes sockets of its own.  A    *)
(* descriptor is a number; the kernel gives out the lowest free one, so a  *)
(* number that is closed too early, or twice, may meanwhile be somebody    *)
(* else's socket.                                                          *)
(***************************************************************************)
EXTENDS Integers, FiniteSets, FiniteSetsExt

CONSTANTS Numbers,       \* descriptor numbers of the process
          MaxAddrs,      \* addresses getaddrinfo may return (bound)
          MaxLen,        \* longest transfer (bound)
          MaxSockets,    \* sockets ever created (bound)
          NoSocket

ASSUME NumbersAssumption == Numbers \subseteq Nat /\ IsFiniteSet(Numbers)
ASSUME TransfersAssumption == MaxLen \in Nat

VARIABLES
    table,   \* the kernel's table: the socket a number stands for, or NoSocket
    made,    \* sockets created so far
    stage, addrs, sock, rc,         \* the client in simple_tcpclient_open
    call, rest, count, moved     \* a transfer: its kind, bytes still to move,
                                 \* *sent or *recved, and history: bytes moved

tcpVars == <<table, made, stage, addrs, sock, rc, call, rest, count, moved>>
opening == <<addrs, sock>>
transfer == <<call, rest, count, moved>>

Kinds == [op : {"send", "recv"}, all : BOOLEAN, timed : BOOLEAN, len : 1..MaxLen]
NoCall == [op |-> "none", all |-> FALSE, timed |-> FALSE, len |-> 0]

TcpInit ==
    /\ table = [n \in Numbers |-> NoSocket] /\ made = 0
    /\ stage = "none" /\ addrs = 0 /\ sock = -1 /\ rc = 0
    /\ call = NoCall /\ rest = 0 /\ count = 0 /\ moved = 0

Goto(from, to) == stage = from /\ stage' = to

FreeNumbers == {n \in Numbers : table[n] = NoSocket}
Closed(n) == IF n \in Numbers THEN [table EXCEPT ![n] = NoSocket] ELSE table
NewSocket(who) == [owner |-> who, connected |-> FALSE]

\* Mutant: the guard is turned around.
FdCloseDetached(n) == IF n = -1 THEN table' = Closed(n) ELSE UNCHANGED table

\* simple_fd_close of a descriptor stream made from a socket: the stream is
\* freed, and the socket it was made from is closed with it unless detached.
simple_fd_close(n) == IF n # -1 THEN table' = Closed(n) ELSE UNCHANGED table

-----------------------------------------------------------------------------
(* simple_tcpclient_open: _try_connect and _connect.                       *)

\* getaddrinfo finds n addresses.
Open(n) ==
    /\ Goto("none", "addr")
    /\ addrs' = n /\ sock' = -1
    /\ UNCHANGED <<table, made, rc, transfer>>

\* It fails with a code that is not -1: the list that is walked was never set.
ResolveFails ==
    /\ Goto("none", "dead")
    /\ UNCHANGED <<table, made, rc, opening, transfer>>

\* The loop ends without an address left.
OpenFails ==
    /\ addrs = 0 /\ Goto("addr", "none")
    /\ UNCHANGED <<table, made, rc, opening, transfer>>

Socket ==
    /\ addrs > 0 /\ made < MaxSockets /\ FreeNumbers # {}
    /\ Goto("addr", "connect")
    /\ addrs' = addrs - 1 /\ made' = made + 1
    /\ sock' = Min(FreeNumbers)
    /\ table' = [table EXCEPT ![Min(FreeNumbers)] = NewSocket("client")]
    /\ UNCHANGED <<rc, transfer>>

SocketFails ==
    /\ addrs > 0 /\ Goto("addr", "addr")
    /\ addrs' = addrs - 1 /\ sock' = -1
    /\ UNCHANGED <<table, made, rc, transfer>>

\* connect on a non-blocking socket, at once or after select.  A socket that is
\* writable because the connection was refused counts as connected too.
Connect ==
    /\ Goto("connect", "fdclose")
    /\ \E ok, up \in BOOLEAN :
          /\ rc' = IF ok THEN 0 ELSE -1
          /\ table' = IF table[sock] # NoSocket THEN [table EXCEPT ![sock].connected = ok /\ up]
                      ELSE table
    /\ UNCHANGED <<made, opening, transfer>>

\* The stream made to set the mode is closed.
ConnectCloses ==
    /\ Goto("fdclose", IF rc < 0 THEN "close" ELSE "open")
    /\ simple_fd_close(sock)
    /\ UNCHANGED <<made, rc, opening, transfer>>

\* closesocket after a failed _connect.
CloseAgain ==
    /\ Goto("close", "addr")
    /\ table' = Closed(sock) /\ sock' = -1
    /\ UNCHANGED <<made, addrs, rc, transfer>>

simple_tcpclient_close ==
    /\ Goto("open", "none")
    /\ simple_fd_close(sock)
    /\ sock' = -1
    /\ UNCHANGED <<made, addrs, rc, transfer>>

-----------------------------------------------------------------------------
(* sendt, recvt, and sendnt, recvnt around them.                           *)

Transfer(k) ==
    /\ Goto("open", "select")
    /\ call' = k /\ rest' = k.len /\ count' = 0 /\ moved' = 0
    /\ UNCHANGED <<table, made, rc, opening>>

IsOpen == table[sock] # NoSocket

Returns(result) ==
    /\ stage' = "returned" /\ rc' = result
    /\ UNCHANGED <<table, made, opening, call, rest>>

SelectReady ==
    /\ Goto("select", "io") /\ IsOpen
    /\ UNCHANGED <<table, made, rc, opening, transfer>>

SelectTimeout ==
    /\ stage = "select" /\ IsOpen /\ call.timed
    /\ Returns(-2) /\ UNCHANGED <<count, moved>>

\* EBADF, or a signal.
SelectFails ==
    /\ stage = "select"
    /\ Returns(-1) /\ UNCHANGED <<count, moved>>

\* EAGAIN: back to select.
Again ==
    /\ Goto("io", "select")
    /\ UNCHANGED <<table, made, rc, opening, transfer>>

IoFails ==
    /\ stage = "io"
    /\ Returns(-1) /\ UNCHANGED <<count, moved>>

\* The peer has closed: recv returns 0, which ends recvnt as well.
PeerClosed ==
    /\ stage = "io" /\ IsOpen /\ call.op = "recv"
    /\ Returns(0) /\ UNCHANGED <<count, moved>>

\* Mutant: *sent is what the last round moved.
AddLast(n) == count' = n

\* *sent += bytes.
AddCount(n) == count' = count + n

\* n bytes move.  A single transfer returns n; the n-byte ones go on for the rest
\* with the whole timeout again, and return len.
Io(n) ==
    /\ stage = "io" /\ IsOpen /\ n <= rest
    /\ AddCount(n) /\ moved' = moved + n
    /\ rest' = rest - n
    /\ IF call.all /\ rest > n THEN stage' = "select" /\ UNCHANGED rc
       ELSE stage' = "returned" /\ rc' = (IF call.all THEN call.len ELSE n)
    /\ UNCHANGED <<table, made, opening, call>>

\* The caller looks at the result and at the count.
Returned ==
    /\ Goto("returned", "open")
    /\ call' = NoCall /\ rest' = 0 /\ count' = 0 /\ moved' = 0 /\ rc' = 0
    /\ UNCHANGED <<table, made, opening>>

-----------------------------------------------------------------------------
(* The other thread.                                                       *)

OtherOpens ==
    /\ made < MaxSockets /\ FreeNumbers # {}
    /\ made' = made + 1
    /\ table' = [table EXCEPT ![Min(FreeNumbers)] = NewSocket("other")]
    /\ UNCHANGED <<stage, rc, opening, transfer>>

OtherCloses(n) ==
    /\ table[n] # NoSocket /\ table[n].owner = "other"
    /\ table' = Closed(n)
    /\ UNCHANGED <<made, stage, rc, opening, transfer>>

Client ==
    \/ \E n \in 0..MaxAddrs : Open(n)
    \/ ResolveFails \/ OpenFails \/ Socket \/ SocketFails \/ Connect \/ ConnectCloses \/ CloseAgain
    \/ simple_tcpclient_close
    \/ \E k \in Kinds : Transfer(k)
    \/ SelectReady \/ SelectTimeout \/ SelectFails \/ Again \/ IoFails \/ PeerClosed
    \/ \E n \in 1..MaxLen : Io(n)
    \/ Returned
Other == OtherOpens \/ \E n \in Numbers : OtherCloses(n)
TcpNext == Client \/ Other

TcpSpec == TcpInit /\ [][TcpNext]_tcpVars

-----------------------------------------------------------------------------
(* Properties.                                                             *)

\* The count a transfer reports is what has moved, in one round or several,
\* whether it ends with everything, a timeout, an error or the peer's close; and
\* the n-byte calls report success only when nothing is missing.
CountsAll ==
    stage = "returned" =>
        /\ count = moved
        /\ rc > 0 => rc = moved
        /\ call.all /\ rc > 0 => moved = call.len

\* A client that is not open has left no socket of its own behind, however many
\* addresses it tried and whichever way each of them failed.
NoLeak ==
    stage = "none" => \A n \in Numbers : table[n] # NoSocket => table[n].owner = "other"

\* A client that was opened has a connection (tcpclient.h: opens a tcp
\* connection to server:port).
HasConnection ==
    stage = "open" => table[sock] # NoSocket /\ table[sock].owner = "client"
=============================================================================
