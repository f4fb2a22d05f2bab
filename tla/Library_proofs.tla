--------------------------- MODULE Library_proofs ---------------------------
(* Proofs about parts of the library that do not call each other: the TCP     *)
(* client for any descriptors and lengths, the semaphore's deadline for any   *)
(* clock and units, the intrusive list for any heads and nodes.               *)
EXTENDS TcpClient, SemTimeout, List, SequenceTheorems, TLAPS

-----------------------------------------------------------------------------
(* The TCP client.                                                            *)

ClientStages == {"none", "dead", "addr", "connect", "fdclose", "close", "open",
                 "select", "io", "returned"}

TcpTypes ==
    /\ table \in [Numbers -> [owner : {"client", "other"}, connected : BOOLEAN] \cup {NoSocket}]
    /\ stage \in ClientStages
    /\ call \in Kinds \cup {NoCall}
    /\ rest \in Nat /\ count \in Nat /\ moved \in Nat /\ rc \in Int

\* The only socket of the client is the one it is connecting.
OwnSocketOnly ==
    \A n \in Numbers : table[n] # NoSocket /\ table[n].owner = "client" =>
        stage \in {"connect", "fdclose"} /\ n = sock

\* While a transfer runs nothing is counted twice or missed, and the transfers
\* of one round have not moved anything yet.
Moving ==
    stage \in {"select", "io"} =>
        /\ call \in Kinds
        /\ count = moved /\ moved + rest = call.len
        /\ ~call.all => moved = 0

TcpInv == TcpTypes /\ OwnSocketOnly /\ Moving /\ CountsAll

LEMMA TcpStarts == TcpInit => TcpInv
BY DEF TcpInit, TcpInv, TcpTypes, ClientStages, OwnSocketOnly, Moving, CountsAll

\* What closing a descriptor does to the table: the number is free, and nobody
\* else's socket becomes the client's.
LEMMA ClosedTable ==
    ASSUME NumbersAssumption, TcpTypes, NEW n
    PROVE  /\ Closed(n) \in [Numbers -> [owner : {"client", "other"}, connected : BOOLEAN]
                                        \cup {NoSocket}]
           /\ \A m \in Numbers : m # n => Closed(n)[m] = table[m]
           /\ n \in Numbers => Closed(n)[n] = NoSocket
BY DEF TcpTypes, Closed

\* The steps that open and close sockets.
LEMMA SocketStep ==
    ASSUME NumbersAssumption, TcpInv,
           Socket \/ Connect \/ ConnectCloses \/ CloseAgain \/ simple_tcpclient_close \/ Other
    PROVE  TcpInv'
<1> USE DEF TcpInv
<1>1. UNCHANGED transfer
  BY DEF Socket, Connect, ConnectCloses, CloseAgain, simple_tcpclient_close, Other,
         OtherOpens, OtherCloses
<1>2. ASSUME UNCHANGED <<stage, rc>>
      PROVE  Moving' /\ CountsAll'
  BY <1>1, <1>2 DEF Moving, CountsAll, transfer
<1>3. ASSUME stage' \notin {"select", "io", "returned"}
      PROVE  Moving' /\ CountsAll'
  BY <1>3 DEF Moving, CountsAll
<1>4. CASE Socket
  <2>1. stage' = "connect" /\ rc' = rc
    BY <1>4 DEF Socket, Goto
  <2>2. TcpTypes'
    BY <1>1, <1>4, <2>1 DEF Socket, TcpTypes, transfer, ClientStages, NewSocket
  <2>3. OwnSocketOnly'
    BY <1>4, <2>1 DEF Socket, Goto, OwnSocketOnly, TcpTypes
  <2> QED BY <1>3, <2>1, <2>2, <2>3
<1>5. CASE Connect
  <2>1. stage = "connect" /\ stage' = "fdclose" /\ sock' = sock
    BY <1>5 DEF Connect, Goto, opening
  <2>2. PICK ok \in BOOLEAN, up \in BOOLEAN :
           /\ rc' = IF ok THEN 0 ELSE -1
           /\ table' = IF table[sock] # NoSocket THEN [table EXCEPT ![sock].connected = ok /\ up]
                       ELSE table
    BY <1>5 DEF Connect
  <2>3. table' \in [Numbers -> [owner : {"client", "other"}, connected : BOOLEAN]
                              \cup {NoSocket}]
    <3>1. CASE sock \in Numbers /\ table[sock] # NoSocket
      <4>1. table[sock] \in [owner : {"client", "other"}, connected : BOOLEAN]
        BY <3>1 DEF TcpTypes
      <4>2. [table[sock] EXCEPT !.connected = ok /\ up]
               \in [owner : {"client", "other"}, connected : BOOLEAN]
        BY <4>1
      <4>3. table' = [table EXCEPT ![sock] = [table[sock] EXCEPT !.connected = ok /\ up]]
        BY <2>2, <3>1
      <4> QED BY <4>2, <4>3 DEF TcpTypes
    <3>2. CASE ~(sock \in Numbers /\ table[sock] # NoSocket)
      <4>1. table' = table
        BY <2>2, <3>2 DEF TcpTypes
      <4> QED BY <4>1 DEF TcpTypes
    <3> QED BY <3>1, <3>2
  <2>4. /\ TcpTypes'
        /\ \A n \in Numbers : n # sock => table'[n] = table[n]
    BY <1>1, <2>1, <2>2, <2>3 DEF TcpTypes, transfer, ClientStages
  <2>5. OwnSocketOnly'
    BY <2>1, <2>4 DEF OwnSocketOnly
  <2> QED BY <1>3, <2>1, <2>4, <2>5
<1>6. CASE ConnectCloses
  <2>1. stage = "fdclose" /\ stage' \in {"close", "open"} /\ rc' = rc
    BY <1>6 DEF ConnectCloses, Goto
  <2>2. table' = IF sock # -1 THEN Closed(sock) ELSE table
    BY <1>6 DEF ConnectCloses, simple_fd_close
  <2>3. TcpTypes'
    BY <1>1, <2>1, <2>2, ClosedTable DEF TcpTypes, transfer, ClientStages
  <2>4. -1 \notin Numbers
    BY DEF NumbersAssumption
  <2>5. \A n \in Numbers : table'[n] # NoSocket => table'[n] = table[n] /\ n # sock
    BY <2>2, <2>4, ClosedTable
  <2>6. OwnSocketOnly'
    BY <2>1, <2>5 DEF OwnSocketOnly
  <2> QED BY <1>3, <2>1, <2>3, <2>6
<1>7. CASE CloseAgain \/ simple_tcpclient_close
  <2>1. stage \in {"close", "open"} /\ stage' \in {"addr", "none"} /\ rc' = rc
    BY <1>7 DEF CloseAgain, simple_tcpclient_close, Goto
  <2>2. table' \in {table, Closed(sock)}
    BY <1>7 DEF CloseAgain, simple_tcpclient_close, simple_fd_close
  <2>3. TcpTypes'
    BY <1>1, <2>1, <2>2, ClosedTable DEF TcpTypes, transfer, ClientStages
  <2>4. \A n \in Numbers : table'[n] # NoSocket => table'[n] = table[n]
    BY <2>2, ClosedTable
  <2>5. OwnSocketOnly'
    BY <2>1, <2>4 DEF OwnSocketOnly
  <2> QED BY <1>3, <2>1, <2>3, <2>5
<1>8. CASE OtherOpens
  <2>1. UNCHANGED <<stage, rc, sock>>
    BY <1>8 DEF OtherOpens, opening
  <2>2. TcpTypes'
    BY <1>1, <1>8, <2>1 DEF OtherOpens, TcpTypes, transfer, NewSocket
  <2>3. OwnSocketOnly'
    BY <1>8, <2>1 DEF OtherOpens, OwnSocketOnly, TcpTypes, NewSocket
  <2> QED BY <1>2, <2>1, <2>2, <2>3
<1>9. CASE \E n \in Numbers : OtherCloses(n)
  <2>1. UNCHANGED <<stage, rc, sock>>
    BY <1>9 DEF OtherCloses, opening
  <2>2. PICK n \in Numbers : table' = Closed(n)
    BY <1>9 DEF OtherCloses
  <2>3. TcpTypes'
    BY <1>1, <2>1, <2>2, ClosedTable DEF TcpTypes, transfer
  <2>4. \A m \in Numbers : table'[m] # NoSocket => table'[m] = table[m]
    BY <2>2, ClosedTable
  <2>5. OwnSocketOnly'
    BY <2>1, <2>4 DEF OwnSocketOnly
  <2> QED BY <1>2, <2>1, <2>3, <2>5
<1> QED BY <1>4, <1>5, <1>6, <1>7, <1>8, <1>9 DEF Other

\* The steps that leave the sockets alone.
LEMMA TransferStep ==
    ASSUME TransfersAssumption, TcpInv, [TcpNext]_tcpVars,
           ~(Socket \/ Connect \/ ConnectCloses \/ CloseAgain \/ simple_tcpclient_close \/ Other)
    PROVE  TcpInv'
<1> USE DEF TcpInv
<1>1. CASE (\E n \in 0..MaxAddrs : Open(n)) \/ ResolveFails \/ OpenFails \/ SocketFails
  <2>1. UNCHANGED <<table, rc, transfer>> /\ stage \in {"none", "addr"}
        /\ stage' \in {"none", "addr", "dead"}
    BY <1>1 DEF Open, ResolveFails, OpenFails, SocketFails, Goto
  <2>2. TcpTypes' /\ OwnSocketOnly'
    BY <2>1 DEF TcpTypes, OwnSocketOnly, ClientStages, transfer
  <2> QED BY <2>1, <2>2 DEF Moving, CountsAll
<1>2. ASSUME UNCHANGED <<table, made, opening>>, TcpTypes',
             stage \in {"open", "select", "io", "returned"},
             stage' \in {"open", "select", "io", "returned"}
      PROVE  OwnSocketOnly'
  BY <1>2 DEF OwnSocketOnly, opening
<1>3. CASE \E k \in Kinds : Transfer(k)
  <2>1. PICK k \in Kinds : Transfer(k)
    BY <1>3
  <2>2. k.len \in 1..MaxLen
    BY DEF Kinds
  <2>3. TcpTypes' /\ Moving' /\ CountsAll'
    BY <2>1, <2>2 DEF Transfer, Goto, TcpTypes, Moving, CountsAll, ClientStages,
                      TransfersAssumption
  <2> QED BY <1>2, <2>1, <2>3 DEF Transfer, Goto
<1>4. CASE SelectReady \/ Again
  <2>1. TcpTypes' /\ Moving' /\ CountsAll'
    BY <1>4 DEF SelectReady, Again, Goto, TcpTypes, Moving, CountsAll, ClientStages, transfer
  <2> QED BY <1>2, <1>4, <2>1 DEF SelectReady, Again, Goto
<1>5. CASE SelectTimeout \/ SelectFails \/ IoFails \/ PeerClosed
  <2>1. /\ stage \in {"select", "io"} /\ stage' = "returned" /\ rc' \in {-2, -1, 0}
        /\ UNCHANGED <<table, made, opening, call, rest, count, moved>>
    BY <1>5 DEF SelectTimeout, SelectFails, IoFails, PeerClosed, Returns
  <2>2. TcpTypes' /\ Moving' /\ CountsAll'
    BY <2>1 DEF TcpTypes, Moving, CountsAll, ClientStages
  <2> QED BY <1>2, <2>1, <2>2
<1>6. CASE \E n \in 1..MaxLen : Io(n)
  <2>1. PICK n \in 1..MaxLen : Io(n)
    BY <1>6
  <2>2. /\ stage = "io" /\ n <= rest /\ count' = count + n /\ moved' = moved + n
        /\ rest' = rest - n /\ UNCHANGED <<table, made, opening, call>>
        /\ n \in Nat /\ rest' \in Nat
    BY <2>1 DEF Io, AddCount, TransfersAssumption, TcpTypes
  <2>3. call \in Kinds /\ count = moved /\ moved + rest = call.len /\ (~call.all => moved = 0)
        /\ call.len \in Nat
    BY <2>2 DEF Moving, Kinds, TransfersAssumption
  <2>4. CASE call.all /\ rest > n
    <3>1. stage' = "select" /\ rc' = rc
      BY <2>1, <2>4 DEF Io
    <3>2. TcpTypes' /\ Moving' /\ CountsAll'
      BY <2>2, <2>3, <2>4, <3>1 DEF TcpTypes, Moving, CountsAll, ClientStages
    <3> QED BY <1>2, <2>2, <3>1, <3>2
  <2>5. CASE ~(call.all /\ rest > n)
    <3>1. stage' = "returned" /\ rc' = IF call.all THEN call.len ELSE n
      BY <2>1, <2>5 DEF Io
    <3>2. call.all => rest = n
      BY <2>2, <2>5 DEF TcpTypes
    <3>3. TcpTypes' /\ Moving' /\ CountsAll'
      BY <2>2, <2>3, <3>1, <3>2 DEF TcpTypes, Moving, CountsAll, ClientStages
    <3> QED BY <1>2, <2>2, <3>1, <3>3
  <2> QED BY <2>4, <2>5
<1>7. CASE Returned
  <2>1. TcpTypes' /\ Moving' /\ CountsAll'
    BY <1>7 DEF Returned, Goto, TcpTypes, Moving, CountsAll, ClientStages
  <2> QED BY <1>2, <1>7, <2>1 DEF Returned, Goto
<1>8. CASE UNCHANGED tcpVars
  BY <1>8 DEF tcpVars, TcpTypes, OwnSocketOnly, Moving, CountsAll
<1> QED BY <1>1, <1>3, <1>4, <1>5, <1>6, <1>7, <1>8 DEF TcpNext, Client

LEMMA TcpInvariant == TcpSpec => []TcpInv
<1>1. TcpInv /\ [TcpNext]_tcpVars => TcpInv'
  BY NumbersAssumption, TransfersAssumption, SocketStep, TransferStep
<1> QED BY TcpStarts, <1>1, PTL DEF TcpSpec

\* Whatever the other thread opens and closes, a transfer (sendt, recvt, sendnt,
\* recvnt) reports in *sent or *recved exactly the bytes moved, and an n-byte one
\* reports success only with all of them.
THEOREM CountsWhatMoved == TcpSpec => []CountsAll
<1>1. TcpInv => CountsAll
  BY DEF TcpInv
<1> QED BY TcpInvariant, <1>1, PTL

\* However many addresses simple_tcpclient_open tries, and whichever way each of
\* them fails, a client that is not open has left no socket behind: the only one
\* it ever holds is the one it is connecting.
THEOREM LeavesNoSocket == TcpSpec => [](NoLeak /\ OwnSocketOnly)
<1>1. TcpInv => NoLeak /\ OwnSocketOnly
  BY DEF TcpInv, TcpTypes, OwnSocketOnly, NoLeak
<1> QED BY TcpInvariant, <1>1, PTL

-----------------------------------------------------------------------------
(* The semaphore's deadline.                                                  *)

\* Deadline, for the instant b that clock_gettime returned.
DeadlineFrom(b, ms) ==
    Normalised([tv_sec  |-> (b \div NsPerSec) + CDiv(ms, MsPerSec),
                tv_nsec |-> (b % NsPerSec) + CRem(ms, MsPerSec) * NsPerMs])

\* The timespec stands for exactly the instant meant, and the kernel accepts it
\* unless the two parts below a second add up to one.
LEMMA DeadlineExact ==
    ASSUME UnitsAssumption, NEW b \in Nat, NEW ms \in Nat
    PROVE  /\ Instant(DeadlineFrom(b, ms)) = b + ms * NsPerMs
           /\ DeadlineFrom(b, ms).tv_nsec \in 0..(NsPerSec - 1)
              \/ (b % NsPerSec) + (ms % MsPerSec) * NsPerMs = NsPerSec
<1> DEFINE S == NsPerSec
           a == b % S
           q == b \div S
           r == ms % MsPerSec
           w == ms \div MsPerSec
           low == r * NsPerMs
<1>1. NsPerMs \in Nat /\ NsPerMs > 0 /\ MsPerSec \in Nat /\ MsPerSec > 0
  BY DEF UnitsAssumption
<1>2. S \in Nat /\ S > 0
  BY <1>1 DEF NsPerSec
<1>3. a \in 0..(S - 1) /\ q \in Int /\ b = q * S + a
  <2> HIDE DEF S
  <2>1. ASSUME NEW x \in Nat \ {0}
        PROVE  b % x \in 0..(x - 1) /\ b \div x \in Int /\ b = (b \div x) * x + (b % x)
    OBVIOUS
  <2> QED BY <1>2, <2>1
<1>4. r \in 0..(MsPerSec - 1) /\ w \in Int /\ ms = w * MsPerSec + r
  <2>1. ASSUME NEW x \in Nat \ {0}
        PROVE  ms % x \in 0..(x - 1) /\ ms \div x \in Int /\ ms = (ms \div x) * x + (ms % x)
    OBVIOUS
  <2> QED BY <1>1, <2>1
<1>5. CDiv(ms, MsPerSec) = w /\ CRem(ms, MsPerSec) = r
  BY DEF CDiv, CRem
<1> HIDE DEF a, q, r, w
<1>6. low \in Nat /\ low < S
  <2>1. low \in Nat
    BY <1>1, <1>4
  <2>2. r + 1 <= MsPerSec
    BY <1>1, <1>4
  <2>3. (r + 1) * NsPerMs <= MsPerSec * NsPerMs
    BY <1>1, <1>4, <2>2
  <2>4. (r + 1) * NsPerMs = low + NsPerMs
    BY <1>1, <1>4
  <2> QED BY <1>1, <2>1, <2>3, <2>4 DEF NsPerSec
<1>7. ms * NsPerMs = w * S + low
  <2>1. (w * MsPerSec + r) * NsPerMs = w * (MsPerSec * NsPerMs) + r * NsPerMs
    BY <1>1, <1>4
  <2> QED BY <1>4, <2>1 DEF NsPerSec
<1> HIDE DEF low, S
<1> DEFINE t == [tv_sec |-> q + w, tv_nsec |-> a + low]
<1>8. /\ DeadlineFrom(b, ms) = Normalised(t)
      /\ t.tv_sec = q + w /\ t.tv_nsec = a + low
  BY <1>5 DEF DeadlineFrom, a, q, low, S
<1> HIDE DEF t
<1>9. /\ DeadlineFrom(b, ms).tv_sec = (IF a + low > S THEN q + w + 1 ELSE q + w)
      /\ DeadlineFrom(b, ms).tv_nsec = (IF a + low > S THEN a + low - S ELSE a + low)
  <2>1. CASE t.tv_nsec > S
    <3>1. Normalised(t) = [tv_sec |-> t.tv_sec + 1, tv_nsec |-> t.tv_nsec - S]
      BY <2>1 DEF Normalised, S
    <3>2. a + low > S
      BY <1>8, <2>1
    <3>3. DeadlineFrom(b, ms).tv_sec = t.tv_sec + 1 /\ DeadlineFrom(b, ms).tv_nsec = t.tv_nsec - S
      BY <1>8, <3>1
    <3> QED BY <1>2, <1>3, <1>4, <1>6, <1>8, <3>2, <3>3
  <2>2. CASE ~(t.tv_nsec > S)
    <3>1. Normalised(t) = t
      BY <2>2 DEF Normalised, S
    <3>2. ~(a + low > S)
      BY <1>8, <2>2
    <3> QED BY <1>8, <3>1, <3>2
  <2> QED BY <2>1, <2>2
<1>10. Instant(DeadlineFrom(b, ms)) = (q + w) * S + (a + low)
  <2>1. CASE a + low > S
    <3>1. (q + w + 1) * S + (a + low - S) = (q + w) * S + (a + low)
      BY <1>2, <1>3, <1>4, <1>6
    <3> QED BY <1>9, <2>1, <3>1 DEF Instant, S
  <2>2. CASE ~(a + low > S)
    BY <1>9, <2>2 DEF Instant, S
  <2> QED BY <2>1, <2>2
<1>11. (q + w) * S + (a + low) = b + ms * NsPerMs
  <2>1. (q + w) * S = q * S + w * S
    BY <1>2, <1>3, <1>4
  <2>2. q * S \in Int /\ w * S \in Int
    BY <1>2, <1>3, <1>4
  <2> QED BY <1>3, <1>6, <1>7, <2>1, <2>2
<1>12. DeadlineFrom(b, ms).tv_nsec \in 0..(S - 1) \/ a + low = S
  <2>1. CASE a + low > S
    BY <1>2, <1>3, <1>6, <1>9, <2>1
  <2>2. CASE ~(a + low > S)
    BY <1>2, <1>3, <1>6, <1>9, <2>2
  <2> QED BY <2>1, <2>2
<1> QED BY <1>10, <1>11, <1>12 DEF S, a, low, r

\* While the waiter is inside, its timespec is the deadline it computed.
SemInv ==
    /\ now \in Nat /\ begun \in Nat /\ begun <= now /\ timeout \in Int /\ signals \in Nat
    /\ waiter # "out" => ts = DeadlineFrom(begun, timeout)

LEMMA SemStep == TimeoutsAssumption /\ SemInv /\ [SemNext]_semVars => SemInv'
<1> USE DEF SemInv
<1>1. SUFFICES ASSUME TimeoutsAssumption, SemInv, [SemNext]_semVars
               PROVE  SemInv'
  OBVIOUS
<1>2. ASSUME NEW ms \in Timeouts, Call(ms)
      PROVE  SemInv'
  BY <1>1, <1>2 DEF Call, Deadline, DeadlineFrom, TimeoutsAssumption
<1>3. CASE simple_sem_wait_timeout
  <2>1. /\ UNCHANGED <<now, ts, begun, timeout>> /\ waiter # "out"
        /\ signals' \in {signals, signals + 1}
    BY <1>3 DEF simple_sem_wait_timeout, TakeToken, Invalid, Block, TimedOut, Interrupted,
                SemReturn
  <2> QED BY <1>1, <2>1 DEF DeadlineFrom, Normalised
<1>4. CASE Post \/ Tick \/ UNCHANGED semVars
  <2>1. UNCHANGED <<waiter, ts, begun, timeout, signals>> /\ now' \in {now, now + 1}
    BY <1>4 DEF Post, Tick, semVars
  <2> QED BY <1>1, <2>1 DEF DeadlineFrom, Normalised
<1> QED BY <1>1, <1>2, <1>3, <1>4 DEF SemNext

\* simple_sem_wait_timeout, for any clock, timeout and units, gives up before its
\* time only when a signal interrupts it or the clock's nanoseconds and the
\* timeout's add up to one second.
THEOREM EarlyInTwoCases == SemSpec => EarlyOnlyAtASecond
<1>1. SemInit => SemInv
  BY DEF SemInit, SemInv
<1>2. ASSUME SemInv, [SemNext]_semVars, waiter # "out", waiter' = "out", ret' = -1,
             now < begun + timeout * NsPerMs, signals' = signals
      PROVE  (begun % NsPerSec) + (timeout % MsPerSec) * NsPerMs = NsPerSec
  <2>1. timeout \in Nat
    <3>1. SUFFICES ASSUME timeout < 0 PROVE FALSE
      BY <1>2 DEF SemInv
    <3>2. \A x \in Int, y \in Nat : x < 0 => x * y <= 0
      OBVIOUS
    <3>3. timeout * NsPerMs \in Int /\ timeout * NsPerMs <= 0
      BY <1>2, <3>1, <3>2, UnitsAssumption DEF SemInv, UnitsAssumption
    <3> QED BY <1>2, <3>3 DEF SemInv
  <2>2. Invalid \/ TimedOut
    BY <1>2 DEF SemNext, simple_sem_wait_timeout, TakeToken, Block, Interrupted, Call,
                SemReturn, Post, Tick, semVars, SemInv
  <2>3. CASE Invalid
    BY <1>2, <2>1, <2>3, DeadlineExact, UnitsAssumption DEF Invalid, SemInv
  <2>4. CASE TimedOut
    BY <1>2, <2>1, <2>4, DeadlineExact, UnitsAssumption DEF TimedOut, SemInv
  <2> QED BY <2>2, <2>3, <2>4
<1>3. SemInv /\ [SemNext]_semVars =>
         [waiter # "out" /\ waiter' = "out" /\ ret' = -1 /\ now < begun + timeout * NsPerMs
          => \/ (begun % NsPerSec) + (timeout % MsPerSec) * NsPerMs = NsPerSec
             \/ signals' # signals]_semVars
  BY <1>2
<1> QED BY <1>1, <1>3, SemStep, TimeoutsAssumption, PTL DEF SemSpec, EarlyOnlyAtASecond
-----------------------------------------------------------------------------
(* The intrusive list.                                                        *)

\* The cell k places behind the head: the ring is 0 to Len(s), and round again.
At(h, s, k) == IF k \in 1..Len(s) THEN s[k] ELSE h

\* The pointers run through h and the nodes of s.
Ring(nx, pv, h, s) ==
    \A k \in 0..Len(s) : nx[At(h, s, k)] = At(h, s, k + 1) /\ pv[At(h, s, k + 1)] = At(h, s, k)

Pointers == [ListCells -> ListCells \cup {Wild}]
Injective(s) == \A j, k \in 1..Len(s) : s[j] = s[k] => j = k

\* A node is in one place of one list, and the list is initialised.
Once ==
    /\ \A h \in Heads : Injective(seq[h])
    /\ \A g, h \in Heads : g # h =>
          \A j \in 1..Len(seq[g]), k \in 1..Len(seq[h]) : seq[g][j] # seq[h][k]
    /\ \A h \in Heads : h \notin live => seq[h] = <<>>

Rings == \A h \in live : Ring(next, prev, h, seq[h])

\* The lists between two operations.
Lists ==
    /\ prev \in Pointers /\ next \in Pointers
    /\ seq \in [Heads -> Seq(Nodes)] /\ live \subseteq Heads
    /\ Once /\ Rings

\* A loop has visited the first cells of td; the others are the cells of s from
\* the d + 1st on, and it is at the first of them, or back at the head.
Going(h, s, td, vd, pos, n, d) ==
    LET v == Len(vd)
        r == Len(td) - v
    IN  /\ d \in Nat /\ r >= 0 /\ Len(s) = d + r
        /\ vd = SubSeq(td, 1, v)
        /\ \A j \in 1..r : s[d + j] = td[v + j]
        /\ pos = At(h, s, d + 1)
        /\ r > 0 => n = At(h, s, d + 2)

Looping ==
    /\ iter \in [on : BOOLEAN, head : Heads \cup {Wild}, pos : ListCells \cup {Wild},
                 n : ListCells \cup {Wild}, todo : Seq(Nodes), visited : Seq(Nodes)]
    /\ iter.on =>
          /\ iter.head \in live
          /\ \E d \in Nat : Going(iter.head, seq[iter.head], iter.todo, iter.visited,
                                  iter.pos, iter.n, d)

ListInv == Lists /\ Looping
-----------------------------------------------------------------------------
LEMMA Places ==
    ASSUME CellsAssumption, NEW h \in Heads, NEW s \in Seq(Nodes), Injective(s)
    PROVE  /\ Len(s) \in Nat
           /\ At(h, s, 0) = h /\ At(h, s, Len(s) + 1) = h
           /\ \A k \in 1..Len(s) : At(h, s, k) = s[k] /\ s[k] \in Nodes
           /\ \A k \in 0..(Len(s) + 1) : At(h, s, k) \in ListCells
           /\ \A j, k \in 0..Len(s) : At(h, s, j) = At(h, s, k) => j = k
           /\ \A j, k \in 1..(Len(s) + 1) : At(h, s, j) = At(h, s, k) => j = k
<1>1. /\ Len(s) \in Nat /\ \A k \in 1..Len(s) : s[k] \in Nodes
      /\ h \notin Nodes /\ h \in ListCells /\ Nodes \subseteq ListCells
  BY DEF CellsAssumption, ListCells
<1> DEFINE m == Len(s)
<1> HIDE DEF m
<1>2. /\ m \in Nat /\ \A k : At(h, s, k) = IF k \in 1..m THEN s[k] ELSE h
      /\ \A k \in 1..m : s[k] \in Nodes
      /\ \A j, k \in 1..m : s[j] = s[k] => j = k
  BY <1>1 DEF At, Injective, m
<1>3. At(h, s, 0) = h /\ At(h, s, m + 1) = h
  BY <1>2
<1>4. \A k \in 0..(m + 1) : k \notin 1..m => k = 0 \/ k = m + 1
  BY <1>2
<1>5. ASSUME NEW j \in 0..m, NEW k \in 0..m, At(h, s, j) = At(h, s, k)
      PROVE  j = k
  BY <1>1, <1>2, <1>5
<1>6. ASSUME NEW j \in 1..(m + 1), NEW k \in 1..(m + 1), At(h, s, j) = At(h, s, k)
      PROVE  j = k
  BY <1>1, <1>2, <1>6
<1> QED BY <1>1, <1>2, <1>3, <1>5, <1>6 DEF m

\* t is s with n behind its i-th place, s without its i-th, s with u behind its i-th.
Inserted(s, i, n, t) ==
    /\ i \in 0..Len(s) /\ Len(t) = Len(s) + 1
    /\ \A k \in 1..Len(t) : t[k] = IF k <= i THEN s[k] ELSE IF k = i + 1 THEN n ELSE s[k - 1]
Removed(s, i, t) ==
    /\ i \in 1..Len(s) /\ Len(t) = Len(s) - 1
    /\ \A k \in 1..Len(t) : t[k] = IF k < i THEN s[k] ELSE s[k + 1]
Spliced(s, i, u, t) ==
    /\ i \in 0..Len(s) /\ Len(t) = Len(s) + Len(u)
    /\ \A k \in 1..Len(t) : t[k] = IF k <= i THEN s[k]
                                   ELSE IF k <= i + Len(u) THEN u[k - i] ELSE s[k - Len(u)]

\* A new cell between two neighbours.
LEMMA Insertion ==
    ASSUME CellsAssumption, NEW h \in Heads, NEW s \in Seq(Nodes), Injective(s),
           NEW n \in Nodes, \A k \in 1..Len(s) : s[k] # n,
           NEW i, NEW t \in Seq(Nodes), Inserted(s, i, n, t),
           NEW nx \in Pointers, NEW pv \in Pointers, Ring(nx, pv, h, s)
    PROVE  /\ Ring([nx EXCEPT ![n] = At(h, s, i + 1), ![At(h, s, i)] = n],
                   [pv EXCEPT ![At(h, s, i + 1)] = n, ![n] = At(h, s, i)], h, t)
           /\ Injective(t)
<1> DEFINE m == Len(s)
           pre == At(h, s, i)
           x == At(h, s, i + 1)
           A(k) == At(h, s, k)
           B(k) == At(h, t, k)
           nx2 == [nx EXCEPT ![n] = x, ![pre] = n]
           pv2 == [pv EXCEPT ![x] = n, ![n] = pre]
<1>1. /\ m \in Nat /\ A(0) = h /\ A(m + 1) = h
      /\ \A k \in 1..m : A(k) = s[k] /\ s[k] \in Nodes
      /\ \A k \in 0..(m + 1) : A(k) \in ListCells
      /\ \A j, k \in 0..m : A(j) = A(k) => j = k
      /\ \A j, k \in 1..(m + 1) : A(j) = A(k) => j = k
  BY Places
<1>2. \A k \in 0..m : nx[A(k)] = A(k + 1) /\ pv[A(k + 1)] = A(k)
  BY DEF Ring
<1>3. /\ i \in 0..m /\ Len(t) = m + 1 /\ n \in ListCells /\ h # n
      /\ \A k \in 1..m : s[k] # n
      /\ \A k \in 1..(m + 1) : t[k] = IF k <= i THEN s[k] ELSE IF k = i + 1 THEN n ELSE s[k - 1]
      /\ \A k : B(k) = IF k \in 1..(m + 1) THEN t[k] ELSE h
      /\ pre = A(i) /\ x = A(i + 1)
      /\ \A j, k \in 1..m : s[j] = s[k] => j = k
  BY <1>1 DEF At, ListCells, CellsAssumption, Injective, Inserted
<1> HIDE DEF m, A, B, pre, x
<1>4. ASSUME NEW k \in 0..(m + 1)
      PROVE  A(k) # n
  <2>1. k = 0 \/ k = m + 1 \/ k \in 1..m
    BY <1>1
  <2> QED BY <1>1, <1>3, <2>1
<1>5. \A k \in 0..(m + 2) : B(k) = IF k <= i THEN A(k) ELSE IF k = i + 1 THEN n ELSE A(k - 1)
  <2> SUFFICES ASSUME NEW k \in 0..(m + 2)
               PROVE  B(k) = IF k <= i THEN A(k) ELSE IF k = i + 1 THEN n ELSE A(k - 1)
    OBVIOUS
  <2>1. CASE k = 0
    BY <1>1, <1>3, <2>1
  <2>2. CASE k = m + 2
    <3>1. k \notin 1..(m + 1) /\ ~(k <= i) /\ k # i + 1 /\ k - 1 = m + 1
      BY <1>1, <1>3, <2>2
    <3> QED BY <1>1, <1>3, <3>1
  <2>3. CASE k \in 1..i
    <3>1. k \in 1..m /\ k \in 1..(m + 1) /\ k <= i
      BY <1>1, <1>3, <2>3
    <3> QED BY <1>1, <1>3, <3>1
  <2>4. CASE k = i + 1
    <3>1. k \in 1..(m + 1) /\ ~(k <= i)
      BY <1>1, <1>3, <2>4
    <3> QED BY <1>3, <2>4, <3>1
  <2>5. CASE k \in (i + 2)..(m + 1)
    <3>1. k \in 1..(m + 1) /\ ~(k <= i) /\ k # i + 1 /\ k - 1 \in 1..m
      BY <1>1, <1>3, <2>5
    <3> QED BY <1>1, <1>3, <3>1
  <2>6. k = 0 \/ k = m + 2 \/ k \in 1..i \/ k = i + 1 \/ k \in (i + 2)..(m + 1)
    BY <1>1, <1>3
  <2> QED BY <2>1, <2>2, <2>3, <2>4, <2>5, <2>6
<1>6. /\ pre \in ListCells /\ x \in ListCells /\ pre # n /\ x # n
      /\ nx2[n] = x /\ nx2[pre] = n /\ \A c \in ListCells : c # n /\ c # pre => nx2[c] = nx[c]
      /\ pv2[x] = n /\ pv2[n] = pre /\ \A c \in ListCells : c # n /\ c # x => pv2[c] = pv[c]
  <2>1. pre \in ListCells /\ x \in ListCells /\ pre # n /\ x # n
    <3>1. i \in 0..(m + 1) /\ i + 1 \in 0..(m + 1)
      BY <1>1, <1>3
    <3> QED BY <1>1, <1>3, <1>4, <3>1
  <2> QED BY <1>3, <2>1 DEF Pointers
<1> HIDE DEF nx2, pv2
<1>7. ASSUME NEW k \in 0..(m + 1)
      PROVE  nx2[B(k)] = B(k + 1) /\ pv2[B(k + 1)] = B(k)
  <2>1. CASE k < i
    <3>1. /\ k \in 0..m /\ k + 1 \in 1..(m + 1) /\ k # i /\ k + 1 # i + 1
          /\ k \in 0..(m + 1) /\ k + 1 \in 0..(m + 1) /\ i \in 0..m /\ i + 1 \in 1..(m + 1)
          /\ k \in 0..(m + 2) /\ k + 1 \in 0..(m + 2) /\ k <= i /\ k + 1 <= i
      BY <1>1, <1>3, <2>1
    <3>2. B(k) = A(k) /\ B(k + 1) = A(k + 1)
      BY <1>5, <3>1
    <3>3. A(k) # pre /\ A(k + 1) # x /\ A(k) # n /\ A(k + 1) # n
      BY <1>1, <1>3, <1>4, <3>1
    <3>4. nx[A(k)] = A(k + 1) /\ pv[A(k + 1)] = A(k) /\ A(k) \in ListCells /\ A(k + 1) \in ListCells
      BY <1>1, <1>2, <3>1
    <3> QED BY <1>6, <3>2, <3>3, <3>4
  <2>2. CASE k = i
    <3>1. B(k) = pre /\ B(k + 1) = n
      <4>1. k \in 0..(m + 2) /\ k + 1 \in 0..(m + 2) /\ k <= i /\ ~(k + 1 <= i)
        BY <1>1, <1>3, <2>2
      <4> QED BY <1>3, <1>5, <2>2, <4>1
    <3> QED BY <1>6, <3>1
  <2>3. CASE k = i + 1
    <3>1. B(k) = n /\ B(k + 1) = x
      <4>1. /\ k \in 0..(m + 2) /\ k + 1 \in 0..(m + 2) /\ ~(k <= i) /\ ~(k + 1 <= i)
            /\ k + 1 # i + 1 /\ (k + 1) - 1 = i + 1
        BY <1>1, <1>3, <2>3
      <4> QED BY <1>3, <1>5, <2>3, <4>1
    <3> QED BY <1>6, <3>1
  <2>4. CASE k > i + 1
    <3> DEFINE j == k - 1
    <3>1. /\ j \in 0..m /\ j + 1 \in 1..(m + 1) /\ j # i /\ j + 1 # i + 1
          /\ j \in 0..(m + 1) /\ j + 1 \in 0..(m + 1) /\ i \in 0..m /\ i + 1 \in 1..(m + 1)
          /\ k \in 0..(m + 2) /\ k + 1 \in 0..(m + 2) /\ ~(k <= i) /\ ~(k + 1 <= i)
          /\ k # i + 1 /\ k + 1 # i + 1 /\ (k + 1) - 1 = j + 1
      BY <1>1, <1>3, <2>4
    <3>2. B(k) = A(j) /\ B(k + 1) = A(j + 1)
      BY <1>5, <3>1
    <3> HIDE DEF j
    <3>3. A(j) # pre /\ A(j + 1) # x /\ A(j) # n /\ A(j + 1) # n
      BY <1>1, <1>3, <1>4, <3>1
    <3>4. nx[A(j)] = A(j + 1) /\ pv[A(j + 1)] = A(j) /\ A(j) \in ListCells /\ A(j + 1) \in ListCells
      BY <1>1, <1>2, <3>1
    <3> QED BY <1>6, <3>2, <3>3, <3>4
  <2> QED BY <1>1, <1>3, <2>1, <2>2, <2>3, <2>4
<1>8. Ring(nx2, pv2, h, t)
  BY <1>3, <1>7 DEF Ring, B
<1>9. Injective(t)
  <2> SUFFICES ASSUME NEW j \in 1..(m + 1), NEW k \in 1..(m + 1), t[j] = t[k]
               PROVE  j = k
    BY <1>3 DEF Injective
  <2> DEFINE old(y) == IF y <= i THEN y ELSE y - 1
  <2>1. ASSUME NEW y \in 1..(m + 1)
        PROVE  IF y = i + 1 THEN t[y] = n
               ELSE t[y] = s[old(y)] /\ old(y) \in 1..m /\ s[old(y)] # n
    <3>1. CASE y <= i
      <4>1. y # i + 1 /\ y \in 1..m /\ old(y) = y
        BY <1>1, <1>3, <3>1
      <4> QED BY <1>3, <3>1, <4>1
    <3>2. CASE y = i + 1
      <4>1. ~(y <= i)
        BY <1>1, <1>3, <3>2
      <4> QED BY <1>3, <3>2, <4>1
    <3>3. CASE y > i + 1
      <4>1. y # i + 1 /\ y - 1 \in 1..m /\ old(y) = y - 1 /\ ~(y <= i)
        BY <1>1, <1>3, <3>3
      <4> QED BY <1>3, <4>1
    <3> QED BY <1>3, <3>1, <3>2, <3>3
  <2>2. j # i + 1 /\ k # i + 1 => old(j) = old(k)
    BY <1>3, <2>1
  <2>3. j = i + 1 <=> k = i + 1
    BY <2>1
  <2> QED BY <1>3, <2>2, <2>3
<1> QED BY <1>8, <1>9 DEF nx2, pv2, pre, x

\* A cell taken out from between its neighbours.
LEMMA Removal ==
    ASSUME CellsAssumption, NEW h \in Heads, NEW s \in Seq(Nodes), Injective(s),
           NEW i, NEW t \in Seq(Nodes), Removed(s, i, t),
           NEW nx \in Pointers, NEW pv \in Pointers, Ring(nx, pv, h, s),
           NEW n, n = s[i]
    PROVE  /\ Ring([nx EXCEPT ![pv[n]] = nx[n]], [pv EXCEPT ![nx[n]] = pv[n]], h, t)
           /\ Injective(t)
<1> DEFINE m == Len(s)
           A(k) == At(h, s, k)
           B(k) == At(h, t, k)
           nx2 == [nx EXCEPT ![pv[n]] = nx[n]]
           pv2 == [pv EXCEPT ![nx[n]] = pv[n]]
<1>1. /\ m \in Nat /\ A(0) = h /\ A(m + 1) = h
      /\ \A k \in 1..m : A(k) = s[k] /\ s[k] \in Nodes
      /\ \A k \in 0..(m + 1) : A(k) \in ListCells
      /\ \A j, k \in 0..m : A(j) = A(k) => j = k
      /\ \A j, k \in 1..(m + 1) : A(j) = A(k) => j = k
  BY Places
<1>2. \A k \in 0..m : nx[A(k)] = A(k + 1) /\ pv[A(k + 1)] = A(k)
  BY DEF Ring
<1>3. /\ i \in 1..m /\ Len(t) = m - 1 /\ n = s[i]
      /\ \A k \in 1..(m - 1) : t[k] = IF k < i THEN s[k] ELSE s[k + 1]
      /\ \A k : B(k) = IF k \in 1..(m - 1) THEN t[k] ELSE h
      /\ \A j, k \in 1..m : s[j] = s[k] => j = k
  BY DEF At, Injective, Removed
<1> HIDE DEF m, A, B
<1>4. n = A(i) /\ nx[n] = A(i + 1) /\ pv[n] = A(i - 1)
  <2>1. i \in 0..m /\ i - 1 \in 0..m /\ (i - 1) + 1 = i
    BY <1>1, <1>3
  <2> QED BY <1>1, <1>2, <1>3, <2>1
<1>5. \A k \in 0..m : B(k) = IF k < i THEN A(k) ELSE A(k + 1)
  <2> SUFFICES ASSUME NEW k \in 0..m
               PROVE  B(k) = IF k < i THEN A(k) ELSE A(k + 1)
    OBVIOUS
  <2>1. CASE k = 0
    BY <1>1, <1>3, <2>1
  <2>2. CASE k = m
    <3>1. k \notin 1..(m - 1) /\ ~(k < i) /\ k + 1 = m + 1
      BY <1>1, <1>3, <2>2
    <3> QED BY <1>1, <1>3, <3>1
  <2>3. CASE k \in 1..(i - 1)
    <3>1. k \in 1..m /\ k \in 1..(m - 1) /\ k < i
      BY <1>1, <1>3, <2>3
    <3> QED BY <1>1, <1>3, <3>1
  <2>4. CASE k \in i..(m - 1)
    <3>1. k \in 1..(m - 1) /\ ~(k < i) /\ k + 1 \in 1..m
      BY <1>1, <1>3, <2>4
    <3> QED BY <1>1, <1>3, <3>1
  <2>5. k = 0 \/ k = m \/ k \in 1..(i - 1) \/ k \in i..(m - 1)
    BY <1>1, <1>3
  <2> QED BY <2>1, <2>2, <2>3, <2>4, <2>5
<1> DEFINE pre == A(i - 1)
           x == A(i + 1)
<1>6. /\ nx2[pre] = x /\ \A c \in ListCells : c # pre => nx2[c] = nx[c]
      /\ pv2[x] = pre /\ \A c \in ListCells : c # x => pv2[c] = pv[c]
  <2>1. pre \in ListCells /\ x \in ListCells
    <3>1. i - 1 \in 0..(m + 1) /\ i + 1 \in 0..(m + 1)
      BY <1>1, <1>3
    <3> QED BY <1>1, <3>1
  <2> QED BY <1>4, <2>1 DEF Pointers
<1> HIDE DEF nx2, pv2, pre, x
<1>7. ASSUME NEW k \in 0..(m - 1)
      PROVE  nx2[B(k)] = B(k + 1) /\ pv2[B(k + 1)] = B(k)
  <2>1. CASE k < i - 1
    <3>1. /\ k \in 0..m /\ k + 1 \in 1..(m + 1) /\ k # i - 1 /\ k + 1 # i + 1
          /\ k \in 0..(m + 1) /\ k + 1 \in 0..(m + 1) /\ i - 1 \in 0..m /\ i + 1 \in 1..(m + 1)
          /\ k + 1 \in 0..m /\ k < i /\ k + 1 < i
      BY <1>1, <1>3, <2>1
    <3>2. B(k) = A(k) /\ B(k + 1) = A(k + 1)
      BY <1>5, <3>1
    <3>3. A(k) # pre /\ A(k + 1) # x
      BY <1>1, <1>3, <3>1 DEF pre, x
    <3>4. nx[A(k)] = A(k + 1) /\ pv[A(k + 1)] = A(k) /\ A(k) \in ListCells /\ A(k + 1) \in ListCells
      BY <1>1, <1>2, <3>1
    <3> QED BY <1>6, <3>2, <3>3, <3>4
  <2>2. CASE k = i - 1
    <3>1. B(k) = pre /\ B(k + 1) = x
      <4>1. k \in 0..m /\ k + 1 \in 0..m /\ k < i /\ ~(k + 1 < i) /\ (k + 1) + 1 = i + 1
        BY <1>1, <1>3, <2>2
      <4> QED BY <1>3, <1>5, <2>2, <4>1 DEF pre, x
    <3> QED BY <1>6, <3>1
  <2>3. CASE k > i - 1
    <3> DEFINE j == k + 1
    <3>1. /\ j \in 0..m /\ j + 1 \in 1..(m + 1) /\ j # i - 1 /\ j + 1 # i + 1
          /\ j \in 0..(m + 1) /\ j + 1 \in 0..(m + 1) /\ i - 1 \in 0..m /\ i + 1 \in 1..(m + 1)
          /\ k \in 0..m /\ ~(k < i) /\ ~(j < i)
      BY <1>1, <1>3, <2>3
    <3>2. B(k) = A(j) /\ B(k + 1) = A(j + 1)
      BY <1>5, <3>1
    <3> HIDE DEF j
    <3>3. A(j) # pre /\ A(j + 1) # x
      BY <1>1, <1>3, <3>1 DEF pre, x
    <3>4. nx[A(j)] = A(j + 1) /\ pv[A(j + 1)] = A(j) /\ A(j) \in ListCells /\ A(j + 1) \in ListCells
      BY <1>1, <1>2, <3>1
    <3> QED BY <1>6, <3>2, <3>3, <3>4
  <2> QED BY <1>1, <1>3, <2>1, <2>2, <2>3
<1>8. Ring(nx2, pv2, h, t)
  BY <1>3, <1>7 DEF Ring, B
<1>9. Injective(t)
  <2> SUFFICES ASSUME NEW j \in 1..(m - 1), NEW k \in 1..(m - 1), t[j] = t[k]
               PROVE  j = k
    BY <1>3 DEF Injective
  <2> DEFINE old(y) == IF y < i THEN y ELSE y + 1
  <2>1. ASSUME NEW y \in 1..(m - 1)
        PROVE  t[y] = s[old(y)] /\ old(y) \in 1..m
    BY <1>1, <1>3
  <2>2. old(j) = old(k)
    BY <1>3, <2>1
  <2> QED BY <1>3, <2>2
<1> QED BY <1>8, <1>9 DEF nx2, pv2

\* The nodes of another list between two neighbours.
LEMMA Splicing ==
    ASSUME CellsAssumption, NEW h \in Heads, NEW s \in Seq(Nodes), Injective(s),
           NEW l \in Heads, NEW u \in Seq(Nodes), Injective(u), Len(u) > 0,
           \A j \in 1..Len(s), k \in 1..Len(u) : s[j] # u[k],
           NEW i, NEW t \in Seq(Nodes), Spliced(s, i, u, t),
           NEW nx \in Pointers, NEW pv \in Pointers, Ring(nx, pv, h, s), Ring(nx, pv, l, u)
    PROVE  /\ Ring([nx EXCEPT ![At(h, s, i)] = nx[l], ![pv[l]] = At(h, s, i + 1)],
                   [pv EXCEPT ![nx[l]] = At(h, s, i), ![At(h, s, i + 1)] = pv[l]], h, t)
           /\ Injective(t)
<1> DEFINE m == Len(s)
           pre == At(h, s, i)
           x == At(h, s, i + 1)
           q == Len(u)
           first == nx[l]
           last == pv[l]
           A(k) == At(h, s, k)
           B(k) == At(h, t, k)
           C(k) == At(l, u, k)
           nx2 == [nx EXCEPT ![pre] = first, ![last] = x]
           pv2 == [pv EXCEPT ![first] = pre, ![x] = last]
<1>1. /\ m \in Nat /\ A(0) = h /\ A(m + 1) = h
      /\ \A k \in 1..m : A(k) = s[k] /\ s[k] \in Nodes
      /\ \A k \in 0..(m + 1) : A(k) \in ListCells
      /\ \A j, k \in 0..m : A(j) = A(k) => j = k
      /\ \A j, k \in 1..(m + 1) : A(j) = A(k) => j = k
  BY Places
<1>a. /\ q \in Nat /\ q > 0 /\ C(0) = l /\ C(q + 1) = l
      /\ \A k \in 1..q : C(k) = u[k] /\ u[k] \in Nodes
      /\ \A k \in 0..(q + 1) : C(k) \in ListCells
      /\ \A j, k \in 0..q : C(j) = C(k) => j = k
      /\ \A j, k \in 1..(q + 1) : C(j) = C(k) => j = k
  BY Places
<1>2. \A k \in 0..m : nx[A(k)] = A(k + 1) /\ pv[A(k + 1)] = A(k)
  BY DEF Ring
<1>b. \A k \in 0..q : nx[C(k)] = C(k + 1) /\ pv[C(k + 1)] = C(k)
  BY DEF Ring
<1>3. /\ i \in 0..m /\ Len(t) = m + q
      /\ \A k \in 1..(m + q) : t[k] = IF k <= i THEN s[k] ELSE IF k <= i + q THEN u[k - i] ELSE s[k - q]
      /\ \A k : B(k) = IF k \in 1..(m + q) THEN t[k] ELSE h
      /\ pre = A(i) /\ x = A(i + 1)
      /\ \A j, k \in 1..m : s[j] = s[k] => j = k
      /\ \A j, k \in 1..q : u[j] = u[k] => j = k
      /\ \A j \in 1..m, k \in 1..q : s[j] # u[k]
      /\ \A k \in 1..q : u[k] # h
  BY <1>a DEF At, Injective, CellsAssumption, Spliced
<1> HIDE DEF m, q, A, B, C, pre, x
<1>4. ASSUME NEW k \in 0..(m + 1), NEW j \in 1..q
      PROVE  A(k) # C(j)
  <2>1. k = 0 \/ k = m + 1 \/ k \in 1..m
    BY <1>1
  <2>2. C(j) = u[j] /\ u[j] # h
    BY <1>a, <1>3
  <2>3. k \in 1..m => A(k) = s[k] /\ s[k] # u[j]
    BY <1>1, <1>3
  <2> QED BY <1>1, <2>1, <2>2, <2>3
<1>c. first = C(1) /\ last = C(q)
  <2>1. 0 \in 0..q /\ q \in 0..q /\ 0 + 1 = 1
    BY <1>a
  <2> QED BY <1>a, <1>b, <2>1
<1>5. \A k \in 0..(m + q + 1) :
         B(k) = IF k <= i THEN A(k) ELSE IF k <= i + q THEN C(k - i) ELSE A(k - q)
  <2> SUFFICES ASSUME NEW k \in 0..(m + q + 1)
               PROVE  B(k) = IF k <= i THEN A(k) ELSE IF k <= i + q THEN C(k - i) ELSE A(k - q)
    OBVIOUS
  <2>1. CASE k = 0
    BY <1>1, <1>3, <2>1
  <2>2. CASE k = m + q + 1
    <3>1. k \notin 1..(m + q) /\ ~(k <= i) /\ ~(k <= i + q) /\ k - q = m + 1
      BY <1>1, <1>a, <1>3, <2>2
    <3> QED BY <1>1, <1>3, <3>1
  <2>3. CASE k \in 1..i
    <3>1. k \in 1..m /\ k \in 1..(m + q) /\ k <= i
      BY <1>1, <1>a, <1>3, <2>3
    <3> QED BY <1>1, <1>3, <3>1
  <2>4. CASE k \in (i + 1)..(i + q)
    <3>1. k \in 1..(m + q) /\ ~(k <= i) /\ k <= i + q /\ k - i \in 1..q
      BY <1>1, <1>a, <1>3, <2>4
    <3> QED BY <1>3, <1>a, <3>1
  <2>5. CASE k \in (i + q + 1)..(m + q)
    <3>1. k \in 1..(m + q) /\ ~(k <= i) /\ ~(k <= i + q) /\ k - q \in 1..m
      BY <1>1, <1>a, <1>3, <2>5
    <3> QED BY <1>1, <1>3, <3>1
  <2>6. k = 0 \/ k = m + q + 1 \/ k \in 1..i \/ k \in (i + 1)..(i + q) \/ k \in (i + q + 1)..(m + q)
    BY <1>1, <1>a, <1>3
  <2> QED BY <2>1, <2>2, <2>3, <2>4, <2>5, <2>6
<1>6. /\ nx2[pre] = first /\ nx2[last] = x
      /\ \A c \in ListCells : c # last /\ c # pre => nx2[c] = nx[c]
      /\ pv2[first] = pre /\ pv2[x] = last
      /\ \A c \in ListCells : c # first /\ c # x => pv2[c] = pv[c]
  <2>1. /\ pre \in ListCells /\ x \in ListCells /\ first \in ListCells /\ last \in ListCells
        /\ pre # last /\ x # first
    <3>1. /\ i \in 0..(m + 1) /\ i + 1 \in 0..(m + 1) /\ 1 \in 1..q /\ q \in 1..q
          /\ 1 \in 0..(q + 1) /\ q \in 0..(q + 1)
      BY <1>1, <1>a, <1>3
    <3> QED BY <1>1, <1>a, <1>3, <1>4, <1>c, <3>1
  <2> HIDE DEF first, last
  <2> QED BY <2>1 DEF Pointers
<1> HIDE DEF nx2, pv2, first, last
<1>7. ASSUME NEW k \in 0..(m + q)
      PROVE  nx2[B(k)] = B(k + 1) /\ pv2[B(k + 1)] = B(k)
  <2>a. 1 \in 1..q /\ q \in 1..q
    BY <1>a
  <2>1. CASE k < i
    <3>1. /\ k \in 0..m /\ k + 1 \in 1..(m + 1) /\ k # i /\ k + 1 # i + 1
          /\ k \in 0..(m + 1) /\ k + 1 \in 0..(m + 1) /\ i \in 0..m /\ i + 1 \in 1..(m + 1)
          /\ k \in 0..(m + q + 1) /\ k + 1 \in 0..(m + q + 1) /\ k <= i /\ k + 1 <= i
      BY <1>1, <1>a, <1>3, <2>1
    <3>2. B(k) = A(k) /\ B(k + 1) = A(k + 1)
      BY <1>5, <3>1
    <3>3. A(k) # pre /\ A(k + 1) # x /\ A(k) # last /\ A(k + 1) # first
      BY <1>1, <1>3, <1>4, <1>c, <2>a, <3>1
    <3>4. nx[A(k)] = A(k + 1) /\ pv[A(k + 1)] = A(k) /\ A(k) \in ListCells /\ A(k + 1) \in ListCells
      BY <1>1, <1>2, <3>1
    <3> QED BY <1>6, <3>2, <3>3, <3>4
  <2>2. CASE k = i
    <3>1. B(k) = pre /\ B(k + 1) = first
      <4>1. /\ k \in 0..(m + q + 1) /\ k + 1 \in 0..(m + q + 1) /\ k <= i /\ ~(k + 1 <= i)
            /\ k + 1 <= i + q /\ (k + 1) - i = 1
        BY <1>1, <1>a, <1>3, <2>2
      <4> QED BY <1>3, <1>5, <1>c, <2>2, <4>1
    <3> QED BY <1>6, <3>1
  <2>3. CASE k > i /\ k < i + q
    <3> DEFINE j == k - i
    <3>1. /\ j \in 1..q /\ j + 1 \in 1..q /\ j # q /\ j + 1 # 1
          /\ j \in 0..q /\ j + 1 \in 0..(q + 1) /\ j + 1 \in 1..(q + 1) /\ j \in 0..(q + 1)
          /\ q \in 0..q /\ 1 \in 1..(q + 1)
          /\ i \in 0..(m + 1) /\ i + 1 \in 0..(m + 1)
          /\ k \in 0..(m + q + 1) /\ k + 1 \in 0..(m + q + 1) /\ ~(k <= i) /\ ~(k + 1 <= i)
          /\ k <= i + q /\ k + 1 <= i + q /\ (k + 1) - i = j + 1
      BY <1>1, <1>a, <1>3, <2>3
    <3>2. B(k) = C(j) /\ B(k + 1) = C(j + 1)
      BY <1>5, <3>1
    <3> HIDE DEF j
    <3>3. C(j) # pre /\ C(j + 1) # x /\ C(j) # last /\ C(j + 1) # first
      BY <1>a, <1>3, <1>4, <1>c, <3>1
    <3>4. nx[C(j)] = C(j + 1) /\ pv[C(j + 1)] = C(j) /\ C(j) \in ListCells /\ C(j + 1) \in ListCells
      BY <1>a, <1>b, <3>1
    <3> QED BY <1>6, <3>2, <3>3, <3>4
  <2>4. CASE k = i + q
    <3>1. B(k) = last /\ B(k + 1) = x
      <4>1. /\ k \in 0..(m + q + 1) /\ k + 1 \in 0..(m + q + 1) /\ ~(k <= i) /\ ~(k + 1 <= i)
            /\ k <= i + q /\ ~(k + 1 <= i + q) /\ k - i = q /\ (k + 1) - q = i + 1
        BY <1>1, <1>a, <1>3, <2>4
      <4>2. B(k) = C(k - i) /\ B(k + 1) = A((k + 1) - q)
        BY <1>5, <4>1
      <4> QED BY <1>3, <1>c, <4>1, <4>2
    <3> QED BY <1>6, <3>1
  <2>5. CASE k > i + q
    <3> DEFINE j == k - q
    <3>1. /\ j \in 0..m /\ j + 1 \in 1..(m + 1) /\ j # i /\ j + 1 # i + 1
          /\ j \in 0..(m + 1) /\ j + 1 \in 0..(m + 1) /\ i \in 0..m /\ i + 1 \in 1..(m + 1)
          /\ k \in 0..(m + q + 1) /\ k + 1 \in 0..(m + q + 1) /\ ~(k <= i) /\ ~(k + 1 <= i)
          /\ ~(k <= i + q) /\ ~(k + 1 <= i + q) /\ (k + 1) - q = j + 1
      BY <1>1, <1>a, <1>3, <2>5
    <3>2. B(k) = A(j) /\ B(k + 1) = A(j + 1)
      BY <1>5, <3>1
    <3> HIDE DEF j
    <3>3. A(j) # pre /\ A(j + 1) # x
      BY <1>1, <1>3, <3>1
    <3>5. A(j) # last /\ A(j + 1) # first
      BY <1>4, <1>c, <2>a, <3>1
    <3>4. nx[A(j)] = A(j + 1) /\ pv[A(j + 1)] = A(j) /\ A(j) \in ListCells /\ A(j + 1) \in ListCells
      BY <1>1, <1>2, <3>1
    <3> QED BY <1>6, <3>2, <3>3, <3>4, <3>5
  <2> QED BY <1>1, <1>a, <1>3, <2>1, <2>2, <2>3, <2>4, <2>5
<1>8. Ring(nx2, pv2, h, t)
  BY <1>3, <1>7 DEF Ring, B
<1>9. Injective(t)
  <2> SUFFICES ASSUME NEW j \in 1..(m + q), NEW k \in 1..(m + q), t[j] = t[k]
               PROVE  j = k
    BY <1>3 DEF Injective
  <2> DEFINE Outer(y) == y <= i \/ y > i + q
             old(y) == IF y <= i THEN y ELSE y - q
  <2>1. ASSUME NEW y \in 1..(m + q)
        PROVE  IF Outer(y) THEN t[y] = s[old(y)] /\ old(y) \in 1..m
               ELSE t[y] = u[y - i] /\ y - i \in 1..q
    <3>1. CASE y <= i
      <4>1. Outer(y) /\ old(y) = y /\ y \in 1..m
        BY <1>1, <1>a, <1>3, <3>1
      <4> QED BY <1>3, <3>1, <4>1
    <3>2. CASE y > i /\ y <= i + q
      <4>1. ~Outer(y) /\ y - i \in 1..q /\ ~(y <= i)
        BY <1>1, <1>a, <1>3, <3>2
      <4> QED BY <1>3, <3>2, <4>1
    <3>3. CASE y > i + q
      <4>1. Outer(y) /\ old(y) = y - q /\ y - q \in 1..m /\ ~(y <= i) /\ ~(y <= i + q)
        BY <1>1, <1>a, <1>3, <3>3
      <4> QED BY <1>3, <4>1
    <3> QED BY <1>3, <1>a, <3>1, <3>2, <3>3
  <2> HIDE DEF Outer, old
  <2>2. ASSUME Outer(j), ~Outer(k) \/ (Outer(k) /\ old(j) # old(k))
        PROVE  FALSE
    <3>1. t[j] = s[old(j)] /\ old(j) \in 1..m
      BY <2>1, <2>2
    <3>2. CASE ~Outer(k)
      <4>1. t[k] = u[k - i] /\ k - i \in 1..q
        BY <2>1, <3>2
      <4> QED BY <1>3, <3>1, <4>1
    <3>3. CASE Outer(k) /\ old(j) # old(k)
      <4>1. t[k] = s[old(k)] /\ old(k) \in 1..m
        BY <2>1, <3>3
      <4> QED BY <1>3, <3>1, <3>3, <4>1
    <3> QED BY <2>2, <3>2, <3>3
  <2>5. ASSUME ~Outer(j), Outer(k) \/ (~Outer(k) /\ j - i # k - i)
        PROVE  FALSE
    <3>1. t[j] = u[j - i] /\ j - i \in 1..q
      BY <2>1, <2>5
    <3>2. CASE Outer(k)
      <4>1. t[k] = s[old(k)] /\ old(k) \in 1..m
        BY <2>1, <3>2
      <4> QED BY <1>3, <3>1, <4>1
    <3>3. CASE ~Outer(k) /\ j - i # k - i
      <4>1. t[k] = u[k - i] /\ k - i \in 1..q
        BY <2>1, <3>3
      <4> QED BY <1>3, <3>1, <3>3, <4>1
    <3> QED BY <2>5, <3>2, <3>3
  <2>3. CASE Outer(j)
    <3>1. Outer(k) /\ old(j) = old(k)
      BY <2>2, <2>3
    <3> QED BY <1>3, <1>a, <2>3, <3>1 DEF Outer, old
  <2>4. CASE ~Outer(j)
    <3>1. j - i = k - i
      BY <2>4, <2>5
    <3> QED BY <1>3, <3>1
  <2> QED BY <2>3, <2>4
<1> QED BY <1>8, <1>9 DEF nx2, pv2, first, last, pre, x

\* Two cells, neither beside the other, that take each other's places.
Exchanged(c, a, b) == IF c = a THEN b ELSE IF c = b THEN a ELSE c
Apart(nx, pv, n1, n2) ==
    /\ {pv[n1], nx[n1], pv[n2], nx[n2]} \subseteq ListCells
    /\ nx[pv[n1]] = n1 /\ pv[nx[n1]] = n1 /\ nx[pv[n2]] = n2 /\ pv[nx[n2]] = n2
    /\ {nx[n1], nx[n2]} \cap {n1, n2} = {} /\ n1 # n2

LEMMA Exchanging ==
    ASSUME CellsAssumption, NEW h \in Heads, NEW s \in Seq(Nodes), Injective(s),
           NEW nx \in Pointers, NEW pv \in Pointers, Ring(nx, pv, h, s),
           NEW n1 \in Nodes, NEW n2 \in Nodes, Apart(nx, pv, n1, n2)
    PROVE  /\ Ring([nx EXCEPT ![pv[n2]] = n1, ![n1] = nx[n2], ![pv[n1]] = n2, ![n2] = nx[n1]],
                   [pv EXCEPT ![n1] = pv[n2], ![nx[n2]] = n1, ![n2] = pv[n1], ![nx[n1]] = n2],
                   h, Swap(s, n1, n2))
           /\ Injective(Swap(s, n1, n2)) /\ Swap(s, n1, n2) \in Seq(Nodes)
           /\ Len(Swap(s, n1, n2)) = Len(s)
           /\ \A k \in 1..Len(s) : Swap(s, n1, n2)[k] = Exchanged(s[k], n1, n2)
<1> DEFINE m == Len(s)
           t == Swap(s, n1, n2)
           A(k) == At(h, s, k)
           B(k) == At(h, t, k)
           p1 == pv[n1]
           x1 == nx[n1]
           p2 == pv[n2]
           x2 == nx[n2]
           nx2 == [nx EXCEPT ![p2] = n1, ![n1] = x2, ![p1] = n2, ![n2] = x1]
           pv2 == [pv EXCEPT ![n1] = p2, ![x2] = n1, ![n2] = p1, ![x1] = n2]
<1>1. /\ m \in Nat /\ A(0) = h /\ A(m + 1) = h
      /\ \A k \in 1..m : A(k) = s[k] /\ s[k] \in Nodes
      /\ \A k \in 0..(m + 1) : A(k) \in ListCells
  BY Places
<1>2. \A k \in 0..m : nx[A(k)] = A(k + 1) /\ pv[A(k + 1)] = A(k)
  BY DEF Ring
<1>3. /\ n1 \in ListCells /\ n2 \in ListCells /\ h # n1 /\ h # n2
      /\ \A j, k \in 1..m : s[j] = s[k] => j = k
      /\ t = [k \in 1..m |-> Exchanged(s[k], n1, n2)]
  BY DEF ListCells, CellsAssumption, Injective, Swap, Exchanged
<1>4. t \in Seq(Nodes) /\ Len(t) = m /\ \A k \in 1..m : t[k] = Exchanged(s[k], n1, n2)
  <2>1. \A k \in 1..m : Exchanged(s[k], n1, n2) \in Nodes
    BY <1>1 DEF Exchanged
  <2> QED BY <1>1, <1>3, <2>1
<1> HIDE DEF m, A, t
<1>5. ASSUME NEW k \in 0..(m + 1)
      PROVE  B(k) = Exchanged(A(k), n1, n2)
  <2>1. CASE k \in 1..m
    BY <1>1, <1>4, <2>1 DEF At
  <2>2. CASE k \notin 1..m
    <3>1. k = 0 \/ k = m + 1
      BY <1>1, <2>2
    <3>2. B(k) = h
      BY <1>4, <2>2 DEF At
    <3> QED BY <1>1, <1>3, <3>1, <3>2 DEF Exchanged
  <2> QED BY <2>1, <2>2
<1> HIDE DEF B
<1>6. p1 # n1 /\ p1 # n2 /\ p2 # n1 /\ p2 # n2 /\ p1 # p2 /\ x1 # x2
      /\ x1 # n1 /\ x1 # n2 /\ x2 # n1 /\ x2 # n2
      /\ p1 = pv[n1] /\ x1 = nx[n1] /\ p2 = pv[n2] /\ x2 = nx[n2]
      /\ nx[p1] = n1 /\ pv[x1] = n1 /\ nx[p2] = n2 /\ pv[x2] = n2
      /\ p1 \in ListCells /\ x1 \in ListCells /\ p2 \in ListCells /\ x2 \in ListCells /\ n1 # n2
  BY DEF Apart
<1> HIDE DEF p1, x1, p2, x2
<1>7. /\ nx2[p2] = n1 /\ nx2[n1] = x2 /\ nx2[p1] = n2 /\ nx2[n2] = x1
      /\ \A c \in ListCells : c \notin {p2, n1, p1, n2} => nx2[c] = nx[c]
  BY <1>3, <1>6 DEF Pointers
<1>8. /\ pv2[n1] = p2 /\ pv2[x2] = n1 /\ pv2[n2] = p1 /\ pv2[x1] = n2
      /\ \A c \in ListCells : c \notin {n1, x2, n2, x1} => pv2[c] = pv[c]
  BY <1>3, <1>6 DEF Pointers
<1> HIDE DEF nx2, pv2
<1>9. ASSUME NEW k \in 0..m
      PROVE  nx2[B(k)] = B(k + 1) /\ pv2[B(k + 1)] = B(k)
  <2> DEFINE a == A(k)
             b == A(k + 1)
  <2>1. /\ nx[a] = b /\ pv[b] = a /\ a \in ListCells /\ b \in ListCells
        /\ B(k) = Exchanged(a, n1, n2) /\ B(k + 1) = Exchanged(b, n1, n2)
    <3>1. k \in 0..(m + 1) /\ k + 1 \in 0..(m + 1)
      BY <1>1
    <3> QED BY <1>1, <1>2, <1>5, <3>1
  <2> HIDE DEF a, b
  <2>2. CASE a = n1
    BY <1>6, <1>7, <1>8, <2>1, <2>2 DEF Exchanged
  <2>3. CASE a = n2
    BY <1>6, <1>7, <1>8, <2>1, <2>3 DEF Exchanged
  <2>4. CASE b = n1
    BY <1>6, <1>7, <1>8, <2>1, <2>4 DEF Exchanged
  <2>5. CASE b = n2
    BY <1>6, <1>7, <1>8, <2>1, <2>5 DEF Exchanged
  <2>6. CASE {a, b} \cap {n1, n2} = {}
    <3>1. B(k) = a /\ B(k + 1) = b
      BY <2>1, <2>6 DEF Exchanged
    <3>2. a \notin {p2, n1, p1, n2} /\ b \notin {n1, x2, n2, x1}
      BY <1>6, <2>1, <2>6
    <3> QED BY <1>7, <1>8, <2>1, <3>1, <3>2
  <2> QED BY <2>2, <2>3, <2>4, <2>5, <2>6
<1>10. Ring(nx2, pv2, h, t)
  BY <1>4, <1>9 DEF Ring, B
<1>11. Injective(t)
  <2> SUFFICES ASSUME NEW j \in 1..m, NEW k \in 1..m, t[j] = t[k]
               PROVE  j = k
    BY <1>4 DEF Injective
  <2>1. Exchanged(s[j], n1, n2) = Exchanged(s[k], n1, n2)
    BY <1>4
  <2>2. s[j] = s[k]
    BY <2>1 DEF Exchanged
  <2> QED BY <1>3, <2>2
<1> QED BY <1>4, <1>10, <1>11 DEF nx2, pv2, t, m, p1, x1, p2, x2

\* Pointers that agree on the cells of a ring.
LEMMA RingKept ==
    ASSUME CellsAssumption, NEW h \in Heads, NEW s \in Seq(Nodes), Injective(s),
           NEW nx, NEW pv, NEW nx2, NEW pv2, Ring(nx, pv, h, s),
           nx2[h] = nx[h], pv2[h] = pv[h],
           \A k \in 1..Len(s) : nx2[s[k]] = nx[s[k]] /\ pv2[s[k]] = pv[s[k]]
    PROVE  Ring(nx2, pv2, h, s)
<1> DEFINE m == Len(s)
           A(k) == At(h, s, k)
<1>1. /\ m \in Nat /\ A(0) = h /\ A(m + 1) = h
      /\ \A k \in 1..m : A(k) = s[k] /\ s[k] \in Nodes
  BY Places
<1>2. \A k \in 0..m : nx[A(k)] = A(k + 1) /\ pv[A(k + 1)] = A(k)
  BY DEF Ring
<1>3. \A k \in 1..m : nx2[s[k]] = nx[s[k]] /\ pv2[s[k]] = pv[s[k]]
  OBVIOUS
<1> HIDE DEF m, A
<1>4. ASSUME NEW k \in 0..(m + 1)
      PROVE  nx2[A(k)] = nx[A(k)] /\ pv2[A(k)] = pv[A(k)]
  <2>1. k = 0 \/ k = m + 1 \/ k \in 1..m
    BY <1>1
  <2> QED BY <1>1, <1>3, <2>1
<1>5. ASSUME NEW k \in 0..m
      PROVE  nx2[A(k)] = A(k + 1) /\ pv2[A(k + 1)] = A(k)
  <2>1. k \in 0..(m + 1) /\ k + 1 \in 0..(m + 1)
    BY <1>1
  <2> QED BY <1>2, <1>4, <2>1
<1> QED BY <1>5 DEF Ring, m, A

\* A node of a ring and its neighbours.
LEMMA Neighbours ==
    ASSUME CellsAssumption, NEW h \in Heads, NEW s \in Seq(Nodes), Injective(s),
           NEW nx, NEW pv, Ring(nx, pv, h, s), NEW i \in 1..Len(s), NEW n, n = s[i]
    PROVE  /\ n \in Nodes /\ n \in ListCells
           /\ pv[n] = At(h, s, i - 1) /\ nx[n] = At(h, s, i + 1)
           /\ pv[n] \in ListCells /\ nx[n] \in ListCells /\ pv[n] # n /\ nx[n] # n
           /\ nx[pv[n]] = n /\ pv[nx[n]] = n
<1> DEFINE m == Len(s)
           A(k) == At(h, s, k)
<1>1. /\ m \in Nat /\ \A k \in 1..m : A(k) = s[k] /\ s[k] \in Nodes
      /\ \A k \in 0..(m + 1) : A(k) \in ListCells
      /\ \A j, k \in 0..m : A(j) = A(k) => j = k
      /\ \A j, k \in 1..(m + 1) : A(j) = A(k) => j = k
  BY Places
<1>2. \A k \in 0..m : nx[A(k)] = A(k + 1) /\ pv[A(k + 1)] = A(k)
  BY DEF Ring
<1>3. i \in 1..m /\ n = s[i]
  OBVIOUS
<1> HIDE DEF m, A
<1>4. /\ i \in 0..m /\ i - 1 \in 0..m /\ (i - 1) + 1 = i /\ i \in 1..(m + 1) /\ i + 1 \in 1..(m + 1)
      /\ i # i - 1 /\ i # i + 1 /\ i \in 0..(m + 1) /\ i - 1 \in 0..(m + 1) /\ i + 1 \in 0..(m + 1)
  BY <1>1, <1>3
<1>5. n = A(i) /\ n \in Nodes /\ A(i) \in ListCells /\ A(i - 1) \in ListCells /\ A(i + 1) \in ListCells
  BY <1>1, <1>3, <1>4
<1>6. nx[n] = A(i + 1) /\ pv[A(i + 1)] = n /\ pv[n] = A(i - 1) /\ nx[A(i - 1)] = n
  BY <1>2, <1>4, <1>5
<1>7. A(i - 1) # n /\ A(i + 1) # n
  BY <1>1, <1>4, <1>5
<1> QED BY <1>5, <1>6, <1>7 DEF A
-----------------------------------------------------------------------------
(* Operations on the lists.                                                   *)

\* Every list that is initialised is a ring, and its cells are no other's.
LEMMA ListIs ==
    ASSUME CellsAssumption, Lists, NEW h \in live
    PROVE  /\ h \in Heads /\ h \in ListCells /\ h \notin Nodes
           /\ seq[h] \in Seq(Nodes) /\ Injective(seq[h]) /\ Len(seq[h]) \in Nat
           /\ \A k \in 1..Len(seq[h]) : seq[h][k] \in Nodes
           /\ Ring(next, prev, h, seq[h])
           /\ \A g \in Heads : g # h =>
                 \A j \in 1..Len(seq[g]), k \in 1..Len(seq[h]) : seq[g][j] # seq[h][k]
<1>1. h \in Heads /\ seq[h] \in Seq(Nodes) /\ Injective(seq[h]) /\ Ring(next, prev, h, seq[h])
  BY DEF Lists, Once, Rings
<1>2. \A k \in 1..Len(seq[h]) : seq[h][k] \in Nodes
  BY <1>1
<1> QED BY <1>1, <1>2 DEF Lists, Once, CellsAssumption, ListCells

\* A cell of one list is not a cell of another.
LEMMA ElsewhereIs ==
    ASSUME CellsAssumption, Lists, NEW h \in live, NEW g \in live, g # h,
           NEW i \in 0..(Len(seq[h]) + 1)
    PROVE  /\ At(h, seq[h], i) \in ListCells /\ At(h, seq[h], i) # g
           /\ \A k \in 1..Len(seq[g]) : At(h, seq[h], i) # seq[g][k]
<1>1. /\ Len(seq[h]) \in Nat /\ g \in Heads /\ h \in Heads
      /\ g \in ListCells /\ h \in ListCells /\ g \notin Nodes /\ h \notin Nodes
      /\ \A k \in 1..Len(seq[h]) : seq[h][k] \in Nodes
      /\ \A k \in 1..Len(seq[g]) : seq[g][k] \in Nodes
      /\ \A j \in 1..Len(seq[g]), k \in 1..Len(seq[h]) : seq[g][j] # seq[h][k]
  BY ListIs
<1>2. CASE i \in 1..Len(seq[h])
  BY <1>1, <1>2 DEF At, ListCells
<1>3. CASE i \notin 1..Len(seq[h])
  BY <1>1, <1>3 DEF At
<1> QED BY <1>2, <1>3

\* One list changes; the pointers of the cells of the others stay.
LEMMA OneChanged ==
    ASSUME CellsAssumption, Lists, NEW h \in live, NEW t \in Seq(Nodes),
           seq' = [seq EXCEPT ![h] = t], live' = live,
           prev' \in Pointers, next' \in Pointers, Ring(next', prev', h, t), Injective(t),
           \A g \in Heads : g # h => \A j \in 1..Len(seq[g]), k \in 1..Len(t) : seq[g][j] # t[k],
           \A g \in live : g # h =>
              /\ next'[g] = next[g] /\ prev'[g] = prev[g]
              /\ \A k \in 1..Len(seq[g]) : next'[seq[g][k]] = next[seq[g][k]]
                                           /\ prev'[seq[g][k]] = prev[seq[g][k]]
    PROVE  Lists'
<1>1. /\ seq' \in [Heads -> Seq(Nodes)] /\ seq'[h] = t /\ h \in Heads
      /\ \A g \in Heads : g # h => seq'[g] = seq[g]
  BY ListIs DEF Lists
<1>2. ASSUME NEW g \in live'
      PROVE  Ring(next', prev', g, seq'[g])
  <2>1. CASE g = h
    BY <1>1, <2>1
  <2>2. CASE g # h
    <3>1. /\ g \in live /\ g \in Heads /\ seq[g] \in Seq(Nodes) /\ Injective(seq[g])
          /\ Ring(next, prev, g, seq[g]) /\ seq'[g] = seq[g]
      BY <1>1, <1>2, <2>2, ListIs
    <3>2. Ring(next', prev', g, seq[g])
      BY <2>2, <3>1, RingKept
    <3> QED BY <3>1, <3>2
  <2> QED BY <2>1, <2>2
<1>3. \A g \in Heads : Injective(seq'[g])
  BY <1>1 DEF Lists, Once
<1>4. ASSUME NEW f \in Heads, NEW g \in Heads, f # g,
             NEW j \in 1..Len(seq'[f]), NEW k \in 1..Len(seq'[g])
      PROVE  seq'[f][j] # seq'[g][k]
  <2>1. CASE f = h
    BY <1>1, <1>4, <2>1
  <2>2. CASE g = h
    BY <1>1, <1>4, <2>2
  <2>3. CASE f # h /\ g # h
    BY <1>1, <1>4, <2>3 DEF Lists, Once
  <2> QED BY <2>1, <2>2, <2>3
<1>5. \A g \in Heads : g \notin live => seq'[g] = <<>>
  BY <1>1 DEF Lists, Once
<1>6. Once'
  BY <1>3, <1>4, <1>5 DEF Once
<1> QED BY <1>1, <1>2, <1>6 DEF Lists, Rings

LEMMA AddStep ==
    ASSUME CellsAssumption, Lists, NEW h \in live, NEW n \in Nodes, ~Linked(n),
           NEW i, NEW t \in Seq(Nodes), Inserted(seq[h], i, n, t),
           ____list_add(n, At(h, seq[h], i), At(h, seq[h], i + 1)),
           seq' = [seq EXCEPT ![h] = t], live' = live
    PROVE  Lists'
<1> DEFINE s == seq[h]
           m == Len(s)
           pre == At(h, s, i)
           x == At(h, s, i + 1)
<1>1. /\ h \in Heads /\ s \in Seq(Nodes) /\ Injective(s) /\ m \in Nat
      /\ Ring(next, prev, h, s) /\ prev \in Pointers /\ next \in Pointers
      /\ i \in 0..m /\ Len(t) = m + 1
      /\ \A k \in 1..(m + 1) :
            t[k] = IF k <= i THEN s[k] ELSE IF k = i + 1 THEN n ELSE s[k - 1]
  BY ListIs DEF Lists, Inserted
<1>2. /\ \A g \in Heads : \A k \in 1..Len(seq[g]) : seq[g][k] # n
      /\ n \in ListCells /\ \A g \in Heads : g # n
  <2>1. \A g \in Heads : g \notin live => Len(seq[g]) = 0
    BY DEF Lists, Once
  <2> QED BY <2>1 DEF Linked, Elements, CellsAssumption, ListCells
<1>3. /\ prev' = [prev EXCEPT ![x] = n, ![n] = pre]
      /\ next' = [next EXCEPT ![n] = x, ![pre] = n]
      /\ seq' \in [Heads -> Seq(Nodes)] /\ seq'[h] = t
      /\ \A g \in Heads : g # h => seq'[g] = seq[g]
  BY <1>1 DEF ____list_add, Lists
<1>4. Ring(next', prev', h, t) /\ Injective(t)
  <2>1. \A k \in 1..Len(s) : s[k] # n
    BY <1>1, <1>2
  <2>2. Inserted(s, i, n, t)
    OBVIOUS
  <2> HIDE DEF s
  <2>3. /\ Ring([next EXCEPT ![n] = x, ![pre] = n], [prev EXCEPT ![x] = n, ![n] = pre], h, t)
        /\ Injective(t)
    BY <1>1, <2>1, <2>2, Insertion
  <2> HIDE DEF pre, x
  <2> QED BY <1>3, <2>3
<1>5. pre \in ListCells /\ x \in ListCells
  <2>1. i \in 0..(m + 1) /\ i + 1 \in 0..(m + 1)
    BY <1>1
  <2> QED BY <1>1, <2>1, Places
<1>6. prev' \in Pointers /\ next' \in Pointers
  <2> HIDE DEF pre, x
  <2> QED BY <1>1, <1>2, <1>3, <1>5 DEF Pointers
<1>7. ASSUME NEW g \in live, g # h
      PROVE  /\ next'[g] = next[g] /\ prev'[g] = prev[g]
             /\ \A k \in 1..Len(seq[g]) : next'[seq[g][k]] = next[seq[g][k]]
                                          /\ prev'[seq[g][k]] = prev[seq[g][k]]
  <2>1. i \in 0..(m + 1) /\ i + 1 \in 0..(m + 1)
    BY <1>1
  <2>2. /\ pre # g /\ \A k \in 1..Len(seq[g]) : pre # seq[g][k]
        /\ x # g /\ \A k \in 1..Len(seq[g]) : x # seq[g][k]
    BY <1>7, <2>1, ElsewhereIs
  <2>3. /\ g \in Heads /\ g \in ListCells /\ seq[g] \in Seq(Nodes) /\ Injective(seq[g])
        /\ Ring(next, prev, g, seq[g]) /\ \A k \in 1..Len(seq[g]) : seq[g][k] \in ListCells
    BY ListIs DEF ListCells
  <2> HIDE DEF pre, x
  <2> QED BY <1>1, <1>2, <1>3, <2>2, <2>3 DEF Pointers
<1>8. \A g \in Heads : g # h => \A j \in 1..Len(seq[g]), k \in 1..Len(t) : seq[g][j] # t[k]
  <2>1. \A k \in 1..Len(t) : t[k] = n \/ \E y \in 1..m : t[k] = s[y]
    <3> SUFFICES ASSUME NEW k \in 1..Len(t)
                 PROVE  t[k] = n \/ \E y \in 1..m : t[k] = s[y]
      OBVIOUS
    <3>1. CASE k <= i
      <4>1. k \in 1..m
        BY <1>1, <3>1
      <4> QED BY <1>1, <3>1, <4>1
    <3>2. CASE k > i + 1
      <4>1. k - 1 \in 1..m /\ ~(k <= i) /\ k # i + 1
        BY <1>1, <3>2
      <4> QED BY <1>1, <4>1
    <3>3. CASE k = i + 1
      <4>1. ~(k <= i)
        BY <1>1, <3>3
      <4> QED BY <1>1, <3>3, <4>1
    <3> QED BY <1>1, <3>1, <3>2, <3>3
  <2>2. \A g \in Heads : g # h => \A j \in 1..Len(seq[g]), k \in 1..m : seq[g][j] # s[k]
    BY ListIs
  <2> HIDE DEF s, m
  <2> QED BY <1>2, <2>1, <2>2
<1> HIDE DEF s, m, pre, x
<1> QED BY <1>4, <1>6, <1>7, <1>8, OneChanged

LEMMA DelStep ==
    ASSUME CellsAssumption, Lists, NEW h \in live, NEW n,
           NEW i, NEW t \in Seq(Nodes), Removed(seq[h], i, t), n = seq[h][i], Unlink(n),
           seq' = [seq EXCEPT ![h] = t], live' = live
    PROVE  Lists'
<1> DEFINE s == seq[h]
           m == Len(s)
           pre == prev[n]
           x == next[n]
<1>1. /\ h \in Heads /\ s \in Seq(Nodes) /\ Injective(s) /\ m \in Nat
      /\ Ring(next, prev, h, s) /\ prev \in Pointers /\ next \in Pointers
      /\ i \in 1..m /\ Len(t) = m - 1
      /\ \A k \in 1..(m - 1) : t[k] = IF k < i THEN s[k] ELSE s[k + 1]
  BY ListIs DEF Lists, Removed
<1>2. prev' = [prev EXCEPT ![x] = pre] /\ next' = [next EXCEPT ![pre] = x]
  BY DEF Unlink
<1>3. pre = At(h, s, i - 1) /\ x = At(h, s, i + 1) /\ pre \in ListCells /\ x \in ListCells
  <2>1. n = s[i] /\ i \in 1..Len(s)
    BY <1>1
  <2> HIDE DEF s
  <2> QED BY <1>1, <2>1, Neighbours
<1>4. Ring(next', prev', h, t) /\ Injective(t)
  <2>1. Removed(s, i, t) /\ n = s[i]
    OBVIOUS
  <2> HIDE DEF s
  <2>2. /\ Ring([next EXCEPT ![prev[n]] = next[n]], [prev EXCEPT ![next[n]] = prev[n]], h, t)
        /\ Injective(t)
    BY <1>1, <2>1, Removal
  <2> QED BY <1>2, <2>2
<1>5. prev' \in Pointers /\ next' \in Pointers
  <2> HIDE DEF pre, x
  <2> QED BY <1>1, <1>2, <1>3 DEF Pointers
<1>6. ASSUME NEW g \in live, g # h
      PROVE  /\ next'[g] = next[g] /\ prev'[g] = prev[g]
             /\ \A k \in 1..Len(seq[g]) : next'[seq[g][k]] = next[seq[g][k]]
                                          /\ prev'[seq[g][k]] = prev[seq[g][k]]
  <2>1. i - 1 \in 0..(m + 1) /\ i + 1 \in 0..(m + 1)
    BY <1>1
  <2>2. /\ pre # g /\ \A k \in 1..Len(seq[g]) : pre # seq[g][k]
        /\ x # g /\ \A k \in 1..Len(seq[g]) : x # seq[g][k]
    BY <1>3, <1>6, <2>1, ElsewhereIs
  <2>3. g \in ListCells /\ \A k \in 1..Len(seq[g]) : seq[g][k] \in ListCells
    BY ListIs DEF ListCells
  <2> HIDE DEF pre, x
  <2> QED BY <1>1, <1>2, <2>2, <2>3 DEF Pointers
<1>7. \A g \in Heads : g # h => \A j \in 1..Len(seq[g]), k \in 1..Len(t) : seq[g][j] # t[k]
  <2>1. \A k \in 1..Len(t) : \E y \in 1..m : t[k] = s[y]
    <3> SUFFICES ASSUME NEW k \in 1..Len(t)
                 PROVE  \E y \in 1..m : t[k] = s[y]
      OBVIOUS
    <3>1. CASE k < i
      BY <1>1, <3>1
    <3>2. CASE ~(k < i)
      <4>1. k + 1 \in 1..m /\ k \in 1..(m - 1)
        BY <1>1, <3>2
      <4> QED BY <1>1, <3>2, <4>1
    <3> QED BY <3>1, <3>2
  <2>2. \A g \in Heads : g # h => \A j \in 1..Len(seq[g]), k \in 1..m : seq[g][j] # s[k]
    BY ListIs
  <2> HIDE DEF s, m
  <2> QED BY <2>1, <2>2
<1> HIDE DEF s, m, pre, x
<1> QED BY <1>4, <1>5, <1>6, <1>7, OneChanged

LEMMA WithoutIs ==
    ASSUME NEW s \in Seq(Nodes), Injective(s), NEW n
    PROVE  /\ n \notin Elements(s) => Without(s, n) = s
           /\ \A i \in 1..Len(s) : s[i] = n => /\ Without(s, n) \in Seq(Nodes)
                                               /\ Removed(s, i, Without(s, n))
<1> DEFINE m == Len(s)
<1>1. m \in Nat /\ \A k \in 1..m : s[k] \in Nodes
  OBVIOUS
<1>2. n \notin Elements(s) => Without(s, n) = s
  BY DEF Without
<1>3. ASSUME NEW i \in 1..m, s[i] = n
      PROVE  /\ Without(s, n) \in Seq(Nodes) /\ Removed(s, i, Without(s, n))
  <2>1. i = CHOOSE k \in 1..m : s[k] = n
    BY <1>3 DEF Injective
  <2>2. Without(s, n) = [k \in 1..(m - 1) |-> IF k < i THEN s[k] ELSE s[k + 1]]
    BY <1>3, <2>1 DEF Without, Elements
  <2> DEFINE w == [k \in 1..(m - 1) |-> IF k < i THEN s[k] ELSE s[k + 1]]
  <2> HIDE DEF m
  <2>3. m - 1 \in Nat
    BY <1>1, <1>3
  <2>4. \A k \in 1..(m - 1) : (IF k < i THEN s[k] ELSE s[k + 1]) \in Nodes
    BY <1>1, <1>3
  <2>5. w \in Seq(Nodes) /\ Len(w) = m - 1
    BY <2>3, <2>4
  <2> QED BY <1>3, <2>2, <2>5 DEF Removed, m
<1> QED BY <1>2, <1>3

LEMMA SpliceStep ==
    ASSUME CellsAssumption, Lists, NEW h \in live, NEW l \in live, l # h, Len(seq[l]) > 0,
           NEW i, NEW t \in Seq(Nodes), Spliced(seq[h], i, seq[l], t),
           ____list_splice(l, At(h, seq[h], i), At(h, seq[h], i + 1)),
           seq' = [seq EXCEPT ![h] = t, ![l] = <<>>], live' = live \ {l}
    PROVE  Lists'
<1> DEFINE s == seq[h]
           u == seq[l]
           m == Len(s)
           q == Len(u)
           pre == At(h, s, i)
           x == At(h, s, i + 1)
           first == next[l]
           last == prev[l]
<1>1. /\ h \in Heads /\ s \in Seq(Nodes) /\ Injective(s) /\ m \in Nat
      /\ Ring(next, prev, h, s) /\ prev \in Pointers /\ next \in Pointers
      /\ l \in Heads /\ u \in Seq(Nodes) /\ Injective(u) /\ q \in Nat /\ q > 0
      /\ Ring(next, prev, l, u) /\ \A j \in 1..m, k \in 1..q : s[j] # u[k]
      /\ i \in 0..m /\ Len(t) = m + q
      /\ \A k \in 1..(m + q) : t[k] = IF k <= i THEN s[k] ELSE IF k <= i + q THEN u[k - i] ELSE s[k - q]
  <2>1. /\ h \in Heads /\ s \in Seq(Nodes) /\ Injective(s) /\ m \in Nat /\ Ring(next, prev, h, s)
    BY ListIs
  <2>2. /\ l \in Heads /\ u \in Seq(Nodes) /\ Injective(u) /\ q \in Nat /\ Ring(next, prev, l, u)
        /\ \A j \in 1..m, k \in 1..q : s[j] # u[k]
    BY ListIs
  <2> QED BY <2>1, <2>2 DEF Lists, Spliced
<1>2. /\ prev' = [prev EXCEPT ![first] = pre, ![x] = last]
      /\ next' = [next EXCEPT ![pre] = first, ![last] = x]
  BY DEF ____list_splice
<1>3. /\ seq' \in [Heads -> Seq(Nodes)] /\ seq'[h] = t /\ seq'[l] = <<>>
      /\ \A g \in Heads : g # h /\ g # l => seq'[g] = seq[g]
  BY <1>1 DEF Lists
<1>4. Ring(next', prev', h, t) /\ Injective(t)
  <2>1. Spliced(s, i, u, t) /\ Len(u) > 0 /\ \A j \in 1..Len(s), k \in 1..Len(u) : s[j] # u[k]
    BY <1>1
  <2> HIDE DEF s, u
  <2>2. /\ Ring([next EXCEPT ![At(h, s, i)] = next[l], ![prev[l]] = At(h, s, i + 1)],
                [prev EXCEPT ![next[l]] = At(h, s, i), ![At(h, s, i + 1)] = prev[l]], h, t)
        /\ Injective(t)
    BY <1>1, <2>1, Splicing
  <2> QED BY <1>2, <2>2
<1>5. first = At(l, u, 1) /\ last = At(l, u, q)
  <2>1. 0 \in 0..q /\ q \in 0..q /\ 0 + 1 = 1
    BY <1>1
  <2>2. At(l, u, 0) = l /\ At(l, u, q + 1) = l
    BY <1>1, Places
  <2> QED BY <1>1, <2>1, <2>2 DEF Ring
<1>6. ASSUME NEW g \in live, g # h, g # l
      PROVE  /\ g \in ListCells /\ \A k \in 1..Len(seq[g]) : seq[g][k] \in ListCells
             /\ \A c \in {pre, x, first, last} : c # g /\ c \in ListCells
                                               /\ \A k \in 1..Len(seq[g]) : c # seq[g][k]
  <2>1. i \in 0..(m + 1) /\ i + 1 \in 0..(m + 1) /\ 1 \in 0..(q + 1) /\ q \in 0..(q + 1)
    BY <1>1
  <2>2. \A c \in {pre, x} : c # g /\ c \in ListCells /\ \A k \in 1..Len(seq[g]) : c # seq[g][k]
    BY <1>6, <2>1, ElsewhereIs
  <2>3. \A c \in {first, last} : c # g /\ c \in ListCells /\ \A k \in 1..Len(seq[g]) : c # seq[g][k]
    BY <1>5, <1>6, <2>1, ElsewhereIs
  <2>4. g \in ListCells /\ \A k \in 1..Len(seq[g]) : seq[g][k] \in ListCells
    BY ListIs DEF ListCells
  <2> HIDE DEF pre, x, first, last
  <2> QED BY <2>2, <2>3, <2>4
<1>7. pre \in ListCells /\ x \in ListCells /\ first \in ListCells /\ last \in ListCells
  <2>1. i \in 0..(m + 1) /\ i + 1 \in 0..(m + 1) /\ 1 \in 0..(q + 1) /\ q \in 0..(q + 1)
    BY <1>1
  <2>2. \A k \in 0..(m + 1) : At(h, s, k) \in ListCells
    BY <1>1, Places
  <2>3. \A k \in 0..(q + 1) : At(l, u, k) \in ListCells
    BY <1>1, Places
  <2> HIDE DEF m, q, s, u
  <2> QED BY <1>5, <2>1, <2>2, <2>3
<1>8. prev' \in Pointers /\ next' \in Pointers
  <2> HIDE DEF pre, x, first, last
  <2> QED BY <1>1, <1>2, <1>7 DEF Pointers
<1>9. ASSUME NEW g \in live'
      PROVE  Ring(next', prev', g, seq'[g])
  <2>1. g \in live /\ g # l
    BY <1>9
  <2>2. CASE g = h
    BY <1>3, <1>4, <2>2
  <2>3. CASE g # h
    <3>1. /\ g \in Heads /\ seq[g] \in Seq(Nodes) /\ Injective(seq[g])
          /\ Ring(next, prev, g, seq[g]) /\ seq'[g] = seq[g]
      BY <1>3, <2>1, <2>3, ListIs
    <3> HIDE DEF pre, x, first, last
    <3>2. /\ next'[g] = next[g] /\ prev'[g] = prev[g]
          /\ \A k \in 1..Len(seq[g]) : next'[seq[g][k]] = next[seq[g][k]]
                                       /\ prev'[seq[g][k]] = prev[seq[g][k]]
      BY <1>1, <1>2, <1>6, <2>1, <2>3 DEF Pointers
    <3> QED BY <3>1, <3>2, RingKept
  <2> QED BY <2>2, <2>3
<1>10. \A k \in 1..Len(t) : (\E y \in 1..m : t[k] = s[y]) \/ (\E y \in 1..q : t[k] = u[y])
  <2> SUFFICES ASSUME NEW k \in 1..Len(t)
               PROVE  (\E y \in 1..m : t[k] = s[y]) \/ (\E y \in 1..q : t[k] = u[y])
    OBVIOUS
  <2> HIDE DEF s, u, m, q
  <2>1. CASE k <= i
    <3>1. k \in 1..m
      BY <1>1, <2>1
    <3> QED BY <1>1, <2>1, <3>1
  <2>2. CASE k > i /\ k <= i + q
    <3>1. k - i \in 1..q /\ ~(k <= i)
      BY <1>1, <2>2
    <3> QED BY <1>1, <2>2, <3>1
  <2>3. CASE k > i + q
    <3>1. k - q \in 1..m /\ ~(k <= i) /\ ~(k <= i + q)
      BY <1>1, <2>3
    <3> QED BY <1>1, <3>1
  <2> QED BY <1>1, <2>1, <2>2, <2>3
<1>11. ASSUME NEW g \in Heads, g # h, g # l, NEW j \in 1..Len(seq[g]), NEW k \in 1..Len(t)
       PROVE  seq[g][j] # t[k]
  <2>1. \A y \in 1..m : seq[g][j] # s[y]
    BY <1>11, ListIs
  <2>2. \A y \in 1..q : seq[g][j] # u[y]
    BY <1>11, ListIs
  <2> HIDE DEF s, u, m, q
  <2> QED BY <1>10, <2>1, <2>2
<1>12. Once'
  <2>1. \A g \in Heads : Injective(seq'[g])
    <3>1. Injective(<<>>)
      BY DEF Injective
    <3> QED BY <1>3, <1>4, <3>1 DEF Lists, Once
  <2>2. ASSUME NEW f \in Heads, NEW g \in Heads, f # g,
               NEW j \in 1..Len(seq'[f]), NEW k \in 1..Len(seq'[g])
        PROVE  seq'[f][j] # seq'[g][k]
    <3>1. f # l /\ g # l
      BY <1>3
    <3>2. CASE f = h
      BY <1>3, <1>11, <2>2, <3>1, <3>2
    <3>3. CASE g = h
      BY <1>3, <1>11, <2>2, <3>1, <3>3
    <3>4. CASE f # h /\ g # h
      BY <1>3, <2>2, <3>1, <3>4 DEF Lists, Once
    <3> QED BY <3>2, <3>3, <3>4
  <2>3. \A g \in Heads : g \notin live' => seq'[g] = <<>>
    BY <1>3 DEF Lists, Once
  <2> QED BY <2>1, <2>2, <2>3 DEF Once
<1> QED BY <1>3, <1>8, <1>9, <1>12 DEF Lists, Rings

LEMMA SwapIs ==
    ASSUME NEW s \in Seq(Nodes), NEW a \in Nodes, NEW b \in Nodes
    PROVE  /\ Swap(s, a, b) \in Seq(Nodes) /\ Len(Swap(s, a, b)) = Len(s)
           /\ \A k \in 1..Len(s) : Swap(s, a, b)[k] = Exchanged(s[k], a, b)
<1>1. \A k \in 1..Len(s) : Exchanged(s[k], a, b) \in Nodes
  BY DEF Exchanged
<1>2. Swap(s, a, b) = [k \in 1..Len(s) |-> Exchanged(s[k], a, b)]
  BY DEF Swap, Exchanged
<1> QED BY <1>1, <1>2

LEMMA ExchangeStep ==
    ASSUME CellsAssumption, AdjacentToo = FALSE, Lists,
           NEW n1 \in Nodes, NEW n2 \in Nodes, list_exchange(n1, n2)
    PROVE  Lists'
<1> DEFINE p1 == prev[n1]
           x1 == next[n1]
           p2 == prev[n2]
           x2 == next[n2]
<1>1. ASSUME NEW n \in Nodes, Linked(n)
      PROVE  /\ prev[n] \in ListCells /\ next[n] \in ListCells /\ next[n] # n
             /\ next[prev[n]] = n /\ prev[next[n]] = n
  <2>1. PICK h \in live : n \in Elements(seq[h])
    BY <1>1 DEF Linked
  <2>2. PICK i \in 1..Len(seq[h]) : n = seq[h][i]
    BY <2>1 DEF Elements
  <2>3. h \in Heads /\ seq[h] \in Seq(Nodes) /\ Injective(seq[h]) /\ Ring(next, prev, h, seq[h])
    BY ListIs
  <2> QED BY <2>2, <2>3, Neighbours
<1>2. /\ Linked(n1) /\ Linked(n2) /\ n1 # n2 /\ x1 # n2 /\ x2 # n1
      /\ prev' = [prev EXCEPT ![n1] = p2, ![x2] = n1, ![n2] = p1, ![x1] = n2]
      /\ next' = [next EXCEPT ![p2] = n1, ![n1] = x2, ![p1] = n2, ![n2] = x1]
      /\ seq' = [h \in Heads |-> Swap(seq[h], n1, n2)] /\ live' = live
  BY DEF list_exchange, ____list_exchange
<1>3. /\ p1 \in ListCells /\ x1 \in ListCells /\ p2 \in ListCells /\ x2 \in ListCells
      /\ next[p1] = n1 /\ prev[x1] = n1 /\ next[p2] = n2 /\ prev[x2] = n2
      /\ {x1, x2} \cap {n1, n2} = {} /\ n1 \in ListCells /\ n2 \in ListCells
      /\ prev \in Pointers /\ next \in Pointers /\ live \subseteq Heads
  BY <1>1, <1>2 DEF ListCells, Lists
<1>4. ASSUME NEW h \in Heads
      PROVE  /\ seq[h] \in Seq(Nodes) /\ Injective(seq[h])
             /\ seq'[h] \in Seq(Nodes) /\ Len(seq'[h]) = Len(seq[h]) /\ Len(seq[h]) \in Nat
             /\ \A k \in 1..Len(seq[h]) : seq'[h][k] = Exchanged(seq[h][k], n1, n2)
  <2>1. seq[h] \in Seq(Nodes) /\ Injective(seq[h]) /\ seq'[h] = Swap(seq[h], n1, n2)
    BY <1>2 DEF Lists, Once
  <2> DEFINE s == seq[h]
  <2>2. s \in Seq(Nodes) /\ Len(s) \in Nat
    BY <2>1
  <2> HIDE DEF s
  <2>3. /\ Swap(s, n1, n2) \in Seq(Nodes) /\ Len(Swap(s, n1, n2)) = Len(s)
        /\ \A k \in 1..Len(s) : Swap(s, n1, n2)[k] = Exchanged(s[k], n1, n2)
    BY <2>2, SwapIs
  <2> QED BY <2>1, <2>2, <2>3 DEF s
<1>5. ASSUME NEW h \in live
      PROVE  Ring(next', prev', h, seq'[h]) /\ Injective(seq'[h])
  <2>1. h \in Heads /\ seq[h] \in Seq(Nodes) /\ Injective(seq[h]) /\ Ring(next, prev, h, seq[h])
    BY ListIs
  <2> HIDE DEF p1, x1, p2, x2
  <2>2. Apart(next, prev, n1, n2)
    BY <1>2, <1>3 DEF Apart, p1, x1, p2, x2
  <2>3. /\ Ring([next EXCEPT ![p2] = n1, ![n1] = x2, ![p1] = n2, ![n2] = x1],
                [prev EXCEPT ![n1] = p2, ![x2] = n1, ![n2] = p1, ![x1] = n2],
                h, Swap(seq[h], n1, n2))
        /\ Injective(Swap(seq[h], n1, n2))
    BY <1>3, <2>1, <2>2, Exchanging DEF p1, x1, p2, x2
  <2> QED BY <1>2, <2>1, <2>3
<1>6. prev' \in Pointers /\ next' \in Pointers
  <2> HIDE DEF p1, x1, p2, x2
  <2> QED BY <1>2, <1>3 DEF Pointers
<1>7. ASSUME NEW h \in Heads, h \notin live
      PROVE  seq'[h] = <<>>
  <2>1. seq[h] = <<>>
    BY <1>7 DEF Lists, Once
  <2>2. Len(seq'[h]) = 0 /\ seq'[h] \in Seq(Nodes)
    BY <1>4, <2>1
  <2> QED BY <2>2
<1>8. Once'
  <2>1. \A h \in Heads : Injective(seq'[h])
    BY <1>5, <1>7 DEF Injective
  <2>2. ASSUME NEW f \in Heads, NEW g \in Heads, f # g,
               NEW j \in 1..Len(seq'[f]), NEW k \in 1..Len(seq'[g])
        PROVE  seq'[f][j] # seq'[g][k]
    <3>1. seq[f][j] # seq[g][k]
      BY <1>4, <2>2 DEF Lists, Once
    <3>2. seq'[f][j] = Exchanged(seq[f][j], n1, n2) /\ seq'[g][k] = Exchanged(seq[g][k], n1, n2)
      BY <1>4
    <3> QED BY <3>1, <3>2 DEF Exchanged
  <2> QED BY <1>2, <1>7, <2>1, <2>2 DEF Once
<1> QED BY <1>2, <1>3, <1>4, <1>5, <1>6, <1>8 DEF Lists, Rings

\* The first and the last cell of a list, seen from its head.
LEMMA HeadIs ==
    ASSUME CellsAssumption, Lists, NEW h \in live
    PROVE  /\ next[h] = At(h, seq[h], 1) /\ prev[h] = At(h, seq[h], Len(seq[h]))
           /\ At(h, seq[h], 0) = h /\ At(h, seq[h], Len(seq[h]) + 1) = h
           /\ next[h] \in ListCells /\ prev[h] \in ListCells
           /\ list_empty(h) <=> Len(seq[h]) = 0
<1> DEFINE s == seq[h]
           m == Len(s)
<1>1. /\ h \in Heads /\ s \in Seq(Nodes) /\ Injective(s) /\ m \in Nat /\ Ring(next, prev, h, s)
      /\ \A k \in 1..m : s[k] # h
  BY ListIs
<1> HIDE DEF s, m
<1>2. /\ At(h, s, 0) = h /\ At(h, s, m + 1) = h
      /\ \A k \in 0..(m + 1) : At(h, s, k) \in ListCells
  BY <1>1, Places DEF m
<1>3. /\ 0 \in 0..m /\ m \in 0..m /\ 0 + 1 = 1 /\ 1 \in 0..(m + 1) /\ m \in 0..(m + 1)
  BY <1>1
<1>4. next[h] = At(h, s, 1) /\ prev[h] = At(h, s, m)
  BY <1>1, <1>2, <1>3 DEF Ring, m
<1>5. m = 0 => At(h, s, 1) = h
  BY <1>2
<1>6. m # 0 => At(h, s, 1) # h
  <2>1. m # 0 => 1 \in 1..m
    BY <1>1
  <2> QED BY <1>1, <2>1 DEF At, m
<1> QED BY <1>2, <1>3, <1>4, <1>5, <1>6 DEF list_empty, s, m

LEMMA InitStep ==
    ASSUME CellsAssumption, Lists, NEW h \in Heads, list_init(h)
    PROVE  Lists'
<1>1. /\ next' = [next EXCEPT ![h] = h] /\ prev' = [prev EXCEPT ![h] = h] /\ h \notin live
      /\ seq' = [seq EXCEPT ![h] = <<>>] /\ live' = live \cup {h} /\ seq[h] = <<>>
      /\ h \in ListCells /\ prev \in Pointers /\ next \in Pointers
      /\ seq \in [Heads -> Seq(Nodes)] /\ live \subseteq Heads
  BY DEF list_init, Lists, Once, ListCells
<1>2. seq' = seq
  BY <1>1
<1>3. prev' \in Pointers /\ next' \in Pointers /\ prev'[h] = h /\ next'[h] = h
      /\ \A c \in ListCells : c # h => next'[c] = next[c] /\ prev'[c] = prev[c]
  BY <1>1 DEF Pointers
<1>4. ASSUME NEW g \in live'
      PROVE  Ring(next', prev', g, seq'[g])
  <2>1. CASE g = h
    <3>1. seq'[g] = <<>>
      BY <1>1, <1>2, <2>1
    <3>2. \A k : At(g, seq'[g], k) = g
      BY <3>1 DEF At
    <3> QED BY <1>3, <2>1, <3>1, <3>2 DEF Ring
  <2>2. CASE g # h
    <3>1. /\ g \in Heads /\ g \in ListCells /\ seq[g] \in Seq(Nodes) /\ Injective(seq[g])
          /\ Ring(next, prev, g, seq[g])
          /\ \A k \in 1..Len(seq[g]) : seq[g][k] \in ListCells /\ seq[g][k] # h
      BY <1>1, <2>2, ListIs DEF ListCells, CellsAssumption
    <3> QED BY <1>2, <1>3, <2>2, <3>1, RingKept
  <2> QED BY <2>1, <2>2
<1>5. Once'
  BY <1>1, <1>2 DEF Lists, Once
<1> QED BY <1>1, <1>2, <1>3, <1>4, <1>5 DEF Lists, Rings

LEMMA ListsStep ==
    ASSUME CellsAssumption, AdjacentToo = FALSE, Lists, NEW h \in Heads, NEW n \in Nodes,
           list_add(n, h) \/ list_add_tail(n, h) \/ list_del(n)
    PROVE  Lists'
<1> DEFINE s == seq[h]
           m == Len(s)
<1>1. CASE list_add(n, h)
  <2>1. h \in live /\ ~Linked(n) /\ ____list_add(n, h, next[h]) /\ live' = live
        /\ seq' = [seq EXCEPT ![h] = <<n>> \o s]
    BY <1>1 DEF list_add
  <2>2. h = At(h, s, 0) /\ next[h] = At(h, s, 0 + 1) /\ s \in Seq(Nodes) /\ m \in Nat
    BY <2>1, HeadIs, ListIs
  <2> HIDE DEF s
  <2>3. <<n>> \o s \in Seq(Nodes) /\ Inserted(s, 0, n, <<n>> \o s)
    BY <2>2 DEF Inserted
  <2> QED BY <2>1, <2>2, <2>3, AddStep DEF s
<1>2. CASE list_add_tail(n, h)
  <2>1. h \in live /\ ~Linked(n) /\ ____list_add(n, prev[h], h) /\ live' = live
        /\ seq' = [seq EXCEPT ![h] = Append(s, n)]
    BY <1>2 DEF list_add_tail
  <2>2. prev[h] = At(h, s, m) /\ h = At(h, s, m + 1) /\ s \in Seq(Nodes) /\ m \in Nat
    BY <2>1, HeadIs, ListIs
  <2> HIDE DEF s
  <2>3. Append(s, n) \in Seq(Nodes) /\ Inserted(s, m, n, Append(s, n))
    BY <2>2 DEF Inserted
  <2> QED BY <2>1, <2>2, <2>3, AddStep DEF s
<1>3. CASE list_del(n)
  <2>1. /\ Linked(n) /\ Unlink(n) /\ live' = live
        /\ seq' = [g \in Heads |-> Without(seq[g], n)]
    BY <1>3 DEF list_del
  <2>2. PICK g \in live : n \in Elements(seq[g])
    BY <2>1 DEF Linked
  <2>3. PICK i \in 1..Len(seq[g]) : n = seq[g][i]
    BY <2>2 DEF Elements
  <2>4. g \in Heads /\ seq[g] \in Seq(Nodes) /\ Injective(seq[g])
    BY ListIs
  <2>5. /\ Without(seq[g], n) \in Seq(Nodes) /\ Removed(seq[g], i, Without(seq[g], n))
    BY <2>3, <2>4, WithoutIs
  <2>6. \A f \in Heads : f # g => Without(seq[f], n) = seq[f]
    <3>1. \A f \in Heads : f # g => n \notin Elements(seq[f])
      BY <2>3, ListIs DEF Elements
    <3> QED BY <3>1 DEF Without
  <2>7. seq' = [seq EXCEPT ![g] = Without(seq[g], n)]
    <3>1. seq \in [Heads -> Seq(Nodes)]
      BY DEF Lists
    <3> HIDE DEF s, m
    <3> QED BY <2>1, <2>4, <2>6, <3>1
  <2> QED BY <2>1, <2>3, <2>5, <2>7, DelStep
<1> QED BY <1>1, <1>2, <1>3

LEMMA SplicesStep ==
    ASSUME CellsAssumption, Lists, NEW l \in Heads, NEW h \in Heads,
           list_splice(l, h) \/ list_splice_tail(l, h)
    PROVE  Lists'
<1> DEFINE s == seq[h]
           u == seq[l]
           m == Len(s)
<1>1. /\ l \in live /\ h \in live /\ l # h /\ s \in Seq(Nodes) /\ m \in Nat /\ u \in Seq(Nodes)
      /\ seq \in [Heads -> Seq(Nodes)] /\ prev[h] = At(h, s, m) /\ next[h] = At(h, s, 0 + 1)
      /\ h = At(h, s, 0) /\ h = At(h, s, m + 1)
  <2>1. l \in live /\ h \in live /\ l # h
    BY DEF list_splice, list_splice_tail
  <2> QED BY <2>1, HeadIs, ListIs DEF Lists
<1>2. CASE list_empty(l)
  <2>1. UNCHANGED listVars
    BY <1>2 DEF list_splice, list_splice_tail
  <2> QED BY <2>1 DEF listVars, Lists, Once, Rings
<1>3. CASE ~list_empty(l)
  <2>1. Len(u) > 0
    BY <1>1, <1>3, HeadIs, ListIs
  <2>2. CASE list_splice(l, h)
    <3>1. /\ ____list_splice(l, h, next[h]) /\ live' = live \ {l}
          /\ seq' = [seq EXCEPT ![h] = u \o s, ![l] = <<>>]
      BY <1>3, <2>2 DEF list_splice
    <3> HIDE DEF s, u
    <3>2. u \o s \in Seq(Nodes) /\ Spliced(s, 0, u, u \o s)
      BY <1>1 DEF Spliced
    <3> QED BY <1>1, <2>1, <3>1, <3>2, SpliceStep DEF s, u
  <2>3. CASE list_splice_tail(l, h)
    <3>1. /\ ____list_splice(l, prev[h], h) /\ live' = live \ {l}
          /\ seq' = [seq EXCEPT ![h] = s \o u, ![l] = <<>>]
      BY <1>3, <2>3 DEF list_splice_tail
    <3> HIDE DEF s, u
    <3>2. s \o u \in Seq(Nodes) /\ Spliced(s, m, u, s \o u)
      BY <1>1 DEF Spliced
    <3> QED BY <1>1, <2>1, <3>1, <3>2, SpliceStep DEF s, u
  <2> QED BY <2>2, <2>3
<1> QED BY <1>2, <1>3
-----------------------------------------------------------------------------
(* The loop.                                                                  *)

LEMMA StartIs ==
    ASSUME CellsAssumption, Lists, NEW h \in Heads, ForEachStart(h)
    PROVE  Looping'
<1> DEFINE s == seq[h]
           m == Len(s)
<1>1. /\ h \in live /\ next \in Pointers /\ seq' = seq /\ live' = live
      /\ iter' = [on |-> TRUE, head |-> h, pos |-> next[h], n |-> next[next[h]],
                  todo |-> s, visited |-> <<>>]
  BY DEF ForEachStart, Lists
<1>2. /\ s \in Seq(Nodes) /\ m \in Nat /\ Ring(next, prev, h, s)
      /\ next[h] = At(h, s, 1) /\ next[h] \in ListCells
  BY <1>1, HeadIs, ListIs
<1>3. next[next[h]] \in ListCells \cup {Wild}
  BY <1>1, <1>2 DEF Pointers
<1> HIDE DEF s
<1>4. m > 0 => next[next[h]] = At(h, s, 2)
  <2>1. m > 0 => 1 \in 0..m /\ 1 + 1 = 2
    BY <1>2
  <2> QED BY <1>2, <2>1 DEF Ring
<1>5. <<>> \in Seq(Nodes) /\ Len(<<>>) = 0 /\ <<>> = SubSeq(s, 1, 0)
  BY <1>2
<1>6. Going(h, s, s, <<>>, next[h], next[next[h]], 0)
  <2>1. m - 0 >= 0 /\ m = 0 + (m - 0) /\ \A j \in 1..(m - 0) : s[0 + j] = s[0 + j]
    BY <1>2
  <2> QED BY <1>2, <1>4, <1>5, <2>1 DEF Going
<1>7. /\ iter' \in [on : BOOLEAN, head : Heads \cup {Wild}, pos : ListCells \cup {Wild},
                    n : ListCells \cup {Wild}, todo : Seq(Nodes), visited : Seq(Nodes)]
  BY <1>1, <1>2, <1>3, <1>5
<1>8. \E d \in Nat : Going(h, s, s, <<>>, next[h], next[next[h]], d)
  BY <1>6
<1> QED BY <1>1, <1>7, <1>8 DEF Looping, s

\* One step of a loop: the list stays, or loses the node the loop is at.
LEMMA AdvanceIs ==
    ASSUME CellsAssumption, NEW h \in Heads, NEW s \in Seq(Nodes), Injective(s),
           NEW td \in Seq(Nodes), NEW vd \in Seq(Nodes), NEW pos, NEW n, NEW d \in Nat,
           Going(h, s, td, vd, pos, n, d), pos # h,
           NEW t \in Seq(Nodes), NEW e \in Nat, (t = s /\ e = d + 1) \/ (Removed(s, d + 1, t) /\ e = d),
           NEW nx, NEW pv, Ring(nx, pv, h, t)
    PROVE  /\ Going(h, t, td, Append(vd, pos), n, nx[n], e)
           /\ pos \in Nodes /\ n \in ListCells /\ pos = s[d + 1] /\ d + 1 \in 1..Len(s)
<1> DEFINE v == Len(vd)
           r == Len(td) - v
           m == Len(s)
           w == Append(vd, pos)
<1>1. /\ v \in Nat /\ Len(td) \in Nat /\ r \in Nat /\ m = d + r /\ m \in Nat
      /\ vd = SubSeq(td, 1, v) /\ \A j \in 1..r : s[d + j] = td[v + j]
      /\ pos = At(h, s, d + 1) /\ (r > 0 => n = At(h, s, d + 2))
      /\ \A k \in 0..(m + 1) : At(h, s, k) \in ListCells
      /\ \A k \in 1..m : s[k] \in Nodes
  BY Places DEF Going
<1>2. r > 0 /\ d + 1 \in 1..m
  <2>1. d + 1 \in 1..m
    BY <1>1 DEF At
  <2> QED BY <1>1, <2>1
<1>3. pos = s[d + 1] /\ pos = td[v + 1] /\ pos \in Nodes /\ n = At(h, s, d + 2) /\ n \in ListCells
  <2>1. d + 2 \in 0..(m + 1) /\ 1 \in 1..r
    BY <1>1, <1>2
  <2> QED BY <1>1, <1>2, <2>1 DEF At
<1>4. Len(w) = v + 1 /\ w = SubSeq(td, 1, v + 1) /\ Len(td) - (v + 1) = r - 1
  <2>1. v + 1 <= Len(td)
    BY <1>1, <1>2
  <2>2. Len(w) = v + 1 /\ \A k \in 1..v : w[k] = td[k]
    <3>1. \A k \in 1..v : vd[k] = td[k]
      BY <1>1, <2>1
    <3> QED BY <1>3, <3>1
  <2>3. w[v + 1] = td[v + 1]
    BY <1>3
  <2> DEFINE z == SubSeq(td, 1, v + 1)
  <2>4. z \in Seq(Nodes) /\ Len(z) = v + 1 /\ \A k \in 1..(v + 1) : z[k] = td[k]
    BY <1>1, <2>1
  <2>5. w \in Seq(Nodes)
    BY <1>3
  <2>6. \A k \in 1..(v + 1) : w[k] = z[k]
    <3> HIDE DEF z, w, v
    <3>1. \A k \in 1..(v + 1) : k \in 1..v \/ k = v + 1
      BY <1>1
    <3> QED BY <2>2, <2>3, <2>4, <3>1
  <2> HIDE DEF z, w
  <2>7. w = z
    BY <2>2, <2>4, <2>5, <2>6
  <2> QED BY <1>1, <2>2, <2>7 DEF z
<1> HIDE DEF m, r, v, w
<1>5. Len(t) = e + (r - 1) /\ Len(t) \in Nat
  <2>1. CASE t = s /\ e = d + 1
    <3>1. Len(t) = m
      BY <2>1 DEF m
    <3> QED BY <1>1, <1>2, <2>1, <3>1
  <2>2. CASE Removed(s, d + 1, t) /\ e = d
    <3>1. Len(t) = m - 1
      BY <2>2 DEF Removed, m
    <3> QED BY <1>1, <1>2, <2>2, <3>1
  <2> QED BY <2>1, <2>2
<1>6. ASSUME NEW j \in 1..(r - 1)
      PROVE  /\ t[e + j] = s[d + (j + 1)] /\ e + j \in 1..Len(t) /\ j + 1 \in 1..r
             /\ s[d + (j + 1)] = td[v + (j + 1)] /\ v + (j + 1) = (v + 1) + j
  <2>1. /\ j + 1 \in 1..r /\ e + j \in 1..Len(t) /\ v + (j + 1) = (v + 1) + j
        /\ (d + 1) + j = d + (j + 1) /\ (d + j) + 1 = d + (j + 1) /\ ~(d + j < d + 1)
    <3>1. d \in Nat /\ e \in Nat /\ r \in Nat /\ v \in Nat /\ Len(t) = e + (r - 1)
      BY <1>1, <1>5
    <3> QED BY <3>1
  <2>2. CASE t = s /\ e = d + 1
    BY <1>1, <2>1, <2>2
  <2>3. CASE Removed(s, d + 1, t) /\ e = d
    BY <1>1, <2>1, <2>3 DEF Removed
  <2> QED BY <1>1, <2>1, <2>2, <2>3
<1>7. n = At(h, t, e + 1)
  <2>1. CASE r = 1
    <3>1. d + 2 \notin 1..m /\ e + 1 \notin 1..Len(t)
      BY <1>1, <1>5, <2>1
    <3> QED BY <1>3, <3>1 DEF At, m
  <2>2. CASE r > 1
    <3>1. 1 \in 1..(r - 1) /\ d + (1 + 1) = d + 2 /\ d + 2 \in 1..m
      BY <1>1, <2>2
    <3>2. t[e + 1] = s[d + 2] /\ e + 1 \in 1..Len(t)
      BY <1>6, <3>1
    <3> QED BY <1>3, <3>1, <3>2 DEF At, m
  <2> QED BY <1>1, <1>2, <2>1, <2>2
<1>8. r - 1 > 0 => nx[n] = At(h, t, e + 2)
  <2>1. r - 1 > 0 => e + 1 \in 0..Len(t) /\ (e + 1) + 1 = e + 2
    BY <1>1, <1>5
  <2> QED BY <1>7, <2>1 DEF Ring
<1>9. \A j \in 1..(r - 1) : t[e + j] = td[(v + 1) + j]
  BY <1>6
<1>10. Going(h, t, td, w, n, nx[n], e)
  <2>1. r - 1 >= 0
    BY <1>1, <1>2
  <2> QED BY <1>4, <1>5, <1>7, <1>8, <1>9, <2>1 DEF Going
<1> QED BY <1>2, <1>3, <1>10 DEF w, m

LEMMA ForEachIs ==
    ASSUME CellsAssumption, Lists, Looping, ForEachKeep \/ ForEachDel
    PROVE  Lists' /\ Looping'
<1> DEFINE h == iter.head
           s == seq[h]
           pos == iter.pos
           n == iter.n
<1>1. /\ iter.on /\ pos # h /\ live' = live /\ h \in live
      /\ iter \in [on : BOOLEAN, head : Heads \cup {Wild}, pos : ListCells \cup {Wild},
                   n : ListCells \cup {Wild}, todo : Seq(Nodes), visited : Seq(Nodes)]
  BY DEF ForEachKeep, ForEachDel, Looping
<1>2. iter' = [iter EXCEPT !.visited = Append(@, pos), !.pos = n, !.n = next'[n]]
  BY DEF ForEachKeep, ForEachDel, Advance
<1>3. /\ h \in Heads /\ s \in Seq(Nodes) /\ Injective(s) /\ Ring(next, prev, h, s)
      /\ seq \in [Heads -> Seq(Nodes)]
  BY <1>1, ListIs DEF Lists
<1>4. PICK d \in Nat : Going(h, s, iter.todo, iter.visited, pos, n, d)
  BY <1>1 DEF Looping
<1>5. pos \in Nodes /\ n \in ListCells /\ pos = s[d + 1] /\ d + 1 \in 1..Len(s)
  <2>1. s = s /\ d + 1 = d + 1 /\ d + 1 \in Nat
    OBVIOUS
  <2> HIDE DEF h, s, pos, n
  <2> QED BY <1>1, <1>3, <1>4, <2>1, AdvanceIs
<1>6. Lists' /\ \E e \in Nat : (seq'[h] = s /\ e = d + 1) \/ (Removed(s, d + 1, seq'[h]) /\ e = d)
  <2>1. CASE ForEachKeep
    <3>1. prev' = prev /\ next' = next /\ seq' = seq
      BY <2>1 DEF ForEachKeep
    <3>2. Lists'
      BY <1>1, <3>1 DEF Lists, Once, Rings
    <3>3. seq'[h] = s /\ d + 1 \in Nat
      BY <3>1
    <3> QED BY <3>2, <3>3
  <2>2. CASE ForEachDel
    <3> DEFINE t == Without(s, pos)
    <3>1. Unlink(pos) /\ seq' = [seq EXCEPT ![h] = t]
      BY <2>2 DEF ForEachDel
    <3>2. t \in Seq(Nodes) /\ Removed(s, d + 1, t)
      BY <1>3, <1>5, WithoutIs
    <3> HIDE DEF t
    <3>3. seq'[h] = t
      BY <1>3, <3>1
    <3>4. Lists'
      <4> HIDE DEF pos, h
      <4> QED BY <1>1, <1>5, <3>1, <3>2, DelStep
    <3> QED BY <3>2, <3>3, <3>4
  <2> QED BY <2>1, <2>2
<1>7. PICK e \in Nat : (seq'[h] = s /\ e = d + 1) \/ (Removed(s, d + 1, seq'[h]) /\ e = d)
  BY <1>6
<1>8. seq'[h] \in Seq(Nodes) /\ Ring(next', prev', h, seq'[h]) /\ next' \in Pointers
  BY <1>1, <1>3, <1>6 DEF Lists, Rings
<1>9. Going(h, seq'[h], iter.todo, Append(iter.visited, pos), n, next'[n], e)
  <2> HIDE DEF h, s, pos, n
  <2> QED BY <1>1, <1>3, <1>4, <1>7, <1>8, AdvanceIs
<1>10. next'[n] \in ListCells \cup {Wild}
  BY <1>5, <1>8 DEF Pointers
<1>11. /\ iter'.on /\ iter'.head = h /\ iter'.todo = iter.todo /\ iter'.pos = n
       /\ iter'.n = next'[n] /\ iter'.visited = Append(iter.visited, pos)
       /\ iter' \in [on : BOOLEAN, head : Heads \cup {Wild}, pos : ListCells \cup {Wild},
                     n : ListCells \cup {Wild}, todo : Seq(Nodes), visited : Seq(Nodes)]
  <2>1. Append(iter.visited, pos) \in Seq(Nodes)
    BY <1>1, <1>5
  <2> HIDE DEF pos
  <2>2. n \in ListCells \cup {Wild} /\ pos # Wild
    BY <1>5 DEF CellsAssumption
  <2> DEFINE vd == Append(iter.visited, pos)
             nn == next'[n]
             no == n
  <2>3. iter' = [iter EXCEPT !.visited = vd, !.pos = no, !.n = nn]
    BY <1>2
  <2> HIDE DEF vd, nn, no
  <2>4. /\ iter'.on /\ iter'.head = h /\ iter'.todo = iter.todo /\ iter'.pos = no
        /\ iter'.n = nn /\ iter'.visited = vd
    BY <1>1, <2>3
  <2>5. vd \in Seq(Nodes) /\ nn \in ListCells \cup {Wild} /\ no \in ListCells \cup {Wild}
    BY <1>10, <2>1, <2>2 DEF vd, nn, no
  <2>6. iter' \in [on : BOOLEAN, head : Heads \cup {Wild}, pos : ListCells \cup {Wild},
                  n : ListCells \cup {Wild}, todo : Seq(Nodes), visited : Seq(Nodes)]
    BY <1>1, <2>3, <2>5
  <2> QED BY <2>4, <2>6 DEF vd, nn, no
<1> HIDE DEF h, s, pos, n
<1>12. Looping'
  BY <1>1, <1>9, <1>11 DEF Looping
<1> QED BY <1>6, <1>12

LEMMA ListInvInitially ==
    ASSUME CellsAssumption PROVE ListInit => ListInv
<1> SUFFICES ASSUME ListInit PROVE ListInv
  OBVIOUS
<1>1. <<>> \in Seq(Nodes) /\ Len(<<>>) = 0
  OBVIOUS
<1>2. Lists
  BY <1>1 DEF ListInit, Lists, Once, Rings, Pointers, Injective
<1>3. Looping
  BY <1>1 DEF ListInit, NoLoop, Looping
<1> QED BY <1>2, <1>3 DEF ListInv

LEMMA ListInvKept ==
    ASSUME CellsAssumption, AdjacentToo = FALSE PROVE ListInv /\ [ListNext]_listVars => ListInv'
<1> SUFFICES ASSUME ListInv, [ListNext]_listVars PROVE ListInv'
  OBVIOUS
<1>1. /\ Lists /\ Looping
      /\ iter \in [on : BOOLEAN, head : Heads \cup {Wild}, pos : ListCells \cup {Wild},
                   n : ListCells \cup {Wild}, todo : Seq(Nodes), visited : Seq(Nodes)]
  BY DEF ListInv, Looping
\* No operation on a list runs inside a loop.
<1>2. ~iter.on /\ iter' = iter => Looping'
  BY <1>1 DEF Looping
<1>3. CASE \E h \in Heads : list_init(h)
  BY <1>1, <1>2, <1>3, InitStep DEF list_init, ListInv
<1>4. CASE \E h \in Heads : ForEachStart(h)
  <2>1. PICK h \in Heads : ForEachStart(h)
    BY <1>4
  <2>2. prev' = prev /\ next' = next /\ seq' = seq /\ live' = live
    BY <2>1 DEF ForEachStart
  <2>3. Lists'
    BY <1>1, <2>2 DEF Lists, Once, Rings
  <2> QED BY <1>1, <2>1, <2>3, StartIs DEF ListInv
<1>5. CASE \E h \in Heads, n \in Nodes : list_add(n, h) \/ list_add_tail(n, h)
  BY <1>1, <1>2, <1>5, ListsStep DEF list_add, list_add_tail, ListInv
<1>6. CASE \E n \in Nodes : list_del(n)
  <2>1. PICK n \in Nodes : list_del(n)
    BY <1>6
  <2>2. PICK h \in live : n \in Elements(seq[h])
    BY <2>1 DEF list_del, Linked
  <2>3. h \in Heads
    BY <1>1 DEF Lists
  <2> QED BY <1>1, <1>2, <2>1, <2>3, ListsStep DEF list_del, ListInv
<1>7. CASE \E l, h \in Heads : list_splice(l, h) \/ list_splice_tail(l, h)
  <2>1. PICK l \in Heads, h \in Heads : list_splice(l, h) \/ list_splice_tail(l, h)
    BY <1>7
  <2>2. ~iter.on /\ iter' = iter
    BY <2>1 DEF list_splice, list_splice_tail, listVars
  <2> QED BY <1>1, <1>2, <2>1, <2>2, SplicesStep DEF ListInv
<1>8. CASE \E n1, n2 \in Nodes : list_exchange(n1, n2)
  BY <1>1, <1>2, <1>8, ExchangeStep DEF list_exchange, ListInv
<1>9. CASE ForEachKeep \/ ForEachDel
  BY <1>1, <1>9, ForEachIs DEF ListInv
<1>10. CASE ForEachEnd
  <2>1. /\ prev' = prev /\ next' = next /\ seq' = seq /\ live' = live /\ iter' = NoLoop
    BY <1>10 DEF ForEachEnd
  <2>2. Lists'
    BY <1>1, <2>1 DEF Lists, Once, Rings
  <2>3. <<>> \in Seq(Nodes)
    OBVIOUS
  <2>4. Looping'
    BY <2>1, <2>3 DEF NoLoop, Looping
  <2> QED BY <2>2, <2>4 DEF ListInv
<1>11. CASE UNCHANGED listVars
  BY <1>1, <1>11 DEF ListInv, Lists, Once, Rings, Looping, listVars
<1> QED BY <1>3, <1>4, <1>5, <1>6, <1>7, <1>8, <1>9, <1>10, <1>11 DEF ListNext

LEMMA ListInvHolds ==
    ASSUME CellsAssumption, AdjacentToo = FALSE PROVE ListSpec => []ListInv
<1> QED BY ListInvInitially, ListInvKept, PTL DEF ListSpec

LEMMA InvRepresents ==
    ASSUME CellsAssumption PROVE ListInv => Represents
<1> SUFFICES ASSUME ListInv PROVE Represents
  OBVIOUS
<1>1. Lists /\ Looping
  BY DEF ListInv
<1>2. ListTypeOK
  <2>1. \A h \in live : Wild \notin {prev[h], next[h]}
    <3>1. \A h \in live : prev[h] \in ListCells /\ next[h] \in ListCells
      BY <1>1, HeadIs
    <3> QED BY <3>1 DEF CellsAssumption, ListCells
  <2> QED BY <1>1, <2>1 DEF ListTypeOK, Lists, Looping, Pointers
<1>3. ASSUME NEW h \in live, NEW k \in 1..Len(RingOf(h))
      PROVE  /\ next[RingOf(h)[k]] = Succ(RingOf(h), k)
             /\ prev[Succ(RingOf(h), k)] = RingOf(h)[k]
  <2> DEFINE s == seq[h]
             m == Len(s)
             ring == RingOf(h)
  <2>1. s \in Seq(Nodes) /\ Ring(next, prev, h, s) /\ h \in Heads /\ m \in Nat
    BY <1>1, ListIs
  <2>2. Len(ring) = m + 1 /\ \A y \in 1..(m + 1) : ring[y] = At(h, s, y - 1)
    <3> HIDE DEF s
    <3>1. ring = <<h>> \o s
      BY DEF RingOf, s
    <3>2. <<h>> \in Seq(Heads \cup Nodes) /\ s \in Seq(Heads \cup Nodes)
      BY <2>1
    <3>3. Len(ring) = m + 1 /\ ring[1] = h /\ \A y \in 2..(m + 1) : ring[y] = s[y - 1]
      BY <2>1, <3>1, <3>2
    <3> HIDE DEF m, ring
    <3>4. \A y \in 2..(m + 1) : y - 1 \in 1..m
      BY <2>1
    <3>5. 1 - 1 \notin 1..m /\ \A y \in 1..(m + 1) : y = 1 \/ y \in 2..(m + 1)
      BY <2>1
    <3> QED BY <3>3, <3>4, <3>5 DEF At, m
  <2>3. Succ(ring, k) = At(h, s, k)
    <3>1. Succ(ring, k) = ring[(k % (m + 1)) + 1]
      BY <2>2 DEF Succ
    <3> HIDE DEF ring, m
    <3>2. CASE k \in 1..m
      <4>1. k % (m + 1) = k
        BY <2>1, <3>2
      <4>2. k + 1 \in 1..(m + 1) /\ (k + 1) - 1 = k
        BY <2>1, <3>2
      <4> QED BY <2>2, <3>1, <4>1, <4>2
    <3>3. CASE k = m + 1
      <4>1. k % (m + 1) = 0
        BY <2>1, <3>3
      <4>2. 1 \in 1..(m + 1) /\ 1 - 1 = 0 /\ 0 + 1 = 1 /\ k \notin 1..m /\ 0 \notin 1..m
        BY <2>1, <3>3
      <4> QED BY <2>2, <3>1, <4>1, <4>2 DEF At, m
    <3> QED BY <1>3, <2>1, <2>2, <3>2, <3>3 DEF ring
  <2>4. k - 1 \in 0..m /\ (k - 1) + 1 = k /\ k \in 1..(m + 1)
    BY <1>3, <2>1, <2>2
  <2>5. next[At(h, s, k - 1)] = At(h, s, k) /\ prev[At(h, s, k)] = At(h, s, k - 1)
    BY <2>1, <2>4 DEF Ring
  <2> QED BY <2>2, <2>3, <2>4, <2>5
<1> QED BY <1>2, <1>3 DEF Represents

LEMMA InvVisitsAll ==
    ASSUME CellsAssumption PROVE ListInv => VisitsAll
<1> SUFFICES ASSUME ListInv, iter.on
             PROVE  /\ Len(iter.visited) <= Len(iter.todo)
                    /\ iter.visited = SubSeq(iter.todo, 1, Len(iter.visited))
                    /\ (iter.pos = iter.head => iter.visited = iter.todo)
  BY DEF VisitsAll
<1> DEFINE h == iter.head
           s == seq[h]
           td == iter.todo
           vd == iter.visited
           v == Len(vd)
           r == Len(td) - v
<1>1. PICK d \in Nat : Going(h, s, td, vd, iter.pos, iter.n, d)
  BY DEF ListInv, Looping
<1>2. /\ h \in live /\ td \in Seq(Nodes) /\ vd \in Seq(Nodes) /\ Lists
  BY DEF ListInv, Looping
<1>3. h \in Heads /\ \A k \in 1..Len(s) : s[k] # h
  BY <1>2, ListIs
<1>4. /\ r >= 0 /\ Len(s) = d + r /\ vd = SubSeq(td, 1, v) /\ iter.pos = At(h, s, d + 1)
      /\ v \in Nat /\ Len(td) \in Nat
  BY <1>1, <1>2 DEF Going
<1>5. ASSUME iter.pos = h
      PROVE  vd = td
  <2>1. r = 0
    <3>1. d + 1 \notin 1..Len(s)
      <4> HIDE DEF s, h
      <4> QED BY <1>3, <1>4, <1>5 DEF At
    <3>2. Len(s) = d + r /\ r \in Int /\ r >= 0
      BY <1>4
    <3> HIDE DEF s, r
    <3> QED BY <3>1, <3>2
  <2>2. v = Len(td)
    BY <1>4, <2>1
  <2>3. SubSeq(td, 1, Len(td)) = td
    BY <1>2
  <2> QED BY <1>4, <2>2, <2>3
<1> QED BY <1>4, <1>5

\* The pointers of every list run through exactly its nodes, both ways, after any
\* sequence of additions, deletions, splices and exchanges of nodes that are not
\* neighbours, however many heads and nodes there are (list.h).
THEOREM ListsRepresent ==
    ASSUME AdjacentToo = FALSE PROVE ListSpec => []Represents
<1> QED BY CellsAssumption, ListInvHolds, InvRepresents, PTL

\* A list_for_each_safe sees every node its list had, once and in order, whichever
\* of them its body deletes (list.h).
THEOREM LoopsVisitAll ==
    ASSUME AdjacentToo = FALSE PROVE ListSpec => []VisitsAll
<1> QED BY CellsAssumption, ListInvHolds, InvVisitsAll, PTL
=============================================================================
