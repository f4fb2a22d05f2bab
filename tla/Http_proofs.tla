----------------------------- MODULE Http_proofs -----------------------------
(* Proofs about the HTTP library: the server for any workers, connections and *)
(* response sizes; the URL parser for any threads and queries; a message that *)
(* is composed, encoded, sent and parsed, for any texts and however the input *)
(* is cut.  In between, what these need of sequences.                         *)
EXTENDS UrlParser, HttpServer, HttpExchange, FiniteSetTheorems, SequenceTheorems, TLAPS

-----------------------------------------------------------------------------
(* The server.                                                                *)

ServerPCs == {"idle", "recv", "response", "request", "head", "read", "error", "block", "whole",
              "fclose", "release", "destroy", "close"}

ServerTypes ==
    /\ hand \in Conns \cup {None}
    /\ opened \in [Descriptors -> (Conns \X {"socket", "file"}) \cup {None}]
    /\ number \in [Conns -> Descriptors \cup {None}] /\ fp \in [Workers -> Descriptors \cup {None}]
    /\ sock \in [Conns -> {"none", "open", "closed"}]
    /\ tasks \in Seq(Conns)
    /\ pc \in [Workers -> ServerPCs] /\ conn \in [Workers -> Conns \cup {None}]
    /\ rest \in [Workers -> Nat] /\ blocks \in [Workers -> Nat]
    /\ obj \in [Conns -> [Objects -> {"none", "live", "freed"}]]
    /\ sent \in [Conns -> Nat] /\ due \in [Conns -> Nat] /\ failed \in [Conns -> BOOLEAN]

\* A connection is with main, or in the queue once, or with one worker, or with
\* nobody any more.
OneHandler ==
    /\ \A w, v \in Workers : conn[w] # None /\ conn[w] = conn[v] => w = v
    /\ \A w \in Workers : conn[w] # None =>
          /\ sock[conn[w]] = "open" /\ conn[w] # hand
          /\ \A k \in 1..Len(tasks) : tasks[k] # conn[w]

Placed ==
    /\ OneHandler
    /\ \A w \in Workers : pc[w] = "idle" <=> conn[w] = None
    /\ \A j \in 1..Len(tasks) : sock[tasks[j]] = "open" /\ tasks[j] # hand
    /\ \A j, k \in 1..Len(tasks) : tasks[j] = tasks[k] => j = k
    /\ main = "add" => hand # None
    /\ hand # None => sock[hand] = "open"

\* What is open is open for its owner: for every connection its socket, for every
\* worker its file.
Held ==
    /\ \A x \in Conns : sock[x] = "open" =>
          number[x] \in Descriptors /\ opened[number[x]] = <<x, "socket">>
    /\ \A w \in Workers : FileOpen(w) =>
          fp[w] \in Descriptors /\ opened[fp[w]] = <<conn[w], "file">>

\* Nothing of it has been received, and nothing sent.
Untouched(x) ==
    /\ \A o \in Objects : o # "task" => obj[x][o] = "none"
    /\ due[x] = 0 /\ sent[x] = 0

\* Its response is out, or it has failed.
Settled(x) == failed[x] \/ (due[x] > 0 /\ sent[x] = due[x])

\* What a worker has of its connection, by where it stands in handle.
Stage(w) ==
    LET x == conn[w]
    IN  /\ obj[x]["task"] = IF pc[w] = "close" THEN "freed" ELSE "live"
        /\ pc[w] = "recv" => obj[x]["req"] # "freed"
        /\ pc[w] \in {"recv", "response"} => obj[x]["res"] = "none" /\ obj[x]["url"] = "none"
        /\ pc[w] \in {"recv", "response", "request"} => due[x] = 0 /\ sent[x] = 0
        /\ pc[w] \in {"response", "request", "release"} \/ Responding(w) => obj[x]["req"] = "live"
        /\ pc[w] \in {"request", "release"} \/ Responding(w) => obj[x]["res"] = "live"
        /\ pc[w] \in {"request", "head"} \/ FileOpen(w) => obj[x]["url"] = "live"
        /\ obj[x]["file"] = "live" <=> FileOpen(w)
        /\ pc[w] # "fclose" /\ Responding(w) => due[x] > 0 /\ due[x] = sent[x] + rest[w]
        /\ pc[w] \in {"read", "error"} => rest[w] = 0
        /\ pc[w] \in {"destroy", "close"} => \A o \in Objects \ {"task"} : obj[x][o] # "live"
        /\ pc[w] \in {"fclose", "release", "destroy", "close"} => Settled(x)
Stages == \A w \in Workers : conn[w] # None => Stage(w)

Ends ==
    /\ \A x \in Conns : sock[x] = "none" => Untouched(x)
    /\ \A j \in 1..Len(tasks) : Untouched(tasks[j]) /\ obj[tasks[j]]["task"] = "live"
    /\ hand # None => Untouched(hand) /\ obj[hand]["task"] = "live"
    /\ \A x \in Conns : sock[x] = "closed" =>
          Settled(x) /\ \A o \in Objects : obj[x][o] # "live"

ServerInv == ServerTypes /\ Placed /\ Held /\ Stages /\ Ends
-----------------------------------------------------------------------------
\* A step of handle changes only the worker's own place and its own connection.
\* What is left to show of it is the stage it leads to and its file.
LEMMA OwnConnectionOnly ==
    ASSUME ServerInv, NEW w \in Workers, conn[w] # None,
           UNCHANGED <<pool, sock, conn>>, main' \in {main, "exited"}, ServerTypes', Held',
           pc'[w] # "idle",
           \A v \in Workers : v # w => pc'[v] = pc[v] /\ rest'[v] = rest[v],
           \A x \in Conns : x # conn[w] =>
               obj'[x] = obj[x] /\ sent'[x] = sent[x] /\ due'[x] = due[x] /\ failed'[x] = failed[x],
           Stage(w)'
    PROVE  ServerInv'
<1> USE DEF ServerInv, pool
<1>1. Placed'
  BY DEF Placed, OneHandler
<1>2. Stages'
  <2> SUFFICES ASSUME NEW v \in Workers, conn[v] # None PROVE Stage(v)'
    BY DEF Stages
  <2>1. CASE v = w
    BY <2>1
  <2>2. CASE v # w
    <3>1. conn[v] # conn[w] /\ conn[v] \in Conns
      BY <2>2 DEF Placed, OneHandler, ServerTypes
    <3>2. Stage(v)
      BY DEF Stages
    <3> QED BY <2>2, <3>1, <3>2 DEF Stage, Settled, FileOpen, Responding
  <2> QED BY <2>1, <2>2
<1>3. Ends'
  <2>1. conn[w] \in Conns /\ sock[conn[w]] = "open" /\ conn[w] # hand
    BY DEF Placed, OneHandler, ServerTypes
  <2>2. \A j \in 1..Len(tasks) : tasks[j] # conn[w]
    BY DEF Placed, OneHandler
  <2>3. (\A j \in 1..Len(tasks) : tasks[j] \in Conns) /\ (hand # None => hand \in Conns)
    BY DEF ServerTypes
  <2>4. \A x \in Conns : x # conn[w] =>
           /\ Untouched(x) => Untouched(x)'
           /\ Settled(x) => Settled(x)'
    BY DEF Untouched, Settled
  <2> QED BY <2>1, <2>2, <2>3, <2>4 DEF Ends
<1> QED BY <1>1, <1>2, <1>3

\* Where nothing is opened or closed, and no worker comes to a file, all is held as
\* before.
LEMMA HeldAsBefore ==
    ASSUME Held, UNCHANGED <<files, sock, conn>>, \A v \in Workers : FileOpen(v)' => FileOpen(v)
    PROVE  Held'
BY DEF Held, files

\* The steps of handle but the last.
LEMMA HandleStep ==
    ASSUME ServerInv, NEW w \in Workers, handle(w) \/ ReadRecovers(w), ~CloseSocket(w)
    PROVE  ServerInv'
<1> USE DEF ServerInv, history, files, pool, FileOpen, Responding
<1> DEFINE x == conn[w]
<1> DEFINE Others == /\ \A v \in Workers : v # w => pc'[v] = pc[v] /\ rest'[v] = rest[v]
                     /\ \A d \in Conns : d # x =>
                           obj'[d] = obj[d] /\ sent'[d] = sent[d] /\ due'[d] = due[d]
                           /\ failed'[d] = failed[d]
<1> DEFINE Same == UNCHANGED <<hand, tasks, sem, sock, conn>> /\ main' \in {main, "exited"}
<1> DEFINE Good == ServerTypes' /\ pc'[w] # "idle" /\ Others /\ Stage(w)'
<1>1. CASE pc[w] # "idle"
  <2>1. x # None /\ x \in Conns /\ Stage(w)
    BY <1>1 DEF Placed, Stages, ServerTypes
  <2>2. SUFFICES Same /\ Held' /\ Good
    <3> HIDE DEF FileOpen, Responding
    <3> QED BY <2>1, OwnConnectionOnly
  <2>3. Same
    BY DEF handle, ReadRecovers, RecvPart, RecvDone, RecvEnds, MakeResponse, UrlFails, LocalFile,
       LocalFileNoDot, NotFound, OpenFile, OpenFileFails, ReadBlock, ReadFails, BlockSent,
       ResponseSent, CloseFile, Send, SendFails, SigPipe, Exits, Release, DestroyTask
  <2>4. ASSUME UNCHANGED files, pc'[w] = pc[w] \/ ~FileOpen(w)' \/ FileOpen(w), Good
        PROVE  Held' /\ Good
    <3>1. \A v \in Workers : FileOpen(v)' => FileOpen(v)
      BY <2>4
    <3> HIDE DEF FileOpen
    <3> QED BY <2>3, <2>4, <3>1, HeldAsBefore
  <2> DEFINE Plain == UNCHANGED files /\ (pc'[w] = pc[w] \/ ~FileOpen(w)' \/ FileOpen(w)) /\ Good
  <2> HIDE DEF x
  <2>5. CASE RecvPart(w)
    <3>1. Plain
      BY <1>1, <2>1, <2>5 DEF RecvPart, Goto, At, ServerTypes, ServerPCs, Objects, Stage, Settled, x
    <3> QED BY <2>3, <2>4, <3>1
  <2>6. CASE RecvDone(w)
    <3>1. Plain
      BY <1>1, <2>1, <2>6 DEF RecvDone, Goto, ServerTypes, ServerPCs, Stage, Settled, x
    <3> QED BY <2>3, <2>4, <3>1
  <2>7. CASE RecvEnds(w)
    <3>1. /\ pc[w] = "recv" /\ pc' = [pc EXCEPT ![w] = "destroy"]
          /\ failed' = [failed EXCEPT ![x] = TRUE]
          /\ sent' = [sent EXCEPT ![x] = 0] /\ due' = [due EXCEPT ![x] = 0]
          /\ UNCHANGED <<hand, opened, number, fp, sock, tasks, conn, rest, blocks>>
      BY <2>7 DEF RecvEnds, Goto, Fault, x
    <3>2. CASE obj[x]["req"] = "live" /\ obj' = [obj EXCEPT ![x]["req"] = "freed"]
      BY <2>1, <2>3, <2>4, <3>1, <3>2 DEF ServerTypes, ServerPCs, Objects, Stage, Settled, x
    <3>3. CASE obj[x]["req"] # "live" /\ obj' = obj
      BY <2>1, <2>3, <2>4, <3>1, <3>3 DEF ServerTypes, ServerPCs, Objects, Stage, Settled, x
    <3> QED BY <2>7, <3>2, <3>3 DEF RecvEnds, At, x
  <2>8. CASE MakeResponse(w)
    <3>1. Plain
      BY <1>1, <2>1, <2>8 DEF MakeResponse, Goto, ServerTypes, ServerPCs, Objects, Stage, Settled, x
    <3> QED BY <2>3, <2>4, <3>1
  <2>9. CASE UrlFails(w)
    <3>1. Plain
      BY <1>1, <2>1, <2>9 DEF UrlFails, Goto, At, Fault, ServerTypes, ServerPCs, Objects, Stage,
         Settled, x
    <3> QED BY <2>3, <2>4, <3>1
  <2>10. ASSUME NEW n \in 0..MaxBlocks, LocalFile(w, n) PROVE Held' /\ Good
    <3>1. Plain
      BY <1>1, <2>1, <2>10, UnitsAssumption
         DEF LocalFile, Goto, Owe, ServerTypes, ServerPCs, Stage, Settled, x
    <3> QED BY <2>3, <2>4, <3>1
  <2>11. CASE NotFound(w)
    <3>1. Plain
      BY <1>1, <2>1, <2>11, UnitsAssumption
         DEF NotFound, Goto, At, Owe, ServerTypes, ServerPCs, Objects, Stage, Settled, x
    <3> QED BY <2>3, <2>4, <3>1
  <2>12. ASSUME NEW n \in Descriptors, OpenFile(w, n) PROVE Held' /\ Good
    <3>1. /\ rest[w] = 0 /\ pc[w] = "head" /\ pc' = [pc EXCEPT ![w] = "read"]
          /\ opened[n] = None /\ opened' = [opened EXCEPT ![n] = <<x, "file">>]
          /\ fp' = [fp EXCEPT ![w] = n] /\ obj' = [obj EXCEPT ![x]["file"] = "live"]
          /\ UNCHANGED <<hand, number, sock, tasks, conn, rest, blocks, sent, due, failed>>
      BY <2>12 DEF OpenFile, Gets, Goto, At, x
    <3>2. Good
      BY <1>1, <2>1, <3>1 DEF ServerTypes, ServerPCs, Objects, Stage, Settled, x
    <3>3. \A m \in Descriptors : opened[m] # None => opened'[m] = opened[m]
      BY <3>1 DEF ServerTypes
    <3>4. \A y \in Conns, k \in {"socket", "file"} : <<y, k>> # None
      BY DescriptorsAssumption DEF DescriptorsAssumption
    <3>5. fp'[w] = n /\ opened'[n] = <<x, "file">> /\ \A v \in Workers \ {w} : fp'[v] = fp[v]
      BY <3>1 DEF ServerTypes
    <3>6. \A d \in Conns : sock'[d] = "open" =>
             number'[d] \in Descriptors /\ opened'[number'[d]] = <<d, "socket">>
      BY <3>1, <3>3, <3>4 DEF Held
    <3>7. ASSUME NEW v \in Workers, FileOpen(v)'
          PROVE  fp'[v] \in Descriptors /\ opened'[fp'[v]] = <<conn'[v], "file">>
      <4>1. CASE v = w
        BY <3>1, <3>5, <4>1 DEF x
      <4>2. CASE v # w
        <5>1. FileOpen(v) /\ conn[v] \in Conns
          BY <3>1, <3>7, <4>2 DEF Placed, ServerTypes
        <5>2. fp[v] \in Descriptors /\ opened[fp[v]] = <<conn[v], "file">>
          BY <5>1 DEF Held
        <5> QED BY <3>1, <3>3, <3>4, <3>5, <4>2, <5>1, <5>2
      <4> QED BY <4>1, <4>2
    <3> QED BY <3>2, <3>6, <3>7 DEF Held
  <2>13. CASE OpenFileFails(w)
    <3>1. Plain
      BY <1>1, <2>1, <2>13 DEF OpenFileFails, Goto, Fault, ServerTypes, ServerPCs, Stage, Settled, x
    <3> QED BY <2>3, <2>4, <3>1
  <2>14. CASE ReadBlock(w)
    <3>1. Plain
      BY <1>1, <2>1, <2>14 DEF ReadBlock, Goto, Owe, ServerTypes, ServerPCs, Stage, Settled, x
    <3> QED BY <2>3, <2>4, <3>1
  <2>15. CASE BlockSent(w) \/ ReadFails(w) \/ ReadRecovers(w)
    <3>1. PICK to \in {"read", "error"} :
             /\ pc' = [pc EXCEPT ![w] = to] /\ pc[w] \in {"block", "read", "error"} /\ rest[w] = 0
             /\ UNCHANGED <<hand, opened, number, fp, sock, tasks, conn, rest, blocks, obj, sent, due,
                           failed>>
      BY <2>1, <2>15 DEF BlockSent, ReadFails, ReadRecovers, Goto, Stage
    <3>2. Plain
      BY <1>1, <2>1, <3>1 DEF ServerTypes, ServerPCs, Stage, Settled, x
    <3> QED BY <2>3, <2>4, <3>2
  <2>16. CASE ResponseSent(w)
    <3>1. Plain
      BY <1>1, <2>1, <2>16 DEF ResponseSent, Goto, ServerTypes, ServerPCs, Stage, Settled, x
    <3> QED BY <2>3, <2>4, <3>1
  <2>17. CASE CloseFile(w)
    <3>1. /\ pc[w] \in {"read", "fclose"} /\ pc' = [pc EXCEPT ![w] = "release"]
          /\ opened' = [opened EXCEPT ![fp[w]] = None] /\ fp' = [fp EXCEPT ![w] = None]
          /\ obj' = [obj EXCEPT ![x]["file"] = "freed"]
          /\ UNCHANGED <<hand, number, sock, tasks, conn, rest, blocks, sent, due, failed>>
      BY <2>17 DEF CloseFile, Goto, At, x
    <3>2. Good
      <4>1. Settled(x)
        BY <2>1, <2>17 DEF CloseFile, Goto, Stage, Settled, ServerTypes, x
      <4>2. ServerTypes' /\ pc'[w] = "release" /\ Others
        BY <2>1, <3>1 DEF ServerTypes, ServerPCs, Objects
      <4>3. /\ obj'[x] = [obj[x] EXCEPT !["file"] = "freed"]
            /\ obj[x] \in [Objects -> {"none", "live", "freed"}]
        BY <2>1, <3>1 DEF ServerTypes
      <4>4. Stage(w)'
        BY <2>1, <3>1, <4>1, <4>2, <4>3 DEF Objects, Stage, Settled, x
      <4> QED BY <4>2, <4>4
    <3>3. fp[w] \in Descriptors /\ opened[fp[w]] = <<x, "file">>
      BY <3>1 DEF Held, x
    <3>4. \A m \in Descriptors : opened[m] # <<x, "file">> => opened'[m] = opened[m]
      BY <3>1, <3>3 DEF ServerTypes
    <3>5. ASSUME NEW d \in Conns, sock'[d] = "open"
          PROVE  number'[d] \in Descriptors /\ opened'[number'[d]] = <<d, "socket">>
      <4>1. number[d] \in Descriptors /\ opened[number[d]] = <<d, "socket">>
        BY <3>1, <3>5 DEF Held
      <4>2. <<d, "socket">> # <<x, "file">>
        OBVIOUS
      <4> QED BY <3>1, <3>4, <4>1, <4>2
    <3>6. ASSUME NEW v \in Workers, FileOpen(v)'
          PROVE  fp'[v] \in Descriptors /\ opened'[fp'[v]] = <<conn'[v], "file">>
      <4>1. v # w /\ FileOpen(v)
        BY <2>1, <3>1, <3>6 DEF ServerTypes
      <4>2. fp[v] \in Descriptors /\ opened[fp[v]] = <<conn[v], "file">> /\ fp'[v] = fp[v]
        BY <3>1, <4>1 DEF Held, ServerTypes
      <4>3. conn[v] # x
        BY <2>1, <4>1 DEF Placed, OneHandler, x
      <4>4. <<conn[v], "file">> # <<x, "file">>
        BY <4>3
      <4> QED BY <3>1, <3>4, <4>2, <4>4
    <3>7. Held'
      BY <3>5, <3>6 DEF Held
    <3> QED BY <2>3, <3>2, <3>7
  <2>18. ASSUME NEW n \in 1..HeadUnits, Send(w, n) PROVE Held' /\ Good
    <3>1. n \in Nat /\ n <= rest[w] /\ rest[w] \in Nat /\ sent[x] \in Nat
      BY <2>1, <2>18, UnitsAssumption DEF Send, ServerTypes
    <3>2. /\ pc[w] \in {"head", "block", "whole"}
          /\ rest' = [rest EXCEPT ![w] = rest[w] - n]
          /\ sent' = [sent EXCEPT ![x] = sent[x] + n]
          /\ UNCHANGED <<hand, opened, number, fp, sock, tasks, pc, conn, blocks, obj, due, failed>>
      BY <2>18 DEF Send, Sending, x
    <3>3. ServerTypes'
      BY <2>1, <3>1, <3>2 DEF ServerTypes
    <3>4. due[x] = sent[x] + rest[w] /\ rest'[w] = rest[w] - n /\ sent'[x] = sent[x] + n
      BY <2>1, <3>2 DEF Stage, ServerTypes, x
    <3>5. Stage(w)'
      BY <2>1, <3>1, <3>2, <3>4 DEF Stage, Settled, x
    <3>6. Good
      BY <2>1, <3>2, <3>3, <3>5 DEF ServerTypes, ServerPCs, x
    <3> QED BY <2>3, <2>4, <3>2, <3>6
  <2>19. CASE SendFails(w)
    <3>1. Plain
      BY <1>1, <2>1, <2>19 DEF SendFails, Sending, Fault, ServerTypes, ServerPCs, Stage, Settled, x
    <3> QED BY <2>3, <2>4, <3>1
  <2>20. CASE SigPipe(w) \/ LocalFileNoDot(w)
    <3>1. Plain
      BY <1>1, <2>1, <2>20 DEF SigPipe, LocalFileNoDot, Exits, ServerTypes, ServerPCs, Stage,
         Settled, x
    <3> QED BY <2>3, <2>4, <3>1
  <2>21. CASE Release(w)
    <3>1. PICK u \in {"none", "freed"} :
             obj' = [obj EXCEPT ![x] = [obj[x] EXCEPT !["req"] = "freed", !["res"] = "freed",
                                                     !["url"] = u]]
      <4>1. PICK os \in {{"req", "res"}, {"req", "res", "url"}} :
               /\ obj' = [obj EXCEPT ![x] = [o \in Objects |-> IF o \in os THEN "freed"
                                                              ELSE obj[x][o]]]
               /\ obj[x]["url"] = "live" => "url" \in os
        <5>1. {"req", "res"} \cup {o \in {"url"} : obj[x][o] = "live"}
                 \in {{"req", "res"}, {"req", "res", "url"}}
          OBVIOUS
        <5> QED BY <2>1, <2>21, <5>1 DEF Release, Frees, ServerTypes, x
      <4>2. obj[x] \in [Objects -> {"none", "live", "freed"}]
        BY <2>1 DEF ServerTypes
      <4> DEFINE u == IF "url" \in os THEN "freed" ELSE obj[x]["url"]
      <4>3. u \in {"none", "freed"}
        BY <4>1, <4>2 DEF Objects
      <4>4. [o \in Objects |-> IF o \in os THEN "freed" ELSE obj[x][o]]
               = [obj[x] EXCEPT !["req"] = "freed", !["res"] = "freed", !["url"] = u]
        BY <4>1, <4>2 DEF Objects
      <4> QED BY <4>1, <4>3, <4>4
    <3>2. pc[w] = "release" /\ pc' = [pc EXCEPT ![w] = "destroy"]
          /\ UNCHANGED <<hand, opened, number, fp, sock, tasks, conn, rest, blocks, sent, due, failed>>
      BY <2>21 DEF Release, Goto
    <3>3. Good
      <4>1. ServerTypes' /\ pc'[w] = "destroy" /\ Others
        BY <2>1, <3>1, <3>2 DEF ServerTypes, ServerPCs, Objects
      <4>2. /\ obj'[x] = [obj[x] EXCEPT !["req"] = "freed", !["res"] = "freed", !["url"] = u]
            /\ obj[x] \in [Objects -> {"none", "live", "freed"}]
        BY <2>1, <3>1 DEF ServerTypes
      <4>3. Stage(w)'
        BY <2>1, <3>2, <4>1, <4>2 DEF Objects, Stage, Settled, x
      <4> QED BY <4>1, <4>3
    <3>4. Plain
      <4>1. pc'[w] = "destroy"
        BY <3>2 DEF ServerTypes
      <4> HIDE DEF Good
      <4> QED BY <3>2, <3>3, <4>1
    <3> QED BY <2>3, <2>4, <3>4
  <2>22. CASE DestroyTask(w)
    <3>1. Plain
      BY <1>1, <2>1, <2>22 DEF DestroyTask, Goto, At, ServerTypes, ServerPCs, Objects, Stage,
         Settled, x
    <3> QED BY <2>3, <2>4, <3>1
  <2> QED
    BY <2>3, <2>5, <2>6, <2>7, <2>8, <2>9, <2>10, <2>11, <2>12, <2>13, <2>14, <2>15,
       <2>16, <2>17, <2>18, <2>19, <2>20, <2>21, <2>22 DEF handle
<1>2. CASE pc[w] = "idle"
  BY <1>2 DEF handle, ReadRecovers, RecvPart, RecvDone, RecvEnds, MakeResponse, UrlFails,
     LocalFile, LocalFileNoDot, NotFound, OpenFile, OpenFileFails, ReadBlock, ReadFails, BlockSent,
     ResponseSent, CloseFile, Send, SendFails, SigPipe, Sending, Release, DestroyTask, Goto
<1> QED BY <1>1, <1>2

-----------------------------------------------------------------------------
(* The steps that hand a connection on.                                      *)

LEMMA AcceptStep ==
    ASSUME ServerInv, NEW x \in Conns, NEW n \in Descriptors, Accept(x, n)
    PROVE  ServerInv'
<1> USE DEF ServerInv, history
<1>1. /\ sock[x] = "none" /\ sock' = [sock EXCEPT ![x] = "open"]
      /\ opened[n] = None /\ opened' = [opened EXCEPT ![n] = <<x, "socket">>]
      /\ number' = [number EXCEPT ![x] = n] /\ hand' = x
      /\ obj' = [obj EXCEPT ![x]["task"] = "live"]
      /\ UNCHANGED <<fp, tasks, pc, conn, rest, blocks, sent, due, failed>>
  BY DEF Accept, Gets
<1>2. ServerTypes'
  BY <1>1 DEF ServerTypes, Objects
<1>3. /\ \A j \in 1..Len(tasks) : tasks[j] # x /\ tasks[j] \in Conns
      /\ \A w \in Workers : conn[w] # None => conn[w] # x /\ conn[w] \in Conns
      /\ x # None
  BY <1>1, ConnsAssumption DEF Placed, OneHandler, ServerTypes
<1>4. \A d \in Conns : d # x => obj'[d] = obj[d] /\ sock'[d] = sock[d] /\ number'[d] = number[d]
  BY <1>1 DEF ServerTypes
<1>5. sock'[x] = "open" /\ number'[x] = n /\ obj'[x] = [obj[x] EXCEPT !["task"] = "live"]
  BY <1>1 DEF ServerTypes
<1>6. Placed'
  BY <1>1, <1>3, <1>4, <1>5 DEF Placed, OneHandler
<1>7. Held'
  <2>1. \A m \in Descriptors : opened[m] # None => opened'[m] = opened[m]
    BY <1>1 DEF ServerTypes
  <2>2. \A d \in Conns, k \in {"socket", "file"} : <<d, k>> # None
    BY DescriptorsAssumption
  <2>3. opened'[n] = <<x, "socket">>
    BY <1>1 DEF ServerTypes
  <2>4. ASSUME NEW d \in Conns, sock'[d] = "open"
        PROVE  number'[d] \in Descriptors /\ opened'[number'[d]] = <<d, "socket">>
    <3>1. CASE d = x
      BY <1>5, <2>3, <3>1
    <3>2. CASE d # x
      <4>1. number[d] \in Descriptors /\ opened[number[d]] = <<d, "socket">>
        BY <1>4, <2>4, <3>2 DEF Held
      <4>2. <<d, "socket">> # None
        BY <2>2
      <4> QED BY <1>4, <2>1, <3>2, <4>1, <4>2
    <3> QED BY <3>1, <3>2
  <2>5. ASSUME NEW v \in Workers, FileOpen(v)'
        PROVE  fp'[v] \in Descriptors /\ opened'[fp'[v]] = <<conn'[v], "file">>
    <3>1. FileOpen(v)
      BY <1>1, <2>5 DEF FileOpen
    <3>2. conn[v] \in Conns
      BY <3>1 DEF FileOpen, Placed, ServerTypes
    <3> QED BY <1>1, <2>1, <2>2, <3>1, <3>2 DEF Held
  <2> QED BY <2>4, <2>5 DEF Held
<1>8. Stages'
  BY <1>1, <1>3, <1>4 DEF Stages, Stage, Settled, FileOpen, Responding
<1>9. Ends'
  <2>1. Untouched(x)' /\ obj'[x]["task"] = "live"
    BY <1>1, <1>5 DEF Ends, Untouched, ServerTypes, Objects
  <2>2. \A d \in Conns : d # x => (Untouched(d) => Untouched(d)') /\ (Settled(d) => Settled(d)')
    BY <1>1, <1>4 DEF Untouched, Settled
  <2> QED BY <1>1, <1>3, <1>4, <1>5, <2>1, <2>2 DEF Ends, Untouched
<1> QED BY <1>2, <1>6, <1>7, <1>8, <1>9

LEMMA LinkStep ==
    ASSUME ServerInv, Link
    PROVE  ServerInv'
<1> USE DEF ServerInv, history, files, FileOpen, Responding
<1> DEFINE x == hand
<1>1. /\ main = "add" /\ tasks' = Append(tasks, x) /\ hand' = None
      /\ UNCHANGED <<opened, number, fp, sock, pc, conn, rest, blocks, obj, sent, due, failed>>
  BY DEF Link
<1>2. x # None /\ x \in Conns /\ sock[x] = "open" /\ Untouched(x) /\ obj[x]["task"] = "live"
  BY <1>1 DEF Placed, ServerTypes, Ends
<1>3. /\ \A j \in 1..Len(tasks) : tasks[j] # x
      /\ \A w \in Workers : conn[w] # x
  BY <1>2 DEF Placed, OneHandler
<1> HIDE DEF x
<1>4. /\ tasks \in Seq(Conns) /\ Len(tasks) \in Nat /\ Len(tasks') = Len(tasks) + 1
      /\ \A j \in 1..Len(tasks) : tasks'[j] = tasks[j] /\ tasks[j] \in Conns
      /\ tasks'[Len(tasks) + 1] = x
  BY <1>1, <1>2 DEF ServerTypes
<1>5. \A j \in 1..Len(tasks') : j \in 1..Len(tasks) \/ j = Len(tasks) + 1
  BY <1>4
<1>6. ServerTypes'
  BY <1>1, <1>2 DEF ServerTypes
<1>7. Placed'
  <2>1. OneHandler'
    BY <1>1, <1>3, <1>4, <1>5 DEF Placed, OneHandler, ServerTypes
  <2>2. \A j \in 1..Len(tasks') : sock'[tasks'[j]] = "open" /\ tasks'[j] # hand'
    BY <1>1, <1>2, <1>4, <1>5, ConnsAssumption DEF Placed
  <2>3. \A j, k \in 1..Len(tasks') : tasks'[j] = tasks'[k] => j = k
    BY <1>3, <1>4, <1>5 DEF Placed
  <2>4. main' = "post"
    BY DEF Link
  <2> QED BY <1>1, <2>1, <2>2, <2>3, <2>4 DEF Placed
<1>8. Held'
  BY <1>1 DEF Held
<1>9. Stages'
  BY <1>1 DEF Stages, Stage, Settled
<1>10. Ends'
  <2>1. \A j \in 1..Len(tasks') : Untouched(tasks'[j]) /\ obj[tasks'[j]]["task"] = "live"
    BY <1>2, <1>4, <1>5 DEF Ends
  <2> QED BY <1>1, <2>1 DEF Ends, Untouched, Settled
<1> QED BY <1>6, <1>7, <1>8, <1>9, <1>10

LEMMA TakeStep ==
    ASSUME ServerInv, NEW w \in Workers, Take(w)
    PROVE  ServerInv'
<1> USE DEF ServerInv, history, files, FileOpen, Responding
<1> DEFINE x == Head(tasks)
<1>1. /\ pc[w] = "idle" /\ tasks # <<>> /\ tasks' = Tail(tasks)
      /\ conn' = [conn EXCEPT ![w] = x] /\ pc' = [pc EXCEPT ![w] = "recv"]
      /\ UNCHANGED <<main, hand, opened, number, fp, sock, rest, blocks, obj, sent, due, failed>>
  BY DEF Take
<1>2. /\ Len(tasks) \in Nat /\ x = tasks[1] /\ 1 \in 1..Len(tasks) /\ x \in Conns
      /\ Len(tasks') = Len(tasks) - 1 /\ tasks' \in Seq(Conns)
      /\ \A j \in 1..Len(tasks') : tasks'[j] = tasks[j + 1] /\ j + 1 \in 1..Len(tasks)
  BY <1>1 DEF ServerTypes
<1> HIDE DEF x
<1>3. ServerTypes'
  BY <1>1, <1>2 DEF ServerTypes, ServerPCs
<1>4. /\ conn'[w] = x /\ pc'[w] = "recv"
      /\ \A v \in Workers : v # w => conn'[v] = conn[v] /\ pc'[v] = pc[v]
  BY <1>1 DEF ServerTypes
<1>5. x # None /\ x # hand /\ sock[x] = "open" /\ Untouched(x) /\ obj[x]["task"] = "live"
  BY <1>2, ConnsAssumption DEF Placed, Ends
<1>6. \A v \in Workers : conn[v] # x
  BY <1>2, <1>5 DEF Placed, OneHandler
<1>7. Placed'
  <2>1. \A j \in 1..Len(tasks') : tasks'[j] # x
    BY <1>2 DEF Placed
  <2>2. OneHandler'
    BY <1>1, <1>2, <1>4, <1>5, <1>6, <2>1 DEF Placed, OneHandler
  <2>3. /\ \A j \in 1..Len(tasks') : sock'[tasks'[j]] = "open" /\ tasks'[j] # hand
        /\ \A j, k \in 1..Len(tasks') : tasks'[j] = tasks'[k] => j = k
    BY <1>1, <1>2 DEF Placed
  <2> QED BY <1>1, <1>4, <1>5, <2>2, <2>3 DEF Placed
<1>8. Held'
  BY <1>1, <1>4 DEF Held
<1>9. Stages'
  <2>1. Stage(w)'
    BY <1>1, <1>4, <1>5 DEF Stage, Untouched, Objects
  <2>2. ASSUME NEW v \in Workers, v # w, conn[v] # None PROVE Stage(v)'
    BY <1>1, <1>4, <2>2 DEF Stages, Stage, Settled
  <2> QED BY <1>4, <2>1, <2>2 DEF Stages
<1>10. Ends'
  <2>1. \A j \in 1..Len(tasks') : Untouched(tasks'[j]) /\ obj[tasks'[j]]["task"] = "live"
    BY <1>2 DEF Ends
  <2> QED BY <1>1, <2>1 DEF Ends, Untouched, Settled
<1> QED BY <1>3, <1>7, <1>8, <1>9, <1>10

LEMMA CloseStep ==
    ASSUME ServerInv, NEW w \in Workers, CloseSocket(w)
    PROVE  ServerInv'
<1> USE DEF ServerInv, history, FileOpen, Responding
<1> DEFINE x == conn[w]
<1>1. /\ pc[w] = "close" /\ pc' = [pc EXCEPT ![w] = "idle"]
      /\ opened' = [opened EXCEPT ![number[x]] = None]
      /\ sock' = [sock EXCEPT ![x] = "closed"]
      /\ conn' = [conn EXCEPT ![w] = None] /\ blocks' = [blocks EXCEPT ![w] = 0]
      /\ UNCHANGED <<main, hand, number, fp, tasks, rest, obj, sent, due, failed>>
  BY DEF CloseSocket, Goto, pool
<1>2. x # None /\ x \in Conns /\ Stage(w) /\ sock[x] = "open" /\ x # hand
  BY <1>1 DEF Placed, OneHandler, Stages, ServerTypes
<1>3. number[x] \in Descriptors /\ opened[number[x]] = <<x, "socket">>
  BY <1>2 DEF Held
<1> HIDE DEF x
<1>4. ServerTypes'
  BY <1>1, <1>2 DEF ServerTypes, ServerPCs
<1>5. /\ conn'[w] = None /\ pc'[w] = "idle" /\ sock'[x] = "closed"
      /\ \A v \in Workers : v # w => conn'[v] = conn[v] /\ pc'[v] = pc[v]
      /\ \A d \in Conns : d # x => sock'[d] = sock[d]
  BY <1>1, <1>2 DEF ServerTypes
<1>6. /\ \A v \in Workers : v # w => conn[v] # x
      /\ \A j \in 1..Len(tasks) : tasks[j] # x /\ tasks[j] \in Conns
  <2>1. \A j \in 1..Len(tasks) : tasks[j] \in Conns
    BY DEF ServerTypes
  <2> QED BY <1>2, <2>1 DEF Placed, OneHandler, x
<1>7. Placed'
  <2>1. OneHandler'
    BY <1>1, <1>5, <1>6 DEF Placed, OneHandler, ServerTypes
  <2>2. hand # None => hand \in Conns
    BY DEF ServerTypes
  <2> QED BY <1>1, <1>2, <1>5, <1>6, <2>1, <2>2 DEF Placed
<1>8. Held'
  <2>1. \A m \in Descriptors : opened[m] # <<x, "socket">> => opened'[m] = opened[m]
    BY <1>1, <1>3 DEF ServerTypes
  <2>2. ASSUME NEW d \in Conns, sock'[d] = "open"
        PROVE  number'[d] \in Descriptors /\ opened'[number'[d]] = <<d, "socket">>
    <3>1. d # x /\ sock[d] = "open"
      BY <1>5, <2>2
    <3>2. number[d] \in Descriptors /\ opened[number[d]] = <<d, "socket">>
      BY <3>1 DEF Held
    <3>3. <<d, "socket">> # <<x, "socket">>
      BY <3>1
    <3> QED BY <1>1, <2>1, <3>2, <3>3
  <2>3. ASSUME NEW v \in Workers, FileOpen(v)'
        PROVE  fp'[v] \in Descriptors /\ opened'[fp'[v]] = <<conn'[v], "file">>
    <3>1. v # w /\ FileOpen(v)
      BY <1>5, <2>3
    <3>2. fp[v] \in Descriptors /\ opened[fp[v]] = <<conn[v], "file">>
      BY <3>1 DEF Held
    <3> QED BY <1>1, <1>5, <2>1, <3>1, <3>2
  <2> QED BY <2>2, <2>3 DEF Held
<1>9. Stages'
  BY <1>1, <1>5 DEF Stages, Stage, Settled
<1>10. Ends'
  <2>1. Settled(x) /\ \A o \in Objects : obj[x][o] # "live"
    BY <1>1, <1>2 DEF Stage, Objects, x
  <2>2. \A d \in Conns : (Settled(d) <=> Settled(d)') /\ (Untouched(d) <=> Untouched(d)')
    BY <1>1 DEF Settled, Untouched
  <2>3. \A j \in 1..Len(tasks) : Untouched(tasks[j])'
    BY <1>1, <1>6, <2>2 DEF Ends, Untouched
  <2>4. hand # None => Untouched(hand)'
    BY <1>1 DEF Ends, Untouched
  <2> QED BY <1>1, <1>2, <1>5, <2>1, <2>2, <2>3, <2>4 DEF Ends
<1> QED BY <1>4, <1>7, <1>8, <1>9, <1>10

-----------------------------------------------------------------------------
LEMMA ServerStep == ServerInv /\ [ServerNext]_serverVars => ServerInv'
<1> SUFFICES ASSUME ServerInv, [ServerNext]_serverVars PROVE ServerInv'
  OBVIOUS
<1>1. ASSUME NEW x \in Conns, NEW n \in Descriptors, Accept(x, n) PROVE ServerInv'
  BY <1>1, AcceptStep
<1>2. ASSUME UNCHANGED <<hand, files, sock, tasks, pc, conn, rest, blocks, obj, sent, due, failed>>,
             main' # "add" \/ main' = main
      PROVE  ServerInv'
  BY <1>2 DEF ServerInv, ServerTypes, Placed, OneHandler, Held, Stages, Stage, Ends, Untouched,
              Settled, FileOpen, Responding, files
<1>3. ASSUME NEW x \in Conns, PeerSends(x) \/ PeerGoes(x) PROVE ServerInv'
  BY <1>2, <1>3 DEF PeerSends, PeerGoes, history, pool
<1>4. CASE AcceptFails \/ Post
  BY <1>2, <1>4 DEF AcceptFails, Exits, Post, history, pool
<1>5. CASE Link
  BY <1>5, LinkStep
<1>6. ASSUME NEW w \in Workers, Take(w) \/ handle(w) \/ ReadRecovers(w) PROVE ServerInv'
  BY <1>6, TakeStep, HandleStep, CloseStep
<1>7. CASE UNCHANGED serverVars
  BY <1>2, <1>7 DEF serverVars, history, pool
<1> QED BY <1>1, <1>3, <1>4, <1>5, <1>6, <1>7 DEF ServerNext, add_task

LEMMA ServerStarts == ServerInit => ServerInv
<1> SUFFICES ASSUME ServerInit PROVE ServerInv
  OBVIOUS
<1>1. ServerTypes
  BY DEF ServerInit, ServerTypes, ServerPCs, Objects
<1>2. tasks = <<>> /\ Len(tasks) = 0 /\ 1..Len(tasks) = {}
  BY DEF ServerInit
<1>3. Placed
  BY <1>2 DEF ServerInit, Placed, OneHandler
<1>4. Held /\ Stages
  BY DEF ServerInit, Held, FileOpen, Stages
<1>5. Ends
  BY <1>2 DEF ServerInit, Ends, Untouched, Settled, Objects
<1> QED BY <1>1, <1>3, <1>4, <1>5 DEF ServerInv

LEMMA ServerInvariant == ServerSpec => []ServerInv
BY ServerStarts, ServerStep, PTL DEF ServerSpec

\* Nobody uses the descriptor of another: a socket and a file are closed once, by
\* the worker that has them, whose number main or another is given next; and a
\* connection is main's alone until its task is linked (main and handle of httpsrv).
THEOREM OwnDescriptors == ServerSpec => []OwnDescriptor
<1>1. ServerInv => OwnDescriptor
  <2> SUFFICES ASSUME ServerInv PROVE OwnDescriptor
    OBVIOUS
  <2>1. ASSUME NEW w \in Workers, pc[w] # "idle"
        PROVE  opened[number[conn[w]]] = <<conn[w], "socket">>
    <3>1. conn[w] \in Conns /\ sock[conn[w]] = "open"
      BY <2>1 DEF ServerInv, ServerTypes, Placed, OneHandler
    <3> QED BY <3>1 DEF ServerInv, Held
  <2>2. ASSUME main = "add"
        PROVE  /\ opened[number[hand]] = <<hand, "socket">> /\ obj[hand]["task"] = "live"
               /\ \A w \in Workers : conn[w] # hand
    <3>1. hand # None /\ hand \in Conns /\ sock[hand] = "open"
      BY <2>2 DEF ServerInv, ServerTypes, Placed
    <3> QED BY <3>1 DEF ServerInv, Held, Ends, Placed, OneHandler
  <2> QED BY <2>1, <2>2 DEF OwnDescriptor, ServerInv, Held
<1> QED BY <1>1, ServerInvariant, PTL

\* Whichever way handle ends, nothing that was made for the connection is left but the
\* client struct, and nothing is used after its release (end of handle and make_request).
THEOREM AllReleased == ServerSpec => []ReleasedAll
<1>1. ServerInv => ReleasedAll
  <2> SUFFICES ASSUME ServerInv PROVE ReleasedAll
    OBVIOUS
  <2>1. \A x \in Conns : sock[x] = "closed" => \A o \in Objects : obj[x][o] # "live"
    BY DEF ServerInv, Ends
  <2>2. ASSUME NEW w \in Workers, pc[w] # "idle" PROVE Stage(w)
    BY <2>2 DEF ServerInv, Placed, Stages
  <2> QED BY <2>1, <2>2 DEF ReleasedAll, Stage, FileOpen, Responding
<1> QED BY <1>1, ServerInvariant, PTL

\* What is closed without a fault has got its response, in however many pieces
\* send took it (the loops of send_res and send_local_file).
THEOREM WholeAnswers == ServerSpec => []AnsweredWhole
<1>1. ServerInv => AnsweredWhole
  BY DEF ServerInv, Ends, Settled, AnsweredWhole
<1> QED BY <1>1, ServerInvariant, PTL

-----------------------------------------------------------------------------
(* The URL parser.                                                            *)

\* Where a thread is after it has found _inited set or has set it.
Ready == {"exec", "execDone", "dup", "strtok", "piece", "free", "exec2", "exec2Done", "return"}
Compiled(r) == reg[r] = "compiled"

UrlTypes ==
    /\ at \in [Threads -> PCs] /\ reg \in [Regs -> {"none", "building", "compiled"}]
    /\ inside \in [Threads -> {Outside} \cup (Regs \X {"regcomp", "regexec"})]

\* What a thread is inside of, by where it is.
Inside(t) ==
    \A r \in Regs : /\ inside[t] = <<r, "regcomp">> => at[t] \in {"urlDone", "authDone"}
                    /\ inside[t] = <<r, "regexec">> => at[t] \in {"execDone", "exec2Done"}

\* As long as threads have not met at the compilation, one of them at most is
\* there, none once _inited is set, and none is past it before.
Prepared(t) ==
    /\ at[t] \in {"auth", "authDone"} => Compiled("url")
    /\ at[t] = "set" => Compiled("url") /\ Compiled("auth")
    /\ at[t] \in Ready => inited
    /\ at[t] \in Compiling => ~inited /\ \A u \in Threads : at[u] \in Compiling => u = t

UrlInv ==
    /\ UrlTypes
    /\ \A t \in Threads : Inside(t)
    /\ raced \/ ((inited => \A r \in Regs : Compiled(r)) /\ \A t \in Threads : Prepared(t))

LEMMA UrlStarts == UrlInit => UrlInv
BY DEF UrlInit, UrlInv, UrlTypes, PCs, Inside, Prepared, Ready, Compiling, Regs, Outside

\* A step away from the compilation, of which the shared state knows nothing.
LEMMA UrlThread ==
    ASSUME UrlInv, NEW t \in Threads, NEW to \in PCs,
           NEW x \in {Outside} \cup (Regs \X {"regcomp", "regexec"}),
           at' = [at EXCEPT ![t] = to], inside' = [inside EXCEPT ![t] = x],
           UNCHANGED <<inited, reg>>, raced' = raced,
           at[t] \notin Compiling, to \notin Compiling, to \in Ready => at[t] \in Ready \/ inited,
           \A r \in Regs : /\ x # <<r, "regcomp">>
                           /\ x = <<r, "regexec">> => to \in {"execDone", "exec2Done"}
    PROVE  UrlInv'
<1> USE DEF UrlInv
<1>1. UrlTypes' /\ at'[t] = to /\ inside'[t] = x
  BY DEF UrlTypes
<1>2. \A u \in Threads \ {t} : at'[u] = at[u] /\ inside'[u] = inside[u]
  BY DEF UrlTypes
<1>3. \A u \in Threads : Inside(u)'
  BY <1>1, <1>2 DEF Inside
<1>4. ASSUME ~raced, NEW u \in Threads
      PROVE  Prepared(u)'
  <2>1. \A v \in Threads : at'[v] \in Compiling => at'[v] = at[v] /\ v # t
    BY <1>1, <1>2
  <2>2. CASE u = t
    BY <1>1, <1>4, <2>2 DEF Prepared, Compiling, Ready
  <2>3. CASE u # t
    BY <1>2, <1>4, <2>1, <2>3 DEF Prepared, Compiled
  <2> QED BY <2>2, <2>3
<1> QED BY <1>1, <1>3, <1>4 DEF Compiled

\* The step of a thread at the compilation, which leaves the others where they are.
LEMMA UrlCompiles ==
    ASSUME UrlInv, NEW t \in Threads,
           (\E r \in Regs : CompBegin(t, r) \/ CompEnd(t, r)) \/ SetInited(t)
    PROVE  UrlInv'
<1> USE DEF UrlInv
<1>1. PICK to \in PCs : at' = [at EXCEPT ![t] = to]
  BY DEF CompBegin, CompEnd, SetInited, UrlGoto, Done, Regs, PCs
<1>2. at[t] \in Compiling /\ raced' = raced /\ (to \in Compiling \/ SetInited(t))
  BY <1>1 DEF CompBegin, CompEnd, SetInited, UrlGoto, Done, Regs, Compiling, UrlTypes
<1>3. /\ UrlTypes'
      /\ at'[t] = to
      /\ \A u \in Threads \ {t} : at'[u] = at[u] /\ inside'[u] = inside[u]
  BY <1>1 DEF CompBegin, CompEnd, SetInited, Begin, End, UrlTypes, Outside
<1>4. \A u \in Threads : Inside(u)'
  <2>1. Inside(t)'
    BY <1>3 DEF CompBegin, CompEnd, SetInited, Begin, End, UrlGoto, UrlTypes, Outside, Done,
                Regs, Inside
  <2> QED BY <1>3, <2>1 DEF Inside
<1>5. ASSUME ~raced
      PROVE  (inited' => \A r \in Regs : Compiled(r)') /\ \A u \in Threads : Prepared(u)'
  <2>1. \A u \in Threads \ {t} : at[u] \notin Compiling /\ at[u] \notin Ready
    BY <1>2, <1>5 DEF Prepared
  <2>2. \A u \in Threads \ {t}, r \in Regs : inside[u] # <<r, "regcomp">>
    BY <2>1 DEF Inside, Compiling
  <2>3. \A u \in Threads \ {t} : Prepared(u)'
    BY <1>3, <2>1 DEF Prepared, Compiling
  <2>4. ~inited /\ Prepared(t)
    BY <1>2, <1>5 DEF Prepared
  <2>5. \A u \in Threads : at'[u] \in Compiling => u = t
    BY <1>3, <2>1
  <2>6. ASSUME NEW r \in Regs, CompBegin(t, r)
        PROVE  (inited' => \A q \in Regs : Compiled(q)') /\ Prepared(t)'
    <3>1. at[t] = r /\ to = Done[r] /\ inited' = inited /\ reg' = [reg EXCEPT ![r] = "building"]
      BY <1>1, <2>6 DEF CompBegin, UrlGoto, UrlTypes
    <3> QED BY <1>3, <2>4, <2>5, <3>1 DEF Prepared, Compiled, Ready, Compiling, Done, Regs, UrlTypes
  <2>7. ASSUME NEW r \in Regs, CompEnd(t, r)
        PROVE  (inited' => \A q \in Regs : Compiled(q)') /\ Prepared(t)'
    <3>1. /\ at[t] = Done[r] /\ to = (IF r = "url" THEN "auth" ELSE "set") /\ inited' = inited
          /\ reg' = [reg EXCEPT ![r] = "compiled"]
      BY <1>1, <2>2, <2>7 DEF CompEnd, UrlGoto, UrlTypes
    <3> QED BY <1>3, <2>4, <2>5, <3>1 DEF Prepared, Compiled, Ready, Compiling, Done, Regs, UrlTypes
  <2>8. ASSUME SetInited(t)
        PROVE  (inited' => \A q \in Regs : Compiled(q)') /\ Prepared(t)'
    <3>1. at[t] = "set" /\ to = "exec" /\ inited' = TRUE /\ reg' = reg
      BY <1>1, <2>8 DEF SetInited, UrlGoto, UrlTypes
    <3>2. \A q \in Regs : Compiled(q)'
      BY <2>4, <3>1 DEF Prepared, Compiled, Regs
    <3>3. at'[t] = "exec" /\ (inited' <=> TRUE)
      BY <1>3, <3>1
    <3> QED BY <3>2, <3>3 DEF Prepared, Compiling
  <2> QED BY <2>3, <2>6, <2>7, <2>8
<1> QED BY <1>2, <1>3, <1>4, <1>5

\* The test of _inited: with nobody at the compilation, or raced from now on.
LEMMA UrlTests ==
    ASSUME UrlInv, NEW t \in Threads, TestInited(t)
    PROVE  UrlInv'
<1> USE DEF UrlInv
<1> DEFINE to == IF inited THEN "exec" ELSE "url"
<1>1. /\ at[t] = "test" /\ at' = [at EXCEPT ![t] = to] /\ UNCHANGED <<inited, reg, inside>>
      /\ raced' = (raced \/ (~inited /\ \E u \in Threads : at[u] \in Compiling))
  BY DEF TestInited, UrlGoto, shared
<1>2. UrlTypes' /\ at'[t] = to /\ \A u \in Threads \ {t} : at'[u] = at[u]
  BY <1>1 DEF UrlTypes, PCs
<1>3. \A u \in Threads : Inside(u)'
  BY <1>1, <1>2 DEF Inside
<1>4. ASSUME ~raced'
      PROVE  (inited' => \A r \in Regs : Compiled(r)') /\ \A u \in Threads : Prepared(u)'
  <2>1. ~raced /\ (inited \/ \A u \in Threads : at[u] \notin Compiling)
    BY <1>1, <1>4
  <2>2. \A u \in Threads : at[u] \notin Compiling
    BY <2>1 DEF Prepared
  <2>3. Prepared(t)'
    BY <1>1, <1>2, <2>2 DEF Prepared, Compiling, Ready
  <2>4. \A u \in Threads \ {t} : Prepared(u)'
    BY <1>1, <1>2, <2>1, <2>2 DEF Prepared, Compiled
  <2> QED BY <1>1, <2>1, <2>3, <2>4 DEF Compiled
<1> QED BY <1>2, <1>3, <1>4

LEMMA UrlStep == UrlInv /\ [UrlNext]_urlVars => UrlInv'
<1>1. SUFFICES ASSUME UrlInv, [UrlNext]_urlVars
               PROVE  UrlInv'
  OBVIOUS
<1> DEFINE Moves(t, from, to, x) == /\ at[t] = from /\ at' = [at EXCEPT ![t] = to]
                                    /\ inside' = [inside EXCEPT ![t] = x]
<1>2. ASSUME NEW t \in Threads, ExecBegin(t) \/ ExecEnd(t) \/ ExecFails(t)
      PROVE  UrlInv'
  <2>1. UNCHANGED <<inited, reg>> /\ raced' = raced
    BY <1>2 DEF ExecBegin, ExecEnd, ExecFails
  <2>2. \/ Moves(t, "exec", "execDone", <<"url", "regexec">>)
        \/ Moves(t, "exec2", "exec2Done", <<"auth", "regexec">>)
        \/ Moves(t, "execDone", "dup", Outside) \/ Moves(t, "exec2Done", "return", Outside)
        \/ Moves(t, "execDone", "out", Outside)
    BY <1>2 DEF ExecBegin, ExecEnd, ExecFails, UrlGoto, Begin, End
  <2>3. PICK from \in Ready, to \in (PCs \cap Ready) \cup {"out"},
             x \in {<<"url", "regexec">>, <<"auth", "regexec">>, Outside} :
           Moves(t, from, to, x) /\ (to \in {"execDone", "exec2Done"} \/ x = Outside)
    <3>1. {"exec", "exec2", "execDone", "exec2Done", "dup", "return"} \subseteq PCs \cap Ready
      BY DEF PCs, Ready
    <3> QED BY <2>2, <3>1
  <2>4. \A y \in Ready \cup {"out"} : y \notin Compiling
    BY DEF Ready, Compiling
  <2>5. x \in {Outside} \cup (Regs \X {"regcomp", "regexec"}) /\ "out" \in PCs
    BY <2>3 DEF Regs, PCs
  <2>6. \A r \in Regs : /\ x # <<r, "regcomp">>
                        /\ x = <<r, "regexec">> => to \in {"execDone", "exec2Done"}
    <3>1. \A r \in Regs : Outside # <<r, "regcomp">> /\ Outside # <<r, "regexec">>
      BY DEF Outside
    <3>2. \A q, r \in Regs : <<q, "regexec">> # <<r, "regcomp">>
      OBVIOUS
    <3> QED BY <2>3, <3>1, <3>2 DEF Regs
  <2>7. /\ at[t] = from /\ at' = [at EXCEPT ![t] = to] /\ inside' = [inside EXCEPT ![t] = x]
        /\ at[t] \in Ready /\ at[t] \notin Compiling /\ to \notin Compiling /\ to \in PCs
    BY <2>3, <2>4, <2>5
  <2> HIDE DEF Moves
  <2> QED BY <1>1, <2>1, <2>5, <2>6, <2>7, UrlThread
<1>3. ASSUME NEW t \in Threads,
             \/ FirstStrtok(t) \/ Piece(t) \/ NextStrtok(t) \/ NextStrtokFreed(t) \/ Free(t)
             \/ Return(t) \/ \E q \in Queries : Enter(t, q)
      PROVE  UrlInv'
  <2>1. UNCHANGED <<inited, reg, inside>> /\ raced' = raced
    BY <1>3 DEF FirstStrtok, Piece, NextStrtok, NextStrtokFreed, Free, Return, Enter, shared
  <2>2. inside' = [inside EXCEPT ![t] = inside[t]]
    BY <1>1, <2>1 DEF UrlInv, UrlTypes
  <2>3. PICK from \in {"dup", "piece", "strtok", "return", "out"},
             to \in {"piece", "strtok", "exec2", "out", "test"} :
           at[t] = from /\ at' = [at EXCEPT ![t] = to] /\ (to \in Ready => from \in Ready)
    <3> HIDE DEF Moves
    <3> DEFINE Goes(from, to) == at[t] = from /\ at' = [at EXCEPT ![t] = to]
    <3>1. \/ Goes("dup", "piece") \/ Goes("piece", "strtok") \/ Goes("strtok", "piece")
          \/ Goes("piece", "exec2") \/ Goes("return", "out") \/ Goes("out", "test")
      BY <1>3 DEF FirstStrtok, Piece, NextStrtok, NextStrtokFreed, Free, Return, Enter, UrlGoto
    <3>2. {"dup", "piece", "strtok"} \subseteq Ready /\ {"out", "test"} \cap Ready = {}
      BY DEF Ready
    <3> QED BY <3>1, <3>2
  <2>4. /\ to \in PCs /\ at[t] \notin Compiling /\ to \notin Compiling
        /\ at[t] \notin {"urlDone", "authDone", "execDone", "exec2Done"}
    BY <2>3 DEF PCs, Compiling
  <2>5. inside[t] \in {Outside} \cup (Regs \X {"regcomp", "regexec"}) /\ Inside(t)
    BY <1>1 DEF UrlInv, UrlTypes
  <2>6. \A r \in Regs : /\ inside[t] # <<r, "regcomp">>
                        /\ inside[t] = <<r, "regexec">> => to \in {"execDone", "exec2Done"}
    BY <2>4, <2>5 DEF Inside
  <2>7. UrlInv /\ at' = [at EXCEPT ![t] = to] /\ (to \in Ready => at[t] \in Ready \/ inited)
    BY <1>1, <2>3
  <2> QED BY <2>1, <2>2, <2>4, <2>5, <2>6, <2>7, UrlThread
<1>4. CASE UNCHANGED urlVars
  BY <1>1, <1>4 DEF urlVars, shared, UrlInv, UrlTypes, Inside, Prepared, Compiled
<1> QED BY <1>1, <1>2, <1>3, <1>4, UrlCompiles, UrlTests DEF UrlNext, simple_url_parse

\* As long as no two threads have been at the compilation together, every thread,
\* of any number, executes compiled expressions: one compiles both, sets _inited
\* last, and nobody compiles again.  (Threads that meet there compile over one
\* another, and over the execution of the first to be done.)
THEOREM CompiledFirst == UrlSpec => []CompiledBeforeUse
<1>1. UrlInv => CompiledBeforeUse
  BY DEF UrlInv, CompiledBeforeUse, Inside, Prepared, Compiled, Ready
<1> QED BY UrlStarts, UrlStep, <1>1, PTL DEF UrlSpec

-----------------------------------------------------------------------------
(* Induction, from the well-foundedness of strict inclusion between finite    *)
(* sets.                                                                     *)

\* A set of natural numbers has a least element: of the intervals up to its elements
\* one includes no other.
LEMMA LeastElement ==
    ASSUME NEW T, T \subseteq Nat, T # {}
    PROVE  \E x \in T : \A y \in T : x <= y
<1> DEFINE Intervals == {1..n : n \in T}
<1>1. IsWellFoundedOn(StrictSubsetOrdering(Nat), FiniteSubsetsOf(Nat))
  BY FS_StrictSubsetOrderingWellFounded
<1>2. Intervals \subseteq FiniteSubsetsOf(Nat) /\ Intervals # {}
  <2>1. \A n \in Nat : 1..n \in SUBSET Nat /\ IsFiniteSet(1..n)
    BY FS_Interval
  <2>2. QED
    BY <2>1 DEF FiniteSubsetsOf
<1>3. PICK X \in Intervals :
         \A Y \in Intervals : ~ (<<Y, X>> \in StrictSubsetOrdering(Nat))
  <2> HIDE DEF Intervals
  <2> QED BY <1>1, <1>2, WFMin
<1>4. PICK x \in T : X = 1..x
  OBVIOUS
<1>5. ASSUME NEW y \in T, y < x
      PROVE  FALSE
  <2>1. 1..y \in Intervals
    OBVIOUS
  <2>2. 1..y \subseteq 1..x /\ x \in 1..x /\ x \notin 1..y
    BY <1>5
  <2>3. <<1..y, 1..x>> \in StrictSubsetOrdering(Nat)
    BY <2>2 DEF StrictSubsetOrdering
  <2>4. QED
    BY <1>3, <1>4, <2>1, <2>3
<1>6. QED
  BY <1>5

\* A set that holds 0 and with every number its successor holds them all.
LEMMA Induction ==
    ASSUME NEW T, 0 \in T, \A n \in Nat : n \in T => n + 1 \in T
    PROVE  Nat \subseteq T
<1>1. SUFFICES ASSUME Nat \ T # {}
               PROVE  FALSE
  OBVIOUS
<1>2. PICK x \in Nat \ T : \A y \in Nat \ T : x <= y
  BY <1>1, LeastElement
<1>3. x # 0
  OBVIOUS
<1>4. x - 1 \in Nat /\ x - 1 \in T
  BY <1>2, <1>3
<1>5. QED
  BY <1>4

\* The same up to a bound.
LEMMA InductionUpTo ==
    ASSUME NEW n \in Nat, NEW T, 0 \in T, \A k \in 1..n : k - 1 \in T => k \in T
    PROVE  0..n \subseteq T
<1> DEFINE U == {k \in Nat : k <= n => k \in T}
<1>1. ASSUME NEW k \in Nat, k \in U
      PROVE  k + 1 \in U
  <2> SUFFICES ASSUME k \in T, k + 1 <= n
               PROVE  k + 1 \in T
    BY <1>1
  <2> QED BY k + 1 \in 1..n, (k + 1) - 1 = k
<1>2. Nat \subseteq U
  <2> HIDE DEF U
  <2>1. 0 \in U
    BY DEF U
  <2>2. QED
    BY <1>1, <2>1, Induction
<1>3. QED
  BY <1>2

\* What a recursive function over 0..N computes: F[k] is its step to k.
Iterates(f, V, first, F, N) ==
    /\ f \in [0..N -> V] /\ f[0] = first
    /\ \A k \in 1..N : f[k] = F[k][f[k - 1]]

\* It exists.
LEMMA Iteration ==
    ASSUME NEW V, NEW first \in V, NEW N \in Nat, NEW F \in [1..N -> [V -> V]]
    PROVE  \E f : Iterates(f, V, first, F, N)
<1> DEFINE T == {n \in Nat : n <= N => \E f : Iterates(f, V, first, F, n)}
<1>1. 0 \in T
  <2>1. Iterates([k \in 0..0 |-> first], V, first, F, 0)
    BY DEF Iterates
  <2>2. QED
    BY <2>1
<1>2. ASSUME NEW n \in Nat, n \in T
      PROVE  n + 1 \in T
  <2>1. SUFFICES ASSUME n + 1 <= N
                 PROVE  \E f : Iterates(f, V, first, F, n + 1)
    OBVIOUS
  <2>2. PICK f : Iterates(f, V, first, F, n)
    BY <1>2, <2>1
  <2> DEFINE x == F[n + 1][f[n]]
             g == [k \in 0..(n + 1) |-> IF k = n + 1 THEN x ELSE f[k]]
  <2>3. /\ f \in [0..n -> V] /\ f[0] = first
        /\ \A k \in 1..n : f[k] = F[k][f[k - 1]]
    BY <2>2 DEF Iterates
  <2>4. x \in V
    BY <2>1, <2>3
  <2>5. g \in [0..(n + 1) -> V] /\ g[0] = first
    <3> HIDE DEF x
    <3> QED BY <2>3, <2>4
  <2>6. ASSUME NEW k \in 1..(n + 1)
        PROVE  g[k] = F[k][g[k - 1]]
    <3>1. CASE k = n + 1
      BY <3>1
    <3>2. CASE k \in 1..n
      BY <2>3, <3>2
    <3>3. QED
      BY <3>1, <3>2
  <2>7. QED
    BY <2>5, <2>6 DEF Iterates
<1>3. N \in T
  <2> HIDE DEF T
  <2> QED BY <1>1, <1>2, Induction
<1>4. QED
  BY <1>3

\* Two functions that begin alike and take the same steps are the same.
SameSteps(f, g, N) ==
    f[0] = g[0] /\ \A k \in 1..N : f[k - 1] = g[k - 1] => f[k] = g[k]

\* (SameSteps is stated of the steps, so that it can be shown step by step.)
LEMMA SameIteration ==
    ASSUME NEW N \in Nat, NEW f, NEW g, SameSteps(f, g, N)
    PROVE  \A k \in 0..N : f[k] = g[k]
<1> DEFINE T == {k \in 0..N : f[k] = g[k]}
<1>1. 0 \in T /\ \A k \in 1..N : k - 1 \in T => k \in T
  BY DEF SameSteps
<1>2. 0..N \subseteq T
  <2> HIDE DEF T
  <2> QED BY <1>1, InductionUpTo
<1>3. QED
  BY <1>2

-----------------------------------------------------------------------------
(* The elements of a sequence that are in a set.                              *)

\* The function inside OnlyIn exists, so its equation holds.
KeepsIn(f, R, S, s) ==
    /\ f \in [0..Len(s) -> Seq(R)] /\ f[0] = <<>>
    /\ \A k \in 1..Len(s) :
          f[k] = IF s[k] \in S THEN Append(f[k - 1], s[k]) ELSE f[k - 1]

LEMMA OnlyInIterates ==
    ASSUME NEW R, NEW S, NEW s \in Seq(R)
    PROVE  \E f : KeepsIn(f, R, S, s) /\ OnlyIn(s, S) = f[Len(s)]
<1> DEFINE F == [k \in 1..Len(s) |->
                    [h \in Seq(R) |-> IF s[k] \in S THEN Append(h, s[k]) ELSE h]]
           D(g) == [k \in 0..Len(s) |->
                       IF k = 0 THEN <<>>
                       ELSE IF s[k] \in S THEN Append(g[k - 1], s[k]) ELSE g[k - 1]]
           f == CHOOSE g : g = D(g)
<1>1. OnlyIn(s, S) = f[Len(s)]
  BY DEF OnlyIn
<1>2. <<>> \in Seq(R) /\ Len(s) \in Nat
  OBVIOUS
<1>3. F \in [1..Len(s) -> [Seq(R) -> Seq(R)]]
  BY AppendProperties
<1>4. PICK g : Iterates(g, Seq(R), <<>>, F, Len(s))
  <2> HIDE DEF F
  <2> QED BY <1>2, <1>3, Iteration
<1>5. g \in [0..Len(s) -> Seq(R)] /\ g[0] = <<>>
  <2> HIDE DEF F
  <2> QED BY <1>4 DEF Iterates
<1>6. ASSUME NEW k \in 1..Len(s)
      PROVE  g[k] = IF s[k] \in S THEN Append(g[k - 1], s[k]) ELSE g[k - 1]
  <2>1. g[k] = F[k][g[k - 1]] /\ g[k - 1] \in Seq(R)
    <3> HIDE DEF F
    <3>1. k - 1 \in 0..Len(s)
      BY <1>2
    <3>2. QED
      BY <1>4, <3>1 DEF Iterates
  <2>2. F[k] = [h \in Seq(R) |-> IF s[k] \in S THEN Append(h, s[k]) ELSE h]
    OBVIOUS
  <2>3. QED
    BY <2>1, <2>2
<1>7. g = D(g)
  <2>1. ASSUME NEW k \in 0..Len(s)
        PROVE  g[k] = D(g)[k]
    <3>1. CASE k = 0
      BY <1>5, <3>1
    <3>2. CASE k \in 1..Len(s)
      BY <1>6, <3>2
    <3>3. QED
      BY <1>2, <3>1, <3>2
  <2>2. QED
    <3> HIDE DEF F
    <3> QED BY <1>5, <2>1
<1>8. f = D(f)
  <2> HIDE DEF D
  <2> QED BY <1>7
<1>9. ASSUME NEW k \in 1..Len(s)
      PROVE  f[k] = IF s[k] \in S THEN Append(f[k - 1], s[k]) ELSE f[k - 1]
  <2> HIDE DEF f
  <2>1. k \in 0..Len(s) /\ k # 0
    BY <1>2
  <2>2. f[k] = D(f)[k]
    <3> HIDE DEF D
    <3> QED BY <1>8
  <2>3. QED
    BY <2>1, <2>2
<1>10. f[0] = <<>>
  <2> HIDE DEF f
  <2> QED BY <1>2, <1>8
<1>11. f[Len(s)] = g[Len(s)]
  <2> HIDE DEF f, D, F
  <2>1. SameSteps(f, g, Len(s))
    BY <1>5, <1>6, <1>9, <1>10 DEF SameSteps
  <2>2. \A k \in 0..Len(s) : f[k] = g[k]
    BY <1>2, <2>1, SameIteration
  <2>3. QED
    BY <1>2, <2>2
<1>12. QED
  <2> HIDE DEF f, D, F
  <2>1. KeepsIn(g, R, S, s)
    BY <1>5, <1>6 DEF KeepsIn
  <2>2. QED
    BY <1>1, <1>11, <2>1

\* It is a sequence of the same elements.
LEMMA OnlyInType ==
    ASSUME NEW R, NEW S, NEW s \in Seq(R)
    PROVE  OnlyIn(s, S) \in Seq(R)
<1>1. PICK f : KeepsIn(f, R, S, s) /\ OnlyIn(s, S) = f[Len(s)]
  BY OnlyInIterates
<1>2. Len(s) \in 0..Len(s)
  OBVIOUS
<1>3. QED
  BY <1>1, <1>2 DEF KeepsIn

LEMMA OnlyInEmpty ==
    ASSUME NEW S
    PROVE  OnlyIn(<<>>, S) = <<>>
<1>1. <<>> \in Seq({}) /\ Len(<<>>) = 0
  OBVIOUS
<1>2. PICK f : KeepsIn(f, {}, S, <<>>) /\ OnlyIn(<<>>, S) = f[Len(<<>>)]
  BY <1>1, OnlyInIterates
<1>3. QED
  BY <1>1, <1>2 DEF KeepsIn

\* One element more.
LEMMA OnlyInAppend ==
    ASSUME NEW R, NEW S, NEW s \in Seq(R), NEW x \in R
    PROVE  OnlyIn(Append(s, x), S) =
               IF x \in S THEN Append(OnlyIn(s, S), x) ELSE OnlyIn(s, S)
<1> DEFINE t == Append(s, x)
           n == Len(s)
<1>1. /\ t \in Seq(R) /\ Len(t) = n + 1 /\ n \in Nat
      /\ \A k \in 1..n : t[k] = s[k]
      /\ t[n + 1] = x
  BY AppendProperties
<1> HIDE DEF t, n
<1>2. PICK f : KeepsIn(f, R, S, s) /\ OnlyIn(s, S) = f[n]
  BY OnlyInIterates DEF n
<1>3. PICK g : KeepsIn(g, R, S, t) /\ OnlyIn(t, S) = g[n + 1]
  BY <1>1, OnlyInIterates
<1>4. /\ f[0] = <<>>
      /\ \A k \in 1..n : f[k] = IF s[k] \in S THEN Append(f[k - 1], s[k]) ELSE f[k - 1]
  BY <1>2 DEF KeepsIn, n
<1>5. /\ g[0] = <<>>
      /\ \A k \in 1..(n + 1) :
            g[k] = IF t[k] \in S THEN Append(g[k - 1], t[k]) ELSE g[k - 1]
  BY <1>1, <1>3 DEF KeepsIn
<1>6. SameSteps(f, g, n)
  <2>1. \A k \in 1..n : k \in 1..(n + 1)
    BY <1>1
  <2>2. QED
    BY <1>1, <1>4, <1>5, <2>1 DEF SameSteps
<1>7. f[n] = g[n]
  BY <1>1, <1>6, SameIteration, n \in 0..n
<1>8. g[n + 1] = IF t[n + 1] \in S THEN Append(g[n], t[n + 1]) ELSE g[n]
  <2>1. n + 1 \in 1..(n + 1) /\ (n + 1) - 1 = n
    BY <1>1
  <2>2. QED
    BY <1>5, <2>1
<1>9. QED
  BY <1>1, <1>2, <1>3, <1>7, <1>8 DEF t

\* Nothing is kept of elements that are not in the set, wherever they stand.
LEMMA OnlyInSkips ==
    ASSUME NEW R, NEW S, NEW s \in Seq(R), NEW u \in Seq(R),
           \A k \in 1..Len(u) : u[k] \notin S
    PROVE  OnlyIn(s \o u, S) = OnlyIn(s, S)
<1> DEFINE T == {k \in 0..Len(u) : OnlyIn(s \o SubSeq(u, 1, k), S) = OnlyIn(s, S)}
<1>1. Len(u) \in Nat
  OBVIOUS
<1>2. 0 \in T
  <2>1. SubSeq(u, 1, 0) = <<>> /\ s \o <<>> = s
    BY SubSeqEmpty, ConcatEmptySeq
  <2>2. 0 \in 0..Len(u)
    BY <1>1
  <2>3. QED
    BY <2>1, <2>2
<1>3. ASSUME NEW k \in 1..Len(u), k - 1 \in T
      PROVE  k \in T
  <2> DEFINE v == SubSeq(u, 1, k - 1)
  <2>1. v \in Seq(R) /\ u[k] \in R /\ k \in 0..Len(u)
    OBVIOUS
  <2>2. SubSeq(u, 1, k) = v \o <<u[k]>>
    BY SubSeqRecursiveSecond
  <2>3. s \o SubSeq(u, 1, k) = Append(s \o v, u[k])
    <3> HIDE DEF v
    <3>1. s \o (v \o <<u[k]>>) = (s \o v) \o <<u[k]>>
      BY <2>1, ConcatAssociative
    <3>2. QED
      BY <2>1, <2>2, <3>1, AppendIsConcat, ConcatProperties
  <2>4. OnlyIn(s \o SubSeq(u, 1, k), S) = OnlyIn(s \o v, S)
    <3> HIDE DEF v
    <3>1. s \o v \in Seq(R) /\ u[k] \notin S
      BY <2>1, ConcatProperties
    <3> DEFINE w == s \o v
    <3>2. w \in Seq(R)
      BY <3>1
    <3> HIDE DEF w
    <3>3. OnlyIn(Append(w, u[k]), S) = OnlyIn(w, S)
      BY <2>1, <3>1, <3>2, OnlyInAppend
    <3>4. QED
      BY <2>3, <3>3 DEF w
  <2>5. QED
    BY <1>3, <2>1, <2>4
<1>4. Len(u) \in T
  <2> HIDE DEF T
  <2>1. 0..Len(u) \subseteq T
    BY <1>1, <1>2, <1>3, InductionUpTo
  <2>2. QED
    BY <1>1, <2>1
<1>5. QED
  BY <1>4, SubSeqFull

\* Joining three sequences, which are named together so that the provers try no others.
Three(R, x, y, z) == x \in Seq(R) /\ y \in Seq(R) /\ z \in Seq(R)

LEMMA Joined ==
    ASSUME NEW R, NEW x, NEW y, NEW z, Three(R, x, y, z)
    PROVE  (x \o y) \o z = x \o (y \o z)
BY ConcatAssociative DEF Three

-----------------------------------------------------------------------------
(* Reverse.                                                                   *)

\* Reverse turns the indices round.
LEMMA ReverseType ==
    ASSUME NEW R, NEW s \in Seq(R)
    PROVE  /\ Reverse(s) \in Seq(R) /\ Len(Reverse(s)) = Len(s)
           /\ \A k \in 1..Len(s) : Reverse(s)[k] = s[(Len(s) - k) + 1]
BY DEF Reverse

\* The last element comes first.
LEMMA ReverseAppend ==
    ASSUME NEW R, NEW s \in Seq(R), NEW x \in R
    PROVE  Reverse(Append(s, x)) = <<x>> \o Reverse(s)
<1> DEFINE t == Append(s, x)
<1>1. /\ t \in Seq(R) /\ Len(t) = Len(s) + 1 /\ t[Len(s) + 1] = x
      /\ \A k \in 1..Len(s) : t[k] = s[k]
  BY AppendProperties
<1> HIDE DEF t
<1>2. <<x>> \in Seq(R) /\ Len(<<x>>) = 1 /\ <<x>>[1] = x
  OBVIOUS
<1>3. /\ Reverse(t) \in Seq(R) /\ Len(Reverse(t)) = Len(s) + 1
      /\ \A k \in 1..(Len(s) + 1) : Reverse(t)[k] = t[((Len(s) + 1) - k) + 1]
  BY <1>1, ReverseType
<1>4. /\ Reverse(s) \in Seq(R) /\ Len(Reverse(s)) = Len(s)
      /\ \A k \in 1..Len(s) : Reverse(s)[k] = s[(Len(s) - k) + 1]
  BY ReverseType
<1>5. /\ <<x>> \o Reverse(s) \in Seq(R) /\ Len(<<x>> \o Reverse(s)) = Len(s) + 1
      /\ \A k \in 1..(Len(s) + 1) :
            (<<x>> \o Reverse(s))[k] = IF k <= 1 THEN x ELSE Reverse(s)[k - 1]
  <2> HIDE DEF t
  <2>1. 1 + Len(s) = Len(s) + 1
    OBVIOUS
  <2>2. \A k \in 1..(1 + Len(s)) : k <= 1 => k = 1
    OBVIOUS
  <2>3. QED
    BY <1>2, <1>4, <2>1, <2>2, ConcatProperties
<1>6. ASSUME NEW k \in 1..(Len(s) + 1)
      PROVE  Reverse(t)[k] = (<<x>> \o Reverse(s))[k]
  <2>1. CASE k = 1
    BY <1>1, <1>3, <1>5, <2>1
  <2>2. CASE k > 1
    <3>1. k - 1 \in 1..Len(s) /\ ((Len(s) + 1) - k) + 1 \in 1..Len(s)
      BY <2>2
    <3>2. (Len(s) - (k - 1)) + 1 = ((Len(s) + 1) - k) + 1
      OBVIOUS
    <3>3. Reverse(t)[k] = s[((Len(s) + 1) - k) + 1]
      BY <1>1, <1>3, <3>1
    <3>4. (<<x>> \o Reverse(s))[k] = Reverse(s)[k - 1]
      BY <1>5, <2>2
    <3>5. Reverse(s)[k - 1] = s[(Len(s) - (k - 1)) + 1]
      BY <1>4, <3>1
    <3>6. QED
      BY <3>2, <3>3, <3>4, <3>5
  <2>3. Len(s) \in Nat
    OBVIOUS
  <2>4. k = 1 \/ k > 1
    BY <2>3
  <2>5. QED
    BY <2>1, <2>2, <2>4
<1>7. Reverse(t) = <<x>> \o Reverse(s)
  BY <1>3, <1>5, <1>6, SeqEqual
<1>8. QED
  BY <1>7 DEF t

-----------------------------------------------------------------------------
(* The pairs of a query.                                                      *)

\* Between the first strtok and the last.
Busy == {"piece", "strtok"}
Before == {"test", "url", "urlDone", "auth", "authDone", "set", "exec", "execDone", "dup"}
After == {"exec2", "exec2Done", "return"}

\* What thread t has made of its query so far: d is what strtok has gone past, text
\* what it has not.
Kept(t, d, text) == query[t] = d \o text /\ pairs[t] = Reverse(OnlyIn(d, Pairs))

Half(t) ==
    /\ at[t] \in Before => pairs[t] = <<>>
    /\ at[t] \in Busy => saved = t /\ heap[t] /\ \A u \in Threads : at[u] \in Busy => u = t
    /\ at[t] = "strtok" => \E d \in Seq(Pieces) : Kept(t, d, str[t])
    /\ at[t] = "piece" /\ p[t] # NULL =>
          p[t] \in Pieces /\ \E d \in Seq(Pieces) : Kept(t, d, <<p[t]>> \o str[t])
    /\ at[t] = "piece" /\ p[t] = NULL => Own(t)
    /\ at[t] \in After => Own(t)

QueryTypes ==
    /\ at \in [Threads -> PCs] /\ query \in [Threads -> Seq(Pieces)]
    /\ str \in [Threads -> Seq(Pieces)] /\ heap \in [Threads -> BOOLEAN]
    /\ DOMAIN p = Threads /\ DOMAIN pairs = Threads
    /\ \A t \in Threads : at[t] \in Busy => saved \in Threads

QueryInv == QueryTypes /\ (overlap \/ \A t \in Threads : Half(t))

LEMMA QueryStarts == UrlInit => QueryInv
BY DEF UrlInit, QueryInv, QueryTypes, Half, PCs, Busy, Before, After

\* A sequence behind another one, cut around one of its elements.
LEMMA CutAround ==
    ASSUME NEW R, NEW d \in Seq(R), NEW s \in Seq(R), NEW k \in 1..Len(s)
    PROVE  d \o s = (d \o SubSeq(s, 1, k - 1)) \o (<<s[k]>> \o SubSeq(s, k + 1, Len(s)))
<1> DEFINE x == SubSeq(s, 1, k - 1)
           y == SubSeq(s, k + 1, Len(s))
           z == <<s[k]>>
<1>1. x \in Seq(R) /\ y \in Seq(R) /\ z \in Seq(R)
  OBVIOUS
<1>2. s = SubSeq(s, 1, k) \o y
  <2>1. 1 \in 1..(Len(s) + 1) /\ k \in (1 - 1)..Len(s) /\ Len(s) \in k..Len(s)
    OBVIOUS
  <2>2. QED
    BY <2>1, ConcatAdjacentSubSeq, SubSeqFull
<1>3. SubSeq(s, 1, k) = x \o z
  BY SubSeqRecursiveSecond
<1>4. QED
  <2> DEFINE w == z \o y
  <2> HIDE DEF x, y, z, w
  <2>1. Three(R, x, z, y) /\ Three(R, d, x, w)
    BY <1>1, ConcatProperties DEF Three, w
  <2>2. s = x \o w
    <3>1. (x \o z) \o y = x \o (z \o y)
      BY <2>1, Joined
    <3>2. QED
      BY <1>2, <1>3, <3>1 DEF w
  <2>3. d \o (x \o w) = (d \o x) \o w
    BY <2>1, Joined
  <2>4. d \o s = (d \o x) \o w
    BY <2>2, <2>3
  <2>5. QED
    BY <2>4 DEF x, y, z, w

\* strtok goes past pieces that are empty, which make no pair.
LEMMA StrtokSkips ==
    ASSUME NEW d \in Seq(Pieces), NEW text \in Seq(Pieces), NEW k \in 1..Len(text),
           \A j \in 1..(k - 1) : text[j] = Empty
    PROVE  \E e \in Seq(Pieces) :
              /\ d \o text = e \o (<<text[k]>> \o SubSeq(text, k + 1, Len(text)))
              /\ OnlyIn(e, Pairs) = OnlyIn(d, Pairs)
<1> DEFINE skipped == SubSeq(text, 1, k - 1)
           e == d \o skipped
<1>1. /\ skipped \in Seq(Pieces)
      /\ Len(skipped) = k - 1 /\ \A j \in 1..(k - 1) : skipped[j] = text[j]
  OBVIOUS
<1>2. e \in Seq(Pieces) /\ OnlyIn(e, Pairs) = OnlyIn(d, Pairs)
  <2>1. \A j \in 1..Len(skipped) : skipped[j] \notin Pairs
    BY <1>1, PiecesAssumption
  <2> HIDE DEF skipped
  <2>2. e \in Seq(Pieces)
    BY <1>1, ConcatProperties
  <2>3. OnlyIn(d \o skipped, Pairs) = OnlyIn(d, Pairs)
    BY <1>1, <2>1, OnlyInSkips
  <2> QED
    BY <2>2, <2>3
<1>3. d \o text = e \o (<<text[k]>> \o SubSeq(text, k + 1, Len(text)))
  BY CutAround
<1>4. QED
  BY <1>2, <1>3

\* What strtok leaves of a text is a text, and it returns to one thread only.
LEMMA StrtokTypes ==
    ASSUME QueryTypes, NEW t \in Threads, NEW o \in Threads, NEW text \in Seq(Pieces),
           Strtok(t, o, text)
    PROVE  /\ saved' = o /\ str' \in [Threads -> Seq(Pieces)]
           /\ DOMAIN p' = Threads /\ \A u \in Threads \ {t} : p'[u] = p[u]
<1>1. ASSUME NEW x \in Seq(Pieces), str' = [str EXCEPT ![o] = x]
      PROVE  str' \in [Threads -> Seq(Pieces)]
  BY <1>1 DEF QueryTypes
<1>2. \A k \in 1..Len(text) : SubSeq(text, k + 1, Len(text)) \in Seq(Pieces)
  OBVIOUS
<1>3. <<>> \in Seq(Pieces)
  OBVIOUS
<1>4. saved' = o /\ \E x : p' = [p EXCEPT ![t] = x]
  BY DEF Strtok
<1>5. \E x \in Seq(Pieces) : str' = [str EXCEPT ![o] = x]
  BY <1>2, <1>3 DEF Strtok
<1> QED
  BY <1>1, <1>4, <1>5 DEF QueryTypes

\* What strtok does in the text that is left after d, by thread t in its own copy.
LEMMA StrtokKeeps ==
    ASSUME QueryTypes, NEW t \in Threads, NEW d \in Seq(Pieces), NEW text \in Seq(Pieces),
           Kept(t, d, text), Strtok(t, t, text), UNCHANGED <<query, pairs>>
    PROVE  /\ str' \in [Threads -> Seq(Pieces)] /\ DOMAIN p' = Threads
           /\ p'[t] # NULL =>
                 p'[t] \in Pieces /\ \E e \in Seq(Pieces) : Kept(t, e, <<p[t]>> \o str[t])'
           /\ p'[t] = NULL => Own(t)'
<1> DEFINE Tokens == {k \in 1..Len(text) : text[k] # Empty}
<1>1. CASE Tokens = {} /\ p' = [p EXCEPT ![t] = NULL] /\ str' = [str EXCEPT ![t] = <<>>]
  <2>1. \A k \in 1..Len(text) : text[k] \notin Pairs
    BY <1>1, PiecesAssumption
  <2>2. OnlyIn(d \o text, Pairs) = OnlyIn(d, Pairs)
    BY <2>1, OnlyInSkips
  <2>3. p'[t] = NULL /\ DOMAIN p' = Threads /\ str' \in [Threads -> Seq(Pieces)]
    BY <1>1 DEF QueryTypes
  <2> QED
    BY <2>2, <2>3 DEF Kept, Own
<1>2. ASSUME NEW k \in Tokens, \A j \in Tokens : k <= j,
             p' = [p EXCEPT ![t] = text[k]],
             str' = [str EXCEPT ![t] = SubSeq(text, k + 1, Len(text))]
      PROVE  /\ str' \in [Threads -> Seq(Pieces)] /\ DOMAIN p' = Threads
             /\ p'[t] \in Pieces /\ \E e \in Seq(Pieces) : Kept(t, e, <<p[t]>> \o str[t])'
  <2>1. /\ p'[t] = text[k] /\ DOMAIN p' = Threads
        /\ str'[t] = SubSeq(text, k + 1, Len(text)) /\ str' \in [Threads -> Seq(Pieces)]
    BY <1>2 DEF QueryTypes
  <2>2. \A j \in 1..(k - 1) : text[j] = Empty
    BY <1>2
  <2>3. PICK e \in Seq(Pieces) :
           /\ d \o text = e \o (<<text[k]>> \o SubSeq(text, k + 1, Len(text)))
           /\ OnlyIn(e, Pairs) = OnlyIn(d, Pairs)
    BY <2>2, StrtokSkips
  <2>4. Kept(t, e, <<p[t]>> \o str[t])'
    BY <2>1, <2>3 DEF Kept
  <2> QED
    BY <2>1, <2>4
<1>3. NULL \notin Pieces
  BY PiecesAssumption
<1> QED
  BY <1>1, <1>2, <1>3 DEF Strtok

\* _parse_kv puts the piece in front of the pairs, if it is one.
LEMMA PieceKeeps ==
    ASSUME QueryTypes, NEW t \in Threads, NEW d \in Seq(Pieces),
           p[t] \in Pieces, Kept(t, d, <<p[t]>> \o str[t]),
           pairs' = [pairs EXCEPT ![t] = IF p[t] \in Pairs \cup {Garbage}
                                         THEN <<p[t]>> \o pairs[t] ELSE pairs[t]],
           UNCHANGED <<str, query, p>>
    PROVE  Kept(t, Append(d, p[t]), str[t])'
<1> DEFINE x == p[t]
           left == str[t]
<1>1. left \in Seq(Pieces) /\ x \in Pieces /\ left' = left /\ x' = x
  BY DEF QueryTypes
<1>2. Kept(t, d, <<x>> \o left)
  OBVIOUS
<1>3. pairs'[t] = IF x \in Pairs THEN <<x>> \o pairs[t] ELSE pairs[t]
  BY PiecesAssumption DEF QueryTypes
<1>4. Append(d, x) \o left = query[t]
  <2> HIDE DEF x, left
  <2> DEFINE one == <<x>>
  <2>1. one \in Seq(Pieces) /\ Append(d, x) = d \o one
    BY <1>1, AppendIsConcat
  <2> HIDE DEF one
  <2>2. Three(Pieces, d, one, left)
    BY <1>1, <2>1 DEF Three
  <2>3. (d \o one) \o left = d \o (one \o left)
    BY <2>2, Joined
  <2> QED
    BY <1>2, <2>1, <2>3 DEF Kept, one
<1>5. OnlyIn(Append(d, x), Pairs) =
         IF x \in Pairs THEN Append(OnlyIn(d, Pairs), x) ELSE OnlyIn(d, Pairs)
  <2> HIDE DEF x
  <2> QED BY <1>1, OnlyInAppend
<1>6. Reverse(Append(OnlyIn(d, Pairs), x)) = <<x>> \o Reverse(OnlyIn(d, Pairs))
  <2> HIDE DEF x
  <2> QED BY <1>1, OnlyInType, ReverseAppend
<1> QED
  <2>1. query[t]' = query[t]
    OBVIOUS
  <2> HIDE DEF x, left
  <2>2. query[t] = Append(d, x) \o left /\ pairs'[t] = Reverse(OnlyIn(Append(d, x), Pairs))
    BY <1>2, <1>3, <1>4, <1>5, <1>6 DEF Kept
  <2> QED
    BY <1>1, <2>1, <2>2 DEF Kept, x, left

\* A step of one thread does not disturb what another has made of its query, unless
\* both are in _parse_query.
LEMMA OtherHalf ==
    ASSUME QueryTypes, NEW t \in Threads, NEW u \in Threads \ {t}, Half(u),
           \E x : at' = [at EXCEPT ![t] = x],
           query'[u] = query[u], pairs'[u] = pairs[u], p'[u] = p[u], heap'[u] = heap[u],
           at[u] \in Busy => saved' = saved /\ str' = str /\ at'[t] \notin Busy
    PROVE  Half(u)'
<1>1. at'[u] = at[u] /\ \A x \in Threads \ {t} : at'[x] = at[x]
  BY DEF QueryTypes
<1>2. (at[u] \in Before => pairs[u] = <<>>)' /\ (at[u] \in After => Own(u))'
  BY <1>1 DEF Half, Own
<1>3. CASE at[u] \notin Busy
  BY <1>1, <1>2, <1>3 DEF Half, Busy
<1>4. CASE at[u] \in Busy
  BY <1>1, <1>2, <1>4 DEF Half, Own, Kept
<1> QED
  BY <1>3, <1>4

LEMMA QueryStep == QueryInv /\ [UrlNext]_urlVars => QueryInv'
<1> SUFFICES ASSUME QueryInv, [UrlNext]_urlVars
             PROVE  QueryInv'
  OBVIOUS
<1>0. QueryTypes /\ (overlap \/ \A t \in Threads : Half(t))
  BY DEF QueryInv
<1>1. CASE UNCHANGED urlVars
  BY <1>0, <1>1 DEF urlVars, shared, QueryInv, QueryTypes, Half, Own, Kept
\* The expressions: nothing about the query changes.
<1>2. ASSUME NEW t \in Threads,
             \/ TestInited(t) \/ SetInited(t) \/ ExecBegin(t) \/ ExecEnd(t) \/ ExecFails(t)
             \/ \E r \in Regs : CompBegin(t, r) \/ CompEnd(t, r)
             \/ Return(t)
      PROVE  QueryInv'
  <2>1. PICK to \in PCs :
           /\ at' = [at EXCEPT ![t] = to]
           /\ UNCHANGED <<overlap, saved, str, heap, query, p, pairs>>
           /\ at[t] \notin Busy /\ to \notin Busy
           /\ to \in Before => at[t] \in Before
           /\ to \in After => at[t] \in After
    <3> DEFINE Moves(from, to) == at[t] = from /\ at' = [at EXCEPT ![t] = to]
    <3>1. UNCHANGED <<overlap, saved, str, heap, query, p, pairs>>
      BY <1>2 DEF TestInited, SetInited, ExecBegin, ExecEnd, ExecFails, CompBegin, CompEnd,
                  Return, shared
    <3>2. \/ Moves("test", "exec") \/ Moves("test", "url") \/ Moves("set", "exec")
          \/ Moves("exec", "execDone") \/ Moves("exec2", "exec2Done")
          \/ Moves("execDone", "dup") \/ Moves("exec2Done", "return") \/ Moves("execDone", "out")
          \/ Moves("url", "urlDone") \/ Moves("auth", "authDone")
          \/ Moves("urlDone", "auth") \/ Moves("authDone", "set") \/ Moves("return", "out")
      BY <1>2 DEF TestInited, SetInited, ExecBegin, ExecEnd, ExecFails, CompBegin, CompEnd,
                  Return, UrlGoto, Regs, Done
    <3> QED
      BY <3>1, <3>2 DEF PCs, Busy, Before, After
  <2>2. at'[t] = to /\ QueryTypes'
    BY <1>0, <2>1 DEF QueryTypes
  <2>3. ASSUME ~overlap, NEW u \in Threads
        PROVE  Half(u)'
    <3>1. CASE u = t
      BY <1>0, <2>1, <2>2, <2>3, <3>1 DEF Half, Own, Kept, Busy
    <3>2. CASE u # t
      <4>1. u \in Threads \ {t} /\ Half(u) /\ at'[t] \notin Busy
        BY <1>0, <2>1, <2>2, <2>3, <3>2
      <4>2. UNCHANGED <<query[u], pairs[u], p[u], heap[u], saved, str>>
        BY <2>1
      <4> QED
        BY <1>0, <2>1, <4>1, <4>2, OtherHalf
    <3> QED
      BY <3>1, <3>2
  <2> QED
    BY <2>1, <2>2, <2>3 DEF QueryInv
<1>3. ASSUME NEW t \in Threads, NEW q \in Queries, Enter(t, q)
      PROVE  QueryInv'
  <2>1. /\ at[t] = "out" /\ at' = [at EXCEPT ![t] = "test"]
        /\ query' = [query EXCEPT ![t] = q] /\ pairs' = [pairs EXCEPT ![t] = <<>>]
        /\ UNCHANGED <<overlap, saved, str, heap, p>>
    BY <1>3 DEF Enter, UrlGoto, shared
  <2>2. QueryTypes' /\ at'[t] = "test" /\ pairs'[t] = <<>>
    BY <1>0, <2>1, QueriesAssumption DEF QueryTypes, PCs, Busy
  <2>3. ASSUME ~overlap, NEW u \in Threads
        PROVE  Half(u)'
    <3>1. CASE u = t
      BY <2>2, <3>1 DEF Half, Busy, Before, After
    <3>2. CASE u # t
      <4>1. query'[u] = query[u] /\ pairs'[u] = pairs[u]
        BY <1>0, <2>1, <3>2 DEF QueryTypes
      <4> QED
        BY <1>0, <2>1, <2>2, <2>3, <3>2, <4>1, OtherHalf DEF Busy
    <3> QED
      BY <3>1, <3>2
  <2> QED
    BY <2>1, <2>2, <2>3 DEF QueryInv
<1>4. ASSUME NEW t \in Threads, FirstStrtok(t)
      PROVE  QueryInv'
  <2>1. /\ at[t] = "dup" /\ at' = [at EXCEPT ![t] = "piece"]
        /\ heap' = [heap EXCEPT ![t] = TRUE]
        /\ overlap' = (overlap \/ \E u \in Threads : at[u] \in {"piece", "strtok"})
        /\ Strtok(t, t, query[t]) /\ UNCHANGED <<query, pairs>>
    BY <1>4 DEF FirstStrtok, UrlGoto
  <2>2. saved' = t /\ \A u \in Threads \ {t} : p'[u] = p[u]
    BY <1>0, <2>1 DEF Strtok, QueryTypes
  <2>3. QueryTypes' /\ at'[t] = "piece" /\ heap'[t] = TRUE
    <3>1. str' \in [Threads -> Seq(Pieces)] /\ DOMAIN p' = Threads
      <4>1. query[t] \in Seq(Pieces)
        BY <1>0 DEF QueryTypes
      <4> QED
        BY <1>0, <2>1, <4>1, StrtokTypes
    <3> QED
      BY <1>0, <2>1, <2>2, <3>1 DEF QueryTypes, PCs
  <2>4. ASSUME ~overlap', NEW u \in Threads
        PROVE  Half(u)'
    <3>1. ~overlap /\ \A x \in Threads : at[x] \notin Busy
      BY <2>1, <2>4 DEF Busy
    <3>2. CASE u = t
      <4>1. pairs[t] = <<>> /\ query[t] \in Seq(Pieces)
        BY <1>0, <2>1, <3>1 DEF Half, Before, QueryTypes
      <4>2. Kept(t, <<>>, query[t])
        <5>1. <<>> \o query[t] = query[t]
          BY <4>1, ConcatEmptySeq
        <5>2. Reverse(<<>>) = <<>>
          BY DEF Reverse
        <5> QED
          BY <4>1, <5>1, <5>2, OnlyInEmpty DEF Kept
      <4>3. <<>> \in Seq(Pieces)
        OBVIOUS
      <4>4. /\ p'[t] # NULL =>
                 p'[t] \in Pieces /\ \E e \in Seq(Pieces) : Kept(t, e, <<p[t]>> \o str[t])'
            /\ p'[t] = NULL => Own(t)'
        BY <1>0, <2>1, <4>1, <4>2, <4>3, StrtokKeeps
      <4>5. \A x \in Threads : at'[x] \in Busy => x = t
        BY <1>0, <2>1, <3>1 DEF QueryTypes
      <4> QED
        BY <2>2, <2>3, <3>2, <4>4, <4>5 DEF Half, Before, After
    <3>3. CASE u # t
      <4>1. heap'[u] = heap[u]
        BY <1>0, <2>1, <3>3 DEF QueryTypes
      <4> QED
        BY <1>0, <2>1, <2>2, <3>1, <3>3, <4>1, OtherHalf
    <3> QED
      BY <3>2, <3>3
  <2> QED
    BY <2>3, <2>4 DEF QueryInv
<1>5. ASSUME NEW t \in Threads, Piece(t)
      PROVE  QueryInv'
  <2>1. /\ at[t] = "piece" /\ at' = [at EXCEPT ![t] = "strtok"] /\ p[t] # NULL
        /\ pairs' = [pairs EXCEPT ![t] = IF p[t] \in Pairs \cup {Garbage}
                                         THEN <<p[t]>> \o pairs[t] ELSE pairs[t]]
        /\ UNCHANGED <<overlap, saved, str, heap, query, p>>
    BY <1>5 DEF Piece, UrlGoto, shared
  <2>2. QueryTypes' /\ at'[t] = "strtok"
    BY <1>0, <2>1 DEF QueryTypes, PCs, Busy
  <2>3. ASSUME ~overlap, NEW u \in Threads
        PROVE  Half(u)'
    <3>1. Half(t) /\ saved = t /\ heap[t] /\ \A x \in Threads \ {t} : at[x] \notin Busy
      BY <1>0, <2>1, <2>3 DEF Half, Busy
    <3>2. CASE u = t
      <4>1. PICK d \in Seq(Pieces) : Kept(t, d, <<p[t]>> \o str[t])
        BY <2>1, <3>1 DEF Half
      <4>2. p[t] \in Pieces /\ str[t] \in Seq(Pieces) /\ query[t] \in Seq(Pieces)
        BY <1>0, <2>1, <3>1 DEF Half, QueryTypes
      <4>3. Kept(t, Append(d, p[t]), str[t])'
        BY <1>0, <2>1, <4>1, <4>2, PieceKeeps
      <4>4. Append(d, p[t]) \in Seq(Pieces)
        BY <4>2
      <4> QED
        BY <1>0, <2>1, <2>2, <3>1, <3>2, <4>3, <4>4 DEF Half, QueryTypes, Busy, Before, After
    <3>3. CASE u # t
      <4>1. pairs'[u] = pairs[u]
        BY <1>0, <2>1, <3>3 DEF QueryTypes
      <4> QED
        BY <1>0, <2>1, <2>3, <3>1, <3>3, <4>1, OtherHalf
    <3> QED
      BY <3>2, <3>3
  <2> QED
    BY <2>1, <2>2, <2>3 DEF QueryInv
<1>6. ASSUME NEW t \in Threads, NextStrtok(t)
      PROVE  QueryInv'
  <2>1. /\ at[t] = "strtok" /\ at' = [at EXCEPT ![t] = "piece"]
        /\ Strtok(t, saved, str[saved])
        /\ UNCHANGED <<overlap, heap, query, pairs>>
    BY <1>6 DEF NextStrtok, UrlGoto
  <2>2. saved \in Threads
    BY <1>0, <2>1 DEF QueryTypes, Busy
  <2>3. saved' = saved /\ \A u \in Threads \ {t} : p'[u] = p[u]
    BY <1>0, <2>1 DEF Strtok, QueryTypes
  <2>4. QueryTypes' /\ at'[t] = "piece"
    <3>1. str' \in [Threads -> Seq(Pieces)] /\ DOMAIN p' = Threads
      <4>1. str[saved] \in Seq(Pieces)
        BY <1>0, <2>2 DEF QueryTypes
      <4> QED
        BY <1>0, <2>1, <2>2, <4>1, StrtokTypes
    <3> QED
      BY <1>0, <2>1, <2>2, <2>3, <3>1 DEF QueryTypes, PCs
  <2>5. ASSUME ~overlap, NEW u \in Threads
        PROVE  Half(u)'
    <3>1. Half(t) /\ saved = t /\ heap[t] /\ \A x \in Threads \ {t} : at[x] \notin Busy
      BY <1>0, <2>1, <2>5 DEF Half, Busy
    <3>2. CASE u = t
      <4>1. PICK d \in Seq(Pieces) : Kept(t, d, str[t])
        BY <2>1, <3>1 DEF Half
      <4>2. str[t] \in Seq(Pieces) /\ Strtok(t, t, str[t])
        BY <1>0, <2>1, <3>1 DEF QueryTypes
      <4>3. /\ p'[t] # NULL =>
                 p'[t] \in Pieces /\ \E e \in Seq(Pieces) : Kept(t, e, <<p[t]>> \o str[t])'
            /\ p'[t] = NULL => Own(t)'
        BY <1>0, <2>1, <4>1, <4>2, StrtokKeeps
      <4>4. \A x \in Threads : at'[x] \in Busy => x = t
        BY <1>0, <2>1, <3>1 DEF QueryTypes
      <4> QED
        BY <2>1, <2>3, <2>4, <3>1, <3>2, <4>3, <4>4 DEF Half, Before, After
    <3>3. CASE u # t
      BY <1>0, <2>1, <2>3, <2>5, <3>1, <3>3, OtherHalf
    <3> QED
      BY <3>2, <3>3
  <2> QED
    BY <2>1, <2>4, <2>5 DEF QueryInv
<1>7. ASSUME NEW t \in Threads, NextStrtokFreed(t)
      PROVE  QueryInv'
  <2>1. /\ at[t] = "strtok" /\ at' = [at EXCEPT ![t] = "piece"] /\ ~heap[saved]
        /\ \E x : p' = [p EXCEPT ![t] = x]
        /\ UNCHANGED <<overlap, saved, str, heap, query, pairs>>
    BY <1>7 DEF NextStrtokFreed, UrlGoto, shared
  <2>2. QueryTypes'
    BY <1>0, <2>1 DEF QueryTypes, PCs, Busy
  <2>3. overlap
    BY <1>0, <2>1 DEF Half, Busy
  <2> QED
    BY <2>1, <2>2, <2>3 DEF QueryInv
<1>8. ASSUME NEW t \in Threads, Free(t)
      PROVE  QueryInv'
  <2>1. /\ at[t] = "piece" /\ at' = [at EXCEPT ![t] = "exec2"] /\ p[t] = NULL
        /\ heap' = [heap EXCEPT ![t] = FALSE]
        /\ UNCHANGED <<overlap, saved, str, query, p, pairs>>
    BY <1>8 DEF Free, UrlGoto
  <2>2. QueryTypes' /\ at'[t] = "exec2"
    BY <1>0, <2>1 DEF QueryTypes, PCs, Busy
  <2>3. ASSUME ~overlap, NEW u \in Threads
        PROVE  Half(u)'
    <3>1. Half(t) /\ \A x \in Threads \ {t} : at[x] \notin Busy
      BY <1>0, <2>1, <2>3 DEF Half, Busy
    <3>2. CASE u = t
      BY <2>1, <2>2, <3>1, <3>2 DEF Half, Own, Before, Busy
    <3>3. CASE u # t
      <4>1. heap'[u] = heap[u]
        BY <1>0, <2>1, <3>3 DEF QueryTypes
      <4> QED
        BY <1>0, <2>1, <2>3, <3>1, <3>3, <4>1, OtherHalf
    <3> QED
      BY <3>2, <3>3
  <2> QED
    BY <2>1, <2>2, <2>3 DEF QueryInv
<1> QED
  BY <1>1, <1>2, <1>3, <1>4, <1>5, <1>6, <1>7, <1>8 DEF UrlNext, simple_url_parse

\* A thread that has been alone in _parse_query returns the pairs of its own query,
\* the last one first: strtok has gone past nothing but them and pieces that make
\* no pair.
THEOREM PairsAreOwn == UrlSpec => []OwnPairs
<1>1. QueryInv => OwnPairs
  BY DEF QueryInv, OwnPairs, Half, After
<1> QED
  BY QueryStarts, QueryStep, <1>1, PTL DEF UrlSpec

-----------------------------------------------------------------------------
(* The text of a message, by lines.                                           *)

LineEnd == <<CR, LF>>
HeaderLines(S) == [k \in 1..Len(S.headers) |-> HeaderLine(S.headers[k])]

\* The text from header line k on, and all of it; R is the body and what is behind it.
From(S, R, k) == FlattenSeq(SubSeq(HeaderLines(S), k, Len(S.headers))) \o (LineEnd \o R)
Opening(S) == ((S.p1 \o <<SP>>) \o (S.p2 \o <<SP>>)) \o S.p3
Whole(S, R) == Opening(S) \o (LineEnd \o From(S, R, 1))

\* A header line as far as its j-th piece, and what follows the CRLF behind that.
Label(h) == ((h.key \o h.before) \o <<Colon>>) \o h.after
Value(h, j) == FlattenSeq(SubSeq(h.pieces, 1, j))
Rear(h, j) == IF j = Len(h.pieces) THEN h.behind ELSE <<>>
Lines(h) == [k \in 1..Len(h.pieces) |-> IF k = 1 THEN h.pieces[k] ELSE <<CR, LF, SP>> \o h.pieces[k]]
Later(h, j) == FlattenSeq(SubSeq(Lines(h), j + 1, Len(h.pieces)))
SoFar(h, j) == Label(h) \o (Value(h, j) \o Rear(h, j))
Follows(S, R, k, j) ==
    LET h == S.headers[k]
    IN  IF j = Len(h.pieces) THEN From(S, R, k + 1)
        ELSE <<SP>> \o (h.pieces[j + 1] \o (Later(h, j + 1) \o
                        (h.behind \o (LineEnd \o From(S, R, k + 1)))))

\* What the parser has made of the lines before line k.
Parsed(S, k) ==
    [p1 |-> S.p1, p2 |-> S.p2, p3 |-> S.p3,
     headers |-> Reverse(SubSeq(Meaning(S), 1, k - 1)), header_cnt |-> k - 1, body |-> <<>>]

\* Where it is in the line X, which a CRLF and Y follow.
InText(X, Y, state) ==
    LET d == Len(pd.linedata)
    IN  /\ pd.linedata \o wire = X \o (LineEnd \o Y)
        /\ \/ pd.state = state /\ d <= Len(X)
           \/ pd.state = "CR" /\ pd.last_state = state /\ d \in 1..(Len(X) + 1) /\ pd.linedata[d] = CR
           \/ pd.state = "CRLF" /\ pd.last_state = state /\ d = Len(X) + 2
           \/ pd.state = "LSW" /\ pd.last_state = state /\ d < Len(X) /\ ~Isspace(X[d + 1])

AtStart(S, R) == msg = NewMessage /\ InText(Opening(S), From(S, R, 1), "STARTLINE")
AtHeader(S, R, k, j) ==
    msg = Parsed(S, k) /\ InText(SoFar(S.headers[k], j), Follows(S, R, k, j), "HEADERS")
AtEnd(S, R) ==
    /\ msg = Parsed(S, Len(S.headers) + 1)
    /\ pd.state = "CR" /\ pd.linedata = <<CR>> /\ wire = <<LF>> \o R
InBody(S, R) ==
    LET N == OldestLength(Meaning(S))
    IN  /\ msg = [Parsed(S, Len(S.headers) + 1) EXCEPT !.body = msg.body]
        /\ msg.body \in Texts /\ msg.body \o wire = R
        /\ \/ pd.state = "BODY" /\ Len(msg.body) < N
           \/ pd.state = "COMPLETE" /\ Len(msg.body) = N
NoValue(S) == \E k \in 1..Len(S.headers) : ValueIn(S.headers[k]) = <<>>
Reading(S, R) ==
    /\ len # Null => len \in 0..Len(wire)
    /\ \/ msg = Null /\ wire = Whole(S, R) /\ len = Null /\ pd.state = "UNKNOWN"
       \/ AtStart(S, R)
       \/ \E k \in 1..Len(S.headers) : \E j \in 1..Len(S.headers[k].pieces) : AtHeader(S, R, k, j)
       \/ AtEnd(S, R) \/ InBody(S, R)
       \/ pd.state = "DEAD" /\ msg # Null /\ NoValue(S)

Plainly(h) == [key |-> h.key, before |-> <<>>, after |-> <<SP>>, pieces |-> <<h.value>>, behind |-> <<>>]
Composed == [p1 |-> out.p1, p2 |-> out.p2, p3 |-> out.p3,
             headers |-> [k \in 1..Len(out.headers) |-> Plainly(out.headers[k])], body |-> out.body]
Source == IF input = Null THEN Composed ELSE input.message
Body == IF input = Null THEN out.body ELSE input.message.body \o input.next

-----------------------------------------------------------------------------
(* Texts.                                                                     *)

\* The special characters are different ones.
LEMMA CharsAre ==
    /\ CR \in Char /\ LF \in Char /\ SP \in Char /\ Colon \in Char /\ NUL \in Char
    /\ CR # LF /\ CR # SP /\ LF # SP /\ CR # Colon /\ LF # Colon /\ SP # Colon
BY DEF Char, CR, LF, SP, Colon, NUL

\* A text by its indices.
LEMMA TextSize ==
    ASSUME NEW a \in Texts
    PROVE  /\ Len(a) \in Nat /\ DOMAIN a = 1..Len(a) /\ \A i \in 1..Len(a) : a[i] \in Char
           /\ a = <<>> <=> Len(a) = 0
BY DEF Texts

\* Texts of no, one and two characters.
LEMMA ShortTexts ==
    /\ <<>> \in Texts /\ Len(<<>>) = 0
    /\ \A x \in Char : <<x>> \in Texts /\ Len(<<x>>) = 1 /\ <<x>>[1] = x
    /\ \A x, y \in Char : <<x, y>> \in Texts /\ Len(<<x, y>>) = 2 /\ <<x, y>>[1] = x /\ <<x, y>>[2] = y
<1>1. \A x \in Char : <<x>> \in Seq(Char)
  OBVIOUS
<1>2. \A x, y \in Char : <<x, y>> \in Seq(Char)
  OBVIOUS
<1>3. QED
  BY <1>1, <1>2 DEF Texts

LEMMA LineEndText == LineEnd \in Texts /\ Len(LineEnd) = 2 /\ LineEnd[1] = CR /\ LineEnd[2] = LF
BY CharsAre, ShortTexts DEF LineEnd

\* Joining two texts.
LEMMA JoinText == \A a, b \in Texts : a \o b \in Texts
BY ConcatProperties DEF Texts

LEMMA JoinSize == \A a, b \in Texts : Len(a \o b) = Len(a) + Len(b)
BY ConcatProperties DEF Texts

LEMMA JoinAt ==
    ASSUME NEW a \in Texts, NEW b \in Texts
    PROVE  /\ \A i \in 1..Len(a) : (a \o b)[i] = a[i]
           /\ \A i \in 1..Len(b) : (a \o b)[Len(a) + i] = b[i]
<1>1. \A i \in 1..(Len(a) + Len(b)) : (a \o b)[i] = IF i <= Len(a) THEN a[i] ELSE b[i - Len(a)]
  BY ConcatProperties DEF Texts
<1>2. Len(a) \in Nat /\ Len(b) \in Nat
  BY TextSize
<1>3. ASSUME NEW i \in 1..Len(a)
      PROVE  (a \o b)[i] = a[i]
  BY <1>1, <1>2
<1>4. ASSUME NEW i \in 1..Len(b)
      PROVE  (a \o b)[Len(a) + i] = b[i]
  <2>1. Len(a) + i \in 1..(Len(a) + Len(b)) /\ ~(Len(a) + i <= Len(a)) /\ (Len(a) + i) - Len(a) = i
    BY <1>2
  <2> QED
    BY <1>1, <2>1
<1> QED
  BY <1>3, <1>4

LEMMA JoinEmpty == \A a \in Texts : a \o <<>> = a /\ <<>> \o a = a
BY ConcatEmptySeq DEF Texts

\* Joining three: the provers are told which.
Regroups(a, b, x) == (a \o b) \o x = a \o (b \o x)

LEMMA Regroup == \A a, b, x \in Texts : Regroups(a, b, x)
BY ConcatAssociative DEF Texts, Regroups

\* One character more.
LEMMA Append1Text ==
    ASSUME NEW a \in Texts, NEW x \in Char
    PROVE  /\ Append(a, x) \in Texts /\ Append(a, x) = a \o <<x>> /\ Len(Append(a, x)) = Len(a) + 1
           /\ Append(a, x)[Len(a) + 1] = x /\ \A i \in 1..Len(a) : Append(a, x)[i] = a[i]
BY AppendProperties, AppendIsConcat DEF Texts

\* The first n characters, and the others.
LEMMA TakeDrop ==
    ASSUME NEW a \in Texts, NEW n \in 0..Len(a)
    PROVE  /\ SubSeq(a, 1, n) \in Texts /\ Drop(a, n) \in Texts
           /\ Len(SubSeq(a, 1, n)) = n /\ Len(Drop(a, n)) = Len(a) - n
           /\ SubSeq(a, 1, n) \o Drop(a, n) = a
           /\ \A i \in 1..n : SubSeq(a, 1, n)[i] = a[i]
           /\ \A i \in 1..(Len(a) - n) : Drop(a, n)[i] = a[n + i]
<1>1. Len(a) \in Nat
  BY TextSize
<1>2. SubSeq(a, 1, n) \o SubSeq(a, n + 1, Len(a)) = a
  <2>1. 1 \in 1..(Len(a) + 1) /\ n \in (1 - 1)..Len(a) /\ Len(a) \in n..Len(a)
    BY <1>1
  <2> QED
    BY <2>1, ConcatAdjacentSubSeq, SubSeqFull DEF Texts
<1>3. /\ SubSeq(a, 1, n) \in Seq(Char) /\ Len(SubSeq(a, 1, n)) = n
      /\ \A i \in 1..n : SubSeq(a, 1, n)[i] = a[i]
  BY DEF Texts
<1>4. /\ SubSeq(a, n + 1, Len(a)) \in Seq(Char) /\ Len(SubSeq(a, n + 1, Len(a))) = Len(a) - n
      /\ \A i \in 1..(Len(a) - n) : SubSeq(a, n + 1, Len(a))[i] = a[n + i]
  BY DEF Texts
<1> QED
  BY <1>2, <1>3, <1>4 DEF Drop, Texts

\* Where two texts have the same beginning of the same length, they go on alike.
LEMMA SameSplit ==
    ASSUME NEW a \in Texts, NEW b \in Texts, NEW x \in Texts, NEW y \in Texts,
           a \o b = x \o y, Len(a) = Len(x)
    PROVE  a = x /\ b = y
<1>1. Len(a) \in Nat /\ Len(b) \in Nat /\ Len(x) \in Nat /\ Len(y) \in Nat
  BY TextSize
<1>2. a = x
  <2>1. \A i \in 1..Len(a) : a[i] = x[i]
    BY JoinAt
  <2> QED
    BY <2>1, SeqEqual DEF Texts
<1>3. Len(b) = Len(y)
  BY <1>1, JoinSize
<1>4. \A i \in 1..Len(b) : b[i] = y[i]
  BY <1>3, JoinAt
<1> QED
  BY <1>2, <1>3, <1>4, SeqEqual DEF Texts

\* So a text is what is left when the other is dropped.
LEMMA DropJoined ==
    ASSUME NEW a \in Texts, NEW b \in Texts
    PROVE  SubSeq(a \o b, 1, Len(a)) = a /\ Drop(a \o b, Len(a)) = b
<1> DEFINE s == a \o b
<1>1. s \in Texts /\ Len(s) = Len(a) + Len(b) /\ Len(a) \in 0..Len(s)
  BY JoinText, JoinSize, TextSize
<1> HIDE DEF s
<1>2. /\ SubSeq(s, 1, Len(a)) \in Texts /\ Drop(s, Len(a)) \in Texts
      /\ Len(SubSeq(s, 1, Len(a))) = Len(a) /\ SubSeq(s, 1, Len(a)) \o Drop(s, Len(a)) = s
  BY <1>1, TakeDrop
<1>3. SubSeq(s, 1, Len(a)) = a /\ Drop(s, Len(a)) = b
  <2> DEFINE x == SubSeq(s, 1, Len(a))
             y == Drop(s, Len(a))
  <2> HIDE DEF x, y
  <2>1. x \in Texts /\ y \in Texts /\ Len(x) = Len(a) /\ x \o y = a \o b
    BY <1>2 DEF x, y, s
  <2>2. x = a /\ y = b
    BY <2>1, SameSplit
  <2> QED
    BY <2>2 DEF x, y
<1> QED
  BY <1>3 DEF s

\* One character goes over from one text to the other.
LEMMA OneOver ==
    ASSUME NEW a \in Texts, NEW b \in Texts, Len(b) > 0
    PROVE  /\ b[1] \in Char /\ Append(a, b[1]) \in Texts /\ Drop(b, 1) \in Texts
           /\ Append(a, b[1]) \o Drop(b, 1) = a \o b
           /\ b[1] = (a \o b)[Len(a) + 1] /\ Len(Append(a, b[1])) = Len(a) + 1
<1>1. Len(b) \in Nat /\ 1 \in 1..Len(b) /\ 1 \in 0..Len(b) /\ b[1] \in Char
  BY TextSize
<1> DEFINE one == <<b[1]>>
           others == Drop(b, 1)
<1>2. /\ others \in Texts /\ SubSeq(b, 1, 1) \o others = b
      /\ Len(SubSeq(b, 1, 1)) = 1 /\ SubSeq(b, 1, 1) \in Texts
      /\ SubSeq(b, 1, 1)[1] = b[1]
  BY <1>1, TakeDrop
<1>3. one \in Texts /\ Len(one) = 1 /\ one[1] = b[1]
  BY <1>1, ShortTexts
<1>4. SubSeq(b, 1, 1) = one
  <2> HIDE DEF one
  <2>1. \A i \in 1..Len(one) : SubSeq(b, 1, 1)[i] = one[i]
    BY <1>2, <1>3
  <2> QED
    BY <1>2, <1>3, <2>1, SeqEqual DEF Texts
<1>5. Append(a, b[1]) \in Texts /\ Append(a, b[1]) = a \o one /\ Len(Append(a, b[1])) = Len(a) + 1
  BY <1>1, Append1Text
<1>6. (a \o one) \o others = a \o b
  <2> HIDE DEF one, others
  <2>1. Regroups(a, one, others)
    BY <1>2, <1>3, Regroup
  <2> QED
    BY <1>2, <1>4, <2>1 DEF Regroups
<1>7. b[1] = (a \o b)[Len(a) + 1]
  BY <1>1, JoinAt
<1> QED
  BY <1>1, <1>2, <1>5, <1>6, <1>7

-----------------------------------------------------------------------------
(* FlattenSeq of texts.                                                       *)

Joins(f, s) ==
    /\ f \in [0..Len(s) -> Texts] /\ f[0] = <<>>
    /\ \A k \in 1..Len(s) : f[k] = f[k - 1] \o s[k]

\* The function inside FlattenSeq exists.
LEMMA FlattenIterates ==
    ASSUME NEW s \in Seq(Texts)
    PROVE  \E f : Joins(f, s) /\ FlattenSeq(s) = f[Len(s)]
<1> DEFINE F == [k \in 1..Len(s) |-> [h \in Texts |-> h \o s[k]]]
           D(g) == [i \in 1..Len(s) |-> IF i = 1 THEN s[i] ELSE g[i - 1] \o s[i]]
           flat == CHOOSE g : g = D(g)
<1>1. Len(s) \in Nat /\ <<>> \in Texts /\ \A k \in 1..Len(s) : s[k] \in Texts
  BY ShortTexts
<1>2. PICK f : Iterates(f, Texts, <<>>, F, Len(s))
  <2>1. F \in [1..Len(s) -> [Texts -> Texts]]
    BY <1>1, JoinText
  <2> HIDE DEF F
  <2> QED
    BY <1>1, <2>1, Iteration
<1>3. Joins(f, s)
  <2>1. f \in [0..Len(s) -> Texts] /\ f[0] = <<>>
    BY <1>2 DEF Iterates
  <2>2. ASSUME NEW k \in 1..Len(s)
        PROVE  f[k] = f[k - 1] \o s[k]
    <3>1. k - 1 \in 0..Len(s)
      BY <1>1
    <3>2. f[k] = F[k][f[k - 1]] /\ f[k - 1] \in Texts
      <4> HIDE DEF F
      <4> QED BY <1>2, <3>1 DEF Iterates
    <3>3. F[k] = [h \in Texts |-> h \o s[k]]
      OBVIOUS
    <3> QED
      BY <3>2, <3>3
  <2> QED
    BY <2>1, <2>2 DEF Joins
<1>4. CASE Len(s) = 0
  <2>1. FlattenSeq(s) = s /\ s = <<>>
    BY <1>4 DEF FlattenSeq
  <2> QED
    BY <1>3, <1>4, <2>1 DEF Joins
<1>5. CASE Len(s) # 0
  <2>1. FlattenSeq(s) = flat[Len(s)]
    BY <1>5 DEF FlattenSeq
  <2> DEFINE g == [i \in 1..Len(s) |-> f[i]]
  <2>2. g = D(g)
    <3>1. ASSUME NEW i \in 1..Len(s)
          PROVE  g[i] = D(g)[i]
      <4>1. CASE i = 1
        <5>1. f[1] = <<>> \o s[1] /\ s[1] \in Texts
          BY <1>1, <1>3, <4>1, 1 - 1 = 0 DEF Joins
        <5>2. f[1] = s[1]
          BY <5>1, JoinEmpty
        <5> QED
          BY <4>1, <5>2
      <4>2. CASE i # 1
        <5>1. i - 1 \in 1..Len(s)
          BY <1>1, <4>2
        <5>2. f[i] = f[i - 1] \o s[i]
          BY <1>3 DEF Joins
        <5>3. g[i] = f[i] /\ g[i - 1] = f[i - 1]
          BY <5>1
        <5>4. D(g)[i] = g[i - 1] \o s[i]
          <6> HIDE DEF g
          <6> QED BY <4>2
        <5> QED
          BY <5>2, <5>3, <5>4
      <4> QED
        BY <4>1, <4>2
    <3> QED
      <4> HIDE DEF F
      <4> QED BY <3>1
  <2>3. flat = D(flat)
    <3> HIDE DEF D
    <3> QED BY <2>2
  <2>4. flat[Len(s)] = f[Len(s)]
    <3> DEFINE e == [k \in 0..Len(s) |-> IF k = 0 THEN <<>> ELSE flat[k]]
    <3>1. SameSteps(e, f, Len(s))
      <4>1. e[0] = f[0]
        BY <1>1, <1>3 DEF Joins
      <4>2. ASSUME NEW k \in 1..Len(s), e[k - 1] = f[k - 1]
            PROVE  e[k] = f[k]
        <5>1. e[k] = flat[k] /\ f[k] = f[k - 1] \o s[k] /\ s[k] \in Texts
          <6>1. k \in 0..Len(s) /\ k # 0
            BY <1>1
          <6>2. e[k] = flat[k]
            <7> HIDE DEF flat
            <7> QED BY <6>1
          <6> QED
            BY <1>1, <1>3, <6>2 DEF Joins
        <5>2. flat[k] = IF k = 1 THEN s[k] ELSE flat[k - 1] \o s[k]
          <6> HIDE DEF flat
          <6>1. flat[k] = D(flat)[k]
            <7> HIDE DEF D
            <7> QED BY <2>3
          <6> QED
            BY <6>1
        <5>3. CASE k = 1
          <6>1. f[0] = <<>> /\ k - 1 = 0
            BY <1>3, <5>3 DEF Joins
          <6>2. f[k] = <<>> \o s[k]
            BY <5>1, <6>1
          <6>3. f[k] = s[k]
            BY <5>1, <6>2, JoinEmpty
          <6> HIDE DEF flat, e
          <6> QED
            BY <5>1, <5>2, <5>3, <6>3
        <5>4. CASE k # 1
          <6>1. k - 1 \in 0..Len(s) /\ k - 1 # 0
            BY <1>1, <5>4
          <6>2. e[k - 1] = flat[k - 1]
            <7> HIDE DEF flat
            <7> QED BY <6>1
          <6> HIDE DEF flat, e
          <6> QED
            BY <4>2, <5>1, <5>2, <5>4, <6>2
        <5> QED
          BY <5>3, <5>4
      <4> HIDE DEF e
      <4> QED
        BY <4>1, <4>2 DEF SameSteps
    <3>2. \A k \in 0..Len(s) : e[k] = f[k]
      <4> HIDE DEF e
      <4> QED BY <1>1, <3>1, SameIteration
    <3>3. e[Len(s)] = flat[Len(s)] /\ Len(s) \in 0..Len(s)
      <4> HIDE DEF flat
      <4> QED BY <1>1, <1>5
    <3> HIDE DEF e, flat
    <3> QED
      BY <3>2, <3>3
  <2> HIDE DEF flat
  <2> QED
    BY <1>3, <2>1, <2>4
<1> QED
  BY <1>4, <1>5

LEMMA FlattenText ==
    ASSUME NEW s \in Seq(Texts)
    PROVE  FlattenSeq(s) \in Texts
<1>1. PICK f : Joins(f, s) /\ FlattenSeq(s) = f[Len(s)]
  BY FlattenIterates
<1>2. Len(s) \in 0..Len(s)
  OBVIOUS
<1> QED
  BY <1>1, <1>2 DEF Joins

LEMMA FlattenEmpty == FlattenSeq(<<>>) = <<>>
BY DEF FlattenSeq

\* One text more, behind the others.
LEMMA FlattenAppend ==
    ASSUME NEW s \in Seq(Texts), NEW x \in Texts
    PROVE  FlattenSeq(Append(s, x)) = FlattenSeq(s) \o x
<1> DEFINE t == Append(s, x)
           n == Len(s)
<1>1. /\ t \in Seq(Texts) /\ Len(t) = n + 1 /\ n \in Nat
      /\ \A k \in 1..n : t[k] = s[k]
      /\ t[n + 1] = x
  BY AppendProperties
<1> HIDE DEF t, n
<1>2. PICK f : Joins(f, s) /\ FlattenSeq(s) = f[n]
  BY FlattenIterates DEF n
<1>3. PICK g : Joins(g, t) /\ FlattenSeq(t) = g[n + 1]
  BY <1>1, FlattenIterates
<1>4. f[0] = <<>> /\ \A k \in 1..n : f[k] = f[k - 1] \o s[k]
  BY <1>2 DEF Joins, n
<1>5. g[0] = <<>> /\ \A k \in 1..(n + 1) : g[k] = g[k - 1] \o t[k]
  BY <1>1, <1>3 DEF Joins
<1>6. SameSteps(f, g, n)
  <2>1. \A k \in 1..n : k \in 1..(n + 1)
    BY <1>1
  <2> QED
    BY <1>1, <1>4, <1>5, <2>1 DEF SameSteps
<1>7. f[n] = g[n]
  BY <1>1, <1>6, SameIteration, n \in 0..n
<1>8. g[n + 1] = g[n] \o t[n + 1]
  <2>1. n + 1 \in 1..(n + 1) /\ (n + 1) - 1 = n
    BY <1>1
  <2> QED
    BY <1>5, <2>1
<1> QED
  BY <1>1, <1>2, <1>3, <1>7, <1>8 DEF t

\* And in front of them.
LEMMA FlattenFirst ==
    ASSUME NEW s \in Seq(Texts), NEW x \in Texts
    PROVE  FlattenSeq(<<x>> \o s) = x \o FlattenSeq(s)
<1> DEFINE T == {k \in 0..Len(s) :
                    FlattenSeq(<<x>> \o SubSeq(s, 1, k)) = x \o FlattenSeq(SubSeq(s, 1, k))}
<1>1. Len(s) \in Nat /\ <<x>> \in Seq(Texts)
  OBVIOUS
<1>2. 0 \in T
  <2>1. SubSeq(s, 1, 0) = <<>> /\ <<x>> \o <<>> = <<x>> /\ <<x>> = Append(<<>>, x)
    BY <1>1, SubSeqEmpty, ConcatEmptySeq
  <2>2. <<>> \in Seq(Texts)
    OBVIOUS
  <2>3. FlattenSeq(Append(<<>>, x)) = FlattenSeq(<<>>) \o x
    BY <2>2, FlattenAppend
  <2>4. <<>> \o x = x /\ x \o <<>> = x
    BY JoinEmpty
  <2>5. 0 \in 0..Len(s)
    BY <1>1
  <2> QED
    BY <2>1, <2>3, <2>4, <2>5, FlattenEmpty
<1>3. ASSUME NEW k \in 1..Len(s), k - 1 \in T
      PROVE  k \in T
  <2> DEFINE v == SubSeq(s, 1, k - 1)
             y == s[k]
             w == <<x>> \o v
  <2>1. v \in Seq(Texts) /\ y \in Texts /\ k \in 0..Len(s)
    OBVIOUS
  <2>2. SubSeq(s, 1, k) = v \o <<y>>
    BY SubSeqRecursiveSecond
  <2>3. v \o <<y>> = Append(v, y) /\ <<y>> \in Seq(Texts)
    <3> HIDE DEF v, y
    <3> QED BY <2>1, AppendIsConcat
  <2>4. <<x>> \o Append(v, y) = Append(w, y) /\ w \in Seq(Texts)
    <3> DEFINE one == <<x>>
               last == <<y>>
    <3> HIDE DEF v, y, one, last
    <3>1. one \in Seq(Texts) /\ last \in Seq(Texts) /\ v \in Seq(Texts)
      BY <1>1, <2>1, <2>3 DEF one, last
    <3>2. one \o (v \o last) = (one \o v) \o last
      <4>1. Three(Texts, one, v, last)
        BY <3>1 DEF Three
      <4> QED
        BY <4>1, Joined
    <3>3. one \o v \in Seq(Texts)
      BY <3>1, ConcatProperties
    <3>4. Append(one \o v, y) = (one \o v) \o last
      BY <2>1, <3>3, AppendIsConcat DEF last
    <3> QED
      BY <2>3, <3>2, <3>3, <3>4 DEF one, last
  <2>5. FlattenSeq(w) = x \o FlattenSeq(v)
    BY <1>3
  <2>6. FlattenSeq(Append(w, y)) = FlattenSeq(w) \o y /\ FlattenSeq(Append(v, y)) = FlattenSeq(v) \o y
    <3> HIDE DEF w, v, y
    <3> QED BY <2>1, <2>4, FlattenAppend
  <2>7. (x \o FlattenSeq(v)) \o y = x \o (FlattenSeq(v) \o y)
    <3> HIDE DEF v, y
    <3>1. FlattenSeq(v) \in Texts
      BY <2>1, FlattenText
    <3>2. Regroups(x, FlattenSeq(v), y)
      BY <2>1, <3>1, Regroup
    <3> QED
      BY <3>2 DEF Regroups
  <2>8. FlattenSeq(<<x>> \o SubSeq(s, 1, k)) = x \o FlattenSeq(SubSeq(s, 1, k))
    <3> HIDE DEF v, y, w
    <3> QED BY <2>2, <2>3, <2>4, <2>5, <2>6, <2>7
  <2> QED
    BY <2>1, <2>8
<1>4. Len(s) \in T
  <2> HIDE DEF T
  <2>1. 0..Len(s) \subseteq T
    BY <1>1, <1>2, <1>3, InductionUpTo
  <2> QED
    BY <1>1, <2>1
<1> QED
  BY <1>4, SubSeqFull

\* The texts from the k-th on, and up to it.
LEMMA FlattenFrom ==
    ASSUME NEW s \in Seq(Texts), NEW k \in 1..Len(s)
    PROVE  FlattenSeq(SubSeq(s, k, Len(s))) = s[k] \o FlattenSeq(SubSeq(s, k + 1, Len(s)))
<1> DEFINE u == SubSeq(s, k + 1, Len(s))
<1>1. u \in Seq(Texts) /\ s[k] \in Texts /\ Len(s) \in k..Len(s)
  OBVIOUS
<1>2. SubSeq(s, k, Len(s)) = <<s[k]>> \o u
  BY <1>1, SubSeqRecursiveFirst
<1> HIDE DEF u
<1>3. FlattenSeq(<<s[k]>> \o u) = s[k] \o FlattenSeq(u)
  BY <1>1, FlattenFirst
<1> QED
  BY <1>2, <1>3 DEF u

LEMMA FlattenTo ==
    ASSUME NEW s \in Seq(Texts), NEW k \in 1..Len(s)
    PROVE  FlattenSeq(SubSeq(s, 1, k)) = FlattenSeq(SubSeq(s, 1, k - 1)) \o s[k]
<1> DEFINE u == SubSeq(s, 1, k - 1)
<1>1. u \in Seq(Texts) /\ s[k] \in Texts
  OBVIOUS
<1>2. SubSeq(s, 1, k) = u \o <<s[k]>>
  BY SubSeqRecursiveSecond
<1> HIDE DEF u
<1>3. u \o <<s[k]>> = Append(u, s[k])
  BY <1>1, AppendIsConcat
<1>4. FlattenSeq(Append(u, s[k])) = FlattenSeq(u) \o s[k]
  BY <1>1, FlattenAppend
<1> QED
  BY <1>2, <1>3, <1>4 DEF u

LEMMA FlattenBeyond ==
    ASSUME NEW s \in Seq(Texts)
    PROVE  FlattenSeq(SubSeq(s, Len(s) + 1, Len(s))) = <<>> /\ FlattenSeq(SubSeq(s, 1, 0)) = <<>>
<1>1. SubSeq(s, Len(s) + 1, Len(s)) = <<>> /\ SubSeq(s, 1, 0) = <<>>
  OBVIOUS
<1> QED
  BY <1>1, FlattenEmpty

\* Joining four, joined from the left, from the right.
Regroups4(a, b, x, y) == ((a \o b) \o x) \o y = a \o (b \o (x \o y))

LEMMA Regroup4 == \A a, b, x, y \in Texts : Regroups4(a, b, x, y)
<1> SUFFICES ASSUME NEW a \in Texts, NEW b \in Texts, NEW x \in Texts, NEW y \in Texts
             PROVE  Regroups4(a, b, x, y)
  OBVIOUS
<1>1. a \o b \in Texts /\ x \o y \in Texts
  BY JoinText
<1>2. Regroups(a \o b, x, y) /\ Regroups(a, b, x \o y)
  BY <1>1, Regroup
<1> QED
  BY <1>2 DEF Regroups, Regroups4

-----------------------------------------------------------------------------
(* A header line, from its key to its CRLF.                                   *)

Blanks(s) == s \in Texts /\ \A k \in 1..Len(s) : s[k] = SP

LEMMA BlankTexts == \A s \in Seq({SP}) : Blanks(s)
BY CharsAre DEF Blanks, Texts

\* What IsHeader says of the parts, by their indices.
LEMMA HeaderParts ==
    ASSUME NEW h, IsHeader(h)
    PROVE  /\ h.key \in Texts /\ Len(h.key) > 0
           /\ Blanks(h.before) /\ Blanks(h.after) /\ Blanks(h.behind)
           /\ h.pieces \in Seq(Texts) /\ Len(h.pieces) \in Nat /\ Len(h.pieces) > 0
           /\ \A k \in 1..Len(h.key) : ~Isspace(h.key[k]) /\ h.key[k] # Colon
           /\ \A k \in 1..Len(h.pieces) : h.pieces[k] \in Texts /\ Clean(h.pieces[k])
           /\ \A k \in 2..Len(h.pieces) : Len(h.pieces[k]) > 0 /\ ~Isspace(h.pieces[k][1])
<1>1. h.key \in Texts /\ Len(h.key) > 0 /\ \A k \in 1..Len(h.key) : ~Isspace(h.key[k]) /\ h.key[k] # Colon
  BY TextSize DEF IsHeader, IsKey, Word, Spaceless, Text
<1>2. Blanks(h.before) /\ Blanks(h.after) /\ Blanks(h.behind)
  BY BlankTexts DEF IsHeader
<1>3. h.pieces \in Seq(Texts) /\ Len(h.pieces) \in Nat /\ Len(h.pieces) > 0 /\ DOMAIN h.pieces = 1..Len(h.pieces)
  BY DEF IsHeader
<1>4. \A k \in 1..Len(h.pieces) : Clean(h.pieces[k]) /\ (k > 1 => h.pieces[k] # <<>> /\ ~Isspace(h.pieces[k][1]))
  BY <1>3 DEF IsHeader
<1>5. \A k \in 1..Len(h.pieces) : h.pieces[k] \in Texts
  BY <1>3
<1>6. \A k \in 2..Len(h.pieces) : k \in 1..Len(h.pieces) /\ k > 1
  BY <1>3
<1>7. \A k \in 2..Len(h.pieces) : Len(h.pieces[k]) > 0 /\ ~Isspace(h.pieces[k][1])
  <2> SUFFICES ASSUME NEW k \in 2..Len(h.pieces)
               PROVE  Len(h.pieces[k]) > 0 /\ ~Isspace(h.pieces[k][1])
    OBVIOUS
  <2>1. h.pieces[k] \in Texts /\ h.pieces[k] # <<>> /\ ~Isspace(h.pieces[k][1])
    BY <1>4, <1>5, <1>6
  <2> QED
    BY <2>1, TextSize
<1> QED
  BY <1>1, <1>2, <1>3, <1>4, <1>5, <1>7

\* The parts of a header line are texts.
LEMMA LineTexts ==
    ASSUME NEW h, IsHeader(h)
    PROVE  /\ Label(h) \in Texts /\ Lines(h) \in Seq(Texts) /\ Len(Lines(h)) = Len(h.pieces)
           /\ Lines(h)[1] = h.pieces[1]
           /\ \A j \in 2..Len(h.pieces) : Lines(h)[j] = (LineEnd \o <<SP>>) \o h.pieces[j]
           /\ \A j \in 0..Len(h.pieces) : Value(h, j) \in Texts /\ Later(h, j) \in Texts
           /\ \A j \in 1..Len(h.pieces) : Rear(h, j) \in Texts /\ SoFar(h, j) \in Texts
<1>1. /\ h.key \in Texts /\ h.before \in Texts /\ h.after \in Texts /\ h.behind \in Texts
      /\ h.pieces \in Seq(Texts) /\ Len(h.pieces) \in Nat /\ Len(h.pieces) > 0
      /\ \A k \in 1..Len(h.pieces) : h.pieces[k] \in Texts
  BY HeaderParts DEF Blanks
<1>2. Label(h) \in Texts
  BY <1>1, CharsAre, ShortTexts, JoinText DEF Label
<1>3. LineEnd \o <<SP>> \in Texts /\ <<CR, LF, SP>> = LineEnd \o <<SP>>
  <2>1. <<SP>> \in Texts
    BY CharsAre, ShortTexts
  <2>2. Append(LineEnd, SP) = LineEnd \o <<SP>>
    BY CharsAre, LineEndText, Append1Text
  <2>3. Append(LineEnd, SP) = <<CR, LF, SP>>
    <3>1. /\ Append(LineEnd, SP) \in Seq(Char) /\ Len(Append(LineEnd, SP)) = 3
          /\ Append(LineEnd, SP)[1] = CR /\ Append(LineEnd, SP)[2] = LF
          /\ Append(LineEnd, SP)[3] = SP
      <4>1. /\ Append(LineEnd, SP) \in Texts
            /\ Len(Append(LineEnd, SP)) = Len(LineEnd) + 1
            /\ Append(LineEnd, SP)[Len(LineEnd) + 1] = SP
            /\ \A i \in 1..Len(LineEnd) : Append(LineEnd, SP)[i] = LineEnd[i]
        <5>1. LineEnd \in Texts /\ SP \in Char
          BY CharsAre, LineEndText
        <5> QED
          BY <5>1, Append1Text
      <4>2. 1 \in 1..2 /\ 2 \in 1..2 /\ 2 + 1 = 3
        OBVIOUS
      <4> QED
        BY <4>1, <4>2, LineEndText DEF Texts
    <3>2. <<CR, LF, SP>> \in Seq(Char) /\ Len(<<CR, LF, SP>>) = 3
      BY CharsAre
    <3>3. \A i \in 1..3 : Append(LineEnd, SP)[i] = <<CR, LF, SP>>[i]
      <4>1. \A i \in 1..3 : i = 1 \/ i = 2 \/ i = 3
        OBVIOUS
      <4>2. <<CR, LF, SP>>[1] = CR /\ <<CR, LF, SP>>[2] = LF /\ <<CR, LF, SP>>[3] = SP
        OBVIOUS
      <4> QED
        BY <3>1, <4>1, <4>2
    <3> QED
      BY <3>1, <3>2, <3>3, SeqEqual
  <2> QED
    BY <2>1, <2>2, <2>3, LineEndText, JoinText
<1>4. \A j \in 1..Len(h.pieces) :
         Lines(h)[j] = IF j = 1 THEN h.pieces[j] ELSE (LineEnd \o <<SP>>) \o h.pieces[j]
  <2> DEFINE folded == LineEnd \o <<SP>>
  <2> HIDE DEF folded
  <2> QED
    BY <1>3 DEF Lines, folded
<1>5. \A j \in 1..Len(h.pieces) : Lines(h)[j] \in Texts
  <2> DEFINE folded == LineEnd \o <<SP>>
  <2> HIDE DEF folded
  <2> QED
    BY <1>1, <1>3, <1>4, JoinText DEF folded
<1>6. Lines(h) \in Seq(Texts) /\ Len(Lines(h)) = Len(h.pieces)
  <2> DEFINE L == Lines(h)
             n == Len(h.pieces)
  <2>1. DOMAIN L = 1..n /\ L = [k \in 1..n |-> L[k]]
    BY DEF Lines
  <2> HIDE DEF L, n
  <2>2. n \in Nat /\ \A j \in 1..n : L[j] \in Texts
    BY <1>1, <1>5 DEF L, n
  <2>3. L \in [1..n -> Texts]
    BY <2>1, <2>2
  <2>4. L \in Seq(Texts) /\ Len(L) = n
    BY <2>2, <2>3
  <2> QED
    BY <2>4 DEF L, n
<1>7. ASSUME NEW j \in 0..Len(h.pieces)
      PROVE  Value(h, j) \in Texts /\ Later(h, j) \in Texts
  <2>1. SubSeq(h.pieces, 1, j) \in Seq(Texts)
    BY <1>1
  <2>2. SubSeq(Lines(h), j + 1, Len(h.pieces)) \in Seq(Texts)
    BY <1>1, <1>6
  <2> QED
    BY <2>1, <2>2, FlattenText DEF Value, Later
<1>8. ASSUME NEW j \in 1..Len(h.pieces)
      PROVE  Rear(h, j) \in Texts /\ SoFar(h, j) \in Texts
  <2>1. Rear(h, j) \in Texts
    BY <1>1, ShortTexts DEF Rear
  <2>2. Value(h, j) \in Texts
    BY <1>1, <1>7
  <2> QED
    BY <1>2, <2>1, <2>2, JoinText DEF SoFar
<1>9. Lines(h)[1] = h.pieces[1]
  <2>1. 1 \in 1..Len(h.pieces)
    BY <1>1
  <2> QED
    BY <1>4, <2>1
<1>10. \A j \in 2..Len(h.pieces) : Lines(h)[j] = (LineEnd \o <<SP>>) \o h.pieces[j]
  <2>1. \A j \in 2..Len(h.pieces) : j \in 1..Len(h.pieces) /\ j # 1
    BY <1>1
  <2> QED
    BY <1>4, <2>1
<1> QED
  BY <1>2, <1>6, <1>7, <1>8, <1>9, <1>10

\* The value grows piece by piece.
LEMMA ValueGrows ==
    ASSUME NEW h, IsHeader(h)
    PROVE  /\ Value(h, 1) = h.pieces[1] /\ Value(h, Len(h.pieces)) = ValueIn(h)
           /\ \A j \in 1..(Len(h.pieces) - 1) : Value(h, j + 1) = Value(h, j) \o h.pieces[j + 1]
<1>1. h.pieces \in Seq(Texts) /\ Len(h.pieces) \in Nat /\ Len(h.pieces) > 0
      /\ \A k \in 1..Len(h.pieces) : h.pieces[k] \in Texts
  BY HeaderParts
<1>2. \A k \in 1..Len(h.pieces) : Value(h, k) = Value(h, k - 1) \o h.pieces[k]
  BY <1>1, FlattenTo DEF Value
<1>3. Value(h, 0) = <<>>
  BY <1>1, FlattenBeyond DEF Value
<1>4. Value(h, 1) = h.pieces[1]
  <2>1. 1 \in 1..Len(h.pieces) /\ 1 - 1 = 0
    BY <1>1
  <2>2. Value(h, 1) = <<>> \o h.pieces[1]
    BY <1>2, <1>3, <2>1
  <2> QED
    BY <1>1, <2>1, <2>2, JoinEmpty
<1>5. Value(h, Len(h.pieces)) = ValueIn(h)
  BY <1>1, SubSeqFull DEF Value, ValueIn
<1>6. ASSUME NEW j \in 1..(Len(h.pieces) - 1)
      PROVE  Value(h, j + 1) = Value(h, j) \o h.pieces[j + 1]
  <2>1. j + 1 \in 1..Len(h.pieces) /\ (j + 1) - 1 = j
    BY <1>1
  <2> QED
    BY <1>2, <2>1
<1> QED
  BY <1>4, <1>5, <1>6

\* And what is left of the lines gets less.
LEMMA LaterShrinks ==
    ASSUME NEW h, IsHeader(h)
    PROVE  /\ Later(h, Len(h.pieces)) = <<>>
           /\ \A j \in 0..(Len(h.pieces) - 1) : Later(h, j) = Lines(h)[j + 1] \o Later(h, j + 1)
           /\ FoldedValue(h.pieces) = Later(h, 0)
<1>1. Lines(h) \in Seq(Texts) /\ Len(Lines(h)) = Len(h.pieces) /\ Len(h.pieces) \in Nat
  BY LineTexts, HeaderParts
<1>2. Later(h, Len(h.pieces)) = <<>>
  BY <1>1, FlattenBeyond DEF Later
<1>3. ASSUME NEW j \in 0..(Len(h.pieces) - 1)
      PROVE  Later(h, j) = Lines(h)[j + 1] \o Later(h, j + 1)
  <2>1. j + 1 \in 1..Len(Lines(h))
    BY <1>1
  <2> QED
    BY <1>1, <2>1, FlattenFrom DEF Later
<1>4. FoldedValue(h.pieces) = Later(h, 0)
  <2>1. DOMAIN h.pieces = 1..Len(h.pieces)
    BY HeaderParts
  <2>2. FoldedValue(h.pieces) = FlattenSeq(Lines(h))
    BY <2>1 DEF FoldedValue, Lines
  <2>3. SubSeq(Lines(h), 0 + 1, Len(h.pieces)) = Lines(h)
    BY <1>1, SubSeqFull
  <2> QED
    BY <2>2, <2>3 DEF Later
<1> QED
  BY <1>2, <1>3, <1>4

\* The lines of a message that may be sent, whatever its body.
Sendable(S) ==
    /\ StartLine(S.p1, S.p2, S.p3)
    /\ Len(S.headers) \in Nat /\ DOMAIN S.headers = 1..Len(S.headers)
    /\ \A k \in 1..Len(S.headers) : IsHeader(S.headers[k])

\* One header line, in the form of FoldedValue.
LEMMA HeaderLineParts ==
    ASSUME NEW h, IsHeader(h)
    PROVE  /\ HeaderLine(h) = ((Label(h) \o FoldedValue(h.pieces)) \o h.behind) \o LineEnd
           /\ HeaderLine(h) \in Texts
<1>1. Label(h) \in Texts /\ h.behind \in Texts /\ FoldedValue(h.pieces) \in Texts
  <2>1. 0 \in 0..Len(h.pieces)
    BY HeaderParts
  <2>2. FoldedValue(h.pieces) = Later(h, 0)
    BY LaterShrinks
  <2>3. Label(h) \in Texts /\ Later(h, 0) \in Texts
    BY <2>1, LineTexts
  <2>4. h.behind \in Texts
    BY HeaderParts DEF Blanks
  <2> QED
    BY <2>2, <2>3, <2>4
<1>2. HeaderLine(h) = ((Label(h) \o FoldedValue(h.pieces)) \o h.behind) \o LineEnd
  BY DEF HeaderLine, Label, LineEnd
<1> QED
  BY <1>1, <1>2, LineEndText, JoinText

\* What is left from line k on is that line and what is left from the next one on.
LEMMA FromText ==
    ASSUME NEW S, Sendable(S), NEW R \in Texts
    PROVE  /\ \A k \in 1..(Len(S.headers) + 1) : From(S, R, k) \in Texts
           /\ From(S, R, Len(S.headers) + 1) = LineEnd \o R
           /\ \A k \in 1..Len(S.headers) :
                 From(S, R, k) = HeaderLine(S.headers[k]) \o From(S, R, k + 1)
<1> DEFINE n == Len(S.headers)
           L == HeaderLines(S)
           end == LineEnd \o R
           F(k) == FlattenSeq(SubSeq(L, k, n))
<1>1. n \in Nat /\ \A k \in 1..n : HeaderLine(S.headers[k]) \in Texts
  BY HeaderLineParts DEF Sendable
<1>2. L \in Seq(Texts) /\ Len(L) = n /\ \A k \in 1..n : L[k] = HeaderLine(S.headers[k])
  <2>1. DOMAIN L = 1..n /\ L = [k \in 1..n |-> L[k]]
        /\ \A k \in 1..n : L[k] = HeaderLine(S.headers[k])
    BY DEF HeaderLines
  <2> HIDE DEF L, n
  <2>2. L \in [1..n -> Texts]
    BY <1>1, <2>1
  <2>3. L \in Seq(Texts) /\ Len(L) = n
    BY <1>1, <2>2
  <2> QED
    BY <2>1, <2>3
<1>3. end \in Texts
  BY LineEndText, JoinText
<1>4. \A k : From(S, R, k) = F(k) \o end
  BY DEF From
<1> HIDE DEF L, n, end
<1>5. ASSUME NEW k \in 1..(n + 1)
      PROVE  F(k) \in Texts
  <2>1. SubSeq(L, k, n) \in Seq(Texts)
    BY <1>1, <1>2
  <2> QED
    BY <2>1, FlattenText
<1>6. F(n + 1) = <<>>
  BY <1>2, FlattenBeyond
<1>7. \A k \in 1..n : F(k) = L[k] \o F(k + 1)
  BY <1>2, FlattenFrom
<1>8. ASSUME NEW k \in 1..n
      PROVE  From(S, R, k) = HeaderLine(S.headers[k]) \o From(S, R, k + 1)
  <2> HIDE DEF F
  <2>1. L[k] \in Texts /\ F(k + 1) \in Texts /\ k + 1 \in 1..(n + 1)
    BY <1>1, <1>2, <1>5
  <2>2. Regroups(L[k], F(k + 1), end)
    BY <1>3, <2>1, Regroup
  <2> QED
    BY <1>2, <1>4, <1>7, <2>2 DEF Regroups
<1>9. \A k \in 1..(n + 1) : From(S, R, k) \in Texts
  <2> HIDE DEF F
  <2> QED BY <1>3, <1>4, <1>5, JoinText
<1>10. From(S, R, n + 1) = end
  <2> HIDE DEF F
  <2> QED BY <1>3, <1>4, <1>6, JoinEmpty
<1> QED
  BY <1>8, <1>9, <1>10 DEF n, end

\* What is left of a header line behind its j-th piece, and behind the line.
Ahead(S, R, k, j) ==
    LET h == S.headers[k]
    IN  Later(h, j) \o (h.behind \o (LineEnd \o From(S, R, k + 1)))

\* It is what is behind the j-th piece on its own line, and what follows that line.
LEMMA AheadText ==
    ASSUME NEW S, Sendable(S), NEW R \in Texts, NEW k \in 1..Len(S.headers),
           NEW j \in 1..Len(S.headers[k].pieces)
    PROVE  /\ Ahead(S, R, k, j) \in Texts /\ Follows(S, R, k, j) \in Texts
           /\ Follows(S, R, k, j) = IF j = Len(S.headers[k].pieces) THEN From(S, R, k + 1)
                                 ELSE <<SP>> \o (S.headers[k].pieces[j + 1] \o Ahead(S, R, k, j + 1))
           /\ Ahead(S, R, k, j) = Rear(S.headers[k], j) \o (LineEnd \o Follows(S, R, k, j))
<1> DEFINE h == S.headers[k]
           m == Len(h.pieces)
           G == From(S, R, k + 1)
           next == h.pieces[j + 1]
           E == h.behind \o (LineEnd \o G)
<1>1. IsHeader(h) /\ G \in Texts
  <2>1. k + 1 \in 1..(Len(S.headers) + 1)
    BY DEF Sendable
  <2> QED
    BY <2>1, FromText DEF Sendable
<1>2. /\ m \in Nat /\ h.behind \in Texts /\ LineEnd \in Texts /\ <<SP>> \in Texts
      /\ \A i \in 1..m : h.pieces[i] \in Texts
      /\ \A i \in 0..m : Later(h, i) \in Texts
  <2> HIDE DEF h
  <2> QED BY <1>1, CharsAre, ShortTexts, LineEndText, HeaderParts, LineTexts DEF Blanks
<1>3. E \in Texts /\ LineEnd \o G \in Texts
  <2> HIDE DEF G, h
  <2> QED BY <1>1, <1>2, JoinText
<1>4. \A i \in 0..m : Later(h, i) \o E \in Texts
  <2> HIDE DEF E, h, m
  <2> QED BY <1>2, <1>3, JoinText
<1>5. \A i : Ahead(S, R, k, i) = Later(h, i) \o E
  BY DEF Ahead
<1>6. Follows(S, R, k, j) = IF j = m THEN G ELSE <<SP>> \o (next \o Ahead(S, R, k, j + 1))
  BY DEF Follows, Ahead
<1>7. CASE j = m
  <2>1. Later(h, j) = <<>> /\ Rear(h, j) = h.behind
    BY <1>1, <1>7, LaterShrinks DEF Rear
  <2>2. Ahead(S, R, k, j) = E
    <3> HIDE DEF E, h
    <3> QED BY <1>3, <1>5, <2>1, JoinEmpty
  <2> QED
    BY <1>1, <1>3, <1>6, <1>7, <2>1, <2>2
<1>8. CASE j # m
  <2>1. j + 1 \in 1..m /\ j \in 0..(m - 1) /\ j + 1 \in 0..m /\ j + 1 \in 2..m
    BY <1>2, <1>8
  <2>2. Later(h, j) = Lines(h)[j + 1] \o Later(h, j + 1) /\ Rear(h, j) = <<>>
    BY <1>1, <1>8, <2>1, LaterShrinks DEF Rear
  <2>3. Lines(h)[j + 1] = (LineEnd \o <<SP>>) \o next
    <3> HIDE DEF h
    <3> QED BY <1>1, <2>1, LineTexts DEF m
  <2> DEFINE sp == <<SP>>
             T == Later(h, j + 1)
             A == T \o E
             front == LineEnd \o sp
  <2>4. next \in Texts /\ T \in Texts /\ sp \in Texts /\ A \in Texts
    BY <1>2, <1>4, <2>1
  <2>5. front \in Texts
    <3> HIDE DEF sp
    <3> QED BY <1>2, <2>4, JoinText
  <2>6. Ahead(S, R, k, j + 1) = A /\ Ahead(S, R, k, j) = Later(h, j) \o E
    BY <1>5
  <2>7. Later(h, j) \o E = LineEnd \o (sp \o (next \o A))
    <3> HIDE DEF sp, T, A, front, E, next, h
    <3>1. Later(h, j) = (front \o next) \o T
      BY <2>2, <2>3 DEF front, sp, T
    <3>2. Regroups4(front, next, T, E)
      BY <1>3, <2>4, <2>5, Regroup4
    <3>3. next \o A \in Texts
      BY <2>4, JoinText
    <3>4. Regroups(LineEnd, sp, next \o A)
      BY <1>2, <2>4, <3>3, Regroup
    <3> QED
      BY <3>1, <3>2, <3>4 DEF Regroups, Regroups4, front, A
  <2>8. sp \o (next \o A) \in Texts
    <3> HIDE DEF sp, next, A
    <3> QED BY <2>4, JoinText
  <2>9. Follows(S, R, k, j) = sp \o (next \o A)
    BY <1>6, <1>8, <2>6
  <2>10. Ahead(S, R, k, j) = <<>> \o (LineEnd \o Follows(S, R, k, j)) /\ Ahead(S, R, k, j) \in Texts
    <3> DEFINE W == LineEnd \o Follows(S, R, k, j)
    <3>1. W \in Texts /\ Ahead(S, R, k, j) = W
      <4> HIDE DEF sp, next, A, E, h
      <4> QED BY <1>2, <2>6, <2>7, <2>8, <2>9, JoinText
    <3> HIDE DEF W
    <3> QED
      BY <3>1, JoinEmpty DEF W
  <2> QED
    BY <1>6, <1>8, <2>2, <2>8, <2>9, <2>10
<1> QED
  BY <1>7, <1>8

\* A header line is read from its first piece on.
LEMMA FirstPiece ==
    ASSUME NEW S, Sendable(S), NEW R \in Texts, NEW k \in 1..Len(S.headers)
    PROVE  From(S, R, k) = SoFar(S.headers[k], 1) \o (LineEnd \o Follows(S, R, k, 1))
<1> DEFINE h == S.headers[k]
           G == From(S, R, k + 1)
           piece == h.pieces[1]
           T == Later(h, 1)
           A == Ahead(S, R, k, 1)
           Y == LineEnd \o Follows(S, R, k, 1)
           L == Label(h)
           B == h.behind
           fold == FoldedValue(h.pieces)
           tail == Rear(h, 1)
<1>1. IsHeader(h) /\ G \in Texts /\ 1 \in 1..Len(h.pieces) /\ 0 \in 0..(Len(h.pieces) - 1)
  <2>1. k + 1 \in 1..(Len(S.headers) + 1) /\ IsHeader(h)
    BY DEF Sendable
  <2>2. Len(h.pieces) \in Nat /\ Len(h.pieces) > 0
    BY <2>1, HeaderParts
  <2>3. G \in Texts
    <3> HIDE DEF h
    <3> QED BY <2>1, FromText
  <2>4. 1 \in 1..Len(h.pieces) /\ 0 \in 0..(Len(h.pieces) - 1)
    <3> HIDE DEF h
    <3> QED BY <2>2
  <2> QED
    BY <2>1, <2>3, <2>4
<1>2. /\ piece \in Texts /\ T \in Texts /\ L \in Texts /\ B \in Texts /\ LineEnd \in Texts
      /\ tail \in Texts
  <2> HIDE DEF h
  <2>1. 1 \in 0..Len(h.pieces)
    BY <1>1, HeaderParts
  <2> QED
    BY <1>1, <2>1, LineEndText, HeaderParts, LineTexts DEF Blanks
<1>3. A \in Texts /\ Y \in Texts /\ A = tail \o Y
  <2>1. A \in Texts /\ Follows(S, R, k, 1) \in Texts /\ A = tail \o Y
    BY <1>1, AheadText
  <2> QED
    BY <2>1, LineEndText, JoinText
<1>4. fold = piece \o T /\ fold \in Texts
  <2>1. fold = Lines(h)[1] \o Later(h, 1)
    <3> HIDE DEF h
    <3>1. fold = Later(h, 0)
      BY <1>1, LaterShrinks
    <3>2. Later(h, 0) = Lines(h)[0 + 1] \o Later(h, 0 + 1)
      BY <1>1, LaterShrinks
    <3> QED
      BY <3>1, <3>2, 0 + 1 = 1
  <2>2. Lines(h)[1] = piece
    <3> HIDE DEF h
    <3> QED BY <1>1, LineTexts DEF piece
  <2> HIDE DEF piece, T, h, fold
  <2>3. fold = piece \o T
    BY <2>1, <2>2 DEF T
  <2> QED
    BY <1>2, <2>3, JoinText
<1>5. From(S, R, k) = (((L \o fold) \o B) \o LineEnd) \o G
  BY <1>1, FromText, HeaderLineParts
<1>6. A = T \o (B \o (LineEnd \o G))
  BY DEF Ahead
<1>7. SoFar(h, 1) = L \o (piece \o tail)
  BY <1>1, ValueGrows DEF SoFar
<1> HIDE DEF L, fold, B, G, T, piece, A, Y, tail
<1>8. From(S, R, k) = L \o (fold \o (B \o (LineEnd \o G)))
  <2>1. LineEnd \o G \in Texts /\ L \o fold \in Texts
    BY <1>1, <1>2, <1>4, JoinText
  <2>2. Regroups4(L, fold, B, LineEnd \o G)
    BY <1>2, <1>4, <2>1, Regroup4
  <2>3. (L \o fold) \o B \in Texts
    BY <1>2, <2>1, JoinText
  <2>4. Regroups((L \o fold) \o B, LineEnd, G)
    BY <1>1, <1>2, <2>3, Regroup
  <2> QED
    BY <1>5, <2>2, <2>4 DEF Regroups, Regroups4
<1>9. fold \o (B \o (LineEnd \o G)) = piece \o A
  <2>1. B \o (LineEnd \o G) \in Texts
    BY <1>1, <1>2, JoinText
  <2>2. Regroups(piece, T, B \o (LineEnd \o G))
    BY <1>2, <2>1, Regroup
  <2> QED
    BY <1>4, <1>6, <2>2 DEF Regroups
<1>10. piece \o A = (piece \o tail) \o Y /\ piece \o tail \in Texts
  <2>1. Regroups(piece, tail, Y)
    BY <1>2, <1>3, Regroup
  <2> QED
    BY <1>2, <1>3, <2>1, JoinText DEF Regroups
<1>11. Regroups(L, piece \o tail, Y)
  BY <1>2, <1>3, <1>10, Regroup
<1>12. From(S, R, k) = (L \o (piece \o tail)) \o Y
  BY <1>8, <1>9, <1>10, <1>11 DEF Regroups
<1> QED
  BY <1>7, <1>12 DEF Y

\* And goes on, when the blank in front of the next piece is gone.
LEMMA NextPiece ==
    ASSUME NEW S, Sendable(S), NEW R \in Texts, NEW k \in 1..Len(S.headers),
           NEW j \in 1..(Len(S.headers[k].pieces) - 1)
    PROVE  /\ Follows(S, R, k, j) = <<SP>> \o Drop(Follows(S, R, k, j), 1)
           /\ SoFar(S.headers[k], j) \o Drop(Follows(S, R, k, j), 1) =
                 SoFar(S.headers[k], j + 1) \o (LineEnd \o Follows(S, R, k, j + 1))
           /\ SoFar(S.headers[k], j + 1) =
                 SoFar(S.headers[k], j) \o (S.headers[k].pieces[j + 1] \o Rear(S.headers[k], j + 1))
<1> DEFINE h == S.headers[k]
           next == h.pieces[j + 1]
           A == Ahead(S, R, k, j + 1)
           Y == LineEnd \o Follows(S, R, k, j + 1)
           X == SoFar(h, j)
           L == Label(h)
           V == Value(h, j)
           W == Value(h, j + 1)
           tail == Rear(h, j + 1)
           sp == <<SP>>
<1>1. /\ IsHeader(h) /\ j \in 1..Len(h.pieces) /\ j + 1 \in 1..Len(h.pieces) /\ j # Len(h.pieces)
      /\ j \in 0..Len(h.pieces) /\ j + 1 \in 0..Len(h.pieces)
  <2>1. IsHeader(h)
    BY DEF Sendable
  <2>2. Len(h.pieces) \in Nat
    BY <2>1, HeaderParts
  <2> QED
    BY <2>1, <2>2
<1>2. /\ next \in Texts /\ X \in Texts /\ L \in Texts /\ V \in Texts /\ W \in Texts
      /\ tail \in Texts /\ sp \in Texts /\ Len(sp) = 1
  <2> HIDE DEF h
  <2> QED BY <1>1, CharsAre, ShortTexts, HeaderParts, LineTexts
<1>3. A \in Texts /\ Y \in Texts /\ A = tail \o Y
  <2>1. A \in Texts /\ Follows(S, R, k, j + 1) \in Texts /\ A = tail \o Y
    BY <1>1, AheadText
  <2> QED
    BY <2>1, LineEndText, JoinText
<1>4. Follows(S, R, k, j) = sp \o (next \o A)
  BY <1>1, AheadText
<1>5. X = L \o V
  <2>1. Rear(h, j) = <<>>
    BY <1>1 DEF Rear
  <2>2. V \o <<>> = V
    <3> HIDE DEF V
    <3> QED BY <1>2, JoinEmpty
  <2> QED
    BY <2>1, <2>2 DEF SoFar
<1>6. W = V \o next
  BY <1>1, ValueGrows
<1>7. SoFar(h, j + 1) = L \o (W \o tail)
  BY DEF SoFar
<1> HIDE DEF h, next, A, Y, X, L, V, W, tail, sp
<1>8. next \o A \in Texts /\ next \o tail \in Texts /\ W \o tail \in Texts /\ L \o V \in Texts
  BY <1>2, <1>3, JoinText
<1>9. Drop(Follows(S, R, k, j), 1) = next \o A
  BY <1>2, <1>4, <1>8, DropJoined
<1>10. SoFar(h, j + 1) = X \o (next \o tail)
  <2>1. Regroups(V, next, tail) /\ Regroups(L, V, next \o tail)
    BY <1>2, <1>8, Regroup
  <2> QED
    BY <1>5, <1>6, <1>7, <2>1 DEF Regroups
<1>11. X \o (next \o A) = (X \o (next \o tail)) \o Y
  <2>1. Regroups(next, tail, Y) /\ Regroups(X, next \o tail, Y)
    BY <1>2, <1>3, <1>8, Regroup
  <2> QED
    BY <1>3, <2>1 DEF Regroups
<1> QED
  BY <1>4, <1>9, <1>10, <1>11 DEF h, X, next, tail, Y, sp

-----------------------------------------------------------------------------
(* What the parser meets in a line.                                           *)

\* A text in which a CR never begins a line end.
CRsApart(s) ==
    s \in Texts /\ \A k \in 1..Len(s) : s[k] = CR => k < Len(s) /\ s[k + 1] \notin {CR, LF}
Tidy(s) == CRsApart(s) /\ Len(s) > 0 /\ ~Isspace(s[1])

\* The parts of a line that may be sent are such texts, and so is what they are joined to.
LEMMA CleanIs == \A s : Clean(s) => CRsApart(s)
BY TextSize DEF Clean, CRsApart, Text

LEMMA NoCRApart ==
    ASSUME NEW s \in Texts, \A k \in 1..Len(s) : s[k] # CR
    PROVE  CRsApart(s)
BY DEF CRsApart

LEMMA JoinApart ==
    ASSUME NEW a, NEW b, CRsApart(a), CRsApart(b)
    PROVE  CRsApart(a \o b)
<1> DEFINE s == a \o b
           m == Len(a)
           n == Len(b)
<1>1. /\ a \in Texts /\ b \in Texts /\ s \in Texts /\ m \in Nat /\ n \in Nat /\ Len(s) = m + n
      /\ \A i \in 1..m : s[i] = a[i]
      /\ \A i \in 1..n : s[m + i] = b[i]
  BY JoinText, JoinSize, JoinAt, TextSize DEF CRsApart
<1>2. /\ \A k \in 1..m : a[k] = CR => k < m /\ a[k + 1] \notin {CR, LF}
      /\ \A k \in 1..n : b[k] = CR => k < n /\ b[k + 1] \notin {CR, LF}
  BY DEF CRsApart
<1> HIDE DEF s, m, n
<1>3. ASSUME NEW k \in 1..(m + n), s[k] = CR
      PROVE  k < m + n /\ s[k + 1] \notin {CR, LF}
  <2>1. CASE k <= m
    <3>1. k \in 1..m
      BY <1>1, <2>1
    <3>2. k < m /\ a[k + 1] \notin {CR, LF}
      BY <1>1, <1>2, <1>3, <3>1
    <3>3. k + 1 \in 1..m
      BY <1>1, <3>1, <3>2
    <3> QED
      BY <1>1, <3>2, <3>3
  <2>2. CASE k > m
    <3>1. k - m \in 1..n /\ m + (k - m) = k
      BY <1>1, <2>2
    <3>2. k - m < n /\ b[(k - m) + 1] \notin {CR, LF}
      BY <1>1, <1>2, <1>3, <3>1
    <3>3. (k - m) + 1 \in 1..n /\ m + ((k - m) + 1) = k + 1
      BY <1>1, <3>1, <3>2
    <3> QED
      BY <1>1, <3>2, <3>3
  <2> QED
    BY <1>1, <2>1, <2>2
<1> QED
  BY <1>1, <1>3 DEF CRsApart, s

LEMMA BlanksApart == \A s : Blanks(s) => CRsApart(s)
BY CharsAre DEF Blanks, CRsApart

LEMMA ShortApart == CRsApart(<<SP>>) /\ CRsApart(<<Colon>>) /\ CRsApart(<<>>)
BY CharsAre, ShortTexts DEF CRsApart

\* The first character of two texts.
LEMMA FirstOfTwo ==
    ASSUME NEW a, NEW b, Tidy(a), CRsApart(b)
    PROVE  Tidy(a \o b)
<1>1. a \in Texts /\ b \in Texts /\ Len(a) \in Nat /\ Len(b) \in Nat /\ 1 \in 1..Len(a)
  BY TextSize DEF Tidy, CRsApart
<1>2. (a \o b)[1] = a[1] /\ Len(a \o b) = Len(a) + Len(b)
  BY <1>1, JoinAt, JoinSize
<1>3. CRsApart(a \o b)
  BY JoinApart DEF Tidy
<1> QED
  BY <1>1, <1>2, <1>3 DEF Tidy

LEMMA SpacelessApart ==
    ASSUME NEW s, Word(s)
    PROVE  Tidy(s)
<1>1. s \in Texts /\ Len(s) > 0 /\ DOMAIN s = 1..Len(s) /\ \A k \in 1..Len(s) : ~Isspace(s[k])
  BY TextSize DEF Word, Spaceless, Text
<1>2. \A k \in 1..Len(s) : s[k] # CR
  BY <1>1 DEF Isspace
<1>3. CRsApart(s) /\ Len(s) \in Nat
  BY <1>1, <1>2, NoCRApart, TextSize
<1> QED
  BY <1>1, <1>3 DEF Tidy

\* So a first line is one, and a header line as far as any of its pieces.
LEMMA OpeningTidy ==
    ASSUME NEW S, Sendable(S)
    PROVE  Tidy(Opening(S))
<1>1. Tidy(S.p1) /\ Tidy(S.p2)
  BY SpacelessApart DEF Sendable, StartLine
<1>2. CRsApart(S.p3)
  <2>1. S.p3 \in Texts /\ \A k \in DOMAIN S.p3 : S.p3[k] \notin {CR, LF}
    BY DEF Sendable, StartLine, Text
  <2> QED
    BY <2>1, TextSize, NoCRApart
<1>3. Tidy(S.p1 \o <<SP>>)
  BY <1>1, ShortApart, FirstOfTwo
<1>4. CRsApart(S.p2 \o <<SP>>)
  BY <1>1, ShortApart, JoinApart DEF Tidy
<1>5. Tidy((S.p1 \o <<SP>>) \o (S.p2 \o <<SP>>))
  BY <1>3, <1>4, FirstOfTwo
<1> QED
  BY <1>2, <1>5, FirstOfTwo DEF Opening

LEMMA ValueApart ==
    ASSUME NEW h, IsHeader(h)
    PROVE  \A j \in 0..Len(h.pieces) : CRsApart(Value(h, j))
<1> DEFINE m == Len(h.pieces)
           T == {j \in 0..m : CRsApart(Value(h, j))}
<1>1. /\ m \in Nat /\ h.pieces \in Seq(Texts)
      /\ \A k \in 1..m : CRsApart(h.pieces[k])
  BY HeaderParts, CleanIs
<1>2. 0 \in T
  <2>1. Value(h, 0) = <<>>
    BY <1>1, FlattenBeyond DEF Value
  <2>2. 0 \in 0..m
    BY <1>1
  <2> QED
    BY <2>1, <2>2, ShortApart
<1>3. ASSUME NEW k \in 1..m, k - 1 \in T
      PROVE  k \in T
  <2>1. Value(h, k) = Value(h, k - 1) \o h.pieces[k]
    BY <1>1, FlattenTo DEF Value
  <2>2. CRsApart(Value(h, k - 1)) /\ CRsApart(h.pieces[k]) /\ k \in 0..m
    BY <1>1, <1>3
  <2>3. CRsApart(Value(h, k))
    BY <2>1, <2>2, JoinApart
  <2> QED
    BY <2>2, <2>3
<1>4. 0..m \subseteq T
  <2> HIDE DEF T, m
  <2> QED BY <1>1, <1>2, <1>3, InductionUpTo
<1> QED
  BY <1>4

LEMMA SoFarTidy ==
    ASSUME NEW h, IsHeader(h), NEW j \in 1..Len(h.pieces)
    PROVE  Tidy(SoFar(h, j))
<1>1. Tidy(h.key) /\ CRsApart(h.before) /\ CRsApart(h.after) /\ CRsApart(h.behind)
  BY SpacelessApart, HeaderParts, BlanksApart DEF IsHeader, IsKey
<1>2. Tidy(Label(h))
  <2>1. Tidy(h.key \o h.before)
    BY <1>1, FirstOfTwo
  <2>2. Tidy((h.key \o h.before) \o <<Colon>>)
    BY <2>1, ShortApart, FirstOfTwo
  <2> QED
    BY <1>1, <2>2, FirstOfTwo DEF Label
<1>3. CRsApart(Value(h, j)) /\ CRsApart(Rear(h, j))
  <2>1. j \in 0..Len(h.pieces)
    BY HeaderParts
  <2> QED
    BY <1>1, <2>1, ValueApart, ShortApart DEF Rear
<1>4. CRsApart(Value(h, j) \o Rear(h, j))
  BY <1>3, JoinApart
<1> QED
  BY <1>2, <1>4, FirstOfTwo DEF SoFar

-----------------------------------------------------------------------------
(* Inside a line.                                                             *)

States == {"UNKNOWN", "STARTLINE", "HEADERS", "CR", "CRLF", "LSW", "BODY", "COMPLETE", "DEAD"}
PdTypes == pd \in [linedata : Texts, state : States, last_state : States] /\ wire \in Texts

\* The characters of a line and of its end.
LEMMA LineAt ==
    ASSUME NEW X \in Texts, NEW Y \in Texts
    PROVE  LET L == X \o (LineEnd \o Y)
           IN  /\ L \in Texts /\ L = (X \o LineEnd) \o Y
               /\ \A i \in 1..Len(X) : L[i] = X[i]
               /\ L[Len(X) + 1] = CR /\ L[Len(X) + 2] = LF
<1> DEFINE E == LineEnd \o Y
<1>1. E \in Texts /\ Len(E) = 2 + Len(Y) /\ E[1] = CR /\ E[2] = LF /\ Len(Y) \in Nat
  <2>0. LineEnd \in Texts /\ Len(LineEnd) = 2 /\ Len(Y) \in Nat
    BY LineEndText, TextSize
  <2>1. E \in Texts /\ Len(E) = 2 + Len(Y)
    BY <2>0, JoinText, JoinSize
  <2>3. \A i \in 1..Len(LineEnd) : E[i] = LineEnd[i]
    BY <2>0, JoinAt
  <2>2. 1 \in 1..2 /\ 2 \in 1..2
    OBVIOUS
  <2> QED
    BY <2>0, <2>1, <2>2, <2>3, LineEndText
<1>2. 1 \in 1..Len(E) /\ 2 \in 1..Len(E)
  BY <1>1
<1>3. Regroups(X, LineEnd, Y)
  BY LineEndText, Regroup
<1>4. X \o E = (X \o LineEnd) \o Y
  BY <1>3 DEF Regroups
<1> HIDE DEF E
<1>5. /\ X \o E \in Texts
      /\ \A i \in 1..Len(X) : (X \o E)[i] = X[i]
      /\ (X \o E)[Len(X) + 1] = E[1] /\ (X \o E)[Len(X) + 2] = E[2]
  BY <1>1, <1>2, JoinText, JoinAt
<1> QED
  BY <1>1, <1>4, <1>5 DEF E

\* At the end of a line.
LEMMA AtLineEnd ==
    ASSUME NEW X \in Texts, NEW Y \in Texts, NEW state \in {"STARTLINE", "HEADERS"},
           PdTypes, InText(X, Y, state), pd.state = "CRLF"
    PROVE  pd.linedata = X \o LineEnd /\ wire = Y /\ pd.last_state = state
<1>1. pd.linedata \o wire = (X \o LineEnd) \o Y
  BY LineAt DEF InText
<1>2. pd.last_state = state /\ Len(pd.linedata) = Len(X) + 2
  BY DEF InText
<1>3. X \o LineEnd \in Texts /\ Len(X \o LineEnd) = Len(X) + 2
  BY LineEndText, JoinText, JoinSize
<1>4. pd.linedata \in Texts /\ wire \in Texts
  BY DEF PdTypes
<1> QED
  BY <1>1, <1>2, <1>3, <1>4, SameSplit

\* A round of the loop within a line.
LEMMA LineStep ==
    ASSUME NEW X, Tidy(X), NEW Y \in Texts, NEW state \in {"STARTLINE", "HEADERS"},
           PdTypes, InText(X, Y, state), Len(wire) > 0, wire' = Drop(wire, 1),
           InLine \/ AfterCR \/ InLSW
    PROVE  /\ InText(X, Y, state)' /\ UNCHANGED msg /\ PdTypes'
           /\ pd'.state \in {"STARTLINE", "HEADERS", "CR", "CRLF"}
<1> DEFINE ld == pd.linedata
           d == Len(ld)
           n == Len(X)
           L == X \o (LineEnd \o Y)
<1>1. /\ ld \in Texts /\ wire \in Texts /\ d \in Nat /\ n \in Nat /\ n > 0
      /\ X \in Texts /\ ld \o wire = L
  BY TextSize DEF PdTypes, InText, Tidy, CRsApart
<1>2. /\ \A i \in 1..n : L[i] = X[i]
      /\ L[n + 1] = CR /\ L[n + 2] = LF
  BY <1>1, LineAt
<1>3. \A i \in 1..d : L[i] = ld[i]
  <2> HIDE DEF L
  <2>1. \A i \in 1..d : (ld \o wire)[i] = ld[i]
    BY <1>1, JoinAt
  <2> QED
    BY <1>1, <2>1
<1>4. /\ c \in Char /\ c = L[d + 1] /\ Append(ld, c) \in Texts /\ Drop(wire, 1) \in Texts
      /\ Append(ld, c) \o Drop(wire, 1) = L /\ Len(Append(ld, c)) = d + 1
      /\ Append(ld, c)[d + 1] = c
  <2> HIDE DEF L
  <2> QED
    BY <1>1, OneOver, Append1Text DEF c
<1> HIDE DEF L
<1>5. ASSUME NEW to \in States, NEW last \in States,
             pd' = [linedata |-> Append(ld, c), state |-> to, last_state |-> last],
             \/ to = state /\ d + 1 <= n
             \/ to = "CR" /\ last = state /\ d + 1 <= n + 1 /\ c = CR
             \/ to = "CRLF" /\ last = state /\ d + 1 = n + 2
      PROVE  /\ InText(X, Y, state)' /\ PdTypes'
             /\ pd'.state \in {"STARTLINE", "HEADERS", "CR", "CRLF"}
  <2>1. pd'.linedata = Append(ld, c) /\ pd'.state = to /\ pd'.last_state = last
    BY <1>5
  <2>2. PdTypes'
    BY <1>4, <1>5 DEF PdTypes
  <2>3. pd'.linedata \o wire' = X \o (LineEnd \o Y)
    BY <1>4, <2>1 DEF L
  <2>4. Len(pd'.linedata) = d + 1 /\ pd'.linedata[d + 1] = c /\ d + 1 \in Nat \ {0}
    BY <1>1, <1>4, <2>1
  <2>5. \/ pd'.state = state /\ Len(pd'.linedata) <= n
        \/ /\ pd'.state = "CR" /\ pd'.last_state = state
           /\ Len(pd'.linedata) \in 1..(n + 1) /\ pd'.linedata[Len(pd'.linedata)] = CR
        \/ pd'.state = "CRLF" /\ pd'.last_state = state /\ Len(pd'.linedata) = n + 2
    <3> HIDE DEF ld, d, n
    <3> QED BY <1>1, <1>5, <2>1, <2>4
  <2>6. pd'.state \in {"STARTLINE", "HEADERS", "CR", "CRLF"}
    BY <1>5, <2>1
  <2> QED
    BY <2>2, <2>3, <2>5, <2>6 DEF InText
<1>6. /\ pd.state \in States /\ pd.last_state \in States
      /\ pd = [linedata |-> ld, state |-> pd.state, last_state |-> pd.last_state]
      /\ state \in States /\ "CR" \in States /\ "CRLF" \in States
  BY DEF PdTypes, States
<1>7. CASE InLine
  <2>1. pd.state = state /\ d <= n
    BY <1>7 DEF InLine, InText
  <2>2. CASE c = CR
    <3>1. pd' = [linedata |-> Append(ld, c), state |-> "CR", last_state |-> pd.state]
      BY <1>6, <1>7, <2>2 DEF InLine, Append1
    <3>2. d + 1 <= n + 1
      BY <1>1, <2>1
    <3> QED
      BY <1>5, <1>6, <1>7, <2>1, <2>2, <3>1, <3>2 DEF InLine
  <2>3. CASE c # CR
    <3>1. pd' = [linedata |-> Append(ld, c), state |-> pd.state, last_state |-> pd.last_state]
      BY <1>6, <1>7, <2>3 DEF InLine, Append1
    <3>2. d # n
      BY <1>2, <1>4, <2>3
    <3>3. d + 1 <= n
      BY <1>1, <2>1, <3>2
    <3> QED
      BY <1>5, <1>6, <1>7, <2>1, <3>1, <3>3 DEF InLine
  <2> QED
    BY <2>2, <2>3
<1>8. CASE AfterCR
  <2>1. pd.state = "CR" /\ pd.last_state = state /\ d \in 1..(n + 1) /\ ld[d] = CR
    BY <1>8 DEF AfterCR, InText
  <2>2. CASE d <= n
    <3>1. d \in 1..n /\ d \in 1..d
      BY <1>1, <2>1, <2>2
    <3>2. X[d] = CR
      BY <1>2, <1>3, <2>1, <3>1
    <3>3. d < n /\ X[d + 1] \notin {CR, LF}
      BY <3>1, <3>2 DEF Tidy, CRsApart
    <3>4. c \notin {CR, LF} /\ d + 1 <= n
      <4>1. d + 1 \in 1..n
        BY <1>1, <3>3
      <4> QED
        BY <1>2, <1>4, <3>3, <4>1
    <3>5. pd' = [linedata |-> Append(ld, c), state |-> state, last_state |-> state]
      BY <1>6, <1>8, <2>1, <3>4 DEF AfterCR, Append1
    <3> QED
      BY <1>5, <1>6, <1>8, <3>4, <3>5 DEF AfterCR
  <2>3. CASE d = n + 1
    <3>1. c = LF
      BY <1>1, <1>2, <1>4, <2>3, (n + 1) + 1 = n + 2
    <3>2. SubSeq(ld \o <<c>>, 1, 2) # <<CR, LF>>
      <4>1. ld[1] = X[1] /\ X[1] # CR
        <5>1. 1 \in 1..n /\ 1 \in 1..d
          BY <1>1, <2>3
        <5>2. X[1] # CR
          BY DEF Tidy, Isspace
        <5> QED
          BY <1>2, <1>3, <5>1, <5>2
      <4> DEFINE u == ld \o <<c>>
      <4>2. u \in Texts /\ 2 \in 0..Len(u) /\ u[1] = ld[1]
        <5>1. u = Append(ld, c)
          BY <1>1, <1>4, Append1Text
        <5>2. \A i \in 1..d : Append(ld, c)[i] = ld[i]
          BY <1>1, <1>4, Append1Text
        <5>3. 2 \in 0..(d + 1) /\ 1 \in 1..d
          BY <1>1, <2>3
        <5>4. u \in Texts /\ Len(u) = d + 1
          BY <1>4, <5>1
        <5>5. u[1] = ld[1]
          <6> HIDE DEF u, d, ld
          <6> QED BY <5>1, <5>2, <5>3
        <5> QED
          <6> HIDE DEF u
          <6> QED BY <5>3, <5>4, <5>5
      <4> HIDE DEF u
      <4>3. SubSeq(u, 1, 2)[1] = u[1]
        BY <4>2, TakeDrop, 1 \in 1..2
      <4>4. <<CR, LF>>[1] = CR
        OBVIOUS
      <4>5. SubSeq(u, 1, 2) # <<CR, LF>>
        BY <4>1, <4>2, <4>3, <4>4
      <4> QED
        BY <4>5 DEF u
    <3>3. pd' = [linedata |-> Append(ld, c), state |-> "CRLF", last_state |-> state]
      BY <1>6, <1>8, <2>1, <3>1, <3>2 DEF AfterCR, Append1
    <3>4. d + 1 = n + 2
      BY <1>1, <2>3
    <3> QED
      BY <1>5, <1>6, <1>8, <3>3, <3>4 DEF AfterCR
  <2> QED
    BY <1>1, <2>1, <2>2, <2>3
<1>9. CASE InLSW
  <2>1. pd.state = "LSW" /\ pd.last_state = state /\ d < n /\ ~Isspace(X[d + 1])
    BY <1>9 DEF InLSW, InText
  <2>2. d + 1 \in 1..n /\ d + 1 <= n
    BY <1>1, <2>1
  <2>3. ~Isblank(c)
    BY <1>2, <1>4, <2>1, <2>2 DEF Isspace, Isblank
  <2>4. pd' = [linedata |-> Append(ld, c), state |-> state, last_state |-> state]
    BY <1>6, <1>9, <2>1, <2>3 DEF InLSW, Append1
  <2> QED
    BY <1>5, <1>6, <1>9, <2>2, <2>4 DEF InLSW
<1> QED
  BY <1>7, <1>8, <1>9

-----------------------------------------------------------------------------
(* Taking a line apart.                                                       *)

Spaces(s) == s \in Texts /\ \A k \in 1..Len(s) : Isspace(s[k])

\* Span of the four tests the parser uses, where the number is known.
LEMMA SpanSpaces ==
    ASSUME NEW s \in Texts, NEW n \in 0..Len(s),
           \A k \in 1..n : Isspace(s[k]), n < Len(s) => ~Isspace(s[n + 1])
    PROVE  Span(s, Isspace) = n
BY DEF Span, Texts

LEMMA SpanWord ==
    ASSUME NEW s \in Texts, NEW n \in 0..Len(s),
           \A k \in 1..n : ~Isspace(s[k]), n < Len(s) => Isspace(s[n + 1])
    PROVE  Span(s, LAMBDA x : ~Isspace(x)) = n
BY DEF Span, Texts

LEMMA SpanToColon ==
    ASSUME NEW s \in Texts, NEW n \in 0..Len(s),
           \A k \in 1..n : s[k] # Colon, n < Len(s) => s[n + 1] = Colon
    PROVE  Span(s, LAMBDA x : x # Colon) = n
BY DEF Span, Texts

LEMMA SpanToEnd ==
    ASSUME NEW s \in Texts, NEW n \in 0..Len(s),
           \A k \in 1..n : s[k] \notin {CR, LF}, n < Len(s) => s[n + 1] \in {CR, LF}
    PROVE  Span(s, LAMBDA x : x \notin {CR, LF}) = n
BY DEF Span, Texts

\* The first character of what follows a.
LEMMA NextIs ==
    ASSUME NEW a \in Texts, NEW b \in Texts, Len(b) > 0
    PROVE  /\ a \o b \in Texts /\ Len(a) \in 0..Len(a \o b) /\ (a \o b)[Len(a) + 1] = b[1]
           /\ \A k \in 1..Len(a) : (a \o b)[k] = a[k]
<1>1. Len(a) \in Nat /\ Len(b) \in Nat /\ Len(a \o b) = Len(a) + Len(b) /\ a \o b \in Texts
  BY TextSize, JoinSize, JoinText
<1>2. 1 \in 1..Len(b) /\ Len(a) \in 0..Len(a \o b)
  BY <1>1
<1>3. (a \o b)[Len(a) + 1] = b[1]
  BY <1>2, JoinAt
<1>4. \A k \in 1..Len(a) : (a \o b)[k] = a[k]
  BY JoinAt
<1> QED
  BY <1>1, <1>2, <1>3, <1>4

\* Spaces in front of another character are skipped, all of them.
LEMMA SkipSpaces ==
    ASSUME NEW a, Spaces(a), NEW b \in Texts, Len(b) > 0, ~Isspace(b[1])
    PROVE  SkipSpace(a \o b) = b
<1>1. a \in Texts /\ \A k \in 1..Len(a) : Isspace(a[k])
  BY DEF Spaces
<1> DEFINE s == a \o b
           n == Len(a)
<1>2. s \in Texts /\ n \in 0..Len(s) /\ ~Isspace(s[n + 1]) /\ \A k \in 1..n : Isspace(s[k])
  BY <1>1, NextIs
<1>3. Drop(s, n) = b
  BY <1>1, DropJoined
<1> HIDE DEF s, n
<1>4. Span(s, Isspace) = n
  BY <1>2, SpanSpaces
<1> QED
  BY <1>3, <1>4 DEF SkipSpace, s

\* No spaces, and nothing but spaces.
LEMMA SkipNothing ==
    ASSUME NEW b \in Texts, Len(b) > 0, ~Isspace(b[1])
    PROVE  SkipSpace(b) = b
<1>1. Spaces(<<>>) /\ <<>> \o b = b
  BY ShortTexts, JoinEmpty DEF Spaces
<1>2. SkipSpace(<<>> \o b) = b
  BY <1>1, SkipSpaces
<1> QED
  BY <1>1, <1>2

LEMMA SkipAll ==
    ASSUME NEW a, Spaces(a)
    PROVE  SkipSpace(a) = <<>>
<1>1. a \in Texts /\ Len(a) \in Nat /\ \A k \in 1..Len(a) : Isspace(a[k])
  BY TextSize DEF Spaces
<1>2. Len(a) \in 0..Len(a) /\ ~(Len(a) < Len(a))
  BY <1>1
<1>3. Span(a, Isspace) = Len(a)
  BY <1>1, <1>2, SpanSpaces
<1>4. Drop(a, Len(a)) \in Texts /\ Len(Drop(a, Len(a))) = Len(a) - Len(a)
  BY <1>1, <1>2, TakeDrop
<1>5. Drop(a, Len(a)) = <<>>
  BY <1>1, <1>4, TextSize
<1> QED
  BY <1>3, <1>5 DEF SkipSpace

\* Spaces behind a text that does not end in one are trimmed, all of them.
LEMMA TrimSpaces ==
    ASSUME NEW a \in Texts, a # <<>> => ~Isspace(a[Len(a)]), NEW b, Spaces(b)
    PROVE  TrimRight(a \o b) = a
<1>1. b \in Texts /\ \A k \in 1..Len(b) : Isspace(b[k])
  BY DEF Spaces
<1> DEFINE s == a \o b
           r == Reverse(s)
           m == Len(a)
           n == Len(b)
<1>2. /\ s \in Texts /\ m \in Nat /\ n \in Nat /\ Len(s) = m + n
      /\ \A k \in 1..m : s[k] = a[k]
      /\ \A k \in 1..n : s[m + k] = b[k]
  BY <1>1, JoinText, JoinSize, JoinAt, TextSize
<1>3. SubSeq(s, 1, m) = a
  BY <1>1, DropJoined
<1> HIDE DEF s
<1>4. r \in Texts /\ Len(r) = m + n /\ \A k \in 1..(m + n) : r[k] = s[((m + n) - k) + 1]
  BY <1>2, ReverseType DEF Texts
<1> HIDE DEF r
<1>5. ASSUME NEW k \in 1..n
      PROVE  Isspace(r[k])
  <2> HIDE DEF m, n
  <2>1. k \in 1..(m + n) /\ (n - k) + 1 \in 1..n /\ m + ((n - k) + 1) = ((m + n) - k) + 1
    BY <1>2
  <2>2. r[k] = b[(n - k) + 1]
    BY <1>2, <1>4, <2>1
  <2> QED
    BY <1>1, <2>1, <2>2 DEF n
<1>6. ASSUME n < m + n
      PROVE  ~Isspace(r[n + 1])
  <2> HIDE DEF m, n
  <2>1. n + 1 \in 1..(m + n) /\ ((m + n) - (n + 1)) + 1 = m /\ m \in 1..m /\ m > 0
    BY <1>2, <1>6
  <2>2. r[n + 1] = a[m]
    BY <1>2, <1>4, <2>1
  <2>3. a # <<>>
    BY <2>1, TextSize DEF m
  <2> QED
    BY <2>2, <2>3 DEF m
<1>7. Span(r, Isspace) = n
  <2> HIDE DEF n, m
  <2>1. n \in 0..Len(r)
    BY <1>2, <1>4
  <2> QED
    BY <1>4, <1>5, <1>6, <2>1, SpanSpaces
<1>8. Len(s) - n = m
  BY <1>2
<1> QED
  BY <1>3, <1>7, <1>8 DEF TrimRight, s, r

\* A word, and what is behind it.
LEMMA TakeWord ==
    ASSUME NEW a \in Texts, \A k \in 1..Len(a) : ~Isspace(a[k]),
           NEW b \in Texts, Len(b) > 0, Isspace(b[1])
    PROVE  /\ SubSeq(a \o b, 1, Span(a \o b, LAMBDA x : ~Isspace(x))) = a
           /\ Drop(a \o b, Len(a)) = b
<1> DEFINE s == a \o b
           n == Len(a)
<1>1. s \in Texts /\ n \in 0..Len(s) /\ Isspace(s[n + 1]) /\ \A k \in 1..n : ~Isspace(s[k])
  BY NextIs
<1>2. SubSeq(s, 1, n) = a /\ Drop(s, n) = b
  BY DropJoined
<1> HIDE DEF s, n
<1>3. Span(s, LAMBDA x : ~Isspace(x)) = n
  BY <1>1, SpanWord
<1> QED
  BY <1>2, <1>3 DEF s, n

\* The rest of the first line; a header line up to its colon.
LEMMA TakeRest ==
    ASSUME NEW a \in Texts, \A k \in 1..Len(a) : a[k] \notin {CR, LF}
    PROVE  SubSeq(a \o LineEnd, 1, Span(a \o LineEnd, LAMBDA x : x \notin {CR, LF})) = a
<1> DEFINE s == a \o LineEnd
           n == Len(a)
<1>1. s \in Texts /\ n \in 0..Len(s) /\ s[n + 1] = CR /\ \A k \in 1..n : s[k] \notin {CR, LF}
  BY LineEndText, NextIs
<1>2. SubSeq(s, 1, n) = a
  BY LineEndText, DropJoined
<1> HIDE DEF s, n
<1>3. Span(s, LAMBDA x : x \notin {CR, LF}) = n
  BY <1>1, SpanToEnd
<1> QED
  BY <1>2, <1>3 DEF s

LEMMA ToColon ==
    ASSUME NEW a \in Texts, \A k \in 1..Len(a) : a[k] # Colon, NEW b \in Texts
    PROVE  /\ Span(a \o (<<Colon>> \o b), LAMBDA x : x # Colon) = Len(a)
           /\ SubSeq(a \o (<<Colon>> \o b), 1, Len(a)) = a
           /\ Drop(a \o (<<Colon>> \o b), Len(a) + 1) = b
<1> DEFINE one == <<Colon>>
           e == one \o b
           s == a \o e
           n == Len(a)
<1>1. one \in Texts /\ Len(one) = 1 /\ one[1] = Colon
  BY CharsAre, ShortTexts
<1> HIDE DEF one
<1>2. e \in Texts /\ Len(e) = 1 + Len(b) /\ Len(b) \in Nat /\ e[1] = Colon
  <2>1. e[1] = one[1]
    <3>1. 1 \in 1..Len(one)
      BY <1>1
    <3> QED
      BY <1>1, <3>1, JoinAt
  <2> QED
    BY <1>1, <2>1, JoinText, JoinSize, TextSize
<1>3. Len(e) > 0
  BY <1>2
<1> HIDE DEF e
<1>4. s \in Texts /\ n \in 0..Len(s) /\ s[n + 1] = Colon /\ \A k \in 1..n : s[k] # Colon
  BY <1>2, <1>3, NextIs
<1>5. SubSeq(s, 1, n) = a
  BY <1>2, DropJoined
<1>6. Drop(s, n + 1) = b
  <2>1. Regroups(a, one, b)
    BY <1>1, Regroup
  <2>2. s = (a \o one) \o b
    BY <2>1 DEF Regroups, e
  <2>3. a \o one \in Texts /\ Len(a \o one) = n + 1
    BY <1>1, JoinText, JoinSize
  <2> HIDE DEF s, n
  <2>4. Drop((a \o one) \o b, Len(a \o one)) = b
    BY <2>3, DropJoined
  <2> QED
    BY <2>2, <2>3, <2>4
<1> HIDE DEF s, n
<1>7. Span(s, LAMBDA x : x # Colon) = n
  BY <1>4, SpanToColon
<1> QED
  BY <1>5, <1>6, <1>7 DEF s, n, e, one

\* parseStartLine finds the three parts of the first line.
LEMMA StartLineParsed ==
    ASSUME NEW S, Sendable(S), NEW m
    PROVE  parseStartLine(m, Opening(S) \o LineEnd) = setStartLine(m, S.p1, S.p2, S.p3)
<1> DEFINE p1 == S.p1
           p2 == S.p2
           p3 == S.p3
           sp == <<SP>>
           third == p3 \o LineEnd
           behind2 == sp \o third
           second == p2 \o behind2
           behind1 == sp \o second
           line == Opening(S) \o LineEnd
<1>1. /\ p1 \in Texts /\ \A k \in 1..Len(p1) : ~Isspace(p1[k])
      /\ p2 \in Texts /\ \A k \in 1..Len(p2) : ~Isspace(p2[k])
      /\ Len(p2) > 0
  BY TextSize DEF Sendable, StartLine, Word, Spaceless, Text
<1>2. /\ p3 \in Texts /\ \A k \in 1..Len(p3) : p3[k] \notin {CR, LF}
      /\ Len(p3) > 0 /\ ~Isspace(p3[1])
  BY TextSize DEF Sendable, StartLine, Text
<1>3. sp \in Texts /\ Len(sp) = 1 /\ sp[1] = SP /\ Spaces(sp) /\ Isspace(SP)
  <2>1. sp \in Texts /\ Len(sp) = 1 /\ sp[1] = SP
    BY CharsAre, ShortTexts
  <2>2. \A k \in 1..1 : k = 1
    OBVIOUS
  <2> QED
    BY <2>1, <2>2 DEF Spaces, Isspace
<1> HIDE DEF p1, p2, p3, sp
<1>4. third \in Texts /\ Len(third) > 0 /\ third[1] = p3[1]
  <2>1. 1 \in 1..Len(p3)
    BY <1>2, TextSize
  <2>2. Len(third) = Len(p3) + 2 /\ Len(p3) \in Nat
    BY <1>2, LineEndText, JoinSize, TextSize
  <2> QED
    BY <1>2, <2>1, <2>2, LineEndText, JoinText, JoinAt
<1>5. behind2 \in Texts /\ Len(behind2) > 0 /\ behind2[1] = SP
  <2> HIDE DEF third
  <2>1. 1 \in 1..Len(sp)
    BY <1>3
  <2>2. Len(behind2) = 1 + Len(third) /\ Len(third) \in Nat
    BY <1>3, <1>4, JoinSize, TextSize
  <2> QED
    BY <1>3, <1>4, <2>1, <2>2, JoinText, JoinAt
<1>6. second \in Texts /\ Len(second) > 0 /\ second[1] = p2[1]
  <2> HIDE DEF behind2
  <2>1. 1 \in 1..Len(p2)
    BY <1>1, TextSize
  <2>2. Len(second) = Len(p2) + Len(behind2) /\ Len(p2) \in Nat
    BY <1>1, <1>5, JoinSize, TextSize
  <2> QED
    BY <1>1, <1>5, <2>1, <2>2, JoinText, JoinAt
<1>7. behind1 \in Texts /\ Len(behind1) > 0 /\ behind1[1] = SP
  <2> HIDE DEF second
  <2>1. 1 \in 1..Len(sp)
    BY <1>3
  <2>2. Len(behind1) = 1 + Len(second) /\ Len(second) \in Nat
    BY <1>3, <1>6, JoinSize, TextSize
  <2> QED
    BY <1>3, <1>6, <2>1, <2>2, JoinText, JoinAt
<1>8. line = p1 \o behind1
  <2> DEFINE a == p1 \o sp
             b == p2 \o sp
  <2>1. a \in Texts /\ b \in Texts
    BY <1>1, <1>3, JoinText
  <2>2. line = ((a \o b) \o p3) \o LineEnd
    BY DEF Opening, p1, p2, p3, sp
  <2> HIDE DEF a, b, line, behind1, second, behind2, third
  <2>3. Regroups4(a, b, p3, LineEnd)
    BY <1>2, <2>1, LineEndText, Regroup4
  <2>4. Regroups(p2, sp, third) /\ Regroups(p1, sp, b \o third)
    BY <1>1, <1>3, <1>4, <2>1, JoinText, Regroup
  <2>5. line = a \o (b \o third)
    BY <2>2, <2>3 DEF Regroups4, third
  <2>6. b \o third = second
    BY <2>4 DEF Regroups, b, second, behind2
  <2>7. a \o (b \o third) = p1 \o (sp \o second)
    BY <2>4, <2>6 DEF Regroups, a
  <2> QED
    BY <2>5, <2>7 DEF behind1
<1> HIDE DEF line, behind1, second, behind2, third
<1>9. /\ SubSeq(line, 1, Span(line, LAMBDA x : ~Isspace(x))) = p1
      /\ Drop(line, Len(p1)) = behind1
  BY <1>1, <1>3, <1>7, <1>8, TakeWord
<1>10. SkipSpace(behind1) = second
  <2>1. ~Isspace(second[1])
    BY <1>1, <1>6, TextSize, 1 \in 1..Len(p2)
  <2> QED
    BY <1>3, <1>6, <2>1, SkipSpaces DEF behind1
<1>11. /\ SubSeq(second, 1, Span(second, LAMBDA x : ~Isspace(x))) = p2
       /\ Drop(second, Len(p2)) = behind2
  BY <1>1, <1>3, <1>5, TakeWord DEF second
<1>12. SkipSpace(behind2) = third
  BY <1>2, <1>3, <1>4, SkipSpaces DEF behind2
<1>13. SubSeq(third, 1, Span(third, LAMBDA x : x \notin {CR, LF})) = p3
  BY <1>2, TakeRest DEF third
<1>14. parseStartLine(m, line) = setStartLine(m, p1, p2, p3)
  BY <1>9, <1>10, <1>11, <1>12, <1>13 DEF parseStartLine
<1> QED
  BY <1>14 DEF line, p1, p2, p3

\* The indices of two texts joined.
LEMMA InTwoParts ==
    ASSUME NEW m \in Nat, NEW n \in Nat
    PROVE  \A k \in 1..(m + n) :
              k \in 1..m \/ (k - m \in 1..n /\ k = m + (k - m))
OBVIOUS

\* A header line is split at its colon, the blanks around key and value gone.
LEMMA HeaderLineTaken ==
    ASSUME NEW h, IsHeader(h)
    PROVE  LET line == SoFar(h, Len(h.pieces)) \o LineEnd
           IN  KeyOf(line) = h.key /\ ValueOf(line) = ValueIn(h)
<1> DEFINE V == ValueIn(h)
           colon == <<Colon>>
           kb == h.key \o h.before
           end == h.behind \o LineEnd
           remains == h.after \o (V \o end)
           line == SoFar(h, Len(h.pieces)) \o LineEnd
<1>1. /\ h.key \in Texts /\ Len(h.key) > 0
      /\ Blanks(h.before) /\ Blanks(h.after) /\ Blanks(h.behind)
      /\ Len(h.pieces) \in Nat /\ Len(h.pieces) > 0
      /\ \A k \in 1..Len(h.key) : ~Isspace(h.key[k]) /\ h.key[k] # Colon
  BY HeaderParts
<1>2. V \in Texts /\ Value(h, Len(h.pieces)) = V
  BY <1>1, LineTexts, ValueGrows, Len(h.pieces) \in 0..Len(h.pieces)
<1>3. h.before \in Texts /\ h.after \in Texts /\ h.behind \in Texts /\ colon \in Texts
  BY <1>1, CharsAre, ShortTexts DEF Blanks
<1>4. Spaces(h.before) /\ Spaces(h.after)
  BY <1>1 DEF Blanks, Spaces, Isspace
<1>5. Spaces(end) /\ end \in Texts
  <2>1. end \in Texts /\ Len(end) = Len(h.behind) + 2 /\ Len(h.behind) \in Nat
    BY <1>3, LineEndText, JoinText, JoinSize, TextSize
  <2>2. \A k \in 1..Len(h.behind) : Isspace(end[k])
    BY <1>1, <1>3, LineEndText, JoinAt DEF Blanks, Isspace
  <2>3. \A k \in 1..2 : Isspace(end[Len(h.behind) + k])
    <3>1. \A k \in 1..2 : end[Len(h.behind) + k] = LineEnd[k]
      BY <1>3, LineEndText, JoinAt
    <3>2. \A k \in 1..2 : k = 1 \/ k = 2
      OBVIOUS
    <3> QED
      BY <3>1, <3>2, LineEndText DEF Isspace
  <2>4. \A k \in 1..Len(end) : k \in 1..Len(h.behind) \/ (k - Len(h.behind) \in 1..2
                       /\ k = Len(h.behind) + (k - Len(h.behind)))
    BY <2>1
  <2> QED
    BY <2>1, <2>2, <2>3, <2>4 DEF Spaces
<1>6. line = kb \o (colon \o remains) /\ kb \in Texts /\ remains \in Texts /\ V \o end \in Texts
  <2> DEFINE b == V \o h.behind
             v == V \o end
             a == (kb \o colon) \o h.after
  <2>1. line = (a \o b) \o LineEnd
    BY <1>2 DEF SoFar, Label, Rear
  <2>2. kb \in Texts /\ b \in Texts
    BY <1>1, <1>2, <1>3, JoinText
  <2>3. kb \o colon \in Texts /\ v \in Texts
    BY <2>2, <1>2, <1>3, <1>5, JoinText
  <2>4. a \in Texts /\ remains \in Texts
    BY <2>3, <1>3, JoinText
  <2>5. /\ Regroups(a, b, LineEnd) /\ Regroups(V, h.behind, LineEnd)
        /\ Regroups(kb \o colon, h.after, v) /\ Regroups(kb, colon, remains)
    BY <1>2, <1>3, <2>2, <2>3, <2>4, LineEndText, Regroup
  <2>6. line = a \o v
    BY <2>1, <2>5 DEF Regroups
  <2>7. a \o v = (kb \o colon) \o remains
    BY <2>5 DEF Regroups
  <2> QED
    BY <2>6, <2>7, <2>5, <2>2, <2>3, <2>4 DEF Regroups
<1> HIDE DEF V, colon, kb, end, remains, line
<1>7. HeaderStart(line) = line
  <2>1. line \in Texts /\ Len(line) > 0 /\ line[1] = h.key[1]
    <3>1. colon \o remains \in Texts
      BY <1>3, <1>6, JoinText
    <3>2. kb[1] = h.key[1] /\ Len(kb) > 0
      <4>1. Len(kb) = Len(h.key) + Len(h.before) /\ Len(h.before) \in Nat /\ Len(h.key) \in Nat
        BY <1>1, <1>3, JoinSize, TextSize DEF kb
      <4>2. 1 \in 1..Len(h.key)
        BY <4>1, <1>1
      <4>3. kb[1] = h.key[1]
        BY <4>2, <1>1, <1>3, JoinAt DEF kb
      <4>4. Len(h.key) > 0
        BY <1>1
      <4>5. Len(kb) > 0
        <5>1. \A m, n \in Nat : m > 0 => m + n > 0
          OBVIOUS
        <5> QED
          BY <4>1, <4>4, <5>1
      <4> QED
        BY <4>3, <4>5
    <3>3. 1 \in 1..Len(kb) /\ Len(kb) \in Nat
      BY <3>2, <1>6, TextSize
    <3>4. Len(line) = Len(kb) + Len(colon \o remains) /\ Len(colon \o remains) \in Nat
      BY <1>6, <3>1, JoinSize, TextSize
    <3> QED
      BY <1>6, <3>1, <3>2, <3>3, <3>4, JoinText, JoinAt
  <2>2. 1 \in 1..Len(h.key)
    BY <1>1, TextSize
  <2> QED
    BY <2>1, <2>2, <1>1, SkipNothing DEF HeaderStart
<1>8. \A k \in 1..Len(kb) : kb[k] # Colon
  <2>1. \A k \in 1..Len(h.key) : kb[k] = h.key[k]
    BY <1>1, <1>3, JoinAt DEF kb
  <2>2. \A k \in 1..Len(h.before) : kb[Len(h.key) + k] = h.before[k] /\ h.before[k] = SP
    BY <1>1, <1>3, JoinAt DEF kb, Blanks
  <2>3. Len(kb) = Len(h.key) + Len(h.before) /\ Len(h.before) \in Nat /\ Len(h.key) \in Nat
    BY <1>1, <1>3, JoinSize, TextSize DEF kb
  <2>4. \A k \in 1..Len(kb) : k \in 1..Len(h.key) \/ (k - Len(h.key) \in 1..Len(h.before)
                       /\ k = Len(h.key) + (k - Len(h.key)))
    BY <2>3, InTwoParts
  <2> QED
    BY <1>1, <2>1, <2>2, <2>4, CharsAre
<1>9. /\ Span(line, LAMBDA x : x # Colon) = Len(kb) /\ SubSeq(line, 1, Len(kb)) = kb
      /\ Drop(line, Len(kb) + 1) = remains
  BY <1>6, <1>8, ToColon DEF colon
<1>10. TrimRight(kb) = h.key
  <2>1. ~Isspace(h.key[Len(h.key)])
    BY <1>1, TextSize, Len(h.key) \in 1..Len(h.key)
  <2> QED
    BY <1>1, <1>4, <2>1, TrimSpaces DEF kb
<1>11. KeyOf(line) = h.key
  <2>1. ~(Len(h.key) = 1 /\ h.key[1] \in OneLetter)
    BY DEF IsHeader, IsKey
  <2> QED
    BY <1>7, <1>9, <1>10, <2>1 DEF KeyOf
<1>12. TrimRight(SkipSpace(remains)) = V
  <2>1. CASE V = <<>>
    <3>1. remains = h.after \o end /\ Spaces(remains)
      <4>1. remains = h.after \o end
        BY <2>1, <1>5, JoinEmpty DEF remains
      <4>2. Len(remains) = Len(h.after) + Len(end) /\ Len(h.after) \in Nat /\ Len(end) \in Nat
        BY <4>1, <1>3, <1>5, JoinSize, TextSize
      <4>3. \A k \in 1..Len(h.after) : Isspace(remains[k])
        BY <4>1, <1>3, <1>4, <1>5, JoinAt DEF Spaces
      <4>4. \A k \in 1..Len(end) : Isspace(remains[Len(h.after) + k])
        BY <4>1, <1>3, <1>5, JoinAt DEF Spaces
      <4>5. \A k \in 1..Len(remains) : k \in 1..Len(h.after) \/ (k - Len(h.after) \in 1..Len(end)
                           /\ k = Len(h.after) + (k - Len(h.after)))
        BY <4>2
      <4> QED
        BY <4>1, <4>3, <4>4, <4>5, <1>6 DEF Spaces
    <3>2. SkipSpace(remains) = <<>>
      BY <3>1, SkipAll
    <3>3. TrimRight(<<>>) = <<>>
      <4>1. Spaces(<<>>) /\ <<>> \o <<>> = <<>>
        BY ShortTexts, JoinEmpty DEF Spaces
      <4> QED
        BY <4>1, ShortTexts, TrimSpaces
    <3> QED
      BY <3>2, <3>3, <2>1
  <2>2. CASE V # <<>>
    <3>1. Len(V) > 0 /\ ~Isspace(V[1]) /\ ~Isspace(V[Len(V)])
      BY <2>2, <1>2, TextSize DEF V, IsHeader, Trimmed
    <3>2. Len(V \o end) > 0 /\ (V \o end)[1] = V[1]
      <4>1. Len(V \o end) = Len(V) + Len(end) /\ Len(end) \in Nat /\ Len(V) \in Nat
        BY <1>2, <1>5, JoinSize, TextSize
      <4>2. 1 \in 1..Len(V)
        BY <3>1, <4>1
      <4> QED
        BY <3>1, <4>1, <4>2, <1>2, <1>5, JoinAt
    <3>3. SkipSpace(remains) = V \o end
      BY <3>1, <3>2, <1>4, <1>6, SkipSpaces DEF remains
    <3> QED
      BY <3>1, <3>3, <1>2, <1>5, TrimSpaces
  <2> QED
    BY <2>1, <2>2
<1>13. ValueOf(line) = V
  BY <1>7, <1>9, <1>12 DEF ValueOf
<1> QED
  BY <1>11, <1>13 DEF line, V

-----------------------------------------------------------------------------
(* What has been parsed, line by line.                                        *)

HeaderPairs == [key : Texts, value : Texts]

\* Meaning, by its indices.
LEMMA MeaningIs ==
    ASSUME NEW S, Sendable(S)
    PROVE  /\ Meaning(S) \in Seq(HeaderPairs) /\ Len(Meaning(S)) = Len(S.headers)
           /\ \A k \in 1..Len(S.headers) :
                 Meaning(S)[k] = [key |-> S.headers[k].key, value |-> ValueIn(S.headers[k])]
<1> DEFINE n == Len(S.headers)
<1>1. n \in Nat /\ DOMAIN S.headers = 1..n /\ \A k \in 1..n : IsHeader(S.headers[k])
  BY DEF Sendable
<1>2. ASSUME NEW k \in 1..n
      PROVE  [key |-> S.headers[k].key, value |-> ValueIn(S.headers[k])] \in HeaderPairs
  <2> DEFINE h == S.headers[k]
  <2>1. IsHeader(h)
    BY <1>1
  <2> HIDE DEF h
  <2>2. h.key \in Texts /\ Len(h.pieces) \in Nat /\ Value(h, Len(h.pieces)) = ValueIn(h)
    BY <2>1, HeaderParts, ValueGrows
  <2>3. ValueIn(h) \in Texts
    BY <2>1, <2>2, LineTexts, Len(h.pieces) \in 0..Len(h.pieces)
  <2>4. [key |-> h.key, value |-> ValueIn(h)] \in HeaderPairs
    BY <2>2, <2>3 DEF HeaderPairs
  <2> QED
    BY <2>4 DEF h
<1>3. Meaning(S) = [k \in 1..n |-> [key |-> S.headers[k].key, value |-> ValueIn(S.headers[k])]]
  BY <1>1 DEF Meaning
<1>4. Meaning(S) \in [1..n -> HeaderPairs]
  BY <1>2, <1>3
<1>5. Meaning(S) \in Seq(HeaderPairs) /\ Len(Meaning(S)) = n
  BY <1>1, <1>4, SeqDef, LenProperties
<1> QED
  BY <1>3, <1>5

\* What has been parsed is a message in memory.
LEMMA ParsedType ==
    ASSUME NEW S, Sendable(S), NEW k \in 1..(Len(S.headers) + 1)
    PROVE  /\ Parsed(S, k) \in AnyMessage
           /\ SubSeq(Meaning(S), 1, k - 1) \in Seq(HeaderPairs)
<1>1. /\ Meaning(S) \in Seq(HeaderPairs) /\ Len(Meaning(S)) = Len(S.headers)
      /\ Len(S.headers) \in Nat
  BY MeaningIs DEF Sendable
<1>2. SubSeq(Meaning(S), 1, k - 1) \in Seq(HeaderPairs)
  BY <1>1, SubSeqProperties
<1>3. Reverse(SubSeq(Meaning(S), 1, k - 1)) \in Seq(HeaderPairs)
  BY <1>2, ReverseType
<1>4. S.p1 \in Texts /\ S.p2 \in Texts /\ S.p3 \in Texts /\ <<>> \in Texts /\ k - 1 \in Nat
  BY <1>1, ShortTexts DEF Sendable, StartLine, Word, Spaceless, Text
<1> QED
  BY <1>2, <1>3, <1>4 DEF Parsed, AnyMessage, HeaderPairs

\* After the first line, and after one header line more.
LEMMA FirstParsed ==
    ASSUME NEW S, Sendable(S)
    PROVE  parseStartLine(NewMessage, Opening(S) \o LineEnd) = Parsed(S, 1)
<1>1. SubSeq(Meaning(S), 1, 0) = <<>>
  BY MeaningIs, SubSeqProperties, EmptySeq
<1>2. Reverse(<<>>) = <<>>
  BY EmptySeq DEF Reverse
<1>3. parseStartLine(NewMessage, Opening(S) \o LineEnd) = setStartLine(NewMessage, S.p1, S.p2, S.p3)
  BY StartLineParsed
<1>4. Parsed(S, 1) = [p1 |-> S.p1, p2 |-> S.p2, p3 |-> S.p3,
                      headers |-> <<>>, header_cnt |-> 0, body |-> <<>>]
  <2>1. 1 - 1 = 0
    OBVIOUS
  <2> QED
    BY <1>1, <1>2, <2>1 DEF Parsed
<1> QED
  BY <1>3, <1>4 DEF setStartLine, NewMessage

LEMMA NextParsed ==
    ASSUME NEW S, Sendable(S), NEW k \in 1..Len(S.headers)
    PROVE  LET h == S.headers[k]
           IN  parseHeaderLine(Parsed(S, k), SoFar(h, Len(h.pieces)) \o LineEnd) = Parsed(S, k + 1)
<1> DEFINE h == S.headers[k]
           M == Meaning(S)
           x == [key |-> h.key, value |-> ValueIn(h)]
           done == SubSeq(M, 1, k - 1)
           line == SoFar(h, Len(h.pieces)) \o LineEnd
<1>1. M \in Seq(HeaderPairs) /\ Len(M) = Len(S.headers) /\ M[k] = x /\ Len(S.headers) \in Nat
  BY MeaningIs DEF Sendable
<1>2. x \in HeaderPairs
  BY <1>1, ElementOfSeq
<1>3. done \in Seq(HeaderPairs)
  BY ParsedType, k \in 1..(Len(S.headers) + 1)
<1> HIDE DEF M
<1>4. SubSeq(M, 1, k) = Append(done, x)
  BY <1>1, AppendProperties, SubSeqProperties, k \in 1..Len(M)
<1>5. Reverse(SubSeq(M, 1, k)) = <<x>> \o Reverse(done)
  BY <1>2, <1>3, <1>4, ReverseAppend
<1>6. KeyOf(line) = x.key /\ ValueOf(line) = x.value
  <2>1. IsHeader(h)
    BY DEF Sendable
  <2> QED
    BY <2>1, HeaderLineTaken
<1>7. Parsed(S, k) = [p1 |-> S.p1, p2 |-> S.p2, p3 |-> S.p3,
                      headers |-> Reverse(done), header_cnt |-> k - 1, body |-> <<>>]
  BY DEF Parsed, M
<1>8. Parsed(S, k + 1) = [p1 |-> S.p1, p2 |-> S.p2, p3 |-> S.p3,
                          headers |-> <<x>> \o Reverse(done), header_cnt |-> k, body |-> <<>>]
  BY <1>5, (k + 1) - 1 = k DEF Parsed, M
<1>10. [key |-> KeyOf(line), value |-> ValueOf(line)] = x
  BY <1>6
<1> HIDE DEF line, done, x
<1>9. parseHeaderLine(Parsed(S, k), line) = Parsed(S, k + 1)
  <2>1. (k - 1) + 1 = k
    OBVIOUS
  <2>2. parseHeaderLine(Parsed(S, k), line) =
           [Parsed(S, k) EXCEPT !.headers = <<x>> \o @, !.header_cnt = @ + 1]
    BY <1>10 DEF parseHeaderLine, setValue
  <2> DEFINE z == <<x>> \o Reverse(done)
             old == Reverse(done)
             Rec(r, n) == [p1 |-> S.p1, p2 |-> S.p2, p3 |-> S.p3,
                           headers |-> r, header_cnt |-> n, body |-> <<>>]
  <2> HIDE DEF z, old
  <2>3. Parsed(S, k) = Rec(old, k - 1) /\ Parsed(S, k + 1) = Rec(z, k)
    BY <1>7, <1>8 DEF z, old
  <2>4. [Rec(old, k - 1) EXCEPT !.headers = z] = Rec(z, k - 1)
    OBVIOUS
  <2>5. [Rec(z, k - 1) EXCEPT !.header_cnt = k] = Rec(z, k)
    OBVIOUS
  <2>6. Rec(old, k - 1).headers = old /\ Rec(old, k - 1).header_cnt = k - 1
    OBVIOUS
  <2> HIDE DEF Rec
  <2>7. parseHeaderLine(Parsed(S, k), line) =
           [[Rec(old, k - 1) EXCEPT !.headers = z] EXCEPT !.header_cnt = k]
    BY <2>1, <2>2, <2>3, <2>6 DEF z, old
  <2> QED
    BY <2>3, <2>4, <2>5, <2>7
<1> QED
  BY <1>9 DEF line

-----------------------------------------------------------------------------
(* From line to line.                                                         *)

\* The line end, one character at a time.
LEMMA LineEndJoined == LineEnd = <<CR>> \o <<LF>>
<1>1. /\ <<CR>> \in Texts /\ Len(<<CR>>) = 1 /\ <<CR>>[1] = CR
      /\ <<LF>> \in Texts /\ Len(<<LF>>) = 1 /\ <<LF>>[1] = LF
  BY CharsAre, ShortTexts
<1>2. <<CR>> \o <<LF>> \in Texts /\ Len(<<CR>> \o <<LF>>) = 2
  BY <1>1, JoinText, JoinSize
<1>3. (<<CR>> \o <<LF>>)[1] = CR
  BY <1>1, JoinAt, 1 \in 1..1
<1>4. (<<CR>> \o <<LF>>)[1 + 1] = LF
  BY <1>1, JoinAt, 1 \in 1..1
<1>5. \A i \in 1..2 : i = 1 \/ i = 1 + 1
  OBVIOUS
<1>6. 1 + 1 = 2
  OBVIOUS
<1> QED
  BY <1>2, <1>3, <1>4, <1>5, <1>6, LineEndText, SeqEqual DEF Texts

\* The first character of a header line or of the blank line is no blank.
LEMMA LineStarts ==
    ASSUME NEW S, Sendable(S), NEW R \in Texts, NEW k \in 1..(Len(S.headers) + 1)
    PROVE  /\ From(S, R, k) \in Texts /\ Len(From(S, R, k)) > 0 /\ ~Isblank(From(S, R, k)[1])
           /\ k > Len(S.headers) => From(S, R, k)[1] = CR /\ Drop(From(S, R, k), 1) = <<LF>> \o R
           /\ k <= Len(S.headers) =>
                 From(S, R, k)[1] = SoFar(S.headers[k], 1)[1] /\ ~Isspace(From(S, R, k)[1])
<1>1. Len(S.headers) \in Nat
  BY DEF Sendable
<1>2. From(S, R, k) \in Texts
  BY FromText
<1>3. CASE k > Len(S.headers)
  <2>1. From(S, R, k) = LineEnd \o R
    BY <1>1, <1>3, FromText, k = Len(S.headers) + 1
  <2>2. <<CR>> \in Texts /\ <<LF>> \in Texts /\ Len(<<CR>>) = 1 /\ <<CR>>[1] = CR
    BY CharsAre, ShortTexts
  <2>3. <<LF>> \o R \in Texts
    BY <2>2, JoinText
  <2>4. LineEnd = <<CR>> \o <<LF>>
    BY LineEndJoined
  <2>5. Regroups(<<CR>>, <<LF>>, R)
    BY <2>2, Regroup
  <2>6. From(S, R, k) = <<CR>> \o (<<LF>> \o R)
    BY <2>1, <2>4, <2>5 DEF Regroups
  <2>7. Drop(From(S, R, k), 1) = <<LF>> \o R
    BY <2>2, <2>3, <2>6, DropJoined
  <2>8. From(S, R, k)[1] = CR
    BY <2>2, <2>3, <2>6, JoinAt, 1 \in 1..1
  <2>9. Len(From(S, R, k)) > 0
    <3>1. Len(From(S, R, k)) = 1 + Len(<<LF>> \o R) /\ Len(<<LF>> \o R) \in Nat
      BY <2>2, <2>3, <2>6, JoinSize, TextSize
    <3> QED
      BY <3>1
  <2> QED
    BY <1>2, <1>3, <1>1, <2>7, <2>8, <2>9, CharsAre DEF Isblank
<1>4. CASE k <= Len(S.headers)
  <2> DEFINE X == SoFar(S.headers[k], 1)
             remains == LineEnd \o Follows(S, R, k, 1)
  <2>1. k \in 1..Len(S.headers)
    BY <1>1, <1>4
  <2>2. IsHeader(S.headers[k])
    BY <2>1 DEF Sendable
  <2>3. 1 \in 1..Len(S.headers[k].pieces)
    BY <2>2, HeaderParts
  <2>4. Tidy(X) /\ Follows(S, R, k, 1) \in Texts
    BY <2>1, <2>2, <2>3, SoFarTidy, AheadText
  <2>5. From(S, R, k) = X \o remains
    BY <2>1, FirstPiece
  <2>6. remains \in Texts
    BY <2>4, LineEndText, JoinText
  <2> HIDE DEF X, remains
  <2>7. X \in Texts /\ Len(X) > 0 /\ ~Isspace(X[1]) /\ Len(X) \in Nat
    BY <2>4, TextSize DEF Tidy, CRsApart
  <2>8. From(S, R, k)[1] = X[1]
    BY <2>5, <2>6, <2>7, JoinAt, 1 \in 1..Len(X)
  <2>9. Len(From(S, R, k)) > 0
    <3>1. Len(From(S, R, k)) = Len(X) + Len(remains) /\ Len(remains) \in Nat
      BY <2>5, <2>6, <2>7, JoinSize, TextSize
    <3> QED
      BY <2>7, <3>1
  <2>10. ~Isblank(X[1])
    BY <2>7 DEF Isspace, Isblank
  <2> QED
    BY <1>1, <1>2, <1>4, <2>7, <2>8, <2>9, <2>10 DEF X
<1> QED
  BY <1>1, <1>3, <1>4

\* After a line the next one begins, or the blank line.
LEMMA NextLine ==
    ASSUME NEW S, Sendable(S), NEW R \in Texts, NEW k \in 1..(Len(S.headers) + 1),
           PdTypes, wire = From(S, R, k), wire' = Drop(wire, 1), msg' = Parsed(S, k),
           pd' = [pd EXCEPT !.linedata = <<c>>, !.state = IF c = CR THEN "CR" ELSE "HEADERS"]
    PROVE  /\ PdTypes'
           /\ k > Len(S.headers) => AtEnd(S, R)'
           /\ k <= Len(S.headers) => AtHeader(S, R, k, 1)'
<1>1. Len(wire) > 0 /\ wire \in Texts /\ c \in Char
  BY LineStarts, TextSize, 1 \in 1..Len(wire) DEF c
<1>2. <<c>> \in Texts /\ Len(<<c>>) = 1 /\ wire' \in Texts /\ Drop(wire, 1) \in Texts /\ <<c>> \o wire' = wire
  <2>1. 1 \in 0..Len(wire)
    BY <1>1, TextSize
  <2>2. <<c>> \in Texts /\ Len(<<c>>) = 1
    BY <1>1, ShortTexts
  <2>3. <<>> \in Texts
    BY ShortTexts
  <2>4. Append(<<>>, c) \o wire' = wire /\ wire' \in Texts
    BY <1>1, <2>3, OneOver, JoinEmpty DEF c
  <2>5. Append(<<>>, c) = <<c>>
    BY <1>1, <2>2, <2>3, Append1Text, JoinEmpty
  <2> QED
    BY <2>2, <2>4, <2>5
<1>3. pd' = [linedata |-> <<c>>, state |-> IF c = CR THEN "CR" ELSE "HEADERS",
             last_state |-> pd.last_state] /\ pd.last_state \in States
  BY DEF PdTypes
<1>4. PdTypes'
  BY <1>2, <1>3 DEF PdTypes, States
<1>5. ASSUME k > Len(S.headers) PROVE AtEnd(S, R)'
  <2>1. c = CR /\ Drop(wire, 1) = <<LF>> \o R
    BY <1>5, LineStarts DEF c
  <2>2. k = Len(S.headers) + 1
    BY <1>5 DEF Sendable
  <2> QED
    BY <2>1, <2>2, <1>3 DEF AtEnd
<1>6. ASSUME k <= Len(S.headers) PROVE AtHeader(S, R, k, 1)'
  <2> DEFINE X == SoFar(S.headers[k], 1)
  <2>1. k \in 1..Len(S.headers) /\ IsHeader(S.headers[k])
    BY <1>6 DEF Sendable
  <2>2. 1 \in 1..Len(S.headers[k].pieces)
    BY <2>1, HeaderParts
  <2>3. Len(X) \in Nat /\ Len(X) > 0
    BY <2>1, <2>2, SoFarTidy, TextSize DEF Tidy, CRsApart
  <2>4. From(S, R, k) = X \o (LineEnd \o Follows(S, R, k, 1))
    BY <2>1, FirstPiece
  <2>5. c # CR
    BY <1>6, LineStarts DEF c, Isspace
  <2>6. pd'.linedata = <<c>> /\ pd'.state = "HEADERS"
    BY <1>3, <2>5
  <2>7. InText(X, Follows(S, R, k, 1), "HEADERS")'
    <3>1. pd'.linedata \o wire' = X \o (LineEnd \o Follows(S, R, k, 1))
      BY <1>2, <2>4, <2>6
    <3>2. Len(pd'.linedata) <= Len(X)
      BY <1>2, <2>3, <2>6
    <3> QED
      BY <2>6, <3>1, <3>2 DEF InText
  <2> QED
    BY <2>7 DEF AtHeader
<1> QED
  BY <1>4, <1>5, <1>6

\* The line is cut at its own CRLF, the first one.
LEMMA FoldCuts ==
    ASSUME NEW X, Tidy(X), pd.linedata = X \o LineEnd, PdTypes, Fold
    PROVE  pd' = [pd EXCEPT !.state = "LSW", !.linedata = X]
<1> DEFINE L == X \o LineEnd
           AtCRLF(n) == /\ L[n + 1] = CR /\ L[n + 2] = LF
                        /\ \A k \in 1..n : <<L[k], L[k + 1]>> # <<CR, LF>>
<1>1. X \in Texts /\ Len(X) \in Nat /\ L \in Texts /\ Len(L) = Len(X) + 2
  <2>1. X \in Texts /\ Len(X) \in Nat
    BY TextSize DEF Tidy, CRsApart
  <2> QED
    BY <2>1, LineEndText, JoinText, JoinSize
<1>2. \A k \in 1..Len(X) : L[k] = X[k]
  BY <1>1, LineEndText, JoinAt
<1>3. L[Len(X) + 1] = CR /\ L[Len(X) + 2] = LF
  BY <1>1, LineEndText, JoinAt, 1 \in 1..2, 2 \in 1..2
<1> HIDE DEF L
<1>4. \A k \in 1..Len(X) : ~(L[k] = CR /\ L[k + 1] = LF)
  <2> SUFFICES ASSUME NEW k \in 1..Len(X), L[k] = CR PROVE L[k + 1] # LF
    OBVIOUS
  <2>1. k < Len(X) /\ X[k + 1] \notin {CR, LF}
    BY <1>2 DEF Tidy, CRsApart
  <2>2. k + 1 \in 1..Len(X)
    BY <1>1, <2>1
  <2> QED
    BY <1>2, <2>1, <2>2
<1>5. AtCRLF(Len(X))
  BY <1>3, <1>4
<1>6. ASSUME NEW n \in 0..(Len(L) - 2), AtCRLF(n) PROVE n = Len(X)
  <2> SUFFICES ASSUME n # Len(X) PROVE FALSE
    OBVIOUS
  <2>1. n + 1 \in 1..Len(X) /\ (n + 1) + 1 = n + 2
    BY <1>1
  <2> QED
    BY <1>4, <1>6, <2>1
<1>7. Len(X) \in 0..(Len(L) - 2)
  BY <1>1
<1>8. (CHOOSE n \in 0..(Len(L) - 2) : AtCRLF(n)) = Len(X)
  <2> HIDE DEF AtCRLF
  <2> QED
    BY <1>5, <1>6, <1>7
<1>9. SubSeq(L, 1, Len(X)) = X
  BY <1>1, LineEndText, DropJoined DEF L
<1>10. pd.linedata = L
  BY DEF L
<1> QED
  BY <1>8, <1>9, <1>10 DEF Fold

\* A line that goes on does so with the next piece of its header.
LEMMA FoldStep ==
    ASSUME NEW S, Sendable(S), NEW R \in Texts, NEW k \in 1..Len(S.headers),
           NEW j \in 1..Len(S.headers[k].pieces),
           PdTypes, AtHeader(S, R, k, j), Len(wire) > 0, wire' = Drop(wire, 1), Fold
    PROVE  /\ PdTypes' /\ j + 1 \in 1..Len(S.headers[k].pieces)
           /\ AtHeader(S, R, k, j + 1)'
<1> DEFINE h == S.headers[k]
           X == SoFar(h, j)
           Z == SoFar(h, j + 1)
           Y == Follows(S, R, k, j)
           more == h.pieces[j + 1] \o Rear(h, j + 1)
<1>1. IsHeader(h) /\ Len(S.headers) \in Nat
  BY DEF Sendable
<1>2. Tidy(X) /\ X \in Texts /\ Y \in Texts
  BY <1>1, SoFarTidy, AheadText DEF Tidy, CRsApart
<1>3. pd.linedata = X \o LineEnd /\ wire = Y /\ pd.last_state = "HEADERS" /\ msg = Parsed(S, k)
  <2>1. InText(X, Y, "HEADERS") /\ msg = Parsed(S, k)
    BY DEF AtHeader
  <2>2. pd.state = "CRLF"
    BY DEF Fold
  <2> HIDE DEF X, Y
  <2> QED
    BY <1>2, <2>1, <2>2, AtLineEnd
<1>4. Isblank(wire[1]) /\ msg' = msg
  BY DEF Fold, c
<1>5. Len(h.pieces) \in Nat
  BY <1>1, HeaderParts
<1>6. j # Len(h.pieces)
  <2> SUFFICES ASSUME j = Len(h.pieces) PROVE FALSE
    OBVIOUS
  <2>1. Y = From(S, R, k + 1)
    BY AheadText
  <2> QED
    BY <1>1, <1>3, <1>4, <2>1, LineStarts, k + 1 \in 1..(Len(S.headers) + 1)
<1>7. j + 1 \in 1..Len(h.pieces) /\ j \in 1..(Len(h.pieces) - 1)
  BY <1>5, <1>6
<1>8. X \o wire' = Z \o (LineEnd \o Follows(S, R, k, j + 1)) /\ Z = X \o more
  BY <1>3, <1>7, NextPiece
<1>9. more \in Texts /\ Len(more) > 0 /\ ~Isspace(more[1])
  <2>1. h.pieces[j + 1] \in Texts /\ Len(h.pieces[j + 1]) > 0 /\ ~Isspace(h.pieces[j + 1][1])
    BY <1>1, <1>7, HeaderParts, j + 1 \in 2..Len(h.pieces)
  <2>2. Rear(h, j + 1) \in Texts
    BY <1>1, <1>7, LineTexts
  <2> DEFINE a == h.pieces[j + 1]
             b == Rear(h, j + 1)
  <2> HIDE DEF a, b
  <2>3. a \in Texts /\ Len(a) > 0 /\ ~Isspace(a[1]) /\ b \in Texts
    BY <2>1, <2>2 DEF a, b
  <2>4. Len(a \o b) = Len(a) + Len(b) /\ Len(b) \in Nat /\ Len(a) \in Nat
    BY <2>3, JoinSize, TextSize
  <2>5. (a \o b)[1] = a[1]
    BY <2>3, <2>4, JoinAt, 1 \in 1..Len(a)
  <2>6. Len(a \o b) > 0
    BY <2>3, <2>4
  <2> QED
    BY <2>3, <2>5, <2>6, JoinText DEF a, b
<1> HIDE DEF X, Z, Y, more
<1>10. Len(X) < Len(Z) /\ ~Isspace(Z[Len(X) + 1])
  <2>1. Len(Z) = Len(X) + Len(more) /\ Len(X) \in Nat /\ Len(more) \in Nat
    BY <1>2, <1>8, <1>9, JoinSize, TextSize
  <2>2. Z[Len(X) + 1] = more[1]
    BY <1>2, <1>8, <1>9, NextIs
  <2>3. Len(X) < Len(Z)
    BY <1>9, <2>1
  <2> QED
    BY <1>9, <2>2, <2>3
<1>11. pd' = [pd EXCEPT !.state = "LSW", !.linedata = X]
  BY <1>2, <1>3, FoldCuts
<1>12. pd' = [linedata |-> X, state |-> "LSW", last_state |-> "HEADERS"]
  BY <1>3, <1>11 DEF PdTypes
<1>13. wire' \in Texts
  BY <1>2, <1>3, TakeDrop, TextSize, 1 \in 0..Len(wire)
<1>14. PdTypes'
  BY <1>2, <1>12, <1>13 DEF PdTypes, States
<1>15. InText(Z, Follows(S, R, k, j + 1), "HEADERS")'
  BY <1>8, <1>10, <1>12 DEF InText
<1> QED
  BY <1>3, <1>4, <1>7, <1>14, <1>15 DEF AtHeader, Z

\* The first line does not go on.
LEMMA NoFold ==
    ASSUME NEW S, Sendable(S), NEW R \in Texts, PdTypes, AtStart(S, R), pd.state = "CRLF"
    PROVE  /\ pd.linedata = Opening(S) \o LineEnd /\ wire = From(S, R, 1)
           /\ pd.last_state = "STARTLINE" /\ msg = NewMessage /\ ~Fold
<1>1. Opening(S) \in Texts /\ Len(S.headers) \in Nat
  BY OpeningTidy DEF Tidy, CRsApart, Sendable
<1>2. 1 \in 1..(Len(S.headers) + 1)
  BY <1>1
<1>3. From(S, R, 1) \in Texts /\ ~Isblank(From(S, R, 1)[1])
  BY <1>2, LineStarts
<1>4. InText(Opening(S), From(S, R, 1), "STARTLINE") /\ msg = NewMessage
  BY DEF AtStart
<1>5. pd.linedata = Opening(S) \o LineEnd /\ wire = From(S, R, 1) /\ pd.last_state = "STARTLINE"
  BY <1>1, <1>3, <1>4, AtLineEnd
<1> QED
  BY <1>3, <1>4, <1>5 DEF Fold, c

\* When the first line is complete it has been parsed, and the headers begin.
LEMMA EndStart ==
    ASSUME NEW S, Sendable(S), NEW R \in Texts, PdTypes, AtStart(S, R),
           wire' = Drop(wire, 1), EndLine
    PROVE  /\ PdTypes'
           /\ 1 > Len(S.headers) => AtEnd(S, R)'
           /\ 1 <= Len(S.headers) => AtHeader(S, R, 1, 1)'
<1>1. pd.state = "CRLF"
  BY DEF EndLine
<1>2. /\ pd.linedata = Opening(S) \o LineEnd /\ wire = From(S, R, 1)
      /\ pd.last_state = "STARTLINE" /\ msg = NewMessage
  BY <1>1, NoFold
<1>3. msg' = Parsed(S, 1)
  BY <1>2, FirstParsed DEF EndLine, IsStart
<1>4. pd' = [pd EXCEPT !.linedata = <<c>>, !.state = IF c = CR THEN "CR" ELSE "HEADERS"]
  BY DEF EndLine
<1>5. 1 \in 1..(Len(S.headers) + 1)
  BY DEF Sendable
<1> QED
  BY <1>2, <1>3, <1>4, <1>5, NextLine

\* When a header line is complete, its value has no piece left.
LEMMA WholeLine ==
    ASSUME NEW S, Sendable(S), NEW R \in Texts, NEW k \in 1..Len(S.headers),
           NEW j \in 1..Len(S.headers[k].pieces),
           PdTypes, AtHeader(S, R, k, j), pd.state = "CRLF", ~Isblank(c)
    PROVE  /\ j = Len(S.headers[k].pieces)
           /\ pd.linedata = SoFar(S.headers[k], j) \o LineEnd /\ wire = From(S, R, k + 1)
           /\ pd.last_state = "HEADERS" /\ msg = Parsed(S, k)
<1> DEFINE h == S.headers[k]
           X == SoFar(h, j)
           Y == Follows(S, R, k, j)
<1>1. IsHeader(h) /\ Len(S.headers) \in Nat
  BY DEF Sendable
<1>2. Tidy(X) /\ X \in Texts /\ Y \in Texts
  BY <1>1, SoFarTidy, AheadText DEF Tidy, CRsApart
<1>3. pd.linedata = X \o LineEnd /\ wire = Y /\ pd.last_state = "HEADERS" /\ msg = Parsed(S, k)
  <2>1. InText(X, Y, "HEADERS") /\ msg = Parsed(S, k)
    BY DEF AtHeader
  <2> HIDE DEF X, Y
  <2> QED
    BY <1>2, <2>1, AtLineEnd
<1>4. j = Len(h.pieces)
  <2> SUFFICES ASSUME j # Len(h.pieces) PROVE FALSE
    OBVIOUS
  <2>1. j \in 1..(Len(h.pieces) - 1)
    BY <1>1, HeaderParts
  <2>2. Y = <<SP>> \o Drop(Y, 1)
    BY <2>1, NextPiece
  <2>3. Len(Y) > 0
    <3>1. <<SP>> \in Texts /\ Len(<<SP>>) = 1
      BY CharsAre, ShortTexts
    <3>2. h.pieces[j + 1] \o Ahead(S, R, k, j + 1) \in Texts
      BY <1>1, <2>1, HeaderParts, AheadText, JoinText, j + 1 \in 1..Len(h.pieces)
    <3>3. Y = <<SP>> \o (h.pieces[j + 1] \o Ahead(S, R, k, j + 1))
      BY <2>1, AheadText
    <3> HIDE DEF Y
    <3>4. Len(Y) = 1 + Len(h.pieces[j + 1] \o Ahead(S, R, k, j + 1))
      BY <3>1, <3>2, <3>3, JoinSize
    <3>5. Len(h.pieces[j + 1] \o Ahead(S, R, k, j + 1)) \in Nat
      BY <3>2, TextSize
    <3>6. \A n \in Nat : 1 + n > 0
      OBVIOUS
    <3> QED
      BY <3>4, <3>5, <3>6
  <2> HIDE DEF Y
  <2>4. Drop(Y, 1) \in Texts
    BY <1>2, <2>3, TakeDrop, TextSize, 1 \in 0..Len(Y)
  <2>5. Y[1] = SP
    <3>1. <<SP>> \in Texts /\ Len(<<SP>>) = 1 /\ <<SP>>[1] = SP
      BY CharsAre, ShortTexts
    <3>2. (<<SP>> \o Drop(Y, 1))[1] = SP
      BY <2>4, <3>1, JoinAt, 1 \in 1..1
    <3> QED
      BY <2>2, <3>2
  <2> QED
    BY <1>3, <2>5 DEF Isblank, c
<1>5. wire = From(S, R, k + 1)
  BY <1>3, <1>4, AheadText
<1> QED
  BY <1>3, <1>4, <1>5

\* Then the line is parsed.
LEMMA EndHeader ==
    ASSUME NEW S, Sendable(S), NEW R \in Texts, NEW k \in 1..Len(S.headers),
           NEW j \in 1..Len(S.headers[k].pieces),
           PdTypes, AtHeader(S, R, k, j), wire' = Drop(wire, 1), EndLine
    PROVE  /\ PdTypes'
           /\ k + 1 > Len(S.headers) => AtEnd(S, R)'
           /\ k + 1 <= Len(S.headers) => AtHeader(S, R, k + 1, 1)'
<1> DEFINE h == S.headers[k]
           X == SoFar(h, j)
<1>1. IsHeader(h) /\ Len(S.headers) \in Nat
  BY DEF Sendable
<1>3. /\ j = Len(h.pieces) /\ pd.linedata = X \o LineEnd /\ wire = From(S, R, k + 1)
      /\ pd.last_state = "HEADERS" /\ msg = Parsed(S, k)
  BY WholeLine DEF EndLine
<1>4. j = Len(h.pieces)
  BY <1>3
<1>5. wire = From(S, R, k + 1)
  BY <1>3
<1>6. msg' = Parsed(S, k + 1)
  BY <1>3, <1>4, NextParsed DEF EndLine, IsStart
<1>7. pd' = [pd EXCEPT !.linedata = <<c>>, !.state = IF c = CR THEN "CR" ELSE "HEADERS"]
  BY DEF EndLine
<1>8. k + 1 \in 1..(Len(S.headers) + 1)
  BY <1>1
<1> HIDE DEF h, X
<1> QED
  BY <1>5, <1>6, <1>7, <1>8, NextLine

-----------------------------------------------------------------------------
(* The length of the body.                                                    *)

\* What atoi returns, and so what the Content-Length says.
LEMMA NumberRead == \A text : atoi(text) \in Nat
<1> SUFFICES ASSUME NEW text PROVE atoi(text) \in Nat
  OBVIOUS
<1> DEFINE Found == {n \in DOMAIN Numerals : text = utoa(n)}
<1>1. Found \subseteq Nat
  BY NumeralsAssumption, TextSize
<1> QED
  BY <1>1 DEF atoi

LEMMA OldestNat == \A headers : OldestLength(headers) \in Nat
  BY NumberRead DEF OldestLength

\* The Content-Length that getValue finds in what was parsed is the one that was set
\* first.
LEMMA OldestIsFound ==
    ASSUME NEW M \in Seq(HeaderPairs), NEW m, m.headers = Reverse(M)
    PROVE  getmsglen(m) = OldestLength(M)
<1> DEFINE n == Len(M)
           B == Reverse(M)
           Is(x) == SameKey(x.key, Content_Length)
           ahead == {k \in 1..n : Is(B[k])}
           found == {k \in 1..n : Is(M[k])}
<1>1. n \in Nat /\ DOMAIN M = 1..n
  BY LenProperties
<1>2. Len(B) = n /\ \A k \in 1..n : B[k] = M[(n - k) + 1]
  BY ReverseType
<1>3. B \in Seq(HeaderPairs) /\ DOMAIN B = 1..n
  BY <1>2, ReverseType, LenProperties
<1> HIDE DEF n, Is
<1>4. Matching(m, Content_Length) = ahead
  BY <1>3 DEF Matching, Is
<1>5. OldestLength(M) =
         IF found = {} THEN 0
         ELSE atoi(M[CHOOSE k \in found : \A j \in found : j <= k].value)
  BY <1>1 DEF OldestLength, Is
<1> HIDE DEF B
<1>6. \A k \in 1..n : (n - k) + 1 \in 1..n /\ (n - ((n - k) + 1)) + 1 = k
  BY <1>1
<1>7. \A k \in 1..n : k \in ahead <=> (n - k) + 1 \in found
  BY <1>2, <1>6
<1>8. CASE ahead = {}
  <2>1. found = {}
    <3> SUFFICES ASSUME NEW k \in found PROVE FALSE
      OBVIOUS
    <3>1. k \in 1..n /\ (n - k) + 1 \in 1..n /\ (n - ((n - k) + 1)) + 1 = k
      BY <1>6
    <3>2. (n - k) + 1 \in ahead
      BY <1>7, <3>1
    <3> QED
      BY <1>8, <3>2
  <2>2. getValue(m, Content_Length) = Null
    BY <1>4, <1>8 DEF getValue
  <2> QED
    BY <1>5, <2>1, <2>2 DEF getmsglen
<1>9. CASE ahead # {}
  <2> DEFINE First(k) == \A j \in ahead : k <= j
             Latest(k) == \A j \in found : j <= k
  <2>1. ahead \subseteq Nat
    BY <1>1
  <2> HIDE DEF ahead, found
  <2>2. \E k \in ahead : First(k)
    BY <1>9, <2>1, LeastElement
  <2> HIDE DEF First
  <2>3. PICK k \in ahead : k = (CHOOSE i \in ahead : First(i)) /\ First(k)
    BY <2>2
  <2>4. k \in 1..n /\ (n - k) + 1 \in 1..n
    BY <1>6 DEF ahead
  <2> DEFINE x == (n - k) + 1
  <2>5. x \in found
    BY <1>7, <2>4
  <2>6. Latest(x)
    <3> SUFFICES ASSUME NEW j \in found PROVE j <= x
      OBVIOUS
    <3>1. j \in 1..n /\ (n - j) + 1 \in 1..n /\ (n - ((n - j) + 1)) + 1 = j
      BY <1>6 DEF found
    <3>2. (n - j) + 1 \in ahead
      BY <1>7, <3>1
    <3>3. k <= (n - j) + 1
      BY <2>3, <3>2 DEF First
    <3> QED
      BY <1>1, <2>4, <3>1, <3>3
  <2>7. \A y \in found : Latest(y) => y = x
    <3> SUFFICES ASSUME NEW y \in found, Latest(y) PROVE y = x
      OBVIOUS
    <3>1. y <= x /\ x <= y
      BY <2>5, <2>6
    <3>2. y \in 1..n
      BY DEF found
    <3> QED
      BY <1>1, <2>4, <3>1, <3>2
  <2> HIDE DEF Latest, x
  <2>8. (CHOOSE i \in found : Latest(i)) = x
    BY <2>5, <2>6, <2>7
  <2>9. OldestLength(M) = atoi(M[x].value)
    BY <1>5, <2>5, <2>8 DEF Latest
  <2>10. m.headers[k] = M[x]
    BY <1>2, <2>4 DEF B, x
  <2>11. getValue(m, Content_Length) = M[x].value
    BY <1>4, <1>9, <2>3, <2>10 DEF getValue, First
  <2>12. M[x].value # Null
    <3>1. M[x] \in HeaderPairs
      BY <1>1, <2>4, ElementOfSeq DEF x, n
    <3> QED
      BY <3>1, NullAssumption DEF HeaderPairs
  <2> QED
    BY <2>9, <2>11, <2>12 DEF getmsglen
<1> QED
  BY <1>8, <1>9

-----------------------------------------------------------------------------
(* Every step of the parser reads on.                                         *)

\* The headers are all there; getmsglen finds their oldest Content-Length.
LEMMA ParsedLength ==
    ASSUME NEW S, Sendable(S)
    PROVE  /\ getmsglen(Parsed(S, Len(S.headers) + 1)) = OldestLength(Meaning(S))
           /\ \A body : getmsglen([Parsed(S, Len(S.headers) + 1) EXCEPT !.body = body])
                           = OldestLength(Meaning(S))
           /\ Parsed(S, Len(S.headers) + 1).headers = Reverse(Meaning(S))
<1> DEFINE M == Meaning(S)
           P == Parsed(S, Len(S.headers) + 1)
<1>1. M \in Seq(HeaderPairs) /\ Len(M) = Len(S.headers) /\ Len(S.headers) \in Nat
  BY MeaningIs DEF Sendable
<1>2. SubSeq(M, 1, (Len(S.headers) + 1) - 1) = M
  <2>1. (Len(S.headers) + 1) - 1 = Len(M)
    BY <1>1
  <2> HIDE DEF M
  <2>2. Len(M) \in Nat /\ SubSeq(M, 1, Len(M)) \in Seq(HeaderPairs) /\ Len(SubSeq(M, 1, Len(M))) = Len(M)
        /\ \A i \in 1..Len(M) : SubSeq(M, 1, Len(M))[i] = M[i]
    BY <1>1, SubSeqProperties, LenProperties
  <2>3. SubSeq(M, 1, Len(M)) = M
    BY <1>1, <2>2, SeqEqual
  <2> QED
    BY <2>1, <2>3
<1>3. P.headers = Reverse(M)
  BY <1>2 DEF Parsed
<1>4. ASSUME NEW body PROVE [P EXCEPT !.body = body].headers = Reverse(M)
  BY <1>2 DEF Parsed
<1> HIDE DEF P, M
<1>5. getmsglen(P) = OldestLength(M)
  BY <1>1, <1>3, OldestIsFound
<1>6. \A body : getmsglen([P EXCEPT !.body = body]) = OldestLength(M)
  BY <1>1, <1>4, OldestIsFound
<1> QED
  BY <1>3, <1>5, <1>6 DEF P, M

\* The blank line ends the headers: the body begins, or there is none.
LEMMA EndOfHeaders ==
    ASSUME NEW S, Sendable(S), NEW R \in Texts, PdTypes, AtEnd(S, R),
           wire' = Drop(wire, 1), InLine \/ AfterCR \/ Fold \/ EndLine \/ Dies \/ InLSW
    PROVE  PdTypes' /\ InBody(S, R)'
<1> DEFINE N == OldestLength(Meaning(S))
           P == Parsed(S, Len(S.headers) + 1)
<1>1. msg = P /\ pd.state = "CR" /\ pd.linedata = <<CR>> /\ wire = <<LF>> \o R
  BY DEF AtEnd
<1>2. AfterCR
  BY <1>1 DEF InLine, Fold, EndLine, Dies, InLSW
<1>3. <<LF>> \in Texts /\ <<CR>> \in Texts /\ Len(<<LF>>) = 1 /\ <<LF>>[1] = LF
  BY CharsAre, ShortTexts
<1>4. c = LF /\ wire' = R
  <2>1. (<<LF>> \o R)[1] = LF
    BY <1>3, JoinAt, 1 \in 1..1
  <2> QED
    BY <1>1, <1>3, <2>1, DropJoined DEF c
<1>5. <<CR>> \o <<LF>> = <<CR, LF>> /\ SubSeq(<<CR, LF>>, 1, 2) = <<CR, LF>>
  <2>1. <<CR>> \o <<LF>> = LineEnd
    BY LineEndJoined
  <2>2. SubSeq(LineEnd \o <<>>, 1, Len(LineEnd)) = LineEnd
    BY LineEndText, ShortTexts, DropJoined
  <2>3. LineEnd \o <<>> = LineEnd
    BY LineEndText, JoinEmpty
  <2> QED
    BY <2>1, <2>2, <2>3, LineEndText DEF LineEnd
<1>6. getmsglen(msg) = N /\ N \in Nat
  BY <1>1, ParsedLength, OldestNat
<1>7. msg' = P /\ P.body = <<>> /\ <<>> \in Texts /\ Len(<<>>) = 0
  BY <1>1, <1>2, ShortTexts DEF AfterCR, Parsed
<1>8. pd' = [Append1(pd) EXCEPT !.state = IF N > 0 THEN "BODY" ELSE "COMPLETE"]
  BY <1>1, <1>2, <1>4, <1>5, <1>6, CharsAre DEF AfterCR
<1>9. pd' = [linedata |-> Append(<<CR>>, LF), state |-> IF N > 0 THEN "BODY" ELSE "COMPLETE",
             last_state |-> pd.last_state] /\ pd.last_state \in States
  BY <1>1, <1>4, <1>8 DEF Append1, PdTypes
<1>10. Append(<<CR>>, LF) \in Texts
  BY <1>3, CharsAre, Append1Text
<1>11. PdTypes'
  BY <1>4, <1>9, <1>10 DEF PdTypes, States
<1>12. InBody(S, R)'
  <2>1. P = [P EXCEPT !.body = P.body]
    BY DEF Parsed
  <2>2. <<>> \o R = R
    BY JoinEmpty
  <2>3. pd'.state = IF N > 0 THEN "BODY" ELSE "COMPLETE"
    BY <1>9
  <2> HIDE DEF P
  <2> SUFFICES /\ msg' = [P EXCEPT !.body = msg'.body]
               /\ msg'.body \in Texts /\ msg'.body \o wire' = R
               /\ \/ pd'.state = "BODY" /\ Len(msg'.body) < N
                  \/ pd'.state = "COMPLETE" /\ Len(msg'.body) = N
    BY DEF InBody, P
  <2> QED
    BY <1>4, <1>6, <1>7, <2>1, <2>2, <2>3
<1> QED
  BY <1>11, <1>12

\* The body grows by what has arrived of it, and by no more.
LEMMA BodyPiece ==
    ASSUME NEW S, Sendable(S), NEW R \in Texts, PdTypes, InBody(S, R),
           len \in 0..Len(wire), appendBodyPiece
    PROVE  PdTypes' /\ InBody(S, R)' /\ len' \in 0..Len(wire')
<1> DEFINE N == OldestLength(Meaning(S))
           P == Parsed(S, Len(S.headers) + 1)
           b == msg.body
           n == IF len > N - Len(b) THEN N - Len(b) ELSE len
<1>1. /\ msg = [P EXCEPT !.body = b] /\ b \in Texts /\ b \o wire = R
      /\ pd.state = "BODY" /\ Len(b) < N
  BY DEF InBody, appendBodyPiece
<1>2. getmsglen(msg) = N /\ N \in Nat
  BY <1>1, ParsedLength, OldestNat
<1>3. BodyGrows(n) /\ Use(n) /\ len > 0
  BY <1>2 DEF appendBodyPiece, Looping
<1>4. Len(b) \in Nat /\ Len(wire) \in Nat /\ wire \in Texts
  BY <1>1, TextSize DEF PdTypes
<1>5. n \in 0..Len(wire) /\ n \in 0..len /\ Len(b) + n <= N
  BY <1>1, <1>2, <1>4
<1> HIDE DEF n, N
<1> DEFINE more == SubSeq(wire, 1, n)
           left == Drop(wire, n)
<1>6. more \in Texts /\ left \in Texts /\ Len(more) = n /\ Len(left) = Len(wire) - n /\ more \o left = wire
  BY <1>4, <1>5, TakeDrop
<1>7. wire' = left /\ len' = len - n
  BY <1>3 DEF Use
<1>8. msg' = [msg EXCEPT !.body = b \o more]
  BY <1>3 DEF BodyGrows
<1>9. pd' = [pd EXCEPT !.state = IF N = Len(b) + n THEN "COMPLETE" ELSE @]
  BY <1>2, <1>3 DEF BodyGrows
<1> HIDE DEF more, left
<1>10. pd' = [linedata |-> pd.linedata, last_state |-> pd.last_state,
              state |-> IF N = Len(b) + n THEN "COMPLETE" ELSE "BODY"]
       /\ pd.linedata \in Texts /\ pd.last_state \in States
  BY <1>1, <1>9 DEF PdTypes
<1>11. PdTypes'
  BY <1>6, <1>7, <1>10 DEF PdTypes, States
<1>12. len' \in 0..Len(wire')
  BY <1>4, <1>5, <1>6, <1>7
<1>13. P \in AnyMessage
  BY ParsedType, Len(S.headers) + 1 \in 1..(Len(S.headers) + 1) DEF Sendable
<1>14. msg' = [P EXCEPT !.body = b \o more] /\ msg'.body = b \o more
  <2> HIDE DEF P, b
  <2>1. [[P EXCEPT !.body = b] EXCEPT !.body = b \o more] = [P EXCEPT !.body = b \o more]
    BY <1>13 DEF AnyMessage
  <2>2. msg' = [P EXCEPT !.body = b \o more]
    BY <1>1, <1>8, <2>1
  <2>3. [P EXCEPT !.body = b \o more].body = b \o more
    BY <1>13 DEF AnyMessage
  <2> QED
    BY <2>2, <2>3
<1>15. b \o more \in Texts /\ Len(b \o more) = Len(b) + n
  BY <1>1, <1>6, JoinText, JoinSize
<1>16. (b \o more) \o left = R
  <2>1. Regroups(b, more, left)
    BY <1>1, <1>6, Regroup
  <2> QED
    BY <1>1, <1>6, <2>1 DEF Regroups
<1>17. InBody(S, R)'
  <2> SUFFICES /\ msg' = [P EXCEPT !.body = msg'.body]
               /\ msg'.body \in Texts /\ msg'.body \o wire' = R
               /\ \/ pd'.state = "BODY" /\ Len(msg'.body) < N
                  \/ pd'.state = "COMPLETE" /\ Len(msg'.body) = N
    BY DEF InBody, N
  <2> HIDE DEF P, b
  <2>1. \/ pd'.state = "BODY" /\ Len(b) + n < N
        \/ pd'.state = "COMPLETE" /\ Len(b) + n = N
    BY <1>2, <1>4, <1>5, <1>10
  <2> QED
    BY <1>7, <1>14, <1>15, <1>16, <2>1
<1> QED
  BY <1>11, <1>12, <1>17

\* A round of the loop uses one character, which is there.
LEMMA UseOne ==
    ASSUME PdTypes, len \in 0..Len(wire), len > 0, Use(1)
    PROVE  wire' = Drop(wire, 1) /\ len' \in 0..Len(wire') /\ Len(wire) > 0
<1>1. wire \in Texts /\ Len(wire) \in Nat
  BY TextSize DEF PdTypes
<1>2. Len(wire) > 0 /\ 1 \in 0..Len(wire)
  BY <1>1
<1>3. Len(Drop(wire, 1)) = Len(wire) - 1
  BY <1>1, <1>2, TakeDrop
<1> QED
  BY <1>1, <1>2, <1>3 DEF Use

\* A message under construction is no null pointer.
LEMMA NotNull ==
    ASSUME NEW S, Sendable(S)
    PROVE  /\ NewMessage # Null
           /\ \A k \in 1..(Len(S.headers) + 1) : Parsed(S, k) # Null
           /\ \A body \in Texts : [Parsed(S, Len(S.headers) + 1) EXCEPT !.body = body] # Null
<1>1. NewMessage \in AnyMessage
  <2>1. <<>> \in Seq([key : Texts, value : Texts]) /\ <<>> \in Texts
    BY EmptySeq, ShortTexts
  <2> QED
    BY <2>1 DEF NewMessage, AnyMessage
<1>2. \A k \in 1..(Len(S.headers) + 1) : Parsed(S, k) \in AnyMessage
  BY ParsedType
<1>3. Len(S.headers) + 1 \in 1..(Len(S.headers) + 1)
  BY DEF Sendable
<1>4. \A body \in Texts : [Parsed(S, Len(S.headers) + 1) EXCEPT !.body = body] \in AnyMessage
  BY <1>2, <1>3 DEF AnyMessage
<1> QED
  BY <1>1, <1>2, <1>4, NullAssumption

\* A round of the loop in a header.
LEMMA HeaderStep ==
    ASSUME NEW S, Sendable(S), NEW R \in Texts, NEW k \in 1..Len(S.headers),
           NEW j \in 1..Len(S.headers[k].pieces),
           PdTypes, AtHeader(S, R, k, j), Len(wire) > 0, wire' = Drop(wire, 1),
           len' # Null => len' \in 0..Len(wire'),
           InLine \/ AfterCR \/ Fold \/ EndLine \/ Dies \/ InLSW
    PROVE  PdTypes' /\ Reading(S, R)'
<1> DEFINE h == S.headers[k]
           X == SoFar(h, j)
           Y == Follows(S, R, k, j)
<1>1. IsHeader(h) /\ Len(S.headers) \in Nat
  BY DEF Sendable
<1>2. Tidy(X) /\ Y \in Texts
  BY <1>1, SoFarTidy, AheadText
<1>3. CASE InLine \/ AfterCR \/ InLSW
  <2>1. InText(X, Y, "HEADERS") /\ msg = Parsed(S, k)
    BY DEF AtHeader
  <2>2. InText(X, Y, "HEADERS")' /\ UNCHANGED msg /\ PdTypes'
    <3> HIDE DEF X, Y
    <3> QED
      BY <1>2, <1>3, <2>1, LineStep
  <2>3. AtHeader(S, R, k, j)'
    BY <2>1, <2>2 DEF AtHeader
  <2> QED
    BY <2>2, <2>3 DEF Reading
<1>4. CASE Fold
  <2>1. PdTypes' /\ j + 1 \in 1..Len(h.pieces) /\ AtHeader(S, R, k, j + 1)'
    BY <1>4, FoldStep
  <2> QED
    BY <2>1 DEF Reading
<1>5. CASE EndLine
  <2>1. /\ PdTypes'
        /\ k + 1 > Len(S.headers) => AtEnd(S, R)'
        /\ k + 1 <= Len(S.headers) => AtHeader(S, R, k + 1, 1)'
    BY <1>5, EndHeader
  <2>2. CASE k + 1 > Len(S.headers)
    BY <2>1, <2>2 DEF Reading
  <2>3. CASE k + 1 <= Len(S.headers)
    <3>1. k + 1 \in 1..Len(S.headers)
      BY <1>1, <2>3
    <3>2. 1 \in 1..Len(S.headers[k + 1].pieces)
      BY <3>1, HeaderParts DEF Sendable
    <3>3. AtHeader(S, R, k + 1, 1)'
      BY <2>1, <2>3
    <3> QED
      BY <2>1, <3>1, <3>2, <3>3 DEF Reading
  <2> QED
    BY <1>1, <2>2, <2>3
<1>6. CASE Dies
  <2>1. msg' = msg /\ pd' = [pd EXCEPT !.state = "DEAD"]
    BY <1>6 DEF Dies
  <2>2. msg # Null
    BY <1>1, NotNull, k \in 1..(Len(S.headers) + 1) DEF AtHeader
  <2>3. pd' = [linedata |-> pd.linedata, state |-> "DEAD", last_state |-> pd.last_state]
        /\ pd.linedata \in Texts /\ pd.last_state \in States
    BY <2>1 DEF PdTypes
  <2>4. wire' \in Texts
    BY TakeDrop, TextSize, 1 \in 0..Len(wire) DEF PdTypes
  <2>5. PdTypes'
    BY <2>3, <2>4 DEF PdTypes, States
  <2>6. NoValue(S)
    <3>1. j = Len(h.pieces) /\ pd.linedata = X \o LineEnd
      BY <1>6, WholeLine DEF Dies
    <3>2. ValueOf(SoFar(h, Len(h.pieces)) \o LineEnd) = ValueIn(h)
      BY <1>1, HeaderLineTaken
    <3>3. ValueOf(pd.linedata) = ValueIn(h)
      BY <3>1, <3>2
    <3>4. ValueIn(h) \in Texts
      BY <1>1, HeaderParts, LineTexts, ValueGrows, Len(h.pieces) \in 0..Len(h.pieces)
    <3>5. ValueIn(h) = <<>>
      BY <1>6, <3>3, <3>4, TextSize DEF Dies, CopyLength
    <3> QED
      BY <3>5 DEF NoValue
  <2>7. pd'.state = "DEAD" /\ msg' # Null /\ NoValue(S)
    BY <2>1, <2>2, <2>3, <2>6
  <2> QED
    BY <2>5, <2>7 DEF Reading
<1> QED
  BY <1>3, <1>4, <1>5, <1>6

\* In the first line.
LEMMA StartStep ==
    ASSUME NEW S, Sendable(S), NEW R \in Texts,
           PdTypes, AtStart(S, R), Len(wire) > 0, wire' = Drop(wire, 1),
           len' # Null => len' \in 0..Len(wire'),
           InLine \/ AfterCR \/ Fold \/ EndLine \/ Dies \/ InLSW
    PROVE  PdTypes' /\ Reading(S, R)'
<1> DEFINE X == Opening(S)
           Y == From(S, R, 1)
<1>1. Len(S.headers) \in Nat
  BY DEF Sendable
<1>2. Tidy(X) /\ Y \in Texts
  BY <1>1, OpeningTidy, FromText, 1 \in 1..(Len(S.headers) + 1)
<1>3. CASE InLine \/ AfterCR \/ InLSW
  <2>1. InText(X, Y, "STARTLINE") /\ msg = NewMessage
    BY DEF AtStart
  <2>2. InText(X, Y, "STARTLINE")' /\ UNCHANGED msg /\ PdTypes'
    <3> HIDE DEF X, Y
    <3> QED
      BY <1>2, <1>3, <2>1, LineStep
  <2>3. AtStart(S, R)'
    BY <2>1, <2>2 DEF AtStart
  <2> QED
    BY <2>2, <2>3 DEF Reading
<1>4. CASE Fold
  BY <1>4, NoFold DEF Fold
<1>5. CASE EndLine
  <2>1. /\ PdTypes'
        /\ 1 > Len(S.headers) => AtEnd(S, R)'
        /\ 1 <= Len(S.headers) => AtHeader(S, R, 1, 1)'
    BY <1>5, EndStart
  <2>2. CASE 1 > Len(S.headers)
    BY <2>1, <2>2 DEF Reading
  <2>3. CASE 1 <= Len(S.headers)
    <3>1. 1 \in 1..Len(S.headers)
      BY <1>1, <2>3
    <3>2. 1 \in 1..Len(S.headers[1].pieces)
      BY <3>1, HeaderParts DEF Sendable
    <3>3. AtHeader(S, R, 1, 1)'
      BY <2>1, <2>3
    <3> QED
      BY <2>1, <3>1, <3>2, <3>3 DEF Reading
  <2> QED
    BY <1>1, <2>2, <2>3
<1>6. CASE Dies
  BY <1>6, NoFold DEF Dies, IsStart
<1> QED
  BY <1>3, <1>4, <1>5, <1>6

\* Where a call begins or ends nothing is read.
LEMMA ReadSame ==
    ASSUME NEW S, NEW R, PdTypes, Reading(S, R), UNCHANGED <<wire, msg, pd>>,
           len' # Null => len' \in 0..Len(wire),
           len = Null /\ msg = Null => len' = Null
    PROVE  PdTypes' /\ Reading(S, R)'
<1>1. wire' = wire /\ msg' = msg /\ pd' = pd
  OBVIOUS
<1>2. PdTypes'
  BY <1>1 DEF PdTypes
<1>3. len' # Null => len' \in 0..Len(wire')
  BY <1>1
<1>4. CASE msg = Null /\ wire = Whole(S, R) /\ len = Null /\ pd.state = "UNKNOWN"
  BY <1>1, <1>2, <1>3, <1>4 DEF Reading
<1>5. CASE AtStart(S, R)
  <2>1. AtStart(S, R)'
    BY <1>1, <1>5 DEF AtStart, InText
  <2> QED
    BY <1>2, <1>3, <2>1 DEF Reading
<1>6. CASE \E k \in 1..Len(S.headers) : \E j \in 1..Len(S.headers[k].pieces) : AtHeader(S, R, k, j)
  <2>1. PICK k \in 1..Len(S.headers) : \E j \in 1..Len(S.headers[k].pieces) : AtHeader(S, R, k, j)
    BY <1>6
  <2>2. PICK j \in 1..Len(S.headers[k].pieces) : AtHeader(S, R, k, j)
    BY <2>1
  <2>3. AtHeader(S, R, k, j)'
    BY <1>1, <2>2 DEF AtHeader, InText
  <2> QED
    BY <1>2, <1>3, <2>3 DEF Reading
<1>7. CASE AtEnd(S, R)
  <2>1. AtEnd(S, R)'
    BY <1>1, <1>7 DEF AtEnd
  <2> QED
    BY <1>2, <1>3, <2>1 DEF Reading
<1>8. CASE InBody(S, R)
  <2>1. InBody(S, R)'
    BY <1>1, <1>8 DEF InBody
  <2> QED
    BY <1>2, <1>3, <2>1 DEF Reading
<1>9. CASE pd.state = "DEAD" /\ msg # Null /\ NoValue(S)
  BY <1>1, <1>2, <1>3, <1>9 DEF Reading
<1> QED
  BY <1>4, <1>5, <1>6, <1>7, <1>8, <1>9 DEF Reading

\* Every step of the parser and of its caller.
LEMMA ReadStep ==
    ASSUME NEW S, Sendable(S), NEW R \in Texts, PdTypes, Reading(S, R), ParserNext
    PROVE  PdTypes' /\ Reading(S, R)'
<1>1. CASE appendByte
  <2>1. len \in 0..Len(wire) /\ len > 0 /\ Use(1) /\ pd.state \notin {"BODY", "COMPLETE", "DEAD"}
    BY <1>1 DEF appendByte, Looping, Alive, Reading
  <2>2. wire' = Drop(wire, 1) /\ len' \in 0..Len(wire') /\ Len(wire) > 0
    BY <2>1, UseOne
  <2>3. InLine \/ AfterCR \/ Fold \/ EndLine \/ Dies \/ InLSW
    BY <1>1 DEF appendByte
  <2>4. len # Null
    BY <1>1 DEF appendByte, Looping
  <2>5. CASE AtStart(S, R)
    BY <2>2, <2>3, <2>5, StartStep
  <2>6. CASE \E k \in 1..Len(S.headers) : \E j \in 1..Len(S.headers[k].pieces) : AtHeader(S, R, k, j)
    BY <2>2, <2>3, <2>6, HeaderStep
  <2>7. CASE AtEnd(S, R)
    BY <2>2, <2>3, <2>7, EndOfHeaders DEF Reading
  <2> QED
    BY <2>1, <2>4, <2>5, <2>6, <2>7 DEF Reading, InBody
<1>2. CASE appendBodyPiece
  <2>1. len # Null /\ len \in 0..Len(wire) /\ pd.state = "BODY"
    BY <1>2 DEF appendBodyPiece, Looping, Reading
  <2>2. InBody(S, R)
    BY <2>1 DEF Reading, AtStart, AtHeader, AtEnd, InText
  <2> QED
    BY <1>2, <2>1, <2>2, BodyPiece DEF Reading
<1>3. CASE ParseReturns
  <2>1. len' = Null /\ UNCHANGED <<wire, msg, pd>> /\ len # Null
    BY <1>3 DEF ParseReturns
  <2> QED
    BY <2>1, ReadSame
<1>4. CASE Caller
  <2>1. PICK n \in 1..MaxPiece : parse(n)
    BY <1>4 DEF Caller
  <2>2. len = Null /\ len' = n /\ n <= Len(wire) /\ wire' = wire
    BY <2>1 DEF parse
  <2>3. wire \in Texts /\ Len(wire) \in Nat
    BY TextSize DEF PdTypes
  <2>4. len' \in 0..Len(wire')
    BY <2>2, <2>3, PieceAssumption
  <2>5. CASE msg = Null
    <3>1. wire = Whole(S, R)
      <4>1. 1 \in Nat /\ Len(S.headers) \in Nat
        BY DEF Sendable
      <4>2. \A k \in 1..Len(S.headers) : k \in 1..(Len(S.headers) + 1)
        BY <4>1
      <4>3. Len(S.headers) + 1 \in 1..(Len(S.headers) + 1)
        BY <4>1
      <4> QED
        BY <2>5, <4>2, <4>3, NotNull DEF Reading, AtStart, AtHeader, AtEnd, InBody
    <3>2. msg' = NewMessage /\ pd' = [linedata |-> <<>>, state |-> "STARTLINE", last_state |-> "UNKNOWN"]
      BY <2>1, <2>5 DEF parse
    <3>3. PdTypes'
      BY <2>2, <2>3, <3>2, ShortTexts DEF PdTypes, States
    <3>4. AtStart(S, R)'
      <4>1. pd'.linedata \o wire' = Opening(S) \o (LineEnd \o From(S, R, 1))
        BY <2>2, <2>3, <3>1, <3>2, JoinEmpty DEF Whole
      <4>2. Len(pd'.linedata) <= Len(Opening(S))
        <5>1. Len(Opening(S)) \in Nat
          BY OpeningTidy, TextSize DEF Tidy, CRsApart
        <5> QED
          BY <5>1, <3>2, ShortTexts
      <4> QED
        BY <3>2, <4>1, <4>2 DEF AtStart, InText
    <3> QED
      BY <2>4, <3>3, <3>4 DEF Reading
  <2>6. CASE msg # Null
    <3>1. UNCHANGED <<wire, msg, pd>>
      BY <2>1, <2>6 DEF parse
    <3> QED
      BY <2>2, <2>4, <2>6, <3>1, ReadSame
  <2> QED
    BY <2>5, <2>6
<1> QED
  BY <1>1, <1>2, <1>3, <1>4 DEF ParserNext, Loop

\* What has been read when the message is complete.
LEMMA ReadComplete ==
    ASSUME NEW S, Sendable(S), NEW R \in Texts, Reading(S, R), pd.state = "COMPLETE", PdTypes
    PROVE  LET N == OldestLength(Meaning(S))
           IN  /\ N <= Len(R)
               /\ msg = [p1 |-> S.p1, p2 |-> S.p2, p3 |-> S.p3, headers |-> Reverse(Meaning(S)),
                         header_cnt |-> Len(S.headers), body |-> SubSeq(R, 1, N)]
               /\ wire = Drop(R, N)
<1> DEFINE N == OldestLength(Meaning(S))
           P == Parsed(S, Len(S.headers) + 1)
           b == msg.body
<1>1. InBody(S, R)
  BY DEF Reading, AtStart, AtHeader, AtEnd, InText
<1>2. msg = [P EXCEPT !.body = b] /\ b \in Texts /\ b \o wire = R /\ Len(b) = N
  BY <1>1 DEF InBody
<1>3. wire \in Texts
  BY DEF PdTypes
<1>4. SubSeq(R, 1, N) = b /\ Drop(R, N) = wire
  <2> HIDE DEF b, N
  <2> QED
    BY <1>2, <1>3, DropJoined
<1>5. N <= Len(R)
  <2> HIDE DEF b, N
  <2> QED
    BY <1>2, <1>3, JoinSize, TextSize
<1>6. P = [p1 |-> S.p1, p2 |-> S.p2, p3 |-> S.p3, headers |-> Reverse(Meaning(S)),
           header_cnt |-> Len(S.headers), body |-> <<>>]
  <2>1. P.headers = Reverse(Meaning(S))
    BY ParsedLength
  <2>2. (Len(S.headers) + 1) - 1 = Len(S.headers)
    BY DEF Sendable
  <2> QED
    BY <2>1, <2>2 DEF Parsed
<1>7. [P EXCEPT !.body = b] =
         [p1 |-> S.p1, p2 |-> S.p2, p3 |-> S.p3, headers |-> Reverse(Meaning(S)),
          header_cnt |-> Len(S.headers), body |-> b]
  <2> HIDE DEF P, b
  <2> QED
    BY <1>6
<1> HIDE DEF P, b, N
<1> QED
  BY <1>2, <1>4, <1>5, <1>7 DEF N

-----------------------------------------------------------------------------
(* What is sent.                                                              *)

\* The joining of Characters, from the left, and of Whole.
JoinsFlat(a, b, d, e, f, x, y) ==
    (((((((a \o e) \o b) \o e) \o d) \o f) \o x) \o f) \o y
        = (((a \o e) \o (b \o e)) \o d) \o (f \o (x \o (f \o y)))

LEMMA JoinsWhole ==
    ASSUME NEW a \in Texts, NEW b \in Texts, NEW d \in Texts, NEW e \in Texts, NEW f \in Texts,
           NEW x \in Texts, NEW y \in Texts
    PROVE  JoinsFlat(a, b, d, e, f, x, y)
<1> DEFINE o == (((a \o e) \o b) \o e) \o d
           ae == a \o e
           z == f \o y
<1>1. ae \in Texts /\ z \in Texts /\ b \o e \in Texts /\ ae \o b \in Texts
  BY JoinText
<1>2. (ae \o b) \o e \in Texts
  BY <1>1, JoinText
<1>3. o \in Texts
  BY <1>2, JoinText
<1>4. Regroups(ae, b, e)
  BY <1>1, Regroup
<1>5. o = (ae \o (b \o e)) \o d
  BY <1>4 DEF Regroups
<1> HIDE DEF o
<1>6. o \o f \in Texts
  BY <1>3, JoinText
<1>7. (o \o f) \o x \in Texts
  BY <1>6, JoinText
<1>8. Regroups((o \o f) \o x, f, y) /\ Regroups4(o, f, x, z)
  BY <1>1, <1>3, <1>7, Regroup, Regroup4
<1>9. (((o \o f) \o x) \o f) \o y = o \o (f \o (x \o z))
  BY <1>8 DEF Regroups, Regroups4
<1> QED
  BY <1>5, <1>9 DEF o, JoinsFlat

\* The header lines of a message, joined.
LEMMA LinesFlat ==
    ASSUME NEW S, Sendable(S)
    PROVE  /\ HeaderLines(S) \in Seq(Texts) /\ Len(HeaderLines(S)) = Len(S.headers)
           /\ HeaderLines(S) = [k \in DOMAIN S.headers |-> HeaderLine(S.headers[k])]
           /\ FlattenSeq(HeaderLines(S)) \in Texts
           /\ \A R : From(S, R, 1) = FlattenSeq(HeaderLines(S)) \o (LineEnd \o R)
<1> DEFINE H == HeaderLines(S)
           n == Len(S.headers)
<1>1. n \in Nat /\ DOMAIN S.headers = 1..n /\ \A k \in 1..n : HeaderLine(S.headers[k]) \in Texts
  BY HeaderLineParts DEF Sendable
<1>2. H = [k \in 1..n |-> HeaderLine(S.headers[k])]
  BY DEF HeaderLines
<1>3. H \in [1..n -> Texts]
  BY <1>1, <1>2
<1>4. H \in Seq(Texts) /\ Len(H) = n
  BY <1>1, <1>3, SeqDef, LenProperties
<1> HIDE DEF H
<1>5. SubSeq(H, 1, n) = H
  <2>1. SubSeq(H, 1, Len(H)) \in Seq(Texts) /\ Len(SubSeq(H, 1, Len(H))) = Len(H)
        /\ \A i \in 1..Len(H) : SubSeq(H, 1, Len(H))[i] = H[i]
    BY <1>1, <1>4, SubSeqProperties, LenProperties
  <2> QED
    BY <1>4, <2>1, SeqEqual
<1>6. FlattenSeq(H) \in Texts
  BY <1>4, FlattenText
<1>7. \A R : From(S, R, 1) = FlattenSeq(H) \o (LineEnd \o R)
  BY <1>5 DEF From, H
<1> QED
  BY <1>1, <1>2, <1>4, <1>6, <1>7 DEF H

\* Another peer's message.
LEMMA PeerSent ==
    ASSUME NEW m, IsMessage(m), NEW next \in Texts
    PROVE  Sendable(m) /\ m.body \o next \in Texts
           /\ Characters(m) \o next = Whole(m, m.body \o next)
<1>1. Sendable(m)
  <2>1. Len(m.headers) \in Nat /\ DOMAIN m.headers = 1..Len(m.headers)
    BY LenProperties DEF IsMessage
  <2> QED
    BY <2>1 DEF IsMessage, Sendable
<1> DEFINE F == FlattenSeq(HeaderLines(m))
<1>2. F \in Texts /\ F = FlattenSeq([k \in DOMAIN m.headers |-> HeaderLine(m.headers[k])])
  BY <1>1, LinesFlat
<1>3. m.p1 \in Texts /\ m.p2 \in Texts /\ m.p3 \in Texts /\ m.body \in Texts
  BY DEF IsMessage, StartLine, Word, Spaceless, Text
<1>4. m.body \o next \in Texts /\ <<SP>> \in Texts /\ LineEnd \in Texts
  BY <1>3, CharsAre, ShortTexts, LineEndText, JoinText
<1> DEFINE head == ((((((m.p1 \o <<SP>>) \o m.p2) \o <<SP>>) \o m.p3) \o LineEnd) \o F) \o LineEnd
<1>5. Characters(m) = head \o m.body
  BY <1>2 DEF Characters, LineEnd
<1> HIDE DEF F
<1>6. head \in Texts
  <2>1. m.p1 \o <<SP>> \in Texts
    BY <1>3, <1>4, JoinText
  <2>2. (m.p1 \o <<SP>>) \o m.p2 \in Texts
    BY <2>1, <1>3, <1>4, JoinText
  <2>3. ((m.p1 \o <<SP>>) \o m.p2) \o <<SP>> \in Texts
    BY <2>2, <1>3, <1>4, JoinText
  <2>4. (((m.p1 \o <<SP>>) \o m.p2) \o <<SP>>) \o m.p3 \in Texts
    BY <2>3, <1>3, <1>4, JoinText
  <2>5. ((((m.p1 \o <<SP>>) \o m.p2) \o <<SP>>) \o m.p3) \o LineEnd \in Texts
    BY <2>4, <1>3, <1>4, JoinText
  <2>6. (((((m.p1 \o <<SP>>) \o m.p2) \o <<SP>>) \o m.p3) \o LineEnd) \o F \in Texts
    BY <2>5, <1>2, JoinText
  <2> QED
    BY <2>6, <1>4, JoinText
<1>7. Regroups(head, m.body, next)
  BY <1>3, <1>6, Regroup
<1>8. Characters(m) \o next = head \o (m.body \o next)
  BY <1>5, <1>7 DEF Regroups
<1>9. head \o (m.body \o next) = Opening(m) \o (LineEnd \o (F \o (LineEnd \o (m.body \o next))))
  <2>1. JoinsFlat(m.p1, m.p2, m.p3, <<SP>>, LineEnd, F, m.body \o next)
    BY <1>2, <1>3, <1>4, JoinsWhole
  <2> QED
    BY <2>1 DEF JoinsFlat, Opening
<1>10. From(m, m.body \o next, 1) = F \o (LineEnd \o (m.body \o next))
  BY <1>1, LinesFlat DEF F
<1> HIDE DEF head
<1> QED
  BY <1>1, <1>4, <1>8, <1>9, <1>10 DEF Whole

-----------------------------------------------------------------------------
(* The composed message.                                                      *)

Sent == {x \in HeaderPairs : IsKey(x.key) /\ IsValue(x.value)}

\* Two characters joined.
LEMMA TwoJoined ==
    ASSUME NEW x \in Char, NEW y \in Char
    PROVE  <<x>> \o <<y>> = <<x, y>>
<1>1. /\ <<x>> \in Texts /\ Len(<<x>>) = 1 /\ <<x>>[1] = x
      /\ <<y>> \in Texts /\ Len(<<y>>) = 1 /\ <<y>>[1] = y
      /\ <<x, y>> \in Texts /\ Len(<<x, y>>) = 2 /\ <<x, y>>[1] = x /\ <<x, y>>[2] = y
  BY ShortTexts
<1>2. <<x>> \o <<y>> \in Texts /\ Len(<<x>> \o <<y>>) = 2
  BY <1>1, JoinText, JoinSize
<1>3. (<<x>> \o <<y>>)[1] = x
  BY <1>1, JoinAt, 1 \in 1..1
<1>4. (<<x>> \o <<y>>)[1 + 1] = y
  BY <1>1, JoinAt, 1 \in 1..1
<1>5. \A i \in 1..2 : i = 1 \/ i = 1 + 1
  OBVIOUS
<1>6. 1 + 1 = 2
  OBVIOUS
<1> QED
  BY <1>1, <1>2, <1>3, <1>4, <1>5, <1>6, SeqEqual DEF Texts

\* A header as encode writes it is one that another peer could have written.
LEMMA PlainHeader ==
    ASSUME NEW x \in Sent
    PROVE  /\ IsHeader(Plainly(x)) /\ ValueIn(Plainly(x)) = x.value
           /\ Plainly(x).key = x.key
           /\ HeaderLine(Plainly(x)) = ((x.key \o <<Colon, SP>>) \o x.value) \o LineEnd
           /\ Len(HeaderLine(Plainly(x))) = ((Len(x.key) + 2) + Len(x.value)) + 2
<1> DEFINE h == Plainly(x)
           v == x.value
<1>1. h = [key |-> x.key, before |-> <<>>, after |-> <<SP>>, pieces |-> <<v>>, behind |-> <<>>]
  BY DEF Plainly
<1>2. x.key \in Texts /\ v \in Texts /\ IsKey(x.key) /\ Clean(v) /\ v # <<>> /\ Trimmed(v)
  BY DEF Sent, HeaderPairs, IsValue
<1>3. <<v>> \in Seq(Texts) /\ Len(<<v>>) = 1 /\ <<v>>[1] = v /\ <<v>> # <<>> /\ DOMAIN <<v>> = 1..1
  BY <1>2
<1>4. FlattenSeq(<<v>>) = v
  <2>1. FlattenSeq(Append(<<>>, v)) = FlattenSeq(<<>>) \o v
    BY <1>2, FlattenAppend, EmptySeq
  <2>2. Append(<<>>, v) = <<v>>
    OBVIOUS
  <2> QED
    BY <1>2, <2>1, <2>2, FlattenEmpty, JoinEmpty
<1>5. ValueIn(h) = v
  BY <1>1, <1>4 DEF ValueIn
<1>6. IsHeader(h)
  <2>1. <<>> \in Seq({SP}) /\ <<SP>> \in Seq({SP})
    OBVIOUS
  <2>2. \A k \in DOMAIN <<v>> : k = 1
    BY <1>3
  <2>3. \A k \in DOMAIN <<v>> : Clean(<<v>>[k]) /\ ~(k > 1)
    BY <1>2, <1>3, <2>2
  <2>4. Trimmed(ValueIn(h))
    BY <1>2, <1>5
  <2>5. h.key = x.key /\ h.before = <<>> /\ h.after = <<SP>> /\ h.behind = <<>> /\ h.pieces = <<v>>
    BY <1>1
  <2> HIDE DEF h, v
  <2> QED
    BY <1>2, <1>3, <2>1, <2>3, <2>4, <2>5 DEF IsHeader
<1> HIDE DEF v
<1>7. h.key = x.key /\ h.before = <<>> /\ h.after = <<SP>> /\ h.behind = <<>> /\ h.pieces = <<v>>
  BY <1>1
<1> HIDE DEF h
<1>8. FoldedValue(h.pieces) = v
  <2>1. Later(h, 1) = <<>> /\ FoldedValue(h.pieces) = Later(h, 0)
    BY <1>3, <1>6, <1>7, LaterShrinks
  <2>2. Later(h, 0) = Lines(h)[0 + 1] \o Later(h, 0 + 1)
    BY <1>3, <1>6, <1>7, LaterShrinks, 0 \in 0..(1 - 1)
  <2>3. Lines(h)[1] = v
    BY <1>3, <1>6, <1>7, LineTexts
  <2>4. 0 + 1 = 1
    OBVIOUS
  <2> QED
    BY <1>2, <2>1, <2>2, <2>3, <2>4, JoinEmpty
<1>9. /\ <<Colon>> \in Texts /\ <<SP>> \in Texts
      /\ <<Colon, SP>> \in Texts /\ Len(<<Colon, SP>>) = 2
  BY CharsAre, ShortTexts
<1>10. Label(h) = x.key \o <<Colon, SP>>
  <2>1. Label(h) = ((x.key \o <<>>) \o <<Colon>>) \o <<SP>>
    BY <1>7 DEF Label
  <2>2. x.key \o <<>> = x.key
    BY <1>2, JoinEmpty
  <2>3. Regroups(x.key, <<Colon>>, <<SP>>)
    BY <1>2, <1>9, Regroup
  <2>4. <<Colon>> \o <<SP>> = <<Colon, SP>>
    BY CharsAre, TwoJoined
  <2> QED
    BY <2>1, <2>2, <2>3, <2>4 DEF Regroups
<1>11. x.key \o <<Colon, SP>> \in Texts /\ Len(x.key \o <<Colon, SP>>) = Len(x.key) + 2
  BY <1>2, <1>9, JoinText, JoinSize
<1> DEFINE kv == (x.key \o <<Colon, SP>>) \o v
<1>12. kv \in Texts /\ Len(kv) = (Len(x.key) + 2) + Len(v)
  BY <1>2, <1>11, JoinText, JoinSize
<1>13. HeaderLine(h) = kv \o LineEnd
  <2>1. HeaderLine(h) = ((Label(h) \o FoldedValue(h.pieces)) \o h.behind) \o LineEnd
    BY <1>6, HeaderLineParts
  <2>2. kv \o <<>> = kv
    BY <1>12, JoinEmpty
  <2> QED
    BY <1>7, <1>8, <1>10, <2>1, <2>2
<1>14. Len(HeaderLine(h)) = ((Len(x.key) + 2) + Len(v)) + 2
  <2> HIDE DEF kv
  <2> QED
    BY <1>12, <1>13, LineEndText, JoinSize
<1> QED
  BY <1>5, <1>6, <1>7, <1>13, <1>14 DEF h, v

\* get_encode_length counts what encode writes.
LEMMA LengthCounts ==
    ASSUME NEW m, m.headers \in Seq(Sent), NEW s \in Seq(Texts), Len(s) = Len(m.headers),
           \A k \in 1..Len(s) :
              Len(s[k]) = ((Len(m.headers[k].key) + 2) + Len(m.headers[k].value)) + 2
    PROVE  get_encode_length(m, TRUE) =
              (Len(m.p1) + 1) + (Len(m.p2) + 1) + Len(m.p3) + 2
              + Len(FlattenSeq(s)) + 2 + Len(m.body)
<1> DEFINE n == Len(m.headers)
           D(g) == [k \in 0..n |->
                       IF k = 0 THEN 0
                       ELSE g[k - 1] + (((Len(m.headers[k].key) + 2) + Len(m.headers[k].value)) + 2)]
           lines == CHOOSE g : g = D(g)
<1>1. get_encode_length(m, TRUE) =
         (Len(m.p1) + 1) + (Len(m.p2) + 1) + Len(m.p3) + 2 + lines[n] + 2 + Len(m.body)
  BY DEF get_encode_length
<1>2. n \in Nat
  BY LenProperties
<1>3. PICK f : Joins(f, s) /\ FlattenSeq(s) = f[n]
  BY FlattenIterates
<1> DEFINE g == [k \in 0..n |-> Len(f[k])]
<1>4. ASSUME NEW k \in 1..n
      PROVE  g[k] = g[k - 1] + (((Len(m.headers[k].key) + 2) + Len(m.headers[k].value)) + 2)
  <2>1. k \in 0..n /\ k - 1 \in 0..n /\ s[k] \in Texts
    BY <1>2, ElementOfSeq
  <2>2. f[k] = f[k - 1] \o s[k] /\ f[k - 1] \in Texts
    BY <1>3, <2>1 DEF Joins
  <2>3. Len(f[k]) = Len(f[k - 1]) + Len(s[k])
    BY <2>1, <2>2, JoinSize
  <2> QED
    BY <2>1, <2>3
<1>5. g[0] = 0
  BY <1>2, <1>3, ShortTexts DEF Joins
<1>6. g = D(g)
  <2>1. ASSUME NEW k \in 0..n PROVE g[k] = D(g)[k]
    <3> HIDE DEF g
    <3>1. CASE k = 0
      BY <1>5, <3>1
    <3>2. CASE k # 0
      <4>1. k \in 1..n
        BY <1>2, <3>2
      <4> QED
        BY <1>4, <3>2, <4>1
    <3> QED
      BY <3>1, <3>2
  <2>2. DOMAIN g = 0..n /\ g = [k \in 0..n |-> g[k]]
    OBVIOUS
  <2> HIDE DEF g
  <2> QED
    BY <2>1, <2>2
<1>7. lines = D(lines)
  <2> HIDE DEF D, g
  <2> QED
    BY <1>6
<1>8. lines[0] = 0
  <2> HIDE DEF lines
  <2> QED
    BY <1>2, <1>7
<1>9. ASSUME NEW k \in 1..n
      PROVE  lines[k] = lines[k - 1] + (((Len(m.headers[k].key) + 2) + Len(m.headers[k].value)) + 2)
  <2> HIDE DEF lines
  <2>1. k \in 0..n /\ k # 0
    BY <1>2
  <2>2. lines[k] = D(lines)[k]
    <3> HIDE DEF D
    <3> QED BY <1>7
  <2> QED
    BY <2>1, <2>2
<1>10. SameSteps(lines, g, n)
  <2> HIDE DEF lines, g
  <2> QED
    BY <1>4, <1>5, <1>8, <1>9 DEF SameSteps
<1>11. lines[n] = g[n]
  <2> HIDE DEF lines, g
  <2> QED
    BY <1>2, <1>10, SameIteration, n \in 0..n
<1>12. g[n] = Len(FlattenSeq(s))
  BY <1>2, <1>3, n \in 0..n
<1> HIDE DEF lines, g
<1> QED
  BY <1>1, <1>11, <1>12

\* A composed message as one that another peer could have written, line by line.
LEMMA ComposedIs ==
    ASSUME out \in AnyMessage, out.headers \in Seq(Sent), StartLine(out.p1, out.p2, out.p3)
    PROVE  /\ Sendable(Composed) /\ Meaning(Composed) = out.headers
           /\ HeaderLines(Composed) =
                 [k \in DOMAIN out.headers |->
                     ((out.headers[k].key \o <<Colon, SP>>) \o out.headers[k].value) \o LineEnd]
           /\ \A k \in 1..Len(out.headers) :
                 Len(HeaderLines(Composed)[k]) =
                    ((Len(out.headers[k].key) + 2) + Len(out.headers[k].value)) + 2
<1> DEFINE S == Composed
           n == Len(out.headers)
<1>1. n \in Nat /\ DOMAIN out.headers = 1..n /\ \A k \in 1..n : out.headers[k] \in Sent
  BY LenProperties, ElementOfSeq
<1>2. /\ S.p1 = out.p1 /\ S.p2 = out.p2 /\ S.p3 = out.p3
      /\ S.headers = [k \in 1..n |-> Plainly(out.headers[k])]
  BY DEF Composed
<1> HIDE DEF S
<1>3. Len(S.headers) = n /\ DOMAIN S.headers = 1..n
  <2>1. S.headers \in [1..n -> {Plainly(out.headers[k]) : k \in 1..n}]
    BY <1>2
  <2>2. S.headers \in Seq({Plainly(out.headers[k]) : k \in 1..n})
    BY <1>1, <2>1, SeqDef
  <2> QED
    BY <1>1, <2>1, <2>2, LenProperties
<1>4. \A k \in 1..n : S.headers[k] = Plainly(out.headers[k])
  BY <1>2
<1>5. Sendable(S)
  BY <1>1, <1>2, <1>3, <1>4, PlainHeader DEF Sendable
<1>6. Meaning(S) = out.headers
  <2>1. ASSUME NEW k \in 1..n PROVE Meaning(S)[k] = out.headers[k]
    <3> DEFINE x == out.headers[k]
    <3>1. x \in Sent /\ S.headers[k] = Plainly(x)
      BY <1>1, <1>4
    <3> HIDE DEF x
    <3>2. ValueIn(Plainly(x)) = x.value /\ Plainly(x).key = x.key
      BY <3>1, PlainHeader
    <3>3. Meaning(S)[k] = [key |-> x.key, value |-> x.value]
      BY <1>3, <1>5, <3>1, <3>2, MeaningIs
    <3>4. x = [key |-> x.key, value |-> x.value]
      BY <3>1 DEF Sent, HeaderPairs
    <3> QED
      BY <3>3, <3>4 DEF x
  <2>2. Meaning(S) \in Seq(HeaderPairs) /\ Len(Meaning(S)) = n
    BY <1>3, <1>5, MeaningIs
  <2>3. out.headers \in Seq(HeaderPairs)
    BY <1>1, SeqDef DEF AnyMessage, HeaderPairs
  <2> QED
    BY <2>1, <2>2, <2>3, SeqEqual
<1>7. HeaderLines(S) = [k \in 1..n |-> HeaderLine(S.headers[k])]
  BY <1>3 DEF HeaderLines
<1>8. \A k \in 1..n : HeaderLine(S.headers[k]) =
          ((out.headers[k].key \o <<Colon, SP>>) \o out.headers[k].value) \o LineEnd
  BY <1>1, <1>4, PlainHeader
<1>9. HeaderLines(S) = [k \in DOMAIN out.headers |->
          ((out.headers[k].key \o <<Colon, SP>>) \o out.headers[k].value) \o LineEnd]
  BY <1>1, <1>7, <1>8
<1>10. \A k \in 1..n : Len(HeaderLines(S)[k]) =
          ((Len(out.headers[k].key) + 2) + Len(out.headers[k].value)) + 2
  BY <1>1, <1>4, <1>7, PlainHeader
<1> QED
  BY <1>5, <1>6, <1>9, <1>10 DEF S

\* What is sent of a composed message is the message, however it was composed.
LEMMA ComposerSends ==
    ASSUME out \in AnyMessage, out.headers \in Seq(Sent), StartLine(out.p1, out.p2, out.p3)
    PROVE  SubSeq(encode(out, TRUE), 1, get_encode_length(out, TRUE)) = Whole(Composed, out.body)
<1> DEFINE H == HeaderLines(Composed)
           F == FlattenSeq(H)
           q1 == out.p1 \o <<SP>>
           q2 == q1 \o out.p2
           q3 == q2 \o <<SP>>
           q4 == q3 \o out.p3
           q5 == q4 \o LineEnd
           q6 == q5 \o F
           head == q6 \o LineEnd
           b == out.body
<1>1. Sendable(Composed)
  BY ComposedIs
<1>2. H \in Seq(Texts) /\ Len(H) = Len(Composed.headers) /\ F \in Texts
      /\ \A R : From(Composed, R, 1) = F \o (LineEnd \o R)
  BY <1>1, LinesFlat
<1>3. Len(H) = Len(out.headers) /\ Len(out.headers) \in Nat
  <2>1. Len(Meaning(Composed)) = Len(Composed.headers) /\ Meaning(Composed) = out.headers
    BY <1>1, MeaningIs, ComposedIs
  <2> QED
    BY <1>2, <2>1, LenProperties
<1>4. H = [k \in DOMAIN out.headers |->
              ((out.headers[k].key \o <<Colon, SP>>) \o out.headers[k].value) \o LineEnd]
  BY ComposedIs
<1>5. encode(out, TRUE) = IF b # <<>> THEN head \o b ELSE Append(head, NUL)
  BY <1>4 DEF encode, LineEnd
<1>6. \A k \in 1..Len(H) : Len(H[k]) =
          ((Len(out.headers[k].key) + 2) + Len(out.headers[k].value)) + 2
  BY <1>3, ComposedIs
<1>7. get_encode_length(out, TRUE) =
         (Len(out.p1) + 1) + (Len(out.p2) + 1) + Len(out.p3) + 2 + Len(F) + 2 + Len(b)
  <2> HIDE DEF H
  <2> QED
    BY <1>2, <1>3, <1>6, LengthCounts
<1> HIDE DEF F, H
<1>8. /\ out.p1 \in Texts /\ out.p2 \in Texts /\ out.p3 \in Texts /\ b \in Texts
      /\ <<SP>> \in Texts /\ Len(<<SP>>) = 1 /\ LineEnd \in Texts /\ Len(LineEnd) = 2
  BY CharsAre, ShortTexts, LineEndText DEF StartLine, Word, Spaceless, Text, AnyMessage
<1>9. q1 \in Texts /\ Len(q1) = Len(out.p1) + 1
  BY <1>8, JoinText, JoinSize
<1>10. q2 \in Texts /\ Len(q2) = Len(q1) + Len(out.p2)
  <2> HIDE DEF q1
  <2> QED
    BY <1>8, <1>9, JoinText, JoinSize
<1>11. q3 \in Texts /\ Len(q3) = Len(q2) + 1
  <2> HIDE DEF q2
  <2> QED
    BY <1>8, <1>10, JoinText, JoinSize
<1>12. q4 \in Texts /\ Len(q4) = Len(q3) + Len(out.p3)
  <2> HIDE DEF q3
  <2> QED
    BY <1>8, <1>11, JoinText, JoinSize
<1>13. q5 \in Texts /\ Len(q5) = Len(q4) + 2
  <2> HIDE DEF q4
  <2> QED
    BY <1>8, <1>12, JoinText, JoinSize
<1>14. q6 \in Texts /\ Len(q6) = Len(q5) + Len(F)
  <2> HIDE DEF q5
  <2> QED
    BY <1>2, <1>13, JoinText, JoinSize
<1>15. head \in Texts /\ Len(head) = Len(q6) + 2
  <2> HIDE DEF q6
  <2> QED
    BY <1>8, <1>14, JoinText, JoinSize
<1>16. head \o b = Opening(Composed) \o (LineEnd \o (F \o (LineEnd \o b)))
  <2>1. JoinsFlat(out.p1, out.p2, out.p3, <<SP>>, LineEnd, F, b)
    BY <1>2, <1>8, JoinsWhole
  <2>2. Composed.p1 = out.p1 /\ Composed.p2 = out.p2 /\ Composed.p3 = out.p3
    BY DEF Composed
  <2> QED
    BY <2>1, <2>2 DEF JoinsFlat, Opening
<1> HIDE DEF q1, q2, q3, q4, q5, q6, head, b
<1>17. get_encode_length(out, TRUE) = Len(head) + Len(b)
  <2>1. /\ Len(out.p1) \in Nat /\ Len(out.p2) \in Nat /\ Len(out.p3) \in Nat
        /\ Len(F) \in Nat /\ Len(b) \in Nat
    BY <1>2, <1>8, TextSize
  <2>2. Len(head) = Len(out.p1) + 1 + Len(out.p2) + 1 + Len(out.p3) + 2 + Len(F) + 2
    BY <1>9, <1>10, <1>11, <1>12, <1>13, <1>14, <1>15
  <2> DEFINE n1 == Len(out.p1)
             n2 == Len(out.p2)
             n3 == Len(out.p3)
             f == Len(F)
             l == Len(b)
             g == get_encode_length(out, TRUE)
  <2>3. g = (n1 + 1) + (n2 + 1) + n3 + 2 + f + 2 + l
    BY <1>7 DEF b
  <2>4. Len(head) = n1 + 1 + n2 + 1 + n3 + 2 + f + 2
    BY <2>2
  <2>5. n1 \in Nat /\ n2 \in Nat /\ n3 \in Nat /\ f \in Nat /\ l \in Nat
    BY <2>1
  <2> HIDE DEF n1, n2, n3, f, l, g
  <2>6. g = Len(head) + l
    BY <2>3, <2>4, <2>5
  <2> QED
    BY <2>6 DEF g, l
<1>18. SubSeq(encode(out, TRUE), 1, Len(head) + Len(b)) = head \o b
  <2>1. CASE b # <<>>
    <3>1. head \o b \in Texts /\ Len(head \o b) = Len(head) + Len(b)
      BY <1>8, <1>15, JoinText, JoinSize
    <3>2. SubSeq((head \o b) \o <<>>, 1, Len(head \o b)) = head \o b
      BY <3>1, ShortTexts, DropJoined
    <3>3. (head \o b) \o <<>> = head \o b
      BY <3>1, JoinEmpty
    <3> QED
      BY <1>5, <2>1, <3>1, <3>2, <3>3
  <2>2. CASE b = <<>>
    <3>1. <<NUL>> \in Texts
      BY CharsAre, ShortTexts
    <3>2. Append(head, NUL) = head \o <<NUL>>
      BY <1>15, CharsAre, Append1Text
    <3>3. SubSeq(head \o <<NUL>>, 1, Len(head)) = head
      BY <1>15, <3>1, DropJoined
    <3>4. Len(head) + Len(b) = Len(head) /\ head \o b = head
      BY <1>15, <2>2, ShortTexts, JoinEmpty, TextSize
    <3> QED
      BY <1>5, <2>2, <3>2, <3>3, <3>4
  <2> QED
    BY <2>1, <2>2
<1>19. Whole(Composed, b) = Opening(Composed) \o (LineEnd \o (F \o (LineEnd \o b)))
  BY <1>2 DEF Whole
<1> QED
  BY <1>16, <1>17, <1>18, <1>19 DEF b

-----------------------------------------------------------------------------
(* The exchange.                                                              *)

\* A message under construction: its headers can be sent, and so can its start line
\* when it has one.
Sound(o) ==
    /\ o \in AnyMessage /\ o.headers \in Seq(Sent) /\ Len(o.body) <= MaxBody
    /\ Null \in {o.p1, o.p2, o.p3} \/ StartLine(o.p1, o.p2, o.p3)

\* The functions of httpc.c leave such a message such a message.
LEMMA SoundNew == Sound(NewMessage)
<1>1. <<>> \in Seq(HeaderPairs) /\ <<>> \in Seq(Sent) /\ <<>> \in Texts /\ Len(<<>>) = 0
  BY EmptySeq, ShortTexts
<1>2. 0 <= MaxBody
  BY ComposerAssumption, TextSize, NumeralsAssumption
<1>3. NewMessage \in AnyMessage
  BY <1>1 DEF NewMessage, AnyMessage, HeaderPairs
<1>4. NewMessage.headers = <<>> /\ NewMessage.body = <<>> /\ NewMessage.p1 = Null
  BY DEF NewMessage
<1> QED
  BY <1>1, <1>2, <1>3, <1>4 DEF Sound

\* Other headers, another body, another start line.
LEMMA SoundParts ==
    ASSUME NEW o, Sound(o)
    PROVE  /\ \A hs \in Seq(Sent) : \A n \in Nat :
                 Sound([o EXCEPT !.headers = hs, !.header_cnt = n])
           /\ \A hs \in Seq(Sent) : Sound([o EXCEPT !.headers = hs])
           /\ \A b \in Texts : Len(b) <= MaxBody => Sound([o EXCEPT !.body = b])
           /\ \A p1, p2, p3 : StartLine(p1, p2, p3) => Sound([o EXCEPT !.p1 = p1, !.p2 = p2, !.p3 = p3])
<1>1. o \in AnyMessage /\ o.headers \in Seq(Sent) /\ Len(o.body) <= MaxBody
  BY DEF Sound
<1>2. Sent \subseteq HeaderPairs
  BY DEF Sent
<1>3. \A hs \in Seq(Sent) : hs \in Seq(HeaderPairs)
  BY <1>2, SeqDef
<1>4. ASSUME NEW hs \in Seq(Sent), NEW n \in Nat
      PROVE  Sound([o EXCEPT !.headers = hs, !.header_cnt = n])
  <2> DEFINE q == [o EXCEPT !.headers = hs, !.header_cnt = n]
  <2>1. q \in AnyMessage /\ q.headers = hs /\ q.body = o.body /\ q.p1 = o.p1 /\ q.p2 = o.p2 /\ q.p3 = o.p3
    BY <1>1, <1>3 DEF AnyMessage, HeaderPairs
  <2> HIDE DEF q
  <2>3. Sound(q)
    BY <1>1, <2>1 DEF Sound
  <2> QED
    BY <2>3 DEF q
<1>5. ASSUME NEW hs \in Seq(Sent)
      PROVE  Sound([o EXCEPT !.headers = hs])
  <2> DEFINE q == [o EXCEPT !.headers = hs]
  <2>1. q \in AnyMessage /\ q.headers = hs /\ q.body = o.body /\ q.p1 = o.p1 /\ q.p2 = o.p2 /\ q.p3 = o.p3
    BY <1>1, <1>3 DEF AnyMessage, HeaderPairs
  <2> HIDE DEF q
  <2>3. Sound(q)
    BY <1>1, <2>1 DEF Sound
  <2> QED
    BY <2>3 DEF q
<1>6. ASSUME NEW b \in Texts, Len(b) <= MaxBody
      PROVE  Sound([o EXCEPT !.body = b])
  <2> DEFINE q == [o EXCEPT !.body = b]
  <2>1. q \in AnyMessage /\ q.headers = o.headers /\ q.body = b /\ q.p1 = o.p1 /\ q.p2 = o.p2 /\ q.p3 = o.p3
    BY <1>1 DEF AnyMessage
  <2> HIDE DEF q
  <2>3. Sound(q)
    BY <1>1, <1>6, <2>1 DEF Sound
  <2> QED
    BY <2>3 DEF q
<1>7. ASSUME NEW p1, NEW p2, NEW p3, StartLine(p1, p2, p3)
      PROVE  Sound([o EXCEPT !.p1 = p1, !.p2 = p2, !.p3 = p3])
  <2> DEFINE q == [o EXCEPT !.p1 = p1, !.p2 = p2, !.p3 = p3]
  <2>1. p1 \in Texts /\ p2 \in Texts /\ p3 \in Texts
    BY <1>7 DEF StartLine, Word, Spaceless, Text
  <2>2. q \in AnyMessage /\ q.headers = o.headers /\ q.body = o.body /\ q.p1 = p1 /\ q.p2 = p2 /\ q.p3 = p3
    BY <1>1, <2>1 DEF AnyMessage
  <2> HIDE DEF q
  <2>3. Sound(q)
    BY <1>1, <1>7, <2>2 DEF Sound
  <2> QED
    BY <2>3 DEF q
<1> QED
  BY <1>4, <1>5, <1>6, <1>7

LEMMA SoundValue ==
    ASSUME NEW o, Sound(o), NEW key, IsKey(key), NEW value, IsValue(value)
    PROVE  Sound(setValue(o, key, value))
<1>1. key \in Texts /\ value \in Texts
  BY DEF IsKey, IsValue, Word, Spaceless, Clean, Text
<1>2. [key |-> key, value |-> value] \in Sent
  BY <1>1 DEF Sent, HeaderPairs
<1>3. o.headers \in Seq(Sent) /\ o.header_cnt \in Nat
  BY DEF Sound, AnyMessage
<1> DEFINE hs == <<[key |-> key, value |-> value]>> \o o.headers
<1>4. hs \in Seq(Sent) /\ o.header_cnt + 1 \in Nat
  BY <1>2, <1>3, ConcatProperties
<1> HIDE DEF hs
<1>5. Sound([o EXCEPT !.headers = hs, !.header_cnt = o.header_cnt + 1])
  BY <1>4, SoundParts
<1> QED
  BY <1>5 DEF setValue, hs

LEMMA SoundDelete ==
    ASSUME NEW o, Sound(o), NEW key
    PROVE  Sound(delValue(o, key))
<1> DEFINE K == {h \in Range(o.headers) : ~SameKey(h.key, key)}
<1>1. OnlyIn(o.headers, K) \in Seq(Sent)
  <2> HIDE DEF K
  <2> QED
    BY OnlyInType DEF Sound
<1> QED
  BY <1>1, SoundParts DEF delValue

\* A length is a value that can be sent.
LEMMA LengthIsValue ==
    ASSUME NEW n \in 1..MaxBody
    PROVE  IsValue(utoa(n)) /\ IsKey(Content_Length)
<1>1. n \in 1..Len(Numerals) /\ Numerals \in Texts /\ DOMAIN Numerals = 1..Len(Numerals)
  BY ComposerAssumption, NumeralsAssumption, TextSize
<1>2. Numerals[n] \in Char /\ Numerals[n] \notin {CR, LF, SP, NUL}
  BY <1>1, TextSize, NumeralsAssumption DEF Range
<1> DEFINE v == utoa(n)
<1>3. v \in Texts /\ Len(v) = 1 /\ v[1] = Numerals[n]
  BY <1>2, ShortTexts DEF utoa
<1> HIDE DEF v
<1>4. DOMAIN v = 1..1 /\ v # <<>>
  BY <1>3, TextSize
<1>5. \A k \in 1..1 : k = 1
  OBVIOUS
<1>6. ~Isspace(v[1])
  BY <1>2, <1>3 DEF Isspace
<1>7. Clean(v)
  <2>1. \A k \in DOMAIN v : v[k] # CR
    BY <1>2, <1>3, <1>4, <1>5
  <2> QED
    BY <1>3, <2>1 DEF Clean, Text
<1>8. IsValue(v)
  BY <1>3, <1>4, <1>6, <1>7 DEF IsValue, Trimmed
<1>9. IsKey(Content_Length)
  BY ComposerAssumption
<1> QED
  BY <1>8, <1>9 DEF v

LEMMA SoundAppend ==
    ASSUME NEW o, Sound(o), NEW data \in Texts, Len(o.body) + Len(data) <= MaxBody
    PROVE  Sound(appendBody(o, data))
<1>1. CASE data = <<>>
  BY <1>1 DEF appendBody
<1>2. CASE data # <<>>
  <2> DEFINE b == o.body \o data
             grown == [o EXCEPT !.body = b]
  <2>1. o.body \in Texts /\ o \in AnyMessage
    BY DEF Sound, AnyMessage
  <2>2. b \in Texts /\ Len(b) = Len(o.body) + Len(data)
    BY <2>1, JoinText, JoinSize
  <2>3. Len(o.body) \in Nat /\ Len(data) \in Nat /\ Len(data) > 0 /\ MaxBody \in Nat
    <3>1. Len(data) # 0 /\ Len(data) \in Nat /\ Len(o.body) \in Nat
      BY <1>2, <2>1, TextSize
    <3> QED
      BY <3>1, ComposerAssumption, NumeralsAssumption, TextSize
  <2>4. appendBody(o, data) = setValue(grown, Content_Length, utoa(Len(grown.body)))
    BY <1>2 DEF appendBody
  <2> HIDE DEF b
  <2>5. Len(b) \in 1..MaxBody /\ Len(b) <= MaxBody
    BY <2>2, <2>3
  <2>6. Sound(grown) /\ grown.body = b
    BY <2>1, <2>2, <2>5, SoundParts DEF AnyMessage
  <2> HIDE DEF grown
  <2>7. IsValue(utoa(Len(b))) /\ IsKey(Content_Length)
    BY <2>5, LengthIsValue
  <2> QED
    BY <2>4, <2>6, <2>7, SoundValue
<1> QED
  BY <1>1, <1>2

LEMMA SoundClear ==
    ASSUME NEW o, Sound(o)
    PROVE  Sound(clearBody(o))
<1>1. <<>> \in Texts /\ Len(<<>>) <= MaxBody
  BY ComposerAssumption, NumeralsAssumption, TextSize, ShortTexts
<1> QED
  BY <1>1, SoundParts DEF clearBody

-----------------------------------------------------------------------------
(* The invariant.                                                             *)

ExInv ==
    /\ Sound(out)
    /\ input # Null => input \in [message : Inputs, next : Behind]
    /\ IF handed
       THEN \E S \in {Source} : \E R \in {Body} :
               Sendable(S) /\ R \in Texts /\ PdTypes /\ Reading(S, R)
       ELSE wire = <<>> /\ ParserInit /\ input = Null

\* The invariant holds first and after every step.
LEMMA ExStarts == ExchangeInit => ExInv
  BY SoundNew DEF ExchangeInit, ExInv

\* The parser begins with all of the text before it.
LEMMA ReadStarts ==
    ASSUME NEW S, Sendable(S), NEW R \in Texts, ParserInit, UNCHANGED parser,
           wire' = Whole(S, R)
    PROVE  PdTypes' /\ Reading(S, R)'
<1>1. Whole(S, R) \in Texts
  <2>1. Opening(S) \in Texts
    BY OpeningTidy DEF Tidy, CRsApart
  <2>2. From(S, R, 1) \in Texts
    BY FromText, 1 \in 1..(Len(S.headers) + 1) DEF Sendable
  <2>3. LineEnd \o From(S, R, 1) \in Texts
    BY <2>2, LineEndText, JoinText
  <2> QED
    BY <2>1, <2>3, JoinText DEF Whole
<1>2. /\ msg' = Null /\ len' = Null
      /\ pd' = [linedata |-> <<>>, state |-> "UNKNOWN", last_state |-> "UNKNOWN"]
  BY DEF ParserInit, parser
<1>3. PdTypes'
  BY <1>1, <1>2, ShortTexts DEF PdTypes, States
<1> QED
  BY <1>2, <1>3 DEF Reading

LEMMA ExStep == ExInv /\ [ExchangeNext]_exchangeVars => ExInv'
<1> SUFFICES ASSUME ExInv, [ExchangeNext]_exchangeVars PROVE ExInv'
  OBVIOUS
<1>1. Sound(out)
  BY DEF ExInv
<1>2. ASSUME NEW o, Sound(o), Compose(o) PROVE ExInv'
  <2>1. ~handed' /\ Sound(out')
    BY <1>2 DEF Compose
  <2>2. (wire = <<>> /\ ParserInit /\ input = Null)'
    BY <1>2 DEF Compose, ExInv, ParserInit, parser
  <2>3. Sound(out)'
    BY <2>1 DEF Sound
  <2> QED
    BY <2>1, <2>2, <2>3 DEF ExInv
<1>3. ASSUME NEW l \in StartLines, SetStartLine(l) PROVE ExInv'
  <2>1. StartLine(l[1], l[2], l[3])
    BY ComposerAssumption
  <2>2. Sound(setStartLine(out, l[1], l[2], l[3]))
    BY <1>1, <2>1, SoundParts DEF setStartLine
  <2> QED
    BY <1>2, <1>3, <2>2 DEF SetStartLine
<1>4. ASSUME NEW k \in Keys, NEW v \in Values, SetValue(k, v) PROVE ExInv'
  BY <1>1, <1>2, <1>4, SoundValue, ComposerAssumption DEF SetValue
<1>5. ASSUME NEW k \in Keys, DelValue(k) PROVE ExInv'
  BY <1>1, <1>2, <1>5, SoundDelete DEF DelValue
<1>6. ASSUME NEW data \in Chunks, AppendBody(data) PROVE ExInv'
  BY <1>1, <1>2, <1>6, SoundAppend, ComposerAssumption DEF AppendBody, Text
<1>7. CASE ClearBody
  BY <1>1, <1>2, <1>7, SoundClear DEF ClearBody
<1>8. CASE SendComposed
  <2>1. /\ handed' = TRUE /\ UNCHANGED parser /\ out' = out /\ input' = input /\ input = Null
        /\ ParserInit
    BY <1>8 DEF SendComposed, ExInv
  <2>2. StartLine(out.p1, out.p2, out.p3) /\ out \in AnyMessage /\ out.headers \in Seq(Sent)
    BY <1>1, <1>8 DEF SendComposed, Sound
  <2>3. Sendable(Composed) /\ out.body \in Texts
    BY <2>2, ComposedIs DEF AnyMessage
  <2>4. PICK S, R : S = Composed /\ R = out.body
    OBVIOUS
  <2>5. wire' = Whole(S, R)
    BY <1>8, <2>2, <2>4, ComposerSends DEF SendComposed
  <2>6. Sendable(S) /\ R \in Texts
    BY <2>3, <2>4
  <2>7. PdTypes' /\ Reading(S, R)'
    BY <2>1, <2>5, <2>6, ReadStarts
  <2>8. Source' = S /\ Body' = R
    BY <2>1, <2>4 DEF Source, Body, Composed
  <2>9. Sound(out)'
    BY <1>1, <2>1 DEF Sound
  <2> QED
    BY <2>1, <2>6, <2>7, <2>8, <2>9 DEF ExInv
<1>9. CASE OtherPeer
  <2>1. handed' = TRUE /\ UNCHANGED parser /\ out' = out /\ ParserInit
    BY <1>9 DEF OtherPeer, ExInv
  <2>2. PICK m \in Inputs, b \in Behind :
           input' = [message |-> m, next |-> b] /\ wire' = Characters(m) \o b
    BY <1>9 DEF OtherPeer
  <2>3. IsMessage(m) /\ b \in Texts
    BY PeerAssumption DEF Text
  <2>4. input' \in [message : Inputs, next : Behind] /\ input' # Null
    BY <2>2, PeerAssumption
  <2>5. Sendable(m) /\ m.body \o b \in Texts /\ Characters(m) \o b = Whole(m, m.body \o b)
    BY <2>3, PeerSent
  <2>6. PICK R : R = m.body \o b
    OBVIOUS
  <2>7. PdTypes' /\ Reading(m, R)'
    BY <2>1, <2>2, <2>5, <2>6, ReadStarts
  <2>8. Source' = m /\ Body' = R
    BY <2>2, <2>4, <2>6 DEF Source, Body
  <2>9. Sound(out)'
    BY <1>1, <2>1 DEF Sound
  <2> QED
    BY <2>1, <2>4, <2>5, <2>6, <2>7, <2>8, <2>9 DEF ExInv
<1>10. CASE Receive
  <2>1. handed /\ handed' = handed /\ out' = out /\ input' = input /\ ParserNext
    BY <1>10 DEF Receive
  <2>2. PICK S, R : S = Source /\ R = Body
    OBVIOUS
  <2>3. Sendable(S) /\ R \in Texts /\ PdTypes /\ Reading(S, R)
    BY <2>1, <2>2 DEF ExInv
  <2>4. PdTypes' /\ Reading(S, R)'
    BY <2>1, <2>3, ReadStep
  <2>5. Source' = S /\ Body' = R
    BY <2>1, <2>2 DEF Source, Body, Composed
  <2>6. Sound(out)'
    BY <1>1, <2>1 DEF Sound
  <2>7. input' # Null => input' \in [message : Inputs, next : Behind]
    BY <2>1 DEF ExInv
  <2> QED
    BY <2>1, <2>3, <2>4, <2>5, <2>6, <2>7 DEF ExInv
<1>11. CASE UNCHANGED exchangeVars
  <2>1. /\ UNCHANGED <<wire, msg, pd>> /\ len' = len /\ out' = out
        /\ handed' = handed /\ input' = input
    BY <1>11 DEF exchangeVars, parser
  <2>2. Sound(out)' /\ (input # Null => input \in [message : Inputs, next : Behind])'
    BY <2>1 DEF ExInv, Sound
  <2>3. CASE handed
    <3>1. PICK S, R : S = Source /\ R = Body
      OBVIOUS
    <3>2. Sendable(S) /\ R \in Texts /\ PdTypes /\ Reading(S, R)
      BY <2>3, <3>1 DEF ExInv
    <3>3. PdTypes' /\ Reading(S, R)'
      <4>1. len' # Null => len' \in 0..Len(wire)
        BY <2>1, <3>2 DEF Reading
      <4> QED
        BY <2>1, <3>2, <4>1, ReadSame
    <3>4. Source' = S /\ Body' = R
      BY <2>1, <3>1 DEF Source, Body, Composed
    <3> QED
      BY <2>1, <2>2, <2>3, <3>2, <3>3, <3>4 DEF ExInv
  <2>4. CASE ~handed
    BY <2>1, <2>2, <2>4 DEF ExInv, ParserInit
  <2> QED
    BY <2>3, <2>4
<1> QED
  BY <1>3, <1>4, <1>5, <1>6, <1>7, <1>8, <1>9, <1>10, <1>11 DEF ExchangeNext

\* However the input was cut, a complete message is the one the other peer sent, and
\* nothing of what is behind it has been used (httpc_parser_parse).
THEOREM PeerIsUnderstood == ExchangeSpec => []Faithful
<1>1. ExInv => Faithful
  <2> SUFFICES ASSUME ExInv, input # Null, pd.state = "COMPLETE"
               PROVE  msg = Expected(input.message) /\ wire = input.next
    BY DEF Faithful
  <2>1. handed
    BY DEF ExInv
  <2> DEFINE m == input.message
             b == input.next
             N == OldestLength(Meaning(m))
  <2>2. input \in [message : Inputs, next : Behind]
    BY DEF ExInv
  <2>3. IsMessage(m) /\ b \in Texts
    BY <2>2, PeerAssumption DEF Text
  <2>4. Source = m /\ Body = m.body \o b
    BY DEF Source, Body
  <2>5. Sendable(m) /\ m.body \o b \in Texts /\ PdTypes /\ Reading(m, m.body \o b)
    <3> HIDE DEF m, b
    <3> QED
      BY <2>1, <2>4 DEF ExInv
  <2>6. m.body \in Texts /\ N = Len(m.body)
    BY <2>3 DEF IsMessage, Text
  <2>7. SubSeq(m.body \o b, 1, N) = m.body /\ Drop(m.body \o b, N) = b
    <3> HIDE DEF m, b, N
    <3> QED
      BY <2>3, <2>6, DropJoined
  <2> HIDE DEF m, b
  <2> QED
    BY <2>5, <2>7, ReadComplete DEF Expected, m, b
<1> QED
  BY <1>1, ExStarts, ExStep, PTL DEF ExchangeSpec

\* And a message composed with the functions of httpc.c arrives as it was composed, its
\* body as long as the first Content-Length says that was set and not deleted.
THEOREM ComposedArrives == ExchangeSpec => []RoundTrip
<1>1. ExInv => RoundTrip
  <2> SUFFICES ASSUME ExInv, input = Null, pd.state = "COMPLETE"
               PROVE  /\ <<msg.p1, msg.p2, msg.p3>> = <<out.p1, out.p2, out.p3>>
                      /\ msg.headers = Reverse(out.headers)
                      /\ msg.body = SubSeq(out.body, 1, OldestLength(out.headers))
                      /\ wire = Drop(out.body, OldestLength(out.headers))
    BY DEF RoundTrip
  <2>1. handed
    BY DEF ExInv, ParserInit
  <2>2. Source = Composed /\ Body = out.body
    BY DEF Source, Body
  <2>3. PICK S, R : S = Composed /\ R = out.body
    OBVIOUS
  <2>4. Sendable(S) /\ R \in Texts /\ PdTypes /\ Reading(S, R)
    BY <2>1, <2>2, <2>3 DEF ExInv
  <2>5. S.p1 = out.p1 /\ S.p2 = out.p2 /\ S.p3 = out.p3
    BY <2>3 DEF Composed
  <2>6. StartLine(out.p1, out.p2, out.p3) /\ out \in AnyMessage /\ out.headers \in Seq(Sent)
    BY <2>4, <2>5 DEF ExInv, Sound, Sendable
  <2>7. Meaning(S) = out.headers
    BY <2>3, <2>6, ComposedIs
  <2> QED
    BY <2>3, <2>4, <2>5, <2>7, ReadComplete
<1> QED
  BY <1>1, ExStarts, ExStep, PTL DEF ExchangeSpec

\* The parser survives every composed message, and of another peer's every one but one
\* that has a header without a value (the memcpy of parseHeaderLine).
THEOREM ParserSurvives == ExchangeSpec => [](pd.state = "DEAD" => EmptyValue)
<1>1. ExInv => (pd.state = "DEAD" => EmptyValue)
  <2> SUFFICES ASSUME ExInv, pd.state = "DEAD"
               PROVE  EmptyValue
    OBVIOUS
  <2>1. handed
    BY DEF ExInv, ParserInit
  <2>2. \E R : Reading(Source, R)
    BY <2>1 DEF ExInv
  <2>3. NoValue(Source)
    BY <2>2 DEF Reading, AtStart, AtHeader, AtEnd, InBody, InText
  <2>4. PICK k \in 1..Len(Source.headers) : ValueIn(Source.headers[k]) = <<>>
    BY <2>3 DEF NoValue
  <2>5. input # Null
    <3> SUFFICES ASSUME input = Null PROVE FALSE
      OBVIOUS
    <3>1. out.headers \in Seq(Sent) /\ Len(out.headers) \in Nat
      BY LenProperties DEF ExInv, Sound
    <3>2. Source.headers = [i \in 1..Len(out.headers) |-> Plainly(out.headers[i])]
      BY DEF Source, Composed
    <3>3. Len(Source.headers) = Len(out.headers)
      BY <3>1, <3>2
    <3>4. k \in 1..Len(out.headers) /\ Source.headers[k] = Plainly(out.headers[k])
      BY <2>4, <3>2, <3>3
    <3>5. out.headers[k] \in Sent
      BY <3>1, <3>4, ElementOfSeq
    <3>6. ValueIn(Plainly(out.headers[k])) = out.headers[k].value
      BY <3>5, PlainHeader
    <3>7. out.headers[k].value # <<>>
      BY <3>5 DEF Sent, IsValue
    <3> QED
      BY <2>4, <3>4, <3>6, <3>7
  <2>6. input.message \in Inputs /\ Source = input.message
    BY <2>5 DEF ExInv, Source
  <2>7. IsMessage(input.message)
    BY <2>6, PeerAssumption
  <2>8. DOMAIN input.message.headers = 1..Len(input.message.headers)
    BY <2>7, LenProperties DEF IsMessage
  <2> QED
    BY <2>4, <2>5, <2>6, <2>8 DEF EmptyValue
<1> QED
  BY <1>1, ExStarts, ExStep, PTL DEF ExchangeSpec
=============================================================================
