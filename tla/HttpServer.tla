----------------------------- MODULE HttpServer -----------------------------
(***************************************************************************)
(* The server of httpsrv/: main accepts connections and hands each to the  *)
(* thread pool, whose workers run handle: read one request, find a file or *)
(* make a 404, send, release everything, close.  The pool is the one of    *)
(* module ThreadPool seen from outside: a worker that is woken runs the    *)
(* first task of the list.  Sockets and files share the descriptors of the *)
(* process, of which a closed one is the next to be given out.  A request  *)
(* is received up to a stage the parser reports; a response is a number of *)
(* units to send.                                                          *)
(***************************************************************************)
EXTENDS Integers, Sequences, FiniteSets

CONSTANTS Workers, Conns,
          Descriptors,   \* numbers of descriptors (bound)
          HeadUnits,     \* units of a response head, and of a whole 404
          MaxBlocks,     \* blocks of a file (bound)
          None

ASSUME UnitsAssumption == HeadUnits \in Nat \ {0} /\ MaxBlocks \in Nat
ASSUME ConnsAssumption == None \notin Conns
ASSUME DescriptorsAssumption ==
    Descriptors \subseteq Nat /\ None \notin Descriptors /\ None \notin Conns \X {"socket", "file"}

VARIABLES
    main,    \* the accept loop: accept; in add_task: add, post; exited
    hand,    \* the connection main is about to add
    opened,  \* what each descriptor is open for: <<connection, socket or file>>, None
    number,  \* c->sock of each client
    sock,    \* the server's side of each connection: none, open, closed
    peer,    \* what its peer has sent: nothing, part, enough (the parser reports a
             \* complete request or a body to come)
    gone,    \* its peer has closed or reset the connection
    tasks, sem,  \* the pool's list and its semaphore
    pc, conn,    \* each worker in handle, and its connection
    rest,    \* units of the response it has still to send
    blocks,  \* blocks of the file not yet read
    fp,      \* the descriptor of its file
    obj,     \* for each connection its task_t, req, res, url and FILE: none, live, freed
    sent,    \* history: units sent on each connection
    due,     \* history: units its response has
    failed   \* history: its connection or its file failed

files == <<opened, number, fp>>
pool == <<hand, tasks, sem>>
peers == <<peer, gone>>
history == <<sent, due, failed>>
serverVars == <<main, files, pool, sock, peers, pc, conn, rest, blocks, obj, history>>

\* All that is made for a connection but the client struct, which nobody frees.
Objects == {"task", "req", "res", "url", "file"}

ServerInit ==
    /\ main = "accept" /\ hand = None /\ tasks = <<>> /\ sem = 0
    /\ opened = [n \in Descriptors |-> None]
    /\ number = [c \in Conns |-> None] /\ fp = [w \in Workers |-> None]
    /\ sock = [c \in Conns |-> "none"] /\ peer = [c \in Conns |-> "nothing"]
    /\ gone = [c \in Conns |-> FALSE]
    /\ pc = [w \in Workers |-> "idle"] /\ conn = [w \in Workers |-> None]
    /\ rest = [w \in Workers |-> 0] /\ blocks = [w \in Workers |-> 0]
    /\ obj = [c \in Conns |-> [o \in Objects |-> "none"]]
    /\ sent = [c \in Conns |-> 0] /\ due = [c \in Conns |-> 0]
    /\ failed = [c \in Conns |-> FALSE]

\* The process ends.
Exits ==
    /\ main' = "exited"
    /\ UNCHANGED <<pool, files, sock, peers, pc, conn, rest, blocks, obj, history>>

Running == main # "exited"
Goto(w, from, to) == Running /\ pc[w] = from /\ pc' = [pc EXCEPT ![w] = to]
At(w, o, state) == obj' = [obj EXCEPT ![conn[w]][o] = state]
Frees(w, os) ==
    obj' = [obj EXCEPT ![conn[w]] = [o \in Objects |-> IF o \in os THEN "freed" ELSE @[o]]]
\* Of a response that fails the units are no longer counted.
Fault(w) == /\ failed' = [failed EXCEPT ![conn[w]] = TRUE]
            /\ sent' = [sent EXCEPT ![conn[w]] = 0] /\ due' = [due EXCEPT ![conn[w]] = 0]

-----------------------------------------------------------------------------
(* main.                                                                   *)

\* The lowest descriptor that is free is given to x.
Gets(n, x) ==
    /\ opened[n] = None /\ \A m \in Descriptors : opened[m] = None => n <= m
    /\ opened' = [opened EXCEPT ![n] = x]

\* accept; build_client and simple_task_create, of which nobody else knows yet.  A
\* connection has no name before.
Accept(c, n) ==
    /\ main = "accept" /\ sock[c] = "none" /\ Gets(n, <<c, "socket">>)
    /\ c = CHOOSE d \in Conns : sock[d] = "none"
    /\ main' = "add" /\ hand' = c
    /\ number' = [number EXCEPT ![c] = n] /\ sock' = [sock EXCEPT ![c] = "open"]
    /\ obj' = [obj EXCEPT ![c]["task"] = "live"]
    /\ UNCHANGED <<fp, tasks, sem, peers, pc, conn, rest, blocks, history>>

\* simple_thread_pool_add_task: the task is linked under the lock.
Link ==
    /\ main = "add" /\ main' = "post"
    /\ tasks' = Append(tasks, hand) /\ hand' = None
    /\ UNCHANGED <<sem, files, sock, peers, pc, conn, rest, blocks, obj, history>>

\* After this wake-up the handler may be through with the task, and the number of
\* its socket be a file of another's, before add_task has returned to main: neither
\* uses the task or the client any more.
Post ==
    /\ main = "post" /\ main' = "accept"
    /\ sem' = sem + 1
    /\ UNCHANGED <<hand, tasks, files, sock, peers, pc, conn, rest, blocks, obj, history>>

add_task == Link \/ Post

\* An error of accept, be it that no descriptor is left, ends the process, whatever
\* the workers are doing.
AcceptFails == main = "accept" /\ Exits

\* A wake-up lets an idle worker run the first task.
Take(w) ==
    /\ Running /\ pc[w] = "idle" /\ sem > 0 /\ tasks # <<>>
    /\ sem' = sem - 1 /\ tasks' = Tail(tasks)
    /\ conn' = [conn EXCEPT ![w] = Head(tasks)]
    /\ pc' = [pc EXCEPT ![w] = "recv"]
    /\ UNCHANGED <<main, hand, files, sock, peers, rest, blocks, obj, history>>

-----------------------------------------------------------------------------
(* make_request: byte by byte until the parser reports a complete message  *)
(* or a body to come.                                                      *)

Received(w) == peer[conn[w]]

\* Mutant: an unfinished request is not released.
RecvEndsKeep(w) ==
    /\ Goto(w, "recv", "destroy") /\ gone[conn[w]]
    /\ obj' = obj /\ Fault(w)
    /\ UNCHANGED <<main, pool, files, sock, peers, conn, rest, blocks>>

\* Mutant: recv returning 0 or -1 is taken for nothing yet.
RecvEndsRetry(w) ==
    /\ Goto(w, "recv", "recv") /\ gone[conn[w]]
    /\ UNCHANGED <<main, pool, files, sock, peers, conn, rest, blocks, obj, history>>

\* Something has arrived: the parser makes the message with the first byte.
RecvPart(w) ==
    /\ Goto(w, "recv", "recv")
    /\ Received(w) # "nothing" /\ obj[conn[w]]["req"] = "none"
    /\ At(w, "req", "live")
    /\ UNCHANGED <<main, pool, files, sock, peers, conn, rest, blocks, history>>

RecvDone(w) ==
    /\ Goto(w, "recv", "response")
    /\ Received(w) = "enough" /\ obj[conn[w]]["req"] = "live"
    /\ UNCHANGED <<main, pool, files, sock, peers, conn, rest, blocks, obj, history>>

\* recv returns 0 or -1: what there is of the request is released.
RecvEnds(w) ==
    /\ Goto(w, "recv", "destroy") /\ gone[conn[w]]
    /\ IF obj[conn[w]]["req"] = "live" THEN At(w, "req", "freed") ELSE UNCHANGED obj
    /\ Fault(w)
    /\ UNCHANGED <<main, pool, files, sock, peers, conn, rest, blocks>>

-----------------------------------------------------------------------------
(* handle_http and http_request.                                           *)

\* make_default_response, then simple_url_parse.
MakeResponse(w) ==
    /\ Goto(w, "response", "request")
    /\ obj' = [obj EXCEPT ![conn[w]]["res"] = "live", ![conn[w]]["url"] = "live"]
    /\ UNCHANGED <<main, pool, files, sock, peers, conn, rest, blocks, history>>

\* Without a url_t handle_http returns -1, and there is no response.
UrlFails(w) ==
    /\ Goto(w, "response", "release")
    /\ At(w, "res", "live") /\ Fault(w)
    /\ UNCHANGED <<main, pool, files, sock, peers, conn, rest, blocks>>

Owe(w, n) == /\ due' = [due EXCEPT ![conn[w]] = @ + n] /\ UNCHANGED <<sent, failed>>
             /\ rest' = [rest EXCEPT ![w] = n]

\* is_local_file: send_local_file begins with the head, for a file of n blocks.
LocalFile(w, n) ==
    /\ Goto(w, "request", "head")
    /\ Owe(w, HeadUnits)
    /\ blocks' = [blocks EXCEPT ![w] = n]
    /\ UNCHANGED <<main, pool, files, sock, peers, conn, obj>>

\* A file without a dot in its whole path: strcasecmp is given the null pointer of
\* strrchr, which ends the process.
LocalFileNoDot(w) == Running /\ pc[w] = "request" /\ Exits

\* ret_404; the URL is released, and send_res comes next.
NotFound(w) ==
    /\ Goto(w, "request", "whole")
    /\ Owe(w, HeadUnits)
    /\ At(w, "url", "freed")
    /\ UNCHANGED <<main, pool, files, sock, peers, conn, blocks>>

OpenFile(w, n) ==
    /\ rest[w] = 0 /\ Goto(w, "head", "read")
    /\ Gets(n, <<conn[w], "file">>) /\ fp' = [fp EXCEPT ![w] = n]
    /\ At(w, "file", "live")
    /\ UNCHANGED <<main, pool, number, sock, peers, conn, rest, blocks, history>>

OpenFileFails(w) ==
    /\ rest[w] = 0 /\ Goto(w, "head", "release")
    /\ Fault(w)
    /\ UNCHANGED <<main, pool, files, sock, peers, conn, rest, blocks, obj>>

\* fread of the next block.
ReadBlock(w) ==
    /\ blocks[w] > 0 /\ Goto(w, "read", "block")
    /\ Owe(w, 1)
    /\ blocks' = [blocks EXCEPT ![w] = @ - 1]
    /\ UNCHANGED <<main, pool, files, sock, peers, conn, obj>>

\* fread fails, which is no end of the file: the loop goes round for as long as the
\* file cannot be read, and on if it ever can.
ReadFails(w) ==
    /\ Goto(w, "read", "error")
    /\ UNCHANGED <<main, pool, files, sock, peers, conn, rest, blocks, obj, history>>

ReadRecovers(w) ==
    /\ Goto(w, "error", "read")
    /\ UNCHANGED <<main, pool, files, sock, peers, conn, rest, blocks, obj, history>>

BlockSent(w) ==
    /\ rest[w] = 0 /\ Goto(w, "block", "read")
    /\ UNCHANGED <<main, pool, files, sock, peers, conn, rest, blocks, obj, history>>

\* The end of send_res.
ResponseSent(w) ==
    /\ rest[w] = 0 /\ Goto(w, "whole", "release")
    /\ UNCHANGED <<main, pool, files, sock, peers, conn, rest, blocks, obj, history>>

\* fclose, at the end of the file or after a block that could not be sent.
CloseFile(w) ==
    /\ (blocks[w] = 0 /\ Goto(w, "read", "release")) \/ Goto(w, "fclose", "release")
    /\ opened' = [opened EXCEPT ![fp[w]] = None] /\ fp' = [fp EXCEPT ![w] = None]
    /\ At(w, "file", "freed")
    /\ UNCHANGED <<main, pool, number, sock, peers, conn, rest, blocks, history>>

Sending(w) == Running /\ pc[w] \in {"head", "block", "whole"} /\ rest[w] > 0

\* Mutant: whatever send has taken counts for everything.
SendOnce(w, n) ==
    /\ Sending(w) /\ n <= rest[w]
    /\ rest' = [rest EXCEPT ![w] = 0]
    /\ sent' = [sent EXCEPT ![conn[w]] = @ + n]
    /\ UNCHANGED <<main, pool, files, sock, peers, pc, conn, blocks, obj, due, failed>>

\* send takes some of it.
Send(w, n) ==
    /\ Sending(w) /\ n <= rest[w]
    /\ rest' = [rest EXCEPT ![w] = @ - n]
    /\ sent' = [sent EXCEPT ![conn[w]] = @ + n]
    /\ UNCHANGED <<main, pool, files, sock, peers, pc, conn, blocks, obj, due, failed>>

\* Mutant: the socket is closed where the send failed, and again at the end.
SendFailsCloses(w) ==
    /\ Sending(w) /\ gone[conn[w]]
    /\ pc' = [pc EXCEPT ![w] = IF @ = "block" THEN "fclose" ELSE "release"]
    /\ rest' = [rest EXCEPT ![w] = 0]
    /\ opened' = [opened EXCEPT ![number[conn[w]]] = None]
    /\ Fault(w)
    /\ UNCHANGED <<main, pool, number, fp, sock, peers, conn, blocks, obj>>

SendFails(w) ==
    /\ Sending(w) /\ gone[conn[w]]
    /\ pc' = [pc EXCEPT ![w] = IF @ = "block" THEN "fclose" ELSE "release"]
    /\ rest' = [rest EXCEPT ![w] = 0]
    /\ Fault(w)
    /\ UNCHANGED <<main, pool, files, sock, peers, conn, blocks, obj>>

\* Nothing in the server ignores SIGPIPE, which a send to a peer that is gone may
\* raise instead of failing.
SigPipe(w) == Sending(w) /\ gone[conn[w]] /\ Exits

-----------------------------------------------------------------------------
(* The end of handle.                                                      *)

\* simple_url_release, if there is a url_t still, and the two messages.
Release(w) ==
    /\ Goto(w, "release", "destroy")
    /\ Frees(w, {"req", "res"} \cup {o \in {"url"} : obj[conn[w]][o] = "live"})
    /\ UNCHANGED <<main, pool, files, sock, peers, conn, rest, blocks, history>>

DestroyTask(w) ==
    /\ Goto(w, "destroy", "close")
    /\ At(w, "task", "freed")
    /\ UNCHANGED <<main, pool, files, sock, peers, conn, rest, blocks, history>>

\* closesocket, and the handler returns.
CloseSocket(w) ==
    /\ Goto(w, "close", "idle")
    /\ opened' = [opened EXCEPT ![number[conn[w]]] = None]
    /\ sock' = [sock EXCEPT ![conn[w]] = "closed"]
    /\ conn' = [conn EXCEPT ![w] = None]
    /\ blocks' = [blocks EXCEPT ![w] = 0]
    /\ peer' = [peer EXCEPT ![conn[w]] = "nothing"] /\ gone' = [gone EXCEPT ![conn[w]] = FALSE]
    /\ UNCHANGED <<main, pool, number, fp, rest, obj, history>>

-----------------------------------------------------------------------------
(* The peers: a request arrives in parts; a peer may go away at any time.  *)

PeerSends(c) ==
    /\ Running /\ sock[c] = "open" /\ ~gone[c] /\ peer[c] # "enough"
    /\ peer' = [peer EXCEPT ![c] = IF @ = "nothing" THEN "part" ELSE "enough"]
    /\ UNCHANGED <<main, pool, files, sock, gone, pc, conn, rest, blocks, obj, history>>

PeerGoes(c) ==
    /\ Running /\ sock[c] = "open" /\ ~gone[c]
    /\ gone' = [gone EXCEPT ![c] = TRUE]
    /\ UNCHANGED <<main, pool, files, sock, peer, pc, conn, rest, blocks, obj, history>>

handle(w) ==
    \/ RecvPart(w) \/ RecvDone(w) \/ RecvEnds(w)
    \/ MakeResponse(w) \/ UrlFails(w)
    \/ (\E n \in 0..MaxBlocks : LocalFile(w, n)) \/ LocalFileNoDot(w) \/ NotFound(w)
    \/ (\E n \in Descriptors : OpenFile(w, n)) \/ OpenFileFails(w)
    \/ ReadBlock(w) \/ ReadFails(w) \/ BlockSent(w) \/ ResponseSent(w) \/ CloseFile(w)
    \/ (\E n \in 1..HeadUnits : Send(w, n)) \/ SendFails(w) \/ SigPipe(w)
    \/ Release(w) \/ DestroyTask(w) \/ CloseSocket(w)

ServerNext ==
    \/ \E c \in Conns : (\E n \in Descriptors : Accept(c, n)) \/ PeerSends(c) \/ PeerGoes(c)
    \/ add_task \/ AcceptFails
    \/ \E w \in Workers : Take(w) \/ handle(w) \/ ReadRecovers(w)

ServerSpec == ServerInit /\ [][ServerNext]_serverVars

-----------------------------------------------------------------------------
(* Properties.                                                             *)

FileOpen(w) == pc[w] \in {"read", "error", "block", "fclose"}
Responding(w) == FileOpen(w) \/ pc[w] \in {"head", "whole"}

\* Whichever way a connection ended, its task, messages, url_t and FILE have been
\* released when its socket is closed, and none of them while it is still used.
ReleasedAll ==
    /\ \A c \in Conns : sock[c] = "closed" => \A o \in Objects : obj[c][o] # "live"
    /\ \A w \in Workers :
          /\ pc[w] \in {"response", "request"} \/ Responding(w) =>
                obj[conn[w]]["req"] = "live" /\ obj[conn[w]]["task"] = "live"
          /\ pc[w] = "request" \/ Responding(w) => obj[conn[w]]["res"] = "live"
          /\ pc[w] \in {"request", "head"} \/ FileOpen(w) => obj[conn[w]]["url"] = "live"

\* Nobody uses a descriptor of somebody else: a worker's socket is open for its own
\* connection until it closes it, its file until it closes that, although main and
\* the others are given each number again as soon as it is free; and a connection
\* is main's alone until its task, which the handler destroys, is linked.
OwnDescriptor ==
    /\ \A w \in Workers :
          /\ pc[w] # "idle" => opened[number[conn[w]]] = <<conn[w], "socket">>
          /\ FileOpen(w) => opened[fp[w]] = <<conn[w], "file">>
    /\ main = "add" =>
          /\ opened[number[hand]] = <<hand, "socket">> /\ obj[hand]["task"] = "live"
          /\ \A w \in Workers : conn[w] # hand

\* A connection that was closed without a fault got all of its response, however
\* send divided it.
AnsweredWhole ==
    \A c \in Conns : sock[c] = "closed" /\ ~failed[c] =>
        due[c] > 0 /\ sent[c] = due[c]

\* Every connection is closed in the end, unless accept, SIGPIPE or a file name
\* without a dot has ended the process, its own file cannot be read, or no worker
\* is left because none of their files can.
Unreadable(c) ==
    \/ \E w \in Workers : conn[w] = c /\ pc[w] = "error"
    \/ \A w \in Workers : pc[w] = "error"

AllClosed == \A c \in Conns : sock[c] = "open" ~> sock[c] = "closed" \/ ~Running \/ Unreadable(c)
=============================================================================
