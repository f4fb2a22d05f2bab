----------------------------- MODULE ThreadReq -----------------------------
(***************************************************************************)
(* The rendezvous of src/thread.c between callers of simple_thread_req and *)
(* one working thread: a mutex that serialises the callers, one slot for   *)
(* the request and one for the reply, and a semaphore for each direction.  *)
(* The working thread runs the loop that include/simple/thread.h           *)
(* prescribes, with simple_thread_getreq or with simple_thread_chkreq; one *)
(* request value asks it to leave the loop.  The slots are written and     *)
(* read without any lock but the protocol itself.                          *)
(***************************************************************************)
EXTENDS Integers, FiniteSets

CONSTANTS Callers,        \* threads that call simple_thread_req
          Owner,          \* the one that stops and joins the working thread
          Requests,       \* request values
          Quit,           \* the request that makes the worker leave its loop
          None,           \* a slot or variable never written
          MaxCalls,       \* calls per caller (bound)
          MaxInterrupts   \* waits a signal handler may interrupt (bound)

ASSUME OwnerAssumption == Owner \in Callers
ASSUME QuitAssumption == Quit \in Requests
ASSUME NoneAssumption == None \notin Requests /\ None \notin Callers
ASSUME CallBounds == MaxCalls \in Nat /\ MaxInterrupts \in Nat

VARIABLES
    mut,      \* holder of th->mut, or None
    req, rpl, \* the slots th->req and th->rpl
    sem_req, sem_rpl,
    pc,       \* where each caller is in simple_thread_req
    arg,      \* its argument
    ret,      \* its local rpl
    wpc,      \* where the working thread is
    got,      \* the request the working thread is serving
    quit,     \* the working thread's loop flag
    freed,    \* simple_thread_join has freed the thread_t
    calls,    \* calls made so far
    intr      \* interrupted waits so far

chan == <<mut, req, rpl, sem_req, sem_rpl>>
caller == <<pc, arg, ret, calls, intr>>
worker == <<wpc, got, quit>>
vars == <<chan, caller, worker, freed>>

CallerPCs == {"idle", "lock", "set", "post", "wait", "read", "unlock", "joined"}
WorkerPCs == {"loop", "getreq", "chkreq", "take", "handle", "set", "post", "exit"}

TypeOK ==
    /\ mut \in Callers \cup {None}
    /\ req \in Requests \cup {None} /\ rpl \in Requests \cup {None}
    /\ sem_req \in Nat /\ sem_rpl \in Nat
    /\ pc \in [Callers -> CallerPCs]
    /\ arg \in [Callers -> Requests \cup {None}]
    /\ ret \in [Callers -> Requests \cup {None}]
    /\ wpc \in WorkerPCs
    /\ got \in Requests \cup {None}
    /\ quit \in BOOLEAN /\ freed \in BOOLEAN
    /\ calls \in [Callers -> 0..MaxCalls]
    /\ intr \in 0..MaxInterrupts

\* simple_thread_create; malloc leaves both slots unset.
Init ==
    /\ mut = None /\ req = None /\ rpl = None /\ sem_req = 0 /\ sem_rpl = 0
    /\ pc = [c \in Callers |-> "idle"]
    /\ arg = [c \in Callers |-> None] /\ ret = [c \in Callers |-> None]
    /\ calls = [c \in Callers |-> 0] /\ intr = 0
    /\ wpc = "loop" /\ got = None /\ quit = FALSE
    /\ freed = FALSE

-----------------------------------------------------------------------------
(* simple_thread_req, one step per access to shared state.                 *)

Goto(c, here, there) == pc[c] = here /\ pc' = [pc EXCEPT ![c] = there]

\* A caller makes a call.  Only the owner stops the worker, when no other caller
\* is in a call, and nobody calls any more after that.
Enter(c, v) ==
    /\ Goto(c, "idle", "lock")
    /\ arg[Owner] # Quit
    /\ IF v = Quit THEN c = Owner /\ \A d \in Callers : pc[d] = "idle"
       ELSE calls[c] < MaxCalls
    /\ arg' = [arg EXCEPT ![c] = v]
    /\ calls' = [calls EXCEPT ![c] = IF v = Quit THEN @ ELSE @ + 1]
    /\ UNCHANGED <<chan, worker, freed, ret, intr>>

\* Mutant: callers are not serialised.
NoMutLock(c) ==
    /\ Goto(c, "lock", "set")
    /\ mut' = c
    /\ UNCHANGED <<req, rpl, sem_req, sem_rpl, worker, freed, arg, ret, calls, intr>>

MutLock(c) ==
    /\ Goto(c, "lock", "set") /\ mut = None
    /\ mut' = c
    /\ UNCHANGED <<req, rpl, sem_req, sem_rpl, worker, freed, arg, ret, calls, intr>>

SetReq(c) ==
    /\ Goto(c, "set", "post")
    /\ req' = arg[c]
    /\ UNCHANGED <<mut, rpl, sem_req, sem_rpl, worker, freed, arg, ret, calls, intr>>

PostReq(c) ==
    /\ Goto(c, "post", "wait")
    /\ sem_req' = sem_req + 1
    /\ UNCHANGED <<mut, req, rpl, sem_rpl, worker, freed, arg, ret, calls, intr>>

\* Mutant: the caller does not wait for the reply.
NoWaitRpl(c) ==
    /\ Goto(c, "wait", "read")
    /\ UNCHANGED <<chan, worker, freed, arg, ret, calls, intr>>

WaitRpl(c) ==
    /\ Goto(c, "wait", "read") /\ sem_rpl > 0
    /\ sem_rpl' = sem_rpl - 1
    /\ UNCHANGED <<mut, req, rpl, sem_req, worker, freed, arg, ret, calls, intr>>

\* simple_sem_wait returns when a signal handler interrupts sem_wait.
WaitInterrupted(c) ==
    /\ Goto(c, "wait", "read") /\ intr < MaxInterrupts
    /\ intr' = intr + 1
    /\ UNCHANGED <<chan, worker, freed, arg, ret, calls>>

ReadRpl(c) ==
    /\ Goto(c, "read", "unlock")
    /\ ret' = [ret EXCEPT ![c] = rpl]
    /\ UNCHANGED <<chan, worker, freed, arg, calls, intr>>

MutUnlock(c) ==
    /\ Goto(c, "unlock", "idle")
    /\ mut' = None
    /\ UNCHANGED <<req, rpl, sem_req, sem_rpl, worker, freed, arg, ret, calls, intr>>

\* Mutant: the thread_t is freed without waiting for the worker.
JoinNoWait ==
    /\ Goto(Owner, "idle", "joined")
    /\ arg[Owner] = Quit
    /\ freed' = TRUE
    /\ UNCHANGED <<chan, worker, arg, ret, calls, intr>>

\* simple_thread_join, by the owner, once its request to stop was answered.
Join ==
    /\ Goto(Owner, "idle", "joined")
    /\ arg[Owner] = Quit /\ wpc = "exit"
    /\ freed' = TRUE
    /\ UNCHANGED <<chan, worker, arg, ret, calls, intr>>

-----------------------------------------------------------------------------
(* The working thread.                                                     *)

WGoto(here, there) == wpc = here /\ wpc' = there

\* while (!quit): the next request is awaited in either way.
WorkerLoop ==
    /\ \/ quit /\ WGoto("loop", "exit")
       \/ ~quit /\ WGoto("loop", "getreq")
       \/ ~quit /\ WGoto("loop", "chkreq")
    /\ UNCHANGED <<chan, caller, freed, got, quit>>

\* Mutant: a request that arrives during simple_thread_chkreq is taken from the
\* semaphore and reported as a timeout.
WaitReqDrop ==
    /\ WGoto("getreq", "take") \/ WGoto("chkreq", "loop")
    /\ sem_req > 0 /\ sem_req' = sem_req - 1
    /\ UNCHANGED <<mut, req, rpl, sem_rpl, caller, freed, got, quit>>

\* The wait of simple_thread_getreq, or of simple_thread_chkreq in time.
WaitReq ==
    /\ WGoto("getreq", "take") \/ WGoto("chkreq", "take")
    /\ sem_req > 0 /\ sem_req' = sem_req - 1
    /\ UNCHANGED <<mut, req, rpl, sem_rpl, caller, freed, got, quit>>

\* simple_thread_chkreq returns 0; sem_timedwait fails only when it would block.
ChkReqTimeout ==
    /\ WGoto("chkreq", "loop") /\ sem_req = 0
    /\ UNCHANGED <<chan, caller, freed, got, quit>>

\* The wait of simple_thread_getreq may be interrupted too.
GetReqInterrupted ==
    /\ WGoto("getreq", "take") /\ intr < MaxInterrupts
    /\ intr' = intr + 1
    /\ UNCHANGED <<chan, pc, arg, ret, calls, freed, got, quit>>

TakeReq ==
    /\ WGoto("take", "handle")
    /\ got' = req
    /\ UNCHANGED <<chan, caller, freed, quit>>

\* Mutant: the request to stop is answered and forgotten.
HandleNoQuit ==
    /\ WGoto("handle", "set")
    /\ UNCHANGED <<chan, caller, freed, got, quit>>

Handle ==
    /\ WGoto("handle", "set")
    /\ quit' = (quit \/ got = Quit)
    /\ UNCHANGED <<chan, caller, freed, got>>

\* simple_thread_reply: the reply is named by the request it answers.
SetRpl ==
    /\ WGoto("set", "post")
    /\ rpl' = got
    /\ UNCHANGED <<mut, req, sem_req, sem_rpl, caller, freed, got, quit>>

\* Mutant: the reply is announced twice.
PostRplTwice ==
    /\ WGoto("post", "loop")
    /\ sem_rpl' = sem_rpl + 2
    /\ UNCHANGED <<mut, req, rpl, sem_req, caller, freed, got, quit>>

PostRpl ==
    /\ WGoto("post", "loop")
    /\ sem_rpl' = sem_rpl + 1
    /\ UNCHANGED <<mut, req, rpl, sem_req, caller, freed, got, quit>>

-----------------------------------------------------------------------------
simple_thread_req(c) ==
    MutLock(c) \/ SetReq(c) \/ PostReq(c) \/ WaitRpl(c) \/ ReadRpl(c) \/ MutUnlock(c)

Worker == WorkerLoop \/ WaitReq \/ ChkReqTimeout \/ TakeReq \/ Handle \/ SetRpl \/ PostRpl

Terminated == freed /\ UNCHANGED vars

Next ==
    \/ \E c \in Callers :
          \/ simple_thread_req(c) \/ WaitInterrupted(c)
          \/ \E v \in Requests : Enter(c, v)
    \/ Worker \/ GetReqInterrupted \/ Join \/ Terminated

Spec == Init /\ [][Next]_vars

\* Threads that can run are scheduled; nobody has to make a call.
FairSpec == Spec /\ WF_vars(Worker) /\ WF_vars(Join)
                 /\ \A c \in Callers : WF_vars(simple_thread_req(c))

-----------------------------------------------------------------------------
(* Properties.                                                             *)

WorkerIdle == wpc \in {"loop", "getreq", "chkreq", "exit"}

\* The stages of the exchange for the caller c that holds the mutex: at any time
\* one side may touch the slots, and they carry c's request and its answer.
Exchange(c) ==
    \/ /\ pc[c] \in {"set", "post"} /\ WorkerIdle /\ sem_req = 0 /\ sem_rpl = 0
       /\ pc[c] = "post" => req = arg[c]
    \/ /\ pc[c] = "wait" /\ WorkerIdle /\ sem_req = 1 /\ sem_rpl = 0
       /\ req = arg[c]
    \/ /\ pc[c] = "wait" /\ sem_req = 0 /\ sem_rpl = 0
       /\ \/ wpc = "take" /\ req = arg[c]
          \/ wpc \in {"handle", "set"} /\ got = arg[c]
          \/ wpc = "post" /\ rpl = arg[c]
    \/ /\ pc[c] = "wait" /\ WorkerIdle /\ sem_req = 0 /\ sem_rpl = 1
       /\ rpl = arg[c]
    \/ /\ pc[c] = "read" /\ WorkerIdle /\ sem_req = 0 /\ sem_rpl = 0
       /\ rpl = arg[c]
    \/ /\ pc[c] = "unlock" /\ WorkerIdle /\ sem_req = 0 /\ sem_rpl = 0
       /\ ret[c] = arg[c]

\* Before the owner's request to stop has been handled the worker is in its loop.
Unstopped == pc[Owner] \in {"lock", "set", "post"}
             \/ (pc[Owner] = "wait" /\ (sem_req = 1 \/ wpc \in {"take", "handle"}))

\* What the mutex and the order of the calls guarantee whatever the waits do.
Serial ==
    /\ \A c \in Callers : pc[c] \notin {"idle", "lock", "joined"} <=> mut = c
    /\ \A c \in Callers : pc[c] \notin {"idle", "joined"} => arg[c] \in Requests
    /\ \A c \in Callers : arg[c] = Quit => c = Owner
    /\ arg[Owner] = Quit => \A c \in Callers \ {Owner} : pc[c] = "idle"
    /\ pc[Owner] = "joined" <=> freed
    /\ freed => wpc = "exit" /\ arg[Owner] = Quit

\* What the semaphores add.
Slots ==
    /\ IF mut = None THEN WorkerIdle /\ sem_req = 0 /\ sem_rpl = 0
       ELSE Exchange(mut)
    /\ quit => arg[Owner] = Quit /\ ~Unstopped
    /\ wpc = "exit" => quit
    /\ wpc = "take" => req # None

\* Callers are served one at a time and, until a wait is interrupted, request
\* and reply slots are never shared by a writer and a reader although the worker
\* takes no lock, the two semaphores never hold a token too many, and a worker
\* that stops leaves no request unanswered.
Handshake == Serial /\ (intr = 0 => Slots)

\* Until a wait is interrupted a call returns the answer to its own request
\* (thread.h: the call blocks until the working thread has called
\* simple_thread_reply for it).
OwnAnswer == \A c \in Callers : intr = 0 /\ pc[c] = "unlock" => ret[c] = arg[c]

\* simple_thread_join frees the thread_t when neither the worker nor a caller
\* can touch its mutex, its semaphores or its slots.
NoUseAfterJoin ==
    freed => wpc = "exit" /\ mut = None /\ \A c \in Callers : pc[c] \in {"idle", "joined"}

\* Each caller seen through Rpc: answered from the write of th->rpl on.
callBar == [c \in Callers |-> IF pc[c] \in {"idle", "joined"} THEN None ELSE arg[c]]
answerBar == [c \in Callers |->
    IF pc[c] \in {"unlock", "idle", "joined"} THEN ret[c]
    ELSE IF pc[c] = "read" \/ (pc[c] = "wait" /\ (wpc = "post" \/ sem_rpl > 0)) THEN rpl
    ELSE None]
R == INSTANCE Rpc WITH call <- callBar, answer <- answerBar

\* Until a wait is interrupted the rendezvous implements the atomic call of
\* module Rpc.
ImplementsRpc == R!RpcInit /\ [][intr' = 0 => R!RpcNext]_(R!rpcVars)

\* A call is answered, and the owner's stop ends in a joined thread.
CallReturns == \A c \in Callers : pc[c] = "lock" ~> pc[c] \in {"idle", "joined"}
JoinReturns == arg[Owner] = Quit ~> freed
=============================================================================
