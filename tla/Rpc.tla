-------------------------------- MODULE Rpc --------------------------------
(***************************************************************************)
(* What simple_thread_req promises its callers (include/simple/thread.h):  *)
(* a call hands a request to the working thread and blocks until the       *)
(* working thread has answered that request; calls are answered one at a   *)
(* time and a caller never gets the answer to another call.                *)
(***************************************************************************)
CONSTANTS Callers, Requests, None

VARIABLES
    call,   \* each caller's request, None when it is not in a call
    answer  \* each caller's answer, named by the request it answers

rpcVars == <<call, answer>>

RpcInit ==
    /\ call = [c \in Callers |-> None]
    /\ answer = [c \in Callers |-> None]

\* The caller enters simple_thread_req.
Call(c, v) ==
    /\ call[c] = None
    /\ call' = [call EXCEPT ![c] = v]
    /\ answer' = [answer EXCEPT ![c] = None]

\* The working thread answers what c asked, once.
Answer(c) ==
    /\ call[c] # None /\ answer[c] = None
    /\ answer' = [answer EXCEPT ![c] = call[c]]
    /\ UNCHANGED call

\* simple_thread_req returns the answer.
Return(c) ==
    /\ call[c] # None /\ answer[c] = call[c]
    /\ call' = [call EXCEPT ![c] = None]
    /\ UNCHANGED answer

RpcNext == \E c \in Callers :
    \/ \E v \in Requests : Call(c, v)
    \/ Answer(c)
    \/ Return(c)

RpcSpec == RpcInit /\ [][RpcNext]_rpcVars
=============================================================================
