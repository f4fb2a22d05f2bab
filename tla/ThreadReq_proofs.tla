-------------------------- MODULE ThreadReq_proofs --------------------------
(* Proofs about ThreadReq for any callers, requests and number of calls.    *)
EXTENDS ThreadReq, TLAPS

LEMMA TypeStep == TypeOK /\ [Next]_vars => TypeOK'
<1> SUFFICES ASSUME TypeOK, [Next]_vars PROVE TypeOK'
  OBVIOUS
<1> USE OwnerAssumption, CallBounds DEF TypeOK, CallerPCs, WorkerPCs, Goto, WGoto,
        chan, caller, worker
<1>1. ASSUME NEW c \in Callers, simple_thread_req(c) PROVE TypeOK'
  BY <1>1 DEF simple_thread_req, MutLock, SetReq, PostReq, WaitRpl, ReadRpl, MutUnlock
<1>2. ASSUME NEW c \in Callers, WaitInterrupted(c) PROVE TypeOK'
  BY <1>2 DEF WaitInterrupted
<1>3. ASSUME NEW c \in Callers, NEW v \in Requests, Enter(c, v) PROVE TypeOK'
  BY <1>3 DEF Enter
<1>4. CASE Worker
  <2>1. CASE WorkerLoop \/ WaitReq \/ ChkReqTimeout \/ TakeReq \/ SetRpl \/ PostRpl
    BY <2>1 DEF WorkerLoop, WaitReq, ChkReqTimeout, TakeReq, SetRpl, PostRpl
  <2>2. CASE Handle
    <3>1. quit' \in BOOLEAN
      BY <2>2 DEF Handle
    <3> QED BY <2>2, <3>1 DEF Handle
  <2> QED BY <1>4, <2>1, <2>2 DEF Worker
<1>5. CASE GetReqInterrupted
  BY <1>5 DEF GetReqInterrupted
<1>6. CASE Join
  BY <1>6 DEF Join
<1>7. CASE UNCHANGED vars
  BY <1>7 DEF vars
<1> QED BY <1>1, <1>2, <1>3, <1>4, <1>5, <1>6, <1>7 DEF Next, Terminated

\* The semaphores keep the slots to one side, as long as no wait is interrupted.
LEMMA SlotsStep ==
    ASSUME intr' = 0, TypeOK, Serial, Slots, [Next]_vars
    PROVE  Slots'
<1> USE OwnerAssumption, NoneAssumption, QuitAssumption
    DEF TypeOK, CallerPCs, WorkerPCs, Goto, WGoto, chan, caller, worker,
        Serial, Slots, Exchange, WorkerIdle, Unstopped
<1>1. ASSUME NEW c \in Callers, simple_thread_req(c) PROVE Slots'
  <2>1. CASE MutLock(c)
    BY <2>1 DEF MutLock
  <2>2. CASE SetReq(c)
    BY <2>2 DEF SetReq
  <2>3. CASE PostReq(c)
    BY <2>3 DEF PostReq
  <2>4. CASE WaitRpl(c)
    BY <2>4 DEF WaitRpl
  <2>5. CASE ReadRpl(c)
    BY <2>5 DEF ReadRpl
  <2>6. CASE MutUnlock(c)
    BY <2>6 DEF MutUnlock
  <2> QED BY <1>1, <2>1, <2>2, <2>3, <2>4, <2>5, <2>6 DEF simple_thread_req
<1>2. ASSUME NEW c \in Callers, WaitInterrupted(c) PROVE Slots'
  BY <1>2 DEF WaitInterrupted
<1>3. ASSUME NEW c \in Callers, NEW v \in Requests, Enter(c, v) PROVE Slots'
  BY <1>3 DEF Enter
<1>4. CASE Worker
  <2>1. CASE WorkerLoop
    BY <2>1 DEF WorkerLoop
  <2>2. CASE WaitReq
    BY <2>2 DEF WaitReq
  <2>3. CASE ChkReqTimeout
    BY <2>3 DEF ChkReqTimeout
  <2>4. CASE TakeReq
    BY <2>4 DEF TakeReq
  <2>5. CASE Handle
    <3>1. mut \in Callers /\ pc[mut] = "wait" /\ got = arg[mut]
      BY <2>5 DEF Handle
    <3>2. quit' => arg[Owner] = Quit
      BY <2>5, <3>1 DEF Handle
    <3>3. wpc' = "set" /\ UNCHANGED <<chan, caller, freed, got>>
      BY <2>5 DEF Handle
    <3>4. wpc = "handle" /\ sem_req = 0
      BY <2>5, <3>1 DEF Handle
    <3> QED BY <3>1, <3>2, <3>3, <3>4
  <2>6. CASE SetRpl
    BY <2>6 DEF SetRpl
  <2>7. CASE PostRpl
    BY <2>7 DEF PostRpl
  <2> QED BY <1>4, <2>1, <2>2, <2>3, <2>4, <2>5, <2>6, <2>7 DEF Worker
<1>5. CASE GetReqInterrupted
  BY <1>5 DEF GetReqInterrupted
<1>6. CASE Join
  BY <1>6 DEF Join
<1>7. CASE UNCHANGED vars
  BY <1>7 DEF vars
<1> QED BY <1>1, <1>2, <1>3, <1>4, <1>5, <1>6, <1>7 DEF Next, Terminated

\* Every step keeps the callers in order, interrupted waits included.
LEMMA SerialStep ==
    ASSUME TypeOK, Serial, [Next]_vars
    PROVE  Serial'
<1> USE OwnerAssumption, NoneAssumption, QuitAssumption
    DEF TypeOK, CallerPCs, WorkerPCs, Goto, WGoto, chan, caller, worker, Serial
<1>1. ASSUME NEW c \in Callers, simple_thread_req(c) PROVE Serial'
  <2>1. CASE MutLock(c)
    BY <2>1 DEF MutLock
  <2>2. CASE SetReq(c) \/ PostReq(c) \/ WaitRpl(c)
    BY <2>2 DEF SetReq, PostReq, WaitRpl
  <2>3. CASE ReadRpl(c)
    BY <2>3 DEF ReadRpl
  <2>4. CASE MutUnlock(c)
    BY <2>4 DEF MutUnlock
  <2> QED BY <1>1, <2>1, <2>2, <2>3, <2>4 DEF simple_thread_req
<1>2. ASSUME NEW c \in Callers, WaitInterrupted(c) PROVE Serial'
  BY <1>2 DEF WaitInterrupted
<1>3. ASSUME NEW c \in Callers, NEW v \in Requests, Enter(c, v) PROVE Serial'
  BY <1>3 DEF Enter
<1>4. CASE Worker
  <2>1. wpc # "exit" /\ UNCHANGED <<mut, pc, arg, freed>>
    BY <1>4 DEF Worker, WorkerLoop, WaitReq, ChkReqTimeout, TakeReq, Handle, SetRpl, PostRpl
  <2> QED BY <2>1
<1>5. CASE GetReqInterrupted
  BY <1>5 DEF GetReqInterrupted
<1>6. CASE Join
  BY <1>6 DEF Join
<1>7. CASE UNCHANGED vars
  BY <1>7 DEF vars
<1> QED BY <1>1, <1>2, <1>3, <1>4, <1>5, <1>6, <1>7 DEF Next, Terminated

\* The count of interrupted waits never falls back to zero.
LEMMA IntrStep ==
    ASSUME TypeOK, [Next]_vars, intr' = 0
    PROVE  intr = 0
BY CallBounds DEF TypeOK, Next, simple_thread_req, MutLock, SetReq, PostReq, WaitRpl, ReadRpl,
   MutUnlock, WaitInterrupted, Enter, Worker, WorkerLoop, WaitReq, ChkReqTimeout, TakeReq,
   Handle, SetRpl, PostRpl, GetReqInterrupted, Join, Terminated, vars, caller

LEMMA HandshakeStep ==
    ASSUME TypeOK, Handshake, [Next]_vars
    PROVE  Handshake'
<1>1. Serial'
  BY SerialStep DEF Handshake
<1>2. ASSUME intr' = 0 PROVE Slots'
  <2>1. intr = 0
    BY <1>2, IntrStep
  <2> QED BY <1>2, <2>1, SlotsStep DEF Handshake
<1> QED BY <1>1, <1>2 DEF Handshake

LEMMA InitInv == Init => TypeOK /\ Handshake
<1> SUFFICES ASSUME Init PROVE TypeOK /\ Handshake
  OBVIOUS
<1>1. TypeOK
  <2>1. pc \in [Callers -> CallerPCs] /\ wpc \in WorkerPCs
    BY DEF Init, CallerPCs, WorkerPCs
  <2>2. /\ arg \in [Callers -> Requests \cup {None}]
        /\ ret \in [Callers -> Requests \cup {None}]
    BY DEF Init
  <2>3. calls \in [Callers -> 0..MaxCalls] /\ intr \in 0..MaxInterrupts
    BY CallBounds DEF Init
  <2> QED BY <2>1, <2>2, <2>3 DEF Init, TypeOK
<1>2. Handshake
  BY OwnerAssumption, NoneAssumption, QuitAssumption
  DEF Init, Handshake, Serial, Slots, WorkerIdle, Unstopped
<1> QED BY <1>1, <1>2

\* Every variable keeps its type, whatever waits are interrupted.
THEOREM ReqTypeOK == Spec => []TypeOK
<1>1. Init => TypeOK
  BY InitInv
<1> QED BY <1>1, TypeStep, PTL DEF Spec

\* The protocol of the two semaphores keeps the slots from being shared by a
\* writer and a reader, and a stopped worker leaves nobody waiting.
THEOREM ReqHandshake == Spec => [](TypeOK /\ Handshake)
<1>1. TypeOK /\ Handshake /\ [Next]_vars => (TypeOK /\ Handshake)'
  BY TypeStep, HandshakeStep
<1> QED BY <1>1, InitInv, PTL DEF Spec

\* A call whose wait is not interrupted returns the answer to its own request,
\* and a joined thread is not touched again, interrupted waits or not.
THEOREM ReqSafety == Spec => [](OwnAnswer /\ NoUseAfterJoin)
<1>1. TypeOK /\ Handshake => OwnAnswer
  BY NoneAssumption DEF TypeOK, Handshake, Serial, Slots, Exchange, OwnAnswer
<1>2. TypeOK /\ Handshake => NoUseAfterJoin
  <2> SUFFICES ASSUME TypeOK, Handshake, freed
               PROVE  wpc = "exit" /\ mut = None
                      /\ \A c \in Callers : pc[c] \in {"idle", "joined"}
    BY DEF NoUseAfterJoin
  <2>1. wpc = "exit" /\ \A c \in Callers : pc[c] \in {"idle", "joined"}
    BY OwnerAssumption DEF Handshake, Serial
  <2>2. mut = None
    BY <2>1 DEF TypeOK, Handshake, Serial
  <2> QED BY <2>1, <2>2
<1> QED BY <1>1, <1>2, ReqHandshake, PTL

\* simple_thread_req returns what the working thread replied to this very request,
\* until a wait is interrupted.
THEOREM ReqOwnAnswer == Spec => []OwnAnswer
BY ReqSafety, PTL

-----------------------------------------------------------------------------
(* Refinement of Rpc.                                                      *)

\* A step that leaves every caller as Rpc sees it.
LEMMA RpcStutter ==
    ASSUME \A c \in Callers : callBar'[c] = callBar[c] /\ answerBar'[c] = answerBar[c]
    PROVE  R!rpcVars' = R!rpcVars
<1>1. callBar' = callBar
  BY DEF callBar
<1>2. answerBar' = answerBar
  BY DEF answerBar
<1> QED BY <1>1, <1>2 DEF R!rpcVars

LEMMA RpcStep ==
    ASSUME intr' = 0, TypeOK, Serial, Slots, [Next]_vars
    PROVE  [R!RpcNext]_(R!rpcVars)
<1> USE OwnerAssumption, NoneAssumption, QuitAssumption
    DEF TypeOK, CallerPCs, WorkerPCs, Goto, WGoto, chan, caller, worker,
        Serial, Slots, Exchange, WorkerIdle
<1>1. ASSUME NEW c \in Callers, simple_thread_req(c) PROVE [R!RpcNext]_(R!rpcVars)
  <2>1. CASE MutLock(c)
    BY <2>1, RpcStutter DEF MutLock, callBar, answerBar
  <2>2. CASE SetReq(c)
    BY <2>2, RpcStutter DEF SetReq, callBar, answerBar
  <2>3. CASE PostReq(c)
    BY <2>3, RpcStutter DEF PostReq, callBar, answerBar
  <2>4. CASE WaitRpl(c)
    BY <2>4, RpcStutter DEF WaitRpl, callBar, answerBar
  <2>5. CASE ReadRpl(c)
    BY <2>5, RpcStutter DEF ReadRpl, callBar, answerBar
  <2>6. CASE MutUnlock(c)
    <3>1. callBar[c] = arg[c] /\ arg[c] # None /\ answerBar[c] = arg[c]
      BY <2>6 DEF MutUnlock, callBar, answerBar
    <3>2. callBar' = [callBar EXCEPT ![c] = None]
      BY <2>6 DEF MutUnlock, callBar
    <3>3. answerBar' = answerBar
      BY <2>6 DEF MutUnlock, answerBar
    <3> QED BY <3>1, <3>2, <3>3 DEF R!RpcNext, R!Return
  <2> QED BY <1>1, <2>1, <2>2, <2>3, <2>4, <2>5, <2>6 DEF simple_thread_req
<1>2. ASSUME NEW c \in Callers, WaitInterrupted(c) PROVE FALSE
  BY <1>2 DEF WaitInterrupted
<1>3. ASSUME NEW c \in Callers, NEW v \in Requests, Enter(c, v)
      PROVE [R!RpcNext]_(R!rpcVars)
  <2>1. callBar[c] = None
    BY <1>3 DEF Enter, callBar
  <2>2. callBar' = [callBar EXCEPT ![c] = v]
    BY <1>3 DEF Enter, callBar
  <2>3. answerBar' = [answerBar EXCEPT ![c] = None]
    BY <1>3 DEF Enter, answerBar
  <2> QED BY <2>1, <2>2, <2>3 DEF R!RpcNext, R!Call
<1>4. CASE Worker
  <2>1. CASE WorkerLoop
    BY <2>1, RpcStutter DEF WorkerLoop, callBar, answerBar
  <2>2. CASE WaitReq
    BY <2>2, RpcStutter DEF WaitReq, callBar, answerBar
  <2>3. CASE ChkReqTimeout
    BY <2>3, RpcStutter DEF ChkReqTimeout, callBar, answerBar
  <2>4. CASE TakeReq
    BY <2>4, RpcStutter DEF TakeReq, callBar, answerBar
  <2>5. CASE Handle
    BY <2>5, RpcStutter DEF Handle, callBar, answerBar
  <2>6. CASE SetRpl
    <3>1. mut \in Callers /\ pc[mut] = "wait" /\ got = arg[mut] /\ sem_rpl = 0
      BY <2>6 DEF SetRpl
    <3>2. callBar[mut] # None /\ callBar[mut] = got /\ answerBar[mut] = None
      BY <2>6, <3>1 DEF SetRpl, callBar, answerBar
    <3>3. callBar' = callBar
      BY <2>6 DEF SetRpl, callBar
    <3>4. answerBar' = [answerBar EXCEPT ![mut] = got]
      BY <2>6, <3>1 DEF SetRpl, answerBar
    <3> QED BY <3>1, <3>2, <3>3, <3>4 DEF R!RpcNext, R!Answer
  <2>7. CASE PostRpl
    BY <2>7, RpcStutter DEF PostRpl, callBar, answerBar
  <2> QED BY <1>4, <2>1, <2>2, <2>3, <2>4, <2>5, <2>6, <2>7 DEF Worker
<1>5. CASE GetReqInterrupted
  BY <1>5 DEF GetReqInterrupted
<1>6. CASE Join
  BY <1>6, RpcStutter DEF Join, callBar, answerBar
<1>7. CASE UNCHANGED vars
  BY <1>7, RpcStutter DEF vars, callBar, answerBar
<1> QED BY <1>1, <1>2, <1>3, <1>4, <1>5, <1>6, <1>7 DEF Next, Terminated

\* The rendezvous implements the atomic call: every behaviour, seen through
\* callBar and answerBar, is one of Rpc until a wait is interrupted.
THEOREM ReqImplementsRpc == Spec => ImplementsRpc
<1>1. Init => R!RpcInit
  BY DEF Init, R!RpcInit, callBar, answerBar
<1>2. TypeOK /\ Handshake /\ [Next]_vars => [intr' = 0 => R!RpcNext]_(R!rpcVars)
  BY RpcStep, IntrStep DEF Handshake
<1> QED BY <1>1, <1>2, ReqHandshake, PTL DEF Spec, ImplementsRpc
=============================================================================
