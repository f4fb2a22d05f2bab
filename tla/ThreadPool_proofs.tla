-------------------------- MODULE ThreadPool_proofs --------------------------
(* Proofs about ThreadPool for every number of workers, clients and tasks.  *)
EXTENDS ThreadPool, FiniteSetTheorems, TLAPS

\* The number of workers is positive whatever simple_thread_pool_create gets.
LEMMA WorkersTyping == thread_cnt \in Nat /\ thread_cnt > 0 /\ Workers \subseteq Nat
BY CntAssumption DEF thread_cnt, _thread_cnt, Workers

LEMMA TypeStep == TypeOK /\ Control /\ [Next]_vars => TypeOK'
<1> SUFFICES ASSUME TypeOK, Control, [Next]_vars PROVE TypeOK'
  OBVIOUS
<1> USE WorkersTyping DEF TypeOK
<1>1. CASE Owner
  <2>1. CASE CreateThread
    BY <2>1 DEF CreateThread, poolVars, ghosts, Workers, PCs
  <2>2. CASE CreateReturns
    BY <2>2 DEF CreateReturns, poolVars, ghosts
  <2>3. CASE DestroyPost
    BY <2>3 DEF DestroyPost, ghosts
  <2>4. CASE DestroyJoin
    BY <2>4 DEF DestroyJoin, poolVars, ghosts
  <2>5. CASE DestroyFree
    <3>1. CASE tasks # <<>> /\ main' = main
      <4>1. tasks' = Tail(tasks) /\ heap' = [heap EXCEPT ![Head(tasks)] = "freed"]
        BY <2>5, <3>1 DEF DestroyFree
      <4>2. tasks' \in Seq(Tasks)
        BY <3>1, <4>1
      <4>3. heap' \in [Tasks -> {"none", "live", "freed"}]
        BY <4>1
      <4> QED BY <2>5, <3>1, <4>2, <4>3 DEF DestroyFree, ghosts
    <3>2. CASE tasks = <<>> /\ main' = "done"
      BY <2>5, <3>2 DEF DestroyFree, ghosts
    <3> QED BY <2>5, <3>1, <3>2 DEF DestroyFree
  <2> QED BY <1>1, <2>1, <2>2, <2>3, <2>4, <2>5 DEF Owner
<1>2. CASE Destroy
  BY <1>2 DEF Destroy, ghosts
<1>3. ASSUME NEW th \in Threads, Add(th) PROVE TypeOK'
  <2>1. CASE AddLock(th)
    BY <2>1 DEF AddLock, ghosts
  <2>2. CASE AddLink(th)
    BY <2>2 DEF AddLink, Control
  <2>3. CASE AddPost(th)
    BY <2>3 DEF AddPost, ghosts
  <2> QED BY <1>3, <2>1, <2>2, <2>3 DEF Add
<1>4. ASSUME NEW th \in Threads, NEW t \in Tasks, AddTask(th, t) PROVE TypeOK'
  BY <1>4 DEF AddTask, poolVars, ghosts
<1>5. ASSUME NEW w \in Workers, _thread_proc(w) PROVE TypeOK'
  <2> w \in Threads
    BY DEF Threads
  <2>1. CASE Loop(w)
    BY <2>1 DEF Loop, poolVars, ghosts, PCs
  <2>2. CASE SemWait(w)
    BY <2>2 DEF SemWait, ghosts, PCs
  <2>3. CASE CheckQuit(w)
    BY <2>3 DEF CheckQuit, poolVars, ghosts, PCs
  <2>4. CASE Lock(w)
    BY <2>4 DEF Lock, ghosts, PCs
  <2>5. CASE First(w)
    BY <2>5 DEF First, ghosts, PCs
  <2>6. CASE Del(w)
    BY <2>6 DEF Del, Control, PCs
  <2>7. CASE Test(w)
    BY <2>7 DEF Test, poolVars, ghosts, PCs
  <2>8. CASE HandlerReturns(w)
    BY <2>8 DEF HandlerReturns, poolVars, ghosts, PCs
  <2> QED BY <1>5, <2>1, <2>2, <2>3, <2>4, <2>5, <2>6, <2>7, <2>8 DEF _thread_proc
<1>6. ASSUME NEW w \in Workers, SemInterrupted(w) PROVE TypeOK'
  BY <1>6, InterruptsAssumption DEF SemInterrupted, poolVars, PCs
<1>7. CASE UNCHANGED vars
  BY <1>7 DEF vars
<1> QED BY <1>1, <1>2, <1>3, <1>4, <1>5, <1>6, <1>7 DEF Next, Terminated

LEMMA ControlStep == TypeOK /\ Control /\ [Next]_vars => Control'
<1> SUFFICES ASSUME TypeOK, Control, [Next]_vars PROVE Control'
  OBVIOUS
<1> USE WorkersTyping, ClientsAssumption, NoThreadAssumption
    DEF TypeOK, Control, HoldsLock, Threads
<1>1. CASE Owner
  <2>1. CASE CreateThread
    BY <2>1 DEF CreateThread, poolVars, ghosts, Workers, PCs
  <2>2. CASE CreateReturns
    BY <2>2 DEF CreateReturns, poolVars, ghosts
  <2>3. CASE DestroyPost
    BY <2>3 DEF DestroyPost, ghosts, Workers
  <2>4. CASE DestroyJoin
    BY <2>4 DEF DestroyJoin, poolVars, ghosts, Workers
  <2>5. CASE DestroyFree
    BY <2>5 DEF DestroyFree, ghosts
  <2> QED BY <1>1, <2>1, <2>2, <2>3, <2>4, <2>5 DEF Owner
<1>2. CASE Destroy
  BY <1>2 DEF Destroy, ghosts
<1>3. ASSUME NEW th \in Threads, Add(th) PROVE Control'
  <2>1. CASE AddLock(th)
    BY <2>1 DEF AddLock, ghosts
  <2>2. CASE AddLink(th)
    BY <2>2 DEF AddLink
  <2>3. CASE AddPost(th)
    BY <2>3 DEF AddPost, ghosts
  <2> QED BY <1>3, <2>1, <2>2, <2>3 DEF Add
<1>4. ASSUME NEW th \in Threads, NEW t \in Tasks, AddTask(th, t) PROVE Control'
  BY <1>4 DEF AddTask, MayAdd, poolVars, ghosts
<1>5. ASSUME NEW w \in Workers, _thread_proc(w) PROVE Control'
  <2>1. CASE Loop(w)
    BY <2>1 DEF Loop, poolVars, ghosts
  <2>2. CASE SemWait(w)
    BY <2>2 DEF SemWait, ghosts
  <2>3. CASE CheckQuit(w)
    BY <2>3 DEF CheckQuit, poolVars, ghosts
  <2>4. CASE Lock(w)
    BY <2>4 DEF Lock, ghosts
  <2>5. CASE First(w)
    <3>1. lock = w /\ \A v \in Workers : pc[v] = "del" => v = w
      BY <2>5 DEF First
    <3>2. CASE tasks # <<>>
      BY <2>5, <3>1, <3>2 DEF First, ghosts
    <3>3. CASE tasks = <<>>
      BY <2>5, <3>1, <3>3 DEF First, ghosts
    <3> QED BY <3>2, <3>3
  <2>6. CASE Del(w)
    <3>1. /\ lock = w /\ lock' = NoThread /\ pc[w] = "del" /\ w \in Threads /\ apc[w] = "out"
          /\ pc' = [pc EXCEPT ![w] = "test"] /\ (tasks = <<>> => tasks' = <<>>)
          /\ UNCHANGED <<quit, task, apc, adding, main, i>>
      BY <2>6 DEF Del
    <3>2. \A v \in Workers : v # w => pc'[v] = pc[v] /\ pc[v] \notin {"first", "del"}
      BY <3>1
    <3>3. pc'[w] = "test"
      BY <3>1
    <3>4. \A th \in Threads : HoldsLock(th)' <=> lock' = th
      BY <3>1, <3>2, <3>3
    <3>5. /\ main = "create" => ~(w > i)
          /\ main = "join" => ~(w > i)
          /\ main \notin {"free", "done"}
      BY <3>1
    <3> QED BY <3>1, <3>2, <3>3, <3>4, <3>5
  <2>7. CASE Test(w)
    BY <2>7 DEF Test, poolVars, ghosts
  <2>8. CASE HandlerReturns(w)
    BY <2>8 DEF HandlerReturns, poolVars, ghosts
  <2> QED BY <1>5, <2>1, <2>2, <2>3, <2>4, <2>5, <2>6, <2>7, <2>8 DEF _thread_proc
<1>6. ASSUME NEW w \in Workers, SemInterrupted(w) PROVE Control'
  BY <1>6 DEF SemInterrupted, poolVars
<1>7. CASE UNCHANGED vars
  BY <1>7 DEF vars
<1> QED BY <1>1, <1>2, <1>3, <1>4, <1>5, <1>6, <1>7 DEF Next, Terminated

LEMMA InitInv == Init => TypeOK /\ Control
<1> SUFFICES ASSUME Init PROVE TypeOK /\ Control
  OBVIOUS
<1>1. TypeOK
  <2> USE DEF Init
  <2>1. tasks \in Seq(Tasks) /\ added \in Seq(Tasks) /\ popped \in Seq(Tasks)
    OBVIOUS
  <2>2. pc \in [Workers -> PCs]
    BY DEF PCs
  <2>3. task \in [Workers -> Tasks \cup {NoTask}]
    OBVIOUS
  <2>4. adding \in [Threads -> Tasks \cup {NoTask}]
    OBVIOUS
  <2>5. apc \in [Threads -> {"out", "lock", "link", "post"}]
    OBVIOUS
  <2>6. heap \in [Tasks -> {"none", "live", "freed"}]
    OBVIOUS
  <2>7. i \in 0..thread_cnt /\ intr \in 0..MaxInterrupts /\ sem \in Nat
    BY WorkersTyping, InterruptsAssumption
  <2>8. lock \in Threads \cup {NoThread} /\ quit \in BOOLEAN
    OBVIOUS
  <2>9. main \in {"create", "run", "post", "join", "free", "done"}
    OBVIOUS
  <2> HIDE DEF Init
  <2> QED BY <2>1, <2>2, <2>3, <2>4, <2>5, <2>6, <2>7, <2>8, <2>9 DEF TypeOK
<1>2. Control
  <2> USE DEF Init
  <2>1. \A th \in Threads : ~HoldsLock(th) /\ lock # th
    BY NoThreadAssumption DEF HoldsLock, Threads
  <2> QED BY <2>1, ClientsAssumption DEF Control, Threads
<1> QED BY <1>1, <1>2

\* Every variable keeps its type, and mutual exclusion and the phases of create
\* and destroy hold, with any number of interrupted waits.
THEOREM TypeAndControl == Spec => [](TypeOK /\ Control)
<1>1. TypeOK /\ Control /\ [Next]_vars => (TypeOK /\ Control)'
  BY TypeStep, ControlStep
<1> QED BY InitInv, <1>1, PTL DEF Spec

-----------------------------------------------------------------------------
(* Tokens and tasks.                                                       *)

\* What adding or removing one element does to the size of a finite set.
LEMMA CardAdd ==
    ASSUME NEW S, IsFiniteSet(S), NEW x, x \notin S
    PROVE  IsFiniteSet(S \cup {x}) /\ Cardinality(S \cup {x}) = Cardinality(S) + 1
BY FS_AddElement

LEMMA CardRemove ==
    ASSUME NEW S, IsFiniteSet(S), NEW x \in S
    PROVE  IsFiniteSet(S \ {x}) /\ Cardinality(S \ {x}) = Cardinality(S) - 1
BY FS_RemoveElement

LEMMA ThreadsFinite == IsFiniteSet(Workers) /\ IsFiniteSet(Threads)
<1>1. IsFiniteSet(Workers)
  BY WorkersTyping, FS_Interval DEF Workers
<1> QED BY <1>1, ClientsAssumption, FS_Union DEF Threads

\* The three counts of Tokens are natural numbers.
Counts ==
    /\ IsFiniteSet(Claimers) /\ Cardinality(Claimers) \in Nat
    /\ IsFiniteSet(Committed) /\ Cardinality(Committed) \in Nat
    /\ IsFiniteSet(Posters) /\ Cardinality(Posters) \in Nat
    /\ Cardinality(Committed) <= Cardinality(Claimers)

LEMMA CountsTyping == Counts
<1>1. Claimers \subseteq Workers /\ Committed \subseteq Claimers /\ Posters \subseteq Threads
  BY DEF Claimers, Committed, Posters
<1> QED BY <1>1, ThreadsFinite, FS_Subset, FS_CardinalityType DEF Counts

\* With no interrupted wait a worker that holds the lock finds a task.
LEMMA FirstFindsTask ==
    ASSUME TypeOK, Tokens, NEW w \in Workers, pc[w] \in {"lock", "first"}
    PROVE  tasks # <<>> /\ Len(tasks) > 0
<1>1. w \in Committed
  BY DEF Committed
<1>2. Cardinality(Committed) > 0
  BY <1>1, CountsTyping, FS_EmptySet DEF Counts
<1>3. Cardinality(Committed) <= Len(tasks)
  BY CountsTyping DEF Tokens, TypeOK, Counts
<1> QED BY <1>2, <1>3, CountsTyping DEF TypeOK, Counts

LEMMA TokenStep ==
    ASSUME intr' = 0, TypeOK, Control, TypeOK', Tokens, [Next]_vars
    PROVE  Tokens'
<1>c. Counts /\ Counts'
  BY CountsTyping, PTL
<1> USE <1>c DEF Tokens, Counts
<1> DEFINE Same == Claimers' = Claimers /\ Committed' = Committed /\ Posters' = Posters
<1>0. Len(tasks) \in Nat /\ sem \in Nat /\ Workers \subseteq Threads
  BY DEF TypeOK, Threads
<1>1. CASE Owner
  <2>1. CASE CreateThread
    <3>1. pc[i + 1] = "none" /\ i + 1 \in Workers
      BY <2>1, WorkersTyping DEF CreateThread, Control, TypeOK, Workers
    <3>2. Same
      BY <2>1, <3>1 DEF CreateThread, Claimers, Committed, Posters, TypeOK
    <3> QED BY <2>1, <3>2 DEF CreateThread, poolVars
  <2>2. CASE CreateReturns
    BY <2>2 DEF CreateReturns, poolVars, Claimers, Committed, Posters
  <2>3. CASE DestroyPost
    BY <2>3 DEF DestroyPost, Control, Claimers, Committed, Posters
  <2>4. CASE DestroyJoin
    BY <2>4 DEF DestroyJoin, poolVars, Claimers, Committed, Posters
  <2>5. CASE DestroyFree
    <3>1. quit' /\ Committed' = {}
      BY <2>5 DEF DestroyFree, Control, Committed
    <3> QED BY <3>1, FS_EmptySet DEF TypeOK
  <2> QED BY <1>1, <2>1, <2>2, <2>3, <2>4, <2>5 DEF Owner
<1>2. CASE Destroy
  <2>1. Same /\ ~quit /\ quit' /\ tasks' = tasks
    BY <1>2 DEF Destroy, Control, Claimers, Committed, Posters
  <2> QED BY <2>1, <1>0
<1>3. ASSUME NEW th \in Threads, Add(th) PROVE Tokens'
  <2>1. CASE AddLock(th)
    <3>1. Same
      BY <2>1 DEF AddLock, Claimers, Committed, Posters, TypeOK
    <3> QED BY <2>1, <3>1 DEF AddLock
  <2>2. CASE AddLink(th)
    <3>1. Claimers' = Claimers /\ Committed' = Committed
      BY <2>2 DEF AddLink, Claimers, Committed
    <3>2. Posters' = Posters \cup {th} /\ th \notin Posters
      BY <2>2 DEF AddLink, Posters, TypeOK
    <3>3. Cardinality(Posters') = Cardinality(Posters) + 1
      BY <3>2, CardAdd
    <3>4. Len(tasks') = Len(tasks) + 1 /\ sem' = sem /\ quit' = quit
      BY <2>2 DEF AddLink, TypeOK, Control
    <3> QED BY <3>1, <3>3, <3>4, <1>0, SMTT(30)
  <2>3. CASE AddPost(th)
    <3>1. Claimers' = Claimers /\ Committed' = Committed
      BY <2>3 DEF AddPost, Claimers, Committed
    <3>2. Posters' = Posters \ {th} /\ th \in Posters
      BY <2>3 DEF AddPost, Posters, TypeOK
    <3>3. Cardinality(Posters') = Cardinality(Posters) - 1
      BY <3>2, CardRemove
    <3>4. tasks' = tasks /\ sem' = sem + 1 /\ quit' = quit
      BY <2>3 DEF AddPost
    <3> QED BY <3>1, <3>3, <3>4, <1>0, SMTT(30)
  <2> QED BY <1>3, <2>1, <2>2, <2>3 DEF Add
<1>4. ASSUME NEW th \in Threads, NEW t \in Tasks, AddTask(th, t) PROVE Tokens'
  <2>1. Same
    BY <1>4 DEF AddTask, Claimers, Committed, Posters, TypeOK
  <2> QED BY <1>4, <2>1 DEF AddTask, poolVars
<1>5. ASSUME NEW w \in Workers, _thread_proc(w) PROVE Tokens'
  <2> USE DEF TypeOK
  <2>1. CASE Loop(w)
    <3>1. Same
      BY <2>1 DEF Loop, Claimers, Committed, Posters
    <3> QED BY <2>1, <3>1 DEF Loop, poolVars
  <2>2. CASE SemWait(w)
    <3>1. Claimers' = Claimers \cup {w} /\ w \notin Claimers
      BY <2>2 DEF SemWait, Claimers
    <3>2. Committed' = Committed /\ Posters' = Posters
      BY <2>2 DEF SemWait, Committed, Posters
    <3>3. Cardinality(Claimers') = Cardinality(Claimers) + 1
      BY <3>1, CardAdd
    <3>4. tasks' = tasks /\ sem' = sem - 1 /\ quit' = quit
      BY <2>2 DEF SemWait
    <3>5. CASE quit
      BY <3>2, <3>4, <3>5
    <3>6. CASE ~quit
      <4>1. sem + Cardinality(Claimers) + Cardinality(Posters) = Len(tasks)
        BY <3>6
      <4>2. sem' + Cardinality(Claimers') + Cardinality(Posters') = Len(tasks')
        BY <4>1, <3>2, <3>3, <3>4, <1>0, SMTT(30)
      <4> QED BY <4>2, <3>4, <3>6
    <3> QED BY <3>5, <3>6
  <2>3. CASE CheckQuit(w)
    <3>1. UNCHANGED <<tasks, sem, quit>>
      BY <2>3 DEF CheckQuit, poolVars
    <3>2. CASE quit
      <4>1. Committed' = Committed
        BY <2>3, <3>2 DEF CheckQuit, Committed
      <4> QED BY <3>1, <3>2, <4>1
    <3>3. CASE ~quit
      <4>1. Claimers' = Claimers /\ Posters' = Posters
        BY <2>3, <3>3 DEF CheckQuit, Claimers, Posters
      <4> QED BY <3>1, <3>3, <4>1
    <3> QED BY <3>2, <3>3
  <2>4. CASE Lock(w)
    <3>1. Same
      BY <2>4 DEF Lock, Claimers, Committed, Posters
    <3> QED BY <2>4, <3>1 DEF Lock
  <2>5. CASE First(w)
    <3>1. tasks # <<>>
      BY <2>5, FirstFindsTask DEF First
    <3>2. Same
      BY <2>5, <3>1 DEF First, Claimers, Committed, Posters
    <3> QED BY <2>5, <3>2 DEF First
  <2>6. CASE Del(w)
    <3>1. Claimers' = Claimers \ {w} /\ w \in Claimers
      BY <2>6 DEF Del, Claimers
    <3>2. Committed' = Committed \ {w} /\ w \in Committed
      BY <2>6 DEF Del, Committed
    <3>3. /\ Cardinality(Claimers') = Cardinality(Claimers) - 1
          /\ Cardinality(Committed') = Cardinality(Committed) - 1
      BY <3>1, <3>2, CardRemove
    <3>4. Posters' = Posters /\ sem' = sem /\ quit' = quit
      BY <2>6 DEF Del, Posters
    <3>5. tasks # <<>> /\ tasks' = Tail(tasks)
      BY <2>6 DEF Del, Control
    <3>6. Len(tasks') = Len(tasks) - 1
      BY <3>5
    <3> HIDE DEF TypeOK
    <3> QED BY <3>3, <3>4, <3>6, <1>0, SMTT(30)
  <2>7. CASE Test(w)
    <3>1. Same
      BY <2>7 DEF Test, Claimers, Committed, Posters
    <3> QED BY <2>7, <3>1 DEF Test, poolVars
  <2>8. CASE HandlerReturns(w)
    <3>1. Same
      BY <2>8 DEF HandlerReturns, Claimers, Committed, Posters
    <3> QED BY <2>8, <3>1 DEF HandlerReturns, poolVars
  <2> QED BY <1>5, <2>1, <2>2, <2>3, <2>4, <2>5, <2>6, <2>7, <2>8 DEF _thread_proc
<1>6. ASSUME NEW w \in Workers, SemInterrupted(w) PROVE Tokens'
  BY <1>6 DEF SemInterrupted, TypeOK
<1>7. CASE UNCHANGED vars
  BY <1>7 DEF vars, Claimers, Committed, Posters
<1> QED BY <1>1, <1>2, <1>3, <1>4, <1>5, <1>6, <1>7 DEF Next, Terminated

-----------------------------------------------------------------------------
(* Who owns a task.                                                        *)

\* Elements of a sequence without repetitions after Append and after Tail.
InSeq(x, s) == \E k \in 1..Len(s) : s[k] = x
Distinct(s) == \A j, k \in 1..Len(s) : s[j] = s[k] => j = k

LEMMA AppendElements ==
    ASSUME NEW S, NEW s \in Seq(S), NEW e \in S
    PROVE  /\ \A x : InSeq(x, Append(s, e)) <=> InSeq(x, s) \/ x = e
           /\ Distinct(s) /\ ~InSeq(e, s) => Distinct(Append(s, e))
<1>1. /\ Len(Append(s, e)) = Len(s) + 1
      /\ \A k \in 1..Len(s) : Append(s, e)[k] = s[k]
      /\ Append(s, e)[Len(s) + 1] = e
  OBVIOUS
<1>2. Len(s) \in Nat
  OBVIOUS
<1> DEFINE n == Len(s)
           a == Append(s, e)
<1> HIDE DEF n, a
<1>3. /\ Len(a) = n + 1 /\ n = Len(s) /\ n \in Nat
      /\ \A k \in 1..n : a[k] = s[k]
      /\ a[n + 1] = e
  BY <1>1, <1>2 DEF n, a
<1>4. \A x : InSeq(x, a) <=> InSeq(x, s) \/ x = e
  BY <1>3 DEF InSeq
<1>5. Distinct(s) /\ ~InSeq(e, s) => Distinct(a)
  BY <1>3 DEF InSeq, Distinct
<1> QED BY <1>4, <1>5 DEF a

LEMMA TailElements ==
    ASSUME NEW S, NEW s \in Seq(S), s # <<>>, Distinct(s)
    PROVE  /\ \A x : InSeq(x, Tail(s)) <=> InSeq(x, s) /\ x # Head(s)
           /\ Distinct(Tail(s))
           /\ InSeq(Head(s), s) /\ Head(s) \in S
<1> DEFINE n == Len(s)
           a == Tail(s)
<1>1. /\ Len(a) = n - 1 /\ n \in Nat /\ n > 0
      /\ \A k \in 1..(n - 1) : a[k] = s[k + 1]
      /\ Head(s) = s[1] /\ s[1] \in S
  OBVIOUS
<1>2. n = Len(s)
  OBVIOUS
<1> HIDE DEF n, a
<1>3. Distinct(a)
  BY <1>1, <1>2 DEF Distinct
<1>4. ASSUME NEW x PROVE InSeq(x, a) <=> InSeq(x, s) /\ x # Head(s)
  <2>1. ASSUME InSeq(x, a) PROVE InSeq(x, s) /\ x # Head(s)
    <3>1. PICK k \in 1..(n - 1) : s[k + 1] = x
      BY <1>1, <2>1 DEF InSeq
    <3> QED BY <1>1, <1>2, <3>1 DEF InSeq, Distinct
  <2>2. ASSUME InSeq(x, s), x # Head(s) PROVE InSeq(x, a)
    <3>1. PICK k \in 1..n : s[k] = x
      BY <1>2, <2>2 DEF InSeq
    <3>2. k # 1 /\ k - 1 \in 1..(n - 1) /\ a[k - 1] = x
      BY <1>1, <2>2, <3>1
    <3> QED BY <1>1, <3>2 DEF InSeq
  <2> QED BY <2>1, <2>2
<1>5. InSeq(Head(s), s)
  BY <1>1, <1>2 DEF InSeq
<1> QED BY <1>1, <1>3, <1>4, <1>5 DEF a

\* A step that changes no task's owner and frees nothing.
LEMMA OwnershipFrame ==
    ASSUME OneOwner, tasks' = tasks, heap' = heap,
           \A w \in Workers : pc'[w] \in {"test", "body"} => task'[w] \in Tasks,
           \A th \in Threads, t \in Tasks : AddsTask(th, t)' <=> AddsTask(th, t),
           \A w \in Workers, t \in Tasks : RunsTask(w, t)' <=> RunsTask(w, t)
    PROVE  OneOwner'
<1>1. \A t : Listed(t)' <=> Listed(t)
  BY DEF Listed
<1> QED BY <1>1 DEF OneOwner

LEMMA OwnershipStep ==
    ASSUME intr' = 0, TypeOK, Control, Tokens, OneOwner, [Next]_vars
    PROVE  OneOwner'
<1> USE DEF TypeOK
<1>0. /\ Workers \subseteq Threads
      /\ \A t : Listed(t) <=> InSeq(t, tasks)
      /\ \A t : Listed(t)' <=> InSeq(t, tasks')
      /\ Distinct(tasks)
  BY DEF Threads, Listed, InSeq, Distinct, OneOwner
<1>1. CASE Owner
  <2>1. CASE CreateThread
    <3>1. pc[i + 1] = "none" /\ i + 1 \in Workers
      BY <2>1, WorkersTyping DEF CreateThread, Control, Workers
    <3>2. \A w \in Workers, t \in Tasks : RunsTask(w, t)' <=> RunsTask(w, t)
      BY <2>1, <3>1 DEF CreateThread, RunsTask
    <3>3. \A w \in Workers : pc'[w] \in {"test", "body"} => task'[w] \in Tasks
      BY <2>1, <3>1 DEF CreateThread, OneOwner
    <3> QED BY <2>1, <3>2, <3>3, OwnershipFrame DEF CreateThread, AddsTask, poolVars
  <2>2. CASE CreateReturns
    BY <2>2, OwnershipFrame DEF CreateReturns, poolVars, AddsTask, RunsTask, OneOwner
  <2>3. CASE DestroyPost
    BY <2>3, OwnershipFrame DEF DestroyPost, AddsTask, RunsTask, OneOwner
  <2>4. CASE DestroyJoin
    BY <2>4, OwnershipFrame DEF DestroyJoin, poolVars, AddsTask, RunsTask, OneOwner
  <2>5. CASE DestroyFree
    <3>1. CASE tasks = <<>>
      BY <2>5, <3>1, OwnershipFrame DEF DestroyFree, AddsTask, RunsTask, OneOwner
    <3>2. CASE tasks # <<>>
      <4> DEFINE h == Head(tasks)
      <4>1. /\ \A t : Listed(t)' <=> Listed(t) /\ t # h
            /\ Distinct(tasks') /\ h \in Tasks /\ Listed(h)
        <5>1. tasks' = Tail(tasks)
          BY <2>5, <3>2 DEF DestroyFree
        <5> QED BY <1>0, <3>2, <5>1, TailElements
      <4>2. heap' = [heap EXCEPT ![h] = "freed"]
        BY <2>5, <3>2 DEF DestroyFree
      <4>3. \A t \in Tasks : /\ \A th \in Threads : AddsTask(th, t)' <=> AddsTask(th, t)
                            /\ \A w \in Workers : RunsTask(w, t)' <=> RunsTask(w, t)
        BY <2>5 DEF DestroyFree, AddsTask, RunsTask
      <4>4. \A w \in Workers : pc'[w] \in {"test", "body"} => task'[w] \in Tasks
        BY <2>5 DEF DestroyFree, OneOwner
      <4> HIDE DEF h
      <4> QED BY <4>1, <4>2, <4>3, <4>4 DEF OneOwner, Distinct
    <3> QED BY <3>1, <3>2
  <2> QED BY <1>1, <2>1, <2>2, <2>3, <2>4, <2>5 DEF Owner
<1>2. CASE Destroy
  BY <1>2, OwnershipFrame DEF Destroy, AddsTask, RunsTask, OneOwner
<1>3. ASSUME NEW th \in Threads, Add(th) PROVE OneOwner'
  <2>1. CASE AddLock(th)
    <3>1. \A o \in Threads, t \in Tasks : AddsTask(o, t)' <=> AddsTask(o, t)
      BY <2>1 DEF AddLock, AddsTask
    <3> QED BY <2>1, <3>1, OwnershipFrame DEF AddLock, RunsTask, OneOwner
  <2>2. CASE AddLink(th)
    <3> DEFINE a == adding[th]
    <3>1. a \in Tasks /\ AddsTask(th, a) /\ ~Listed(a)
      BY <2>2 DEF AddLink, Control, AddsTask, OneOwner
    <3>2. /\ \A t : Listed(t)' <=> Listed(t) \/ t = a
          /\ Distinct(tasks')
      BY <1>0, <2>2, <3>1, AppendElements DEF AddLink
    <3>3. \A t \in Tasks, o \in Threads : AddsTask(o, t)' <=> AddsTask(o, t) /\ o # th
      BY <2>2 DEF AddLink, AddsTask
    <3>4. \A t \in Tasks : AddsTask(th, t) <=> t = a
      BY <2>2 DEF AddLink, AddsTask
    <3>5. \A t \in Tasks, w \in Workers : RunsTask(w, t)' <=> RunsTask(w, t)
      BY <2>2 DEF AddLink, RunsTask
    <3>6. heap' = heap /\ pc' = pc /\ task' = task
      BY <2>2 DEF AddLink
    <3> HIDE DEF a
    <3> QED BY <3>1, <3>2, <3>3, <3>4, <3>5, <3>6 DEF OneOwner, Distinct
  <2>3. CASE AddPost(th)
    <3>1. \A o \in Threads, t \in Tasks : AddsTask(o, t)' <=> AddsTask(o, t)
      BY <2>3 DEF AddPost, AddsTask
    <3> QED BY <2>3, <3>1, OwnershipFrame DEF AddPost, RunsTask, OneOwner
  <2> QED BY <1>3, <2>1, <2>2, <2>3 DEF Add
<1>4. ASSUME NEW th \in Threads, NEW a \in Tasks, AddTask(th, a) PROVE OneOwner'
  <2>1. heap' = [heap EXCEPT ![a] = "live"] /\ heap[a] = "none"
    BY <1>4 DEF AddTask
  <2>2. \A t \in Tasks, o \in Threads :
          AddsTask(o, t)' <=> AddsTask(o, t) \/ (o = th /\ t = a)
    BY <1>4 DEF AddTask, AddsTask
  <2>3. tasks' = tasks /\ pc' = pc /\ task' = task
    BY <1>4 DEF AddTask, poolVars
  <2>4. \A t \in Tasks : /\ Listed(t)' <=> Listed(t)
                        /\ \A w \in Workers : RunsTask(w, t)' <=> RunsTask(w, t)
    BY <2>3 DEF Listed, RunsTask
  <2>5. ~AddsTask(th, a) /\ \A t \in Tasks : ~AddsTask(th, t)
    BY <1>4 DEF AddTask, AddsTask
  <2> QED BY <2>1, <2>2, <2>3, <2>4, <2>5 DEF OneOwner
<1>5. ASSUME NEW w \in Workers, _thread_proc(w) PROVE OneOwner'
  <2>1. CASE Loop(w)
    <3>1. \A v \in Workers, t \in Tasks : RunsTask(v, t)' <=> RunsTask(v, t)
      BY <2>1 DEF Loop, RunsTask
    <3> QED BY <2>1, <3>1, OwnershipFrame DEF Loop, poolVars, AddsTask, OneOwner
  <2>2. CASE SemWait(w)
    <3>1. \A v \in Workers, t \in Tasks : RunsTask(v, t)' <=> RunsTask(v, t)
      BY <2>2 DEF SemWait, RunsTask
    <3> QED BY <2>2, <3>1, OwnershipFrame DEF SemWait, AddsTask, OneOwner
  <2>3. CASE CheckQuit(w)
    <3>1. \A v \in Workers, t \in Tasks : RunsTask(v, t)' <=> RunsTask(v, t)
      BY <2>3 DEF CheckQuit, RunsTask
    <3> QED BY <2>3, <3>1, OwnershipFrame DEF CheckQuit, poolVars, AddsTask, OneOwner
  <2>4. CASE Lock(w)
    <3>1. \A v \in Workers, t \in Tasks : RunsTask(v, t)' <=> RunsTask(v, t)
      BY <2>4 DEF Lock, RunsTask
    <3> QED BY <2>4, <3>1, OwnershipFrame DEF Lock, AddsTask, OneOwner
  <2>5. CASE First(w)
    <3>1. tasks # <<>>
      BY <2>5, FirstFindsTask DEF First
    <3>2. \A v \in Workers, t \in Tasks : RunsTask(v, t)' <=> RunsTask(v, t)
      BY <2>5, <3>1 DEF First, RunsTask
    <3>3. \A v \in Workers : pc'[v] \in {"test", "body"} => task'[v] \in Tasks
      BY <2>5, <3>1 DEF First, OneOwner
    <3> QED BY <2>5, <3>2, <3>3, OwnershipFrame DEF First, AddsTask
  <2>6. CASE Del(w)
    <3> DEFINE h == task[w]
    <3>1. tasks # <<>> /\ h = Head(tasks) /\ tasks' = Tail(tasks)
      BY <2>6 DEF Del, Control
    <3>2. /\ \A t : Listed(t)' <=> Listed(t) /\ t # h
          /\ Distinct(tasks') /\ h \in Tasks /\ Listed(h)
      BY <1>0, <3>1, TailElements
    <3>3. \A t \in Tasks, v \in Workers :
            RunsTask(v, t)' <=> RunsTask(v, t) \/ (v = w /\ t = h)
      BY <2>6 DEF Del, RunsTask
    <3>4. \A t \in Tasks : ~RunsTask(w, t)
      BY <2>6 DEF Del, RunsTask
    <3>5. \A t \in Tasks, o \in Threads : AddsTask(o, t)' <=> AddsTask(o, t)
      BY <2>6 DEF Del, AddsTask
    <3>6. heap' = heap /\ \A v \in Workers : pc'[v] \in {"test", "body"} => task'[v] \in Tasks
      BY <2>6, <3>2 DEF Del, OneOwner
    <3> HIDE DEF h
    <3> QED BY <3>2, <3>3, <3>4, <3>5, <3>6 DEF OneOwner, Distinct
  <2>7. CASE Test(w)
    <3>1. task[w] # NoTask
      BY <2>7, TasksAssumption DEF Test, OneOwner
    <3>2. \A v \in Workers, t \in Tasks : RunsTask(v, t)' <=> RunsTask(v, t)
      BY <2>7, <3>1 DEF Test, RunsTask
    <3>3. \A v \in Workers : pc'[v] \in {"test", "body"} => task'[v] \in Tasks
      BY <2>7, <3>1 DEF Test, OneOwner
    <3> QED BY <2>7, <3>2, <3>3, OwnershipFrame DEF Test, poolVars, AddsTask
  <2>8. CASE HandlerReturns(w)
    <3> DEFINE h == task[w]
    <3>1. h \in Tasks /\ RunsTask(w, h)
      BY <2>8 DEF HandlerReturns, RunsTask, OneOwner
    <3>2. heap' = [heap EXCEPT ![h] = "freed"]
      BY <2>8 DEF HandlerReturns
    <3>3. \A t \in Tasks, v \in Workers : RunsTask(v, t)' <=> RunsTask(v, t) /\ v # w
      BY <2>8 DEF HandlerReturns, RunsTask
    <3>4. \A t \in Tasks : RunsTask(w, t) <=> t = h
      BY <2>8 DEF HandlerReturns, RunsTask
    <3>5. \A t \in Tasks : /\ Listed(t)' <=> Listed(t)
                          /\ \A o \in Threads : AddsTask(o, t)' <=> AddsTask(o, t)
      BY <2>8 DEF HandlerReturns, poolVars, Listed, AddsTask
    <3>6. tasks' = tasks /\ \A v \in Workers : pc'[v] \in {"test", "body"} => task'[v] \in Tasks
      BY <2>8 DEF HandlerReturns, poolVars, OneOwner
    <3>7. \A t \in Tasks : heap'[t] = IF t = h THEN "freed" ELSE heap[t]
      BY <3>1, <3>2
    <3>8. \A t \in Tasks : heap'[t] = "live" <=>
            (Listed(t) \/ (\E o \in Threads : AddsTask(o, t))
             \/ (\E v \in Workers : RunsTask(v, t)))'
      <4> HIDE DEF h, TypeOK
      <4>1. ASSUME NEW t \in Tasks, t # h
            PROVE \A v \in Workers : RunsTask(v, t)' <=> RunsTask(v, t)
        BY <3>3, <3>4, <4>1
      <4>2. ~Listed(h) /\ \A o \in Threads : ~AddsTask(o, h)
        BY <3>1 DEF OneOwner
      <4>3. ASSUME NEW t \in Tasks, t = h
            PROVE \A v \in Workers : ~RunsTask(v, t)'
        BY <3>1, <3>3, <4>3 DEF OneOwner
      <4>4. ASSUME NEW t \in Tasks
            PROVE heap'[t] = "live" <=>
                  (Listed(t) \/ (\E o \in Threads : AddsTask(o, t))
                   \/ (\E v \in Workers : RunsTask(v, t)))'
        <5>1. CASE t = h
          BY <3>5, <3>7, <4>2, <4>3, <5>1
        <5>2. CASE t # h
          BY <3>5, <3>7, <4>1, <5>2 DEF OneOwner
        <5> QED BY <5>1, <5>2
      <4> QED BY <4>4
    <3> HIDE DEF h, TypeOK
    <3> QED BY <3>3, <3>5, <3>6, <3>8 DEF OneOwner
  <2> QED BY <1>5, <2>1, <2>2, <2>3, <2>4, <2>5, <2>6, <2>7, <2>8 DEF _thread_proc
<1>6. ASSUME NEW w \in Workers, SemInterrupted(w) PROVE OneOwner'
  BY <1>6 DEF SemInterrupted
<1>7. CASE UNCHANGED vars
  BY <1>7, OwnershipFrame DEF vars, AddsTask, RunsTask, OneOwner
<1> QED BY <1>1, <1>2, <1>3, <1>4, <1>5, <1>6, <1>7 DEF Next, Terminated

\* The count of interrupted waits only grows.
LEMMA IntrStep ==
    ASSUME TypeOK, [Next]_vars, intr' = 0
    PROVE  intr = 0
BY InterruptsAssumption
DEF TypeOK, Next, Owner, CreateThread, CreateReturns, DestroyPost, DestroyJoin,
    DestroyFree, Destroy, Add, AddLock, AddLink, AddPost, AddTask, _thread_proc,
    SemInterrupted, Loop, SemWait, CheckQuit, Lock, First, Del, Test,
    HandlerReturns, Terminated, ghosts, vars

\* Wake-ups match tasks, an allocated task has exactly one owner, and so no
\* handler runs on a destroyed task, up to the first interrupted wait (the run of
\* MCThreadPoolInterrupt.cfg shows what happens then).
THEOREM PoolSafety == Spec => [](TokenCount /\ Ownership /\ NoUseAfterFree)
<1> DEFINE IInv == TypeOK /\ Control /\ (intr = 0 => Tokens /\ OneOwner)
<1>1. Init => IInv
  <2> SUFFICES ASSUME Init PROVE Tokens /\ OneOwner
    BY InitInv
  <2>1. Claimers = {} /\ Posters = {} /\ tasks = <<>> /\ sem = 0 /\ ~quit
    BY DEF Init, Claimers, Posters
  <2>2. Tokens
    BY <2>1, FS_EmptySet DEF Tokens
  <2>3. OneOwner
    BY DEF Init, OneOwner, Listed, AddsTask, RunsTask
  <2> QED BY <2>2, <2>3
<1>2. IInv /\ [Next]_vars => IInv'
  BY TypeStep, ControlStep, IntrStep, TokenStep, OwnershipStep
<1>3. IInv => TokenCount /\ Ownership /\ NoUseAfterFree
  <2> SUFFICES ASSUME TypeOK, Control, OneOwner PROVE LiveTasks
    BY DEF TokenCount, Ownership, NoUseAfterFree
  <2>1. \A w \in Workers : pc[w] = "body" => task[w] \in Tasks /\ RunsTask(w, task[w])
    BY DEF OneOwner, RunsTask
  <2>2. \A k \in 1..Len(tasks) : tasks[k] \in Tasks /\ Listed(tasks[k])
    BY DEF TypeOK, Listed
  <2> QED BY <2>1, <2>2 DEF LiveTasks, OneOwner, RunsTask
<1> HIDE DEF IInv
<1> QED BY <1>1, <1>2, <1>3, PTL DEF Spec

-----------------------------------------------------------------------------
(* Order, shutdown and the second look at quit.                            *)

LEMMA ConcatAppend ==
    ASSUME NEW p \in Seq(Tasks), NEW s \in Seq(Tasks), NEW e \in Tasks
    PROVE  Append(p \o s, e) = p \o Append(s, e)
OBVIOUS

LEMMA ConcatMove ==
    ASSUME NEW S, NEW p \in Seq(S), NEW s \in Seq(S), s # <<>>
    PROVE  Append(p, Head(s)) \o Tail(s) = p \o s
OBVIOUS

LEMMA FIFOStep ==
    ASSUME TypeOK, Control, FIFO, [Next]_vars
    PROVE  FIFO'
<1> USE DEF FIFO
<1>1. CASE Owner
  BY <1>1 DEF Owner, CreateThread, CreateReturns, DestroyPost, DestroyJoin,
              DestroyFree, poolVars, ghosts
<1>2. CASE Destroy
  BY <1>2 DEF Destroy, ghosts
<1>3. ASSUME NEW th \in Threads, Add(th) PROVE FIFO'
  <2>1. CASE AddLink(th)
    <3>1. adding[th] \in Tasks
      BY <2>1 DEF AddLink, Control
    <3>2. Append(popped \o tasks, adding[th]) = popped \o Append(tasks, adding[th])
      <4>1. popped \in Seq(Tasks) /\ tasks \in Seq(Tasks)
        BY DEF TypeOK
      <4> HIDE DEF FIFO
      <4> DEFINE e == adding[th]
      <4>2. e \in Tasks
        BY <3>1
      <4> HIDE DEF e
      <4>3. Append(popped \o tasks, e) = popped \o Append(tasks, e)
        BY <4>1, <4>2, ConcatAppend
      <4> QED BY <4>3, Zenon DEF e
    <3> QED BY <2>1, <3>2 DEF AddLink
  <2> QED BY <1>3, <2>1 DEF Add, AddLock, AddPost, ghosts
<1>4. ASSUME NEW th \in Threads, NEW t \in Tasks, AddTask(th, t) PROVE FIFO'
  BY <1>4 DEF AddTask, poolVars, ghosts
<1>5. ASSUME NEW w \in Workers, _thread_proc(w) PROVE FIFO'
  <2>1. CASE Del(w)
    <3>1. tasks # <<>> /\ task[w] = Head(tasks)
      BY <2>1 DEF Del, Control
    <3>2. tasks' = Tail(tasks) /\ popped' = Append(popped, Head(tasks))
      BY <2>1, <3>1 DEF Del
    <3> QED BY <2>1, <3>1, <3>2, ConcatMove DEF Del, TypeOK
  <2> QED BY <1>5, <2>1 DEF _thread_proc, Loop, SemWait, CheckQuit, Lock, First,
                            Test, HandlerReturns, poolVars, ghosts
<1>6. ASSUME NEW w \in Workers, SemInterrupted(w) PROVE FIFO'
  BY <1>6 DEF SemInterrupted, poolVars
<1>7. CASE UNCHANGED vars
  BY <1>7 DEF vars
<1> QED BY <1>1, <1>2, <1>3, <1>4, <1>5, <1>6, <1>7 DEF Next, Terminated

\* Tasks leave the list in the order in which they were added, each once, even
\* when waits are interrupted.
THEOREM PoolFIFO == Spec => []FIFO
<1> DEFINE IInv == TypeOK /\ Control /\ FIFO
<1>1. Init => IInv
  <2>1. Init => FIFO
    BY DEF Init, FIFO
  <2> QED BY <2>1, InitInv
<1>2. IInv /\ [Next]_vars => IInv'
  BY TypeStep, ControlStep, FIFOStep
<1>3. IInv => FIFO
  OBVIOUS
<1> HIDE DEF IInv
<1> QED BY <1>1, <1>2, <1>3, PTL DEF Spec

\* Destroy frees the list and the pool when no thread can reach them any more,
\* and leaves no task allocated, if no wait has been interrupted.
THEOREM PoolShutdown == Spec => [](intr = 0 => CleanShutdown)
<1>1. TypeOK /\ Control /\ OneOwner => CleanShutdown
  <2> SUFFICES ASSUME TypeOK, Control, OneOwner, main \in {"free", "done"}
               PROVE  CleanShutdown
    BY DEF CleanShutdown
  <2>1. \A w \in Workers : pc[w] = "exit"
    BY DEF Control
  <2>2. \A th \in Threads : apc[th] = "out"
    BY <2>1 DEF Control, Threads
  <2>3. lock = NoThread
    BY <2>1, <2>2 DEF TypeOK, Control, HoldsLock
  <2>4. main = "done" => \A t \in Tasks : heap[t] # "live"
    BY <2>1, <2>2 DEF Control, OneOwner, Listed, AddsTask, RunsTask
  <2> QED BY <2>1, <2>2, <2>3, <2>4 DEF CleanShutdown
<1>2. TypeOK /\ Control /\ Ownership => (intr = 0 => CleanShutdown)
  BY <1>1 DEF Ownership
<1> QED BY <1>2, TypeAndControl, PoolSafety, PTL

\* Until a wait is interrupted the semaphore accounts for every task listed, so
\* that a worker that takes a wake-up finds one and never runs a stale task.
THEOREM PoolTokens == Spec => []TokenCount
BY PoolSafety, PTL

\* Once quit is set no worker that has yet to look at it starts a handler.
THEOREM PoolNoStartAfterQuit == Spec => NoStartAfterQuit
<1>1. TypeOK /\ Control /\ [Next]_vars =>
        [\A w \in Workers :
           quit /\ pc[w] \in {"loop", "wait", "check"} =>
              pc'[w] \in {"loop", "wait", "check", "exit"}]_vars
  <2> SUFFICES ASSUME TypeOK, Control, Next, NEW v \in Workers, quit,
                      pc[v] \in {"loop", "wait", "check"}
               PROVE  pc'[v] \in {"loop", "wait", "check", "exit"}
    BY DEF vars
  <2> USE DEF TypeOK
  <2>1. CASE Owner
    BY <2>1 DEF Owner, CreateThread, CreateReturns, DestroyPost, DestroyJoin,
                DestroyFree, Control
  <2>2. CASE Destroy
    BY <2>2 DEF Destroy
  <2>3. ASSUME NEW th \in Threads, Add(th) \/ \E t \in Tasks : AddTask(th, t)
        PROVE  pc' = pc
    BY <2>3 DEF Add, AddLock, AddLink, AddPost, AddTask
  <2>4. ASSUME NEW w \in Workers, _thread_proc(w) \/ SemInterrupted(w)
        PROVE  pc'[v] \in {"loop", "wait", "check", "exit"}
    BY <2>4 DEF _thread_proc, SemInterrupted, Loop, SemWait, CheckQuit, Lock,
                First, Del, Test, HandlerReturns
  <2>5. CASE Terminated
    BY <2>5 DEF Terminated, vars
  <2> QED BY <2>1, <2>2, <2>3, <2>4, <2>5 DEF Next
<1> QED BY <1>1, TypeAndControl, PTL DEF Spec, NoStartAfterQuit
=============================================================================
