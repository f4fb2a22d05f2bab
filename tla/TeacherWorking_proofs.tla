----------------------- MODULE TeacherWorking_proofs -----------------------
(* Proofs about the queue of TeacherWorkingThread, for any columns, points,   *)
(* durations and bounds.                                                    *)
EXTENDS TeacherWorkingThread, TLAPS

QueueTypes ==
    /\ tasks_ \in Seq(Columns) /\ sem_ \in 0..MaxSem
    /\ pc \in {"wait", "look", "trace", "task", "exit"}

\* A saturated semaphore counts more than the queue holds (Posted), so the length
\* of the queue and the count of its wake-ups hold together.
QueueInv == QueueTypes /\ HasToken /\ NoPileUp

\* A post adds a wake-up or finds the semaphore full.
LEMMA PostedCounts ==
    ASSUME WorkingAssumption, NEW n \in 0..MaxSem
    PROVE  /\ Posted(n) \in 0..MaxSem /\ Posted(n) >= n
           /\ Posted(n) = MaxSem \/ Posted(n) = n + 1
BY DEF WorkingAssumption, Posted

\* A task at the end of the queue, and the post for it.
LEMMA AddKeepsToken ==
    ASSUME WorkingAssumption, QueueTypes, HasToken, Len(tasks_) <= MaxTasks,
           NEW place \in Columns,
           tasks_' = Append(tasks_, place), sem_' = Posted(sem_),
           pc' = "wait" <=> pc = "wait"
    PROVE  /\ tasks_' \in Seq(Columns) /\ sem_' \in 0..MaxSem
           /\ Len(tasks_') = Len(tasks_) + 1
           /\ HasToken'
<1>1. tasks_' \in Seq(Columns) /\ Len(tasks_') = Len(tasks_) + 1 /\ Len(tasks_) \in Nat
  BY DEF QueueTypes
<1>2. sem_ \in 0..MaxSem /\ MaxSem \in Nat /\ MaxTasks \in Nat /\ MaxSem > MaxTasks
  BY DEF QueueTypes, WorkingAssumption
<1>3. sem_' \in 0..MaxSem /\ (sem_' = MaxSem \/ sem_' = sem_ + 1)
  BY PostedCounts DEF QueueTypes
<1>4. HasToken'
  BY <1>1, <1>2, <1>3 DEF HasToken
<1> QED BY <1>1, <1>3, <1>4

LEMMA QueueStep ==
    ASSUME WorkingAssumption, QueueInv, [Next]_vars
    PROVE  QueueInv'
<1> USE DEF QueueInv
<1>1. MaxSem \in Nat /\ MaxTasks \in Nat \ {0} /\ MaxSem > MaxTasks /\ {Home, Elsewhere} \subseteq Columns
  BY DEF WorkingAssumption
<1>2. tasks_ \in Seq(Columns) /\ Len(tasks_) \in Nat /\ sem_ \in 0..MaxSem
  BY DEF QueueTypes
<1>3. CASE Wait
  BY <1>1, <1>2, <1>3 DEF Wait, QueueTypes, HasToken, NoPileUp
<1>4. CASE Look
  BY <1>1, <1>2, <1>4 DEF Look, QueueTypes, HasToken, NoPileUp
<1>5. CASE trytrace
  <2>1. pc = "trace" /\ pc' = "task" /\ Len(tasks_) <= MaxTasks
    BY <1>1, <1>5 DEF trytrace, NoPileUp
  <2>2. UNCHANGED <<tasks_, sem_>> \/ (tasks_' = Append(tasks_, Home) /\ sem_' = Posted(sem_))
    BY <1>5 DEF trytrace, state_fullview, state_toclose, state_closeview, reset_ptz
  <2>3. CASE UNCHANGED <<tasks_, sem_>>
    BY <1>1, <1>2, <2>1, <2>3 DEF QueueTypes, HasToken, NoPileUp
  <2>4. CASE tasks_' = Append(tasks_, Home) /\ sem_' = Posted(sem_)
    <3>1. QueueTypes /\ HasToken /\ Home \in Columns
      BY <1>1
    <3>2. pc' = "wait" <=> pc = "wait"
      BY <2>1
    <3>3. /\ tasks_' \in Seq(Columns) /\ sem_' \in 0..MaxSem
          /\ Len(tasks_') = Len(tasks_) + 1 /\ HasToken'
      BY <2>1, <2>4, <3>1, <3>2, AddKeepsToken, WorkingAssumption
    <3> QED BY <1>1, <1>2, <2>1, <3>3 DEF QueueTypes, NoPileUp
  <2> QED BY <2>2, <2>3, <2>4
<1>6. CASE DoTask
  <2>1. pc = "task" /\ pc' \in {"exit", "wait"} /\ sem_' = sem_
    BY <1>6 DEF DoTask
  <2>2. CASE tasks_ = <<>> /\ UNCHANGED tasks_
    BY <1>1, <1>2, <2>1, <2>2 DEF QueueTypes, HasToken, NoPileUp
  <2>3. CASE tasks_ # <<>> /\ tasks_' = Tail(tasks_)
    <3>1. tasks_' \in Seq(Columns) /\ Len(tasks_') = Len(tasks_) - 1
      BY <1>2, <2>3
    <3> QED BY <1>1, <1>2, <2>1, <3>1 DEF QueueTypes, HasToken, NoPileUp
  <2> QED BY <1>6, <2>2, <2>3 DEF DoTask
<1>7. CASE Turn \/ set_running_state \/ UNCHANGED vars
  <2>1. UNCHANGED <<tasks_, sem_, pc>>
    BY <1>7 DEF Turn, set_running_state, worker, vars
  <2> QED BY <2>1 DEF QueueTypes, HasToken, NoPileUp
<1>8. CASE Frame
  <2>1. UNCHANGED <<tasks_, pc>> /\ sem_' = Posted(sem_)
    BY <1>8 DEF Frame, set_camshift_pt
  <2>2. sem_' \in 0..MaxSem /\ sem_' >= sem_
    BY <1>2, <2>1, PostedCounts
  <2> QED BY <1>1, <1>2, <2>1, <2>2 DEF QueueTypes, HasToken, NoPileUp
<1>9. CASE add(Elsewhere)
  <2>1. Len(tasks_) < MaxTasks /\ tasks_' = Append(tasks_, Elsewhere)
        /\ sem_' = Posted(sem_) /\ UNCHANGED pc
    BY <1>9 DEF add, worker
  <2>2. /\ tasks_' \in Seq(Columns) /\ sem_' \in 0..MaxSem
        /\ Len(tasks_') = Len(tasks_) + 1 /\ HasToken'
    <3>1. QueueTypes /\ HasToken /\ Elsewhere \in Columns /\ Len(tasks_) <= MaxTasks
      BY <1>1, <1>2, <2>1
    <3>2. pc' = "wait" <=> pc = "wait"
      BY <2>1
    <3> QED BY <2>1, <3>1, <3>2, AddKeepsToken, WorkingAssumption
  <2> QED BY <1>1, <1>2, <2>1, <2>2 DEF QueueTypes, NoPileUp
<1>10. CASE Quit
  <2>1. UNCHANGED <<tasks_, pc>> /\ sem_' = Posted(sem_)
    BY <1>10 DEF Quit, worker
  <2>2. sem_' \in 0..MaxSem /\ sem_' >= sem_
    BY <1>2, <2>1, PostedCounts
  <2> QED BY <1>1, <1>2, <2>1, <2>2 DEF QueueTypes, HasToken, NoPileUp
<1>11. CASE Join
  <2>1. tasks_' = <<>> /\ sem_' = 0 /\ UNCHANGED pc
    BY <1>11 DEF Join, worker
  <2> QED BY <1>1, <2>1 DEF QueueTypes, HasToken, NoPileUp
<1> QED
  BY <1>3, <1>4, <1>5, <1>6, <1>7, <1>8, <1>9, <1>10, <1>11 DEF Next, Run

LEMMA QueueInvariant == Spec => []QueueInv
<1>1. Init => QueueInv
  <2> SUFFICES ASSUME Init PROVE QueueInv
    OBVIOUS
  <2>1. Home \in Columns /\ MaxSem \in Nat /\ MaxTasks \in Nat \ {0} /\ MaxSem > MaxTasks
    BY WorkingAssumption DEF WorkingAssumption
  <2>2. tasks_ \in Seq(Columns) /\ Len(tasks_) \in {0, 1}
    BY <2>1 DEF Init
  <2> QED BY <2>1, <2>2 DEF Init, QueueInv, QueueTypes, HasToken, NoPileUp
<1>2. QueueInv /\ [Next]_vars => QueueInv'
  BY QueueStep, WorkingAssumption
<1> QED BY <1>1, <1>2, PTL DEF Spec

\* Every task waiting has a wake-up, although frames post the same semaphore and
\* a look may use a post without finding its task (run of TeacherRunningImpl.h).
THEOREM TasksHaveTokens == Spec => []HasToken
<1>1. QueueInv => HasToken
  BY DEF QueueInv
<1> QED BY <1>1, QueueInvariant, PTL

\* The resets a look asks for do not pile up: it takes a task for each one that
\* it adds (trytrace and next).
THEOREM ResetsDoNotPileUp == Spec => []NoPileUp
<1>1. QueueInv => NoPileUp
  BY DEF QueueInv
<1> QED BY <1>1, QueueInvariant, PTL
=============================================================================
