----------------------------- MODULE ThreadPool -----------------------------
(***************************************************************************)
(* The worker pool of src/threadpool.c: a task list under a mutex, a       *)
(* semaphore that counts wake-ups, thread_cnt workers running _thread_proc *)
(* and an owner that creates and destroys the pool.  Tasks are added by    *)
(* client threads and by the handlers the workers run.                     *)
(*                                                                         *)
(* A step is what one thread does between two accesses to shared state;    *)
(* taking the lock, the accesses under it, the semaphore and the reads of  *)
(* the unprotected flag quit are steps of their own.                       *)
(***************************************************************************)
EXTENDS Integers, Sequences, FiniteSets

CONSTANTS Cnt,            \* the argument of simple_thread_pool_create
          Clients,        \* threads that add tasks from outside the pool
          Tasks,          \* task_t objects (addresses are never reused)
          MaxInterrupts,  \* sem_wait calls a signal handler may interrupt
          NoTask,         \* the null task pointer
          NoThread        \* the mutex is free

\* _thread_cnt: a count that is not positive means four workers.
_thread_cnt(cnt) == IF cnt <= 0 THEN 4 ELSE cnt

thread_cnt == _thread_cnt(Cnt)
Workers == 1..thread_cnt
Threads == Workers \cup Clients

ASSUME CntAssumption == Cnt \in Int
ASSUME ClientsAssumption == IsFiniteSet(Clients) /\ Clients \cap Workers = {}
ASSUME TasksAssumption == NoTask \notin Tasks
ASSUME NoThreadAssumption == NoThread \notin Threads
ASSUME InterruptsAssumption == MaxInterrupts \in Nat

VARIABLES
    tasks,   \* the task list, first element at tasks.next
    sem,     \* value of the semaphore
    lock,    \* thread that holds the mutex, or NoThread
    quit,    \* the quit flag
    pc,      \* where each worker is in _thread_proc
    task,    \* the local variable `task' of each worker
    apc,     \* where each thread is in simple_thread_pool_add_task
    adding,  \* the task that thread is adding
    main,    \* where the owner is: create, run, post, join, free, done
    i,       \* the owner's loop counter
    heap,    \* each task_t object: "none" before malloc, "live", "freed"
    added,   \* history: tasks in the order they were linked
    popped,  \* history: tasks in the order workers unlinked them
    intr     \* number of interrupted waits so far

vars == <<tasks, sem, lock, quit, pc, task, apc, adding, main, i, heap,
          added, popped, intr>>

poolVars == <<tasks, sem, lock, quit>>
ghosts == <<added, popped, intr>>

PCs == {"none", "loop", "wait", "check", "lock", "first", "del", "test",
        "body", "exit"}

TypeOK ==
    /\ tasks \in Seq(Tasks)
    /\ sem \in Nat
    /\ lock \in Threads \cup {NoThread}
    /\ quit \in BOOLEAN
    /\ pc \in [Workers -> PCs]
    /\ task \in [Workers -> Tasks \cup {NoTask}]
    /\ apc \in [Threads -> {"out", "lock", "link", "post"}]
    /\ adding \in [Threads -> Tasks \cup {NoTask}]
    /\ main \in {"create", "run", "post", "join", "free", "done"}
    /\ i \in 0..thread_cnt
    /\ heap \in [Tasks -> {"none", "live", "freed"}]
    /\ added \in Seq(Tasks)
    /\ popped \in Seq(Tasks)
    /\ intr \in 0..MaxInterrupts

\* simple_thread_pool_create up to its loop.
Init ==
    /\ tasks = <<>> /\ sem = 0 /\ lock = NoThread /\ quit = FALSE
    /\ pc = [w \in Workers |-> "none"]
    /\ task = [w \in Workers |-> NoTask]
    /\ apc = [th \in Threads |-> "out"]
    /\ adding = [th \in Threads |-> NoTask]
    /\ main = "create" /\ i = 0
    /\ heap = [t \in Tasks |-> "none"]
    /\ added = <<>> /\ popped = <<>> /\ intr = 0

-----------------------------------------------------------------------------
(* The owner.                                                              *)

\* One round of the loop of simple_thread_pool_create: the new worker may run
\* before the others exist.
CreateThread ==
    /\ main = "create" /\ i < thread_cnt
    /\ pc' = [pc EXCEPT ![i + 1] = "loop"]
    /\ i' = i + 1
    /\ UNCHANGED <<poolVars, task, apc, adding, main, heap, ghosts>>

CreateReturns ==
    /\ main = "create" /\ i = thread_cnt
    /\ main' = "run"
    /\ UNCHANGED <<poolVars, pc, task, apc, adding, i, heap, ghosts>>

\* simple_thread_pool_destroy, first statement.  Its caller owns the pool: no
\* client is inside an API call and none makes one any more.
Destroy ==
    /\ main = "run"
    /\ \A c \in Clients : apc[c] = "out"
    /\ quit' = TRUE
    /\ main' = "post" /\ i' = 0
    /\ UNCHANGED <<tasks, sem, lock, pc, task, apc, adding, heap, ghosts>>

\* Mutant: one post for all the workers.
DestroyPostOnce ==
    /\ main = "post"
    /\ sem' = sem + 1 /\ i' = thread_cnt /\ main' = "join"
    /\ UNCHANGED <<tasks, lock, quit, pc, task, apc, adding, heap, ghosts>>

\* The loop that posts the semaphore once per worker.
DestroyPost ==
    /\ main = "post"
    /\ \/ i < thread_cnt /\ sem' = sem + 1 /\ i' = i + 1 /\ main' = main
       \/ i = thread_cnt /\ main' = "join" /\ UNCHANGED <<sem, i>>
    /\ UNCHANGED <<tasks, lock, quit, pc, task, apc, adding, heap, ghosts>>

\* Mutant: the list is freed without waiting for the workers.
DestroyNoJoin ==
    /\ main = "join" /\ i' = 0 /\ main' = "free"
    /\ UNCHANGED <<poolVars, pc, task, apc, adding, heap, ghosts>>

\* Joins, in list order: list_add put the last thread first.
DestroyJoin ==
    /\ main = "join"
    /\ \/ i > 0 /\ pc[i] = "exit" /\ i' = i - 1 /\ main' = main
       \/ i = 0 /\ main' = "free" /\ UNCHANGED i
    /\ UNCHANGED <<poolVars, pc, task, apc, adding, heap, ghosts>>

\* Frees the pending tasks, one per round, then the pool itself.
DestroyFree ==
    /\ main = "free"
    /\ \/ /\ tasks # <<>>
          /\ heap' = [heap EXCEPT ![Head(tasks)] = "freed"]
          /\ tasks' = Tail(tasks)
          /\ main' = main
       \/ tasks = <<>> /\ main' = "done" /\ UNCHANGED <<tasks, heap>>
    /\ UNCHANGED <<sem, lock, quit, pc, task, apc, adding, i, ghosts>>

-----------------------------------------------------------------------------
(* simple_thread_pool_add_task.                                            *)

\* A client adds while the pool is in use; a worker from inside a handler.
MayAdd(th) ==
    IF th \in Clients THEN main = "run" ELSE pc[th] = "body"

\* simple_task_create, then the call; the list node is allocated.
AddTask(th, t) ==
    /\ apc[th] = "out" /\ MayAdd(th) /\ heap[t] = "none"
    /\ heap' = [heap EXCEPT ![t] = "live"]
    /\ adding' = [adding EXCEPT ![th] = t]
    /\ apc' = [apc EXCEPT ![th] = "lock"]
    /\ UNCHANGED <<poolVars, pc, task, main, i, ghosts>>

AddLock(th) ==
    /\ apc[th] = "lock" /\ lock = NoThread
    /\ lock' = th
    /\ apc' = [apc EXCEPT ![th] = "link"]
    /\ UNCHANGED <<tasks, sem, quit, pc, task, adding, main, i, heap, ghosts>>

\* Mutant: list_add instead of list_add_tail.
AddLinkFirst(th) ==
    /\ apc[th] = "link"
    /\ tasks' = <<adding[th]>> \o tasks
    /\ added' = Append(added, adding[th])
    /\ lock' = NoThread
    /\ apc' = [apc EXCEPT ![th] = "post"]
    /\ UNCHANGED <<sem, quit, pc, task, adding, main, i, heap, popped, intr>>

\* list_add_tail and the unlock.
AddLink(th) ==
    /\ apc[th] = "link"
    /\ tasks' = Append(tasks, adding[th])
    /\ added' = Append(added, adding[th])
    /\ lock' = NoThread
    /\ apc' = [apc EXCEPT ![th] = "post"]
    /\ UNCHANGED <<sem, quit, pc, task, adding, main, i, heap, popped, intr>>

\* Mutant: the wake-up is sent only for the first task on the list.
AddPostIfFirst(th) ==
    /\ apc[th] = "post"
    /\ sem' = IF Len(tasks) = 1 THEN sem + 1 ELSE sem
    /\ apc' = [apc EXCEPT ![th] = "out"]
    /\ UNCHANGED <<tasks, lock, quit, pc, task, adding, main, i, heap, ghosts>>

AddPost(th) ==
    /\ apc[th] = "post"
    /\ sem' = sem + 1
    /\ apc' = [apc EXCEPT ![th] = "out"]
    /\ UNCHANGED <<tasks, lock, quit, pc, task, adding, main, i, heap, ghosts>>

-----------------------------------------------------------------------------
(* _thread_proc.                                                           *)

\* The loop condition.
Loop(w) ==
    /\ pc[w] = "loop"
    /\ pc' = [pc EXCEPT ![w] = IF quit THEN "exit" ELSE "wait"]
    /\ UNCHANGED <<poolVars, task, apc, adding, main, i, heap, ghosts>>

SemWait(w) ==
    /\ pc[w] = "wait" /\ sem > 0
    /\ sem' = sem - 1
    /\ pc' = [pc EXCEPT ![w] = "check"]
    /\ UNCHANGED <<tasks, lock, quit, task, apc, adding, main, i, heap, ghosts>>

\* simple_sem_wait drops the result of sem_wait: a wait that a signal handler
\* interrupts (EINTR) returns like one that took a token.
SemInterrupted(w) ==
    /\ pc[w] = "wait" /\ intr < MaxInterrupts
    /\ intr' = intr + 1
    /\ pc' = [pc EXCEPT ![w] = "check"]
    /\ UNCHANGED <<poolVars, task, apc, adding, main, i, heap, added, popped>>

\* The second look at quit, after the wait.
CheckQuit(w) ==
    /\ pc[w] = "check"
    /\ pc' = [pc EXCEPT ![w] = IF quit THEN "exit" ELSE "lock"]
    /\ UNCHANGED <<poolVars, task, apc, adding, main, i, heap, ghosts>>

\* Mutant: the list is read without the mutex.
NoLock(w) ==
    /\ pc[w] = "lock"
    /\ pc' = [pc EXCEPT ![w] = "first"]
    /\ UNCHANGED <<poolVars, task, apc, adding, main, i, heap, ghosts>>

Lock(w) ==
    /\ pc[w] = "lock" /\ lock = NoThread
    /\ lock' = w
    /\ pc' = [pc EXCEPT ![w] = "first"]
    /\ UNCHANGED <<tasks, sem, quit, task, apc, adding, main, i, heap, ghosts>>

\* The emptiness test and the read of the first node.  On an empty list the
\* variable `task' keeps what it held before, and the lock is released.
First(w) ==
    /\ pc[w] = "first"
    /\ \/ /\ tasks # <<>>
          /\ task' = [task EXCEPT ![w] = Head(tasks)]
          /\ pc' = [pc EXCEPT ![w] = "del"]
          /\ UNCHANGED lock
       \/ /\ tasks = <<>>
          /\ pc' = [pc EXCEPT ![w] = "test"]
          /\ lock' = NoThread
          /\ UNCHANGED task
    /\ UNCHANGED <<tasks, sem, quit, apc, adding, main, i, heap, ghosts>>

\* list_del of the node that was read (the first one still: the lock has been
\* held since), and the unlock.
Del(w) ==
    /\ pc[w] = "del"
    /\ tasks' = IF tasks # <<>> /\ Head(tasks) = task[w] THEN Tail(tasks)
                ELSE tasks
    /\ popped' = Append(popped, task[w])
    /\ lock' = NoThread
    /\ pc' = [pc EXCEPT ![w] = "test"]
    /\ UNCHANGED <<sem, quit, task, apc, adding, main, i, heap, added, intr>>

\* if (task) task->handle(...).
Test(w) ==
    /\ pc[w] = "test"
    /\ pc' = [pc EXCEPT ![w] = IF task[w] = NoTask THEN "loop" ELSE "body"]
    /\ UNCHANGED <<poolVars, task, apc, adding, main, i, heap, ghosts>>

\* The handler's last call, simple_task_destroy on its own task, and its
\* return; `task' still holds the pointer.
HandlerReturns(w) ==
    /\ pc[w] = "body" /\ apc[w] = "out"
    /\ heap' = [heap EXCEPT ![task[w]] = "freed"]
    /\ pc' = [pc EXCEPT ![w] = "loop"]
    /\ UNCHANGED <<poolVars, task, apc, adding, main, i, ghosts>>

-----------------------------------------------------------------------------
Owner == CreateThread \/ CreateReturns \/ DestroyPost \/ DestroyJoin
         \/ DestroyFree

Add(th) == AddLock(th) \/ AddLink(th) \/ AddPost(th)

_thread_proc(w) == Loop(w) \/ SemWait(w) \/ CheckQuit(w) \/ Lock(w)
                   \/ First(w) \/ Del(w) \/ Test(w) \/ HandlerReturns(w)

\* After simple_thread_pool_destroy has returned nothing is left to do.
Terminated == main = "done" /\ UNCHANGED vars

Next ==
    \/ Owner
    \/ Destroy
    \/ \E th \in Threads : Add(th) \/ \E t \in Tasks : AddTask(th, t)
    \/ \E w \in Workers : _thread_proc(w) \/ SemInterrupted(w)
    \/ Terminated

\* Every thread that can run is scheduled, and a handler returns.  Nothing
\* obliges anybody to add a task, to destroy the pool or to raise a signal.
Fairness ==
    /\ WF_vars(Owner)
    /\ \A th \in Threads : WF_vars(Add(th))
    /\ \A w \in Workers : WF_vars(_thread_proc(w))

Spec == Init /\ [][Next]_vars
FairSpec == Spec /\ Fairness

-----------------------------------------------------------------------------
(* Properties.                                                             *)

\* Workers that took a wake-up and have not unlinked the task it stands for;
\* those of them that have looked at quit for the last time before they do.
Claimers == {w \in Workers : pc[w] \in {"check", "lock", "first", "del"}}
Committed == {w \in Workers : pc[w] \in {"lock", "first", "del"}}

\* Threads that linked a task and have not yet posted for it.
Posters == {th \in Threads : apc[th] = "post"}

\* Mutual exclusion and phase: who holds the mutex is the one thread between
\* lock and unlock, and what it read under the lock still is the first task; a
\* worker adds tasks only from a handler, a client only while the pool is in
\* use; create has not started the workers above its counter, destroy has joined
\* them.
HoldsLock(th) ==
    apc[th] = "link" \/ (th \in Workers /\ pc[th] \in {"first", "del"})

Control ==
    /\ \A th \in Threads : HoldsLock(th) <=> lock = th
    /\ \A w \in Workers : pc[w] = "del" => tasks # <<>> /\ task[w] = Head(tasks)
    /\ \A w \in Workers : apc[w] # "out" => pc[w] = "body"
    /\ \A c \in Clients : apc[c] # "out" => main = "run"
    /\ \A th \in Threads : apc[th] \in {"lock", "link"} => adding[th] \in Tasks
    /\ \A w \in Workers : pc[w] = "body" => task[w] \in Tasks
    /\ quit <=> main \in {"post", "join", "free", "done"}
    /\ main = "create" => \A w \in Workers : w > i => pc[w] = "none"
    /\ main = "join" => \A w \in Workers : w > i => pc[w] = "exit"
    /\ main \in {"free", "done"} => \A w \in Workers : pc[w] = "exit"
    /\ main = "done" => tasks = <<>>

\* Who answers for a task: the thread that is adding it, the list, or the worker
\* that took it off.
AddsTask(th, t) == apc[th] \in {"lock", "link"} /\ adding[th] = t
Listed(t) == \E k \in 1..Len(tasks) : tasks[k] = t
RunsTask(w, t) == pc[w] \in {"test", "body"} /\ task[w] = t

\* An allocated task has exactly one owner, and nobody owns one that is not
\* allocated: the adder hands it to the list, the list to one worker, the
\* handler frees it.
OneOwner ==
    /\ \A w \in Workers : pc[w] \in {"test", "body"} => task[w] \in Tasks
    /\ \A j, k \in 1..Len(tasks) : tasks[j] = tasks[k] => j = k
    /\ \A t \in Tasks :
          /\ heap[t] = "live" <=>
                \/ Listed(t)
                \/ \E th \in Threads : AddsTask(th, t)
                \/ \E w \in Workers : RunsTask(w, t)
          /\ \A th \in Threads : AddsTask(th, t) =>
                /\ ~Listed(t)
                /\ \A w \in Workers : ~RunsTask(w, t)
                /\ \A o \in Threads : AddsTask(o, t) => o = th
          /\ \A w \in Workers : RunsTask(w, t) =>
                /\ ~Listed(t)
                /\ \A v \in Workers : RunsTask(v, t) => v = w

\* While the pool is in use wake-ups and listed tasks match one to one, counting
\* tokens in flight on both sides; once quit is set the workers past their last
\* look at it still find a task each, whatever extra posts destroy made.  This
\* is what keeps _thread_proc from meeting an empty list (lines 60 to 66).
Tokens ==
    IF quit THEN Cardinality(Committed) <= Len(tasks)
    ELSE sem + Cardinality(Claimers) + Cardinality(Posters) = Len(tasks)

\* A handler runs only on a task that has not been destroyed, no two workers
\* run the same task, and what destroy finds on the list is still allocated:
\* a simple_task_create is matched by one simple_task_destroy.
LiveTasks ==
    /\ \A w \in Workers : pc[w] = "body" => heap[task[w]] = "live"
    /\ \A v, w \in Workers :
          pc[v] = "body" /\ pc[w] = "body" /\ task[v] = task[w] => v = w
    /\ \A k \in 1..Len(tasks) : heap[tasks[k]] = "live"

\* Until a wait is interrupted (from then on a worker may meet an empty list, and
\* the three fail) wake-ups match tasks,
TokenCount == intr = 0 => Tokens

\* every task has one owner,
Ownership == intr = 0 => OneOwner

\* and no handler runs on a destroyed task.
NoUseAfterFree == intr = 0 => LiveTasks

\* Until destroy frees what is left, tasks leave the list in the order in which
\* they entered it, each once: what was linked is what was unlinked, then the
\* list.
FIFO == main \notin {"free", "done"} => added = popped \o tasks

\* When destroy starts to free the list and the pool, no worker and no handler
\* can touch them again; when it has returned every task ever created has been
\* destroyed, by its handler or by destroy.
CleanShutdown ==
    /\ main \in {"free", "done"} =>
          /\ \A w \in Workers : pc[w] = "exit"
          /\ \A th \in Threads : apc[th] = "out"
          /\ lock = NoThread
    /\ main = "done" => \A t \in Tasks : heap[t] # "live"

\* A worker that has not yet passed its second look at quit starts no handler
\* once quit is set: destroy waits for at most one handler of each worker.
NoStartAfterQuit ==
    [][\A w \in Workers :
         quit /\ pc[w] \in {"loop", "wait", "check"} =>
            pc'[w] \in {"loop", "wait", "check", "exit"}]_vars

\* simple_thread_pool_destroy returns: its posts reach every worker, the ones
\* inside a handler included, and every join ends.
DestroyReturns == main = "post" ~> main = "done"

\* A task on the list is not forgotten: it is handled, or freed by destroy.
TaskServed ==
    \A t \in Tasks : (\E k \in 1..Len(tasks) : tasks[k] = t) ~> heap[t] = "freed"
=============================================================================
