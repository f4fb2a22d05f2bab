-------------------------------- MODULE Ptz --------------------------------
(* The queue of camera tasks of src/tmp/Ptz.cpp and its worker thread: add   *)
(* links a task under the mutex and posts the semaphore after it; the worker *)
(* asks for the home position first, then sleeps, takes tasks until there is *)
(* none, and looks at quit_ before it sleeps again.  A task is the place it  *)
(* turns the camera to: every should_do of ptz_oper.h is 0, so every task is *)
(* executed.  A camera is configured (ptz_ is not 0).                       *)
EXTENDS Naturals, Sequences

CONSTANTS
    Adders,            \* the threads that call add, apart from the worker
    Places,            \* where the camera may point
    Home,              \* the home position of the configuration file
    Elsewhere          \* where the operator's moves, zooms and clicks leave it

ASSUME PlacesAssumption == {Home, Elsewhere} \subseteq Places

VARIABLES
    tasks_, sem_, quit_,
    home,              \* ptz_init_x, ptz_init_y, ptz_init_z of the configuration
    cam,               \* external: where the camera points
    pc, task,          \* the worker and its task
    apc                \* the other threads in add: "out" or "post"

queue == <<tasks_, sem_, quit_, home, cam, pc, task, apc>>

PtzInit ==
    /\ tasks_ = <<>> /\ sem_ = 0 /\ quit_ = FALSE
    /\ home = Home /\ cam = Elsewhere
    /\ pc = "start" /\ task = Elsewhere
    /\ apc = [th \in Adders |-> "out"]

-----------------------------------------------------------------------------
(* The tasks of ptz_oper.h: a position, or a move, a zoom or a click.        *)

task_ptz_reset(place) == place
task_ptz_move == Elsewhere

-----------------------------------------------------------------------------
(* add, up to the unlock and then the post, by a thread other than the worker. *)

\* Mutant: a task is linked in front.
PushFront(th, place) ==
    /\ apc[th] = "out"
    /\ tasks_' = <<place>> \o tasks_
    /\ apc' = [apc EXCEPT ![th] = "post"]

Push(th, place) ==
    /\ apc[th] = "out"
    /\ tasks_' = Append(tasks_, place)
    /\ apc' = [apc EXCEPT ![th] = "post"]

Post(th) ==
    /\ apc[th] = "post"
    /\ sem_' = sem_ + 1
    /\ apc' = [apc EXCEPT ![th] = "out"]
    /\ UNCHANGED <<tasks_, quit_, home, cam, pc, task>>

-----------------------------------------------------------------------------
(* run.                                                                     *)

\* The first reset_ptz.
Start ==
    /\ pc = "start"
    /\ tasks_' = Append(tasks_, task_ptz_reset(home))
    /\ pc' = "startPost"
    /\ UNCHANGED <<sem_, quit_, home, cam, task, apc>>

StartPost ==
    /\ pc = "startPost"
    /\ sem_' = sem_ + 1
    /\ pc' = "test"
    /\ UNCHANGED <<tasks_, quit_, home, cam, task, apc>>

TestQuit ==
    /\ pc = "test"
    /\ pc' = IF quit_ THEN "exit" ELSE "wait"
    /\ UNCHANGED <<tasks_, sem_, quit_, home, cam, task, apc>>

\* sem_.wait, and one_loop, which does nothing.
Wait ==
    /\ pc = "wait" /\ sem_ > 0
    /\ sem_' = sem_ - 1
    /\ pc' = "next"
    /\ UNCHANGED <<tasks_, quit_, home, cam, task, apc>>

next_task ==
    /\ pc = "next"
    /\ \/ tasks_ = <<>> /\ pc' = "test" /\ UNCHANGED <<tasks_, task>>
       \/ tasks_ # <<>> /\ task' = Head(tasks_) /\ tasks_' = Tail(tasks_) /\ pc' = "exec"
    /\ UNCHANGED <<sem_, quit_, home, cam, apc>>

exec_task ==
    /\ pc = "exec"
    /\ cam' = task
    /\ pc' = "next"
    /\ UNCHANGED <<tasks_, sem_, quit_, home, task, apc>>

Worker == Start \/ StartPost \/ TestQuit \/ Wait \/ next_task \/ exec_task

\* The worker sleeps, and nothing is on its way to it.
AtRest ==
    /\ pc = "wait" /\ sem_ = 0 /\ tasks_ = <<>>
    /\ \A th \in Adders : apc[th] = "out"

-----------------------------------------------------------------------------
\* ~Ptz: quit_ and join, which ends only if the worker gets to its test.  The
\* worker is not woken.
Quit ==
    /\ ~quit_ /\ \A th \in Adders : apc[th] = "out"
    /\ quit_' = TRUE
    /\ UNCHANGED <<tasks_, sem_, home, cam, pc, task, apc>>
=============================================================================
