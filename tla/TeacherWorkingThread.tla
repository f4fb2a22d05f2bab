------------------------ MODULE TeacherWorkingThread ------------------------
(* The worker of TeacherRunningImpl.cpp: the frame thread hands it what the  *)
(* detection saw (set_camshift_pt), others hand it camera tasks (add), and   *)
(* every post of its semaphore makes it look once at the target's recent     *)
(* past (TeacherAnalyze.cpp) and take one task.  Only the horizontal axis is *)
(* kept; a place is a column of the detecting picture and the pan position   *)
(* that faces it.  Time passes by the frame.                                *)
EXTENDS Integers, Sequences, SequencesExt, FiniteSetsExt

CONSTANTS
    Columns,           \* where the target can be seen
    Home,              \* ptz_init_x
    Elsewhere,         \* where the tasks of others leave the camera
    None,              \* no target in the frame: a point of x = -1
    Gaps,              \* the time from a frame to the next
    AnalyzeDuration,   \* analyze_duration of the configuration
    Interval, Stop,    \* analyze_interval and time_to_stop_tracing of the policy
    Scale,             \* pixels of the tracking camera for a column
    Stable,            \* stable_width
    MaxSem, MaxTasks   \* bounds: posts and tasks waiting

ASSUME WorkingAssumption ==
    /\ Columns \subseteq Nat /\ {Home, Elsewhere} \subseteq Columns /\ None \notin Int
    /\ Gaps \subseteq Nat \ {0} /\ Scale \in Nat \ {0}
    /\ MaxTasks \in Nat \ {0} /\ MaxSem \in Nat /\ MaxSem > MaxTasks
    /\ {AnalyzeDuration, Interval, Stop, Stable} \subseteq Nat

VARIABLES
    data,              \* teacher_detected_data_: points with their ages
    tasks_, sem_,
    quit_, gone,       \* the destructor has begun, and has returned
    running_state_,
    ptz_,              \* a camera is configured
    pc, datas,         \* the worker, and its copy of the data
    state_, ToClose,
    outside,           \* pt_trace_last lies outside the stable frame
    goal, cam          \* external: where the camera was last sent, and is

camera == <<goal, cam>>
worker == <<pc, datas, state_, ToClose, outside>>
vars == <<data, tasks_, sem_, quit_, gone, running_state_, ptz_, worker, camera>>

\* Bound: the semaphore saturates, above what can wait in the queue.
Posted(n) == IF n = MaxSem THEN n ELSE n + 1

\* The constructor.  Its reset is in the queue before the worker runs.
Init ==
    /\ data = <<>> /\ quit_ = FALSE /\ gone = FALSE /\ running_state_ = 0
    /\ ptz_ \in BOOLEAN
    /\ tasks_ = IF ptz_ THEN <<Home>> ELSE <<>>
    /\ sem_ = Len(tasks_)
    /\ pc = "wait" /\ datas = <<>> /\ state_ = "FULLVIEW" /\ ToClose = None /\ outside = FALSE
    /\ cam \in {Home, Elsewhere} /\ goal = cam

-----------------------------------------------------------------------------
(* TeacherAnalyze: the last seconds of a copy of the data.                   *)

\* update_data: what is kept, counted back from the last frame.
update_data(d) == SelectSeq(d, LAMBDA td : td.age - Last(d).age <= Interval + 1)

Valid(d) == SelectSeq(d, LAMBDA td : td.pt # None)
data_first_valid(d) == Head(Valid(d))
data_last_valid(d) == Last(Valid(d))

\* data_duration: what it returns, and the time between valid points.
Duration(d) == Head(d).age - Last(d).age
data_duration(d) ==
    IF Valid(d) = <<>> THEN 0 ELSE data_first_valid(d).age - data_last_valid(d).age

\* data_vec: the differences of successive valid points, added up.
data_vec(d) ==
    LET v == Valid(d)
    IN  FoldLeftDomain(LAMBDA h, n : IF n = 1 THEN h ELSE h + v[n].pt - v[n - 1].pt, 0, v)

\* data_range: its width.
data_range(d) == LET xs == {td.pt : td \in ToSet(Valid(d))} IN Max(xs) - Min(xs)

-----------------------------------------------------------------------------
(* trytrace.                                                                *)

\* The results a look may have.  Without a valid point the stamp of the last
\* one is not initialised, and may be too old or not.
Results(d) ==
    LET old == Valid(d) # <<>> /\ data_last_valid(d).age > Stop
        other == IF Duration(d) < Interval THEN "NO_ENOUGH_PTS"
                 ELSE IF Len(Valid(d)) < 2 THEN "NO_ENOUGH_VALID_PTS" ELSE "OK"
    IN  IF old THEN {"TOO_OLD"}
        ELSE IF Valid(d) = <<>> THEN {"TOO_OLD", other} ELSE {other}

\* The target stayed in a small range, coming and going.
Settled(d) ==
    /\ data_duration(d) >= Interval
    /\ Scale * data_range(d) < Stable
    /\ data_vec(d) < (data_range(d) * 2) \div 3

\* reset_ptz, add and the post under the mutex.
reset_ptz ==
    IF ptz_ THEN tasks_' = Append(tasks_, Home) /\ sem_' = Posted(sem_)
    ELSE UNCHANGED <<tasks_, sem_>>

\* The place is remembered in info.ToClose.
set_ptz_abs_pos(place) ==
    IF ptz_ THEN goal' = place /\ ToClose' = place ELSE UNCHANGED <<goal, ToClose>>

change_state(s2) == state_' = s2

state_fullview(d, result) ==
    \/ /\ result = "OK" /\ Settled(d)
       /\ set_ptz_abs_pos(data_last_valid(d).pt)
       /\ change_state("TO_CLOSE")
       /\ UNCHANGED <<tasks_, sem_>>
    \/ /\ result = "TOO_OLD"
       /\ reset_ptz
       /\ UNCHANGED <<state_, goal, ToClose>>
    \/ /\ IF result = "OK" THEN ~Settled(d) ELSE result # "TOO_OLD"
       /\ UNCHANGED <<state_, goal, ToClose, tasks_, sem_>>

\* The camera is within three pan steps, less than a column, of its place.
state_toclose(d, result) ==
    /\ change_state(
          IF ~ptz_ THEN "FULLVIEW" ELSE IF cam = ToClose THEN "CLOSEVIEW" ELSE state_)
    /\ UNCHANGED <<goal, ToClose, tasks_, sem_>>

\* A result other than OK leaves the last point as an earlier look computed it.
state_closeview(d, result) ==
    /\ change_state(IF outside' THEN "FULLVIEW" ELSE state_)
    /\ UNCHANGED <<goal, ToClose, tasks_, sem_>>

\* det2tra: the last point is outside the stable frame of the tracking picture.
Outside(d) == Scale * (data_last_valid(d).pt - cam) \notin -(Stable \div 2)..(Stable \div 2)

\* Mutant: the state is left alone unless there is a result.
TryTraceOK ==
    /\ pc = "trace"
    /\ LET d == update_data(datas)
       IN  \E result \in Results(d) :
              /\ outside' = IF result = "OK" THEN Outside(d) ELSE outside
              /\ \/ state_ = "FULLVIEW" /\ state_fullview(d, result)
                 \/ state_ = "TO_CLOSE" /\ result = "OK" /\ state_toclose(d, result)
                 \/ state_ = "CLOSEVIEW" /\ result = "OK" /\ state_closeview(d, result)
                 \/ /\ state_ # "FULLVIEW" /\ result # "OK"
                    /\ UNCHANGED <<state_, goal, ToClose, tasks_, sem_>>
    /\ pc' = "task" /\ datas' = <<>>
    /\ UNCHANGED <<data, quit_, gone, running_state_, ptz_, cam>>

\* Mutant: a look takes the place of a task.
TraceOnly ==
    /\ pc = "trace"
    /\ LET d == update_data(datas)
       IN  \E result \in Results(d) :
              /\ outside' = IF result = "OK" THEN Outside(d) ELSE outside
              /\ \/ state_ = "FULLVIEW" /\ state_fullview(d, result)
                 \/ state_ = "TO_CLOSE" /\ state_toclose(d, result)
                 \/ state_ = "CLOSEVIEW" /\ state_closeview(d, result)
    /\ pc' = "wait" /\ datas' = <<>>
    /\ UNCHANGED <<data, quit_, gone, running_state_, ptz_, cam>>

trytrace ==
    /\ pc = "trace"
    /\ LET d == update_data(datas)
       IN  \E result \in Results(d) :
              /\ outside' = IF result = "OK" THEN Outside(d) ELSE outside
              /\ \/ state_ = "FULLVIEW" /\ state_fullview(d, result)
                 \/ state_ = "TO_CLOSE" /\ state_toclose(d, result)
                 \/ state_ = "CLOSEVIEW" /\ state_closeview(d, result)
    /\ pc' = "task" /\ datas' = <<>>
    /\ UNCHANGED <<data, quit_, gone, running_state_, ptz_, cam>>

-----------------------------------------------------------------------------
(* run.                                                                     *)

Wait ==
    /\ pc = "wait" /\ sem_ > 0
    /\ sem_' = sem_ - 1
    /\ pc' = "look"
    /\ UNCHANGED <<data, tasks_, quit_, gone, running_state_, ptz_, datas, state_, ToClose,
                   outside, camera>>

\* The tests of quit_ and of running_state_, and the copy under the mutex.
Look ==
    /\ pc = "look"
    /\ \/ quit_ /\ pc' = "exit" /\ UNCHANGED datas
       \/ ~quit_ /\ (running_state_ # 0 \/ Len(data) < 2) /\ pc' = "task" /\ UNCHANGED datas
       \/ ~quit_ /\ running_state_ = 0 /\ Len(data) >= 2 /\ pc' = "trace" /\ datas' = data
    /\ UNCHANGED <<data, tasks_, sem_, quit_, gone, running_state_, ptz_, state_, ToClose,
                   outside, camera>>

\* next, and the task's handler.  Then the loop's test of quit_.
DoTask ==
    /\ pc = "task"
    /\ \/ tasks_ = <<>> /\ UNCHANGED <<tasks_, goal>>
       \/ tasks_ # <<>> /\ goal' = Head(tasks_) /\ tasks_' = Tail(tasks_)
    /\ pc' = IF quit_ THEN "exit" ELSE "wait"
    /\ UNCHANGED <<data, sem_, quit_, gone, running_state_, ptz_, datas, state_, ToClose,
                   outside, cam>>

Run == Wait \/ Look \/ trytrace \/ DoTask

\* External: the camera gets to where it was sent.
Turn ==
    /\ cam # goal /\ cam' = goal
    /\ UNCHANGED <<data, tasks_, sem_, quit_, gone, running_state_, ptz_, worker, goal>>

-----------------------------------------------------------------------------
(* The interface, called until the destructor is.                            *)

\* set_camshift_pt: the new point, what is too old removed, and a post.
\* Bound: one frame at most between a copy and the end of the look at it.
set_camshift_pt(pt, gap) ==
    /\ ~quit_
    /\ pc = "trace" => Last(datas).age = 0
    /\ data' = SelectSeq(
          Append([n \in DOMAIN data |-> [data[n] EXCEPT !.age = @ + gap]], [pt |-> pt, age |-> 0]),
          LAMBDA td : td.age <= AnalyzeDuration)
    /\ datas' = [n \in DOMAIN datas |-> [datas[n] EXCEPT !.age = @ + gap]]
    /\ sem_' = Posted(sem_)
    /\ UNCHANGED <<tasks_, quit_, gone, running_state_, ptz_, pc, state_, ToClose, outside,
                   camera>>

\* Mutant: the task is queued without a post.
AddOnly(place) ==
    /\ ~quit_ /\ ptz_ /\ Len(tasks_) < MaxTasks
    /\ tasks_' = Append(tasks_, place)
    /\ UNCHANGED <<data, sem_, quit_, gone, running_state_, ptz_, worker, camera>>

add(place) ==
    /\ ~quit_ /\ ptz_ /\ Len(tasks_) < MaxTasks
    /\ tasks_' = Append(tasks_, place) /\ sem_' = Posted(sem_)
    /\ UNCHANGED <<data, quit_, gone, running_state_, ptz_, worker, camera>>

set_running_state ==
    /\ ~quit_
    /\ running_state_' = 1 - running_state_
    /\ UNCHANGED <<data, tasks_, sem_, quit_, gone, ptz_, worker, camera>>

\* Mutant: no post, as in ~Ptz.
QuitOnly ==
    /\ ~quit_ /\ quit_' = TRUE
    /\ UNCHANGED <<data, tasks_, sem_, gone, running_state_, ptz_, worker, camera>>

\* The destructor: quit_ and the post, between which the worker could only leave
\* by itself, and the join.
Quit ==
    /\ ~quit_ /\ quit_' = TRUE /\ sem_' = Posted(sem_)
    /\ UNCHANGED <<data, tasks_, gone, running_state_, ptz_, worker, camera>>

\* The members go with the object; tasks left in the queue are not freed.
Join ==
    /\ quit_ /\ pc = "exit" /\ ~gone /\ gone' = TRUE
    /\ data' = <<>> /\ tasks_' = <<>> /\ sem_' = 0
    /\ UNCHANGED <<quit_, running_state_, ptz_, worker, camera>>

-----------------------------------------------------------------------------
Frame == \E pt \in Columns \cup {None}, gap \in Gaps : set_camshift_pt(pt, gap)

Next ==
    \/ Run \/ Turn \/ Frame
    \/ add(Elsewhere) \/ set_running_state \/ Quit \/ Join

Spec == Init /\ [][Next]_vars

\* The frame thread delivers while the worker lives, the worker and the camera
\* get on, a destructor that has begun goes on.
FairSpec ==
    Spec /\ WF_vars(Frame) /\ WF_vars(Run) /\ WF_vars(Turn) /\ WF_vars(Join)

-----------------------------------------------------------------------------
(* Properties.                                                             *)

\* There is a wake-up for every task in the queue: the post of add is not used
\* up by a look that leaves the task behind.
HasToken == Len(tasks_) <= sem_ + (IF pc = "wait" THEN 0 ELSE 1)

\* A look at a target that is away asks for a reset and so for another look;
\* it takes a task for each, so the queue is no longer than others make it.
NoPileUp == Len(tasks_) <= MaxTasks + (IF pc = "task" THEN 1 ELSE 0)

\* The state on the way to the close view ends, unless a task has turned the
\* camera elsewhere since it was sent, be it one of the operator's or a reset the
\* worker had queued itself before: the target may be lost on the way.
ReachesClose ==
    state_ = "TO_CLOSE" ~> (state_ # "TO_CLOSE" \/ goal # ToClose \/ running_state_ = 1 \/ quit_)

\* The destructor returns, whatever the worker does when it begins.
DestructorReturns == quit_ ~> gone

\* TeacherRunningImpl.cpp:435: a movement vector smaller than the range says
\* that the target came and went.
Turned(d) ==
    LET v == Valid(d)
    IN  /\ \E n \in 1..(Len(v) - 1) : v[n].pt < v[n + 1].pt
        /\ \E n \in 1..(Len(v) - 1) : v[n].pt > v[n + 1].pt
TurnsBeforeClose ==
    [][state_ = "FULLVIEW" /\ state_' = "TO_CLOSE" => Turned(update_data(datas))]_vars
=============================================================================
