-------------------------- MODULE TeacherPtz_proofs --------------------------
(* Proofs about the teacher's camera: the area the tracker asks for exists, and *)
(* a camera at rest points where the tracker believes it does.  For any areas,   *)
(* durations, places of the target and keys.                                 *)
EXTENDS TeacherPtz, TLAPS

-----------------------------------------------------------------------------
(* The areas.                                                               *)

\* Quotients of the configuration and of an offset.
LEMMA Quotients ==
    ASSUME TrackerAssumption, NEW offset \in 0..(Width - 1)
    PROVE  /\ Areas \in Nat \ {0} /\ AreaLength \in Nat \ {0} /\ Width \in Int /\ Overlap \in Nat
           /\ offset \div AreaLength \in Nat
           /\ offset \div AreaLength >= Areas => offset >= Areas * AreaLength
<1>1. Areas \in Nat \ {0} /\ Width \in Int /\ AreaLength \in Nat \ {0}
  BY DEF TrackerAssumption
<1>2. Overlap \in Nat
  BY <1>1 DEF Overlap
<1>3. offset \in Int /\ offset >= 0
  BY <1>1
<1>4. offset \div AreaLength \in Int
  BY <1>1, <1>3
<1>5. (offset \div AreaLength) * AreaLength <= offset
  BY <1>1, <1>3
<1>6. offset < (offset \div AreaLength + 1) * AreaLength
  BY <1>1, <1>3
<1>7. offset \div AreaLength >= 0
  <2> SUFFICES ASSUME NEW q \in Int, offset < (q + 1) * AreaLength, q < 0 PROVE FALSE
    BY <1>4, <1>6
  <2>1. (q + 1) * AreaLength <= 0
    BY <1>1
  <2> QED BY <1>1, <1>3, <2>1
<1>8. offset \div AreaLength >= Areas => offset >= Areas * AreaLength
  <2> SUFFICES ASSUME NEW q \in Int, q * AreaLength <= offset, q >= Areas
               PROVE  offset >= Areas * AreaLength
    BY <1>4, <1>5
  <2>1. q * AreaLength >= Areas * AreaLength
    BY <1>1
  <2>2. q * AreaLength \in Int /\ Areas * AreaLength \in Int
    BY <1>1
  <2> QED BY <1>3, <2>1, <2>2
<1> QED BY <1>1, <1>2, <1>4, <1>7, <1>8

\* From an area that exists the tracker asks for one that does, unless the target
\* is in the strip beyond the last.
LEMMA AreaExists ==
    ASSUME TrackerAssumption, NEW offset \in Offsets, last_area_index_ \in -1..(Areas - 1)
    PROVE  /\ AreaOf(offset) \in Nat
           /\ AreaOf(offset) >= Areas => offset >= Areas * AreaLength
<1> DEFINE i == last_area_index_
<1>1. offset \in 0..(Width - 1)
  BY DEF TrackerAssumption
<1>2. Areas \in Nat \ {0} /\ AreaLength \in Nat \ {0} /\ Width \in Int /\ Overlap \in Nat
  BY <1>1, Quotients
<1>3. CASE i = -1
  <2>1. AreaOf(offset) = offset \div AreaLength
    BY <1>3 DEF AreaOf
  <2> QED BY <1>1, <2>1, Quotients
<1>4. CASE i \in 0..(Areas - 1) /\ offset < Segment(i).left
  <2>1. i # 0
    BY <1>1, <1>2, <1>4 DEF Segment
  <2> QED BY <1>2, <1>4, <2>1 DEF AreaOf
<1>5. CASE i \in 0..(Areas - 1) /\ ~(offset < Segment(i).left) /\ offset > Segment(i).right
  <2>1. AreaOf(offset) = i + 1
    BY <1>2, <1>5 DEF AreaOf
  <2>2. offset > (i + 1) * AreaLength + Overlap
    BY <1>1, <1>2, <1>5 DEF Segment
  <2>3. (i + 1) * AreaLength \in Int
    BY <1>2, <1>5
  <2>4. i + 1 >= Areas => i + 1 = Areas
    BY <1>2, <1>5
  <2> QED BY <1>1, <1>2, <1>5, <2>1, <2>2, <2>3, <2>4
<1>6. CASE i \in 0..(Areas - 1) /\ ~(offset < Segment(i).left) /\ ~(offset > Segment(i).right)
  BY <1>2, <1>6 DEF AreaOf
<1> QED BY <1>2, <1>3, <1>4, <1>5, <1>6

-----------------------------------------------------------------------------
(* The queue and the camera.                                                 *)

CameraTypes ==
    /\ tasks_ \in Seq(Places) /\ sem_ \in Nat
    /\ {home, cam, task} \subseteq Places
    /\ pc \in {"start", "startPost", "test", "wait", "next", "exec", "exit"}
    /\ apc \in [Adders -> {"out", "post"}]

\* Where the camera will be when the worker has done what is in the queue.
Heading ==
    IF tasks_ # <<>> THEN tasks_[Len(tasks_)]
    ELSE IF pc = "start" THEN home
    ELSE IF pc = "exec" THEN task ELSE cam
Heads == ~disturbed => Heading = Believed

\* Nobody sleeps on a queue that holds a task: its post is there, or on its way,
\* or the worker is awake and will look at the queue before it sleeps.
Woken ==
    tasks_ # <<>> =>
        \/ sem_ > 0 \/ pc \in {"start", "startPost", "next", "exec"}
        \/ \E th \in Adders : apc[th] = "post"

PtzInv == CameraTypes /\ AreaInRange /\ Heads /\ Woken

\* What the parts of add, and a step that leaves the queue alone, do to it.
LEMMA Pushed ==
    ASSUME CameraTypes, NEW th \in Adders, NEW place \in Places, Push(th, place),
           UNCHANGED <<sem_, home, cam, pc, task>>
    PROVE  CameraTypes' /\ Woken' /\ Heading' = place
<1>1. apc' = [apc EXCEPT ![th] = "post"] /\ tasks_' = Append(tasks_, place)
  BY DEF Push
<1>2. /\ tasks_' \in Seq(Places) /\ Len(tasks_') = Len(tasks_) + 1
      /\ tasks_'[Len(tasks_')] = place /\ tasks_' # <<>>
  BY <1>1 DEF CameraTypes
<1>3. CameraTypes'
  BY <1>1, <1>2 DEF CameraTypes
<1>4. apc'[th] = "post"
  BY <1>1 DEF CameraTypes
<1>5. Woken'
  BY <1>4 DEF Woken
<1> QED BY <1>2, <1>3, <1>5 DEF Heading

LEMMA Posted ==
    ASSUME CameraTypes, Woken, NEW th \in Adders, Post(th)
    PROVE  CameraTypes' /\ Woken' /\ Heading' = Heading /\ home' = home
<1>1. sem_' = sem_ + 1 /\ sem_' > 0 /\ sem_' \in Nat /\ apc' = [apc EXCEPT ![th] = "out"]
      /\ UNCHANGED <<tasks_, home, cam, pc, task>>
  BY DEF Post, CameraTypes
<1> QED BY <1>1 DEF CameraTypes, Woken, Heading

LEMMA QueueLeft ==
    ASSUME CameraTypes, Woken, UNCHANGED <<tasks_, sem_, home, cam, pc, task, apc>>
    PROVE  CameraTypes' /\ Woken' /\ Heading' = Heading
BY DEF CameraTypes, Woken, Heading

\* The tracker keeps an area that exists, and aborts only for the strip.
LEMMA FrameStep ==
    ASSUME TrackerAssumption, PlacesAssumption, PtzInv,
           NEW data \in Offsets \cup {None}, NEW gap \in Gaps, Frame(data, gap)
    PROVE  PtzInv'
<1> USE DEF PtzInv
<1>1. target' = data /\ ~failed
  BY DEF Frame
<1>2. last_area_index_ \in -1..(Areas - 1) /\ Areas \in Nat \ {0}
  BY DEF AreaInRange, TrackerAssumption
<1>3. ASSUME data \in Offsets, Track(data, gap) PROVE PtzInv'
  <2> DEFINE index == AreaOf(data)
  <2>1. /\ index \in Nat /\ index < Areas
    BY <1>2, <1>3, AreaExists DEF Track
  <2>2. index \in 0..(Areas - 1) /\ index \in Places
    BY <1>2, <2>1 DEF TrackerAssumption
  <2>3. last_area_index_' = index /\ failed' = failed
    BY <1>3 DEF Track
  <2> HIDE DEF index
  <2>4. AreaInRange'
    BY <1>1, <1>2, <2>2, <2>3 DEF AreaInRange
  <2>6. CASE index # last_area_index_
    <3>1. Push("frame", index) /\ UNCHANGED <<sem_, home, cam, pc, task>>
      BY <1>3, <2>6 DEF Track, task_ptz_reset, index
    <3>2. CameraTypes' /\ Woken' /\ Heading' = index
      BY <2>2, <3>1, Pushed DEF TrackerAssumption
    <3>3. ~late'
      BY <1>3, <2>6 DEF Track, index
    <3> QED BY <2>2, <2>3, <2>4, <3>2, <3>3 DEF Heads, Believed
  <2>7. CASE index = last_area_index_
    <3>1. UNCHANGED <<tasks_, sem_, home, cam, pc, task, apc>> /\ UNCHANGED moves
      BY <1>3, <2>7 DEF Track, queue, index
    <3>2. CameraTypes' /\ Woken' /\ Heading' = Heading
      BY <3>1, QueueLeft
    <3> QED BY <2>3, <2>4, <2>7, <3>1, <3>2 DEF Heads, Believed, moves
  <2> QED BY <2>6, <2>7
<1>4. ASSUME UNCHANGED <<tasks_, sem_, home, cam, pc, task, apc, last_area_index_, moves>>,
             AreaInRange'
      PROVE  PtzInv'
  <2>1. CameraTypes' /\ Woken' /\ Heading' = Heading
    BY <1>4, QueueLeft
  <2> QED BY <1>4, <2>1 DEF Heads, Believed, moves
<1>5. ASSUME data \in Offsets, Abort(data, gap) PROVE PtzInv'
  <2>1. data >= Areas * AreaLength
    BY <1>2, <1>5, AreaExists DEF Abort
  <2> QED BY <1>1, <1>2, <1>4, <1>5, <2>1 DEF Abort, AreaInRange, queue
<1>6. CASE Ride(gap)
  BY <1>1, <1>2, <1>4, <1>6 DEF Ride, AreaInRange, queue
<1>7. ASSUME NEW seen, Lost(seen, gap) PROVE PtzInv'
  BY <1>1, <1>2, <1>4, <1>7 DEF Lost, AreaInRange, queue
<1>8. data # None => data \in Offsets
  OBVIOUS
<1> QED BY <1>3, <1>5, <1>6, <1>7, <1>8 DEF Frame

\* The worker takes the tasks in order, so the last one stays where the camera is
\* heading.
LEMMA WorkerStep ==
    ASSUME PtzInv, WorkerThread, PlacesAssumption
    PROVE  PtzInv'
<1> USE DEF PtzInv
<1>1. /\ UNCHANGED <<last_area_index_, target, failed>>
      /\ late' = (late \/ (pc = "start" /\ last_area_index_ # -1)) /\ disturbed' = disturbed
  BY DEF WorkerThread, tracker, picture
<1>2. AreaInRange'
  BY <1>1 DEF AreaInRange
<1>3. CASE Start
  <2>1. /\ pc = "start" /\ tasks_' = Append(tasks_, home) /\ pc' = "startPost"
        /\ UNCHANGED <<sem_, home, cam, task, apc>>
    BY <1>3 DEF Start, task_ptz_reset
  <2>2. /\ tasks_' \in Seq(Places) /\ tasks_' # <<>> /\ tasks_'[Len(tasks_')] = home
    BY <2>1 DEF CameraTypes
  <2>3. CameraTypes' /\ Woken' /\ Heading' = home
    BY <2>1, <2>2 DEF CameraTypes, Woken, Heading
  <2>4. Believed' = home
    BY <1>1, <2>1 DEF Believed
  <2> QED BY <1>2, <2>3, <2>4 DEF Heads
<1>4. ASSUME CameraTypes', Woken', Heading' = Heading, home' = home, pc # "start"
      PROVE  PtzInv'
  BY <1>1, <1>2, <1>4 DEF Heads, Believed
<1>5. CASE StartPost
  BY <1>4, <1>5 DEF StartPost, CameraTypes, Woken, Heading
<1>6. CASE TestQuit
  BY <1>4, <1>6 DEF TestQuit, CameraTypes, Woken, Heading
<1>7. CASE Wait
  BY <1>4, <1>7 DEF Wait, CameraTypes, Woken, Heading
<1>8. CASE next_task
  <2>1. pc = "next" /\ UNCHANGED <<sem_, home, cam, apc>>
    BY <1>8 DEF next_task
  <2>2. CASE tasks_ = <<>> /\ pc' = "test" /\ UNCHANGED <<tasks_, task>>
    BY <1>4, <2>1, <2>2 DEF CameraTypes, Woken, Heading
  <2>3. CASE tasks_ # <<>> /\ task' = Head(tasks_) /\ tasks_' = Tail(tasks_) /\ pc' = "exec"
    <3>1. /\ Len(tasks_) \in Nat /\ Len(tasks_) > 0 /\ task' = tasks_[1] /\ task' \in Places
          /\ tasks_' \in Seq(Places) /\ Len(tasks_') = Len(tasks_) - 1
      BY <2>3 DEF CameraTypes
    <3>2. CASE Len(tasks_) = 1
      <4>1. tasks_' = <<>>
        BY <3>1, <3>2
      <4> QED BY <1>4, <2>1, <2>3, <3>1, <3>2, <4>1 DEF CameraTypes, Woken, Heading
    <3>3. CASE Len(tasks_) > 1
      <4>1. Len(tasks_') \in 1..Len(tasks_') /\ tasks_' # <<>>
        BY <3>1, <3>3
      <4>2. \A j \in 1..Len(tasks_') : Tail(tasks_)[j] = tasks_[j + 1]
        BY <2>3, <3>1 DEF CameraTypes
      <4>3. tasks_'[Len(tasks_')] = tasks_[Len(tasks_)]
        BY <2>3, <3>1, <4>1, <4>2
      <4> QED BY <1>4, <2>1, <2>3, <3>1, <4>1, <4>3 DEF CameraTypes, Woken, Heading
    <3> QED BY <3>1, <3>2, <3>3
  <2> QED BY <1>8, <2>2, <2>3 DEF next_task
<1>9. CASE exec_task
  BY <1>4, <1>9 DEF exec_task, CameraTypes, Woken, Heading
<1> QED BY <1>3, <1>5, <1>6, <1>7, <1>8, <1>9 DEF WorkerThread, Worker

LEMMA OtherSteps ==
    ASSUME TrackerAssumption, PlacesAssumption, PtzInv,
           Check \/ Mark \/ Reset \/ FramePost \/ WindowThread \/ Close \/ UNCHANGED vars
    PROVE  PtzInv'
<1> USE DEF PtzInv
<1>1. {"frame", "window"} \subseteq Adders /\ {Home, Elsewhere} \subseteq Places
  BY DEF TrackerAssumption, PlacesAssumption
\* A step that leaves the area, the queue and the camera alone.
<1>2. ASSUME UNCHANGED <<tasks_, sem_, cam, pc, task, apc, last_area_index_, target, failed>>,
             home' \in Places, disturbed' \/ UNCHANGED <<home, moves>>
      PROVE  PtzInv'
  <2>1. CameraTypes' /\ Woken' /\ AreaInRange'
    BY <1>2 DEF CameraTypes, Woken, AreaInRange
  <2>2. Heads'
    BY <1>2 DEF Heads, Heading, Believed, moves
  <2> QED BY <2>1, <2>2
<1>3. home \in Places /\ cam \in Places
  BY DEF CameraTypes
<1>4. CASE Check
  BY <1>2, <1>3, <1>4 DEF Check, queue, picture
<1>5. CASE Mark
  BY <1>2, <1>3, <1>5 DEF Mark, queue, picture
<1>6. CASE Reset
  <2>1. /\ Push("frame", home) /\ UNCHANGED <<sem_, home, cam, pc, task>>
        /\ last_area_index_' = -1 /\ UNCHANGED <<target, failed>>
    BY <1>6 DEF Reset, task_ptz_reset, picture
  <2>2. CameraTypes' /\ Woken' /\ Heading' = home
    BY <1>1, <1>3, <2>1, Pushed
  <2>3. Areas \in Nat \ {0}
    BY DEF TrackerAssumption
  <2> QED BY <2>1, <2>2, <2>3 DEF AreaInRange, Heads, Believed
<1>7. ASSUME NEW th \in Adders, Post(th), UNCHANGED <<last_area_index_, target, failed, moves>>
      PROVE  PtzInv'
  <2>1. CameraTypes' /\ Woken' /\ Heading' = Heading /\ home' = home
    BY <1>7, Posted
  <2> QED BY <1>7, <2>1 DEF AreaInRange, Heads, Believed, moves
<1>8. CASE FramePost
  BY <1>1, <1>7, <1>8 DEF FramePost, picture
<1>9. CASE WindowPost
  BY <1>1, <1>7, <1>9 DEF WindowPost, tracker, picture
<1>10. ASSUME NEW place \in Places, Push("window", place), disturbed',
              UNCHANGED <<sem_, home, cam, pc, task, last_area_index_, target, failed>>
       PROVE  PtzInv'
  <2>1. CameraTypes' /\ Woken'
    BY <1>1, <1>10, Pushed
  <2> QED BY <1>10, <2>1 DEF AreaInRange, Heads
<1>11. CASE Act
  <2>1. CASE key = "p"
    BY <1>3, <1>10, <1>11, <2>1 DEF Act, tracker, picture, task_ptz_reset
  <2>2. CASE key # "p"
    <3>1. /\ cam' = Elsewhere /\ disturbed'
          /\ UNCHANGED <<tasks_, sem_, home, pc, task, apc, last_area_index_, target, failed>>
      BY <1>11, <2>2 DEF Act, tracker, picture
    <3> QED BY <1>1, <3>1 DEF CameraTypes, Woken, AreaInRange, Heads
  <2> QED BY <2>1, <2>2
<1>12. CASE Move
  BY <1>1, <1>10, <1>12 DEF Move, tracker, picture, task_ptz_move
<1>13. ASSUME NEW k \in {"esc", "enter"}, Leave(k) PROVE PtzInv'
  BY <1>2, <1>3, <1>13 DEF Leave, tracker, picture, moves
<1>14. CASE ClearReseted \/ Left \/ (\E k \in {"p", "l", "r"} : Enter(k))
  BY <1>2, <1>3, <1>14 DEF ClearReseted, Left, Enter, queue, tracker, picture
<1>15. CASE Close
  BY <1>2, <1>3, <1>15 DEF Close, Quit, tracker, picture
<1>16. CASE UNCHANGED vars
  BY <1>2, <1>3, <1>16 DEF vars, queue, tracker, picture
<1> QED BY <1>4, <1>5, <1>6, <1>8, <1>9, <1>11, <1>12, <1>13, <1>14, <1>15, <1>16 DEF WindowThread

LEMMA PtzInvariant == Spec => []PtzInv
<1>1. Init => PtzInv
  <2> SUFFICES ASSUME Init PROVE PtzInv
    OBVIOUS
  <2>1. CameraTypes /\ Woken
    BY PlacesAssumption DEF Init, PtzInit, CameraTypes, Woken
  <2>2. AreaInRange
    BY TrackerAssumption DEF Init, AreaInRange, TrackerAssumption
  <2>3. Heads
    BY DEF Init, PtzInit, Heads, Heading, Believed
  <2> QED BY <2>1, <2>2, <2>3 DEF PtzInv
<1>2. PtzInv /\ [Next]_vars => PtzInv'
  <2> SUFFICES ASSUME PtzInv, [Next]_vars PROVE PtzInv'
    OBVIOUS
  <2>1. ASSUME NEW d \in Offsets \cup {None}, NEW g \in Gaps, Frame(d, g) PROVE PtzInv'
    BY <2>1, FrameStep, TrackerAssumption, PlacesAssumption
  <2>2. CASE WorkerThread
    BY <2>2, WorkerStep, PlacesAssumption
  <2>3. CASE Check \/ Mark \/ Reset \/ FramePost \/ WindowThread \/ Close \/ UNCHANGED vars
    BY <2>3, OtherSteps, TrackerAssumption, PlacesAssumption
  <2> QED BY <2>1, <2>2, <2>3 DEF Next, FrameThread
<1> QED BY <1>1, <1>2, PTL DEF Spec

\* The area the tracker turns to exists, however the target walks; one past the
\* end is asked for only in the strip (area_changed of TeacherPtz.cpp).
THEOREM AreasExist == Spec => []AreaInRange
<1>1. PtzInv => AreaInRange
  BY DEF PtzInv
<1> QED BY <1>1, PtzInvariant, PTL

\* The camera at rest is where the tracker believes it to be, or at home if the
\* worker's first reset (Ptz.cpp) came after the tracker's last request, unless the
\* operator moved it last: tasks are done in the order of the requests and none is
\* lost (Ptz.cpp and set_detected_data).
THEOREM CameraIsWhereBelieved == Spec => []CameraFollows
<1>1. PtzInv => CameraFollows
  BY DEF PtzInv, Heads, Heading, CameraFollows, AtRest
<1> QED BY <1>1, PtzInvariant, PTL

\* The worker never sleeps on a task: add posts after it has linked (Ptz::add and
\* Ptz::run).
THEOREM NeverAsleepOnATask ==
    Spec => [](pc = "wait" /\ sem_ = 0 /\ (\A th \in Adders : apc[th] = "out") => tasks_ = <<>>)
<1>1. PtzInv =>
         (pc = "wait" /\ sem_ = 0 /\ (\A th \in Adders : apc[th] = "out") => tasks_ = <<>>)
  BY DEF PtzInv, Woken
<1> QED BY <1>1, PtzInvariant, PTL
=============================================================================
