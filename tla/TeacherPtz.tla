----------------------------- MODULE TeacherPtz -----------------------------
(* The teacher's camera of src/tmp: the frame thread that detects the target *)
(* and runs the tracker of TeacherPtz.cpp, the window thread that takes the  *)
(* operator's keys (TeacherRunning.cpp), and the camera's queue and worker   *)
(* (module Ptz).  The flags running_state_ and reseted_ are shared by the    *)
(* first two without a lock.  smooth_ is off.  Time passes by the frame.     *)
EXTENDS Ptz, Integers

CONSTANTS
    Areas,             \* areas_
    AreaLength,        \* area_length_
    Width,             \* calibration_right_edge_ - calibration_left_edge_
    Offsets,           \* where the centre of the target can be seen
    Gaps,              \* the time from a frame to the next
    CloseView,         \* time_to_closeview
    FullView,          \* time_to_fullview_after_no_target
    ResetAfter,        \* time_to_reset_ptz
    None,              \* no target
    MaxKeys, MaxTasks  \* bounds: keys pressed, tasks and posts waiting

ASSUME TrackerAssumption ==
    /\ Areas \in Nat \ {0} /\ Width \in Nat
    /\ AreaLength = Width \div Areas /\ AreaLength > 0
    /\ FullView <= ResetAfter /\ Offsets \subseteq 0..(Width - 1) /\ Gaps \subseteq Nat \ {0}
    /\ 0..(Areas - 1) \subseteq Places
    /\ {"frame", "window"} \subseteq Adders

VARIABLES
    area_, dva, div, begun, cnt, valid_,   \* timeout_chker_; the times saturate
    last_area_index_, stable_, reseted_, running_state_,
    fpc,               \* the frame thread in set_detected_data
    target,            \* what the last frame showed
    turn,              \* turned by every frame, so that one like the last is a step
    failed,            \* an area that does not exist has been asked for
    state_,            \* the mode of TeacherRunning
    kpc, key,          \* the window thread in a key's handler, and the key
    keys,              \* bound: the keys pressed
    disturbed,         \* history: the operator moved the camera last
    late,              \* history: the worker's first reset came after the tracker's
                       \* last request
    raced              \* history: reseted_ set in spite of the operator's mode

chker == <<area_, dva, div, begun, cnt, valid_>>
picture == <<target, turn>>
tracker == <<chker, last_area_index_, stable_, fpc, picture, failed>>
operator == <<state_, kpc, key, keys>>
moves == <<disturbed, late>>
vars == <<queue, tracker, operator, reseted_, running_state_, moves, raced>>

Init ==
    /\ PtzInit
    /\ area_ = -1 /\ dva = 0 /\ div = 0 /\ begun = FALSE /\ cnt = 2 /\ valid_ = FALSE
    /\ last_area_index_ = -1 /\ stable_ = FALSE /\ reseted_ = FALSE
    /\ running_state_ = 0 /\ fpc = "idle" /\ failed = FALSE
    /\ target = None /\ turn = FALSE
    /\ state_ = "RUNNING" /\ kpc = "idle" /\ key = "esc" /\ keys = 0
    /\ disturbed = FALSE /\ late = FALSE /\ raced = FALSE

\* Bound.
Room == Len(tasks_) < MaxTasks /\ sem_ < MaxTasks

-----------------------------------------------------------------------------
(* AreaDuration, one frame later.                                            *)

\* A time after one more gap, kept only as far as it is compared.
Longer(time, gap, limit) ==
    LET t == IF begun THEN time + gap ELSE time
    IN  IF t > limit THEN limit + 1 ELSE t

\* A second frame in a row that disagrees with valid_.
Switches(seen) == seen # valid_ /\ cnt = 1

\* valid_, the two times and the count after a frame; the times of the other
\* state are cleared by the switch.
Stamp(seen, gap) ==
    LET a == IF seen THEN Longer(dva, gap, CloseView) ELSE dva
        d == IF seen THEN div ELSE Longer(div, gap, ResetAfter)
    IN  [valid |-> IF Switches(seen) THEN seen ELSE valid_,
         dva |-> IF Switches(seen) /\ ~seen THEN 0 ELSE a,
         div |-> IF Switches(seen) /\ seen THEN 0 ELSE d,
         cnt |-> IF seen # valid_ /\ ~Switches(seen) THEN cnt - 1 ELSE 2]

-----------------------------------------------------------------------------
(* calc_calibration_area and area_changed.                                  *)

Overlap == AreaLength \div 4

\* Mutant: the right edge is counted from the left one of the same area.
SegmentShort(i) ==
    [left |-> IF i * AreaLength < Overlap THEN 0 ELSE i * AreaLength - Overlap,
     right |-> i * AreaLength + Overlap]

\* The right edge is cut to an absolute position, which is no less than Width.
Segment(i) ==
    [left |-> IF i * AreaLength < Overlap THEN 0 ELSE i * AreaLength - Overlap,
     right |-> IF (i + 1) * AreaLength + Overlap > Width THEN Width
               ELSE (i + 1) * AreaLength + Overlap]

\* The area from an offset; a segment is left towards one of its neighbours.
AreaOf(offset) ==
    IF last_area_index_ = -1 THEN offset \div AreaLength
    ELSE IF offset < Segment(last_area_index_).left THEN last_area_index_ - 1
    ELSE IF offset > Segment(last_area_index_).right THEN last_area_index_ + 1
    ELSE last_area_index_

-----------------------------------------------------------------------------
(* The frame thread: one_image and set_detected_data.                        *)

\* A frame with a target in an area: the camera is sent there if it is another
\* one.
Track(offset, gap) ==
    LET s == Stamp(TRUE, gap)
        index == AreaOf(offset)
        d == IF index # area_ THEN 0 ELSE s.dva
    IN  /\ s.valid
        /\ index < Areas
        /\ valid_' = TRUE /\ div' = s.div /\ cnt' = s.cnt /\ dva' = d /\ area_' = index
        /\ reseted_' = FALSE /\ raced' = FALSE
        /\ last_area_index_' = index
        /\ stable_' = (d > CloseView)
        /\ IF index # last_area_index_
           THEN /\ Push("frame", task_ptz_reset(index))
                /\ fpc' = "post" /\ disturbed' = FALSE /\ late' = FALSE
                /\ UNCHANGED <<sem_, quit_, home, cam, pc, task>>
           ELSE UNCHANGED <<queue, fpc, moves>>
        /\ UNCHANGED failed

\* There is no such area: the assert of area_changed fails, or, when the target
\* has walked out of the last one, area_hori_ and segments_ are read past their
\* end.  Nothing is said of what follows.
Abort(offset, gap) ==
    /\ Stamp(TRUE, gap).valid
    /\ AreaOf(offset) >= Areas
    /\ failed' = TRUE /\ reseted_' = FALSE /\ raced' = FALSE
    /\ UNCHANGED <<queue, chker, last_area_index_, stable_, fpc, moves>>

\* A single frame without a target while there is one.
Ride(gap) ==
    LET s == Stamp(FALSE, gap)
    IN  /\ s.valid
        /\ valid_' = s.valid /\ dva' = s.dva /\ div' = s.div /\ cnt' = s.cnt
        /\ reseted_' = FALSE /\ raced' = FALSE
        /\ UNCHANGED <<queue, area_, last_area_index_, stable_, fpc, failed, moves>>

\* A frame while there is no target, and the test of running_state_.
Lost(seen, gap) ==
    LET s == Stamp(seen, gap)
    IN  /\ ~s.valid
        /\ valid_' = s.valid /\ dva' = s.dva /\ div' = s.div /\ cnt' = s.cnt
        /\ stable_' = (stable_ /\ s.div <= FullView /\ s.div <= ResetAfter)
        /\ fpc' = IF s.div > ResetAfter /\ running_state_ = 0 THEN "check" ELSE fpc
        /\ UNCHANGED <<queue, area_, last_area_index_, reseted_, failed, moves, raced>>

Frame(data, gap) ==
    /\ fpc = "idle" /\ ~failed /\ ~quit_
    /\ Room
    /\ target' = data /\ turn' = ~turn /\ begun' = TRUE
    /\ \/ data # None /\ (Track(data, gap) \/ Abort(data, gap))
       \/ data = None /\ Ride(gap)
       \/ Lost(data # None, gap)
    /\ UNCHANGED <<operator, running_state_>>

\* if (!reseted_) reseted_ = true;
Check ==
    /\ fpc = "check"
    /\ fpc' = IF reseted_ THEN "idle" ELSE "mark"
    /\ UNCHANGED <<queue, chker, last_area_index_, stable_, picture, failed, operator>>
    /\ UNCHANGED <<reseted_, running_state_, moves, raced>>

Mark ==
    /\ fpc = "mark"
    /\ reseted_' = TRUE /\ raced' = (running_state_ # 0)
    /\ fpc' = "reset"
    /\ UNCHANGED <<queue, chker, last_area_index_, stable_, picture, failed, operator>>
    /\ UNCHANGED <<running_state_, moves>>

\* reset_ptz() and last_area_index_ = -1, which no other thread reads.
Reset ==
    /\ fpc = "reset"
    /\ Push("frame", task_ptz_reset(home))
    /\ last_area_index_' = -1 /\ disturbed' = FALSE /\ late' = FALSE
    /\ fpc' = "post"
    /\ UNCHANGED <<sem_, quit_, home, cam, pc, task, chker, stable_, picture, failed>>
    /\ UNCHANGED <<operator, reseted_, running_state_, raced>>

FramePost ==
    /\ fpc = "post" /\ Post("frame")
    /\ fpc' = "idle"
    /\ UNCHANGED <<chker, last_area_index_, stable_, picture, failed, operator>>
    /\ UNCHANGED <<reseted_, running_state_, moves, raced>>

FrameThread == (\E d \in Offsets \cup {None}, g \in Gaps : Frame(d, g))
               \/ Check \/ Mark \/ Reset \/ FramePost

-----------------------------------------------------------------------------
(* The window thread: the keys that concern the camera.                     *)

Press(k) ==
    /\ kpc = "idle" /\ ~quit_ /\ keys < MaxKeys
    /\ Room
    /\ key' = k /\ keys' = keys + 1

\* Mutant: reseted_ is left alone.
set_running_state_only ==
    /\ kpc = "flag"
    /\ kpc' = "act"
    /\ UNCHANGED <<queue, tracker, state_, key, keys, reseted_, running_state_>>
    /\ UNCHANGED <<moves, raced>>

\* The second assignment of set_running_state(1).
ClearReseted ==
    /\ kpc = "flag"
    /\ reseted_' = FALSE /\ raced' = FALSE
    /\ kpc' = "act"
    /\ UNCHANGED <<queue, tracker, state_, key, keys, running_state_, moves>>

\* 'p', 'l' and 'r' while running: set_running_state(1), whose first assignment
\* this is.  ('l' and 'r' call it twice, with nothing in between that matters.)
Enter(k) ==
    /\ state_ = "RUNNING" /\ k \in {"p", "l", "r"} /\ Press(k)
    /\ running_state_' = 1
    /\ kpc' = "flag"
    /\ UNCHANGED <<queue, tracker, state_, reseted_, moves, raced>>

\* Then the home position is asked for, or the camera is turned at once.
Act ==
    /\ kpc = "act"
    /\ disturbed' = TRUE /\ UNCHANGED late
    /\ \/ /\ key = "p" /\ state_' = "PTZINITING"
          /\ Push("window", task_ptz_reset(home)) /\ kpc' = "post"
          /\ UNCHANGED <<sem_, quit_, home, cam, pc, task>>
       \/ /\ key \in {"l", "r"}
          /\ state_' = IF key = "l" THEN "PTZINIT_LEFT" ELSE "PTZINIT_RIGHT"
          /\ cam' = Elsewhere /\ kpc' = "idle"
          /\ UNCHANGED <<tasks_, sem_, quit_, home, pc, task, apc>>
    /\ UNCHANGED <<tracker, key, keys, reseted_, running_state_, raced>>

\* An arrow, '+', '-' or a click: the operator's own task.
Move ==
    /\ state_ # "RUNNING" /\ Press("move")
    /\ Push("window", task_ptz_move) /\ kpc' = "post" /\ disturbed' = TRUE
    /\ UNCHANGED <<sem_, quit_, home, cam, pc, task>>
    /\ UNCHANGED <<tracker, state_, reseted_, running_state_, late, raced>>

\* Escape, and Enter, which keeps the position the camera has now as the home
\* position (for an edge it is only written to the file).  Escape from an edge ends
\* the mode before set_running_state(0), the others after it.
Leave(k) ==
    /\ state_ # "RUNNING" /\ k \in {"esc", "enter"} /\ Press(k)
    /\ IF k = "enter" /\ state_ = "PTZINITING"
       THEN home' = cam /\ disturbed' = TRUE
       ELSE UNCHANGED <<home, disturbed>>
    /\ \/ /\ k = "esc" /\ state_ # "PTZINITING"
          /\ state_' = "RUNNING" /\ kpc' = "unflag"
          /\ UNCHANGED running_state_
       \/ /\ ~(k = "esc" /\ state_ # "PTZINITING")
          /\ running_state_' = 0 /\ kpc' = "leave"
          /\ UNCHANGED state_
    /\ UNCHANGED <<tasks_, sem_, quit_, cam, pc, task, apc>>
    /\ UNCHANGED <<tracker, reseted_, late, raced>>

Left ==
    /\ kpc' = "idle"
    /\ \/ kpc = "leave" /\ state_' = "RUNNING" /\ UNCHANGED running_state_
       \/ kpc = "unflag" /\ running_state_' = 0 /\ UNCHANGED state_
    /\ UNCHANGED <<queue, tracker, key, keys, reseted_, moves, raced>>

WindowPost ==
    /\ kpc = "post" /\ Post("window")
    /\ kpc' = "idle"
    /\ UNCHANGED <<tracker, state_, key, keys, reseted_, running_state_, moves, raced>>

WindowThread == (\E k \in {"p", "l", "r"} : Enter(k)) \/ ClearReseted \/ Act \/ Move
                \/ (\E k \in {"esc", "enter"} : Leave(k)) \/ Left \/ WindowPost

-----------------------------------------------------------------------------
\* The worker's first reset is late when the tracker has asked for a place.
WorkerThread ==
    /\ Worker
    /\ late' = (late \/ (pc = "start" /\ last_area_index_ # -1))
    /\ UNCHANGED <<tracker, operator, reseted_, running_state_, disturbed, raced>>

\* ~TeacherPtz, when the frames have ended and the window thread has been joined.
Close ==
    /\ Quit /\ fpc = "idle" /\ kpc = "idle" /\ ~failed
    /\ UNCHANGED <<tracker, operator, reseted_, running_state_, moves, raced>>

Next == FrameThread \/ WindowThread \/ WorkerThread \/ Close

Spec == Init /\ [][Next]_vars

\* Frames keep coming while the camera is in use, be they all the same, and the
\* threads run.
FairSpec == Spec /\ WF_vars(FrameThread) /\ WF_vars(WorkerThread)
                 /\ WF_vars(ClearReseted \/ Act \/ Left \/ WindowPost)

-----------------------------------------------------------------------------
(* Properties.                                                             *)

\* The area is always one of the areas; one past them is asked for only when the
\* target is in the strip that the areas leave when they do not divide the width,
\* whether it was first seen there or has walked there from the last one.
AreaInRange ==
    /\ last_area_index_ \in -1..(Areas - 1)
    /\ failed => target >= Areas * AreaLength

\* When everything is at rest the camera points where the tracker believes it
\* does, or at home where the worker's first reset came after the tracker's last
\* request, unless it was the operator who moved it last.
Believed == IF last_area_index_ = -1 \/ late THEN home ELSE last_area_index_
CameraFollows ==
    AtRest /\ fpc = "idle" /\ kpc = "idle" /\ ~disturbed => cam = Believed

\* The promise of TracePolicy.h: without a target the camera goes back to its
\* home position, whatever the operator did, unless reseted_ was set after the
\* operator's mode had cleared it; and a target that stays is followed into an
\* area that holds it, to which the camera is turned but for a late first reset
\* and what the operator did since.
Quiet(d) == target = d /\ state_ = "RUNNING" /\ kpc = "idle" /\ ~quit_ /\ ~failed
InSegment(d) == last_area_index_ # -1 /\ d >= Segment(last_area_index_).left
                                      /\ d <= Segment(last_area_index_).right
Settled(d) == IF d = None THEN cam = home
              ELSE InSegment(d) /\ (cam = Believed \/ disturbed)
Settles == \A d \in Offsets \cup {None} : <>[](Quiet(d) /\ ~raced) => <>[]Settled(d)

\* The same promise without the exception.
HomeWhenLost == <>[]Quiet(None) => <>[](cam = home)
=============================================================================
