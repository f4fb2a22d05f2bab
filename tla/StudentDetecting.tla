-------------------------- MODULE StudentDetecting --------------------------
(* StudentDetecting.cpp: who stands up and who sits down in the students'     *)
(* picture, from the vertical movement between successive frames.  A picture  *)
(* is a row of cells, each larger than the specks that opening and closing    *)
(* remove, all at one distance from the camera; the movement of a cell is     *)
(* what calcOpticalFlowFarneback makes of two frames, negative upwards.       *)
EXTENDS Integers, FiniteSets, FiniteSetsExt

CONSTANTS
    Cells,         \* 0 to some last cell
    Movements,     \* what a cell's movement can be
    Fast,          \* get_real_up_speed and get_real_down_speed, without their signs
    Body           \* get_real_up_area, in cells

ASSUME StudentAssumption ==
    Cells \subseteq Nat /\ Movements \subseteq Int /\ Fast \in Nat \ {0} /\ Body \in Nat \ {0}

VARIABLES
    pre_gray,      \* there is a frame before
    pre_yflow,     \* its movement; Still while there is none, where the code has an empty matrix
    pre_up_rects,  \* where it moved up fast
    actions,       \* what one_frame returned
    moved          \* history: the movement of this frame and of the one before

studentVars == <<pre_gray, pre_yflow, pre_up_rects, actions, moved>>

Still == [c \in Cells |-> 0]
StudentInit ==
    /\ pre_gray = FALSE /\ pre_yflow = Still /\ pre_up_rects = {} /\ actions = {}
    /\ moved = <<Still, Still>>

\* boundingRect of every contour: the runs of a set of cells.
Rects(s) ==
    {r \in {a..b : a \in s, b \in s} : /\ r # {} /\ r \subseteq s
                                       /\ Min(r) - 1 \notin s /\ Max(r) + 1 \notin s}

\* Where it moves up fast within what moves up at all, large enough for a body.
UpRects(yflow) ==
    UNION {{r \in Rects({c \in r0 : yflow[c] <= -Fast}) : Cardinality(r) >= Body} :
               r0 \in Rects({c \in Cells : yflow[c] <= -1})}

\* Within one distance the second threshold of what moves down is below the
\* first, get_real_down_speed being negative.
DownRects(yflow) ==
    UNION {{r \in Rects({c \in r0 : yflow[c] > -Fast}) : Cardinality(r) >= Body} :
               r0 \in Rects({c \in Cells : yflow[c] > 1})}

\* The parts of r that moved up fast in this frame and the last together.
Risen(r, yflow) ==
    {s \in Rects({c \in r : pre_yflow[c] + yflow[c] <= -2 * Fast}) : 10 * Cardinality(s) > 2 * Body}

\* A position is counted from the corner of the region the contour was found in.
StandUps(yflow) ==
    UNION {{[action |-> "STANDUP", pos |-> {c - Min(r) : c \in s}] : s \in Risen(r, yflow)} :
               r \in {q \in {r1 \cap r2 : r1 \in UpRects(yflow), r2 \in pre_up_rects} :
                          10 * Cardinality(q) > 3 * Body}}
SitDowns(yflow) == {[action |-> "SITDOWN", pos |-> r] : r \in DownRects(yflow)}

\* Mutant: the regions of older frames are kept.
KeepRects(rects) == pre_up_rects' = pre_up_rects \cup rects

\* The last of the three swaps.
SwapRects(rects) == pre_up_rects' = rects

\* The first frame has no movement, and an empty one is what it leaves behind.
FirstFrame ==
    /\ ~pre_gray /\ pre_gray' = TRUE
    /\ actions' = {} /\ SwapRects({})
    /\ UNCHANGED <<pre_yflow, moved>>

NextFrame(yflow) ==
    /\ pre_gray
    /\ actions' = StandUps(yflow) \cup SitDowns(yflow)
    /\ pre_yflow' = yflow /\ SwapRects(UpRects(yflow))
    /\ moved' = <<yflow, moved[1]>>
    /\ UNCHANGED pre_gray

one_frame == FirstFrame \/ \E yflow \in [Cells -> Movements] : NextFrame(yflow)

StudentSpec == StudentInit /\ [][one_frame]_studentVars

-----------------------------------------------------------------------------
(* Property.                                                               *)

\* Somebody is said to stand up only if some cell moved up fast in two successive
\* frames: a single jerk, however wide and fast, is not enough, and what an older
\* frame left behind does not count.
StandNeedsTwo ==
    (\E a \in actions : a.action = "STANDUP") =>
        \E c \in Cells : moved[1][c] <= -Fast /\ moved[2][c] <= -Fast
=============================================================================
