------------------------------ MODULE Running ------------------------------
(* A runner of src/tmp, the teacher's or the student's (Running.h and its two *)
(* subclasses): the operator calibrates the area in which people are looked   *)
(* for, the mask is built from it, and pictures are masked and searched by    *)
(* another thread.  A picture is a row of columns and an area is a set of     *)
(* them.  What the handlers tell the camera is in TeacherPtz and Ptz.         *)
EXTENDS Integers, FiniteSets, FiniteSetsExt

CONSTANTS
    Width,       \* width_
    Corners,     \* the points an area needs, four in the code
    Areas,       \* what can be drawn with that many clicks or more
    Objects,     \* what can move in front of the camera
    Grow,        \* columns by which refineSegments widens what it finds
    None         \* no mask, no picture in work, no second key

Columns == 0..(Width - 1)

ASSUME RunningAssumption ==
    /\ Width \in Nat \ {0} /\ Corners \in Nat \ {0} /\ Grow \in Nat
    /\ Areas \subseteq (SUBSET Columns) \ {{}} /\ Objects \subseteq SUBSET Columns
    /\ None \notin {"data", "data2", "data3"}

VARIABLES
    cfg,            \* the polygons of the configuration, {} for none
    mask_, hog,     \* its settings mask and hog_enabled
    state_,         \* RUNNING, CALIBRATING and so on; running_state_ of the student
    points,         \* calibrations_.size(), as far as it counts
    img_mask_, masked_, enable_mask_,
    hpc,            \* where a handler of keys stands
    look,           \* what the mask leaves of the picture in work
    edges,          \* calibration_left_edge_ and _right_edge_ of the teacher
    chker,          \* valid_ and contious_cnt_ of its timeout_chker_
    failed,         \* the assert of get_area_from_data has failed
    meant,          \* history: the mask the last calibration, or the start, means
    removed         \* history: that calibration removed the area

mask == <<img_mask_, masked_, enable_mask_>>
search == <<look, edges, chker, failed>>
runVars == <<cfg, mask_, hog, state_, points, mask, hpc, search, meant, removed>>

Runners == {"teacher", "student"}
AreaKeys == {"data", "data2", "data3"}    \* calibration_data and so on

-----------------------------------------------------------------------------
(* build_mask.                                                              *)

\* Mutant: the image is blackened for every polygon.
FillAlone(img, polygon, masked) == IF polygon = {} THEN img ELSE polygon

\* build_mask_internal: the image is blackened unless masked_ is set.
Fill(img, polygon, masked) ==
    IF polygon = {} THEN img
    ELSE IF masked THEN img \cup polygon ELSE polygon

\* The image begins black when the mask before it had a first polygon.
build_mask(file, masked, key, key2) ==
    LET first == Fill(IF masked THEN {} ELSE Columns, file[key], masked)
        now == file[key] # {}
    IN  [img |-> IF key2 = None THEN first ELSE Fill(first, file[key2], now),
         masked |-> now]

Start(r) == IF hog[r] THEN build_mask(cfg[r], FALSE, "data", None)
            ELSE build_mask(cfg[r], FALSE, "data2", "data3")

\* What a set of keys means: their polygons, or everything.
Meaning(file, keys) ==
    IF \A k \in keys : file[k] = {} THEN Columns ELSE UNION {file[k] : k \in keys}
StartKeys(r) == IF hog[r] THEN {"data"} ELSE {"data2", "data3"}

-----------------------------------------------------------------------------
(* The constructors.                                                        *)

\* load_calibration_edge.
Edges(file) ==
    LET xs == {Width \div 2} \cup UNION {{c, c + 1} : c \in file["data2"] \cup file["data3"]}
    IN  [left |-> Min(xs), right |-> Max(xs)]

RunInit ==
    /\ state_ = [r \in Runners |-> "RUNNING"] /\ points = [r \in Runners |-> 0]
    /\ img_mask_ = [r \in Runners |-> None] /\ masked_ = [r \in Runners |-> FALSE]
    /\ enable_mask_ = [r \in Runners |-> TRUE] /\ hpc = [r \in Runners |-> "idle"]
    /\ look = [r \in Runners |-> None] /\ edges = [left |-> 0, right |-> 0]
    /\ chker = [valid |-> FALSE, cnt |-> 2] /\ failed = FALSE
    /\ meant = [r \in Runners |-> None] /\ removed = [r \in Runners |-> FALSE]

Construct(r) ==
    /\ state_' = [state_ EXCEPT ![r] = "RUNNING"]
    /\ points' = [points EXCEPT ![r] = 0]
    /\ enable_mask_' = [enable_mask_ EXCEPT ![r] = TRUE]
    /\ IF mask_[r]
       THEN /\ img_mask_' = [img_mask_ EXCEPT ![r] = Start(r).img]
            /\ masked_' = [masked_ EXCEPT ![r] = Start(r).masked]
            /\ meant' = [meant EXCEPT ![r] = Meaning(cfg[r], StartKeys(r))]
       ELSE /\ img_mask_' = [img_mask_ EXCEPT ![r] = None]
            /\ masked_' = [masked_ EXCEPT ![r] = FALSE]
            /\ meant' = [meant EXCEPT ![r] = None]
    /\ removed' = [removed EXCEPT ![r] = FALSE]
    /\ IF r = "teacher"
       THEN edges' = Edges(cfg[r]) /\ chker' = [valid |-> FALSE, cnt |-> 2]
       ELSE UNCHANGED <<edges, chker>>
    /\ UNCHANGED <<cfg, mask_, hog, hpc, look, failed>>

-----------------------------------------------------------------------------
(* The window thread in a handler of keys.                                   *)

Goto(r, from, to) == hpc[r] = from /\ hpc' = [hpc EXCEPT ![r] = to]

Calibrating(r) == state_[r] \in {"CALIBRATING", "CALIBRATING2", "CALIBRATING3"}
AreaKey(r) == CASE state_[r] = "CALIBRATING" -> "data" [] state_[r] = "CALIBRATING2" -> "data2"
                [] state_[r] = "CALIBRATING3" -> "data3"

\* The mode a key asks for; 'p' stands for 'l' and 'r' too, which differ in what
\* the camera is told.
ModeOf(r, k) ==
    CASE r = "teacher" /\ k = "c" -> "CALIBRATING" [] r = "teacher" /\ k = "b" -> "CALIBRATING2"
      [] r = "teacher" /\ k = "d" -> "CALIBRATING3" [] r = "teacher" /\ k = "p" -> "PTZINITING"
      [] r = "student" /\ k = "B" -> "CALIBRATING2" [] r = "student" /\ k = "P" -> "PTZINITING"
      [] OTHER -> "RUNNING"

\* A key in RUNNING.
Begin(r, k) ==
    /\ state_[r] = "RUNNING" /\ ModeOf(r, k) # "RUNNING"
    /\ state_' = [state_ EXCEPT ![r] = ModeOf(r, k)]
    /\ Goto(r, "idle", IF ModeOf(r, k) = "PTZINITING" THEN "idle" ELSE "clear")
    /\ UNCHANGED <<cfg, mask_, hog, points, mask, search, meant, removed>>

\* calibrations_.clear() and enable_mask(false), under cs_calibrations_.
Clear(r) ==
    /\ Goto(r, "clear", "idle")
    /\ points' = [points EXCEPT ![r] = 0]
    /\ enable_mask_' = [enable_mask_ EXCEPT ![r] = FALSE]
    /\ UNCHANGED <<cfg, mask_, hog, state_, img_mask_, masked_, search, meant, removed>>

\* Enter and Escape while the camera is placed.
Placed(r, k) ==
    /\ state_[r] = "PTZINITING" /\ k \in {"enter", "esc"}
    /\ state_' = [state_ EXCEPT ![r] = "RUNNING"]
    /\ UNCHANGED <<cfg, mask_, hog, points, mask, hpc, search, meant, removed>>

\* Escape while calibrating: RUNNING first, then enable_mask(true).
Cancel(r, k) ==
    /\ Calibrating(r) /\ k = "esc"
    /\ state_' = [state_ EXCEPT ![r] = "RUNNING"]
    /\ Goto(r, "idle", "back")
    /\ UNCHANGED <<cfg, mask_, hog, points, mask, search, meant, removed>>

Cancelled(r) ==
    /\ Goto(r, "back", "idle")
    /\ enable_mask_' = [enable_mask_ EXCEPT ![r] = TRUE]
    /\ UNCHANGED <<cfg, mask_, hog, state_, points, img_mask_, masked_, search, meant, removed>>

\* Enter while calibrating: the keys from which the mask is then built.
MaskKeys(r) == IF state_[r] = "CALIBRATING" THEN {"data"} ELSE {"data2", "data3"}

\* The polygon is kept and saved; with too few points calibration_data
\* is emptied, whatever is being calibrated.
Save(r, k, area) ==
    /\ Calibrating(r) /\ k = "enter"
    /\ cfg' = IF points[r] < Corners THEN [cfg EXCEPT ![r]["data"] = {}]
              ELSE [cfg EXCEPT ![r][AreaKey(r)] = area]
    /\ Goto(r, "idle", "build")
    /\ meant' = [meant EXCEPT ![r] =
           Meaning([cfg[r] EXCEPT ![AreaKey(r)] = IF points[r] < Corners THEN {} ELSE area], MaskKeys(r))]
    /\ removed' = [removed EXCEPT ![r] = points[r] < Corners]
    /\ UNCHANGED <<mask_, hog, state_, points, mask, search>>

\* The new mask, under cs_mask_, whatever the setting mask says.
Build(r) ==
    LET m == IF state_[r] = "CALIBRATING" THEN build_mask(cfg[r], masked_[r], "data", None)
             ELSE build_mask(cfg[r], masked_[r], "data2", "data3")
    IN  /\ Goto(r, "build", "enable")
        /\ img_mask_' = [img_mask_ EXCEPT ![r] = m.img]
        /\ masked_' = [masked_ EXCEPT ![r] = m.masked]
        /\ UNCHANGED <<cfg, mask_, hog, state_, points, enable_mask_, search, meant, removed>>

Enable(r) ==
    /\ Goto(r, "enable", "run")
    /\ enable_mask_' = [enable_mask_ EXCEPT ![r] = TRUE]
    /\ UNCHANGED <<cfg, mask_, hog, state_, points, img_mask_, masked_, search, meant, removed>>

Run(r) ==
    /\ Goto(r, "run", "idle")
    /\ state_' = [state_ EXCEPT ![r] = "RUNNING"]
    /\ UNCHANGED <<cfg, mask_, hog, points, mask, search, meant, removed>>

\* The first step of key_handle, and the ones after it.
key_handle(r, k) ==
    \/ Begin(r, k) \/ Placed(r, k) \/ Cancel(r, k) \/ (\E area \in Areas : Save(r, k, area))
    \/ /\ state_[r] = "RUNNING" => ModeOf(r, k) = "RUNNING"
       /\ state_[r] # "RUNNING" => k \notin {"enter", "esc"}
       /\ UNCHANGED runVars
Handling(r) == Clear(r) \/ Cancelled(r) \/ Build(r) \/ Enable(r) \/ Run(r)

\* A button is released in the detecting window.
mouse_detected(r) ==
    /\ points' = [points EXCEPT ![r] = IF Calibrating(r) /\ @ < Corners THEN @ + 1 ELSE @]
    /\ UNCHANGED <<cfg, mask_, hog, state_, mask, hpc, search, meant, removed>>

-----------------------------------------------------------------------------
(* The thread that brings the pictures.                                     *)

\* do_mask copies the picture under cs_mask_.
do_mask(r) ==
    /\ look[r] = None
    /\ look' = [look EXCEPT ![r] = IF enable_mask_[r] /\ img_mask_[r] # None THEN img_mask_[r]
                                   ELSE Columns]
    /\ UNCHANGED <<cfg, mask_, hog, state_, points, mask, hpc, edges, chker, failed, meant, removed>>

\* The first box of TeacherDetecting::one_frame.
BoxOf(seen) ==
    [left |-> Max({0, Min(seen) - Grow}), right |-> Min({Width, Max(seen) + 1 + Grow})]

\* set_valid_stamp and set_invalid_stamp.
Stamped(seen) ==
    IF seen = chker.valid THEN [chker EXCEPT !.cnt = 2]
    ELSE IF chker.cnt = 1 THEN [valid |-> seen, cnt |-> 2] ELSE [chker EXCEPT !.cnt = 1]

WithinEdges(box) ==
    box.left >= edges.left /\ box.right <= edges.right /\ box.left < box.right

\* one_image up to show_image: the teacher's box goes to its tracker, which
\* looks at it while it holds the target for valid.
one_image(r, object) ==
    LET seen == object \cap look[r]
    IN  /\ look[r] # None
        /\ look' = [look EXCEPT ![r] = None]
        /\ IF r = "teacher"
           THEN /\ chker' = Stamped(seen # {})
                /\ failed' = (failed \/ (Stamped(seen # {}).valid /\ seen # {}
                                          /\ ~WithinEdges(BoxOf(seen))))
           ELSE UNCHANGED <<chker, failed>>
        /\ UNCHANGED <<cfg, mask_, hog, state_, points, mask, hpc, edges, meant, removed>>
=============================================================================
