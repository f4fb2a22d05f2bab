---------------------------- MODULE Application ----------------------------
(* tdt.cpp and the window thread of Running.h: the program opens the tracker, *)
(* hands it pictures and closes it, while the window thread takes keys and    *)
(* clicks to the two runners (module Running) and draws what waits for it.    *)
EXTENDS Running, Sequences

CONSTANTS
    Files,               \* what the two configuration files may hold at first
    Settings,            \* their settings: mask, hog_enabled, debug, enable_*,
                         \* with the pictures that come and a bound on the keys
    MaxOpens             \* bound: times opened

ASSUME ApplicationAssumption ==
    /\ MaxOpens \in Nat
    /\ Files \subseteq [Runners -> [AreaKeys -> SUBSET Columns]]
    /\ \A s \in Settings :
          /\ s.mask \in [Runners -> BOOLEAN] /\ s.hog \in [Runners -> BOOLEAN]
          /\ s.pictures \subseteq Runners \X {"detect", "trace"} /\ s.keys \in Nat

VARIABLES
    app,          \* closed, opening, open, closing
    runner,       \* running_t_ and running_s_: missing, live, deleted, or stuck in
                  \* their destructor
    enabled_,
    debug, shown, \* a window thread exists, and the runners whose windows it has
    quit_,
    wpc, key,     \* the window thread, and its key
    waiting,      \* the queues that hold pictures
    crashed,      \* no, or where a runner was used that is not there
    pictures,     \* external: the kinds of pictures the program has
    keys, opens   \* bounds: keys still to be pressed, times opened

setting == <<debug, shown, pictures>>
program == <<app, runner, enabled_, setting, quit_, opens>>
window == <<wpc, key, keys>>
appVars == <<runVars, program, window, waiting, crashed>>

AppInit ==
    /\ cfg \in Files
    /\ \E s \in Settings :
          /\ mask_ = s.mask /\ hog = s.hog /\ debug = s.debug /\ shown = s.shown
          /\ pictures = s.pictures /\ keys = s.keys
    /\ RunInit
    /\ app = "closed" /\ runner = [r \in Runners |-> "missing"] /\ enabled_ = FALSE
    /\ quit_ = FALSE /\ wpc = "none" /\ key = None /\ waiting = {}
    /\ crashed = "no" /\ opens = 0

\* The process runs.
Alive == crashed = "no" /\ ~failed

-----------------------------------------------------------------------------
(* The program: tdt_open, tdt_enable, tdt_close.                             *)

\* tdt_open up to the start of the window thread.
tdt_open ==
    /\ Alive /\ app = "closed" /\ opens < MaxOpens
    /\ app' = "opening" /\ opens' = opens + 1
    /\ runner' = [r \in Runners |-> "missing"] /\ enabled_' = FALSE
    /\ quit_' = FALSE /\ wpc' = IF debug THEN "top" ELSE "none"
    /\ waiting' = {}
    /\ UNCHANGED <<runVars, setting, key, keys, crashed>>

\* The teacher's runner is made, then the student's.
Make(r) ==
    /\ Alive /\ app = "opening" /\ runner[r] = "missing"
    /\ r = "student" => runner["teacher"] = "live"
    /\ Construct(r)
    /\ runner' = [runner EXCEPT ![r] = "live"]
    /\ app' = IF r = "student" THEN "open" ELSE app
    /\ UNCHANGED <<enabled_, setting, quit_, opens, window, waiting, crashed>>

\* Bound: only where pictures come, as nothing else reads the flag.
tdt_enable(en) ==
    /\ Alive /\ app = "open" /\ pictures # {} /\ enabled_ # en
    /\ enabled_' = en
    /\ UNCHANGED <<runVars, app, runner, setting, quit_, opens, window, waiting, crashed>>

\* Mutant: the window thread is not told.
tdt_close_quiet ==
    /\ Alive /\ app = "open" /\ \A r \in Runners : look[r] = None
    /\ app' = "closing"
    /\ UNCHANGED <<runVars, runner, enabled_, setting, quit_, opens, window, waiting, crashed>>

\* tdt_close up to the join; the program hands no more pictures to it.
tdt_close ==
    /\ Alive /\ app = "open" /\ \A r \in Runners : look[r] = None
    /\ app' = "closing" /\ quit_' = TRUE
    /\ UNCHANGED <<runVars, runner, enabled_, setting, opens, window, waiting, crashed>>

\* Mutant: the runners are deleted before the window thread.
DeleteFirst(r) ==
    /\ Alive /\ app = "closing" /\ runner[r] = "live"
    /\ r = "student" => runner["teacher"] = "deleted"
    /\ runner' = [runner EXCEPT ![r] = "deleted"]
    /\ app' = IF r = "student" /\ wpc \in {"none", "end"} THEN "closed" ELSE app
    /\ UNCHANGED <<runVars, enabled_, setting, quit_, opens, window, waiting, crashed>>

\* The rest of it: the runners are deleted one after the other, and then the
\* configurations are saved.
Closing(r) ==
    /\ Alive /\ app = "closing" /\ wpc \in {"none", "end"} /\ runner[r] = "live"
    /\ r = "student" => runner["teacher"] = "deleted"

\* The worker of its camera sees quit_, so that the join of ~Ptz returns.
Delete(r) ==
    /\ Closing(r)
    /\ runner' = [runner EXCEPT ![r] = "deleted"]
    /\ app' = IF r = "student" THEN "closed" ELSE app
    /\ UNCHANGED <<runVars, enabled_, setting, quit_, opens, window, waiting, crashed>>

\* It sleeps, or has tested quit_ before and is about to: ~Ptz does not post, and
\* nobody else is left who would (AtRest and Quit of module Ptz).
JoinForEver(r) ==
    /\ Closing(r)
    /\ runner' = [runner EXCEPT ![r] = "stuck"]
    /\ UNCHANGED <<runVars, app, enabled_, setting, quit_, opens, window, waiting, crashed>>

Program == tdt_open \/ (\E r \in Runners : Make(r) \/ Delete(r) \/ JoinForEver(r)) \/ tdt_close
           \/ (\E en \in BOOLEAN : tdt_enable(en))

-----------------------------------------------------------------------------
(* Pictures: tdt_write_teacher_pic and its three companions.                 *)

\* show_image and showImage; no window thread draws for a runner without windows.
showImage(r, kind) == waiting' = IF debug THEN waiting \cup {<<r, kind>>} ELSE waiting

write_img(r) ==
    /\ Alive /\ app = "open" /\ enabled_ /\ <<r, "detect">> \in pictures
    /\ do_mask(r)
    /\ UNCHANGED <<program, window, waiting, crashed>>

OneImage(r, object) ==
    /\ Alive /\ one_image(r, object)
    /\ IF failed' THEN UNCHANGED waiting ELSE showImage(r, "detect")
    /\ UNCHANGED <<program, window, crashed>>

write_img_tracing(r) ==
    /\ Alive /\ app = "open" /\ enabled_ /\ <<r, "trace">> \in pictures
    /\ showImage(r, "trace")
    /\ UNCHANGED <<runVars, program, window, crashed>>

Pictured == \E r \in Runners : write_img(r) \/ (\E object \in Objects : OneImage(r, object))
                               \/ write_img_tracing(r)

-----------------------------------------------------------------------------
(* The window thread.                                                       *)

Top ==
    /\ Alive /\ wpc = "top"
    /\ wpc' = IF quit_ THEN "end" ELSE "wait"
    /\ UNCHANGED <<runVars, program, key, keys, waiting, crashed>>

\* cvWaitKey returns a key.
Key(k) ==
    /\ Alive /\ wpc = "wait" /\ keys > 0
    /\ key' = k /\ keys' = keys - 1 /\ wpc' = "teacher"
    /\ UNCHANGED <<runVars, program, waiting, crashed>>

\* cvWaitKey returns without one.
NoKey ==
    /\ Alive /\ wpc = "wait"
    /\ wpc' = "draw"
    /\ UNCHANGED <<runVars, program, key, keys, waiting, crashed>>

\* A mouse callback, called by cvWaitKey; it tests for a null pointer.
Click(r) ==
    /\ Alive /\ wpc = "wait" /\ runner[r] # "missing" /\ r \in shown
    /\ IF runner[r] = "live"
       THEN Calibrating(r) /\ points[r] < Corners /\ mouse_detected(r) /\ UNCHANGED crashed
       ELSE crashed' = app /\ UNCHANGED runVars
    /\ UNCHANGED <<program, window, waiting>>

\* handle_key takes the key to one runner and then to the other.
After(r) == IF r = "teacher" THEN wpc' = "student" /\ UNCHANGED key
            ELSE wpc' = "draw" /\ key' = None

handle_key(r) ==
    /\ Alive /\ wpc = r /\ hpc[r] = "idle"
    /\ IF runner[r] = "live"
       THEN /\ key_handle(r, key) /\ UNCHANGED crashed
            /\ IF hpc'[r] = "idle" THEN After(r) ELSE UNCHANGED <<wpc, key>>
       ELSE crashed' = app /\ UNCHANGED <<runVars, wpc, key>>
    /\ UNCHANGED <<program, keys, waiting>>

Handle(r) ==
    /\ Alive /\ wpc = r /\ hpc[r] # "idle" /\ Handling(r)
    /\ IF hpc'[r] = "idle" THEN After(r) ELSE UNCHANGED <<wpc, key>>
    /\ UNCHANGED <<program, keys, waiting, crashed>>

\* Mutant: the trace queues are forgotten.
showimageDetect ==
    /\ Alive /\ wpc = "draw"
    /\ wpc' = "top" /\ waiting' = waiting \ (shown \X {"detect"})
    /\ UNCHANGED <<runVars, program, key, keys, crashed>>

\* showimage, under the lock of each window's queue in turn: all that waits for
\* the windows is drawn.
showimage ==
    /\ Alive /\ wpc = "draw"
    /\ wpc' = "top" /\ waiting' = waiting \ (shown \X {"detect", "trace"})
    /\ UNCHANGED <<runVars, program, key, keys, crashed>>

WindowThread ==
    \/ Top \/ (\E k \in {"c", "b", "d", "p", "B", "P", "enter", "esc"} : Key(k)) \/ NoKey
    \/ \E r \in Runners : Click(r) \/ handle_key(r) \/ Handle(r)
    \/ showimage

-----------------------------------------------------------------------------
AppNext == Program \/ Pictured \/ WindowThread

AppSpec == AppInit /\ [][AppNext]_appVars

\* The steps the window thread takes of itself.
WindowRuns == Top \/ NoKey \/ (\E r \in Runners : handle_key(r) \/ Handle(r)) \/ showimage

-----------------------------------------------------------------------------
(* Properties.                                                             *)

\* A key meets a runner that is not there only while tdt_open has yet to make it,
\* for handle_key lacks the test that the mouse callbacks have; never after
\* tdt_close has begun to delete.
NullOnlyWhileOpening == crashed \in {"no", "opening"}

AtWork(r) == runner[r] = "live" /\ state_[r] = "RUNNING" /\ hpc[r] = "idle"

\* At work a runner masks its pictures, with the polygons that the operator's
\* last calibration, or the configuration at the start, leaves: whatever was
\* begun and cancelled, and whatever masks were built before.  The exception is
\* a calibration confirmed with too few points.
MaskFollows ==
    \A r \in Runners : AtWork(r) /\ ~removed[r] => enable_mask_[r] /\ img_mask_[r] = meant[r]

\* The exception: with too few points the area is just removed, as the message of
\* key_calibrating_handle says, and hides nothing any more.
AreaRemoved ==
    \A r \in Runners : AtWork(r) /\ removed[r] => img_mask_[r] = meant[r]

\* What the tracker is given lies within the edges it took from the calibration
\* (the assert of get_area_from_data).
EdgesHold == ~failed

\* A picture for a window is drawn before the window thread ends, whatever keys
\* are pressed.
ShownAll ==
    \A q \in Runners \X {"detect", "trace"} :
        q \in waiting /\ q[1] \in shown ~> q \notin waiting \/ wpc = "end" \/ ~Alive

\* tdt_close gets past the window thread, whatever key it is at and with whatever
\* pictures before it, and to its end, but for a camera's worker that it finds
\* asleep.
EndsOrSleeps ==
    app = "closing" ~> app = "closed" \/ ~Alive \/ \E r \in Runners : runner[r] = "stuck"
=============================================================================
