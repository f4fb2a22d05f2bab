------------------------- MODULE Application_proofs -------------------------
(* Proofs about the application: which runners a key or a click may meet, and  *)
(* that the mask of a runner at work is what its last calibration means; and  *)
(* about what it detects in the students' picture, whatever the picture is.   *)
EXTENDS Application, StudentDetecting, FiniteSetTheorems, TLAPS

Modes == {"RUNNING", "PTZINITING", "CALIBRATING", "CALIBRATING2", "CALIBRATING3"}
Places == {"idle", "clear", "back", "build", "enable", "run"}

\* The order of opening and closing.
Order ==
    /\ app \in {"closed", "opening", "open", "closing"}
    /\ runner \in [Runners -> {"missing", "live", "deleted", "stuck"}]
    /\ app = "closed" => wpc \in {"none", "end"}
    /\ app = "open" => \A r \in Runners : runner[r] = "live"
    /\ app = "closing" => wpc \in {"none", "end"} \/ \A r \in Runners : runner[r] = "live"
    /\ crashed \in {"no", "opening"}

\* A handler of keys is at work only in the window thread, on a runner that lives.
KeyOrder ==
    \A r \in Runners : hpc[r] # "idle" => wpc = r /\ runner[r] = "live"

MaskTypes ==
    /\ cfg \in [Runners -> [AreaKeys -> SUBSET Columns]]
    /\ mask_ \in [Runners -> BOOLEAN] /\ hog \in [Runners -> BOOLEAN]
    /\ state_ \in [Runners -> Modes] /\ hpc \in [Runners -> Places]
    /\ DOMAIN img_mask_ = Runners /\ masked_ \in [Runners -> BOOLEAN]
    /\ enable_mask_ \in [Runners -> BOOLEAN]
    /\ DOMAIN meant = Runners /\ removed \in [Runners -> BOOLEAN]

\* Where a handler stands, what it has done to the mask.
Stage(r) ==
    /\ hpc[r] \in {"clear", "build", "enable", "run"} => Calibrating(r)
    /\ hpc[r] = "back" => state_[r] = "RUNNING"
    /\ hpc[r] = "idle" /\ ~Calibrating(r) /\ runner[r] = "live" => enable_mask_[r]
    /\ hpc[r] = "run" => enable_mask_[r]
    /\ hpc[r] # "build" /\ ~removed[r] /\ runner[r] = "live" => img_mask_[r] = meant[r]
    /\ hpc[r] = "build" /\ ~removed[r] =>
          /\ meant[r] = Meaning(cfg[r], MaskKeys(r))
          /\ cfg[r][AreaKey(r)] # {}
MaskStages == \A r \in Runners : Stage(r)

MaskInv == Order /\ KeyOrder /\ MaskTypes /\ MaskStages

-----------------------------------------------------------------------------
(* What build_mask makes of a configuration.                                 *)

\* One polygon, when the mask before was not made of one that is gone.
LEMMA BuildOne ==
    ASSUME RunningAssumption,
           NEW file \in [AreaKeys -> SUBSET Columns], NEW masked \in BOOLEAN,
           masked => file["data"] # {}
    PROVE  LET m == build_mask(file, masked, "data", None)
           IN  m.img = Meaning(file, {"data"}) /\ m.masked \in BOOLEAN
BY DEF build_mask, Fill, Meaning, AreaKeys

\* Two polygons: their union, whatever the mask before, unless both are gone.
LEMMA BuildTwo ==
    ASSUME RunningAssumption,
           NEW file \in [AreaKeys -> SUBSET Columns], NEW masked \in BOOLEAN,
           masked => file["data2"] # {} \/ file["data3"] # {}
    PROVE  LET m == build_mask(file, masked, "data2", "data3")
           IN  m.img = Meaning(file, {"data2", "data3"}) /\ m.masked \in BOOLEAN
<1> DEFINE m == build_mask(file, masked, "data2", "data3")
<1>1. "data3" # None /\ file["data2"] \in SUBSET Columns /\ file["data3"] \in SUBSET Columns
  BY DEF RunningAssumption, AreaKeys
<1>2. m.masked \in BOOLEAN
  BY DEF build_mask
<1>3. m.img = Fill(Fill(IF masked THEN {} ELSE Columns, file["data2"], masked),
                   file["data3"], file["data2"] # {})
  BY <1>1 DEF build_mask
<1>4. UNION {file[k] : k \in {"data2", "data3"}} = file["data2"] \cup file["data3"]
  OBVIOUS
<1>5. Meaning(file, {"data2", "data3"}) =
         IF file["data2"] = {} /\ file["data3"] = {} THEN Columns
         ELSE file["data2"] \cup file["data3"]
  BY <1>4 DEF Meaning
<1>6. m.img = Meaning(file, {"data2", "data3"})
  BY <1>1, <1>3, <1>5 DEF Fill
<1> QED BY <1>2, <1>6

-----------------------------------------------------------------------------
(* The steps of a runner.                                                    *)

\* A handler of keys, from one store to the next.
LEMMA HandlerKeepsMask ==
    ASSUME RunningAssumption, MaskTypes, MaskStages,
           NEW r \in Runners, runner[r] = "live", UNCHANGED runner,
           NEW k, (key_handle(r, k) /\ hpc[r] = "idle") \/ Handling(r)
    PROVE  MaskTypes' /\ MaskStages'
<1> USE DEF MaskTypes, Modes, Places
<1>1. CASE Begin(r, k)
  <2>1. ModeOf(r, k) \in Modes \ {"RUNNING"}
    BY <1>1 DEF Begin, ModeOf
  <2>2. ModeOf(r, k) # "PTZINITING" =>
            ModeOf(r, k) \in {"CALIBRATING", "CALIBRATING2", "CALIBRATING3"}
    BY <2>1
  <2>3. MaskTypes'
    BY <1>1, <2>1 DEF Begin, Goto, mask
  <2>4. MaskStages'
    BY <1>1, <2>1, <2>2 DEF Begin, Goto, mask, MaskStages, Stage, Calibrating, MaskKeys, AreaKey
  <2> QED BY <2>3, <2>4
<1>2. CASE Placed(r, k)
  <2>1. MaskTypes'
    BY <1>2 DEF Placed, mask
  <2>2. MaskStages'
    BY <1>2 DEF Placed, mask, MaskStages, Stage, Calibrating, MaskKeys, AreaKey
  <2> QED BY <2>1, <2>2
<1>3. CASE Cancel(r, k)
  <2>1. MaskTypes'
    BY <1>3 DEF Cancel, Goto, mask
  <2>2. MaskStages'
    BY <1>3 DEF Cancel, Goto, mask, MaskStages, Stage, Calibrating, MaskKeys, AreaKey
  <2> QED BY <2>1, <2>2
<1>4. CASE \E area \in Areas : Save(r, k, area)
  <2> PICK area \in Areas : Save(r, k, area)
    BY <1>4
  <2>1. area \in SUBSET Columns /\ area # {}
    BY DEF RunningAssumption
  <2>2. Calibrating(r) /\ AreaKey(r) \in AreaKeys
    BY DEF Save, Calibrating, AreaKey, AreaKeys
  <2>3. cfg'[r] = IF points[r] < Corners THEN [cfg[r] EXCEPT !["data"] = {}]
                  ELSE [cfg[r] EXCEPT ![AreaKey(r)] = area]
    BY DEF Save
  <2>4. cfg' \in [Runners -> [AreaKeys -> SUBSET Columns]]
    BY <2>1, <2>2 DEF Save, AreaKeys
  <2>5. MaskTypes'
    BY <2>4 DEF Save, Goto, mask
  <2>6. hpc' = [hpc EXCEPT ![r] = "build"] /\ UNCHANGED <<state_, img_mask_, enable_mask_>>
    BY DEF Save, Goto, mask
  <2>7. removed'[r] = (points[r] < Corners)
    BY DEF Save
  <2>8. ~removed'[r] => meant'[r] = Meaning(cfg'[r], MaskKeys(r)) /\ cfg'[r][AreaKey(r)] # {}
    BY <2>1, <2>2, <2>3, <2>7 DEF Save
  <2>9. \A q \in Runners \ {r} : cfg'[q] = cfg[q] /\ meant'[q] = meant[q] /\ removed'[q] = removed[q]
    BY DEF Save
  <2>10. MaskStages'
    <3> SUFFICES ASSUME NEW q \in Runners PROVE Stage(q)'
      BY DEF MaskStages
    <3>1. CASE q = r
      <4>1. hpc'[r] = "build" /\ Calibrating(r)' /\ UNCHANGED <<MaskKeys(r), AreaKey(r)>>
        BY <2>2, <2>6 DEF Calibrating, MaskKeys, AreaKey
      <4> QED BY <3>1, <4>1, <2>8 DEF Stage
    <3>2. CASE q # r
      BY <3>2, <2>6, <2>9 DEF MaskStages, Stage, Calibrating, MaskKeys, AreaKey
    <3> QED BY <3>1, <3>2
  <2> QED BY <2>5, <2>10
<1>5. CASE UNCHANGED runVars
  BY <1>5 DEF runVars, mask, MaskStages, Stage, Calibrating, MaskKeys, AreaKey
<1>6. CASE Clear(r)
  <2>1. MaskTypes'
    BY <1>6 DEF Clear, Goto
  <2>2. MaskStages'
    BY <1>6 DEF Clear, Goto, MaskStages, Stage, Calibrating, MaskKeys, AreaKey
  <2> QED BY <2>1, <2>2
<1>7. CASE Cancelled(r)
  <2>1. MaskTypes'
    BY <1>7 DEF Cancelled, Goto
  <2>2. MaskStages'
    BY <1>7 DEF Cancelled, Goto, MaskStages, Stage, Calibrating, MaskKeys, AreaKey
  <2> QED BY <2>1, <2>2
<1>8. CASE Build(r)
  <2> DEFINE m == IF state_[r] = "CALIBRATING" THEN build_mask(cfg[r], masked_[r], "data", None)
                  ELSE build_mask(cfg[r], masked_[r], "data2", "data3")
  <2>1. cfg[r] \in [AreaKeys -> SUBSET Columns] /\ masked_[r] \in BOOLEAN
    OBVIOUS
  <2>2. Calibrating(r)
    BY <1>8 DEF Build, Goto, MaskStages, Stage
  <2>3. m.masked \in BOOLEAN
    BY DEF build_mask
  <2>4. ~removed[r] => m.img = meant[r]
    <3> SUFFICES ASSUME ~removed[r] PROVE m.img = meant[r]
      OBVIOUS
    <3>1. meant[r] = Meaning(cfg[r], MaskKeys(r)) /\ cfg[r][AreaKey(r)] # {}
      BY <1>8 DEF Build, Goto, MaskStages, Stage
    <3>2. CASE state_[r] = "CALIBRATING"
      BY <3>1, <3>2, <2>1, BuildOne DEF MaskKeys, AreaKey
    <3>3. CASE state_[r] # "CALIBRATING"
      <4>1. cfg[r]["data2"] # {} \/ cfg[r]["data3"] # {}
        BY <3>1, <3>3, <2>2 DEF AreaKey, Calibrating
      <4> QED BY <3>1, <3>3, <4>1, <2>1, BuildTwo DEF MaskKeys
    <3> QED BY <3>2, <3>3
  <2>5. /\ hpc[r] = "build" /\ hpc' = [hpc EXCEPT ![r] = "enable"]
        /\ img_mask_' = [img_mask_ EXCEPT ![r] = m.img]
        /\ masked_' = [masked_ EXCEPT ![r] = m.masked]
        /\ UNCHANGED <<cfg, mask_, hog, state_, points, enable_mask_, search, meant, removed>>
    BY <1>8 DEF Build, Goto
  <2> HIDE DEF m
  <2>6. MaskTypes'
    BY <2>3, <2>5
  <2>7. MaskStages'
    BY <2>2, <2>4, <2>5 DEF MaskStages, Stage, Calibrating, MaskKeys, AreaKey
  <2> QED BY <2>6, <2>7
<1>9. CASE Enable(r)
  <2>1. MaskTypes'
    BY <1>9 DEF Enable, Goto
  <2>2. MaskStages'
    BY <1>9 DEF Enable, Goto, MaskStages, Stage, Calibrating, MaskKeys, AreaKey
  <2> QED BY <2>1, <2>2
<1>10. CASE Run(r)
  <2>1. MaskTypes'
    BY <1>10 DEF Run, Goto, mask
  <2>2. MaskStages'
    BY <1>10 DEF Run, Goto, mask, MaskStages, Stage, Calibrating, MaskKeys, AreaKey
  <2> QED BY <2>1, <2>2
<1> QED
  BY <1>1, <1>2, <1>3, <1>4, <1>5, <1>6, <1>7, <1>8, <1>9, <1>10 DEF key_handle, Handling

\* The constructor builds the mask from nothing.
LEMMA ConstructKeepsMask ==
    ASSUME RunningAssumption, MaskTypes, MaskStages,
           NEW r \in Runners, hpc[r] = "idle", Construct(r),
           runner \in [Runners -> {"missing", "live", "deleted", "stuck"}],
           runner' = [runner EXCEPT ![r] = "live"]
    PROVE  MaskTypes' /\ MaskStages'
<1> USE DEF MaskTypes, Modes, Places
<1>1. cfg[r] \in [AreaKeys -> SUBSET Columns]
  OBVIOUS
<1>2. Start(r).img = Meaning(cfg[r], StartKeys(r)) /\ Start(r).masked \in BOOLEAN
  BY <1>1, BuildOne, BuildTwo DEF Start, StartKeys
<1>3. MaskTypes'
  BY <1>2 DEF Construct
<1>4. /\ state_' = [state_ EXCEPT ![r] = "RUNNING"]
      /\ enable_mask_' = [enable_mask_ EXCEPT ![r] = TRUE]
      /\ img_mask_'[r] = meant'[r]
      /\ removed' = [removed EXCEPT ![r] = FALSE]
      /\ UNCHANGED <<cfg, hpc>>
      /\ \A q \in Runners \ {r} : img_mask_'[q] = img_mask_[q] /\ meant'[q] = meant[q]
  BY <1>2 DEF Construct
<1>5. MaskStages'
  BY <1>4 DEF MaskStages, Stage, Calibrating, MaskKeys, AreaKey
<1> QED BY <1>3, <1>5

\* What a step leaves alone keeps the mask.
maskVars == <<cfg, mask_, hog, state_, img_mask_, masked_, enable_mask_, hpc, meant, removed>>

LEMMA OthersKeepMask ==
    ASSUME MaskTypes, MaskStages, UNCHANGED maskVars,
           \A r \in Runners : runner'[r] = "live" => runner[r] = "live"
    PROVE  MaskTypes' /\ MaskStages'
<1>1. MaskTypes'
  BY DEF maskVars, MaskTypes
<1>2. MaskStages'
  BY DEF maskVars, MaskStages, Stage, Calibrating, MaskKeys, AreaKey
<1> QED BY <1>1, <1>2

-----------------------------------------------------------------------------
(* The steps of the application.                                             *)

LEMMA MaskInit ==
    ASSUME ApplicationAssumption, AppInit
    PROVE  MaskInv
<1>1. cfg \in [Runners -> [AreaKeys -> SUBSET Columns]]
      /\ mask_ \in [Runners -> BOOLEAN] /\ hog \in [Runners -> BOOLEAN]
  BY DEF ApplicationAssumption, AppInit
<1>2. MaskTypes
  BY <1>1 DEF AppInit, RunInit, MaskTypes, Modes, Places
<1>3. MaskStages
  BY DEF AppInit, RunInit, MaskStages, Stage
<1>4. Order /\ KeyOrder
  BY DEF AppInit, RunInit, Order, KeyOrder
<1> QED BY <1>2, <1>3, <1>4 DEF MaskInv

LEMMA MaskStep ==
    ASSUME RunningAssumption, MaskInv, [AppNext]_appVars
    PROVE  MaskInv'
<1> USE DEF MaskInv
<1>1. CASE tdt_open
  <2>1. Order' /\ KeyOrder'
    BY <1>1 DEF tdt_open, Order, KeyOrder, runVars, Runners
  <2>2. MaskTypes' /\ MaskStages'
    BY <1>1, OthersKeepMask DEF tdt_open, runVars, mask, maskVars
  <2> QED BY <2>1, <2>2
<1>2. ASSUME NEW r \in Runners, Make(r) PROVE MaskInv'
  <2>1. hpc[r] = "idle" /\ runner' = [runner EXCEPT ![r] = "live"]
        /\ runner \in [Runners -> {"missing", "live", "deleted", "stuck"}]
    BY <1>2 DEF Make, KeyOrder, Order
  <2>2. Order' /\ KeyOrder'
    BY <1>2, <2>1 DEF Make, Construct, Order, KeyOrder, window, Runners
  <2>3. MaskTypes' /\ MaskStages'
    BY <1>2, <2>1, ConstructKeepsMask DEF Make
  <2> QED BY <2>2, <2>3
<1>3. CASE tdt_close \/ \E en \in BOOLEAN : tdt_enable(en)
  <2>1. UNCHANGED <<runVars, runner, crashed, wpc>>
        /\ (app' = app \/ (app = "open" /\ app' = "closing"))
    BY <1>3 DEF tdt_close, tdt_enable, window
  <2>2. Order' /\ KeyOrder'
    BY <2>1 DEF Order, KeyOrder, runVars
  <2>3. MaskTypes' /\ MaskStages'
    BY <2>1, OthersKeepMask DEF runVars, mask, maskVars
  <2> QED BY <2>2, <2>3
<1>4. ASSUME NEW r \in Runners, Delete(r) \/ JoinForEver(r) PROVE MaskInv'
  <2>1. wpc \in {"none", "end"} /\ \A q \in Runners : hpc[q] = "idle"
    BY <1>4 DEF Delete, JoinForEver, Closing, KeyOrder, Runners
  <2>2. Order' /\ KeyOrder'
    BY <1>4, <2>1 DEF Delete, JoinForEver, Closing, Order, KeyOrder, runVars, window, Runners
  <2>3. \A q \in Runners : runner'[q] = "live" => runner[q] = "live"
    BY <1>4 DEF Delete, JoinForEver, Order
  <2>4. MaskTypes' /\ MaskStages'
    BY <1>4, <2>3, OthersKeepMask DEF Delete, JoinForEver, runVars, mask, maskVars
  <2> QED BY <2>2, <2>4
<1>5. CASE Pictured
  <2>1. UNCHANGED <<maskVars, program, window, crashed>>
    BY <1>5 DEF Pictured, write_img, OneImage, write_img_tracing, do_mask, one_image,
                maskVars, runVars, mask
  <2>2. Order' /\ KeyOrder'
    BY <2>1 DEF Order, KeyOrder, maskVars, program, window
  <2>3. MaskTypes' /\ MaskStages'
    BY <2>1, OthersKeepMask DEF program
  <2> QED BY <2>2, <2>3
<1>6. CASE \/ Top \/ NoKey \/ showimage
           \/ \E k \in {"c", "b", "d", "p", "B", "P", "enter", "esc"} : Key(k)
  <2>1. /\ UNCHANGED <<runVars, program, crashed>>
        /\ wpc \in {"top", "wait", "draw"}
    BY <1>6 DEF Top, Key, NoKey, showimage
  <2>2. \A r \in Runners : hpc[r] = "idle"
    BY <2>1 DEF KeyOrder, Runners
  <2>3. Order' /\ KeyOrder'
    BY <2>1, <2>2 DEF Order, KeyOrder, runVars, program
  <2>4. MaskTypes' /\ MaskStages'
    BY <2>1, OthersKeepMask DEF runVars, mask, maskVars, program
  <2> QED BY <2>3, <2>4
<1>7. ASSUME NEW r \in Runners, Click(r) PROVE MaskInv'
  <2>1. UNCHANGED <<maskVars, program, window>>
    BY <1>7 DEF Click, mouse_detected, maskVars, runVars, mask
  <2>2. crashed' \in {"no", "opening"}
    BY <1>7 DEF Click, Order
  <2>3. Order' /\ KeyOrder'
    BY <2>1, <2>2 DEF Order, KeyOrder, maskVars, program, window
  <2>4. MaskTypes' /\ MaskStages'
    BY <2>1, OthersKeepMask DEF program
  <2> QED BY <2>3, <2>4
<1>8. ASSUME NEW r \in Runners, handle_key(r) \/ Handle(r) PROVE MaskInv'
  <2>1. wpc = r /\ UNCHANGED program
    BY <1>8 DEF handle_key, Handle
  <2>2. CASE runner[r] # "live"
    <3>1. UNCHANGED <<runVars, wpc, program>> /\ crashed' = app
      BY <1>8, <2>2 DEF handle_key, Handle, KeyOrder
    <3>2. app = "opening"
      BY <2>1, <2>2 DEF Order, Runners
    <3>3. Order' /\ KeyOrder'
      BY <3>1, <3>2 DEF Order, KeyOrder, runVars, program
    <3>4. MaskTypes' /\ MaskStages'
      BY <3>1, OthersKeepMask DEF runVars, mask, maskVars, program
    <3> QED BY <3>3, <3>4
  <2>3. CASE runner[r] = "live"
    <3>1. (key_handle(r, key) /\ hpc[r] = "idle") \/ Handling(r)
      BY <1>8, <2>3 DEF handle_key, Handle
    <3>2. UNCHANGED <<program, runner, crashed>>
      BY <1>8, <2>3 DEF handle_key, Handle, program
    <3>3. MaskTypes' /\ MaskStages'
      BY <2>3, <3>1, <3>2, HandlerKeepsMask
    <3>4. \A q \in Runners \ {r} : hpc'[q] = "idle"
      <4>1. \A q \in Runners \ {r} : hpc[q] = "idle"
        BY <2>1 DEF KeyOrder
      <4>2. UNCHANGED hpc \/ \E to : hpc' = [hpc EXCEPT ![r] = to]
        BY <3>1 DEF key_handle, Handling, Begin, Placed, Cancel, Save, Clear, Cancelled,
                    Build, Enable, Run, Goto, runVars
      <4> QED BY <4>1, <4>2 DEF MaskTypes
    <3>5. IF hpc'[r] = "idle" THEN wpc' \in {"student", "draw"} ELSE wpc' = wpc
      BY <1>8, <2>3 DEF handle_key, Handle, After
    <3>6. KeyOrder'
      BY <2>1, <2>3, <3>2, <3>4, <3>5 DEF KeyOrder
    <3>7. Order'
      BY <2>1, <3>2, <3>5 DEF Order, program, Runners
    <3> QED BY <3>3, <3>6, <3>7
  <2> QED BY <2>2, <2>3
<1>9. CASE UNCHANGED appVars
  <2>1. UNCHANGED <<runVars, program, window, crashed>>
    BY <1>9 DEF appVars
  <2>2. Order' /\ KeyOrder'
    BY <2>1 DEF Order, KeyOrder, runVars, program, window
  <2>3. MaskTypes' /\ MaskStages'
    BY <2>1, OthersKeepMask DEF runVars, mask, maskVars, program
  <2> QED BY <2>2, <2>3
<1> QED
  BY <1>1, <1>2, <1>3, <1>4, <1>5, <1>6, <1>7, <1>8, <1>9
     DEF AppNext, Program, WindowThread

-----------------------------------------------------------------------------
(* The theorems.                                                             *)

LEMMA MaskInvariant == AppSpec => []MaskInv
<1>1. AppInit => MaskInv
  BY MaskInit, ApplicationAssumption
<1>2. MaskInv /\ [AppNext]_appVars => MaskInv'
  BY MaskStep, RunningAssumption
<1> QED BY <1>1, <1>2, PTL DEF AppSpec

\* Keys and clicks meet a runner that is not there only while tdt_open has yet
\* to make it: tdt_close ends the window thread before it deletes (tdt.cpp:57).
THEOREM ClosesInOrder == AppSpec => []NullOnlyWhileOpening
<1>1. MaskInv => NullOnlyWhileOpening
  BY DEF MaskInv, Order, NullOnlyWhileOpening
<1> QED BY <1>1, MaskInvariant, PTL

\* The mask of a runner at work is enabled and is what the last calibration, or
\* the configuration at the start, means (build_mask and the handlers of keys).
THEOREM MaskIsMeant == AppSpec => []MaskFollows
<1>1. MaskInv => MaskFollows
  BY DEF MaskInv, MaskStages, Stage, MaskFollows, AtWork, Calibrating
<1> QED BY <1>1, MaskInvariant, PTL
-----------------------------------------------------------------------------
(* Who stands up in the students' picture.                                    *)

\* The regions kept are of the last frame, whose movement is kept too.
Kept ==
    /\ pre_yflow \in [Cells -> Int]
    /\ moved[1] = pre_yflow
    /\ \A r \in pre_up_rects : r \subseteq Cells /\ \A c \in r : pre_yflow[c] <= -Fast

StudentInv == Kept /\ StandNeedsTwo

\* What UpRects finds moves up fast.
LEMMA UpRectsFast ==
    ASSUME NEW yflow
    PROVE  \A r \in UpRects(yflow) : r \subseteq Cells /\ \A c \in r : yflow[c] <= -Fast
<1> SUFFICES ASSUME NEW r \in UpRects(yflow)
             PROVE  r \subseteq Cells /\ \A c \in r : yflow[c] <= -Fast
  OBVIOUS
<1>1. PICK r0 \in Rects({c \in Cells : yflow[c] <= -1}) : r \in Rects({c \in r0 : yflow[c] <= -Fast})
  BY DEF UpRects
<1>2. r0 \subseteq Cells
  BY DEF Rects
<1>3. r \subseteq {c \in r0 : yflow[c] <= -Fast}
  BY <1>1 DEF Rects
<1> QED BY <1>2, <1>3

LEMMA StudentStep ==
    ASSUME StudentAssumption, StudentInv, [one_frame]_studentVars
    PROVE  StudentInv'
<1> USE DEF StudentInv
<1>1. CASE FirstFrame
  BY <1>1 DEF FirstFrame, SwapRects, Kept, StandNeedsTwo
<1>2. ASSUME NEW yflow \in [Cells -> Movements], NextFrame(yflow) PROVE StudentInv'
  <2>1. pre_up_rects' = UpRects(yflow) /\ pre_yflow' = yflow /\ moved' = <<yflow, moved[1]>>
        /\ actions' = StandUps(yflow) \cup SitDowns(yflow)
    BY <1>2 DEF NextFrame, SwapRects
  <2>2. yflow \in [Cells -> Int]
    BY DEF StudentAssumption
  <2>3. Kept'
    BY <2>1, <2>2, UpRectsFast DEF Kept
  <2>4. ASSUME NEW a \in StandUps(yflow)
        PROVE  \E c \in Cells : yflow[c] <= -Fast /\ pre_yflow[c] <= -Fast
    <3> DEFINE Common == {r1 \cap r2 : r1 \in UpRects(yflow), r2 \in pre_up_rects}
    <3>0. PICK q \in Common : 10 * Cardinality(q) > 3 * Body
      BY <2>4 DEF StandUps
    <3>1. PICK r1 \in UpRects(yflow), r2 \in pre_up_rects : q = r1 \cap r2
      BY <3>0
    <3>2. r1 \cap r2 # {}
      BY <3>0, <3>1, FS_EmptySet DEF StudentAssumption
    <3>3. PICK c : c \in r1 /\ c \in r2
      BY <3>2
    <3>4. c \in Cells /\ yflow[c] <= -Fast
      BY <3>3, UpRectsFast
    <3>5. pre_yflow[c] <= -Fast
      BY <3>3 DEF Kept
    <3> QED BY <3>4, <3>5
  <2>5. \A a \in SitDowns(yflow) : a.action = "SITDOWN"
    BY DEF SitDowns
  <2>6. StandNeedsTwo'
    BY <2>1, <2>4, <2>5 DEF StandNeedsTwo, Kept
  <2> QED BY <2>3, <2>6
<1>3. CASE UNCHANGED studentVars
  BY <1>3 DEF studentVars, Kept, StandNeedsTwo
<1> QED BY <1>1, <1>2, <1>3 DEF one_frame

\* Somebody is said to stand up only where two successive frames moved up fast:
\* the regions of older frames are gone when one_frame swaps (line 203).
THEOREM StandUpTakesTwo == StudentSpec => []StandNeedsTwo
<1>1. StudentInit => StudentInv
  BY DEF StudentInit, StudentInv, Kept, StandNeedsTwo, Still
<1>2. StudentInv /\ [one_frame]_studentVars => StudentInv'
  BY StudentStep, StudentAssumption
<1>3. StudentInv => StandNeedsTwo
  BY DEF StudentInv
<1> QED BY <1>1, <1>2, <1>3, PTL DEF StudentSpec
=============================================================================
