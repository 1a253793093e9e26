---------------------------- MODULE DfViewProofs ----------------------------
(***************************************************************************)
(* Proofs about DfView, for every board, any number of test cases, rows,   *)
(* results and touches: its types, what the rows show, that touches stay   *)
(* apart, that the track stays on the screen, however large it is, and     *)
(* what the wifi window shows when a scan is complete.                     *)
(***************************************************************************)
EXTENDS DfView, InductionOnNat, FiniteSetTheorems, TLAPS

-----------------------------------------------------------------------------
(* The types.                                                              *)

Colors == {"init", "ok", "fail", "plain", "cyan", "button"}
Face == [back : Colors \cup {"none"}, font : {"item", "button", "none"},
         fore : Colors \cup {"none"}, text : Colors \cup {"none", "clear"}]
Lines == Ssids \cup {Hidden}
Event == [axis : {"x", "y", "button"}, at : 0 .. Extent, touch : Nat]

ItemTypes ==
  /\ board \in Boards /\ load \in Load
  /\ main \in {"windows", "lists", "buildin", "events", "draw", "listen"}
  /\ inserted \in 0 .. Len(board.cases)
  /\ DOMAIN status \subseteq 0 .. Len(board.cases) /\ status \in [DOMAIN status -> -1 .. 1]

DrawTypes ==
  /\ DOMAIN shown = DOMAIN status \cup {clear_button} /\ shown \in [DOMAIN shown -> Face]
  /\ pen \in [Categories -> [color : Colors, font : {"item", "button"}]]
  /\ job \in [Threads -> {Idle} \cup [row : DOMAIN shown, look : Looks, step : DOMAIN NextStep]]
  /\ disturbed \subseteq DOMAIN shown

TouchTypes ==
  /\ events \in Seq(Event) /\ finger \in Nat
  /\ evt \in {"none", "wait", "button", "track"}
  /\ tp_x \in {None} \cup 1 .. Extent /\ tp_y \in {None} \cup 1 .. Extent
  /\ flag \subseteq {"x", "y"}
  /\ press \in BOOLEAN /\ clear_press \in BOOLEAN /\ switch_press \in BOOLEAN
  /\ joined \in BOOLEAN /\ edge \in BOOLEAN
  /\ <<pre_x, pre_y>> \in {<<None, None>>} \cup Pixels
  /\ of \in Nat /\ pre_of \in Nat

WifiTypes ==
  /\ wifi \in {"none", "open", "read"} /\ lists \in BOOLEAN
  /\ wifi_list \in Seq(Ssids) /\ Len(wifi_list) <= Can
  /\ screen \in [1 .. Can -> Lines]
  /\ wifi_pipe \in Seq(Lines \cup {FLAG})
  /\ tester \in {"none", "find", "scan", "write", "shown", "clear", "exit"}
  /\ misses \in 0 .. 4 /\ (misses = 4 => tester = "exit")
  /\ rounds \in Nat
  /\ scan \in Seq(Lines) /\ sent \in 0 .. Len(scan)

Types == ItemTypes /\ DrawTypes /\ TouchTypes /\ WifiTypes

LEMMA StepsOfDrawing ==
  /\ DOMAIN NextStep = {"back", "fill", "font", "fore", "text"} /\ "done" \notin DOMAIN NextStep
  /\ NextStep["back"] = "fill" /\ NextStep["fill"] = "font" /\ NextStep["font"] = "fore"
  /\ NextStep["fore"] = "text"
BY DEF NextStep

LEMMA LookTypes ==
  /\ \A s \in -1 .. 1 : Look(s) \in Looks
  /\ \A c \in {"plain", "cyan"} : ButtonLook(c) \in Looks /\ ButtonLook(c) \in Face
  /\ Looks \subseteq [back : Colors, font : {"item", "button"}, fore : Colors,
                      text : Colors \cup {"clear"}]
  /\ Blank \in Face
BY DEF Looks, Look, ButtonLook, Color, Colors, Face, Blank

LEMMA TypesMean == Types => TypeOK
<1> SUFFICES ASSUME Types PROVE TypeOK
  OBVIOUS
<1>1. \A s \in Categories : pen[s] \in [color : Colors, font : {"item", "button"}]
  BY DEF Types, DrawTypes
<1>2. \A t \in Threads : \/ job[t] = Idle
                         \/ /\ job[t].row \in DOMAIN shown /\ job[t].look \in Looks
                            /\ job[t].step \in DOMAIN NextStep
  BY DEF Types, DrawTypes
<1>3. \A k \in DOMAIN wifi_list : wifi_list[k] \in Ssids
  BY DEF Types, WifiTypes
<1>4. \A i \in DOMAIN status : status[i] \in -1 .. 1
  BY DEF Types, ItemTypes
<1>5. \A v \in {press, clear_press, switch_press, joined, edge, lists} : v \in BOOLEAN
  BY Zenon DEF Types, TouchTypes, WifiTypes
<1> QED
  BY <1>1, <1>2, <1>3, <1>4, <1>5
     DEF Types, ItemTypes, DrawTypes, TouchTypes, WifiTypes, TypeOK, Colors, Lines

LEMMA CategoryType == ASSUME Types, NEW i PROVE CategoryOf(i) \in Categories
<1>1. board.cases \in Seq(Categories)
  BY DfViewAssumption DEF Types, ItemTypes, Board
<1> QED
  BY <1>1 DEF CategoryOf, Categories

LEMMA IdleOr ==
  ASSUME Types, NEW t \in Threads
  PROVE  /\ ~Drawing(t) => job[t] = Idle
         /\ Drawing(t) => job[t] \in [row : DOMAIN shown, look : Looks, step : DOMAIN NextStep]
         /\ Idle.step = "done" /\ Idle.row = None
BY StepsOfDrawing DEF Types, DrawTypes, Drawing, Idle

\* What a call that draws leaves.
LEMMA DrawStep ==
  ASSUME Types, NEW t \in Threads, Draw(t)
  PROVE  /\ DrawTypes'
         /\ UNCHANGED <<environment, items, touch, lists, scanning>>
<1>1. /\ Drawing(t) /\ job[t] \in [row : DOMAIN shown, look : Looks, step : DOMAIN NextStep]
      /\ UNCHANGED <<environment, items, touch, lists, scanning>>
      /\ job' = [job EXCEPT ![t] = Advanced(job[t])]
  BY IdleOr DEF Draw
<1> DEFINE J == job[t]
<1>2. J.row \in DOMAIN shown /\ J.look \in Looks /\ J.step \in DOMAIN NextStep
  BY <1>1
<1>3. Advanced(J)
        \in {Idle} \cup [row : DOMAIN shown, look : Looks, step : DOMAIN NextStep]
  <2>1. J.step # "text" => NextStep[J.step] \in DOMAIN NextStep
    BY <1>2, StepsOfDrawing
  <2>2. J \in [row : DOMAIN shown, look : Looks, step : DOMAIN NextStep]
    BY <1>1
  <2> HIDE DEF J
  <2> QED
    BY <2>1, <2>2 DEF Advanced
<1>4. Surface(t) \in Categories
  BY CategoryType DEF Surface
<1>5. /\ J.look.back \in Colors /\ J.look.fore \in Colors /\ J.look.font \in {"item", "button"}
      /\ J.look.text \in Colors \cup {"clear"}
  BY <1>2, LookTypes
<1>6. Disturbs(t) \subseteq DOMAIN shown
  <2>1. \A v \in Threads : Drawing(v) => job[v].row \in DOMAIN shown
    BY IdleOr
  <2> QED
    BY <2>1 DEF Disturbs
<1>7. /\ pen' \in [Categories -> [color : Colors, font : {"item", "button"}]]
      /\ disturbed' \subseteq DOMAIN shown
      /\ DOMAIN shown' = DOMAIN shown /\ shown' \in [DOMAIN shown -> Face]
  <2>0. /\ pen \in [Categories -> [color : Colors, font : {"item", "button"}]]
        /\ disturbed \subseteq DOMAIN shown /\ shown \in [DOMAIN shown -> Face]
    BY DEF Types, DrawTypes
  <2>1. ASSUME NEW c \in Colors, SetColor(t, c)
        PROVE  /\ pen' \in [Categories -> [color : Colors, font : {"item", "button"}]]
               /\ disturbed' \subseteq DOMAIN shown /\ shown' = shown
    BY <1>4, <1>6, <2>0, <2>1 DEF SetColor
  <2>2. ASSUME NEW f \in {"item", "button"}, SetFont(t, f)
        PROVE  /\ pen' \in [Categories -> [color : Colors, font : {"item", "button"}]]
               /\ disturbed' \subseteq DOMAIN shown /\ shown' = shown
    BY <1>4, <1>6, <2>0, <2>2 DEF SetFont
  <2>3. /\ pen[Surface(t)].color \in Colors /\ pen[Surface(t)].font \in {"item", "button"}
        /\ shown[J.row] \in Face
    BY <1>2, <1>4, <2>0
  <2>4. ASSUME FillRectangle(t)
        PROVE  /\ UNCHANGED <<pen, disturbed>>
               /\ DOMAIN shown' = DOMAIN shown /\ shown' \in [DOMAIN shown -> Face]
    <3>1. [shown[J.row] EXCEPT !.back = pen[Surface(t)].color] \in Face
      BY <2>3 DEF Face
    <3> QED
      BY <1>2, <2>0, <2>4, <3>1 DEF FillRectangle
  <2>5. ASSUME DrawString(t)
        PROVE  /\ UNCHANGED <<pen, disturbed>>
               /\ DOMAIN shown' = DOMAIN shown /\ shown' \in [DOMAIN shown -> Face]
    <3> DEFINE face == [[[shown[J.row] EXCEPT !.text = J.look.text] EXCEPT !.fore = pen[Surface(t)].color]
                         EXCEPT !.font = pen[Surface(t)].font]
    <3>1. face \in Face
      BY <1>5, <2>3 DEF Face
    <3>2. shown' = [shown EXCEPT ![J.row] = face]
      BY <1>2, <2>0, <2>5 DEF DrawString
    <3> HIDE DEF face
    <3>3. UNCHANGED <<pen, disturbed>>
      BY <2>5 DEF DrawString
    <3> QED
      BY <1>2, <2>0, <3>1, <3>2, <3>3
  <2> QED
    BY <1>2, <1>5, <2>0, <2>1, <2>2, <2>4, <2>5, StepsOfDrawing DEF Draw
<1>8. DOMAIN status' = DOMAIN status /\ DOMAIN shown = DOMAIN status \cup {clear_button}
  BY <1>1 DEF items, Types, DrawTypes
<1>9. job' \in [Threads -> {Idle} \cup [row : DOMAIN shown, look : Looks, step : DOMAIN NextStep]]
  <2> DEFINE next == Advanced(J)
             Jobs == {Idle} \cup [row : DOMAIN shown, look : Looks, step : DOMAIN NextStep]
  <2>1. next \in Jobs /\ job \in [Threads -> Jobs]
    BY <1>3 DEF Types, DrawTypes
  <2>2. job' = [job EXCEPT ![t] = next]
    BY <1>1
  <2> HIDE DEF next, Jobs
  <2>3. job' \in [Threads -> Jobs]
    BY <2>1, <2>2
  <2> QED
    BY <2>3 DEF Jobs
<1>10. /\ DOMAIN shown' = DOMAIN status' \cup {clear_button} /\ shown' \in [DOMAIN shown' -> Face]
       /\ disturbed' \subseteq DOMAIN shown' /\ clear_button' = clear_button
  BY <1>7, <1>8 DEF clear_button
<1>11. job' \in [Threads -> {Idle} \cup [row : DOMAIN shown', look : Looks, step : DOMAIN NextStep]]
  BY <1>7, <1>9
<1> QED
  BY <1>1, <1>7, <1>10, <1>11 DEF DrawTypes

-----------------------------------------------------------------------------
(* Every action keeps the types.                                           *)

LEMMA ItemsKept == ItemTypes /\ UNCHANGED <<environment, items>> => ItemTypes'
BY DEF ItemTypes, environment, items

LEMMA DrawingKept == DrawTypes /\ UNCHANGED <<drawing, status>> => DrawTypes'
BY DEF DrawTypes, drawing, clear_button

LEMMA TouchKept == TouchTypes /\ UNCHANGED touch => TouchTypes'
BY DEF TouchTypes, touch, position, buttons, track

LEMMA WifiKept == WifiTypes /\ UNCHANGED <<lists, scanning>> => WifiTypes'
BY DEF WifiTypes, scanning, list, script

LEMMA JobType ==
  ASSUME Types, NEW S, DOMAIN shown \subseteq S, NEW t \in Threads, NEW i \in S, NEW look \in Looks
  PROVE  /\ Job(i, look) \in [row : S, look : Looks, step : DOMAIN NextStep]
         /\ [job EXCEPT ![t] = Job(i, look)] \in
              [Threads -> {Idle} \cup [row : S, look : Looks, step : DOMAIN NextStep]]
<1>1. Job(i, look) \in [row : S, look : Looks, step : DOMAIN NextStep]
  BY StepsOfDrawing DEF Job
<1>2. job \in [Threads -> {Idle} \cup [row : S, look : Looks, step : DOMAIN NextStep]]
  <2>1. job \in [Threads -> {Idle} \cup [row : DOMAIN shown, look : Looks, step : DOMAIN NextStep]]
    BY DEF Types, DrawTypes
  <2>2. [row : DOMAIN shown, look : Looks, step : DOMAIN NextStep]
          \subseteq [row : S, look : Looks, step : DOMAIN NextStep]
    OBVIOUS
  <2> QED
    BY <2>1, <2>2
<1> HIDE DEF Job
<1> QED
  BY <1>1, <1>2

\* What the calls that insert and update an item leave.
LEMMA InsertStep ==
  ASSUME Types, NEW i \in 0 .. Len(board.cases), df_insert_item(i)
  PROVE  /\ DOMAIN status' \subseteq 0 .. Len(board.cases) /\ status' \in [DOMAIN status' -> -1 .. 1]
         /\ DrawTypes'
         /\ UNCHANGED <<environment, lists, scanning>>
<1>1. UNCHANGED <<environment, pen, disturbed, lists, scanning>> /\ "core" \in Threads
  BY DEF df_insert_item, Threads
<1>2. CASE UNCHANGED <<status, shown, job>>
  <2>1. DrawTypes'
    BY <1>1, <1>2, DrawingKept DEF Types, drawing
  <2> QED
    BY <1>1, <1>2, <2>1 DEF Types, ItemTypes
<1>3. CASE /\ status' = Extended(status, i, -1) /\ shown' = Extended(shown, i, Blank)
           /\ job' = [job EXCEPT !["core"] = Job(i, Look(-1))]
  <2>1. /\ status \in [DOMAIN status -> -1 .. 1] /\ DOMAIN status \subseteq 0 .. Len(board.cases)
        /\ shown \in [DOMAIN shown -> Face] /\ DOMAIN shown = DOMAIN status \cup {clear_button}
        /\ pen \in [Categories -> [color : Colors, font : {"item", "button"}]]
        /\ disturbed \subseteq DOMAIN shown
    BY DEF Types, ItemTypes, DrawTypes
  <2>2. status' \in [DOMAIN status \cup {i} -> -1 .. 1] /\ DOMAIN status' = DOMAIN status \cup {i}
    <3>1. -1 \in -1 .. 1
      OBVIOUS
    <3>2. /\ Extended(status, i, -1) \in [DOMAIN status \cup {i} -> -1 .. 1]
          /\ DOMAIN Extended(status, i, -1) = DOMAIN status \cup {i}
      BY <2>1, <3>1 DEF Extended
    <3> QED
      BY <1>3, <3>2
  <2>3. shown' \in [DOMAIN shown \cup {i} -> Face] /\ DOMAIN shown' = DOMAIN shown \cup {i}
    <3>1. /\ Extended(shown, i, Blank) \in [DOMAIN shown \cup {i} -> Face]
          /\ DOMAIN Extended(shown, i, Blank) = DOMAIN shown \cup {i}
      BY <2>1, LookTypes DEF Extended
    <3> QED
      BY <1>3, <3>1
  <2>4. job' \in [Threads -> {Idle} \cup [row : DOMAIN shown', look : Looks, step : DOMAIN NextStep]]
    <3>1. Look(-1) \in Looks /\ DOMAIN shown \subseteq DOMAIN shown' /\ i \in DOMAIN shown'
      BY <2>3, LookTypes
    <3> QED
      BY <1>1, <1>3, <3>1, JobType
  <2>5. DrawTypes'
    BY <1>1, <2>1, <2>2, <2>3, <2>4 DEF DrawTypes, clear_button
  <2> QED
    BY <1>1, <2>1, <2>2, <2>5
<1> QED
  BY <1>2, <1>3 DEF df_insert_item

LEMMA UpdateStep ==
  ASSUME Types, NEW t \in Threads, NEW i, NEW s \in -1 .. 1, df_update_item(t, i, s)
  PROVE  /\ DOMAIN status' = DOMAIN status /\ status' \in [DOMAIN status' -> -1 .. 1]
         /\ DrawTypes'
<1>1. UNCHANGED <<shown, pen>>
  BY DEF df_update_item
<1>2. CASE UNCHANGED <<status, job, disturbed>>
  <2>1. DrawTypes'
    BY <1>1, <1>2, DrawingKept DEF Types, drawing
  <2> QED
    BY <1>2, <2>1 DEF Types, ItemTypes
<1>3. CASE /\ i \in DOMAIN status /\ status' = [status EXCEPT ![i] = s]
           /\ job' = [job EXCEPT ![t] = Job(i, Look(s))] /\ disturbed' = disturbed \ {i}
  <2>1. /\ status \in [DOMAIN status -> -1 .. 1] /\ DOMAIN shown = DOMAIN status \cup {clear_button}
        /\ disturbed \subseteq DOMAIN shown
        /\ pen \in [Categories -> [color : Colors, font : {"item", "button"}]]
        /\ shown \in [DOMAIN shown -> Face]
    BY DEF Types, ItemTypes, DrawTypes
  <2>2. status' \in [DOMAIN status -> -1 .. 1] /\ DOMAIN status' = DOMAIN status
    BY <1>3, <2>1
  <2>3. job' \in [Threads -> {Idle} \cup [row : DOMAIN shown, look : Looks, step : DOMAIN NextStep]]
    BY <1>3, <2>1, JobType, LookTypes
  <2>4. DrawTypes'
    BY <1>1, <1>3, <2>1, <2>2, <2>3 DEF DrawTypes, clear_button
  <2> QED
    BY <2>2, <2>4
<1> QED
  BY <1>2, <1>3 DEF df_update_item

LEMMA RedrawStep ==
  ASSUME Types, NEW color \in {"plain", "cyan"}, clear_button_redraw(color),
         UNCHANGED <<status, shown, pen>>
  PROVE  DrawTypes'
<1>1. /\ DOMAIN shown = DOMAIN status \cup {clear_button} /\ "event" \in Threads
      /\ disturbed \subseteq DOMAIN shown
  BY DEF Types, DrawTypes, Threads
<1>2. job' \in [Threads -> {Idle} \cup [row : DOMAIN shown, look : Looks, step : DOMAIN NextStep]]
  BY <1>1, JobType, LookTypes DEF clear_button_redraw
<1> QED
  BY <1>1, <1>2 DEF Types, DrawTypes, clear_button_redraw, clear_button

\* What tp_track_draw leaves of the last point.
PointTypes == <<pre_x, pre_y>> \in {<<None, None>>} \cup Pixels /\ pre_of \in Nat /\ joined \in BOOLEAN

LEMMA TrackStep ==
  ASSUME Types, NEW x \in {None} \cup 1 .. Extent, NEW y \in {None} \cup 1 .. Extent,
         NEW how \in -1 .. 1, NEW touched \in Nat,
         NotDrawn \/ tp_track_draw(x, y, how, touched)
  PROVE  PointTypes'
<1>1. CASE NotDrawn
  BY <1>1 DEF NotDrawn, Types, TouchTypes, PointTypes, None, Pixels
<1>2. CASE tp_track_draw(x, y, how, touched)
  <2>0. (joined \/ Joins(how, touched)) \in BOOLEAN
    BY DEF Joins, Types, TouchTypes
  <2>1. CASE x < 0 \/ y < 0
    BY <1>2, <2>1 DEF tp_track_draw, Types, TouchTypes, PointTypes, None, Pixels
  <2>2. CASE ~(x < 0 \/ y < 0)
    <3>1. <<x, y>> \in Pixels
      BY <2>2, DfViewAssumption DEF Pixels, None
    <3>2. /\ joined' \in BOOLEAN /\ pre_of' = touched
          /\ pre_x' = IF how = -1 THEN None ELSE x
          /\ pre_y' = IF how = -1 THEN None ELSE y
      BY <1>2, <2>2, <2>0 DEF tp_track_draw
    <3> QED
      BY <3>1, <3>2 DEF PointTypes, None, Pixels
  <2> QED
    BY <2>1, <2>2
<1> QED
  BY <1>1, <1>2

LEMMA BoardLoad ==
  ASSUME Types
  PROVE  /\ board \in Board /\ load \in Load /\ board.cases \in Seq(Categories)
         /\ Len(board.cases) \in Nat
BY DfViewAssumption DEF Types, ItemTypes, Board

LEMMA TypesInit == Init => Types
<1> SUFFICES ASSUME Init PROVE Types
  OBVIOUS
<1>1. board \in Board /\ load = board.load
  BY DfViewAssumption DEF Init
<1>2. ItemTypes
  <2>1. /\ load \in Load /\ Len(board.cases) \in Nat
    BY <1>1 DEF Board
  <2>2. status = <<>> /\ DOMAIN status = {} /\ status \in [DOMAIN status -> -1 .. 1]
    BY DEF Init
  <2> QED
    BY <1>1, <2>1, <2>2 DEF Init, ItemTypes
<1>3. DrawTypes
  <2>1. /\ shown = [i \in {clear_button} |-> ButtonLook("plain")] /\ DOMAIN status = {}
        /\ pen = [s \in Categories |-> [color |-> "button", font |-> "button"]]
        /\ job = [t \in Threads |-> Idle] /\ disturbed = {}
    BY DEF Init
  <2>2. shown \in [{clear_button} -> Face] /\ DOMAIN shown = {clear_button}
    BY <2>1, LookTypes
  <2>3. job \in [Threads -> {Idle} \cup [row : DOMAIN shown, look : Looks, step : DOMAIN NextStep]]
    BY <2>1
  <2>4. pen \in [Categories -> [color : Colors, font : {"item", "button"}]]
    BY <2>1 DEF Colors
  <2> QED
    BY <2>1, <2>2, <2>3, <2>4 DEF DrawTypes
<1>4. TouchTypes
  <2>1. events \in Seq(Event)
    BY DEF Init
  <2>2. /\ finger = 0 /\ evt = "none" /\ tp_x = None /\ tp_y = None /\ flag = {} /\ press = FALSE
        /\ clear_press = FALSE /\ switch_press = FALSE /\ pre_x = None /\ pre_y = None
        /\ of = 0 /\ pre_of = 0 /\ joined = FALSE /\ edge = FALSE
    BY DEF Init
  <2> QED
    BY <2>1, <2>2 DEF TouchTypes
<1>5. WifiTypes
  <2>1. /\ wifi_list \in Seq(Ssids) /\ Len(wifi_list) <= Can /\ wifi_pipe \in Seq(Lines \cup {FLAG})
        /\ scan \in Seq(Lines) /\ sent \in 0 .. Len(scan)
    BY DfViewAssumption DEF Init
  <2>2. screen \in [1 .. Can -> Lines]
    BY DEF Init, Lines
  <2>3. /\ wifi \in {"none", "open", "read"} /\ lists \in BOOLEAN /\ misses \in 0 .. 4
        /\ (misses = 4 => tester = "exit") /\ rounds \in Nat
        /\ tester \in {"none", "find", "scan", "write", "shown", "clear", "exit"}
    <3>1. lists \in BOOLEAN
      BY Zenon DEF Init
    <3>2. misses = 0 /\ rounds = 0 /\ wifi = "none" /\ tester = "none"
      BY DEF Init
    <3> QED
      BY <3>1, <3>2
  <2> QED
    BY <2>1, <2>2, <2>3 DEF WifiTypes
<1> QED
  BY <1>2, <1>3, <1>4, <1>5 DEF Types

\* wifitester.sh does not run before the launcher does.
Launched == main # "listen" => tester = "none"

LEMMA CoreTypes ==
  ASSUME Types, Launched,
         df_windows_init \/ InitLists \/ buildin_tc_init \/ StartEvents \/ draw_testcases
         \/ Launch \/ Listen
  PROVE  Types'
<1> USE BoardLoad
<1>1. CASE df_windows_init
  <2>1. ItemTypes' /\ DrawTypes' /\ TouchTypes'
    BY <1>1, DrawingKept, TouchKept DEF df_windows_init, environment, Types, ItemTypes
  <2>2. WifiTypes'
    BY <1>1 DEF df_windows_init, Types, WifiTypes, script
  <2> QED
    BY <2>1, <2>2 DEF Types
<1>2. CASE InitLists
  <2>1. ItemTypes' /\ DrawTypes' /\ TouchTypes'
    BY <1>2, DrawingKept, TouchKept DEF InitLists, environment, Types, ItemTypes
  <2>2. WifiTypes'
    BY <1>2 DEF InitLists, Types, WifiTypes, scanning, list, script
  <2> QED
    BY <2>1, <2>2 DEF Types
<1>3. CASE buildin_tc_init
  <2>1. /\ DOMAIN status' \subseteq 0 .. Len(board.cases) /\ status' \in [DOMAIN status' -> -1 .. 1]
        /\ DrawTypes' /\ UNCHANGED <<environment, lists, scanning>>
    BY <1>3, InsertStep DEF buildin_tc_init, tp
  <2>2. ItemTypes'
    BY <1>3, <2>1 DEF buildin_tc_init, environment, Types, ItemTypes
  <2>3. TouchTypes' /\ WifiTypes'
    BY <1>3, <2>1, TouchKept, WifiKept DEF buildin_tc_init, Types
  <2> QED
    BY <2>1, <2>2, <2>3 DEF Types
<1>4. CASE StartEvents
  <2>1. ItemTypes' /\ DrawTypes' /\ WifiTypes'
    BY <1>4, DrawingKept, WifiKept DEF StartEvents, environment, Types, ItemTypes
  <2>2. TouchTypes'
    BY <1>4 DEF StartEvents, Types, TouchTypes, position, buttons, track
  <2> QED
    BY <2>1, <2>2 DEF Types
<1>5. CASE draw_testcases
  <2>0. inserted + 1 \in 0 .. Len(board.cases)
    BY <1>5 DEF draw_testcases, Types, ItemTypes
  <2>1. /\ DOMAIN status' \subseteq 0 .. Len(board.cases) /\ status' \in [DOMAIN status' -> -1 .. 1]
        /\ DrawTypes' /\ UNCHANGED <<environment, lists, scanning>>
    BY <1>5, <2>0, InsertStep DEF draw_testcases
  <2>2. ItemTypes'
    BY <1>5, <2>0, <2>1 DEF draw_testcases, environment, Types, ItemTypes
  <2>3. TouchTypes' /\ WifiTypes'
    BY <1>5, <2>1, TouchKept, WifiKept DEF draw_testcases, Types
  <2> QED
    BY <2>1, <2>2, <2>3 DEF Types
<1>6. CASE Launch
  <2>1. ItemTypes' /\ DrawTypes' /\ TouchTypes'
    BY <1>6, DrawingKept, TouchKept DEF Launch, environment, Types, ItemTypes
  <2>4. WifiTypes'
    BY <1>6 DEF Launch, Launched, Types, WifiTypes, list
  <2> QED
    BY <2>1, <2>4 DEF Types
<1>7. CASE Listen
  <2>0. load' \in Load
    BY <1>7 DEF Listen, Load
  <2>1. PICK i \in 1 .. Len(board.cases), s \in -1 .. 1 : df_update_item("core", i, s)
    BY <1>7 DEF Listen
  <2>2. DOMAIN status' = DOMAIN status /\ status' \in [DOMAIN status' -> -1 .. 1] /\ DrawTypes'
    BY <2>1, UpdateStep DEF Threads
  <2>3. ItemTypes'
    BY <1>7, <2>0, <2>2 DEF Listen, Types, ItemTypes
  <2>4. TouchTypes' /\ WifiTypes'
    BY <1>7, TouchKept, WifiKept DEF Listen, Types
  <2> QED
    BY <2>2, <2>3, <2>4 DEF Types
<1> QED
  BY <1>1, <1>2, <1>3, <1>4, <1>5, <1>6, <1>7

\* The event thread.
LEMMA EventTypes ==
  ASSUME Types, Touch \/ GetEvent \/ button_handle \/ Press
  PROVE  Types'
<1> USE BoardLoad
<1>0. /\ tp_x \in {None} \cup 1 .. Extent /\ tp_y \in {None} \cup 1 .. Extent
      /\ flag \subseteq {"x", "y"} /\ events \in Seq(Event) /\ finger \in Nat /\ of \in Nat
      /\ press \in BOOLEAN /\ edge \in BOOLEAN
  BY DEF Types, TouchTypes
<1>1. CASE Touch
  <2>1. load' \in Load
    BY <1>1 DEF Touch, Load
  <2>2. ItemTypes' /\ DrawTypes' /\ WifiTypes'
    BY <1>1, <2>1, DrawingKept, WifiKept DEF Touch, items, Types, ItemTypes
  <2>3. PICK axis \in {"x", "y", "button"}, at \in 0 .. Extent :
          /\ events' = Append(events, [axis |-> axis, at |-> at,
                                       touch |-> IF finger % 2 = 1 THEN finger ELSE finger + 1])
          /\ finger' = IF axis = "button" THEN finger + 1 ELSE finger
    BY <1>1 DEF Touch
  <2>4. finger' \in Nat /\ events' \in Seq(Event)
    <3>1. [axis |-> axis, at |-> at, touch |-> IF finger % 2 = 1 THEN finger ELSE finger + 1]
            \in Event
      BY <1>0 DEF Event
    <3> QED
      BY <1>0, <2>3, <3>1
  <2>5. TouchTypes'
    BY <1>1, <2>4 DEF Touch, Types, TouchTypes, position, buttons, track
  <2> QED
    BY <2>2, <2>5 DEF Types
<1>2. CASE GetEvent
  <2> DEFINE e == Head(events)
             x == IF e.axis = "x" THEN e.at ELSE 0
             y == IF e.axis = "y" THEN e.at ELSE 0
             flagged == flag \cup (IF x # 0 THEN {"x"} ELSE {}) \cup (IF y # 0 THEN {"y"} ELSE {})
  <2>1. e \in Event /\ events' \in Seq(Event)
    BY <1>0, <1>2 DEF GetEvent
  <2>2. x \in 0 .. Extent /\ y \in 0 .. Extent /\ e.touch \in Nat
    BY <2>1, DfViewAssumption DEF Event
  <2>3. /\ evt = "wait"
        /\ tp_x' = IF x # 0 THEN x ELSE tp_x
        /\ tp_y' = IF y # 0 THEN y ELSE tp_y
        /\ of' = e.touch
        /\ edge' = (edge \/ (e.axis # "button" /\ e.at = 0))
        /\ \/ /\ x = 0 /\ y = 0
              /\ df_update_item("event", tp, 0)
              /\ evt' = "button"
              /\ flag' = flagged
              /\ NotDrawn
           \/ /\ x # 0 \/ y # 0
              /\ IF Point(flagged) THEN tp_track_draw(tp_x', tp_y', How, e.touch) ELSE NotDrawn
              /\ flag' = IF Point(flagged) THEN {} ELSE flagged
              /\ UNCHANGED <<evt, status, drawing>>
        /\ UNCHANGED <<environment, main, inserted, finger, buttons, press, lists, scanning>>
    BY <1>2 DEF GetEvent
  <2>4. flagged \subseteq {"x", "y"}
    BY <1>0
  <2> HIDE DEF e, x, y, flagged
  <2>5. /\ tp_x' \in {None} \cup 1 .. Extent /\ tp_y' \in {None} \cup 1 .. Extent
        /\ of' \in Nat /\ flag' \subseteq {"x", "y"} /\ evt' \in {"none", "wait", "button", "track"}
    <3>1. tp_x' \in {None} \cup 1 .. Extent
      BY <1>0, <2>2, <2>3, DfViewAssumption
    <3>2. tp_y' \in {None} \cup 1 .. Extent
      BY <1>0, <2>2, <2>3, DfViewAssumption
    <3>3. of' \in Nat /\ flag' \subseteq {"x", "y"}
      BY <2>2, <2>3, <2>4
    <3>4. evt' \in {"none", "wait", "button", "track"}
      BY <2>3
    <3> QED
      BY <3>1, <3>2, <3>3, <3>4
  <2>6. PointTypes'
    BY <2>2, <2>3, <2>5, TrackStep DEF How
  <2>7. edge' \in BOOLEAN
    BY <2>3, <1>0
  <2>8. /\ DOMAIN status' = DOMAIN status /\ status' \in [DOMAIN status' -> -1 .. 1] /\ DrawTypes'
    <3>1. CASE df_update_item("event", tp, 0)
      BY <3>1, UpdateStep DEF Threads
    <3>2. CASE UNCHANGED <<evt, status, drawing>>
      BY <3>2, DrawingKept DEF Types, ItemTypes
    <3> QED
      BY <2>3, <3>1, <3>2
  <2>9. ItemTypes' /\ WifiTypes'
    BY <2>3, <2>8, WifiKept DEF Types, ItemTypes, environment
  <2>10. TouchTypes'
    BY <2>1, <2>3, <2>5, <2>6, <2>7 DEF Types, TouchTypes, PointTypes, buttons
  <2> QED
    BY <2>8, <2>9, <2>10 DEF Types
<1>3. CASE button_handle
  <2>1. /\ clear_press' \in BOOLEAN /\ switch_press' \in BOOLEAN /\ evt' = "track"
        /\ UNCHANGED <<environment, items, shown, pen, events, finger, position, track, edge, lists,
                       scanning>>
        /\ \/ UNCHANGED <<job, disturbed>>
           \/ \E color \in {"plain", "cyan"} : clear_button_redraw(color)
    <3>1. clear_press \in BOOLEAN /\ switch_press \in BOOLEAN
      BY DEF Types, TouchTypes
    <3> QED
      BY <1>3, <3>1 DEF button_handle
  <2>2. DrawTypes'
    BY <2>1, RedrawStep, DrawingKept DEF items, drawing, Types
  <2>3. ItemTypes' /\ WifiTypes'
    BY <2>1, ItemsKept, WifiKept DEF Types
  <2>4. TouchTypes'
    BY <2>1 DEF Types, TouchTypes, position, track
  <2> QED
    BY <2>2, <2>3, <2>4 DEF Types
<1>4. CASE Press
  <2>1. /\ flag' = {} /\ evt' = "wait" /\ press' \in BOOLEAN
        /\ UNCHANGED <<environment, items, drawing, events, finger, tp_x, tp_y, of, buttons, edge,
                       lists, scanning>>
        /\ \E how \in -1 .. 1 : NotDrawn \/ tp_track_draw(tp_x, tp_y, how, of)
    <3>1. /\ flag' = {} /\ evt' = "wait"
          /\ UNCHANGED <<environment, items, drawing, events, finger, tp_x, tp_y, of, buttons, edge,
                         lists, scanning>>
      BY <1>4 DEF Press
    <3>2. CASE tp_track_draw(tp_x, tp_y, -1, of) /\ press' = FALSE
      <4>1. -1 \in -1 .. 1
        OBVIOUS
      <4> QED
        BY <3>1, <3>2, <4>1
    <3>3. CASE press' = TRUE /\ (tp_track_draw(tp_x, tp_y, How, of) \/ NotDrawn)
      <4>1. How \in -1 .. 1
        BY DEF How
      <4> QED
        BY <3>1, <3>3, <4>1
    <3> QED
      BY <1>4, <3>2, <3>3 DEF Press
  <2>2. PointTypes'
    BY <1>0, <2>1, TrackStep
  <2>3. ItemTypes' /\ DrawTypes' /\ WifiTypes'
    BY <2>1, ItemsKept, DrawingKept, WifiKept DEF Types, items
  <2>4. TouchTypes'
    BY <2>1, <2>2 DEF Types, TouchTypes, PointTypes, buttons
  <2> QED
    BY <2>3, <2>4 DEF Types
<1> QED
  BY <1>1, <1>2, <1>3, <1>4

\* wifitester.sh and the wifi thread.
LEMMA WifiStepTypes ==
  ASSUME Types,
         FindWlan0 \/ ScanWlan0 \/ WriteItem \/ WriteFlag \/ DownWlan0 \/ WriteLastFlag
         \/ OpenPipe \/ wifi_hot_point_proccess
  PROVE  Types'
<1>0. UNCHANGED <<environment, items, drawing, touch, lists>>
  BY DEF FindWlan0, ScanWlan0, WriteItem, WriteFlag, DownWlan0, WriteLastFlag, OpenPipe,
         wifi_hot_point_proccess, Write
<1>w. /\ wifi \in {"none", "open", "read"} /\ lists \in BOOLEAN
      /\ wifi_list \in Seq(Ssids) /\ Len(wifi_list) <= Can
      /\ screen \in [1 .. Can -> Lines]
      /\ wifi_pipe \in Seq(Lines \cup {FLAG})
      /\ tester \in {"none", "find", "scan", "write", "shown", "clear", "exit"}
      /\ misses \in 0 .. 4 /\ (misses = 4 => tester = "exit")
      /\ rounds \in Nat
      /\ scan \in Seq(Lines) /\ sent \in 0 .. Len(scan)
  BY DEF Types, WifiTypes
<1>l. lists' = lists
  BY <1>0
<1>1. CASE FindWlan0
  <2>1. misses' \in 0 .. 4 /\ (misses' = 4 => tester' = "exit") /\ tester' \in {"find", "scan", "exit"}
    BY <1>1, <1>w DEF FindWlan0
  <2> QED
    BY <1>0, <1>1, <1>w, <2>1, ItemsKept, DrawingKept, TouchKept
       DEF FindWlan0, Types, WifiTypes, list, items
<1>2. CASE ScanWlan0
  <2>1. PICK n \in 0 .. load.found : scan' \in [1 .. n -> Lines]
    BY <1>2 DEF ScanWlan0, Lines
  <2>2. load.found \in Nat
    BY BoardLoad DEF Load
  <2>3. scan' \in Seq(Lines) /\ sent' = 0 /\ Len(scan') \in Nat
    BY <1>2, <2>1, <2>2 DEF ScanWlan0
  <2>4. WifiTypes'
    BY <1>2, <1>w, <1>l, <2>3 DEF ScanWlan0, WifiTypes, list
  <2> QED
    BY <1>0, <2>4, ItemsKept, DrawingKept, TouchKept DEF Types, items
<1>3. CASE WriteItem
  <2>1. scan[sent + 1] \in Lines /\ sent' \in 0 .. Len(scan)
    BY <1>3, <1>w DEF WriteItem
  <2>2. wifi_pipe' \in Seq(Lines \cup {FLAG})
    BY <1>3, <1>w, <2>1 DEF WriteItem, Write
  <2>3. WifiTypes'
    BY <1>3, <1>w, <1>l, <2>1, <2>2 DEF WriteItem, Write, WifiTypes, list
  <2> QED
    BY <1>0, <2>3, ItemsKept, DrawingKept, TouchKept DEF Types, items
<1>4. CASE WriteFlag
  <2>1. wifi_pipe' \in Seq(Lines \cup {FLAG})
    BY <1>4, <1>w DEF WriteFlag, Write
  <2>2. WifiTypes'
    BY <1>4, <1>w, <1>l, <2>1 DEF WriteFlag, Write, WifiTypes, list
  <2> QED
    BY <1>0, <2>2, ItemsKept, DrawingKept, TouchKept DEF Types, items
<1>5. CASE DownWlan0
  <2>1. WifiTypes'
    BY <1>5, <1>w, <1>l DEF DownWlan0, WifiTypes, list
  <2> QED
    BY <1>0, <2>1, ItemsKept, DrawingKept, TouchKept DEF Types, items
<1>6. CASE WriteLastFlag
  <2>1. wifi_pipe' \in Seq(Lines \cup {FLAG}) /\ scan' \in Seq(Lines) /\ sent' \in 0 .. Len(scan')
    BY <1>6, <1>w DEF WriteLastFlag, Write
  <2>2. WifiTypes'
    BY <1>6, <1>w, <1>l, <2>1 DEF WriteLastFlag, Write, WifiTypes, list
  <2> QED
    BY <1>0, <2>2, ItemsKept, DrawingKept, TouchKept DEF Types, items
<1>7. CASE OpenPipe
  <2>1. WifiTypes'
    BY <1>7, <1>w, <1>l DEF OpenPipe, WifiTypes, script
  <2> QED
    BY <1>0, <2>1, ItemsKept, DrawingKept, TouchKept DEF Types, items
<1>8. CASE wifi_hot_point_proccess
  <2> DEFINE line == Head(wifi_pipe)
  <2>1. /\ line \in Lines \cup {FLAG} /\ wifi_pipe' \in Seq(Lines \cup {FLAG})
        /\ IF line = FLAG THEN RoundEnds
           ELSE IF Ignored(line) THEN UNCHANGED <<wifi_list, screen>> ELSE HotPoint(line)
        /\ UNCHANGED <<wifi, script>>
    BY <1>8, <1>w DEF wifi_hot_point_proccess
  <2> HIDE DEF line
  <2>2. /\ wifi_list' \in Seq(Ssids) /\ Len(wifi_list') <= Can
        /\ screen' \in [1 .. Can -> Lines]
    <3>1. CASE RoundEnds
      BY <1>w, <3>1, DfViewAssumption DEF RoundEnds, Lines
    <3>2. CASE UNCHANGED <<wifi_list, screen>>
      BY <1>w, <3>2
    <3>3. CASE line # FLAG /\ ~Ignored(line) /\ HotPoint(line)
      <4>1. line \in Ssids /\ line \in Lines
        BY <2>1, <3>3 DEF Ignored, Lines
      <4>2. Len(wifi_list) < Can
        BY <1>w, <3>3, DfViewAssumption DEF Ignored
      <4> QED
        BY <1>w, <3>3, <4>1, <4>2, DfViewAssumption DEF HotPoint
    <3> QED
      BY <2>1, <3>1, <3>2, <3>3
  <2>3. WifiTypes'
    BY <1>w, <1>l, <2>1, <2>2 DEF WifiTypes, script
  <2> QED
    BY <1>0, <2>3, ItemsKept, DrawingKept, TouchKept DEF Types, items
<1> QED
  BY <1>1, <1>2, <1>3, <1>4, <1>5, <1>6, <1>7, <1>8

LEMMA LaunchedStep == Types /\ Launched /\ [Next]_vars => Launched'
<1> SUFFICES ASSUME Launched, [Next]_vars PROVE Launched'
  OBVIOUS
<1>1. CASE UNCHANGED vars
  BY <1>1 DEF Launched, vars, items, scanning, script
<1>2. CASE df_windows_init \/ InitLists \/ buildin_tc_init \/ StartEvents \/ draw_testcases \/ Launch \/ Listen
  BY <1>2 DEF Launched, df_windows_init, InitLists, buildin_tc_init, StartEvents, draw_testcases,
              Launch, Listen, df_insert_item, scanning, script
<1>3. CASE (\E t \in Threads : Draw(t)) \/ Touch \/ GetEvent \/ button_handle \/ Press
  BY <1>3 DEF Launched, Draw, Touch, GetEvent, button_handle, Press, items, scanning, script
<1>4. CASE FindWlan0 \/ ScanWlan0 \/ WriteItem \/ WriteFlag \/ DownWlan0 \/ WriteLastFlag
           \/ OpenPipe \/ wifi_hot_point_proccess
  BY <1>4 DEF Launched, FindWlan0, ScanWlan0, WriteItem, WriteFlag, DownWlan0, WriteLastFlag,
              OpenPipe, wifi_hot_point_proccess, Write, items, script
<1> QED
  BY <1>1, <1>2, <1>3, <1>4 DEF Next

LEMMA TypesStep == Types /\ Launched /\ [Next]_vars => Types'
<1> SUFFICES ASSUME Types, Launched, [Next]_vars PROVE Types'
  OBVIOUS
<1>1. CASE UNCHANGED vars
  BY <1>1, ItemsKept, DrawingKept, TouchKept, WifiKept DEF Types, vars, items
<1>2. ASSUME NEW t \in Threads, Draw(t) PROVE Types'
  BY <1>2, DrawStep, ItemsKept, TouchKept, WifiKept DEF Types
<1> QED
  BY <1>1, <1>2, CoreTypes, EventTypes, WifiStepTypes DEF Next

\* TypeOK: rows, colours and fonts are what they can be, a thread draws rows that are there,
\* the window of hot points is never longer than its rows, and the last point of the track is
\* a pixel of the screen (df_view.c, tp_track.c).
THEOREM DfTypeCorrect == Spec => []TypeOK
<1>1. Init => Types /\ Launched
  BY TypesInit DEF Init, Launched
<1>2. (Types /\ Launched) /\ [Next]_vars => (Types /\ Launched)'
  BY TypesStep, LaunchedStep
<1>3. Types /\ Launched => TypeOK
  BY TypesMean
<1> QED
  BY <1>1, <1>2, <1>3, PTL DEF Spec

-----------------------------------------------------------------------------
(* What the rows show.                                                     *)

\* The core draws what it has inserted or updated, and leaves the touch panel item to the
\* event thread when that one has started.
CoreDraws ==
  Drawing("core") => /\ job["core"].row \in DOMAIN status
                     /\ job["core"].look = Look(status[job["core"].row])
                     /\ evt # "none" => job["core"].row # tp

\* The event thread draws the touch panel item or the clear button.
EventDraws ==
  Drawing("event") =>
    /\ evt # "none"
    /\ \/ /\ job["event"].row = tp /\ tp \in DOMAIN status
          /\ job["event"].look = Look(status[tp])
       \/ /\ job["event"].row = clear_button
          /\ clear_press => job["event"].look = ButtonLook("cyan")

EventsStarted == evt # "none" => main \in {"draw", "listen"}

\* As long as no other thread has set the pen, it is as the last calls have left it.
PenHolds(t) ==
  Drawing(t) /\ job[t].row \notin disturbed =>
    /\ job[t].step = "fill" => pen[Surface(t)].color = job[t].look.back
    /\ job[t].step \in {"font", "fore", "text"} => shown[job[t].row].back = job[t].look.back
    /\ job[t].step \in {"fore", "text"} => pen[Surface(t)].font = job[t].look.font
    /\ job[t].step = "text" => pen[Surface(t)].color = job[t].look.fore

ItemsShown ==
  \A i \in DOMAIN status \ disturbed :
    (\A t \in Threads : job[t].row # i) => shown[i] = Look(status[i])

ClearShown ==
  clear_press /\ clear_button \notin disturbed /\ job["event"].row # clear_button
    => shown[clear_button] = ButtonLook("cyan")

ManualOnly == \A i \in disturbed : CategoryOf(i) = "manual"

RowsInv ==
  /\ CoreDraws /\ EventDraws /\ EventsStarted
  /\ \A t \in Threads : PenHolds(t)
  /\ ItemsShown /\ ClearShown /\ ManualOnly

LEMMA RowsApart ==
  ASSUME Types, RowsInv
  PROVE  /\ None \notin DOMAIN status /\ clear_button \notin DOMAIN status /\ None # clear_button
         /\ Threads = {"core", "event"} /\ "core" # "event"
         /\ Drawing("core") /\ Drawing("event") => job["core"].row # job["event"].row
         /\ Drawing("event") => Surface("event") = "manual"
         /\ \A t \in Threads : Drawing(t) => job[t].row \in DOMAIN shown
         /\ \A t \in Threads : ~Drawing(t) => job[t].row = None
<1>1. /\ None \notin DOMAIN status /\ clear_button \notin DOMAIN status /\ None # clear_button
  BY DEF Types, ItemTypes, None, clear_button
<1>2. Threads = {"core", "event"} /\ "core" # "event"
  BY DEF Threads
<1>3. Drawing("core") /\ Drawing("event") => job["core"].row # job["event"].row
  BY <1>1 DEF RowsInv, CoreDraws, EventDraws
<1>4. Drawing("event") => Surface("event") = "manual"
  <2>1. 0 \notin 1 .. Len(board.cases) /\ -2 \notin 1 .. Len(board.cases)
    OBVIOUS
  <2> QED
    BY <2>1 DEF RowsInv, EventDraws, Surface, CategoryOf, tp, clear_button
<1>5. \A t \in Threads : Drawing(t) => job[t].row \in DOMAIN shown
  BY IdleOr
<1>6. \A t \in Threads : ~Drawing(t) => job[t].row = None
  BY IdleOr
<1> QED
  BY <1>1, <1>2, <1>3, <1>4, <1>5, <1>6

\* The last call for a row gives it its look.
LEMMA DrawnLook ==
  ASSUME Types, RowsInv, NEW t \in Threads, Draw(t), job[t].step = "text",
         job[t].row \notin disturbed
  PROVE  shown'[job[t].row] = job[t].look
<1> DEFINE r == job[t].row
           look == job[t].look
           p == pen[Surface(t)]
<1>1. Drawing(t) /\ r \in DOMAIN shown /\ look \in Looks
  BY IdleOr DEF Draw
<1>2. /\ shown[r].back = look.back /\ p.font = look.font /\ p.color = look.fore
  BY <1>1 DEF RowsInv, PenHolds
<1>3. DrawString(t)
  BY StepsOfDrawing DEF Draw
<1>4. shown'[r] = [[[shown[r] EXCEPT !.text = look.text] EXCEPT !.fore = p.color] EXCEPT !.font = p.font]
  BY <1>1, <1>3 DEF DrawString, Types, DrawTypes
<1>5. shown[r] \in Face
  BY <1>1 DEF Types, DrawTypes
<1>6. look \in [back : Colors, font : {"item", "button"}, fore : Colors, text : Colors \cup {"clear"}]
  BY <1>1, LookTypes
<1> HIDE DEF r, look, p
<1>7. shown'[r] = [back |-> shown[r].back, font |-> p.font, fore |-> p.color, text |-> look.text]
  BY <1>4, <1>5 DEF Face
<1>8. look = [back |-> look.back, font |-> look.font, fore |-> look.fore, text |-> look.text]
  BY <1>6
<1>9. shown'[r] = look
  BY <1>2, <1>7, <1>8
<1> QED
  BY <1>9 DEF r, look

\* What a call of thread t does to the other rows.
LEMMA DrawOthers ==
  ASSUME Types, RowsInv, NEW t \in Threads, Draw(t)
  PROVE  /\ UNCHANGED <<board, status, evt, main, clear_press>>
         /\ disturbed \subseteq disturbed'
         /\ \A i \in disturbed' : CategoryOf(i) = "manual"
         /\ \A i \in DOMAIN shown : i # job[t].row => shown'[i] = shown[i]
         /\ \A u \in Threads \ {t} : job'[u] = job[u]
         /\ \A u \in Threads \ {t} :
              Drawing(u) /\ job[u].step # "back" /\ job[u].row \notin disturbed'
                => pen'[Surface(u)] = pen[Surface(u)]
         /\ job'[t] = IF job[t].step = "text" THEN Idle
                      ELSE [job[t] EXCEPT !.step = NextStep[job[t].step]]
<1>1. /\ Drawing(t) /\ job[t] \in [row : DOMAIN shown, look : Looks, step : DOMAIN NextStep]
      /\ UNCHANGED <<environment, items, touch, lists, scanning>>
      /\ job' = [job EXCEPT ![t] = Advanced(job[t])]
  BY IdleOr DEF Draw
<1>2. UNCHANGED <<board, status, evt, main, clear_press>>
  BY <1>1 DEF environment, items, touch, buttons
<1>3. job'[t] = Advanced(job[t]) /\ \A u \in Threads \ {t} : job'[u] = job[u]
  BY <1>1 DEF Types, DrawTypes
<1>4. /\ pen \in [Categories -> [color : Colors, font : {"item", "button"}]]
      /\ shown \in [DOMAIN shown -> Face]
  BY DEF Types, DrawTypes
<1>5. \/ /\ disturbed' = disturbed \cup Disturbs(t) /\ shown' = shown
         /\ \A s \in Categories \ {Surface(t)} : pen'[s] = pen[s]
      \/ /\ UNCHANGED <<pen, disturbed>>
         /\ \A i \in DOMAIN shown : i # job[t].row => shown'[i] = shown[i]
  <2>1. ASSUME NEW c, SetColor(t, c)
        PROVE  /\ disturbed' = disturbed \cup Disturbs(t) /\ shown' = shown
               /\ \A s \in Categories \ {Surface(t)} : pen'[s] = pen[s]
    BY <1>4, <2>1 DEF SetColor
  <2>2. ASSUME NEW f, SetFont(t, f)
        PROVE  /\ disturbed' = disturbed \cup Disturbs(t) /\ shown' = shown
               /\ \A s \in Categories \ {Surface(t)} : pen'[s] = pen[s]
    BY <1>4, <2>2 DEF SetFont
  <2>3. ASSUME FillRectangle(t)
        PROVE  /\ UNCHANGED <<pen, disturbed>>
               /\ \A i \in DOMAIN shown : i # job[t].row => shown'[i] = shown[i]
    BY <1>4, <2>3 DEF FillRectangle
  <2>4. ASSUME DrawString(t)
        PROVE  /\ UNCHANGED <<pen, disturbed>>
               /\ \A i \in DOMAIN shown : i # job[t].row => shown'[i] = shown[i]
    BY <1>4, <2>4 DEF DrawString
  <2>5. job[t].step \in {"back", "fill", "font", "fore", "text"}
    BY <1>1, StepsOfDrawing
  <2> QED
    BY <2>1, <2>2, <2>3, <2>4, <2>5 DEF Draw
<1>6. ASSUME NEW u \in Threads \ {t}, Drawing(u), job[u].step # "back", job[u].row \notin disturbed'
      PROVE  pen'[Surface(u)] = pen[Surface(u)]
  <2>1. Surface(u) \in Categories
    BY CategoryType DEF Surface
  <2>2. Surface(u) = Surface(t) => job[u].row \in Disturbs(t)
    BY <1>6 DEF Disturbs
  <2> QED
    BY <1>5, <1>6, <2>1, <2>2
<1>7. \A i \in Disturbs(t) : CategoryOf(i) = "manual"
  <2>1. SUFFICES ASSUME NEW u \in Threads \ {t}, Drawing(u), Surface(u) = Surface(t)
                 PROVE  CategoryOf(job[u].row) = "manual"
    BY DEF Disturbs
  <2>2. u = "event" \/ t = "event"
    BY RowsApart
  <2>3. Surface(u) = "manual"
    BY <1>1, <2>1, <2>2, RowsApart
  <2> QED
    BY <2>3 DEF Surface
<1>8. \A i \in disturbed' : CategoryOf(i) = "manual"
  BY <1>5, <1>7 DEF RowsInv, ManualOnly
<1>9. disturbed \subseteq disturbed'
  BY <1>5
<1>10. \A i \in DOMAIN shown : i # job[t].row => shown'[i] = shown[i]
  BY <1>5
<1> QED
  BY <1>2, <1>3, <1>6, <1>8, <1>9, <1>10 DEF Advanced

LEMMA DrawRows ==
  ASSUME Types, RowsInv, NEW t \in Threads, Draw(t)
  PROVE  RowsInv'
<1> DEFINE J == job[t]
<1>1. /\ Drawing(t) /\ J \in [row : DOMAIN shown, look : Looks, step : DOMAIN NextStep]
  BY IdleOr DEF Draw
<1>2. UNCHANGED <<board, status, evt, main, clear_press>> /\ disturbed \subseteq disturbed'
  BY DrawOthers
<1>3. /\ J.step = "text" => job'[t] = Idle
      /\ J.step # "text" => /\ job'[t].row = J.row /\ job'[t].look = J.look
                            /\ job'[t].step = NextStep[J.step]
  BY <1>1, DrawOthers
<1>4. Idle.row = None /\ Idle.step = "done"
  BY DEF Idle
<1>5. \A u \in Threads : Drawing(u)' => /\ Drawing(u)
                                        /\ job'[u].row = job[u].row /\ job'[u].look = job[u].look
                                        /\ Surface(u)' = Surface(u)
  <2> SUFFICES ASSUME NEW u \in Threads, Drawing(u)'
               PROVE  /\ Drawing(u) /\ job'[u].row = job[u].row /\ job'[u].look = job[u].look
                      /\ Surface(u)' = Surface(u)
    OBVIOUS
  <2>1. Drawing(u) /\ job'[u].row = job[u].row /\ job'[u].look = job[u].look
    <3>1. CASE u = t
      BY <1>1, <1>3, <1>4, <3>1 DEF Drawing
    <3>2. CASE u # t
      BY <3>2, DrawOthers DEF Drawing
    <3> QED
      BY <3>1, <3>2
  <2> QED
    BY <1>2, <2>1 DEF Surface, CategoryOf
<1>6. CoreDraws' /\ EventDraws' /\ EventsStarted'
  <2>1. "core" \in Threads /\ "event" \in Threads
    BY DEF Threads
  <2>2. CoreDraws' /\ EventsStarted'
    BY <1>2, <1>5, <2>1 DEF RowsInv, CoreDraws, EventsStarted, Look, Color
  <2>3. EventDraws'
    BY <1>2, <1>5, <2>1 DEF RowsInv, EventDraws, Look, Color, tp, clear_button, ButtonLook
  <2> QED
    BY <2>2, <2>3
<1>7. ASSUME NEW u \in Threads PROVE PenHolds(u)'
  <2>1. SUFFICES ASSUME Drawing(u)', job'[u].row \notin disturbed'
                 PROVE  /\ job'[u].step = "fill" => pen'[Surface(u)'].color = job'[u].look.back
                        /\ job'[u].step \in {"font", "fore", "text"}
                             => shown'[job'[u].row].back = job'[u].look.back
                        /\ job'[u].step \in {"fore", "text"}
                             => pen'[Surface(u)'].font = job'[u].look.font
                        /\ job'[u].step = "text" => pen'[Surface(u)'].color = job'[u].look.fore
    BY DEF PenHolds
  <2>2. /\ Drawing(u) /\ job'[u].row = job[u].row /\ job'[u].look = job[u].look
        /\ Surface(u)' = Surface(u) /\ job[u].row \notin disturbed
    BY <1>2, <1>5, <2>1
  <2>3. /\ job[u].step = "fill" => pen[Surface(u)].color = job[u].look.back
        /\ job[u].step \in {"font", "fore", "text"} => shown[job[u].row].back = job[u].look.back
        /\ job[u].step \in {"fore", "text"} => pen[Surface(u)].font = job[u].look.font
        /\ job[u].step = "text" => pen[Surface(u)].color = job[u].look.fore
    BY <2>2 DEF RowsInv, PenHolds
  <2>4. CASE u # t
    <3>1. job'[u] = job[u]
      BY <2>4, DrawOthers
    <3>2. job[u].row \in DOMAIN shown /\ job[u].row # J.row
      BY <1>1, <2>2, <2>4, RowsApart
    <3>3. shown'[job[u].row] = shown[job[u].row]
      BY <3>2, DrawOthers
    <3>4. job[u].step # "back" => pen'[Surface(u)] = pen[Surface(u)]
      BY <2>1, <2>2, <2>4, DrawOthers
    <3> QED
      BY <2>2, <2>3, <3>1, <3>3, <3>4
  <2>5. CASE u = t
    <3>1. J.step # "text" /\ J.step \in {"back", "fill", "font", "fore"}
      BY <1>1, <1>3, <1>4, <2>1, <2>5, StepsOfDrawing DEF Drawing
    <3>2. /\ Surface(t) \in Categories /\ J.row \in DOMAIN shown
          /\ pen \in [Categories -> [color : Colors, font : {"item", "button"}]]
          /\ shown \in [DOMAIN shown -> Face]
      BY <1>1, CategoryType DEF Surface, Types, DrawTypes
    <3>3. job'[t].step = NextStep[J.step]
      BY <1>3, <3>1
    <3>4. CASE J.step = "back"
      <4>1. SetColor(t, J.look.back)
        BY <3>4, StepsOfDrawing DEF Draw
      <4>2. pen'[Surface(t)].color = J.look.back
        BY <3>2, <4>1 DEF SetColor
      <4> QED
        BY <2>2, <2>5, <3>3, <3>4, <4>2, StepsOfDrawing
    <3>5. CASE J.step = "fill"
      <4>1. FillRectangle(t)
        BY <3>5, StepsOfDrawing DEF Draw
      <4>2. shown'[J.row].back = pen[Surface(t)].color
        <5>1. [shown[J.row] EXCEPT !.back = pen[Surface(t)].color].back = pen[Surface(t)].color
          BY <3>2 DEF Face
        <5> QED
          BY <3>2, <4>1, <5>1 DEF FillRectangle
      <4> QED
        BY <2>2, <2>3, <2>5, <3>3, <3>5, <4>2, StepsOfDrawing
    <3>6. CASE J.step = "font"
      <4>1. SetFont(t, J.look.font)
        BY <3>6, StepsOfDrawing DEF Draw
      <4>2. pen'[Surface(t)].font = J.look.font /\ shown' = shown
        BY <3>2, <4>1 DEF SetFont
      <4> QED
        BY <2>2, <2>3, <2>5, <3>3, <3>6, <4>2, StepsOfDrawing
    <3>7. CASE J.step = "fore"
      <4>1. SetColor(t, J.look.fore)
        BY <3>7, StepsOfDrawing DEF Draw
      <4>2. /\ pen'[Surface(t)].color = J.look.fore /\ shown' = shown
            /\ pen'[Surface(t)].font = pen[Surface(t)].font
        BY <3>2, <4>1 DEF SetColor
      <4> QED
        BY <2>2, <2>3, <2>5, <3>3, <3>7, <4>2, StepsOfDrawing
    <3> QED
      BY <3>1, <3>4, <3>5, <3>6, <3>7
  <2> QED
    BY <2>4, <2>5
<1>8. ItemsShown'
  <2>1. SUFFICES ASSUME NEW i \in DOMAIN status \ disturbed', \A u \in Threads : job'[u].row # i
                 PROVE  shown'[i] = Look(status[i])
    BY <1>2 DEF ItemsShown, Look, Color
  <2>2. i \in DOMAIN shown /\ i \notin disturbed
    BY <1>2 DEF Types, DrawTypes
  <2>3. CASE i = J.row
    <3>1. J.step = "text"
      BY <1>3, <2>1, <2>3
    <3>2. J.look = Look(status[i])
      BY <1>1, <2>3, RowsApart DEF RowsInv, CoreDraws, EventDraws
    <3> QED
      BY <2>2, <2>3, <3>1, <3>2, DrawnLook
  <2>4. CASE i # J.row
    <3>1. \A u \in Threads : job[u].row # i
      BY <2>1, <2>4, DrawOthers
    <3> QED
      BY <2>1, <2>2, <2>4, <3>1, DrawOthers DEF RowsInv, ItemsShown
  <2> QED
    BY <2>3, <2>4
<1>9. ClearShown'
  <2>1. SUFFICES ASSUME clear_press, clear_button \notin disturbed', job'["event"].row # clear_button
                 PROVE  shown'[clear_button] = ButtonLook("cyan")
    BY <1>2 DEF ClearShown, clear_button, ButtonLook
  <2>2. clear_button \in DOMAIN shown /\ clear_button \notin disturbed
    BY <1>2, <2>1 DEF Types, DrawTypes
  <2>3. CASE job["event"].row = clear_button
    <3>1. t = "event" /\ J.step = "text" /\ J.row = clear_button
      BY <1>3, <2>1, <2>3, DrawOthers, RowsApart
    <3>2. J.look = ButtonLook("cyan")
      BY <1>1, <2>1, <3>1, RowsApart DEF RowsInv, EventDraws, tp, clear_button
    <3> QED
      BY <2>2, <3>1, <3>2, DrawnLook
  <2>4. CASE job["event"].row # clear_button
    <3>1. J.row # clear_button
      BY <1>1, <2>4, RowsApart DEF RowsInv, CoreDraws
    <3> QED
      BY <2>1, <2>2, <2>4, <3>1, DrawOthers DEF RowsInv, ClearShown
  <2> QED
    BY <2>3, <2>4
<1>10. ManualOnly'
  <2>1. \A i \in disturbed' : CategoryOf(i) = "manual"
    BY DrawOthers
  <2> QED
    BY <1>2, <2>1 DEF ManualOnly, CategoryOf
<1> QED
  BY <1>6, <1>7, <1>8, <1>9, <1>10 DEF RowsInv

\* A new row is drawn from its background on; nobody draws it yet.
LEMMA InsertRows ==
  ASSUME Types, RowsInv, NEW i \in 0 .. Len(board.cases), df_insert_item(i),
         i = tp => evt = "none",
         evt' = evt, clear_press' = clear_press, EventsStarted'
  PROVE  RowsInv'
<1>1. UNCHANGED <<board, pen, disturbed>> /\ ~Drawing("core") /\ "core" \in Threads
  BY DEF df_insert_item, environment, Threads
<1>2. ManualOnly'
  BY <1>1 DEF RowsInv, ManualOnly, CategoryOf
<1>3. CASE UNCHANGED <<status, shown, job>>
  <2>1. \A t \in Threads : PenHolds(t)'
    BY <1>1, <1>3 DEF RowsInv, PenHolds, Drawing, Surface, CategoryOf
  <2>2. CoreDraws' /\ ItemsShown'
    BY <1>1, <1>3 DEF RowsInv, CoreDraws, ItemsShown, Drawing, Look, Color, tp
  <2>3. EventDraws' /\ ClearShown'
    BY <1>1, <1>3 DEF RowsInv, EventDraws, ClearShown, Drawing, Look, Color, tp, clear_button,
                      ButtonLook
  <2> QED
    BY <1>2, <2>1, <2>2, <2>3 DEF RowsInv
<1>4. CASE /\ status' = Extended(status, i, -1) /\ shown' = Extended(shown, i, Blank)
           /\ job' = [job EXCEPT !["core"] = Job(i, Look(-1))]
  <2>1. /\ DOMAIN status' = DOMAIN status \cup {i} /\ status'[i] = -1
        /\ \A k \in DOMAIN status \ {i} : status'[k] = status[k]
        /\ \A k \in DOMAIN shown \ {i} : shown'[k] = shown[k]
    BY <1>4 DEF Extended
  <2>2. /\ job'["core"] = Job(i, Look(-1)) /\ job'["event"] = job["event"]
    BY <1>1, <1>4 DEF Types, DrawTypes, Threads
  <2>3. Job(i, Look(-1)).row = i /\ Job(i, Look(-1)).look = Look(-1) /\ Job(i, Look(-1)).step = "back"
    BY DEF Job
  <2>4. i # None /\ i # clear_button
    BY DEF None, clear_button
  <2>5. Drawing("event") => job["event"].row # i
    BY <2>4 DEF RowsInv, EventDraws
  <2>6. CoreDraws'
    BY <2>1, <2>2, <2>3 DEF CoreDraws, Look, Color, tp
  <2>7. EventDraws'
    <3>1. Drawing("event")' <=> Drawing("event")
      BY <2>2 DEF Drawing
    <3> QED
      BY <2>1, <2>2, <2>5, <3>1 DEF RowsInv, EventDraws, Look, Color, tp, clear_button, ButtonLook
  <2>8. ASSUME NEW t \in Threads PROVE PenHolds(t)'
    <3>1. CASE t = "core"
      BY <2>2, <2>3, <3>1 DEF PenHolds
    <3>2. CASE t = "event" /\ Drawing("event")
      <4>1. job["event"].row \in DOMAIN shown \ {i}
        BY <2>5, <3>2, RowsApart
      <4>2. shown'[job["event"].row] = shown[job["event"].row]
        BY <2>1, <4>1
      <4>3. Surface("event")' = Surface("event") /\ Drawing("event")' = Drawing("event")
        BY <1>1, <2>2 DEF Surface, CategoryOf, Drawing
      <4>4. PenHolds("event")
        BY <3>2 DEF RowsInv
      <4> QED
        BY <1>1, <2>2, <3>2, <4>2, <4>3, <4>4 DEF PenHolds
    <3>3. CASE t = "event" /\ ~Drawing("event")
      BY <2>2, <3>3 DEF PenHolds, Drawing
    <3> QED
      BY <3>1, <3>2, <3>3, RowsApart
  <2>9. ItemsShown'
    <3>1. SUFFICES ASSUME NEW k \in DOMAIN status' \ disturbed', \A t \in Threads : job'[t].row # k
                   PROVE  shown'[k] = Look(status'[k])
      BY DEF ItemsShown, Look, Color
    <3>2. k # i /\ k \in DOMAIN status /\ k \in DOMAIN shown
      BY <1>1, <2>1, <2>2, <2>3, <3>1 DEF Types, DrawTypes
    <3>3. \A t \in Threads : job[t].row # k
      <4>1. job["core"].row = None /\ None \notin DOMAIN status
        BY <1>1, RowsApart
      <4> QED
        BY <2>2, <3>1, <3>2, <4>1, RowsApart
    <3> QED
      BY <1>1, <2>1, <3>1, <3>2, <3>3 DEF RowsInv, ItemsShown
  <2>10. ClearShown'
    <3>1. clear_button \in DOMAIN shown \ {i}
      BY <2>4 DEF Types, DrawTypes
    <3>2. shown'[clear_button] = shown[clear_button]
      BY <2>1, <3>1
    <3> QED
      BY <1>1, <2>2, <3>2 DEF RowsInv, ClearShown, clear_button, ButtonLook
  <2> QED
    BY <1>2, <2>6, <2>7, <2>8, <2>9, <2>10 DEF RowsInv
<1> QED
  BY <1>3, <1>4 DEF df_insert_item

\* A row that is updated is drawn again from its background on.
LEMMA UpdateRows ==
  ASSUME Types, RowsInv, NEW t \in Threads, NEW i, NEW s \in -1 .. 1, df_update_item(t, i, s),
         \/ t = "core" /\ i # tp
         \/ t = "event" /\ i = tp /\ evt # "none",
         evt' = "none" <=> evt = "none",
         UNCHANGED <<board, main, clear_press>>
  PROVE  RowsInv'
<1>1. UNCHANGED <<shown, pen>> /\ ~Drawing(t)
  BY DEF df_update_item
<1>2. EventsStarted' /\ disturbed' \subseteq disturbed
  BY DEF RowsInv, EventsStarted, df_update_item
<1>3. ManualOnly'
  BY <1>2 DEF RowsInv, ManualOnly, CategoryOf
<1>4. CASE UNCHANGED <<status, job, disturbed>>
  <2>1. \A u \in Threads : PenHolds(u)'
    BY <1>1, <1>4 DEF RowsInv, PenHolds, Drawing, Surface, CategoryOf
  <2>2. CoreDraws' /\ ItemsShown'
    BY <1>1, <1>4 DEF RowsInv, CoreDraws, ItemsShown, Drawing, Look, Color, tp
  <2>3. EventDraws' /\ ClearShown'
    BY <1>1, <1>4 DEF RowsInv, EventDraws, ClearShown, Drawing, Look, Color, tp, clear_button,
                      ButtonLook
  <2> QED
    BY <1>2, <1>3, <2>1, <2>2, <2>3 DEF RowsInv
<1>5. CASE /\ i \in DOMAIN status /\ status' = [status EXCEPT ![i] = s]
           /\ job' = [job EXCEPT ![t] = Job(i, Look(s))] /\ disturbed' = disturbed \ {i}
  <2>1. /\ DOMAIN status' = DOMAIN status /\ status'[i] = s
        /\ \A k \in DOMAIN status \ {i} : status'[k] = status[k]
    BY <1>5
  <2>2. job'[t] = Job(i, Look(s)) /\ \A u \in Threads \ {t} : job'[u] = job[u]
    BY <1>5 DEF Types, DrawTypes
  <2>3. Job(i, Look(s)).row = i /\ Job(i, Look(s)).look = Look(s) /\ Job(i, Look(s)).step = "back"
    BY DEF Job
  <2>4. i # None /\ i # clear_button
    BY <1>5, RowsApart
  <2>5. \A u \in Threads \ {t} : Drawing(u) => job[u].row # i
    <3>1. Drawing("event") => evt # "none"
      BY DEF RowsInv, EventDraws
    <3>2. t = "core" => (Drawing("event") => job["event"].row # i)
      BY <2>4 DEF RowsInv, EventDraws
    <3>3. t = "event" => (Drawing("core") => job["core"].row # i)
      BY DEF RowsInv, CoreDraws
    <3> QED
      BY <3>2, <3>3, RowsApart
  <2>6. CoreDraws'
    <3>1. CASE t = "core"
      BY <2>1, <2>2, <2>3, <3>1, <1>5 DEF CoreDraws, Look, Color, tp
    <3>2. CASE t = "event"
      <4>1. job'["core"] = job["core"]
        BY <2>2, <3>2, RowsApart
      <4> QED
        BY <2>1, <2>5, <3>2, <4>1, RowsApart DEF RowsInv, CoreDraws, Drawing, Look, Color, tp
    <3> QED
      BY <3>1, <3>2
  <2>7. EventDraws'
    <3>1. CASE t = "event"
      BY <2>1, <2>2, <2>3, <3>1, <1>5 DEF EventDraws, Look, Color, tp
    <3>2. CASE t = "core"
      <4>1. job'["event"] = job["event"]
        BY <2>2, <3>2, RowsApart
      <4> QED
        BY <2>1, <2>5, <3>2, <4>1, RowsApart
           DEF RowsInv, EventDraws, Drawing, Look, Color, tp, clear_button, ButtonLook
    <3> QED
      BY <3>1, <3>2
  <2>8. ASSUME NEW u \in Threads PROVE PenHolds(u)'
    <3>1. CASE u = t
      BY <2>2, <2>3, <3>1 DEF PenHolds
    <3>2. CASE u # t /\ Drawing(u)
      <4>1. job[u].row # i /\ job'[u] = job[u]
        BY <2>2, <2>5, <3>2
      <4> QED
        BY <1>1, <1>5, <3>2, <4>1 DEF RowsInv, PenHolds, Surface, CategoryOf, Drawing
    <3>3. CASE u # t /\ ~Drawing(u)
      BY <2>2, <3>3 DEF PenHolds, Drawing
    <3> QED
      BY <3>1, <3>2, <3>3
  <2>9. ItemsShown'
    <3>1. SUFFICES ASSUME NEW k \in DOMAIN status \ disturbed', \A u \in Threads : job'[u].row # k
                   PROVE  shown[k] = Look(status'[k])
      BY <1>1, <2>1 DEF ItemsShown, Look, Color
    <3>2. k # i /\ k \notin disturbed
      BY <1>5, <2>2, <2>3, <3>1
    <3>3. \A u \in Threads : job[u].row # k
      <4>1. job[t].row = None /\ None \notin DOMAIN status
        BY <1>1, RowsApart
      <4> QED
        BY <2>2, <3>1, <4>1
    <3> QED
      BY <2>1, <3>1, <3>2, <3>3 DEF RowsInv, ItemsShown
  <2>10. ClearShown'
    <3>1. SUFFICES ASSUME clear_press, clear_button \notin disturbed', job'["event"].row # clear_button
                   PROVE  shown[clear_button] = ButtonLook("cyan")
      BY <1>1 DEF ClearShown, clear_button, ButtonLook
    <3>2. clear_button \notin disturbed
      BY <1>5, <2>4, <3>1
    <3>3. job["event"].row # clear_button
      <4>1. CASE t = "event"
        BY <1>1, <4>1, RowsApart
      <4>2. CASE t = "core"
        BY <2>2, <3>1, <4>2, RowsApart
      <4> QED
        BY <4>1, <4>2
    <3> QED
      BY <3>1, <3>2, <3>3 DEF RowsInv, ClearShown
  <2> QED
    BY <1>2, <1>3, <2>6, <2>7, <2>8, <2>9, <2>10 DEF RowsInv
<1> QED
  BY <1>4, <1>5 DEF df_update_item

LEMMA RedrawRows ==
  ASSUME Types, RowsInv, button_handle
  PROVE  RowsInv'
<1>1. /\ UNCHANGED <<board, status, shown, pen, main>> /\ ~Drawing("event") /\ evt # "none"
      /\ evt' = "track" /\ "event" \in Threads /\ "core" \in Threads
  BY DEF button_handle, environment, items, Threads
<1>2. EventsStarted'
  BY <1>1 DEF RowsInv, EventsStarted
<1>3. CASE /\ UNCHANGED <<job, disturbed>>
           /\ clear_press' => clear_press
  <2>1. \A t \in Threads : PenHolds(t)'
    BY <1>1, <1>3 DEF RowsInv, PenHolds, Drawing, Surface, CategoryOf
  <2>2. CoreDraws' /\ ItemsShown' /\ ManualOnly'
    BY <1>1, <1>3 DEF RowsInv, CoreDraws, ItemsShown, ManualOnly, CategoryOf, Drawing, Look, Color, tp
  <2>3. EventDraws' /\ ClearShown'
    BY <1>1, <1>3 DEF RowsInv, EventDraws, ClearShown, Drawing, clear_button, ButtonLook
  <2> QED
    BY <1>2, <2>1, <2>2, <2>3 DEF RowsInv
<1>4. ASSUME NEW color \in {"plain", "cyan"}, clear_button_redraw(color),
             clear_press' => color = "cyan"
      PROVE  RowsInv'
  <2>1. /\ job'["event"] = Job(clear_button, ButtonLook(color)) /\ job'["core"] = job["core"]
        /\ disturbed' = disturbed \ {clear_button}
    BY <1>4 DEF clear_button_redraw, Types, DrawTypes, Threads
  <2>2. /\ Job(clear_button, ButtonLook(color)).row = clear_button
        /\ Job(clear_button, ButtonLook(color)).look = ButtonLook(color)
        /\ Job(clear_button, ButtonLook(color)).step = "back"
    BY DEF Job
  <2>3. CoreDraws' /\ ManualOnly'
    BY <1>1, <2>1 DEF RowsInv, CoreDraws, ManualOnly, CategoryOf, Drawing, Look, Color, tp
  <2>4. EventDraws' /\ ClearShown'
    BY <1>1, <1>4, <2>1, <2>2 DEF EventDraws, ClearShown, clear_button, ButtonLook
  <2>5. PenHolds("event")'
    BY <2>1, <2>2 DEF PenHolds
  <2>6. PenHolds("core")'
    <3>1. CASE Drawing("core")
      <4>1. job["core"].row # clear_button
        BY <3>1, RowsApart DEF RowsInv, CoreDraws
      <4> QED
        BY <1>1, <2>1, <4>1 DEF RowsInv, PenHolds, Surface, CategoryOf, Drawing
    <3>2. CASE ~Drawing("core")
      BY <2>1, <3>2 DEF PenHolds, Drawing
    <3> QED
      BY <3>1, <3>2
  <2>7. ItemsShown'
    <3>1. SUFFICES ASSUME NEW k \in DOMAIN status \ disturbed', \A u \in Threads : job'[u].row # k
                   PROVE  shown[k] = Look(status[k])
      BY <1>1 DEF ItemsShown, Look, Color
    <3>2. k \notin disturbed
      BY <2>1, <3>1, RowsApart
    <3>3. \A u \in Threads : job[u].row # k
      BY <1>1, <2>1, <3>1, RowsApart
    <3> QED
      BY <3>1, <3>2, <3>3 DEF RowsInv, ItemsShown
  <2> QED
    BY <1>2, <2>3, <2>4, <2>5, <2>6, <2>7, RowsApart DEF RowsInv
<1> QED
  BY <1>3, <1>4 DEF button_handle

\* Steps that draw nothing: when the event thread starts, the core draws nothing either.
LEMMA OtherRows ==
  ASSUME RowsInv, UNCHANGED <<board, status, drawing, clear_press>>, EventsStarted',
         evt # "none" => evt' # "none",
         evt = "none" => evt' = "none" \/ ~Drawing("core")
  PROVE  RowsInv'
<1>1. UNCHANGED <<board, status, shown, pen, job, disturbed, clear_press>>
  BY DEF drawing
<1>2. \A t \in Threads : PenHolds(t)'
  BY <1>1 DEF RowsInv, PenHolds, Drawing, Surface, CategoryOf
<1>3. CoreDraws' /\ ItemsShown' /\ ManualOnly'
  BY <1>1 DEF RowsInv, CoreDraws, ItemsShown, ManualOnly, CategoryOf, Drawing, Look, Color, tp
<1>4. EventDraws' /\ ClearShown'
  BY <1>1 DEF RowsInv, EventDraws, ClearShown, Drawing, Look, Color, tp, clear_button, ButtonLook
<1> QED
  BY <1>2, <1>3, <1>4 DEF RowsInv

LEMMA RowsInit == Init => RowsInv
<1> SUFFICES ASSUME Init PROVE RowsInv
  OBVIOUS
<1>1. /\ \A t \in Threads : ~Drawing(t)
      /\ evt = "none" /\ clear_press = FALSE /\ disturbed = {} /\ DOMAIN status = {}
      /\ "core" \in Threads /\ "event" \in Threads
  BY DEF Init, Drawing, Idle, Threads
<1> QED
  BY <1>1 DEF RowsInv, CoreDraws, EventDraws, EventsStarted, PenHolds, ItemsShown, ClearShown, ManualOnly

LEMMA RowsStep == Types /\ RowsInv /\ [Next]_vars => RowsInv'
<1> SUFFICES ASSUME Types, RowsInv, [Next]_vars PROVE RowsInv'
  OBVIOUS
<1>0. EventsStarted
  BY DEF RowsInv
<1>1. CASE UNCHANGED vars
  <2>1. EventsStarted'
    BY <1>0, <1>1 DEF EventsStarted, vars, items, touch
  <2> QED
    BY <1>1, <2>1, OtherRows DEF vars, environment, items, touch, buttons
<1>2. CASE df_windows_init \/ InitLists \/ Launch
  <2>1. EventsStarted' /\ UNCHANGED <<board, status, drawing, touch>>
    BY <1>0, <1>2 DEF EventsStarted, df_windows_init, InitLists, Launch, environment, touch
  <2> QED
    BY <2>1, OtherRows DEF touch, buttons
<1>3. CASE buildin_tc_init
  <2>1. evt = "none" /\ UNCHANGED <<evt, clear_press>> /\ df_insert_item(tp)
    BY <1>0, <1>3 DEF EventsStarted, buildin_tc_init, touch, buttons
  <2>2. tp \in 0 .. Len(board.cases)
    BY BoardLoad DEF tp
  <2>3. EventsStarted'
    BY <2>1 DEF EventsStarted
  <2> QED
    BY <2>1, <2>2, <2>3, InsertRows
<1>4. CASE StartEvents
  <2>1. EventsStarted' /\ UNCHANGED <<board, status, drawing, clear_press>> /\ evt' # "none"
        /\ ~Drawing("core")
    BY <1>4 DEF EventsStarted, StartEvents, environment, buttons
  <2> QED
    BY <2>1, OtherRows
<1>5. CASE draw_testcases
  <2>1. UNCHANGED <<evt, clear_press, main>> /\ df_insert_item(inserted + 1)
    BY <1>5 DEF draw_testcases, touch, buttons
  <2>2. inserted + 1 \in 0 .. Len(board.cases) /\ inserted + 1 # tp
    BY <1>5, BoardLoad DEF draw_testcases, Types, ItemTypes, tp
  <2>3. EventsStarted'
    BY <1>0, <2>1 DEF EventsStarted
  <2> QED
    BY <2>1, <2>2, <2>3, InsertRows
<1>6. CASE Listen
  <2>1. PICK i \in 1 .. Len(board.cases), s \in -1 .. 1 : df_update_item("core", i, s)
    BY <1>6 DEF Listen
  <2>2. UNCHANGED <<board, main, clear_press, evt>> /\ i # tp /\ "core" \in Threads
    BY <1>6, BoardLoad DEF Listen, touch, buttons, tp, Threads
  <2> QED
    BY <2>1, <2>2, UpdateRows
<1>7. ASSUME NEW t \in Threads, Draw(t) PROVE RowsInv'
  BY <1>7, DrawRows
<1>8. CASE Touch \/ Press
  <2>1. UNCHANGED <<board, status, drawing, clear_press, main>> /\ evt # "none" /\ evt' # "none"
    BY <1>8 DEF Touch, Press, environment, items, buttons
  <2>2. EventsStarted'
    BY <1>0, <2>1 DEF EventsStarted
  <2> QED
    BY <2>1, <2>2, OtherRows
<1>9. CASE GetEvent
  <2>1. UNCHANGED <<board, main, clear_press>> /\ evt = "wait"
    BY <1>9 DEF GetEvent, environment, buttons
  <2>2. CASE df_update_item("event", tp, 0) /\ evt' = "button"
    <3>1. 0 \in -1 .. 1 /\ "event" \in Threads
      BY DEF Threads
    <3> QED
      BY <2>1, <2>2, <3>1, UpdateRows
  <2>3. CASE UNCHANGED <<evt, status, drawing>>
    <3>1. EventsStarted'
      BY <1>0, <2>1, <2>3 DEF EventsStarted
    <3> QED
      BY <2>1, <2>3, <3>1, OtherRows
  <2> QED
    BY <1>9, <2>2, <2>3 DEF GetEvent
<1>10. CASE button_handle
  BY <1>10, RedrawRows
<1>11. CASE FindWlan0 \/ ScanWlan0 \/ WriteItem \/ WriteFlag \/ DownWlan0 \/ WriteLastFlag
            \/ OpenPipe \/ wifi_hot_point_proccess
  <2>1. UNCHANGED <<environment, items, drawing, touch>>
    BY <1>11 DEF FindWlan0, ScanWlan0, WriteItem, WriteFlag, DownWlan0, WriteLastFlag, OpenPipe,
                 wifi_hot_point_proccess, Write
  <2>2. EventsStarted'
    BY <1>0, <2>1 DEF EventsStarted, items, touch
  <2> QED
    BY <2>1, <2>2, OtherRows DEF environment, items, touch, buttons
<1> QED
  BY <1>1, <1>2, <1>3, <1>4, <1>5, <1>6, <1>7, <1>8, <1>9, <1>10, <1>11 DEF Next

\* RowsShowStatus: a row that nobody draws shows the state of its item, and the clear button
\* is cyan while it waits for its second touch, unless the other thread of the same surface
\* drew between the calls for it; and that happens on the manual window only (df_insert_item,
\* df_update_item, clear_button_redraw), however many test cases, results and touches.
THEOREM RowsShown == Spec => []RowsShowStatus
<1>1. Init => Types /\ Launched /\ RowsInv
  BY TypesInit, RowsInit DEF Init, Launched
<1>2. (Types /\ Launched /\ RowsInv) /\ [Next]_vars => (Types /\ Launched /\ RowsInv)'
  BY TypesStep, LaunchedStep, RowsStep
<1>3. Types /\ Launched /\ RowsInv => RowsShowStatus
  <2> SUFFICES ASSUME Types, RowsInv PROVE RowsShowStatus
    OBVIOUS
  <2>1. ~Drawing("event") => job["event"].row # clear_button
    BY RowsApart
  <2> QED
    BY <2>1 DEF RowsInv, ItemsShown, ClearShown, ManualOnly, RowsShowStatus
<1> QED
  BY <1>1, <1>2, <1>3, PTL DEF Spec

-----------------------------------------------------------------------------
(* Touches.                                                                *)

Odd(n) == n % 2 = 1
TouchAt(n) == IF Odd(n) THEN n ELSE n + 1

LEMMA OddNext == \A n \in Nat : Odd(n + 1) <=> ~Odd(n)
BY DEF Odd

LEMMA TouchNext == \A n \in Nat : ~Odd(n) => TouchAt(n + 1) = TouchAt(n)
BY OddNext DEF TouchAt

\* g[k] is how often the finger went down or up before the k-th event that waits.
Fingers(g) ==
  /\ g \in [1 .. Len(events) + 1 -> Nat] /\ g[Len(events) + 1] = finger
  /\ \A k \in 1 .. Len(events) :
       /\ events[k].touch = TouchAt(g[k])
       /\ g[k + 1] = IF events[k].axis = "button" THEN g[k] + 1 ELSE g[k]

\* The program knows whether the finger is down, and its last point is of this touch.
Knows(n) ==
  /\ press <=> Odd(n)
  /\ pre_x # None => pre_of = TouchAt(n)

\* It does so between events; one in hand is not counted yet.
Follows(g) ==
  IF evt \in {"button", "track"}
  THEN \E n \in Nat : g[1] = n + 1 /\ of = TouchAt(n) /\ Knows(n)
  ELSE Knows(g[1])

TouchInv ==
  /\ pre_x # None => tp_x >= 0 /\ tp_y >= 0
  /\ ~edge => ~joined
  /\ ~edge /\ board.tp_activated => \E g : Fingers(g) /\ Follows(g)

LEMMA TouchInit == Init => TouchInv
<1> SUFFICES ASSUME Init PROVE TouchInv
  OBVIOUS
<1>1. /\ events = <<>> /\ Len(events) = 0 /\ finger = 0 /\ evt = "none" /\ press = FALSE
      /\ pre_x = None /\ joined = FALSE
  BY DEF Init
<1> DEFINE G == [k \in 1 .. 1 |-> 0]
<1>2. Fingers(G)
  BY <1>1 DEF Fingers
<1>3. Follows(G)
  <2>1. G[1] = 0 /\ ~Odd(0)
    BY DEF Odd
  <2> QED
    BY <1>1, <2>1 DEF Follows, Knows
<1> HIDE DEF G
<1> QED
  BY <1>1, <1>2, <1>3 DEF TouchInv

\* Steps that have nothing to do with touches.
LEMMA TouchOther ==
  ASSUME TouchInv,
         UNCHANGED <<board, events, finger, tp_x, tp_y, press, pre_x, pre_y, of, pre_of, joined, edge>>,
         evt' = evt \/ (evt = "none" /\ evt' = "wait") \/ (evt = "button" /\ evt' = "track")
  PROVE  TouchInv'
<1>1. \A g : Fingers(g) => Fingers(g)'
  BY DEF Fingers
<1>2. \A n : Knows(n) => Knows(n)'
  BY DEF Knows
<1>3. \A g : Follows(g) => Follows(g)'
  <2> SUFFICES ASSUME NEW g, Follows(g) PROVE Follows(g)'
    OBVIOUS
  <2>1. CASE evt \in {"button", "track"}
    BY <1>2, <2>1 DEF Follows
  <2>2. CASE evt \notin {"button", "track"}
    BY <1>2, <2>2 DEF Follows
  <2> QED
    BY <2>1, <2>2
<1> QED
  BY <1>1, <1>3 DEF TouchInv

LEMMA TouchTouch ==
  ASSUME Types, TouchInv, Touch
  PROVE  TouchInv'
<1>1. PICK axis \in {"x", "y", "button"}, at \in 0 .. Extent :
        /\ events' = Append(events, [axis |-> axis, at |-> at, touch |-> TouchAt(finger)])
        /\ finger' = IF axis = "button" THEN finger + 1 ELSE finger
  BY DEF Touch, TouchAt, Odd
<1>2. UNCHANGED <<board, evt, tp_x, tp_y, press, pre_x, pre_y, of, pre_of, joined, edge>>
  BY DEF Touch, position, track
<1>3. events \in Seq(Event) /\ finger \in Nat
  BY DEF Types, TouchTypes
<1>4. ASSUME NEW g, Fingers(g), Follows(g)
      PROVE  \E h : Fingers(h)' /\ Follows(h)'
  <2>1. /\ Len(events') = Len(events) + 1 /\ Len(events) \in Nat
        /\ events'[Len(events) + 1] = [axis |-> axis, at |-> at, touch |-> TouchAt(finger)]
        /\ \A k \in 1 .. Len(events) : events'[k] = events[k]
    BY <1>1, <1>3
  <2>2. PICK H : /\ H \in [1 .. Len(events') + 1 -> Nat] /\ H[Len(events') + 1] = finger'
                 /\ \A k \in 1 .. Len(events) + 1 : H[k] = g[k]
    <3> DEFINE G == [k \in 1 .. Len(events') + 1 |-> IF k = Len(events') + 1 THEN finger' ELSE g[k]]
    <3>1. /\ G \in [1 .. Len(events') + 1 -> Nat] /\ G[Len(events') + 1] = finger'
          /\ \A k \in 1 .. Len(events) + 1 : G[k] = g[k]
      BY <1>1, <1>3, <1>4, <2>1 DEF Fingers
    <3> QED
      BY <3>1
  <2>3. ASSUME NEW k \in 1 .. Len(events')
        PROVE  /\ events'[k].touch = TouchAt(H[k])
               /\ H[k + 1] = IF events'[k].axis = "button" THEN H[k] + 1 ELSE H[k]
    <3>1. CASE k \in 1 .. Len(events)
      BY <1>4, <2>1, <2>2, <3>1 DEF Fingers
    <3>2. CASE k = Len(events) + 1
      <4>1. /\ events'[k].touch = TouchAt(finger) /\ events'[k].axis = axis
            /\ H[k] = finger /\ H[k + 1] = finger'
        BY <1>4, <2>1, <2>2, <3>2 DEF Fingers
      <4> QED
        BY <1>1, <4>1
    <3> QED
      BY <2>1, <3>1, <3>2
  <2>4. Fingers(H)'
    BY <2>2, <2>3 DEF Fingers
  <2>5. H[1] = g[1]
    BY <2>1, <2>2
  <2>6. Follows(H)'
    <3>1. \A n : Knows(n) => Knows(n)'
      BY <1>2 DEF Knows
    <3>2. CASE evt \in {"button", "track"}
      BY <1>2, <1>4, <2>5, <3>1, <3>2 DEF Follows
    <3>3. CASE evt \notin {"button", "track"}
      BY <1>2, <1>4, <2>5, <3>1, <3>3 DEF Follows
    <3> QED
      BY <3>2, <3>3
  <2> QED
    BY <2>4, <2>6
<1> QED
  BY <1>2, <1>4 DEF TouchInv

\* A point of touch `touched`, if it is drawn at all, joins no other one.
LEMMA TrackOfTouch ==
  ASSUME NEW x \in {None} \cup 1 .. Extent, NEW y \in {None} \cup 1 .. Extent,
         NEW how \in -1 .. 1, NEW touched,
         NotDrawn \/ tp_track_draw(x, y, how, touched),
         joined = FALSE,
         how # 0 /\ pre_x # None => pre_of = touched
  PROVE  /\ joined' = FALSE
         /\ \/ UNCHANGED <<pre_x, pre_of>>
            \/ pre_of' = touched /\ x >= 0 /\ y >= 0 /\ (how = -1 => pre_x' = None)
<1>1. CASE NotDrawn
  BY <1>1 DEF NotDrawn
<1>2. CASE tp_track_draw(x, y, how, touched)
  <2>1. Joins(how, touched) = FALSE
    BY DEF Joins
  <2>2. CASE x < 0 \/ y < 0
    BY <1>2, <2>2 DEF tp_track_draw
  <2>3. CASE ~(x < 0 \/ y < 0)
    <3>1. x >= 0 /\ y >= 0
      BY <2>3, DfViewAssumption DEF None
    <3> QED
      BY <1>2, <2>1, <2>3, <3>1 DEF tp_track_draw
  <2> QED
    BY <2>2, <2>3
<1> QED
  BY <1>1, <1>2

LEMMA TouchGet ==
  ASSUME Types, TouchInv, GetEvent
  PROVE  TouchInv'
<1> DEFINE e == Head(events)
           x == IF e.axis = "x" THEN e.at ELSE 0
           y == IF e.axis = "y" THEN e.at ELSE 0
           flagged == flag \cup (IF x # 0 THEN {"x"} ELSE {}) \cup (IF y # 0 THEN {"y"} ELSE {})
<1>1. /\ evt = "wait" /\ events # <<>> /\ events' = Tail(events)
      /\ tp_x' = IF x # 0 THEN x ELSE tp_x
      /\ tp_y' = IF y # 0 THEN y ELSE tp_y
      /\ of' = e.touch
      /\ edge' = (edge \/ (e.axis # "button" /\ e.at = 0))
      /\ \/ /\ x = 0 /\ y = 0
            /\ evt' = "button"
            /\ NotDrawn
         \/ /\ x # 0 \/ y # 0
            /\ IF Point(flagged) THEN tp_track_draw(tp_x', tp_y', How, e.touch) ELSE NotDrawn
            /\ evt' = evt
      /\ UNCHANGED <<board, finger, press>>
  BY DEF GetEvent, environment
<1>2. /\ e \in Event /\ events \in Seq(Event) /\ Len(events) \in Nat \ {0} /\ e = events[1]
      /\ tp_x \in {None} \cup 1 .. Extent /\ tp_y \in {None} \cup 1 .. Extent
      /\ finger \in Nat
  BY <1>1 DEF Types, TouchTypes
<1>3. x \in 0 .. Extent /\ y \in 0 .. Extent
  BY <1>2, DfViewAssumption DEF Event
<1> HIDE DEF x, y, flagged
<1>4. ~edge' => ~edge /\ (e.axis = "button" <=> x = 0 /\ y = 0)
  <2>1. e.axis \in {"x", "y", "button"}
    BY <1>2 DEF Event
  <2> QED
    BY <1>1, <2>1 DEF x, y
<1> HIDE DEF e
<1>5. tp_x' \in {None} \cup 1 .. Extent /\ tp_y' \in {None} \cup 1 .. Extent
  BY <1>1, <1>2, <1>3, DfViewAssumption
<1>6. How \in -1 .. 1 /\ (How # 0 => press)
  BY DEF How
<1>7. tp_x >= 0 /\ tp_y >= 0 => tp_x' >= 0 /\ tp_y' >= 0
  BY <1>1, <1>2, <1>3, DfViewAssumption DEF None
<1>8. CASE edge'
  <2>1. pre_x' = pre_x \/ (tp_x' >= 0 /\ tp_y' >= 0)
    <3>1. CASE NotDrawn
      BY <3>1 DEF NotDrawn
    <3>2. CASE tp_track_draw(tp_x', tp_y', How, e.touch)
      BY <1>5, <3>2, DfViewAssumption DEF tp_track_draw, None
    <3> QED
      BY <1>1, <3>1, <3>2
  <2> QED
    BY <1>7, <1>8, <2>1 DEF TouchInv
<1>9. CASE ~edge' /\ ~board.tp_activated
  <2>1. NotDrawn
    BY <1>1, <1>9 DEF Point
  <2> QED
    BY <1>1, <1>4, <1>7, <1>9, <2>1 DEF TouchInv, NotDrawn
<1>10. CASE ~edge' /\ board.tp_activated
  <2>1. PICK g : Fingers(g) /\ Follows(g)
    BY <1>4, <1>10 DEF TouchInv
  <2>2. /\ g \in [1 .. Len(events) + 1 -> Nat] /\ g[Len(events) + 1] = finger
        /\ \A k \in 1 .. Len(events) :
             /\ events[k].touch = TouchAt(g[k])
             /\ g[k + 1] = IF events[k].axis = "button" THEN g[k] + 1 ELSE g[k]
    BY <2>1 DEF Fingers
  <2>3. e.touch = TouchAt(g[1]) /\ g[1] \in Nat /\ g[2] = IF e.axis = "button" THEN g[1] + 1 ELSE g[1]
    <3>1. 1 \in 1 .. Len(events) /\ 1 + 1 = 2 /\ 1 \in 1 .. Len(events) + 1
      BY <1>2
    <3> QED
      BY <1>2, <2>2, <3>1
  <2>4. (press <=> Odd(g[1])) /\ (pre_x # None => pre_of = e.touch)
    BY <1>1, <2>1, <2>3 DEF Follows, Knows
  <2>5. joined = FALSE
    BY <1>4, <1>10 DEF TouchInv, Types, TouchTypes
  <2>6. NotDrawn \/ tp_track_draw(tp_x', tp_y', How, e.touch)
    BY <1>1
  <2>7. /\ joined' = FALSE
        /\ \/ UNCHANGED <<pre_x, pre_of>>
           \/ pre_of' = e.touch /\ tp_x' >= 0 /\ tp_y' >= 0
    BY <1>5, <1>6, <2>4, <2>5, <2>6, TrackOfTouch
  <2>8. PICK h : /\ h \in [1 .. Len(events') + 1 -> Nat]
                 /\ \A k \in 1 .. Len(events') + 1 : h[k] = g[k + 1]
    <3> DEFINE G == [k \in 1 .. Len(events') + 1 |-> g[k + 1]]
    <3>1. G \in [1 .. Len(events') + 1 -> Nat] /\ \A k \in 1 .. Len(events') + 1 : G[k] = g[k + 1]
      <4>1. \A k \in 1 .. Len(events') + 1 : k + 1 \in 1 .. Len(events) + 1
        BY <1>1, <1>2
      <4> QED
        BY <2>2, <4>1
    <3> QED
      BY <3>1
  <2>9. Fingers(h)'
    <3>1. /\ Len(events') = Len(events) - 1
          /\ \A k \in 1 .. Len(events') : events'[k] = events[k + 1]
      BY <1>1, <1>2
    <3>2. h[Len(events') + 1] = finger'
      BY <1>1, <1>2, <2>2, <2>8, <3>1
    <3>3. ASSUME NEW k \in 1 .. Len(events')
          PROVE  /\ events'[k].touch = TouchAt(h[k])
                 /\ h[k + 1] = IF events'[k].axis = "button" THEN h[k] + 1 ELSE h[k]
      <4>1. /\ k + 1 \in 1 .. Len(events) /\ k \in 1 .. Len(events') + 1
            /\ k + 1 \in 1 .. Len(events') + 1
        BY <1>2, <3>1
      <4>2. h[k] = g[k + 1] /\ h[k + 1] = g[k + 1 + 1] /\ events'[k] = events[k + 1]
        BY <2>8, <3>1, <4>1
      <4> QED
        BY <2>2, <4>1, <4>2
    <3> QED
      BY <2>8, <3>2, <3>3 DEF Fingers
  <2>10. h[1] = g[2]
    <3>1. 1 \in 1 .. Len(events') + 1 /\ 1 + 1 = 2
      BY <1>1, <1>2
    <3> QED
      BY <2>8, <3>1
  <2>11. Knows(g[1])'
    BY <1>1, <2>3, <2>4, <2>7 DEF Knows
  <2>12. Follows(h)'
    <3>1. CASE e.axis = "button"
      <4>1. evt' = "button" /\ of' = TouchAt(g[1]) /\ h[1] = g[1] + 1
        BY <1>1, <1>4, <1>10, <2>3, <2>10, <3>1
      <4> QED
        BY <2>3, <2>11, <4>1 DEF Follows
    <3>2. CASE e.axis # "button"
      <4>1. evt' = "wait" /\ h[1] = g[1]
        BY <1>1, <1>4, <1>10, <2>3, <2>10, <3>2
      <4> QED
        BY <2>11, <4>1 DEF Follows
    <3> QED
      BY <3>1, <3>2
  <2>13. pre_x' # None => tp_x' >= 0 /\ tp_y' >= 0
    BY <1>7, <2>7 DEF TouchInv
  <2> QED
    BY <2>7, <2>9, <2>12, <2>13 DEF TouchInv
<1> QED
  BY <1>8, <1>9, <1>10

LEMMA TouchPress ==
  ASSUME Types, TouchInv, Press
  PROVE  TouchInv'
<1>1. /\ evt = "track" /\ evt' = "wait"
      /\ \/ /\ press /\ board.tp_activated
            /\ tp_track_draw(tp_x, tp_y, -1, of)
            /\ press' = FALSE
         \/ /\ ~(press /\ board.tp_activated)
            /\ press' = TRUE
            /\ IF Point(flag) THEN tp_track_draw(tp_x, tp_y, How, of) ELSE NotDrawn
      /\ UNCHANGED <<board, events, finger, tp_x, tp_y, of, edge>>
  BY DEF Press, environment
<1>2. /\ tp_x \in {None} \cup 1 .. Extent /\ tp_y \in {None} \cup 1 .. Extent
      /\ press \in BOOLEAN /\ joined \in BOOLEAN
  BY DEF Types, TouchTypes
<1>3. CASE ~board.tp_activated
  <2>1. NotDrawn
    BY <1>1, <1>3 DEF Point
  <2> QED
    BY <1>1, <1>3, <2>1 DEF TouchInv, NotDrawn
<1>4. CASE edge
  <2>1. pre_x' = pre_x \/ (tp_x >= 0 /\ tp_y >= 0)
    <3>1. CASE NotDrawn
      BY <3>1 DEF NotDrawn
    <3>2. ASSUME NEW how, tp_track_draw(tp_x, tp_y, how, of)
          PROVE  pre_x' = pre_x \/ (tp_x >= 0 /\ tp_y >= 0)
      BY <1>2, <3>2, DfViewAssumption DEF tp_track_draw, None
    <3> QED
      BY <1>1, <3>1, <3>2
  <2> QED
    BY <1>1, <1>4, <2>1 DEF TouchInv
<1>5. CASE ~edge /\ board.tp_activated
  <2>1. PICK g : Fingers(g) /\ Follows(g)
    BY <1>5 DEF TouchInv
  <2>2. PICK n \in Nat : g[1] = n + 1 /\ of = TouchAt(n) /\ Knows(n)
    BY <1>1, <2>1 DEF Follows
  <2>3. Fingers(g)'
    BY <1>1, <2>1 DEF Fingers
  <2>4. joined = FALSE /\ (press <=> Odd(n)) /\ (pre_x # None => pre_of = of)
    BY <1>2, <1>5, <2>2 DEF TouchInv, Knows
  <2>5. CASE press
    <3>1. tp_track_draw(tp_x, tp_y, -1, of) /\ press' = FALSE
      BY <1>1, <1>5, <2>5
    <3>2. -1 \in -1 .. 1
      OBVIOUS
    <3>3. /\ joined' = FALSE
          /\ UNCHANGED <<pre_x, pre_of>> \/ pre_x' = None
      BY <1>2, <2>4, <3>1, <3>2, TrackOfTouch
    <3>4. pre_x' = None
      <4>1. CASE tp_x < 0 \/ tp_y < 0
        <5>1. pre_x = None
          BY <1>2, <4>1, DfViewAssumption DEF TouchInv, None
        <5> QED
          BY <3>3, <5>1 DEF None
      <4>2. CASE ~(tp_x < 0 \/ tp_y < 0)
        BY <3>1, <4>2 DEF tp_track_draw
      <4> QED
        BY <4>1, <4>2
    <3>5. ~Odd(g[1])
      BY <2>2, <2>4, <2>5, OddNext
    <3>6. Knows(g[1])'
      BY <3>1, <3>4, <3>5 DEF Knows, None
    <3>7. Follows(g)'
      BY <1>1, <3>6 DEF Follows
    <3> QED
      BY <2>3, <3>3, <3>4, <3>7 DEF TouchInv, None
  <2>6. CASE ~press
    <3>1. press' = TRUE /\ (NotDrawn \/ tp_track_draw(tp_x, tp_y, 0, of))
      BY <1>1, <2>6 DEF How
    <3>2. 0 \in -1 .. 1
      OBVIOUS
    <3>3. /\ joined' = FALSE
          /\ \/ UNCHANGED <<pre_x, pre_of>>
             \/ pre_of' = of /\ tp_x >= 0 /\ tp_y >= 0
      BY <1>2, <2>4, <3>1, <3>2, TrackOfTouch
    <3>4. Odd(g[1]) /\ TouchAt(g[1]) = of
      BY <2>2, <2>4, <2>6, OddNext, TouchNext
    <3>5. Knows(g[1])'
      BY <2>4, <3>1, <3>3, <3>4 DEF Knows
    <3>6. Follows(g)'
      BY <1>1, <3>5 DEF Follows
    <3>7. pre_x' # None => tp_x' >= 0 /\ tp_y' >= 0
      BY <1>1, <3>3 DEF TouchInv
    <3> QED
      BY <2>3, <3>3, <3>6, <3>7 DEF TouchInv
  <2> QED
    BY <2>5, <2>6
<1> QED
  BY <1>3, <1>4, <1>5

LEMMA TouchStep == Types /\ EventsStarted /\ TouchInv /\ [Next]_vars => TouchInv'
<1> SUFFICES ASSUME Types, EventsStarted, TouchInv, [Next]_vars PROVE TouchInv'
  OBVIOUS
<1>1. CASE \/ UNCHANGED vars
           \/ df_windows_init \/ InitLists \/ buildin_tc_init \/ draw_testcases \/ Launch \/ Listen
           \/ \E t \in Threads : Draw(t)
  <2>1. UNCHANGED <<board, touch>>
    BY <1>1 DEF vars, df_windows_init, InitLists, buildin_tc_init, draw_testcases, Launch, Listen,
                Draw, df_insert_item, environment
  <2> QED
    BY <2>1, TouchOther DEF touch, position, track
<1>2. CASE StartEvents
  BY <1>2, TouchOther DEF StartEvents, EventsStarted, environment, position, track
<1>3. CASE button_handle
  BY <1>3, TouchOther DEF button_handle, environment, position, track
<1>4. CASE FindWlan0 \/ ScanWlan0 \/ WriteItem \/ WriteFlag \/ DownWlan0 \/ WriteLastFlag
           \/ OpenPipe \/ wifi_hot_point_proccess
  <2>1. UNCHANGED <<board, touch>>
    BY <1>4 DEF FindWlan0, ScanWlan0, WriteItem, WriteFlag, DownWlan0, WriteLastFlag, OpenPipe,
                wifi_hot_point_proccess, Write, environment
  <2> QED
    BY <2>1, TouchOther DEF touch, position, track
<1> QED
  BY <1>1, <1>2, <1>3, <1>4, TouchTouch, TouchGet, TouchPress DEF Next

\* TouchesApart: no line of the track joins two touches as long as no coordinate is 0, however
\* the events of the panel are ordered, and wherever the program is when they come: the
\* program has counted each button event when it draws (show_mouse_event, tp_track_draw).
THEOREM TouchesStayApart == Spec => []TouchesApart
<1>1. Init => Types /\ Launched /\ RowsInv /\ TouchInv
  BY TypesInit, RowsInit, TouchInit DEF Init, Launched
<1>2. (Types /\ Launched /\ RowsInv /\ TouchInv) /\ [Next]_vars => (Types /\ Launched /\ RowsInv /\ TouchInv)'
  BY TypesStep, LaunchedStep, RowsStep, TouchStep DEF RowsInv
<1>3. Types /\ Launched /\ RowsInv /\ TouchInv => TouchesApart
  BY DEF TouchInv, TouchesApart
<1> QED
  BY <1>1, <1>2, <1>3, PTL DEF Spec
-----------------------------------------------------------------------------
(* The line between two points of the track.                               *)

\* The distance along each axis, which way it goes, and the longer axis.
Way(p, q) == <<q[1] - p[1], q[2] - p[2]>>
Unit(p, q) == [k \in 1 .. 2 |-> IF Way(p, q)[k] > 0 THEN 1 ELSE -1]
Size(p, q) == [k \in 1 .. 2 |-> IF Way(p, q)[k] < 0 THEN -Way(p, q)[k] ELSE Way(p, q)[k]]
Long(p, q) == IF Size(p, q)[1] > Size(p, q)[2] THEN 1 ELSE 2
Short(p, q) == 3 - Long(p, q)
Steps(p, q) == Size(p, q)[Long(p, q)]

\* One round of the loop of tp_track_draw_line.
Moved(a, p, q) ==
  LET carry == Carry(a.eps + Size(p, q)[Short(p, q)], Steps(p, q))
  IN [pixel |-> [a.pixel EXCEPT ![Long(p, q)] = @ + Unit(p, q)[Long(p, q)],
                                ![Short(p, q)] = @ + carry[1] * Unit(p, q)[Short(p, q)]],
      eps |-> carry[2]]

\* at is what m rounds leave, one after the other.
Rounds(at, m, p, q) ==
  at = [n \in 0 .. m |-> IF n = 0 THEN [pixel |-> p, eps |-> 0] ELSE Moved(at[n - 1], p, q)]

LEMMA PixelIsRounds ==
  ASSUME NEW p, NEW q
  PROVE  Pixel(p, q) =
           LET at == CHOOSE at : Rounds(at, Steps(p, q), p, q)
           IN [n \in 0 .. Steps(p, q) |-> at[n].pixel]
BY DEF Pixel, Rounds, Moved, Steps, Long, Short, Size, Unit, Way

LEMMA RoundsExist ==
  ASSUME NEW p, NEW q, NEW m \in Nat
  PROVE  \E at : Rounds(at, m, p, q)
<1> DEFINE S == {n \in 0 .. m : \E at : Rounds(at, n, p, q)}
           First == [pixel |-> p, eps |-> 0]
<1>1. 0 \in S
  <2> DEFINE at == [n \in 0 .. 0 |-> First]
  <2>1. at = [n \in 0 .. 0 |-> IF n = 0 THEN First ELSE Moved(at[n - 1], p, q)]
    OBVIOUS
  <2>2. Rounds(at, 0, p, q)
    BY <2>1 DEF Rounds
  <2> HIDE DEF at
  <2> QED
    BY <2>2
<1>2. ASSUME NEW n \in 0 .. m - 1, n \in S PROVE n + 1 \in S
  <2>1. PICK g : Rounds(g, n, p, q)
    BY <1>2
  <2> DEFINE h == [k \in 0 .. n + 1 |-> IF k = n + 1 THEN Moved(g[n], p, q) ELSE g[k]]
  <2>2. ASSUME NEW k \in 0 .. n + 1
        PROVE  h[k] = IF k = 0 THEN First ELSE Moved(h[k - 1], p, q)
    <3>1. CASE k = n + 1
      <4>1. h[k] = Moved(g[n], p, q) /\ k # 0 /\ k - 1 = n /\ h[n] = g[n]
        BY <3>1
      <4> QED
        BY <4>1
    <3>2. CASE k # n + 1
      <4>1. k \in 0 .. n /\ h[k] = g[k] /\ (k # 0 => h[k - 1] = g[k - 1])
        BY <3>2
      <4>2. g[k] = IF k = 0 THEN First ELSE Moved(g[k - 1], p, q)
        BY <2>1, <4>1 DEF Rounds
      <4> QED
        BY <4>1, <4>2
    <3> QED
      BY <3>1, <3>2
  <2>3. h = [k \in 0 .. n + 1 |-> h[k]]
    OBVIOUS
  <2> HIDE DEF h
  <2>4. h = [k \in 0 .. n + 1 |-> IF k = 0 THEN First ELSE Moved(h[k - 1], p, q)]
    BY <2>2, <2>3
  <2>5. Rounds(h, n + 1, p, q)
    BY <2>4 DEF Rounds
  <2> QED
    BY <2>5
<1> HIDE DEF S
<1>3. m \in S
  BY <1>1, <1>2, InductionUpTo
<1> QED
  BY <1>3 DEF S

\* The error stays within half a step.
LEMMA CarryStep ==
  ASSUME NEW long \in Nat, NEW short \in 0 .. long, NEW e \in Int,
         -long <= 2 * e, 2 * e < long
  PROVE  \E c \in {0, 1} :
           /\ Carry(e + short, long) = <<c, e + short - c * long>>
           /\ -long <= 2 * (e + short - c * long) /\ 2 * (e + short - c * long) < long
<1>1. CASE 2 * (e + short) >= long
  BY <1>1 DEF Carry
<1>2. CASE ~(2 * (e + short) >= long)
  BY <1>2 DEF Carry
<1> QED
  BY <1>1, <1>2

\* So the steps to the side are never too many, and in the end just as many as there should be.
LEMMA SideSteps ==
  ASSUME NEW long \in Nat \ {0}, NEW short \in 0 .. long, NEW n \in 0 .. long, NEW c \in Nat,
         -long <= 2 * (n * short - c * long), 2 * (n * short - c * long) < long
  PROVE  c <= short /\ (n = long => c = short)
<1>1. n * short <= long * short
  OBVIOUS
<1>2. c <= short
  <2> SUFFICES ASSUME c >= short + 1 PROVE FALSE
    OBVIOUS
  <2>1. c * long >= (short + 1) * long
    OBVIOUS
  <2>2. (short + 1) * long = long * short + long
    OBVIOUS
  <2>3. n * short \in Int /\ c * long \in Int /\ long * short \in Int
    OBVIOUS
  <2> QED
    BY <1>1, <2>1, <2>2, <2>3
<1>3. ASSUME n = long, c < short PROVE FALSE
  <2>1. (short - 1) * long >= c * long
    BY <1>3
  <2>2. (short - 1) * long = long * short - long
    OBVIOUS
  <2>3. n * short = long * short
    BY <1>3
  <2>4. n * short \in Int /\ c * long \in Int /\ long * short \in Int
    OBVIOUS
  <2> QED
    BY <2>1, <2>2, <2>3, <2>4
<1> QED
  BY <1>2, <1>3

LEMMA LineFacts ==
  ASSUME NEW p \in Pixels, NEW q \in Pixels
  PROVE  /\ \/ Long(p, q) = 1 /\ Short(p, q) = 2
            \/ Long(p, q) = 2 /\ Short(p, q) = 1
         /\ Steps(p, q) \in Nat /\ Size(p, q)[Short(p, q)] \in 0 .. Steps(p, q)
         /\ \A k \in 1 .. 2 : /\ p[k] \in 0 .. Extent /\ q[k] \in 0 .. Extent
                              /\ Unit(p, q)[k] \in {-1, 1} /\ Size(p, q)[k] \in Nat
                              /\ q[k] = p[k] + Size(p, q)[k] * Unit(p, q)[k]
<1>1. /\ p[1] \in 0 .. Extent /\ p[2] \in 0 .. Extent
      /\ q[1] \in 0 .. Extent /\ q[2] \in 0 .. Extent /\ Extent \in Nat
  BY DfViewAssumption DEF Pixels
<1>2. Way(p, q)[1] = q[1] - p[1] /\ Way(p, q)[2] = q[2] - p[2]
  BY DEF Way
<1>3. ASSUME NEW k \in 1 .. 2
      PROVE  /\ p[k] \in 0 .. Extent /\ q[k] \in 0 .. Extent
             /\ Unit(p, q)[k] = IF q[k] - p[k] > 0 THEN 1 ELSE -1
             /\ Size(p, q)[k] = IF q[k] - p[k] < 0 THEN -(q[k] - p[k]) ELSE q[k] - p[k]
  <2>1. CASE k = 1
    BY <1>1, <1>2, <2>1 DEF Unit, Size
  <2>2. CASE k = 2
    BY <1>1, <1>2, <2>2 DEF Unit, Size
  <2> QED
    BY <2>1, <2>2
<1>4. ASSUME NEW k \in 1 .. 2
      PROVE  /\ Unit(p, q)[k] \in {-1, 1} /\ Size(p, q)[k] \in Nat
             /\ q[k] = p[k] + Size(p, q)[k] * Unit(p, q)[k]
  BY <1>1, <1>3
<1>5. CASE Size(p, q)[1] > Size(p, q)[2]
  BY <1>3, <1>4, <1>5 DEF Long, Short, Steps
<1>6. CASE ~(Size(p, q)[1] > Size(p, q)[2])
  BY <1>3, <1>4, <1>6 DEF Long, Short, Steps
<1> QED
  BY <1>3, <1>4, <1>5, <1>6

\* After n rounds, c of which went to the side as well.
OnLine(a, n, c, p, q) ==
  /\ a = [pixel |-> [k \in 1 .. 2 |->
                       p[k] + (IF k = Long(p, q) THEN n ELSE c) * Unit(p, q)[k]],
          eps |-> n * Size(p, q)[Short(p, q)] - c * Steps(p, q)]
  /\ Steps(p, q) > 0 => /\ -Steps(p, q) <= 2 * a.eps
                        /\ 2 * a.eps < Steps(p, q)

LEMMA LineRound ==
  ASSUME NEW p \in Pixels, NEW q \in Pixels, NEW n \in 0 .. Steps(p, q) - 1,
         NEW c \in Nat, NEW a, OnLine(a, n, c, p, q)
  PROVE  OnLine(Moved(a, p, q), n + 1, c, p, q) \/ OnLine(Moved(a, p, q), n + 1, c + 1, p, q)
<1> DEFINE long == Steps(p, q)
           short == Size(p, q)[Short(p, q)]
           lx == Long(p, q)
           sx == Short(p, q)
           u == Unit(p, q)
<1>1. /\ (lx = 1 /\ sx = 2) \/ (lx = 2 /\ sx = 1)
      /\ long \in Nat /\ short \in 0 .. long /\ n \in Nat /\ long > 0
      /\ \A k \in 1 .. 2 : p[k] \in Int /\ u[k] \in {-1, 1}
  BY LineFacts
<1>2. /\ a.pixel = [k \in 1 .. 2 |-> p[k] + (IF k = lx THEN n ELSE c) * u[k]]
      /\ a.eps = n * short - c * long /\ -long <= 2 * a.eps /\ 2 * a.eps < long
  BY <1>1 DEF OnLine
<1> HIDE DEF long, short, lx, sx, u
<1>3. a.eps \in Int
  BY <1>1, <1>2
<1>4. PICK s \in {0, 1} :
        /\ Carry(a.eps + short, long) = <<s, a.eps + short - s * long>>
        /\ -long <= 2 * (a.eps + short - s * long) /\ 2 * (a.eps + short - s * long) < long
  BY <1>1, <1>2, <1>3, CarryStep
<1>5. Moved(a, p, q) =
        [pixel |-> [a.pixel EXCEPT ![lx] = @ + u[lx], ![sx] = @ + s * u[sx]],
         eps |-> a.eps + short - s * long]
  BY <1>4 DEF Moved, lx, sx, u, long, short
<1>6. [a.pixel EXCEPT ![lx] = @ + u[lx], ![sx] = @ + s * u[sx]]
        = [k \in 1 .. 2 |-> p[k] + (IF k = lx THEN n + 1 ELSE c + s) * u[k]]
  <2> DEFINE f == a.pixel
             g == [f EXCEPT ![lx] = @ + u[lx], ![sx] = @ + s * u[sx]]
  <2>1. /\ f[lx] = p[lx] + n * u[lx] /\ f[sx] = p[sx] + c * u[sx]
        /\ DOMAIN f = 1 .. 2
    BY <1>1, <1>2
  <2>2. g[lx] = f[lx] + u[lx] /\ g[sx] = f[sx] + s * u[sx] /\ g = [k \in 1 .. 2 |-> g[k]]
    BY <1>1, <1>2
  <2> HIDE DEF f, g
  <2>3. g[lx] = p[lx] + (n + 1) * u[lx]
    BY <1>1, <2>1, <2>2
  <2>4. g[sx] = p[sx] + (c + s) * u[sx]
    BY <1>1, <2>1, <2>2
  <2>5. \A k \in 1 .. 2 : g[k] = p[k] + (IF k = lx THEN n + 1 ELSE c + s) * u[k]
    BY <1>1, <2>3, <2>4
  <2>6. g = [k \in 1 .. 2 |-> p[k] + (IF k = lx THEN n + 1 ELSE c + s) * u[k]]
    BY <2>2, <2>5
  <2> QED
    BY <2>6 DEF g, f
<1>7. a.eps + short - s * long = (n + 1) * short - (c + s) * long
  <2>1. (n + 1) * short = n * short + short /\ (c + s) * long = c * long + s * long
    BY <1>1
  <2>2. n * short \in Int /\ c * long \in Int /\ s * long \in Int
    BY <1>1
  <2> QED
    BY <2>1, <2>2, <1>1, <1>2
<1>8. OnLine(Moved(a, p, q), n + 1, c + s, p, q)
  <2>1. Moved(a, p, q) =
          [pixel |-> [k \in 1 .. 2 |-> p[k] + (IF k = lx THEN n + 1 ELSE c + s) * u[k]],
           eps |-> (n + 1) * short - (c + s) * long]
    BY <1>5, <1>6, <1>7
  <2>2. -long <= 2 * ((n + 1) * short - (c + s) * long) /\ 2 * ((n + 1) * short - (c + s) * long) < long
    BY <1>4, <1>7
  <2> QED
    BY <2>1, <2>2 DEF OnLine, lx, sx, u, long, short
<1>9. c + s = c \/ c + s = c + 1
  OBVIOUS
<1> QED
  BY <1>8, <1>9

LEMMA LineSoFar ==
  ASSUME NEW p \in Pixels, NEW q \in Pixels, NEW at, Rounds(at, Steps(p, q), p, q)
  PROVE  /\ at[0] = [pixel |-> p, eps |-> 0]
         /\ \A n \in 1 .. Steps(p, q) : at[n] = Moved(at[n - 1], p, q)
         /\ \A n \in 0 .. Steps(p, q) : \E c \in Nat : OnLine(at[n], n, c, p, q)
<1> DEFINE m == Steps(p, q)
<1>1. m \in Nat
  BY LineFacts
<1>2. at[0] = [pixel |-> p, eps |-> 0] /\ \A n \in 1 .. m : at[n] = Moved(at[n - 1], p, q)
  BY <1>1 DEF Rounds
<1> DEFINE S == {n \in 0 .. m : \E c \in Nat : OnLine(at[n], n, c, p, q)}
<1>3. 0 \in S
  <2>1. p = [k \in 1 .. 2 |-> p[k]]
    BY DEF Pixels
  <2>2. [k \in 1 .. 2 |-> p[k] + (IF k = Long(p, q) THEN 0 ELSE 0) * Unit(p, q)[k]] = p
    <3>1. \A k \in 1 .. 2 : p[k] + (IF k = Long(p, q) THEN 0 ELSE 0) * Unit(p, q)[k] = p[k]
      BY LineFacts
    <3> QED
      BY <2>1, <3>1
  <2>3. 0 * Size(p, q)[Short(p, q)] - 0 * Steps(p, q) = 0
    BY LineFacts
  <2>4. OnLine([pixel |-> p, eps |-> 0], 0, 0, p, q)
    BY <1>1, <2>2, <2>3 DEF OnLine
  <2> QED
    BY <1>1, <1>2, <2>4
<1>4. ASSUME NEW n \in 0 .. m - 1, n \in S PROVE n + 1 \in S
  <2>1. PICK c \in Nat : OnLine(at[n], n, c, p, q)
    BY <1>4
  <2>2. at[n + 1] = Moved(at[n], p, q)
    BY <1>1, <1>2
  <2>3. OnLine(at[n + 1], n + 1, c, p, q) \/ OnLine(at[n + 1], n + 1, c + 1, p, q)
    BY <2>1, <2>2, LineRound
  <2> QED
    BY <1>1, <2>3
<1> HIDE DEF S
<1>5. \A n \in 0 .. m : n \in S
  BY <1>1, <1>3, <1>4, InductionUpTo
<1> QED
  BY <1>2, <1>5 DEF S

LEMMA PixelPair ==
  ASSUME NEW f, f = [k \in 1 .. 2 |-> f[k]], f[1] \in 0 .. Extent, f[2] \in 0 .. Extent
  PROVE  f \in Pixels
<1>1. f = <<f[1], f[2]>>
  OBVIOUS
<1> QED
  BY <1>1 DEF Pixels

\* Whatever the two points: the line ends where it should and does not leave the rectangle
\* between them, and each pixel is next to the one before.
LEMMA LineStays ==
  ASSUME NEW p \in Pixels, NEW q \in Pixels
  PROVE  LET pixel == Pixel(p, q)
             last == Cardinality(DOMAIN pixel) - 1
         IN /\ pixel[last] = q
            /\ \A n \in 0 .. last : pixel[n] \in Pixels
            /\ \A n \in 1 .. last, k \in 1 .. 2 : pixel[n][k] - pixel[n - 1][k] \in -1 .. 1
<1> DEFINE m == Steps(p, q)
           at == CHOOSE at : Rounds(at, m, p, q)
           lx == Long(p, q)
           u == Unit(p, q)
           side == Size(p, q)[Short(p, q)]
<1>1. /\ (lx = 1 /\ Short(p, q) = 2) \/ (lx = 2 /\ Short(p, q) = 1)
      /\ m \in Nat /\ side \in 0 .. m
      /\ \A k \in 1 .. 2 : /\ p[k] \in 0 .. Extent /\ q[k] \in 0 .. Extent /\ u[k] \in {-1, 1}
                           /\ Size(p, q)[k] = (IF k = lx THEN m ELSE side)
                           /\ q[k] = p[k] + Size(p, q)[k] * u[k]
  BY LineFacts DEF Steps
<1>2. Rounds(at, m, p, q)
  BY <1>1, RoundsExist
<1>3. Pixel(p, q) = [n \in 0 .. m |-> at[n].pixel]
  BY PixelIsRounds
<1> HIDE DEF at
<1> DEFINE pixel == [n \in 0 .. m |-> at[n].pixel]
<1>4. DOMAIN pixel = 0 .. m /\ Cardinality(0 .. m) - 1 = m
  BY <1>1, FS_Interval
<1>5. ASSUME NEW n \in 0 .. m
      PROVE  \E c \in 0 .. side :
               /\ pixel[n] = [k \in 1 .. 2 |-> p[k] + (IF k = lx THEN n ELSE c) * u[k]]
               /\ OnLine(at[n], n, c, p, q)
               /\ n = m => c = side
  <2>1. PICK c \in Nat : OnLine(at[n], n, c, p, q)
    BY <1>2, LineSoFar
  <2>2. CASE m = 0
    <3>1. n = 0 /\ side = 0 /\ at[0] = [pixel |-> p, eps |-> 0]
      BY <1>1, <1>2, <2>2, LineSoFar
    <3>2. OnLine(at[n], n, 0, p, q)
      <4>1. p = [k \in 1 .. 2 |-> p[k]]
        BY DEF Pixels
      <4>2. \A k \in 1 .. 2 : p[k] + (IF k = lx THEN 0 ELSE 0) * u[k] = p[k]
        BY <1>1
      <4>3. [k \in 1 .. 2 |-> p[k] + (IF k = lx THEN 0 ELSE 0) * u[k]] = p
        BY <4>1, <4>2
      <4>4. 0 * side - 0 * m = 0
        BY <1>1
      <4> QED
        BY <2>2, <3>1, <4>3, <4>4 DEF OnLine
    <3>3. at[n].pixel = [k \in 1 .. 2 |-> p[k] + (IF k = lx THEN n ELSE 0) * u[k]]
      BY <3>2 DEF OnLine
    <3> QED
      BY <3>1, <3>2, <3>3
  <2>3. CASE m # 0
    <3>1. /\ -m <= 2 * (n * side - c * m) /\ 2 * (n * side - c * m) < m
          /\ at[n].pixel = [k \in 1 .. 2 |-> p[k] + (IF k = lx THEN n ELSE c) * u[k]]
      BY <1>1, <2>1, <2>3 DEF OnLine
    <3>2. c <= side /\ (n = m => c = side)
      <4>1. m \in Nat \ {0} /\ side \in 0 .. m
        BY <1>1, <2>3
      <4> HIDE DEF m, side
      <4> QED
        BY <4>1, <3>1, SideSteps
    <3>3. c \in 0 .. side /\ pixel[n] = at[n].pixel
      BY <1>1, <3>2
    <3> QED
      BY <2>1, <3>1, <3>2, <3>3
  <2> QED
    BY <2>2, <2>3
<1>6. pixel[m] = q
  <2>1. pixel[m] = [k \in 1 .. 2 |-> p[k] + (IF k = lx THEN m ELSE side) * u[k]]
    <3>1. m \in 0 .. m
      BY <1>1
    <3> HIDE DEF pixel
    <3> QED
      BY <1>5, <3>1
  <2>2. \A k \in 1 .. 2 : p[k] + (IF k = lx THEN m ELSE side) * u[k] = q[k]
    BY <1>1
  <2>3. q = [k \in 1 .. 2 |-> q[k]]
    BY DEF Pixels
  <2> QED
    BY <2>1, <2>2, <2>3
<1>7. ASSUME NEW n \in 0 .. m PROVE pixel[n] \in Pixels
  <2>1. PICK c \in 0 .. side :
          pixel[n] = [k \in 1 .. 2 |-> p[k] + (IF k = lx THEN n ELSE c) * u[k]]
    BY <1>5
  <2>2. ASSUME NEW k \in 1 .. 2 PROVE pixel[n][k] \in 0 .. Extent
    <3> DEFINE i == IF k = lx THEN n ELSE c
    <3>1. i \in 0 .. Size(p, q)[k] /\ Size(p, q)[k] \in Nat
      BY <1>1
    <3>2. pixel[n][k] = p[k] + i * u[k]
      BY <2>1
    <3> HIDE DEF i
    <3>3. CASE u[k] = 1
      BY <1>1, <3>1, <3>2, <3>3, DfViewAssumption
    <3>4. CASE u[k] = -1
      BY <1>1, <3>1, <3>2, <3>4, DfViewAssumption
    <3> QED
      BY <1>1, <3>3, <3>4
  <2>3. pixel[n] = [k \in 1 .. 2 |-> pixel[n][k]]
    BY <2>1
  <2> QED
    BY <2>2, <2>3, PixelPair
<1>8. ASSUME NEW n \in 1 .. m, NEW k \in 1 .. 2 PROVE pixel[n][k] - pixel[n - 1][k] \in -1 .. 1
  <2>1. n - 1 \in 0 .. m /\ n \in 0 .. m /\ (n - 1) + 1 = n /\ n - 1 \in 0 .. m - 1
    BY <1>1
  <2>2. PICK c \in 0 .. side :
          /\ pixel[n - 1] = [j \in 1 .. 2 |-> p[j] + (IF j = lx THEN n - 1 ELSE c) * u[j]]
          /\ OnLine(at[n - 1], n - 1, c, p, q)
    BY <1>5, <2>1
  <2>3. at[n] = Moved(at[n - 1], p, q)
    BY <1>2, LineSoFar
  <2>4. PICK d \in {c, c + 1} : OnLine(at[n], n, d, p, q)
    <3>1. OnLine(at[n], n, c, p, q) \/ OnLine(at[n], n, c + 1, p, q)
      BY <2>1, <2>2, <2>3, <1>1, LineRound
    <3> QED
      BY <3>1
  <2>5. pixel[n] = [j \in 1 .. 2 |-> p[j] + (IF j = lx THEN n ELSE d) * u[j]]
    BY <2>1, <2>4 DEF OnLine
  <2>6. /\ pixel[n][k] = p[k] + (IF k = lx THEN n ELSE d) * u[k]
        /\ pixel[n - 1][k] = p[k] + (IF k = lx THEN n - 1 ELSE c) * u[k]
    BY <2>2, <2>5
  <2>7. d \in Int /\ c \in Int /\ d - c \in {0, 1} /\ p[k] \in Int /\ u[k] \in {-1, 1} /\ n \in Int
    BY <1>1
  <2> HIDE DEF pixel
  <2> QED
    BY <2>6, <2>7
<1> HIDE DEF pixel, m
<1>9. Pixel(p, q) = pixel
  BY <1>3 DEF pixel, m
<1> QED
  BY <1>4, <1>6, <1>7, <1>8, <1>9

\* TrackOnScreen: on a screen of any size each line of the track goes from its first point to
\* its last one pixel by pixel, and leaves the screen nowhere (tp_track_draw_line).
THEOREM TrackStaysOnScreen == Spec => []TrackOnScreen
<1>1. TypeOK => TrackOnScreen
  <2> SUFFICES ASSUME TypeOK, pre_x # None, NEW q \in Pixels
               PROVE  LET pixel == Pixel(<<pre_x, pre_y>>, q)
                          last == Cardinality(DOMAIN pixel) - 1
                      IN /\ pixel[last] = q
                         /\ \A n \in 0 .. last : pixel[n] \in Pixels
                         /\ \A n \in 1 .. last, k \in 1 .. 2 :
                              pixel[n][k] - pixel[n - 1][k] \in -1 .. 1
    BY DEF TrackOnScreen
  <2>1. <<pre_x, pre_y>> \in Pixels
    BY DEF TypeOK
  <2> QED
    BY <2>1, LineStays
<1> QED
  BY DfTypeCorrect, <1>1, PTL

-----------------------------------------------------------------------------
(* A round of the wifi scan.                                               *)

\* The lines of this round that have been written, with FLAG at the end of them.
Sending == IF tester = "write" THEN sent ELSE sent + 1
Line(k) == IF k <= sent THEN scan[k] ELSE FLAG

\* How many of them have been read: when there are more lines in the pipe than that, the
\* other ones are of rounds before, and the last of these is FLAG.
Read == Sending - Len(wifi_pipe)

PipeFollows ==
  /\ \A i \in 1 .. Len(wifi_pipe) : i + Read >= 1 => wifi_pipe[i] = Line(i + Read)
  /\ Read < 0 => wifi_pipe[-Read] = FLAG

\* The names among the first k lines, and the row that a name has among them.
Found(k) == {scan[n] : n \in 1 .. k} \ {Hidden}

PlacesBy(s, r, k) ==
  \E n \in 1 .. k :
    /\ scan[n] = s /\ s # Hidden
    /\ \A l \in 1 .. n - 1 : scan[l] # s
    /\ Cardinality(Found(n - 1)) = r - 1

ListsNames(k) ==
  /\ \A r \in DOMAIN wifi_list : PlacesBy(wifi_list[r], r, k)
  /\ Len(wifi_list) < Can =>
       /\ Len(wifi_list) = Cardinality(Found(k))
       /\ \A s \in Found(k) : Contains(wifi_list, s)

ShowsNames ==
  \A r \in 1 .. Can : /\ screen[r] = Hidden => \A s \in Ssids : ~Places(s, r)
                      /\ screen[r] # Hidden => Places(screen[r], r)

ListsReady == main \notin {"windows", "lists"} => lists

ListOnScreen == \A r \in DOMAIN wifi_list : screen[r] = wifi_list[r]

NothingRead ==
  wifi # "read" => /\ wifi_pipe = <<>> /\ wifi_list = <<>> /\ sent = 0
                   /\ tester \notin {"shown", "clear"}

ReadInOrder ==
  wifi = "read" =>
    /\ tester # "none" /\ (tester # "write" => sent = Len(scan))
    /\ PipeFollows
    /\ Read \in 0 .. sent => ListsNames(Read)
    /\ Read = sent + 1 => wifi_list = <<>> /\ ShowsNames

RoundInv == ListsReady /\ ListOnScreen /\ NothingRead /\ ReadInOrder

LEMMA FoundFinite ==
  ASSUME WifiTypes, NEW k \in 0 .. Len(scan)
  PROVE  IsFiniteSet(Found(k)) /\ Cardinality(Found(k)) \in Nat
<1> DEFINE T == {scan[n] : n \in 1 .. k}
           f == [n \in 1 .. k |-> scan[n]]
<1>1. IsFiniteSet(1 .. k)
  BY FS_Interval
<1>2. f \in Surjection(1 .. k, T)
  BY DEF Surjection
<1>3. IsFiniteSet(T)
  BY <1>1, <1>2, FS_Surjection
<1>4. Found(k) \in SUBSET T
  BY DEF Found
<1> HIDE DEF T
<1>5. IsFiniteSet(Found(k))
  BY <1>3, <1>4, FS_Subset
<1> QED
  BY <1>5, FS_CardinalityType

LEMMA FoundGrows ==
  ASSUME WifiTypes
  PROVE  /\ Found(0) = {} /\ Cardinality(Found(0)) = 0
         /\ \A k \in 0 .. Len(scan), l \in 0 .. Len(scan) : k <= l => Found(k) \subseteq Found(l)
         /\ \A k \in 0 .. Len(scan) - 1 :
              Found(k + 1) = Found(k) \cup ({scan[k + 1]} \ {Hidden})
<1>1. Found(0) = {}
  BY DEF Found
<1>2. Cardinality(Found(0)) = 0
  BY <1>1, FS_EmptySet
<1>3. ASSUME NEW k \in 0 .. Len(scan), NEW l \in 0 .. Len(scan), k <= l
      PROVE  Found(k) \subseteq Found(l)
  BY <1>3 DEF Found, WifiTypes
<1>4. ASSUME NEW k \in 0 .. Len(scan) - 1
      PROVE  Found(k + 1) = Found(k) \cup ({scan[k + 1]} \ {Hidden})
  <2>1. 1 .. k + 1 = (1 .. k) \cup {k + 1}
    BY <1>4 DEF WifiTypes
  <2> QED
    BY <2>1 DEF Found
<1> QED
  BY <1>1, <1>2, <1>3, <1>4

\* A name that the next line brings, or not.
LEMMA ReadName ==
  ASSUME WifiTypes, NEW k \in 0 .. Len(scan) - 1, ListsNames(k), UNCHANGED scan,
         IF Ignored(scan[k + 1]) THEN wifi_list' = wifi_list
         ELSE wifi_list' = Append(wifi_list, scan[k + 1])
  PROVE  ListsNames(k + 1)'
<1> DEFINE s == scan[k + 1]
           len == Len(wifi_list)
<1>1. /\ wifi_list \in Seq(Ssids) /\ len \in Nat /\ len <= Can /\ Can \in Nat
      /\ scan \in Seq(Lines) /\ s \in Lines /\ k \in 0 .. Len(scan) /\ k + 1 \in 0 .. Len(scan)
      /\ DOMAIN wifi_list = 1 .. len
  BY DfViewAssumption DEF WifiTypes
<1>2. \A l : Found(l)' = Found(l)
  BY DEF Found
<1>3. Found(k + 1) = Found(k) \cup ({s} \ {Hidden})
  BY FoundGrows
<1>4. /\ IsFiniteSet(Found(k)) /\ Cardinality(Found(k)) \in Nat
      /\ IsFiniteSet(Found(k + 1)) /\ Cardinality(Found(k + 1)) \in Nat
  BY <1>1, FoundFinite
<1>5. /\ \A x, r : PlacesBy(x, r, k) => PlacesBy(x, r, k + 1)
      /\ \A x, r : PlacesBy(x, r, k + 1)' <=> PlacesBy(x, r, k + 1)
  BY <1>1, <1>2 DEF PlacesBy
<1> HIDE DEF s
<1>6. CASE Ignored(s)
  <2>1. wifi_list' = wifi_list
    BY <1>6 DEF s
  <2>2. ASSUME len < Can
        PROVE  len = Cardinality(Found(k + 1)) /\ \A x \in Found(k + 1) : Contains(wifi_list, x)
    <3>1. s = Hidden \/ Contains(wifi_list, s)
      BY <1>1, <1>6, <2>2 DEF Ignored
    <3>2. \A x \in Found(k) : Contains(wifi_list, x)
      BY <2>2 DEF ListsNames
    <3>3. \A x \in Found(k + 1) : Contains(wifi_list, x)
      BY <1>3, <3>1, <3>2
    <3>4. s # Hidden => s \in Found(k)
      <4> SUFFICES ASSUME s # Hidden PROVE s \in Found(k)
        OBVIOUS
      <4>1. PICK r \in DOMAIN wifi_list : wifi_list[r] = s
        BY <1>1, <3>1 DEF Contains
      <4>2. PlacesBy(s, r, k)
        BY <4>1 DEF ListsNames
      <4> QED
        BY <4>2 DEF PlacesBy, Found
    <3>5. Found(k + 1) = Found(k)
      BY <1>3, <3>4
    <3> QED
      BY <2>2, <3>3, <3>5 DEF ListsNames
  <2> QED
    BY <1>2, <1>5, <2>1, <2>2 DEF ListsNames, Contains
<1>7. CASE ~Ignored(s)
  <2> DEFINE more == Append(wifi_list, s)
  <2>1. /\ wifi_list' = more /\ s # Hidden /\ ~Contains(wifi_list, s) /\ len < Can
        /\ s \in Ssids
    BY <1>1, <1>7 DEF s, Ignored, Lines
  <2>2. /\ Len(more) = len + 1 /\ DOMAIN more = 1 .. len + 1 /\ more[len + 1] = s
        /\ \A r \in 1 .. len : more[r] = wifi_list[r]
    <3>1. wifi_list \in Seq(Ssids) /\ s \in Ssids
      BY <1>1, <2>1
    <3> QED
      BY <3>1
  <2> HIDE DEF more
  <2>3. len = Cardinality(Found(k)) /\ \A x \in Found(k) : Contains(wifi_list, x)
    BY <2>1 DEF ListsNames
  <2>4. s \notin Found(k)
    BY <2>1, <2>3
  <2>5. Found(k + 1) = Found(k) \cup {s}
    BY <1>3, <2>1
  <2>6. Cardinality(Found(k + 1)) = len + 1
    BY <1>4, <2>3, <2>4, <2>5, FS_AddElement
  <2>7. \A x \in Found(k + 1) : Contains(more, x)
    <3>1. \A x : Contains(wifi_list, x) => Contains(more, x)
      BY <1>1, <2>2 DEF Contains
    <3>2. Contains(more, s)
      BY <1>1, <2>2 DEF Contains
    <3> QED
      BY <2>3, <2>5, <3>1, <3>2
  <2>8. PlacesBy(s, len + 1, k + 1)
    <3>1. \A l \in 1 .. k : scan[l] # s
      BY <2>1, <2>4 DEF Found
    <3>2. k + 1 \in 1 .. k + 1 /\ (k + 1) - 1 = k /\ scan[k + 1] = s /\ len + 1 - 1 = len
      BY <1>1 DEF s
    <3>3. \E n \in 1 .. k + 1 : /\ scan[n] = s /\ s # Hidden
                                /\ \A l \in 1 .. n - 1 : scan[l] # s
                                /\ Cardinality(Found(n - 1)) = len + 1 - 1
      BY <2>1, <2>3, <3>1, <3>2
    <3> QED
      BY <3>3 DEF PlacesBy
  <2>9. ASSUME NEW r \in DOMAIN more PROVE PlacesBy(more[r], r, k + 1)
    <3>1. CASE r = len + 1
      BY <2>2, <2>8, <3>1
    <3>2. CASE r # len + 1
      <4>1. r \in DOMAIN wifi_list /\ more[r] = wifi_list[r]
        BY <1>1, <2>2, <3>2
      <4> QED
        BY <1>5, <4>1 DEF ListsNames
    <3> QED
      BY <3>1, <3>2
  <2> QED
    BY <1>2, <1>5, <2>1, <2>2, <2>6, <2>7, <2>9 DEF ListsNames
<1> QED
  BY <1>6, <1>7

\* The list, and the rows after it cleared, are what the scan has found.
LEMMA RoundShows ==
  ASSUME WifiTypes, ListsNames(Len(scan)), ListOnScreen, RoundEnds, UNCHANGED scan
  PROVE  ShowsNames'
<1> DEFINE k == Len(scan)
           len == Len(wifi_list)
<1>1. /\ wifi_list \in Seq(Ssids) /\ len \in Nat /\ len <= Can /\ Can \in Nat
      /\ scan \in Seq(Lines) /\ k \in 0 .. Len(scan) /\ DOMAIN wifi_list = 1 .. len
      /\ DOMAIN scan = 1 .. k
  BY DfViewAssumption DEF WifiTypes
<1>2. \A s, r : Places(s, r)' <=> PlacesBy(s, r, k)
  BY <1>1 DEF Places, PlacesBy, Found
<1> SUFFICES ASSUME NEW r \in 1 .. Can
             PROVE  /\ screen'[r] = Hidden => \A s \in Ssids : ~PlacesBy(s, r, k)
                    /\ screen'[r] # Hidden => PlacesBy(screen'[r], r, k)
  BY <1>2 DEF ShowsNames
<1>3. screen'[r] = IF r > len THEN Hidden ELSE screen[r]
  BY DEF RoundEnds
<1>4. CASE r <= len
  <2>1. screen'[r] = wifi_list[r] /\ wifi_list[r] \in Ssids /\ r \in DOMAIN wifi_list
    BY <1>1, <1>3, <1>4 DEF ListOnScreen
  <2> QED
    BY <2>1, DfViewAssumption DEF ListsNames
<1>5. CASE r > len
  <2>1. screen'[r] = Hidden /\ len < Can /\ Cardinality(Found(k)) = len
    BY <1>1, <1>3, <1>5 DEF ListsNames
  <2> SUFFICES ASSUME NEW s \in Ssids, PlacesBy(s, r, k) PROVE FALSE
    BY <2>1
  <2>2. PICK n \in 1 .. k : /\ scan[n] = s /\ s # Hidden
                            /\ \A l \in 1 .. n - 1 : scan[l] # s
                            /\ Cardinality(Found(n - 1)) = r - 1
    BY DEF PlacesBy
  <2>3. /\ IsFiniteSet(Found(n - 1)) /\ Cardinality(Found(n - 1)) \in Nat
        /\ IsFiniteSet(Found(k))
    BY <1>1, FoundFinite
  <2>4. s \notin Found(n - 1) /\ s \in Found(k) /\ Found(n - 1) \subseteq Found(k)
    BY <1>1, <2>2, FoundGrows DEF Found
  <2>5. Cardinality(Found(n - 1) \cup {s}) = r
    <3>1. Cardinality(Found(n - 1) \cup {s}) = Cardinality(Found(n - 1)) + 1
      BY <2>3, <2>4, FS_AddElement
    <3> QED
      BY <2>2, <3>1
  <2>6. Cardinality(Found(n - 1) \cup {s}) <= Cardinality(Found(k))
    <3>1. Found(n - 1) \cup {s} \in SUBSET Found(k)
      BY <2>4
    <3> QED
      BY <2>3, <3>1, FS_Subset
  <2> QED
    BY <1>1, <1>5, <2>1, <2>5, <2>6
<1> QED
  BY <1>1, <1>4, <1>5

LEMMA RoundInit == Init => RoundInv
BY DEF Init, RoundInv, ListsReady, ListOnScreen, NothingRead, ReadInOrder

\* What a step does that neither writes nor reads a line.
LEMMA RoundOther ==
  ASSUME RoundInv, ListsReady', UNCHANGED <<wifi_list, screen, wifi_pipe, scan, sent>>,
         wifi' = wifi \/ (wifi # "read" /\ wifi' # "read"),
         tester' = "write" <=> tester = "write",
         tester' = "none" => tester = "none",
         wifi # "read" => tester' \notin {"shown", "clear"}
  PROVE  RoundInv'
<1>1. ListOnScreen' /\ NothingRead'
  BY DEF RoundInv, ListOnScreen, NothingRead
<1>2. Read' = Read /\ Sending' = Sending /\ \A k : Line(k)' = Line(k)
  BY DEF Read, Sending, Line
<1>3. PipeFollows' <=> PipeFollows
  BY <1>2 DEF PipeFollows
<1>4. \A k : ListsNames(k)' <=> ListsNames(k)
  BY DEF ListsNames, PlacesBy, Found
<1>5. ShowsNames' <=> ShowsNames
  BY DEF ShowsNames, Places
<1>6. wifi' = "read" => wifi = "read"
  OBVIOUS
<1>7. ReadInOrder'
  BY <1>2, <1>3, <1>4, <1>5, <1>6 DEF RoundInv, ReadInOrder
<1> QED
  BY <1>1, <1>7 DEF RoundInv

\* The list is empty: so it is for a round of which nothing has been read.
LEMMA NothingListed ==
  ASSUME WifiTypes, wifi_list = <<>>
  PROVE  ListsNames(0)
BY FoundGrows DEF ListsNames, WifiTypes

LEMMA NothingListedNext ==
  ASSUME WifiTypes', wifi_list' = <<>>
  PROVE  ListsNames(0)'
<1>1. Found(0)' = {}
  BY DEF Found
<1>2. Cardinality({}) = 0
  BY FS_EmptySet
<1> QED
  BY <1>1, <1>2 DEF ListsNames

\* The last line of a round is FLAG, once it is over.
LEMMA FlagIsLast ==
  ASSUME WifiTypes, PipeFollows, tester # "write", wifi_pipe # <<>>
  PROVE  wifi_pipe[Len(wifi_pipe)] = FLAG
<1> DEFINE n == Len(wifi_pipe)
<1>1. n \in Nat /\ n > 0 /\ sent \in Nat /\ Read = sent + 1 - n
  BY DEF WifiTypes, Read, Sending
<1>2. n \in 1 .. n /\ n + Read = sent + 1 /\ n + Read >= 1
  BY <1>1
<1>3. wifi_pipe[n] = Line(n + Read)
  BY <1>2 DEF PipeFollows
<1> QED
  BY <1>1, <1>2, <1>3 DEF Line

LEMMA RoundScan ==
  ASSUME WifiTypes, WifiTypes', RoundInv, ListsReady', ScanWlan0
  PROVE  RoundInv'
<1> DEFINE n == Len(wifi_pipe)
<1>1. /\ tester = "scan" /\ tester' = "write" /\ sent' = 0
      /\ UNCHANGED <<wifi, wifi_list, screen, wifi_pipe>>
  BY DEF ScanWlan0, list
<1>2. n \in Nat /\ sent \in Nat /\ wifi_pipe \in Seq(Lines \cup {FLAG}) /\ (n = 0 <=> wifi_pipe = <<>>)
  BY DEF WifiTypes
<1>3. ListOnScreen' /\ NothingRead'
  BY <1>1 DEF RoundInv, ListOnScreen, NothingRead
<1>4. ASSUME wifi = "read" PROVE ReadInOrder'
  <2>1. PipeFollows /\ (Read = sent + 1 => wifi_list = <<>>) /\ Read = sent + 1 - n
    BY <1>1, <1>4 DEF RoundInv, ReadInOrder, Read, Sending
  <2>2. Read' = -n
    BY <1>1, <1>2 DEF Read, Sending
  <2>3. n > 0 => wifi_pipe[n] = FLAG
    BY <1>1, <1>2, <2>1, FlagIsLast
  <2>4. PipeFollows'
    <3>1. \A i \in 1 .. Len(wifi_pipe') : ~(i + Read' >= 1)
      BY <1>1, <1>2, <2>2
    <3>2. Read' < 0 => wifi_pipe'[-(Read')] = FLAG
      <4>1. -(-n) = n
        BY <1>2
      <4> QED
        BY <1>1, <1>2, <2>2, <2>3, <4>1
    <3> QED
      BY <3>1, <3>2 DEF PipeFollows
  <2>5. Read' \in 0 .. sent' => ListsNames(Read)'
    <3> SUFFICES ASSUME Read' \in 0 .. sent' PROVE ListsNames(Read)'
      OBVIOUS
    <3>1. n = 0 /\ Read' = 0
      BY <1>1, <1>2, <2>2
    <3>2. wifi_list' = <<>>
      BY <1>1, <1>2, <2>1, <3>1
    <3>3. ListsNames(0)'
      BY <3>2, NothingListedNext
    <3> QED
      BY <3>1, <3>3 DEF ListsNames, PlacesBy, Found
  <2>6. ~(Read' = sent' + 1)
    BY <1>1, <1>2, <2>2
  <2> QED
    BY <1>1, <2>4, <2>5, <2>6 DEF ReadInOrder
<1>5. ReadInOrder'
  BY <1>1, <1>4 DEF ReadInOrder
<1> QED
  BY <1>3, <1>5 DEF RoundInv

\* A line more is in the pipe, the next one of this round.
LEMMA RoundWrite ==
  ASSUME WifiTypes, RoundInv, ListsReady', WriteItem \/ WriteFlag
  PROVE  RoundInv'
<1> DEFINE n == Len(wifi_pipe)
           line == IF sent < Len(scan) THEN scan[sent + 1] ELSE FLAG
           p == Append(wifi_pipe, line)
<1>1. n \in Nat /\ sent \in Nat /\ wifi_pipe \in Seq(Lines \cup {FLAG}) /\ sent <= Len(scan)
      /\ scan \in Seq(Lines)
  BY DEF WifiTypes
<1>2. /\ tester = "write" /\ wifi = "read" /\ wifi_pipe' = p
      /\ UNCHANGED <<wifi, wifi_list, screen, scan>>
      /\ \/ sent < Len(scan) /\ sent' = sent + 1 /\ tester' = "write"
         \/ sent = Len(scan) /\ sent' = sent /\ tester' = "shown"
  <2>1. CASE WriteItem
    BY <1>1, <2>1 DEF WriteItem, Write, list
  <2>2. CASE WriteFlag
    BY <1>1, <2>2 DEF WriteFlag, Write, list
  <2> QED
    BY <2>1, <2>2
<1>3. Len(p) = n + 1 /\ p[n + 1] = line /\ \A i \in 1 .. n : p[i] = wifi_pipe[i]
  <2>1. line \in Lines \cup {FLAG}
    BY <1>1
  <2> HIDE DEF line
  <2> QED
    BY <1>1, <2>1
<1> HIDE DEF p
<1>4. /\ PipeFollows /\ (Read \in 0 .. sent => ListsNames(Read))
      /\ Read = sent - n /\ Read' = Read
  BY <1>1, <1>2, <1>3 DEF RoundInv, ReadInOrder, Read, Sending
<1>5. PipeFollows'
  <2>1. ASSUME NEW i \in 1 .. n + 1, NEW k, k = i + Read, k >= 1
        PROVE  p[i] = IF k <= sent' THEN scan'[k] ELSE FLAG
    <3>1. CASE i = n + 1
      <4>1. k = sent + 1
        BY <1>1, <1>4, <2>1, <3>1
      <4> QED
        BY <1>1, <1>2, <1>3, <3>1, <4>1
    <3>2. CASE i # n + 1
      <4>1. i \in 1 .. n /\ k <= sent /\ k <= sent'
        BY <1>1, <1>2, <1>4, <2>1, <3>2
      <4>2. p[i] = Line(k)
        BY <1>3, <1>4, <2>1, <4>1 DEF PipeFollows
      <4> QED
        BY <1>2, <4>1, <4>2 DEF Line
    <3> QED
      BY <3>1, <3>2
  <2>2. Read < 0 => p[-Read] = FLAG
    <3> SUFFICES ASSUME Read < 0 PROVE p[-Read] = FLAG
      OBVIOUS
    <3>1. -Read \in 1 .. n
      BY <1>1, <1>4
    <3> QED
      BY <1>3, <1>4, <3>1 DEF PipeFollows
  <2> QED
    BY <1>2, <1>3, <1>4, <2>1, <2>2 DEF PipeFollows, Line
<1>6. Read' \in 0 .. sent' => ListsNames(Read)'
  <2>1. \A k : ListsNames(k)' <=> ListsNames(k)
    BY <1>2 DEF ListsNames, PlacesBy, Found
  <2>2. Read \in Int /\ Read <= sent
    BY <1>1, <1>4
  <2> QED
    BY <1>1, <1>2, <1>4, <2>1, <2>2
<1>7. ~(Read' = sent' + 1)
  BY <1>1, <1>2, <1>4
<1>8. ReadInOrder'
  BY <1>1, <1>2, <1>5, <1>6, <1>7 DEF ReadInOrder
<1>9. ListOnScreen' /\ NothingRead'
  BY <1>2 DEF RoundInv, ListOnScreen, NothingRead
<1> QED
  BY <1>8, <1>9 DEF RoundInv

LEMMA RoundLastFlag ==
  ASSUME WifiTypes, WifiTypes', RoundInv, ListsReady', WriteLastFlag
  PROVE  RoundInv'
<1> DEFINE n == Len(wifi_pipe)
           p == Append(wifi_pipe, FLAG)
<1>1. n \in Nat /\ sent \in Nat /\ wifi_pipe \in Seq(Lines \cup {FLAG}) /\ (n = 0 <=> wifi_pipe = <<>>)
  BY DEF WifiTypes
<1>2. /\ tester = "clear" /\ wifi = "read" /\ wifi_pipe' = p
      /\ UNCHANGED <<wifi, wifi_list, screen>>
      /\ tester' = "exit" /\ scan' = <<>> /\ sent' = 0
  BY DEF WriteLastFlag, Write, list
<1>3. Len(p) = n + 1 /\ p[n + 1] = FLAG /\ \A i \in 1 .. n : p[i] = wifi_pipe[i]
  BY <1>1
<1> HIDE DEF p
<1>4. /\ PipeFollows /\ (Read = sent + 1 => wifi_list = <<>>)
      /\ Read = sent + 1 - n /\ Read' = -n
  BY <1>1, <1>2, <1>3 DEF RoundInv, ReadInOrder, Read, Sending
<1>5. n > 0 => p[n] = FLAG
  BY <1>1, <1>2, <1>3, <1>4, FlagIsLast
<1>6. PipeFollows'
  <2>1. ASSUME NEW i \in 1 .. n + 1, NEW k, k = i + Read', k >= 1
        PROVE  p[i] = IF k <= sent' THEN scan'[k] ELSE FLAG
    <3>1. i = n + 1 /\ k = 1
      BY <1>1, <1>4, <2>1
    <3> QED
      BY <1>2, <1>3, <3>1
  <2>2. Read' < 0 => p[-(Read')] = FLAG
    <3>1. -(-n) = n
      BY <1>1
    <3> QED
      BY <1>1, <1>4, <1>5, <3>1
  <2> QED
    BY <1>2, <1>3, <2>1, <2>2 DEF PipeFollows, Line
<1>7. Read' \in 0 .. sent' => ListsNames(Read)'
  <2> SUFFICES ASSUME Read' \in 0 .. sent' PROVE ListsNames(Read)'
    OBVIOUS
  <2>1. n = 0 /\ Read' = 0
    BY <1>1, <1>2, <1>4
  <2>2. wifi_list' = <<>>
    BY <1>1, <1>2, <1>4, <2>1
  <2>3. ListsNames(0)'
    BY <2>2, NothingListedNext
  <2> QED
    BY <2>1, <2>3 DEF ListsNames, PlacesBy, Found
<1>8. ~(Read' = sent' + 1)
  BY <1>1, <1>2, <1>4
<1>9. Len(scan') = 0
  BY <1>2
<1>10. ReadInOrder'
  BY <1>2, <1>6, <1>7, <1>8, <1>9 DEF ReadInOrder
<1>11. ListOnScreen' /\ NothingRead'
  BY <1>2 DEF RoundInv, ListOnScreen, NothingRead
<1> QED
  BY <1>10, <1>11 DEF RoundInv

LEMMA RoundOpen ==
  ASSUME WifiTypes, WifiTypes', RoundInv, ListsReady', OpenPipe
  PROVE  RoundInv'
<1>1. /\ wifi = "open" /\ wifi' = "read" /\ tester \in {"write", "clear"}
      /\ UNCHANGED <<wifi_list, screen, wifi_pipe, tester, scan, sent>>
  BY DEF OpenPipe, script
<1>2. tester = "write" /\ wifi_pipe = <<>> /\ wifi_list = <<>> /\ sent = 0
  BY <1>1 DEF RoundInv, NothingRead
<1>3. Read' = 0
  <2>1. tester' = "write" /\ sent' = 0 /\ wifi_pipe' = <<>>
    BY <1>1, <1>2
  <2>2. Len(wifi_pipe') = 0
    BY <2>1
  <2>3. Sending' = 0
    BY <2>1 DEF Sending
  <2> QED
    BY <2>2, <2>3 DEF Read
<1>4. PipeFollows'
  BY <1>1, <1>2, <1>3 DEF PipeFollows
<1>5. ListsNames(0)'
  BY <1>1, <1>2, NothingListedNext
<1>6. ListsNames(Read)'
  BY <1>3, <1>5 DEF ListsNames, PlacesBy, Found
<1>7. ReadInOrder'
  BY <1>1, <1>2, <1>3, <1>4, <1>6 DEF ReadInOrder
<1>8. ListOnScreen' /\ NothingRead'
  BY <1>1 DEF RoundInv, ListOnScreen, NothingRead
<1> QED
  BY <1>7, <1>8 DEF RoundInv

LEMMA RoundRead ==
  ASSUME WifiTypes, WifiTypes', RoundInv, ListsReady', wifi_hot_point_proccess
  PROVE  RoundInv'
<1> DEFINE n == Len(wifi_pipe)
           line == wifi_pipe[1]
           p == Tail(wifi_pipe)
<1>1. /\ n \in Nat /\ sent \in Nat /\ wifi_pipe \in Seq(Lines \cup {FLAG})
      /\ sent <= Len(scan) /\ scan \in Seq(Lines) /\ FLAG \notin Lines
      /\ wifi_list \in Seq(Ssids)
  BY DfViewAssumption DEF WifiTypes, Lines
<1>2. /\ wifi = "read" /\ wifi_pipe # <<>> /\ wifi_pipe' = p
      /\ IF line = FLAG THEN RoundEnds
         ELSE IF Ignored(line) THEN UNCHANGED <<wifi_list, screen>> ELSE HotPoint(line)
      /\ UNCHANGED <<wifi, tester, scan, sent>>
  BY <1>1 DEF wifi_hot_point_proccess, script
<1>3. n > 0 /\ Len(p) = n - 1 /\ \A i \in 1 .. n - 1 : p[i] = wifi_pipe[i + 1]
  BY <1>1, <1>2
<1> HIDE DEF p, line
<1>4. /\ PipeFollows /\ (Read \in 0 .. sent => ListsNames(Read))
      /\ tester # "none" /\ (tester # "write" => sent = Len(scan))
      /\ Sending \in {sent, sent + 1} /\ Read = Sending - n /\ Read' = Read + 1
      /\ Read \in Int
  BY <1>1, <1>2, <1>3 DEF RoundInv, ReadInOrder, Read, Sending
<1>5. \A k : Line(k)' = Line(k)
  BY <1>2 DEF Line
<1>6. PipeFollows'
  <2>1. ASSUME NEW i \in 1 .. n - 1, i + (Read + 1) >= 1 PROVE p[i] = Line(i + (Read + 1))
    <3>1. i + 1 \in 1 .. n /\ (i + 1) + Read = i + (Read + 1) /\ (i + 1) + Read >= 1
      BY <1>1, <1>4, <2>1
    <3>2. wifi_pipe[i + 1] = Line((i + 1) + Read)
      BY <1>4, <3>1 DEF PipeFollows
    <3> QED
      BY <1>3, <3>1, <3>2
  <2>2. Read + 1 < 0 => p[-(Read + 1)] = FLAG
    <3> SUFFICES ASSUME Read + 1 < 0 PROVE p[-(Read + 1)] = FLAG
      OBVIOUS
    <3>1. Read < 0 /\ -(Read + 1) \in 1 .. n - 1 /\ -(Read + 1) + 1 = -Read
      BY <1>1, <1>4
    <3> QED
      BY <1>3, <1>4, <3>1 DEF PipeFollows
  <2> QED
    BY <1>2, <1>3, <1>4, <1>5, <2>1, <2>2 DEF PipeFollows
<1>7. ListOnScreen'
  <2>1. CASE RoundEnds
    BY <2>1 DEF RoundEnds, ListOnScreen
  <2>2. CASE UNCHANGED <<wifi_list, screen>>
    BY <2>2 DEF RoundInv, ListOnScreen
  <2>3. CASE line # FLAG /\ ~Ignored(line) /\ HotPoint(line)
    <3> DEFINE len == Len(wifi_list)
               more == Append(wifi_list, line)
               s == [screen EXCEPT ![len + 1] = line]
    <3>1. line \in Ssids /\ len \in Nat /\ len + 1 \in 1 .. Can /\ screen \in [1 .. Can -> Lines]
      <4>1. line \in Lines \cup {FLAG}
        BY <1>1, <1>2, <1>3 DEF line
      <4> QED
        BY <2>3, <4>1, DfViewAssumption DEF Ignored, Lines, WifiTypes
    <3>2. /\ DOMAIN wifi_list = 1 .. len /\ DOMAIN more = 1 .. len + 1 /\ more[len + 1] = line
          /\ \A r \in 1 .. len : more[r] = wifi_list[r]
      BY <1>1, <3>1
    <3>3. s[len + 1] = line /\ \A r \in 1 .. len : s[r] = screen[r]
      BY <3>1
    <3>4. wifi_list' = more /\ screen' = s
      BY <2>3 DEF HotPoint
    <3> HIDE DEF more, s
    <3>5. \A r \in 1 .. len : screen[r] = wifi_list[r]
      BY <3>2 DEF RoundInv, ListOnScreen
    <3> QED
      BY <3>1, <3>2, <3>3, <3>4, <3>5 DEF ListOnScreen
  <2> QED
    BY <1>2, <2>1, <2>2, <2>3
<1>8. NothingRead'
  BY <1>2 DEF NothingRead
<1>9. CASE Read < 0
  <2>1. /\ Read' \in 0 .. sent' => Read = -1
        /\ ~(Read' = sent' + 1)
    BY <1>1, <1>2, <1>4, <1>9
  <2>2. ASSUME Read = -1 PROVE ListsNames(Read)'
    <3>1. line = FLAG
      BY <1>4, <2>2 DEF PipeFollows, line
    <3>2. wifi_list' = <<>>
      BY <1>2, <3>1 DEF RoundEnds
    <3>3. ListsNames(0)'
      BY <3>2, NothingListedNext
    <3>4. Read' = 0
      BY <1>4, <2>2
    <3> QED
      BY <3>3, <3>4 DEF ListsNames, PlacesBy, Found
  <2> QED
    BY <1>2, <1>4, <1>6, <1>7, <1>8, <2>1, <2>2 DEF RoundInv, ReadInOrder
<1>10. CASE Read >= 0
  <2>1. Read \in 0 .. sent /\ ListsNames(Read) /\ 1 \in 1 .. n /\ 1 + Read >= 1
    BY <1>1, <1>3, <1>4, <1>10
  <2>2. line = Line(1 + Read)
    BY <1>4, <2>1 DEF PipeFollows, line
  <2>3. CASE Read < sent
    <3>1. /\ Read \in 0 .. Len(scan) - 1 /\ 1 + Read = Read + 1
          /\ line = scan[Read + 1] /\ line \in Lines
      BY <1>1, <2>1, <2>2, <2>3 DEF Line
    <3>2. line # FLAG
      BY <1>1, <3>1
    <3>3. IF Ignored(scan[Read + 1]) THEN wifi_list' = wifi_list
          ELSE wifi_list' = Append(wifi_list, scan[Read + 1])
      BY <1>2, <3>1, <3>2 DEF HotPoint
    <3>4. PICK k \in 0 .. Len(scan) - 1 : k = Read
      BY <3>1
    <3>5. ListsNames(k + 1)'
      BY <1>2, <2>1, <3>3, <3>4, ReadName
    <3>6. ListsNames(Read)'
      <4>1. Read' = k + 1
        BY <1>4, <3>4
      <4> QED
        BY <3>5, <4>1 DEF ListsNames, PlacesBy, Found
    <3>7. ~(Read' = sent' + 1)
      BY <1>1, <1>2, <1>4, <2>3
    <3> QED
      BY <1>2, <1>4, <1>6, <1>7, <1>8, <3>6, <3>7 DEF RoundInv, ReadInOrder
  <2>4. CASE Read = sent
    <3>1. tester # "write" /\ sent = Len(scan)
      BY <1>1, <1>3, <1>4, <2>4 DEF Sending
    <3>2. line = FLAG
      BY <1>1, <2>2, <2>4 DEF Line
    <3>3. RoundEnds
      BY <1>2, <3>2
    <3>4. ListsNames(Len(scan)) /\ ListOnScreen
      BY <2>1, <2>4, <3>1 DEF RoundInv, ListsNames, PlacesBy, Found
    <3>5. ShowsNames' /\ wifi_list' = <<>>
      BY <1>2, <3>3, <3>4, RoundShows DEF RoundEnds
    <3>6. ~(Read' \in 0 .. sent')
      BY <1>1, <1>2, <1>4, <2>4
    <3> QED
      BY <1>2, <1>4, <1>6, <1>7, <1>8, <3>5, <3>6 DEF RoundInv, ReadInOrder
  <2> QED
    BY <1>1, <2>1, <2>3, <2>4
<1> QED
  BY <1>4, <1>9, <1>10

\* The lists are there before the launcher and with it the script are.
LEMMA ListsStep == ASSUME ListsReady, lists \in BOOLEAN, [Next]_vars PROVE ListsReady'
<1>1. CASE UNCHANGED vars
  BY <1>1 DEF ListsReady, vars, items
<1>2. CASE df_windows_init \/ InitLists \/ buildin_tc_init \/ StartEvents \/ draw_testcases \/ Launch \/ Listen
  BY <1>2 DEF ListsReady, df_windows_init, InitLists, buildin_tc_init, StartEvents, draw_testcases,
              Launch, Listen, df_insert_item
<1>3. CASE (\E t \in Threads : Draw(t)) \/ Touch \/ GetEvent \/ button_handle \/ Press
  BY <1>3 DEF ListsReady, Draw, Touch, GetEvent, button_handle, Press, items
<1>4. CASE FindWlan0 \/ ScanWlan0 \/ WriteItem \/ WriteFlag \/ DownWlan0 \/ WriteLastFlag
           \/ OpenPipe \/ wifi_hot_point_proccess
  BY <1>4 DEF ListsReady, FindWlan0, ScanWlan0, WriteItem, WriteFlag, DownWlan0, WriteLastFlag,
              OpenPipe, wifi_hot_point_proccess, Write, items
<1> QED
  BY <1>1, <1>2, <1>3, <1>4 DEF Next

LEMMA RoundStep == Types /\ Launched /\ RoundInv /\ [Next]_vars => RoundInv'
<1> SUFFICES ASSUME Types, Launched, RoundInv, [Next]_vars PROVE RoundInv'
  OBVIOUS
<1>1. WifiTypes /\ WifiTypes'
  BY TypesStep DEF Types
<1>2. ListsReady'
  BY <1>1, ListsStep DEF RoundInv, WifiTypes
<1>3. CASE \/ df_windows_init \/ InitLists \/ buildin_tc_init \/ StartEvents \/ draw_testcases
           \/ Launch \/ Listen
  <2>1. /\ UNCHANGED <<wifi_list, screen, wifi_pipe, scan, sent>>
        /\ tester' = tester \/ (main = "draw" /\ tester' = "find")
        /\ wifi' = wifi \/ (main = "windows" /\ wifi' = "open")
    BY <1>3 DEF df_windows_init, InitLists, buildin_tc_init, StartEvents, draw_testcases,
       Launch, Listen, df_insert_item, scanning, list, script
  <2>2. main # "listen" => tester = "none" /\ wifi # "read"
    BY DEF Launched, RoundInv, ReadInOrder
  <2>3. wifi # "read" => tester \notin {"shown", "clear"}
    BY DEF RoundInv, NothingRead
  <2> QED
    BY <1>2, <2>1, <2>2, <2>3, RoundOther
<1>4. CASE (\E t \in Threads : Draw(t)) \/ Touch \/ GetEvent \/ button_handle \/ Press \/ UNCHANGED vars
  <2>1. UNCHANGED <<wifi, wifi_list, screen, wifi_pipe, scan, sent, tester>>
    BY <1>4 DEF Draw, Touch, GetEvent, button_handle, Press, vars, scanning, list, script
  <2>2. wifi # "read" => tester \notin {"shown", "clear"}
    BY DEF RoundInv, NothingRead
  <2> QED
    BY <1>2, <2>1, <2>2, RoundOther
<1>5. CASE FindWlan0 \/ DownWlan0
  <2>1. /\ UNCHANGED <<wifi, wifi_list, screen, wifi_pipe, scan, sent>>
        /\ \/ tester = "find" /\ tester' \in {"find", "scan", "exit"}
           \/ tester = "shown" /\ tester' \in {"find", "clear"}
    BY <1>5 DEF FindWlan0, DownWlan0, list
  <2>2. wifi # "read" => tester \notin {"shown", "clear"}
    BY DEF RoundInv, NothingRead
  <2> QED
    BY <1>2, <2>1, <2>2, RoundOther
<1> QED
  BY <1>1, <1>2, <1>3, <1>4, <1>5, RoundScan, RoundWrite, RoundLastFlag, RoundOpen, RoundRead
  DEF Next

\* WifiRoundShown: whatever the hot points of a scan, the rows and the rounds, the window shows
\* the names of the last scan, each once and in their order, when its lines have been read; no
\* line is read before wifi_list is initialised (wifi_hot_point_process, wifitester.sh).
THEOREM RoundsShown == Spec => []WifiRoundShown
<1>1. Init => Types /\ Launched /\ RoundInv
  BY TypesInit, RoundInit DEF Init, Launched
<1>2. (Types /\ Launched /\ RoundInv) /\ [Next]_vars => (Types /\ Launched /\ RoundInv)'
  BY TypesStep, LaunchedStep, RoundStep
<1>3. Types /\ Launched /\ RoundInv => WifiRoundShown
  <2> SUFFICES ASSUME Types, Launched, RoundInv, wifi = "read"
               PROVE  /\ lists
                      /\ tester \in {"shown", "exit"} /\ wifi_pipe = <<>> => ShowsNames
    BY DEF WifiRoundShown, ShowsNames
  <2>1. tester # "none" /\ main = "listen"
    BY DEF RoundInv, ReadInOrder, Launched
  <2>2. lists
    BY <2>1 DEF RoundInv, ListsReady
  <2>3. ASSUME tester \in {"shown", "exit"}, wifi_pipe = <<>> PROVE ShowsNames
    <3>1. Read = sent + 1
      BY <2>3 DEF Read, Sending, Types, WifiTypes
    <3> QED
      BY <3>1 DEF RoundInv, ReadInOrder
  <2> QED
    BY <2>2, <2>3
<1> QED
  BY <1>1, <1>2, <1>3, PTL DEF Spec
=============================================================================
