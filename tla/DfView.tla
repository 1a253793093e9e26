------------------------------- MODULE DfView -------------------------------
(***************************************************************************)
(* view/df_view.c and view/tp_track.c: the screen of the dragonboard, on   *)
(* which three threads of the core process draw.  The core inserts and     *)
(* updates the items; the event thread follows the finger, updates the     *)
(* touch panel item and redraws the clear button; the wifi thread lists    *)
(* the hot points that wifitester.sh writes to a pipe.  The core and the   *)
(* event thread share the surface of the manual window: the colour and the *)
(* font that one of them sets are those that the other one draws with.     *)
(*                                                                         *)
(* Item i has the id i in the code; 0 stands for BUILDIN_TC_ID_TP.         *)
(***************************************************************************)
EXTENDS Integers, Sequences, SequencesExt, FiniteSetsExt

CONSTANTS
  Boards,      \* displays, test cases and bounds (Board)
  Room,        \* Room[c]: rows of the window of category c
  Extent,      \* the screen is Extent + 1 pixels wide and high
  ClearArea, SwitchArea,  \* the pixels of the two buttons
  Ssids, Hidden,          \* names of hot points; a line that lacks a part
  Can          \* rows of the wifi window: total_point_can_be_display

\* Bounds on what reaches the program.
Load == [updates : Nat,  \* results that the core reads
         touches : Nat,  \* events of the touch panel
         queue : Nat,    \* events, or lines, that wait to be read
         rounds : Nat,   \* scans of wifitester.sh
         found : Nat]    \* hot points of a scan

\* cases: the categories of the test cases, in the order of the table.
Categories == {"auto", "manual"}
Board == [lcd : BOOLEAN, tp_activated : BOOLEAN, cases : Seq(Categories), load : Load]

Pixels == (0 .. Extent) \X (0 .. Extent)
tp == 0
FLAG == "######"   \* the end of a scan

ASSUME DfViewAssumption ==
  /\ Boards \subseteq Board
  /\ Room \in [Categories -> Nat] /\ Room["manual"] > 0
  /\ Extent \in Nat /\ Can \in Nat
  /\ ClearArea \subseteq Pixels /\ SwitchArea \subseteq Pixels
  /\ ClearArea \cap SwitchArea = {}
  /\ Hidden \notin Ssids /\ FLAG \notin Ssids \cup {Hidden}

VARIABLES
  board,
  load,        \* what is left of its load
  main,        \* where the core thread is
  inserted,    \* how many items it has passed to view_insert_item
  status,      \* status[i]: of the items in auto_tc_list and manual_tc_list
  shown,       \* shown[i]: what their rows, and the clear button, look like
  pen,         \* pen[s]: the colour and the font of surface s
  job,         \* job[t]: what thread t is drawing
  disturbed,   \* rows drawn with a pen that another thread has set (history)
  events,      \* the event buffer
  finger,      \* how often the finger went down or up (history)
  evt,         \* where the event thread is
  tp_x, tp_y, flag, press,
  clear_press, switch_press,
  pre_x, pre_y,
  of, pre_of,  \* the touch of the event in hand, of pre_x and pre_y (history)
  joined,      \* a line joins two touches (history)
  edge,        \* an axis event had coordinate 0 (history)
  wifi,        \* where the wifi thread is
  lists,       \* wifi_list is initialised
  wifi_list,   \* the hot points of this round
  screen,      \* the rows of the wifi window
  wifi_pipe,
  tester,      \* where wifitester.sh is
  misses,      \* ifconfig_count
  scan, sent,  \* the lines of this scan, how many are written
  rounds

environment == <<board, load>>
items == <<main, inserted, status>>
drawing == <<shown, pen, job, disturbed>>
position == <<tp_x, tp_y, flag>>
buttons == <<clear_press, switch_press>>
track == <<press, pre_x, pre_y, of, pre_of, joined>>
touch == <<events, finger, evt, position, buttons, track, edge>>
list == <<wifi, wifi_list, screen>>
script == <<tester, misses, scan, sent, rounds>>
scanning == <<list, wifi_pipe, script>>
vars == <<environment, items, drawing, touch, lists, scanning>>

Threads == {"core", "event"}
clear_button == -2
None == -1

-----------------------------------------------------------------------------
(* Drawing: a background, then a text, in separate calls.                  *)

CategoryOf(i) == IF i \in 1 .. Len(board.cases) THEN board.cases[i] ELSE "manual"

\* Colours are named for what they show.
Color(s) == IF s < 0 THEN "init" ELSE IF s = 0 THEN "ok" ELSE "fail"
Look(s) == [back |-> Color(s), font |-> "item", fore |-> Color(s), text |-> Color(s)]
ButtonLook(color) == [back |-> color, font |-> "button", fore |-> "button", text |-> "clear"]
Looks == {Look(s) : s \in -1 .. 1} \cup {ButtonLook(c) : c \in {"plain", "cyan"}}
Blank == [back |-> "none", font |-> "none", fore |-> "none", text |-> "none"]

Idle == [row |-> None, look |-> Blank, step |-> "done"]
Job(i, look) == [row |-> i, look |-> look, step |-> "back"]

Drawing(t) == job[t].step # "done"
Surface(t) == CategoryOf(job[t].row)

\* A variant: the font is the one that the surface has.
NextStepNoFont == [back |-> "fill", fill |-> "fore", font |-> "fore", fore |-> "text", text |-> "done"]

NextStep == [back |-> "fill", fill |-> "font", font |-> "fore", fore |-> "text", text |-> "done"]

Advanced(j) == IF j.step = "text" THEN Idle ELSE [j EXCEPT !.step = NextStep[j.step]]

\* Another thread is between its first SetColor and its DrawString on this surface.
Disturbs(t) ==
  {job[u].row : u \in {v \in Threads \ {t} : /\ Drawing(v) /\ job[v].step # "back"
                                             /\ Surface(v) = Surface(t)}}

SetColor(t, color) ==
  /\ pen' = [pen EXCEPT ![Surface(t)].color = color]
  /\ disturbed' = disturbed \cup Disturbs(t)
  /\ UNCHANGED shown

SetFont(t, font) ==
  /\ pen' = [pen EXCEPT ![Surface(t)].font = font]
  /\ disturbed' = disturbed \cup Disturbs(t)
  /\ UNCHANGED shown

FillRectangle(t) ==
  /\ shown' = [shown EXCEPT ![job[t].row].back = pen[Surface(t)].color]
  /\ UNCHANGED <<pen, disturbed>>

DrawString(t) ==
  /\ shown' = [shown EXCEPT ![job[t].row].text = job[t].look.text,
                            ![job[t].row].fore = pen[Surface(t)].color,
                            ![job[t].row].font = pen[Surface(t)].font]
  /\ UNCHANGED <<pen, disturbed>>

Draw(t) ==
  /\ Drawing(t)
  /\ CASE job[t].step = "back" -> SetColor(t, job[t].look.back)
       [] job[t].step = "fill" -> FillRectangle(t)
       [] job[t].step = "font" -> SetFont(t, job[t].look.font)
       [] job[t].step = "fore" -> SetColor(t, job[t].look.fore)
       [] job[t].step = "text" -> DrawString(t)
  /\ job' = [job EXCEPT ![t] = Advanced(job[t])]
  /\ UNCHANGED <<environment, items, touch, lists, scanning>>

-----------------------------------------------------------------------------
(* The core thread.                                                        *)

Init ==
  /\ board \in Boards /\ load = board.load
  /\ main = "windows" /\ inserted = 0 /\ status = <<>>
  /\ shown = [i \in {clear_button} |-> ButtonLook("plain")]
  /\ pen = [s \in Categories |-> [color |-> "button", font |-> "button"]]
  /\ job = [t \in Threads |-> Idle]
  /\ disturbed = {}
  /\ events = <<>> /\ finger = 0 /\ evt = "none"
  /\ tp_x = None /\ tp_y = None /\ flag = {} /\ press = FALSE
  /\ clear_press = FALSE /\ switch_press = FALSE
  /\ pre_x = None /\ pre_y = None
  /\ of = 0 /\ pre_of = 0 /\ joined = FALSE /\ edge = FALSE
  /\ wifi = "none" /\ lists = FALSE /\ wifi_list = <<>>
  /\ screen = [r \in 1 .. Can |-> Hidden]
  /\ wifi_pipe = <<>>
  /\ tester = "none" /\ misses = 0 /\ scan = <<>> /\ sent = 0 /\ rounds = 0

\* wifi_window_init, the last of the windows, makes the pipe and the wifi thread.
df_windows_init ==
  /\ main = "windows"
  /\ main' = "lists"
  /\ wifi' = "open"
  /\ UNCHANGED <<environment, inserted, status, drawing, touch, lists, wifi_list, screen,
                 wifi_pipe, script>>

InitLists ==
  /\ main = "lists"
  /\ lists' = TRUE
  /\ main' = IF board.lcd THEN "buildin" ELSE "draw"
  /\ UNCHANGED <<environment, inserted, status, drawing, touch, scanning>>

Fits(i) ==
  Cardinality({j \in DOMAIN status : CategoryOf(j) = CategoryOf(i)}) < Room[CategoryOf(i)]

\* f with v for i.
Extended(f, i, v) == [j \in DOMAIN f \cup {i} |-> IF j = i THEN v ELSE f[j]]

df_insert_item(i) ==
  /\ ~Drawing("core")
  /\ IF Fits(i)
       THEN /\ status' = Extended(status, i, -1)
            /\ shown' = Extended(shown, i, Blank)
            /\ job' = [job EXCEPT !["core"] = Job(i, Look(-1))]
       ELSE UNCHANGED <<status, shown, job>>
  /\ UNCHANGED <<environment, pen, disturbed, lists, scanning>>

buildin_tc_init ==
  /\ main = "buildin"
  /\ df_insert_item(tp)
  /\ main' = "events"
  /\ UNCHANGED <<inserted, touch>>

\* The event buffer is there, and the thread that reads it.
StartEvents ==
  /\ main = "events" /\ ~Drawing("core")
  /\ evt' = "wait"
  /\ main' = "draw"
  /\ UNCHANGED <<environment, inserted, status, drawing, events, finger, position, buttons,
                 track, edge, lists, scanning>>

draw_testcases ==
  /\ main = "draw" /\ inserted < Len(board.cases)
  /\ inserted' = inserted + 1
  /\ df_insert_item(inserted + 1)
  /\ UNCHANGED <<main, touch>>

\* The launcher is forked: it starts wifitester.sh.
Launch ==
  /\ main = "draw" /\ inserted = Len(board.cases) /\ ~Drawing("core")
  /\ main' = "listen"
  /\ tester' = "find"
  /\ UNCHANGED <<environment, inserted, status, drawing, touch, lists, list, wifi_pipe,
                 misses, scan, sent, rounds>>

\* An item that found no room is not updated.
df_update_item(t, i, s) ==
  /\ ~Drawing(t)
  /\ IF i \in DOMAIN status
       THEN /\ status' = [status EXCEPT ![i] = s]
            /\ job' = [job EXCEPT ![t] = Job(i, Look(s))]
            /\ disturbed' = disturbed \ {i}
       ELSE UNCHANGED <<status, job, disturbed>>
  /\ UNCHANGED <<shown, pen>>

\* A result comes through the pipe from the launcher.
Listen ==
  /\ main = "listen" /\ load.updates > 0
  /\ \E i \in 1 .. Len(board.cases), s \in -1 .. 1 : df_update_item("core", i, s)
  /\ load' = [load EXCEPT !.updates = @ - 1]
  /\ UNCHANGED <<board, main, inserted, touch, lists, scanning>>

-----------------------------------------------------------------------------
(* The event thread.                                                       *)

\* The finger moves along an axis, or goes down or up; while it is up it may be about to
\* touch.  Without the event buffer nothing is kept.
Touch ==
  /\ load.touches > 0 /\ evt # "none" /\ Len(events) < load.queue
  /\ \E axis \in {"x", "y", "button"}, at \in 0 .. Extent :
       /\ axis = "button" => at = 0
       /\ events' = Append(events, [axis |-> axis, at |-> at,
                                  touch |-> IF finger % 2 = 1 THEN finger ELSE finger + 1])
       /\ finger' = IF axis = "button" THEN finger + 1 ELSE finger
  /\ load' = [load EXCEPT !.touches = @ - 1]
  /\ UNCHANGED <<board, items, drawing, evt, position, buttons, track, edge, lists, scanning>>

Joins(how, touched) == how # 0 /\ pre_x # None /\ pre_of # touched

\* A variant: the last point of a touch stays.
TrackKept(x, y, how, touched) ==
  IF x < 0 \/ y < 0 THEN UNCHANGED <<pre_x, pre_y, pre_of, joined>>
  ELSE /\ joined' = (joined \/ Joins(how, touched))
       /\ pre_x' = x /\ pre_y' = y /\ pre_of' = touched

\* how: 0 the first point of a touch, 1 one in between, -1 the last one.
tp_track_draw(x, y, how, touched) ==
  IF x < 0 \/ y < 0 THEN UNCHANGED <<pre_x, pre_y, pre_of, joined>>
  ELSE /\ joined' = (joined \/ Joins(how, touched))
       /\ pre_x' = IF how = -1 THEN None ELSE x
       /\ pre_y' = IF how = -1 THEN None ELSE y
       /\ pre_of' = touched

NotDrawn == UNCHANGED <<pre_x, pre_y, pre_of, joined>>

Point(flagged) == flagged = {"x", "y"} /\ board.tp_activated
How == IF press THEN 1 ELSE 0

\* show_mouse_event up to the calls: an event without a coordinate is one of the button.
GetEvent ==
  /\ evt = "wait" /\ events # <<>>
  /\ LET e == Head(events)
         x == IF e.axis = "x" THEN e.at ELSE 0
         y == IF e.axis = "y" THEN e.at ELSE 0
         flagged == flag \cup (IF x # 0 THEN {"x"} ELSE {}) \cup (IF y # 0 THEN {"y"} ELSE {})
     IN /\ tp_x' = IF x # 0 THEN x ELSE tp_x
        /\ tp_y' = IF y # 0 THEN y ELSE tp_y
        /\ of' = e.touch
        /\ edge' = (edge \/ (e.axis # "button" /\ e.at = 0))
        /\ \/ /\ x = 0 /\ y = 0
              /\ df_update_item("event", tp, 0)
              /\ evt' = "button"
              /\ flag' = flagged
              /\ NotDrawn
           \/ /\ x # 0 \/ y # 0
              /\ IF Point(flagged) THEN tp_track_draw(tp_x', tp_y', How, e.touch) ELSE NotDrawn
              /\ flag' = IF Point(flagged) THEN {} ELSE flagged
              /\ UNCHANGED <<evt, status, drawing>>
  /\ events' = Tail(events)
  /\ UNCHANGED <<environment, main, inserted, finger, buttons, press, lists, scanning>>

clear_button_redraw(color) ==
  /\ job' = [job EXCEPT !["event"] = Job(clear_button, ButtonLook(color))]
  /\ disturbed' = disturbed \ {clear_button}

\* The switch button is on a surface of its own, which only this thread uses.
button_handle ==
  /\ evt = "button" /\ ~Drawing("event")
  /\ \/ /\ <<tp_x, tp_y>> \in ClearArea
        /\ IF clear_press /\ board.tp_activated
             THEN clear_press' = FALSE /\ clear_button_redraw("plain")
             ELSE clear_press' = TRUE /\ clear_button_redraw("cyan")
        /\ UNCHANGED switch_press
     \/ /\ <<tp_x, tp_y>> \in SwitchArea
        /\ switch_press' = ~switch_press
        /\ UNCHANGED <<clear_press, job, disturbed>>
     \/ /\ <<tp_x, tp_y>> \notin ClearArea \cup SwitchArea
        /\ clear_press' = FALSE /\ switch_press' = FALSE
        /\ UNCHANGED <<job, disturbed>>
  /\ evt' = "track"
  /\ UNCHANGED <<environment, items, shown, pen, events, finger, position, track, edge, lists,
                 scanning>>

\* show_mouse_event after them: the button goes down or up.
Press ==
  /\ evt = "track" /\ ~Drawing("event")
  /\ \/ /\ press /\ board.tp_activated
        /\ tp_track_draw(tp_x, tp_y, -1, of)
        /\ press' = FALSE
     \/ /\ ~(press /\ board.tp_activated)
        /\ press' = TRUE
        /\ IF Point(flag) THEN tp_track_draw(tp_x, tp_y, How, of) ELSE NotDrawn
  /\ flag' = {}
  /\ evt' = "wait"
  /\ UNCHANGED <<environment, items, drawing, events, finger, tp_x, tp_y, of, buttons, edge,
                 lists, scanning>>

\* A variant: the error is not taken back.
CarryKept(eps, size) == IF 2 * eps >= size THEN <<1, eps>> ELSE <<0, eps>>

\* The error adds up until it is worth a step to the side.
Carry(eps, size) == IF 2 * eps >= size THEN <<1, eps - size>> ELSE <<0, eps>>

\* tp_track_draw_line: the pixels from p towards q, which is drawn with the next line.
Pixel(p, q) ==
  LET d == <<q[1] - p[1], q[2] - p[2]>>
      u == [k \in 1 .. 2 |-> IF d[k] > 0 THEN 1 ELSE -1]
      size == [k \in 1 .. 2 |-> IF d[k] < 0 THEN -d[k] ELSE d[k]]
      long == IF size[1] > size[2] THEN 1 ELSE 2
      short == 3 - long
      at[n \in 0 .. size[long]] ==
        IF n = 0 THEN [pixel |-> p, eps |-> 0]
        ELSE LET carry == Carry(at[n - 1].eps + size[short], size[long])
             IN [pixel |-> [at[n - 1].pixel EXCEPT ![long] = @ + u[long],
                                                   ![short] = @ + carry[1] * u[short]],
                 eps |-> carry[2]]
  IN [n \in 0 .. size[long] |-> at[n].pixel]

-----------------------------------------------------------------------------
(* wifitester.sh and the wifi thread.                                      *)

\* wlan0 is there or not yet.
FindWlan0 ==
  /\ tester = "find" /\ rounds < load.rounds
  /\ \/ tester' = "scan" /\ UNCHANGED misses
     \/ misses' = misses + 1 /\ tester' = IF misses' > 3 THEN "exit" ELSE "find"
  /\ UNCHANGED <<environment, items, drawing, touch, lists, list, wifi_pipe, scan, sent, rounds>>

\* ifconfig up and iw scan.  The $? that decides whether ifconfig is tried again is that of
\* the test before it, always 0: with the interface down the scan finds nothing.
ScanWlan0 ==
  /\ tester = "scan"
  /\ \E found \in UNION {[1 .. n -> Ssids \cup {Hidden}] : n \in 0 .. load.found} : scan' = found
  /\ sent' = 0
  /\ tester' = "write"
  /\ UNCHANGED <<environment, items, drawing, touch, lists, list, wifi_pipe, misses, rounds>>

Write(line) ==
  /\ wifi = "read" /\ Len(wifi_pipe) < load.queue
  /\ wifi_pipe' = Append(wifi_pipe, line)
  /\ UNCHANGED <<environment, items, drawing, touch, lists, list, misses, rounds>>

WriteItem ==
  /\ tester = "write" /\ sent < Len(scan)
  /\ Write(scan[sent + 1])
  /\ sent' = sent + 1
  /\ UNCHANGED <<tester, scan>>

WriteFlag ==
  /\ tester = "write" /\ sent = Len(scan)
  /\ Write(FLAG)
  /\ tester' = "shown"
  /\ UNCHANGED <<scan, sent>>

\* ifconfig down works and the test is passed, or not: then the screen is cleared.
DownWlan0 ==
  /\ tester = "shown"
  /\ rounds' = rounds + 1
  /\ tester' \in {"find", "clear"}
  /\ UNCHANGED <<environment, items, drawing, touch, lists, list, wifi_pipe, misses, scan, sent>>

WriteLastFlag ==
  /\ tester = "clear"
  /\ Write(FLAG)
  /\ tester' = "exit"
  /\ scan' = <<>> /\ sent' = 0

\* fopen returns when wifitester.sh opens the other end.
OpenPipe ==
  /\ wifi = "open" /\ tester \in {"write", "clear"}
  /\ wifi' = "read"
  /\ UNCHANGED <<environment, items, drawing, touch, lists, wifi_list, screen, wifi_pipe, script>>

\* A variant: the rows that the last round has left stay.
RoundKept == screen' = screen /\ wifi_list' = <<>>

\* The rows that this round has not used are cleared.
RoundEnds ==
  /\ screen' = [r \in 1 .. Can |-> IF r > Len(wifi_list) THEN Hidden ELSE screen[r]]
  /\ wifi_list' = <<>>

HotPoint(ssid) ==
  /\ wifi_list' = Append(wifi_list, ssid)
  /\ screen' = [screen EXCEPT ![Len(wifi_list) + 1] = ssid]

\* A variant: the rows are not counted.
IgnoredIfKnown(line) == line = Hidden \/ Contains(wifi_list, line)

\* A part is missing, the name is in the list, or there is no row left.
Ignored(line) == line = Hidden \/ Contains(wifi_list, line) \/ Len(wifi_list) >= Can

wifi_hot_point_proccess ==
  /\ wifi = "read" /\ wifi_pipe # <<>>
  /\ LET line == Head(wifi_pipe)
     IN IF line = FLAG THEN RoundEnds
        ELSE IF Ignored(line) THEN UNCHANGED <<wifi_list, screen>> ELSE HotPoint(line)
  /\ wifi_pipe' = Tail(wifi_pipe)
  /\ UNCHANGED <<environment, items, drawing, touch, lists, wifi, script>>

-----------------------------------------------------------------------------
Next ==
  \/ df_windows_init \/ InitLists \/ buildin_tc_init \/ StartEvents \/ draw_testcases
  \/ Launch \/ Listen
  \/ \E t \in Threads : Draw(t)
  \/ Touch \/ GetEvent \/ button_handle \/ Press
  \/ FindWlan0 \/ ScanWlan0 \/ WriteItem \/ WriteFlag \/ DownWlan0 \/ WriteLastFlag
  \/ OpenPipe \/ wifi_hot_point_proccess

Spec == Init /\ [][Next]_vars

-----------------------------------------------------------------------------
(* Properties.                                                             *)

\* Each variable has the values that its declaration says.
TypeOK ==
  /\ board \in Boards /\ load \in Load
  /\ main \in {"windows", "lists", "buildin", "events", "draw", "listen"}
  /\ inserted \in 0 .. Len(board.cases)
  /\ DOMAIN status \subseteq 0 .. Len(board.cases) /\ \A i \in DOMAIN status : status[i] \in -1 .. 1
  /\ DOMAIN shown = DOMAIN status \cup {clear_button}
  /\ \A s \in Categories : pen[s] \in [color : {"init", "ok", "fail", "plain", "cyan", "button"},
                                       font : {"item", "button"}]
  /\ \A t \in Threads : \/ job[t] = Idle
                         \/ /\ job[t].row \in DOMAIN shown /\ job[t].look \in Looks
                            /\ job[t].step \in DOMAIN NextStep
  /\ disturbed \subseteq DOMAIN shown
  /\ evt \in {"none", "wait", "button", "track"}
  /\ tp_x \in {None} \cup 1 .. Extent /\ tp_y \in {None} \cup 1 .. Extent
  /\ flag \subseteq {"x", "y"}
  /\ \A v \in {press, clear_press, switch_press, joined, edge, lists} : v \in BOOLEAN
  /\ <<pre_x, pre_y>> \in {<<None, None>>} \cup Pixels
  /\ finger \in Nat /\ of \in Nat /\ pre_of \in Nat
  /\ wifi \in {"none", "open", "read"}
  /\ \A k \in DOMAIN wifi_list : wifi_list[k] \in Ssids
  /\ Len(wifi_list) <= Can
  /\ screen \in [1 .. Can -> Ssids \cup {Hidden}]
  /\ tester \in {"none", "find", "scan", "write", "shown", "clear", "exit"}
  /\ misses \in 0 .. 4 /\ rounds \in Nat /\ sent \in 0 .. Len(scan)

\* A row that nobody draws shows the state of its item, with the item font, and the clear
\* button is cyan while it waits for its second touch, unless the other thread of the same
\* surface drew between the calls for it (df_update_item and clear_button_redraw take no
\* lock); on the window of the automatic tests that cannot happen.
RowsShowStatus ==
  /\ \A i \in DOMAIN status \ disturbed :
       (\A t \in Threads : job[t].row # i) => shown[i] = Look(status[i])
  /\ clear_press /\ ~Drawing("event") /\ clear_button \notin disturbed
       => shown[clear_button] = ButtonLook("cyan")
  /\ \A i \in disturbed : CategoryOf(i) = "manual"

\* No line of the track joins two touches: whether the button or the coordinates are reported
\* first, the program knows a first point from a last one, as long as no coordinate is 0,
\* which it takes for the button (show_mouse_event).
TouchesApart == ~edge => ~joined

\* The pixels of a line follow one another, from the last point to the new one, and stay on
\* the screen: draw_pixel writes to the buffer unchecked (tp_track_draw_line).
TrackOnScreen ==
  \A q \in Pixels :
    LET pixel == Pixel(<<pre_x, pre_y>>, q)
        last == Cardinality(DOMAIN pixel) - 1
    IN pre_x # None =>
       /\ pixel[last] = q
       /\ \A n \in 0 .. last : pixel[n] \in Pixels
       /\ \A n \in 1 .. last, k \in 1 .. 2 : pixel[n][k] - pixel[n - 1][k] \in -1 .. 1

\* Name s is in row r: it is a name, and r - 1 others are found before it is.
Places(s, r) ==
  \E n \in DOMAIN scan :
    /\ scan[n] = s /\ s # Hidden
    /\ \A k \in 1 .. n - 1 : scan[k] # s
    /\ Cardinality({scan[k] : k \in 1 .. n - 1} \ {Hidden}) = r - 1

\* When the lines of a round have been read, the window shows the names that its scan found,
\* each once, in their order, as far as there are rows, and no name of a round before.  The
\* thread that reads them is started before wifi_list is initialised, and does not use it
\* before: fopen keeps it until wifitester.sh runs (df_windows_init).
WifiRoundShown ==
  /\ wifi = "read" => lists
  /\ tester \in {"shown", "exit"} /\ wifi = "read" /\ wifi_pipe = <<>> =>
       \A r \in 1 .. Can :
         /\ screen[r] = Hidden => \A s \in Ssids : ~Places(s, r)
         /\ screen[r] # Hidden => Places(screen[r], r)
=============================================================================
