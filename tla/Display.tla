------------------------------ MODULE Display ------------------------------
(***************************************************************************)
(* The display of the station (src/tinygs_display.cpp): pages that rotate,  *)
(* text the server pushes, an auto-off timeout, and the button interrupt    *)
(* that comes between any two steps of main (src/main.cpp:4094-4118).       *)
(*                                                                         *)
(* A board with a display is modelled (disp_dev set).  Time stamps are kept *)
(* as ages in ticks, saturated beyond the longest limit they are compared   *)
(* with; an update that reads the clock and subtracts a stamp set after     *)
(* that gets the wrapped difference, as in 32 bits.  Of the drawing, what   *)
(* stays visible on the panel is kept: text is drawn over what is there,    *)
(* the map fills the whole panel, clear_screen erases it.                   *)
(***************************************************************************)
EXTENDS Naturals, Sequences, FiniteSets

CONSTANTS
  PageInterval,   \* PAGE_INTERVAL_MS, in ticks
  Timeouts,       \* what display_timeout_ms may be, in ticks; not UINT32_MAX, which a
                  \*   set-up with 0 seconds makes of it (line 687): a display that
                  \*   is to stay lit never goes dark
  MaxTimeout,     \* the longest of them
  LoopTime,       \* bound: ticks one iteration of a connected main loop takes
  Texts           \* the texts of the server

ASSUME DisplayAssumption ==
  /\ PageInterval \in Nat \ {0} /\ LoopTime \in Nat \ {0}
  /\ MaxTimeout \in Nat /\ Timeouts \subseteq 1..MaxTimeout

VARIABLES
  display_active, rotation_idx, current_page,
  display_timeout,
  activityAge,    \* ticks since last_activity_ms
  switchAge,      \* ticks since last_page_switch_ms
  remote_frames,  \* the texts of each of the two frames
  panel,          \* what can be read on the panel, lit or not
  weblogin_requested,
  connected,      \* app_state is STATE_MQTT_CONNECTED
  phase,          \* what the main loop is doing
  readAge,        \* ticks since update() last read the clock
  idle,           \* history: ticks since the last press or packet
  raced,          \* history: a press came after this update read the clock
  mapAge,         \* history: ticks lit and connected since the map was drawn or a press
  staleAge,       \* history: the same since the panel showed only what is on the page
  quiet           \* history: from now on no press, packet or lost session

pages == <<rotation_idx, current_page, switchAge>>
power == <<display_active, activityAge, idle>>
look == <<mapAge, staleAge>>
server == <<remote_frames, connected, quiet>>
vars == <<display_timeout, pages, power, weblogin_requested, server, panel, phase, readAge,
          raced, look>>

WORLDMAP == 0
STATION == 1
STATUS == 2
SATELLITE == 3
LASTPKT == 4
INFO == 5
REMOTE0 == 6
REMOTE1 == 7

page_rotation ==
  <<WORLDMAP, STATION, WORLDMAP, STATUS, WORLDMAP, SATELLITE, WORLDMAP, LASTPKT,
    WORLDMAP, INFO, WORLDMAP, REMOTE0, WORLDMAP, REMOTE1>>
RotationLen == Len(page_rotation)
PageAt(i) == page_rotation[i + 1]

Saturated(age, limit) == IF age > limit THEN limit ELSE age
OldestActivity == MaxTimeout + 1

(* now - stamp in the update that read `now` readAge ticks ago: a stamp set *)
(* in a later tick gives a difference just below 2^32.                      *)
Reaches(age, limit) == age < readAge \/ age - readAge >= limit

(* What a page draws.                                                      *)
draw_page_remote(f) == {<<REMOTE0 + f, text>> : text \in remote_frames[f]}
draw_page_text(page) == {<<page, "lines">>}
draw_page_worldmap == {<<WORLDMAP, "map">>}
Drawing(page) ==
  CASE page = WORLDMAP -> draw_page_worldmap
    [] page \in {REMOTE0, REMOTE1} -> draw_page_remote(page - REMOTE0)
    [] OTHER -> draw_page_text(page)
DrawnOver(page) == IF page = WORLDMAP THEN Drawing(page) ELSE panel \cup Drawing(page)

-----------------------------------------------------------------------------
(* tinygs_display_init: lit, on the map, nothing drawn yet.  The timeout is *)
(* the default, or longer on a station not commissioned yet.                *)
Init ==
  /\ display_timeout \in Timeouts
  /\ display_active = TRUE /\ activityAge = 0 /\ idle = 0
  /\ rotation_idx = 0 /\ current_page = PageAt(0) /\ switchAge = 0
  /\ remote_frames = [f \in {0, 1} |-> {}]
  /\ panel = {}
  /\ weblogin_requested = FALSE
  /\ connected = FALSE /\ quiet = FALSE
  /\ phase = "mqtt" /\ readAge = 0
  /\ raced = FALSE /\ mapAge = 0 /\ staleAge = 0

(* tinygs_display_request_weblogin: by the button, or by the console from   *)
(* the HTTP thread.                                                         *)
ConsoleLogin ==
  /\ weblogin_requested' = TRUE
  /\ UNCHANGED <<display_timeout, pages, power, server, panel, phase, readAge,
                 raced, look>>

(* The button interrupt: a dark display is lit on the map, a lit one makes  *)
(* the press a request for a login.                                         *)
button_pressed ==
  /\ ~quiet
  /\ \/ /\ ~display_active
        /\ display_active' = TRUE
        /\ rotation_idx' = 0 /\ current_page' = PageAt(0)
        /\ UNCHANGED weblogin_requested
     \/ /\ display_active
        /\ weblogin_requested' = TRUE
        /\ UNCHANGED <<display_active, rotation_idx, current_page>>
  /\ activityAge' = 0 /\ idle' = 0 /\ switchAge' = 0
  /\ mapAge' = 0 /\ staleAge' = 0
  /\ raced' = (raced \/ phase \in {"test", "off"})
  /\ UNCHANGED <<display_timeout, server, panel, phase, readAge>>

-----------------------------------------------------------------------------
(* The main loop.  Only a connected station runs the radio and the display. *)
SetConnected(now) ==
  /\ phase = "mqtt" /\ ~quiet
  /\ connected' = now /\ mapAge' = 0 /\ staleAge' = 0
  /\ UNCHANGED <<display_timeout, pages, power, weblogin_requested, remote_frames,
                 quiet, panel, phase, readAge, raced>>
Connect == ~connected /\ SetConnected(TRUE)
Disconnect == connected /\ SetConnected(FALSE)

(* tinygs_display_set_remote_frame, called for a frame/0 or frame/1 command *)
(* inside mqtt_input: the old elements are dropped, the readable ones of    *)
(* the payload kept, down to none.                                          *)
SetRemoteFrame(f, texts) ==
  /\ phase = "mqtt" /\ connected
  /\ remote_frames' = [remote_frames EXCEPT ![f] = texts]
  /\ UNCHANGED <<display_timeout, pages, power, weblogin_requested, connected,
                 quiet, panel, phase, readAge, raced, look>>

CheckRadio ==
  /\ phase = "mqtt" /\ connected
  /\ phase' = "radio"
  /\ UNCHANGED <<display_timeout, pages, power, weblogin_requested, server, panel,
                 readAge, raced, look>>

(* Mutants: the packet does not count as activity; it restarts the time of *)
(* the page.                                                                *)
PacketRx_Passive ==
  /\ IF display_active THEN UNCHANGED <<display_active, current_page>>
     ELSE display_active' = TRUE /\ current_page' = LASTPKT
  /\ UNCHANGED <<activityAge, switchAge>>
PacketRx_HoldsPage ==
  /\ IF display_active THEN UNCHANGED <<display_active, current_page>>
     ELSE display_active' = TRUE /\ current_page' = LASTPKT
  /\ activityAge' = 0 /\ switchAge' = 0
(* tinygs_display_packet_rx: a dark display jumps to the page of the last   *)
(* packet; neither the place in the rotation nor the page time is touched.  *)
PacketRx ==
  /\ IF display_active THEN UNCHANGED <<display_active, current_page>>
     ELSE display_active' = TRUE /\ current_page' = LASTPKT
  /\ activityAge' = 0 /\ UNCHANGED switchAge

Packet ==
  /\ phase = "radio" /\ ~quiet
  /\ PacketRx
  /\ idle' = 0
  /\ mapAge' = IF display_active THEN mapAge ELSE 0
  /\ staleAge' = IF display_active THEN staleAge ELSE 0
  /\ phase' = "display"
  /\ UNCHANGED <<display_timeout, rotation_idx, weblogin_requested, server, panel,
                 readAge, raced>>

(* tinygs_display_update, cut where the interrupt makes a difference: it    *)
(* reads the clock, ...                                                     *)
UpdateReads ==
  /\ phase \in {"radio", "display"}
  /\ readAge' = 0 /\ raced' = FALSE
  /\ phase' = "test"
  /\ UNCHANGED <<display_timeout, pages, power, weblogin_requested, server, panel,
                 look>>

(* ... compares it with the last activity, ...                             *)
UpdateTests ==
  /\ phase = "test"
  /\ phase' = IF display_active /\ Reaches(activityAge, display_timeout) THEN "off" ELSE "draw"
  /\ UNCHANGED <<display_timeout, pages, power, weblogin_requested, server, panel,
                 readAge, raced, look>>

(* ... turns the display off, or ...                                       *)
UpdateDarkens ==
  /\ phase = "off"
  /\ display_active' = FALSE
  /\ phase' = "weblogin"
  /\ UNCHANGED <<display_timeout, pages, activityAge, idle, weblogin_requested,
                 server, panel, readAge, raced, look>>

Empty(page) == page \in {REMOTE0, REMOTE1} /\ remote_frames[page - REMOTE0] = {}

(* The next place in the rotation whose page has something to show.        *)
Advance(i) ==
  LET steps == {k \in 1..RotationLen : ~Empty(PageAt((i + k) % RotationLen))}
  IN  (i + (CHOOSE k \in steps : \A j \in steps : k <= j)) % RotationLen

(* Mutant: changing the page counts as activity.                           *)
SwitchPage_Active ==
  /\ rotation_idx' = Advance(rotation_idx)
  /\ current_page' = PageAt(rotation_idx')
  /\ switchAge' = readAge /\ activityAge' = readAge
  /\ panel' = Drawing(current_page')
(* Mutant: the panel is not cleared.                                       *)
SwitchPage_NoClear ==
  /\ rotation_idx' = Advance(rotation_idx)
  /\ current_page' = PageAt(rotation_idx')
  /\ switchAge' = readAge
  /\ panel' = DrawnOver(current_page')
  /\ UNCHANGED activityAge
(* The page changes: clear_screen, then the new page is drawn.             *)
SwitchPage ==
  /\ rotation_idx' = Advance(rotation_idx)
  /\ current_page' = PageAt(rotation_idx')
  /\ switchAge' = readAge
  /\ panel' = Drawing(current_page')
  /\ UNCHANGED activityAge

KeepPage ==
  /\ panel' = DrawnOver(current_page)
  /\ UNCHANGED <<pages, activityAge>>

(* ... redraws the page, which it may change first.  A dark display is left *)
(* alone.                                                                   *)
UpdateDraws ==
  /\ phase = "draw"
  /\ \/ display_active /\ Reaches(switchAge, PageInterval) /\ SwitchPage
     \/ display_active /\ ~Reaches(switchAge, PageInterval) /\ KeepPage
     \/ ~display_active /\ UNCHANGED <<pages, activityAge, panel>>
  /\ mapAge' = IF display_active /\ current_page' # WORLDMAP THEN mapAge ELSE 0
  /\ staleAge' = IF display_active /\ ~(panel' \subseteq Drawing(current_page')) THEN staleAge ELSE 0
  /\ phase' = "weblogin"
  /\ UNCHANGED <<display_timeout, display_active, idle, weblogin_requested, server,
                 readAge, raced>>

-----------------------------------------------------------------------------
(* tinygs_display_weblogin_requested: the latch is taken and the request    *)
(* sent (at most every 10 s).  Only a connected main looks at it.           *)
PopWeblogin ==
  /\ phase = "weblogin"
  /\ weblogin_requested' = FALSE
  /\ phase' = "mqtt"
  /\ UNCHANGED <<display_timeout, pages, power, server, panel, readAge, raced, look>>

Update == UpdateReads \/ UpdateTests \/ UpdateDarkens \/ UpdateDraws
MainLoop == CheckRadio \/ Update \/ PopWeblogin

-----------------------------------------------------------------------------
(* Time passes; a connected loop comes round within LoopTime.               *)
Tick ==
  /\ connected => readAge < LoopTime
  /\ activityAge' = Saturated(activityAge + 1, OldestActivity + LoopTime)
  /\ idle' = Saturated(idle + 1, OldestActivity + LoopTime)
  /\ switchAge' = Saturated(switchAge + 1, PageInterval + LoopTime)
  /\ readAge' = Saturated(readAge + 1, LoopTime)
  /\ mapAge' = IF display_active /\ connected THEN mapAge + 1 ELSE mapAge
  /\ staleAge' = IF display_active /\ connected THEN staleAge + 1 ELSE staleAge
  /\ UNCHANGED <<display_timeout, display_active, rotation_idx, current_page,
                 weblogin_requested, server, panel, phase, raced>>

(* Nobody presses and nothing is received any more.                        *)
Quieten ==
  /\ ~quiet /\ connected
  /\ quiet' = TRUE
  /\ UNCHANGED <<display_timeout, pages, power, weblogin_requested, remote_frames,
                 connected, panel, phase, readAge, raced, look>>

Environment ==
  \/ button_pressed \/ ConsoleLogin
  \/ Connect \/ Disconnect
  \/ \E f \in {0, 1}, texts \in SUBSET Texts : SetRemoteFrame(f, texts)
  \/ Packet
  \/ Quieten

Next == MainLoop \/ Environment \/ Tick

(* Main is scheduled and time passes; what the environment does is not fair.*)
Spec == Init /\ [][Next]_vars /\ WF_vars(MainLoop) /\ WF_vars(Tick)

-----------------------------------------------------------------------------
Marks == {<<p, "lines">> : p \in {STATION, STATUS, SATELLITE, LASTPKT, INFO}}
           \cup {<<WORLDMAP, "map">>} \cup ({REMOTE0, REMOTE1} \X Texts)

TypeOK ==
  /\ {display_active, weblogin_requested, connected, raced, quiet} \subseteq BOOLEAN
  /\ rotation_idx \in 0..(RotationLen - 1) /\ current_page \in WORLDMAP..REMOTE1
  /\ display_timeout \in Timeouts
  /\ {activityAge, switchAge, readAge, idle, mapAge, staleAge} \subseteq Nat
  /\ remote_frames \in [{0, 1} -> SUBSET Texts]
  /\ panel \subseteq Marks
  /\ phase \in {"mqtt", "radio", "display", "test", "off", "draw", "weblogin"}

(* The display goes dark only when nobody has pressed and nothing was       *)
(* received for the timeout (tinygs_display.cpp:552-560).  The one exception*)
(* is a press in the very update that takes the time first: the difference  *)
(* wraps, or the decision has been made, and the press is swallowed.        *)
DarkOnlyWhenIdle ==
  [][display_active /\ ~display_active' => idle >= display_timeout \/ raced]_vars

(* Text that is not on the page (a frame the server has replaced, the page a *)
(* packet has cut short) is gone from a lit, connected display within about  *)
(* a page interval, unless somebody presses: the update after the interval   *)
(* turns the page, and clear_screen takes all of it (tinygs_display.cpp:576).*)
StaleTextLeaves == staleAge <= PageInterval + 2 * LoopTime

(* "The user always returns to the worldmap" (tinygs_display.cpp:77-79): a  *)
(* lit, connected display that nobody presses shows the map again within    *)
(* about two page intervals, whatever packets arrive and frames are empty.  *)
(* The comment's "~5s", one interval, is right of the pages that the        *)
(* rotation turns; a packet that wakes the display shows its own page for   *)
(* up to another one, before a page that is not the map may follow.         *)
MapReturns == mapAge <= 2 * PageInterval + 3 * LoopTime

(* A display nobody uses goes dark, although frames keep coming and pages   *)
(* keep turning, as long as the station is connected.                       *)
GoesDark == quiet ~> ~display_active
=============================================================================
