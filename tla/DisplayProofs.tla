---------------------------- MODULE DisplayProofs ----------------------------
(***************************************************************************)
(* The display goes dark only when idle, comes back to the map and loses    *)
(* stale text, for every page interval, timeout and duration of an          *)
(* iteration.                                                               *)
(***************************************************************************)
EXTENDS Display, TLAPS

P == PageInterval
L == LoopTime

Between == {"mqtt", "radio", "display", "weblogin"}   \* no update has read the clock
InUpdate == {"test", "off", "draw"}
Lit == display_active /\ connected

Numbers ==
  /\ activityAge \in Nat /\ switchAge \in Nat /\ readAge \in 0..L /\ idle \in Nat
  /\ mapAge \in Nat /\ staleAge \in Nat
  /\ display_timeout \in Timeouts
  /\ rotation_idx \in 0..13
  /\ phase \in Between \cup InUpdate
  /\ phase # "mqtt" => connected

(* Only a press after the update has read the clock makes it find an        *)
(* activity newer than the clock.                                           *)
Activity ==
  /\ idle = activityAge
  /\ phase = "test" /\ ~raced => activityAge >= readAge
  /\ phase = "off" /\ ~raced => idle >= display_timeout

(* Nothing on a page is older than the page, and an update that keeps a     *)
(* page finds it younger than the interval.                                 *)
Stale ==
  /\ staleAge <= P + 2 * L
  /\ staleAge <= switchAge \/ switchAge >= P + L
  /\ Lit /\ phase \in Between => staleAge <= readAge \/ switchAge < P + readAge
  /\ Lit /\ phase \in InUpdate => staleAge <= P + L + readAge

Mapped == current_page = WORLDMAP
Jumped == current_page # WORLDMAP /\ current_page # PageAt(rotation_idx)
Turned == current_page # WORLDMAP /\ current_page = PageAt(rotation_idx)

(* The map is at most one page away from a page of the rotation, two from   *)
(* the page a packet jumped to.                                             *)
Away ==
  /\ mapAge <= 2 * P + 3 * L
  /\ Jumped => mapAge <= switchAge \/ switchAge >= P + L
  /\ Turned => mapAge <= P + L + switchAge \/ switchAge >= P + L
  /\ Lit /\ Mapped /\ phase \in Between => mapAge <= readAge
  /\ Lit /\ Mapped /\ phase \in InUpdate => mapAge <= L + readAge
  /\ Lit /\ ~Mapped /\ phase \in Between => mapAge <= readAge \/ switchAge < P + readAge
  /\ Lit /\ Jumped /\ phase \in InUpdate => mapAge <= P + L + readAge
  /\ Lit /\ Turned /\ phase \in InUpdate => mapAge <= 2 * P + 2 * L + readAge

DisplayInv == Numbers /\ Activity /\ Stale /\ Away

-----------------------------------------------------------------------------
\* Every other page of the rotation is the map.
LEMMA Rotation ==
  ASSUME NEW i \in 0..13
  PROVE  /\ RotationLen = 14
         /\ PageAt(i) = WORLDMAP <=> i \in {0, 2, 4, 6, 8, 10, 12}
  BY DEF RotationLen, PageAt, page_rotation, WORLDMAP, STATION, STATUS, SATELLITE, LASTPKT,
         INFO, REMOTE0, REMOTE1

\* Next after any other page comes the map.
LEMMA Turning ==
  ASSUME NEW i \in 0..13
  PROVE  /\ Advance(i) \in 0..13
         /\ PageAt(i) # WORLDMAP => PageAt(Advance(i)) = WORLDMAP
<1> DEFINE steps == {k \in 1..14 : ~Empty(PageAt((i + k) % 14))}
           least == CHOOSE k \in steps : \A j \in steps : k <= j
<1>1. \A j \in 0..13 : PageAt(j) = WORLDMAP => ~Empty(PageAt(j))
  BY DEF Empty, WORLDMAP, REMOTE0, REMOTE1
<1>2. (i + 1) % 14 \in 0..13 /\ (i + 2) % 14 \in 0..13
  OBVIOUS
<1>3. IF i \in {1, 3, 5, 7, 9, 11, 13} THEN (i + 1) % 14 \in {0, 2, 4, 6, 8, 10, 12}
      ELSE (i + 2) % 14 \in {0, 2, 4, 6, 8, 10, 12}
  OBVIOUS
<1>4. IF i \in {1, 3, 5, 7, 9, 11, 13} THEN 1 \in steps ELSE 2 \in steps
  BY <1>1, <1>2, <1>3, Rotation
<1>5. \E k \in steps : \A j \in steps : k <= j
  <2>1. CASE 1 \in steps
    BY <2>1
  <2>2. CASE 1 \notin steps
    BY <2>2, <1>4
  <2> QED
    BY <2>1, <2>2
<1>6. least \in steps /\ \A j \in steps : least <= j
  BY <1>5, Zenon
<1> HIDE DEF least
<1>7. i \in {1, 3, 5, 7, 9, 11, 13} => least = 1
  BY <1>4, <1>6
<1>8. Advance(i) = (i + least) % 14
  BY Rotation DEF Advance, least
<1> QED
  BY <1>2, <1>3, <1>6, <1>7, <1>8, Rotation

LEMMA InvStep == ASSUME DisplayInv, [Next]_vars PROVE DisplayInv'
<1> USE DisplayAssumption DEF DisplayInv, Numbers, Activity, Stale, Away, Between, InUpdate, Lit, Mapped, Jumped, Turned, P, L, vars, pages, power, look, server
<1>1. CASE ConsoleLogin
  BY <1>1 DEF ConsoleLogin
<1>2. CASE button_pressed
  <2>1. raced' \/ phase \notin {"test", "off"}
    BY <1>2, Zenon DEF button_pressed
  <2>2. /\ activityAge' = 0 /\ idle' = 0 /\ switchAge' = 0 /\ mapAge' = 0 /\ staleAge' = 0
        /\ rotation_idx' \in {0, rotation_idx}
        /\ UNCHANGED <<display_timeout, connected, phase, readAge>>
    BY <1>2 DEF button_pressed
  <2> QED
    BY <2>1, <2>2
<1>3. CASE Connect
  BY <1>3 DEF Connect, SetConnected
<1>4. CASE Disconnect
  BY <1>4 DEF Disconnect, SetConnected
<1>5. CASE \E f \in {0, 1}, texts \in SUBSET Texts : SetRemoteFrame(f, texts)
  BY <1>5 DEF SetRemoteFrame
<1>6. CASE CheckRadio
  BY <1>6 DEF CheckRadio
<1>7. CASE Packet
  BY <1>7 DEF Packet, PacketRx
<1>8. CASE UpdateReads
  BY <1>8 DEF UpdateReads
<1>9. CASE UpdateTests
  BY <1>9 DEF UpdateTests, Reaches
<1>10. CASE UpdateDarkens
  BY <1>10 DEF UpdateDarkens
<1>11. CASE UpdateDraws
  <2>1. /\ phase = "draw" /\ phase' = "weblogin"
        /\ mapAge' \in {0, mapAge} /\ staleAge' \in {0, staleAge}
        /\ UNCHANGED <<display_timeout, display_active, idle, connected, readAge>>
    BY <1>11 DEF UpdateDraws
  <2>2. CASE display_active /\ Reaches(switchAge, PageInterval) /\ SwitchPage
    <3>1. /\ staleAge' = 0 /\ switchAge' = readAge /\ activityAge' = activityAge
          /\ mapAge' = IF current_page' # WORLDMAP THEN mapAge ELSE 0
          /\ current_page' = PageAt(rotation_idx') /\ rotation_idx' = Advance(rotation_idx)
      BY <1>11, <2>2 DEF UpdateDraws, SwitchPage
    <3>2. rotation_idx' \in 0..13 /\ (Turned => current_page' = WORLDMAP)
      BY <3>1, Turning
    <3> QED
      BY <2>1, <2>2, <3>1, <3>2
  <2>3. CASE display_active /\ ~Reaches(switchAge, PageInterval) /\ KeepPage
    <3>1. /\ UNCHANGED <<rotation_idx, current_page, switchAge, activityAge>>
          /\ mapAge' = IF current_page # WORLDMAP THEN mapAge ELSE 0
      BY <1>11, <2>3 DEF UpdateDraws, KeepPage
    <3>2. switchAge >= readAge /\ switchAge - readAge < P
      BY <2>3 DEF Reaches
    <3> QED
      BY <2>1, <2>3, <3>1, <3>2
  <2>4. CASE ~display_active /\ UNCHANGED <<pages, activityAge, panel>>
    BY <2>1, <2>4
  <2> QED
    BY <1>11, <2>2, <2>3, <2>4 DEF UpdateDraws
<1>12. CASE PopWeblogin
  BY <1>12 DEF PopWeblogin
<1>13. CASE Tick
  BY <1>13 DEF Tick, Saturated, OldestActivity
<1>14. CASE Quieten
  BY <1>14 DEF Quieten
<1>15. CASE UNCHANGED vars
  BY <1>15
<1> QED
  BY <1>1, <1>2, <1>3, <1>4, <1>5, <1>6, <1>7, <1>8, <1>9, <1>10, <1>11, <1>12, <1>13, <1>14, <1>15 DEF Next, MainLoop, Update, Environment


(* The ages of activity, page, map and stale text keep their relations in   *)
(* every run of the display (tinygs_display_update and what interrupts it).  *)
THEOREM DisplayInvariant == Spec => []DisplayInv
<1>1. ASSUME Init PROVE DisplayInv
  <2>1. Numbers /\ Activity
    BY <1>1, DisplayAssumption DEF Init, Numbers, Activity, Between, L
  <2>2. Stale /\ Away
    BY <1>1, DisplayAssumption DEF Init, Stale, Away, Lit, Mapped, Between, InUpdate, P, L
  <2> QED
    BY <2>1, <2>2 DEF DisplayInv
<1> QED
  BY <1>1, InvStep, PTL DEF Spec

(* Whatever the page interval, a lit, connected display that nobody presses *)
(* shows the map again after at most one page of a packet and one page of   *)
(* the rotation.                                                            *)
THEOREM MapComesBack == Spec => []MapReturns
<1>1. DisplayInv => MapReturns
  BY DEF DisplayInv, Away, MapReturns, P, L
<1> QED
  BY <1>1, DisplayInvariant, PTL

(* Text of a replaced frame or of another page is gone after one page.      *)
THEOREM StaleTextGoes == Spec => []StaleTextLeaves
<1>1. DisplayInv => StaleTextLeaves
  BY DEF DisplayInv, Stale, StaleTextLeaves, P, L
<1> QED
  BY <1>1, DisplayInvariant, PTL

(* No interrupt between the steps of an update darkens a display in use,    *)
(* but for the press that comes after the update has read the clock.        *)
THEOREM OnlyIdleGoesDark == Spec => DarkOnlyWhenIdle
<1>1. ASSUME DisplayInv, Next, display_active, ~display_active'
      PROVE  idle >= display_timeout \/ raced
  <2>1. UpdateDarkens
    <3>1. ASSUME button_pressed \/ Packet PROVE display_active'
      BY <1>1, <3>1, Zenon DEF button_pressed, Packet, PacketRx
    <3> QED
      BY <1>1, <3>1 DEF Next, MainLoop, Update, Environment, power, Connect, Disconnect,
           SetConnected, ConsoleLogin, SetRemoteFrame, CheckRadio, UpdateReads, UpdateTests,
           UpdateDraws, PopWeblogin, Tick, Quieten
  <2> QED
    BY <1>1, <2>1 DEF DisplayInv, Activity, UpdateDarkens
<1>2. ASSUME DisplayInv, [Next]_vars
      PROVE  [display_active /\ ~display_active' => idle >= display_timeout \/ raced]_vars
  BY <1>1, <1>2
<1> QED
  BY <1>2, DisplayInvariant, PTL DEF Spec, DarkOnlyWhenIdle
=============================================================================
