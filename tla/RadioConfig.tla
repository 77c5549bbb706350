---------------------------- MODULE RadioConfig ----------------------------
(***************************************************************************)
(* The radio and its record tinygs_radio: the server's commands retune      *)
(* chip and record in many small steps on the main thread, while the DIO1   *)
(* interrupt raises lora_packet_received, the web server copies the record  *)
(* under tinygs_radio_mutex, and the satellite moves                        *)
(* (src/main.cpp: mqtt_evt_handler, doppler_update, init_radio,             *)
(* apply_saved_modem_conf, lora_check_rx; src/web/web_ui.cpp: wm_handler).  *)
(*                                                                          *)
(* A "plan" is one payload of begine or batch_conf; a field of the record   *)
(* holds the plan it was taken from.                                        *)
(***************************************************************************)
EXTENDS Integers

CONSTANTS
  Plans,        \* the payloads the server may send
  None,         \* no plan: the compiled-in defaults (LoRa)
  FskPlans,     \* mode is not LoRa
  TlePlans,     \* carries a "tle": Doppler correction is wanted
  TlxPlans,     \* carries a "tlx": orbit for the map only
  BigPlans,     \* longer than modem_conf (512 bytes), shorter than the payload buffer
  BrokenPlans,  \* not JSON
  Sky, Tol,     \* Doppler shift seen from the station: -Sky..Sky; the hysteresis
  MaxCommands, MaxBoots   \* bounds of a run

ASSUME RadioAssumption ==
  /\ None \notin Plans
  /\ FskPlans \subseteq Plans /\ BigPlans \subseteq Plans /\ BrokenPlans \subseteq Plans
  /\ TlePlans \subseteq Plans \ BrokenPlans /\ TlxPlans \subseteq Plans \ (TlePlans \cup BrokenPlans)
  /\ Sky \in Nat /\ Tol \in Nat /\ MaxCommands \in Nat /\ MaxBoots \in Nat

Modes == {"LoRa", "FSK"}
Mode(p) == IF p \in FskPlans THEN "FSK" ELSE "LoRa"
Usable == Plans \ (BigPlans \cup BrokenPlans)     \* what beginp may persist

VARIABLES
  chip,      \* the SX1262: packet type, plan of its frequency, shift in its frequency
  rx,        \* it is receiving
  attached,  \* the packet action is attached to DIO1
  irq,       \* DIO1 is high: RX_DONE is not cleared yet
  packet,    \* the chip's buffer: "none", "new", or "old" (from before a reconfiguration)
  flag,      \* lora_packet_received
  radio,     \* tinygs_radio: frequency, satellite, modem_mode, filter, orbit, doppler, freq_doppler
  conf,      \* tinygs_radio.modem_conf
  nvsConf,   \* "tgs/modem"
  pc, plan,  \* where main is, and the plan of its command
  mutex,     \* tinygs_radio_mutex: "free", "main" or "web"
  snap,      \* the web server's copy: the burst each half was taken from
  burst,     \* ghost: parity of the begine bursts applied to the first and second half
  dropped,   \* ghost: a later command retuned without the shift, or was a begine
             \*   whose payload is not JSON
  deaf,      \* ghost: begin() failed or took the action off DIO1 in the boot, or
             \*   a legacy begin was refused
  slipped,   \* ghost: a packet raised the flag while the radio was being
             \*   reconfigured, and has not been read yet
  sky,       \* the true Doppler shift
  commands, boots

chipVars == <<chip, rx, attached, irq, packet>>
mainVars == <<flag, radio, conf, pc, plan>>
ghosts == <<burst, dropped, deaf, slipped>>
bounds == <<commands, boots>>
vars == <<chipVars, mainVars, nvsConf, mutex, snap, ghosts, sky, bounds>>

NoOrbit == "none"
Orbit(p) == IF p \in TlePlans THEN "tle" ELSE IF p \in TlxPlans THEN "tlx" ELSE NoOrbit
Distance(a, b) == IF a > b THEN a - b ELSE b - a

-----------------------------------------------------------------------------
(* Boot: settings, init_radio, apply_saved_modem_conf.  begin() may fail     *)
(* (ok), and so may the saved configuration (taken).  That one calls begin() *)
(* or beginFSK() after init_radio has attached the action, and nothing       *)
(* attaches it again: the library may have reset it by then (reset).         *)
BootedWith(saved, ok, taken, reset) ==
  /\ chip' = [mode |-> IF taken THEN Mode(saved) ELSE "LoRa",
              tune |-> IF taken THEN saved ELSE None, shift |-> 0]
  /\ rx' = (ok \/ saved # None)
  /\ attached' = (ok /\ ~reset)
  /\ radio' = [freq |-> IF taken THEN saved ELSE None, sat |-> saved,
               mode |-> IF taken THEN Mode(saved) ELSE "LoRa",
               filter |-> None, orbit |-> NoOrbit, doppler |-> FALSE, shift |-> 0]
  /\ conf' = saved
  /\ deaf' = (~ok \/ reset)

Init ==
  /\ chip = [mode |-> "LoRa", tune |-> None, shift |-> 0]
  /\ rx = TRUE /\ attached = TRUE /\ irq = FALSE /\ packet = "none" /\ flag = FALSE
  /\ radio = [freq |-> None, sat |-> None, mode |-> "LoRa", filter |-> None,
              orbit |-> NoOrbit, doppler |-> FALSE, shift |-> 0]
  /\ conf = None /\ nvsConf = None
  /\ pc = "idle" /\ plan = None /\ mutex = "free"
  /\ snap = [stage |-> "out", first |-> 0, second |-> 0]
  /\ burst = [first |-> 0, second |-> 0] /\ dropped = FALSE /\ deaf = FALSE
  /\ slipped = FALSE
  /\ sky \in -Sky..Sky
  /\ commands = 0 /\ boots = 0

Reboot ==
  /\ boots < MaxBoots /\ boots' = boots + 1
  /\ \E ok, taken, reset \in BOOLEAN :
       /\ taken \/ reset => nvsConf # None
       /\ BootedWith(nvsConf, ok, taken, reset)
  /\ irq' = FALSE /\ packet' = "none" /\ flag' = FALSE
  /\ pc' = "idle" /\ plan' = None /\ mutex' = "free"
  /\ snap' = [stage |-> "out", first |-> 0, second |-> 0]
  /\ burst' = [first |-> 0, second |-> 0] /\ dropped' = FALSE /\ slipped' = FALSE
  /\ UNCHANGED <<nvsConf, sky, commands>>

-----------------------------------------------------------------------------
(* The plan is on its way into the chip, which has not been restarted yet.   *)
Reconfiguring == pc \in {"chip", "orbit", "armed", "tuned", "rearmed"}

(* The chip: a packet fills the buffer; DIO1 rises only if it was low, and   *)
(* the interrupt is taken only while the action is attached.                 *)
Receive ==
  /\ rx
  /\ packet' = "new" /\ irq' = TRUE
  /\ flag' = (flag \/ (attached /\ ~irq))
  /\ slipped' = (slipped \/ (attached /\ ~irq /\ Reconfiguring))
  /\ UNCHANGED <<chip, rx, attached, radio, conf, pc, plan, nvsConf, mutex, snap, burst, dropped, deaf,
                 sky, bounds>>

(* startReceive clears the chip's interrupt status.                          *)
StartReceive == rx' = TRUE /\ irq' = FALSE

SkyMoves ==
  /\ sky' \in {sky - 1, sky + 1} \cap (-Sky..Sky)
  /\ UNCHANGED <<chipVars, mainVars, nvsConf, mutex, snap, ghosts, bounds>>

-----------------------------------------------------------------------------
(* A command of the server, from the top of the main loop.                   *)
Command == pc = "idle" /\ commands < MaxCommands /\ commands' = commands + 1

(* beginp: only NVS, and only what the next boot can load.                   *)
Beginp ==
  /\ Command
  /\ \E p \in Plans : nvsConf' = IF p \in Usable THEN p ELSE nvsConf
  /\ UNCHANGED <<chipVars, mainVars, mutex, snap, ghosts, sky, boots>>

(* begine, batch_conf.  The interrupt is detached before the flag is         *)
(* drained.                                                                  *)
BeginDetach_Attached ==
  /\ Command
  /\ plan' \in Plans
  /\ pc' = "detached"
  /\ UNCHANGED <<chipVars, flag, radio, conf, nvsConf, mutex, snap, ghosts, sky, boots>>

BeginDetach ==
  /\ Command
  /\ plan' \in Plans
  /\ attached' = FALSE
  /\ pc' = "detached"
  /\ UNCHANGED <<chip, rx, irq, packet, flag, radio, conf, nvsConf, mutex, snap, ghosts, sky, boots>>

BeginDrain ==
  /\ pc = "detached"
  /\ flag' = FALSE /\ slipped' = FALSE
  /\ pc' = "drained"
  /\ UNCHANGED <<chipVars, radio, conf, plan, nvsConf, mutex, snap, burst, dropped, deaf, sky, bounds>>

(* The mutex, then the raw payload into modem_conf if it fits.               *)
BeginLock_NoMutex ==
  /\ pc = "drained"
  /\ conf' = IF plan \in BigPlans THEN conf ELSE plan
  /\ pc' = "locked"
  /\ UNCHANGED <<chipVars, flag, radio, plan, nvsConf, mutex, snap, ghosts, sky, bounds>>

BeginLock ==
  /\ pc = "drained" /\ mutex = "free"
  /\ mutex' = "main"
  /\ conf' = IF plan \in BigPlans THEN conf ELSE plan
  /\ pc' = "locked"
  /\ UNCHANGED <<chipVars, flag, radio, plan, nvsConf, snap, ghosts, sky, bounds>>

(* First half: frequency, satellite, mode - unless the payload is rejected.  *)
BeginFields ==
  /\ pc = "locked"
  /\ IF plan \in BrokenPlans
     THEN UNCHANGED <<radio, burst>>
     ELSE /\ radio' = [radio EXCEPT !.freq = plan, !.sat = plan, !.mode = Mode(plan)]
          /\ burst' = [burst EXCEPT !.first = 1 - @]
  /\ pc' = "fields"
  /\ UNCHANGED <<chipVars, flag, conf, plan, nvsConf, mutex, snap, dropped, deaf, slipped, sky, bounds>>

(* setFrequency and the setters.  A chip in FSK mode refuses the LoRa        *)
(* setters (WRONG_MODEM, unchecked) but not the frequency, which a server's  *)
(* plan has within the chip's range; the chip may or may not go on receiving. *)
TuneLoRa(p) ==
  /\ chip' = [chip EXCEPT !.tune = p, !.shift = 0]
  /\ rx' \in {rx, FALSE}

(* beginFSK restarts the chip in standby; or it fails on the way, and whether *)
(* the chip still receives is left open.                                      *)
BegunFSK(p) ==
  /\ chip' = [mode |-> "FSK", tune |-> p, shift |-> 0]
  /\ rx' = FALSE
FailedFSK ==
  /\ chip' = [chip EXCEPT !.mode = "FSK", !.shift = 0]
  /\ rx' \in {rx, FALSE}

(* The chip.  After beginFSK, failed or not, the action is attached again.   *)
BeginChip ==
  /\ pc = "fields"
  /\ IF plan \in BrokenPlans
     THEN UNCHANGED <<chip, rx, attached, burst>>
     ELSE /\ burst' = [burst EXCEPT !.second = 1 - @]
          /\ \/ Mode(plan) = "LoRa" /\ TuneLoRa(plan) /\ UNCHANGED attached
             \/ Mode(plan) = "FSK" /\ (BegunFSK(plan) \/ FailedFSK) /\ attached' = TRUE
  /\ pc' = "chip"
  /\ UNCHANGED <<irq, packet, flag, radio, conf, plan, nvsConf, mutex, snap, dropped, deaf, slipped, sky,
                 bounds>>

(* Filter and orbit, both re-read from modem_conf, whichever plan it holds;  *)
(* an orbit may fail to decode.                                              *)
BeginOrbitWith(shiftReset) ==
  /\ pc = "chip"
  /\ \E decodes \in BOOLEAN :
       radio' = [radio EXCEPT
         !.filter = conf,
         !.orbit = IF decodes THEN Orbit(conf) ELSE NoOrbit,
         !.doppler = IF decodes \/ Orbit(conf) = NoOrbit THEN Orbit(conf) = "tle" ELSE @,
         !.shift = IF shiftReset /\ decodes /\ Orbit(conf) # NoOrbit THEN 0 ELSE @]
  /\ dropped' = (plan \in BrokenPlans)
  /\ pc' = "orbit"
  /\ UNCHANGED <<chipVars, flag, conf, plan, nvsConf, mutex, snap, burst, deaf, slipped, sky, bounds>>

BeginOrbit_KeepsShift == BeginOrbitWith(FALSE)

BeginOrbit == BeginOrbitWith(TRUE)

(* setPacketReceivedAction.  A chip that is still receiving may finish a     *)
(* packet between this and the startReceive that follows.                    *)
BeginAttach ==
  /\ pc = "orbit"
  /\ attached' = TRUE
  /\ pc' = "armed"
  /\ UNCHANGED <<chip, rx, irq, packet, flag, radio, conf, plan, nvsConf, mutex, snap, ghosts, sky, bounds>>

(* startReceive: whatever is in the buffer now is of the past.               *)
Restarted ==
  /\ StartReceive
  /\ packet' = IF packet = "none" THEN "none" ELSE "old"
  /\ deaf' = FALSE
  /\ pc' = "idle" /\ plan' = None

(* startReceive, unlock.                                                     *)
BeginReceive ==
  /\ pc = "armed"
  /\ Restarted
  /\ mutex' = "free"
  /\ UNCHANGED <<chip, attached, flag, radio, conf, nvsConf, snap, burst, dropped, slipped, sky, bounds>>

Begin ==
  BeginDetach \/ BeginDrain \/ BeginLock \/ BeginFields \/ BeginChip \/ BeginOrbit \/ BeginAttach
    \/ BeginReceive

(* begin_lora, begin_fsk: arrays of numbers, without the mutex.  Detach and  *)
(* drain come first.                                                         *)
LegacyDetach ==
  /\ Command
  /\ plan' \in Usable
  /\ attached' = FALSE
  /\ pc' = "undone"
  /\ UNCHANGED <<chip, rx, irq, packet, flag, radio, conf, nvsConf, mutex, snap, ghosts, sky, boots>>

LegacyDrain ==
  /\ pc = "undone"
  /\ flag' = FALSE /\ slipped' = FALSE
  /\ pc' = "legacy"
  /\ UNCHANGED <<chipVars, radio, conf, plan, nvsConf, mutex, snap, burst, dropped, deaf, sky, bounds>>

(* No bracket, or the frequency out of range: the action stays detached.     *)
LegacyRefused ==
  /\ pc = "legacy"
  /\ deaf' = TRUE
  /\ pc' = "idle" /\ plan' = None
  /\ UNCHANGED <<chipVars, flag, radio, conf, nvsConf, mutex, snap, burst, dropped, slipped, sky, bounds>>

(* Record and chip; a beginFSK that fails ends the command, with the record  *)
(* changed and the action detached.                                          *)
LegacyTune ==
  /\ pc = "legacy"
  /\ radio' = [radio EXCEPT !.freq = plan, !.mode = Mode(plan)]
  /\ dropped' = TRUE
  /\ \/ /\ \/ Mode(plan) = "LoRa" /\ TuneLoRa(plan)
           \/ Mode(plan) = "FSK" /\ BegunFSK(plan)
        /\ pc' = "tuned" /\ UNCHANGED <<plan, deaf>>
     \/ /\ Mode(plan) = "FSK" /\ FailedFSK
        /\ deaf' = TRUE
        /\ pc' = "idle" /\ plan' = None
  /\ UNCHANGED <<attached, irq, packet, flag, conf, nvsConf, mutex, snap, burst, slipped, sky, bounds>>

LegacyAttach ==
  /\ pc = "tuned"
  /\ attached' = TRUE
  /\ pc' = "rearmed"
  /\ UNCHANGED <<chip, rx, irq, packet, flag, radio, conf, plan, nvsConf, mutex, snap, ghosts, sky, bounds>>

LegacyReceive ==
  /\ pc = "rearmed"
  /\ Restarted
  /\ UNCHANGED <<chip, attached, flag, radio, conf, nvsConf, mutex, snap, burst, dropped, slipped, sky,
                 bounds>>

LegacyBegin ==
  LegacyDetach \/ LegacyDrain \/ LegacyRefused \/ LegacyTune \/ LegacyAttach \/ LegacyReceive

(* freq, foff, remoteTune: a new frequency without the Doppler shift.        *)
Retune ==
  /\ Command
  /\ \E p \in Usable \cup {radio.freq} :
       radio' = [radio EXCEPT !.freq = p] /\ chip' = [chip EXCEPT !.tune = p, !.shift = 0]
  /\ StartReceive
  /\ dropped' = TRUE
  /\ UNCHANGED <<attached, packet, flag, conf, pc, plan, nvsConf, mutex, snap, burst, deaf, slipped, sky, boots>>

(* sat, filter: the record only, without the mutex.                          *)
Relabel ==
  /\ Command
  /\ \E p \in Usable : radio' \in {[radio EXCEPT !.sat = p], [radio EXCEPT !.filter = p]}
  /\ UNCHANGED <<chipVars, flag, conf, pc, plan, nvsConf, mutex, snap, ghosts, sky, boots>>

ServerCommand == Beginp \/ Begin \/ LegacyBegin \/ Retune \/ Relabel

-----------------------------------------------------------------------------
(* lora_check_rx: lower the flag; read; restart reception on every path.     *)
TakeFlag ==
  /\ pc = "idle" /\ flag
  /\ flag' = FALSE
  /\ pc' = "packet"
  /\ UNCHANGED <<chipVars, radio, conf, plan, nvsConf, mutex, snap, ghosts, sky, bounds>>

(* A length of 0 or above 255: restart at once.                              *)
DiscardPacket ==
  /\ pc = "packet"
  /\ StartReceive /\ slipped' = FALSE
  /\ pc' = "idle"
  /\ UNCHANGED <<chip, attached, packet, flag, radio, conf, plan, nvsConf, mutex, snap, burst, dropped, deaf,
                 sky, bounds>>

(* readData leaves the chip in standby and clears its interrupt; the metrics *)
(* are stored under the mutex.                                               *)
ReadPacket ==
  /\ pc = "packet" /\ mutex = "free"
  /\ rx' = FALSE /\ irq' = FALSE
  /\ pc' = "report"
  /\ UNCHANGED <<chip, attached, packet, flag, radio, conf, plan, nvsConf, mutex, snap, ghosts, sky, bounds>>

(* Filtered out, reported, dropped or unreadable: reception restarts.        *)
ReportPacket_FilterForgets ==
  /\ pc = "report"
  /\ radio.filter = None => StartReceive
  /\ radio.filter # None => UNCHANGED <<rx, irq>>
  /\ slipped' = FALSE
  /\ pc' = "idle"
  /\ UNCHANGED <<chip, attached, packet, flag, radio, conf, plan, nvsConf, mutex, snap, burst, dropped, deaf,
                 sky, bounds>>

ReportPacket ==
  /\ pc = "report"
  /\ StartReceive /\ slipped' = FALSE
  /\ pc' = "idle"
  /\ UNCHANGED <<chip, attached, packet, flag, radio, conf, plan, nvsConf, mutex, snap, burst, dropped, deaf,
                 sky, bounds>>

CheckRx == TakeFlag \/ DiscardPacket \/ ReadPacket \/ ReportPacket

(* doppler_update, past the hysteresis.  It does nothing below the horizon   *)
(* and while a packet is arriving: then the action is simply not taken.      *)
DopplerRetune ==
  /\ pc = "idle" /\ mutex = "free"
  /\ radio.orbit # NoOrbit /\ radio.doppler
  /\ Distance(sky, radio.shift) > Tol
  /\ radio' = [radio EXCEPT !.shift = sky]
  /\ chip' = [chip EXCEPT !.tune = radio.freq, !.shift = sky]
  /\ StartReceive
  /\ dropped' = FALSE
  /\ UNCHANGED <<attached, packet, flag, conf, pc, plan, nvsConf, mutex, snap, burst, deaf, slipped, sky, bounds>>

(* wm_handler: lock, copy, unlock.                                           *)
WebLock ==
  /\ snap.stage = "out" /\ mutex = "free"
  /\ mutex' = "web"
  /\ snap' = [snap EXCEPT !.stage = "copying", !.first = burst.first]
  /\ UNCHANGED <<chipVars, mainVars, nvsConf, ghosts, sky, bounds>>

WebCopied ==
  /\ snap.stage = "copying"
  /\ mutex' = "free"
  /\ snap' = [snap EXCEPT !.stage = "out", !.second = burst.second]
  /\ UNCHANGED <<chipVars, mainVars, nvsConf, ghosts, sky, bounds>>

Web == WebLock \/ WebCopied

Next == Receive \/ SkyMoves \/ ServerCommand \/ CheckRx \/ DopplerRetune \/ Web \/ Reboot

Spec == Init /\ [][Next]_vars

-----------------------------------------------------------------------------
(* Types; and beginp never persists what the next boot cannot load           *)
(* (src/main.cpp:1735-1744).                                                 *)
TypeOK ==
  /\ chip \in [mode : Modes, tune : Plans \cup {None}, shift : -Sky..Sky]
  /\ rx \in BOOLEAN /\ attached \in BOOLEAN /\ irq \in BOOLEAN /\ flag \in BOOLEAN
  /\ packet \in {"none", "new", "old"}
  /\ radio \in [freq : Plans \cup {None}, sat : Plans \cup {None}, mode : Modes,
                filter : Plans \cup {None}, orbit : {"tle", "tlx", NoOrbit},
                doppler : BOOLEAN, shift : -Sky..Sky]
  /\ conf \in Plans \cup {None} /\ nvsConf \in Usable \cup {None}
  /\ pc \in {"idle", "detached", "drained", "locked", "fields", "chip", "orbit", "armed",
            "undone", "legacy", "tuned", "rearmed", "packet", "report"}
  /\ mutex \in {"free", "main", "web"} /\ sky \in -Sky..Sky

(* No packet received before a reconfiguration is read after it, where it    *)
(* would be reported under the new satellite (src/main.cpp:1746-1757) - but  *)
(* for one that a chip still receiving finishes between the new plan and the *)
(* startReceive that puts it in force, with the action already attached.     *)
NoStalePacket == pc = "packet" /\ packet = "old" => slipped

(* A copy of the record never holds one half of a begine burst               *)
(* (src/main.cpp:1760-1767): the bursts of its two halves agree.             *)
NoTornCopy == snap.stage = "out" => snap.first = snap.second

(* At the top of the main loop the radio receives and its interrupt is       *)
(* attached, whatever path the last packet or command took - but for a boot  *)
(* whose begin() failed or reset the action, and a refused legacy begin.     *)
Listening == pc = "idle" /\ ~deaf => rx /\ attached

(* The correction the hysteresis compares with is the one in the chip, so    *)
(* the frequency error stays below the tolerance - unless freq, foff,        *)
(* remoteTune or a legacy begin has dropped it since, or the last begine was *)
(* not JSON and left chip and shift as they were.                            *)
ShiftIsApplied ==
  pc = "idle" /\ radio.orbit # NoOrbit /\ radio.doppler /\ ~dropped => chip.shift = radio.shift

(* "The server will send a fresh begine on next connect which will fully     *)
(* reconfigure" the radio (src/main.cpp:3350-3351): when a begine restarts   *)
(* reception, the chip is in the mode the record names.                      *)
ChipFollowsRecord == pc = "armed" /\ plan \notin BrokenPlans => chip.mode = radio.mode
=============================================================================
