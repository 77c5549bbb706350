----------------------------- MODULE ConfigSync -----------------------------
(***************************************************************************)
(* The station's settings: the copy in RAM, the copy in NVS, and the file   *)
(* config.json on the USB drive, which the host edits while the drive is    *)
(* exported and which the next boot merges back                             *)
(* (src/main.cpp: setup_usb_storage, usb_vbus_work_handler,                 *)
(* usb_detach_config_changed, reset_work_handler; src/tinygs_config.cpp).   *)
(*                                                                          *)
(* The merge compares the file with a snapshot, kept in NVS, of the file    *)
(* the device wrote last: only a field whose text changed is an edit of the *)
(* user; any other difference to NVS is an update the file does not know.   *)
(* Power may fail between any two writes, and the drive may fail to be      *)
(* mounted, opened or read.                                                 *)
(***************************************************************************)
EXTENDS Naturals, Sequences, FiniteSets

CONSTANTS
  StrFields,     \* station, mqtt_user, mqtt_pass
  NumFields,     \* lat, lon, alt, tx_enable, log_level
  FixedFields,   \* display_timeout: in the file, but no setting behind it
  FieldOrder,    \* the order in which the boot merges the fields
  Values,        \* what a field may hold
  Default,       \* the compiled-in value
  Bad,           \* in the file: the key is missing or the number out of range
  NoFile, Empty, \* config.json does not exist; exists with no bytes
  NoSnap,        \* no snapshot in NVS
  MaxEdits, MaxUpdates, MaxCrashes   \* bounds of a run

Fields == StrFields \cup NumFields
Keys == Fields \cup FixedFields

ASSUME ConfigAssumption ==
  /\ StrFields \cap NumFields = {} /\ Fields \cap FixedFields = {}
  /\ Default \in Values /\ Bad \notin Values
  /\ NoSnap \notin [Fields -> Values]
  /\ FieldOrder \in Seq(Fields) /\ \A f \in Fields : \E i \in DOMAIN FieldOrder : FieldOrder[i] = f
  /\ MaxEdits \in Nat /\ MaxUpdates \in Nat /\ MaxCrashes \in Nat

VARIABLES
  file,      \* config.json: NoFile, Empty, or its values and the string keys
             \*   the host spells without a space after the colon
  nvs,       \* the settings in NVS; Default where no record is stored
  nvsSnap,   \* "tgs/snap" in NVS
  mem,       \* the settings in RAM
  memSnap,   \* cfg_last_snapshot
  stage,     \* what main is doing: "load", "merge", "write", "snapshot", "up"
  at,        \* the next field of FieldOrder to merge
  cable,     \* VBUS is present
  exported,  \* usb_is_enabled: the host sees the drive
  failed,    \* ghost: the last use the station made of the drive failed; while
             \*   it boots, config.json could not be read (have_file is false)
  touched,   \* ghost: keys the host has rewritten since a boot last got as far
             \*   as leaving config.json as it wants it
  orphaned,  \* ghost: since then, a boot left a file that is not its snapshot
  edits, updates, crashes            \* counters for the bounds

store == <<file, nvs, nvsSnap>>
ram == <<mem, memSnap>>
usb == <<cable, exported>>
syncBounds == <<edits, updates, crashes>>
syncVars == <<store, ram, stage, at, usb, failed, touched, orphaned, syncBounds>>

Snapshots == {NoSnap} \cup [Fields -> Values]
Texts == [val : [Keys -> Values \cup {Bad}], compact : SUBSET StrFields]

(* snprintf of the file from RAM: every key is followed by a colon and a    *)
(* space, and display_timeout is a literal of the format.                   *)
Rendered(settings) ==
  [val |-> [k \in Keys |-> IF k \in Fields THEN settings[k] ELSE Default], compact |-> {}]

HaveFile == file \notin {NoFile, Empty}

(* have_file: the boot has read some bytes.                                 *)
FileRead == HaveFile /\ ~failed

(***************************************************************************)
(* Reading a field.  The string parser looks for the key, the colon and the *)
(* quote in one piece, so it does not find a key the device wrote itself;   *)
(* the number parsers skip blanks.  Bad stands for "not found" as well as   *)
(* for a number outside the accepted range.                                 *)
(***************************************************************************)
Found(text, f) == IF f \in NumFields \/ f \in text.compact THEN text.val[f] ELSE Bad

SnapValue(f) == Found(Rendered(memSnap), f)

(* Mutant: the file is compared with the settings, not with the snapshot.  *)
Edited_VsSettings(f) == FileRead /\ Found(file, f) # Bad /\ Found(file, f) # mem[f]

(* The field was edited: its text differs from the snapshot's (a coordinate *)
(* by more than 0.0001), or there is no snapshot and the file's value        *)
(* stands for the first-time set-up.                                        *)
Edited(f) ==
  /\ FileRead
  /\ Found(file, f) # Bad
  /\ memSnap # NoSnap => Found(file, f) # SnapValue(f)

-----------------------------------------------------------------------------
SyncInit ==
  /\ file = NoFile /\ nvs = [f \in Fields |-> Default] /\ nvsSnap = NoSnap
  /\ mem = nvs /\ memSnap = NoSnap
  /\ stage = "load" /\ at = 1
  /\ cable \in BOOLEAN /\ exported = FALSE
  /\ failed = FALSE /\ touched = {} /\ orphaned = FALSE
  /\ edits = 0 /\ updates = 0 /\ crashes = 0

(* Every reboot: RAM is rebuilt, the drive is no longer exported.           *)
Restart == stage' = "load" /\ at' = 1 /\ exported' = FALSE

(* settings_load_subtree, then the mount and the read of config.json, which *)
(* may fail: an unread file is treated as none.                             *)
Load ==
  /\ stage = "load"
  /\ mem' = nvs /\ memSnap' = nvsSnap
  /\ stage' = "merge" /\ failed' \in BOOLEAN
  /\ UNCHANGED <<store, at, usb, touched, orphaned, syncBounds>>

(* The boot leaves the drive without having brought config.json up to date. *)
GiveUp ==
  /\ stage' = "up" /\ exported' = cable
  /\ failed' = TRUE
  /\ orphaned' = (orphaned \/ (HaveFile /\ nvsSnap # NoSnap /\ file # Rendered(nvsSnap)))
  /\ UNCHANGED touched

(* The mount fails: the boot goes on without the drive.                     *)
MountFails ==
  /\ stage = "load"
  /\ mem' = nvs /\ memSnap' = nvsSnap
  /\ GiveUp
  /\ UNCHANGED <<store, at, cable, syncBounds>>

(* One DIFF_AND_APPLY: the edit goes to RAM and to NVS; the variant forgets *)
(* to save it.                                                              *)
Merge_RamOnly ==
  /\ stage = "merge" /\ at <= Len(FieldOrder)
  /\ LET f == FieldOrder[at] IN
       IF Edited(f) THEN mem' = [mem EXCEPT ![f] = Found(file, f)] ELSE UNCHANGED mem
  /\ at' = at + 1
  /\ UNCHANGED <<store, memSnap, stage, usb, failed, touched, orphaned, syncBounds>>

Merge ==
  /\ stage = "merge" /\ at <= Len(FieldOrder)
  /\ LET f == FieldOrder[at] IN
       IF Edited(f)
       THEN mem' = [mem EXCEPT ![f] = Found(file, f)] /\ nvs' = [nvs EXCEPT ![f] = Found(file, f)]
       ELSE UNCHANGED <<mem, nvs>>
  /\ at' = at + 1
  /\ UNCHANGED <<file, nvsSnap, memSnap, stage, usb, failed, touched, orphaned, syncBounds>>

(* The boot is over: a drive on a cable is exported.                        *)
GoUp ==
  /\ stage' = "up" /\ exported' = cable
  /\ failed' = FALSE /\ touched' = {} /\ orphaned' = FALSE

(* config.json cannot be opened for writing: what was merged stays in NVS,  *)
(* the file and the snapshot stay as they were.                             *)
OpenFails ==
  /\ stage = "merge" /\ at > Len(FieldOrder)
  /\ GiveUp
  /\ UNCHANGED <<store, ram, at, cable, syncBounds>>

(* A file that exists is left alone when the settings render to the         *)
(* snapshot; otherwise it is truncated first.                               *)
KeepFile ==
  /\ stage = "merge" /\ at > Len(FieldOrder)
  /\ FileRead /\ mem = memSnap
  /\ GoUp
  /\ UNCHANGED <<store, ram, at, cable, syncBounds>>

Truncate ==
  /\ stage = "merge" /\ at > Len(FieldOrder)
  /\ ~(FileRead /\ mem = memSnap)
  /\ file' = Empty
  /\ stage' = "write"
  /\ UNCHANGED <<nvs, nvsSnap, ram, at, usb, failed, touched, orphaned, syncBounds>>

WriteFile ==
  /\ stage = "write"
  /\ file' = Rendered(mem)
  /\ stage' = "snapshot"
  /\ UNCHANGED <<nvs, nvsSnap, ram, at, usb, failed, touched, orphaned, syncBounds>>

SaveSnapshot ==
  /\ stage = "snapshot"
  /\ memSnap' = mem /\ nvsSnap' = mem
  /\ GoUp
  /\ UNCHANGED <<file, nvs, mem, at, cable, syncBounds>>

Boot == Load \/ MountFails \/ Merge \/ OpenFails \/ KeepFile \/ Truncate \/ WriteFile \/ SaveSnapshot

-----------------------------------------------------------------------------
(* The server (set_pos_prm, set_name) or the web form changes a setting: RAM *)
(* and NVS, not the file.                                                    *)
Update ==
  /\ stage = "up" /\ updates < MaxUpdates
  /\ \E f \in Fields, v \in Values :
       mem' = [mem EXCEPT ![f] = v] /\ nvs' = [nvs EXCEPT ![f] = v]
  /\ updates' = updates + 1
  /\ UNCHANGED <<file, nvsSnap, memSnap, stage, at, usb, failed, touched, orphaned, edits, crashes>>

(* Power is lost, or the station reboots (server, web page, watchdog).      *)
Crash ==
  /\ crashes < MaxCrashes
  /\ Restart
  /\ crashes' = crashes + 1
  /\ UNCHANGED <<store, ram, cable, failed, touched, orphaned, edits, updates>>

(* The host writes config.json: a value, a key without the space, or the    *)
(* whole file away.                                                         *)
HostMayWrite == stage = "up" /\ cable /\ exported /\ edits < MaxEdits

HostSetsField ==
  /\ HostMayWrite /\ HaveFile
  /\ \E f \in Keys, v \in Values \cup {Bad} :
       /\ v # file.val[f]
       /\ file' = [file EXCEPT !.val[f] = v]
       /\ touched' = touched \cup {f}
  /\ edits' = edits + 1
  /\ UNCHANGED <<nvs, nvsSnap, ram, stage, at, usb, failed, orphaned, updates, crashes>>

HostReformats ==
  /\ HostMayWrite /\ HaveFile
  /\ \E f \in StrFields \ file.compact :
       /\ file' = [file EXCEPT !.compact = @ \cup {f}]
       /\ touched' = touched \cup {f}
  /\ edits' = edits + 1
  /\ UNCHANGED <<nvs, nvsSnap, ram, stage, at, usb, failed, orphaned, updates, crashes>>

HostErases ==
  /\ HostMayWrite
  /\ file' \in {NoFile, Empty}
  /\ touched' = {}
  /\ edits' = edits + 1
  /\ UNCHANGED <<nvs, nvsSnap, ram, stage, at, usb, failed, orphaned, updates, crashes>>

(* The cable; the poll that follows it has a 2 s debounce, so a quick replug *)
(* goes unnoticed.                                                           *)
CableMoves ==
  /\ stage = "up" /\ edits < MaxEdits
  /\ cable' = ~cable
  /\ edits' = edits + 1
  /\ UNCHANGED <<store, ram, stage, at, exported, failed, touched, orphaned, updates, crashes>>

Attach ==
  /\ stage = "up" /\ cable /\ ~exported
  /\ exported' = TRUE /\ failed' = FALSE
  /\ UNCHANGED <<store, ram, stage, at, cable, touched, orphaned, syncBounds>>

FileChanged_Gone == file = NoFile

(* usb_detach_config_changed: the file is gone, or it is not the snapshot.  *)
FileChanged == file = NoFile \/ (HaveFile /\ (memSnap = NoSnap \/ file # Rendered(memSnap)))

LetGo == exported' = FALSE /\ UNCHANGED <<stage, at>>

Detach ==
  /\ stage = "up" /\ ~cable /\ exported
  /\ IF FileChanged THEN Restart ELSE LetGo
  /\ failed' = FALSE
  /\ UNCHANGED <<store, ram, cable, touched, orphaned, syncBounds>>

(* The mount or the read fails: no reboot, and no second look before the    *)
(* cable has come and gone.  A failed open looks like a deleted file.       *)
DetachFails ==
  /\ stage = "up" /\ ~cable /\ exported
  /\ LetGo \/ Restart
  /\ failed' = TRUE
  /\ UNCHANGED <<store, ram, cable, touched, orphaned, syncBounds>>

(* Baud 1201 and 1203 erase the settings partition.  1202 and 1203 unlink a *)
(* path of a volume that is not mounted, which changes nothing: with 1202   *)
(* only the reboot remains, as in Crash.                                    *)
WipeNvs ==
  /\ stage = "up" /\ cable /\ exported /\ crashes < MaxCrashes
  /\ nvs' = [f \in Fields |-> Default] /\ nvsSnap' = NoSnap
  /\ Restart
  /\ crashes' = crashes + 1
  /\ UNCHANGED <<file, ram, cable, failed, touched, orphaned, edits, updates>>

Host == HostSetsField \/ HostReformats \/ HostErases \/ CableMoves
VbusPoll == Attach \/ Detach \/ DetachFails

SyncNext == Boot \/ Update \/ Crash \/ Host \/ VbusPoll \/ WipeNvs

SyncSpec == SyncInit /\ [][SyncNext]_syncVars /\ WF_syncVars(Boot) /\ WF_syncVars(VbusPoll)

-----------------------------------------------------------------------------
SyncTypeOK ==
  /\ file \in {NoFile, Empty} \cup Texts
  /\ nvs \in [Fields -> Values] /\ nvsSnap \in Snapshots
  /\ mem \in [Fields -> Values] /\ memSnap \in Snapshots
  /\ stage \in {"load", "merge", "write", "snapshot", "up"}
  /\ at \in 1..(Len(FieldOrder) + 1)
  /\ cable \in BOOLEAN /\ exported \in BOOLEAN
  /\ failed \in BOOLEAN /\ touched \subseteq Keys /\ orphaned \in BOOLEAN
  /\ edits \in 0..MaxEdits /\ updates \in 0..MaxUpdates /\ crashes \in 0..MaxCrashes

(* NVS is authoritative: a boot changes a number in NVS only if the host has *)
(* rewritten that field since a boot last brought the file up to date, or NVS *)
(* was wiped.  Wherever power fails between the merge, the file and the       *)
(* snapshot, a stale file never takes a server's update back: unless a boot   *)
(* that could not use the drive comes between (`orphaned'), which lets the    *)
(* server change a setting the file already holds ahead of its snapshot.      *)
StaleFileNeverWins ==
  [][\A f \in NumFields : stage = "merge" /\ nvs'[f] # nvs[f]
       => f \in touched \/ nvsSnap = NoSnap \/ orphaned]_syncVars

(* What the host wrote last into f, where it is a change of the file.       *)
Wanted(f) == HaveFile /\ f \in touched /\ file.val[f] # Bad
             /\ (memSnap = NoSnap \/ file.val[f] # memSnap[f])

(* An edit of a number survives every crash: no write of a file that the    *)
(* boot could read ever destroys an edit NVS does not hold yet.             *)
EditsAreMergedFirst ==
  [][\A f \in NumFields : stage = "merge" /\ stage' \notin {"merge", "load"} /\ ~failed /\ Wanted(f)
       => nvs[f] = file.val[f]]_syncVars

(* Once the drive is let go, an edit of a number reaches a completed boot   *)
(* without help, unless the cable comes back or the drive itself fails.     *)
(* After a failure (then `failed' holds) the station is not moved to try    *)
(* again before the next reboot or the next plug and unplug.                *)
EditsArrive ==
  (\E f \in NumFields : stage = "up" /\ Wanted(f) /\ ~cable) ~> (touched = {} \/ cable \/ failed)
=============================================================================
