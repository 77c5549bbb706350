------------------------------- MODULE WebUi -------------------------------
(***************************************************************************)
(* The web UI apart from the log: the /config form, rendered in chunks and  *)
(* saved field by field, the commands of the console and /restart           *)
(* (src/web/web_ui.cpp), and what main does meanwhile: server commands that *)
(* write the same settings, and the latches it polls                        *)
(* (src/main.cpp:2099-2116, 4120-4137, src/tinygs_protocol.cpp:557-601).    *)
(*                                                                         *)
(* A step of the HTTP thread is one call of config_handler while a request  *)
(* is being received or a page rendered, and one store to RAM or NVS while  *)
(* a form is saved.  The HTTP server gives /config to one client at a time. *)
(* A form is a sequence of items <<field, value>>; its bytes, escapes and   *)
(* the Basic encoding of the password are left out.                         *)
(***************************************************************************)
EXTENDS Naturals, Sequences

CONSTANTS
  Used,          \* the fields of the form an instance has
  Values,        \* what an edit may put into a field
  FineValues,    \* coordinates with more digits than the page shows
  Pieces,        \* in how many items the body arrives before its end
  TzCount,       \* tinygs_tz_count
  TzPerChunk,    \* TZ_OPTIONS_PER_CHUNK
  PostBuf,       \* sizeof(config_post_buf), in items
  Empty,         \* a field without a value
  MaxRequests, MaxCommands, MaxUpdates  \* bounds of a run

Location == {"lat", "lon", "alt"}
Secrets == {"pass", "adm"}
Fields == {"station", "user", "tz", "tx"} \cup Location \cup Secrets

ASSUME WebUiAssumption ==
  /\ Used \subseteq Fields /\ {"station", "lat", "adm", "tz", "tx"} \subseteq Used
  /\ {0, 1} \subseteq Values /\ Values \subseteq Nat /\ FineValues \subseteq Nat \ Values
  /\ Empty \notin Nat
  /\ TzCount \in Nat \ {0} /\ TzPerChunk \in Nat \ {0} /\ PostBuf \in Nat
  /\ Pieces \subseteq Nat \ {0}

VARIABLES
  ram, nvs,                \* cfg_*, tinygs_station_*, and the "tgs/..." records
  connected,               \* app_state is STATE_MQTT_CONNECTED
  todo,                    \* what main still has to do for a server command
  config_get_chunk_state, config_post_buf,
  stage,                   \* "idle", "more", "render", "save", "replied"
  holder,                 \* the request that holds /config, or NoRequest
  at,                      \* the next step of the save
  changes,                 \* its local: the location must be saved
  web_writes,              \* NVS records the save still has to write
  reply,                   \* what has been sent of the answer
  draft,                   \* the settings the answer has shown so far
  form,                    \* the form in the browser: the settings it was made of
  web_reboot_requested, web_test_packet_requested,
  restart_work,            \* the delayed work of /restart is pending
  crossed,                 \* history: fields a server command and a save wrote at once
  requests, commands, updates   \* counters for the bounds

settings == <<ram, nvs>>
handler == <<config_get_chunk_state, config_post_buf, stage, holder, at, changes, web_writes,
             reply, draft>>
latches == <<web_reboot_requested, web_test_packet_requested, restart_work>>
bounds == <<requests, commands, updates>>
uiVars == <<settings, connected, todo, handler, form, latches, crossed, bounds>>

NoRequest == [method |-> "none"]
Unseen == [f \in Used |-> Empty]

(* Of a sequence the elements in S.                                        *)
Only(S, seq) ==
  LET only[i \in 0..Len(seq)] ==
        IF i = 0 THEN <<>>
        ELSE IF seq[i] \in S THEN Append(only[i - 1], seq[i]) ELSE only[i - 1]
  IN  only[Len(seq)]

(* The order in which the POST branch saves; "location" is the call of      *)
(* tinygs_config_save_location.                                             *)
SaveOrder ==
  Only(Used \cup {"location"},
       <<"station", "lat", "lon", "alt", "location", "user", "pass", "adm", "tz", "tx">>)
LocationOrder == Only(Used, <<"lat", "lon", "alt">>)

(* What "%.4f" and "%.0f" leave of a coordinate.                           *)
Printed(f, v) == IF f \in Location /\ v \in FineValues THEN 1 ELSE v

(* The form the browser sends: a secret left alone is blank, a box that is  *)
(* not ticked is left out, and without a selected option it takes the first.*)
Input(shown, edit, f) ==
  IF f \in DOMAIN edit THEN edit[f]
  ELSE IF f \in Secrets THEN Empty
  ELSE IF f = "tz" /\ shown[f] = Empty THEN 0
  ELSE Printed(f, shown[f])

FormItems(shown, edit) ==
  LET sent == Only({f \in Used : f = "tx" => Input(shown, edit, f) = 1}, SaveOrder)
  IN  [i \in 1..Len(sent) |-> <<sent[i], Input(shown, edit, sent[i])>>]

(* form_get: the first item of that name.                                  *)
form_get(f) ==
  LET named == {i \in DOMAIN config_post_buf : config_post_buf[i][1] = f}
  IN  IF named = {} THEN Empty
      ELSE config_post_buf[CHOOSE i \in named : \A j \in named : i <= j][2]

basic_auth_ok == holder.password = ram["adm"]

(* memcpy of a piece of the body; one that does not fit is skipped.        *)
Appended(items) ==
  IF Len(config_post_buf) + Len(items) <= PostBuf THEN config_post_buf \o items
  ELSE config_post_buf

(* The settings tinygs_config_save_location is given, to be written one by  *)
(* one.                                                                     *)
LocationWrites == [i \in 1..Len(LocationOrder) |-> <<LocationOrder[i], ram[LocationOrder[i]]>>]

-----------------------------------------------------------------------------
(* A browser may still have the form open since before this boot.          *)
UiInit ==
  /\ ram = [f \in Used |-> IF f = "tx" THEN 1 ELSE 0] /\ nvs = ram
  /\ connected = FALSE /\ todo = <<>>
  /\ config_get_chunk_state = 0 /\ config_post_buf = <<>>
  /\ stage = "idle" /\ holder = NoRequest
  /\ at = 1 /\ changes = FALSE /\ web_writes = <<>>
  /\ reply = <<>> /\ draft = Unseen
  /\ form \in {Unseen, [f \in Used |-> IF f \in Secrets THEN Empty ELSE ram[f]]}
  /\ web_reboot_requested = FALSE /\ web_test_packet_requested = FALSE
  /\ restart_work = FALSE
  /\ crossed = {}
  /\ requests = 0 /\ commands = 0 /\ updates = 0

(* A request reaches the HTTP server, which gives it /config.              *)
Open(req) ==
  /\ stage = "idle" /\ requests < MaxRequests
  /\ requests' = requests + 1
  /\ holder' = req
  /\ reply' = <<>> /\ draft' = Unseen
  /\ UNCHANGED <<settings, connected, todo, config_get_chunk_state, config_post_buf, at, changes,
                 web_writes, form, latches, commands, updates>>

Get(password) ==
  /\ Open([method |-> "get", password |-> password])
  /\ stage' = "render"

(* The user edits the form in the browser and sends it; `before` is history: *)
(* the settings when the save begins.                                       *)
Post(edit, password) ==
  /\ form # Unseen /\ \A f \in DOMAIN edit : edit[f] # form[f]
  /\ Open([method |-> "post", password |-> password, edit |-> edit, shown |-> form,
           rest |-> FormItems(form, edit), before |-> ram])
  /\ stage' = "more"

-----------------------------------------------------------------------------
(* config_handler, one action per kind of call.                            *)

(* TRANSACTION_COMPLETE and TRANSACTION_ABORTED.  Mutants: the position in  *)
(* the page is kept; the body is kept.                                      *)
ResetState_Body == config_post_buf' = <<>> /\ UNCHANGED config_get_chunk_state
ResetState_Chunk == config_get_chunk_state' = 0 /\ UNCHANGED config_post_buf
ResetState == config_get_chunk_state' = 0 /\ config_post_buf' = <<>>

Terminal ==
  /\ ResetState
  /\ stage' = "idle" /\ holder' = NoRequest
  /\ at' = 1 /\ changes' = FALSE /\ reply' = <<>> /\ draft' = Unseen
  /\ UNCHANGED <<settings, connected, todo, web_writes, latches, bounds>>

(* The answer has been sent; the browser shows the page.                   *)
Complete ==
  /\ stage = "replied"
  /\ Terminal
  /\ form' = IF holder.method = "get" /\ reply # <<<<"401", 0>>>> THEN draft ELSE form

(* The client goes away between two calls.                                 *)
Aborted ==
  /\ stage \in {"more", "render"}
  /\ Terminal
  /\ UNCHANGED form

(* DATA_MORE: a part of the body.                                          *)
DataMore(n) ==
  /\ stage = "more" /\ n <= Len(holder.rest)
  /\ config_post_buf' = Appended(SubSeq(holder.rest, 1, n))
  /\ holder' = [holder EXCEPT !.rest = SubSeq(@, n + 1, Len(@))]
  /\ UNCHANGED <<settings, connected, todo, config_get_chunk_state, stage, at, changes, web_writes,
                 reply, draft, form, latches, bounds>>

(* DATA_FINAL without the right password, of a GET or a POST.              *)
Unauthorized ==
  /\ stage \in {"more", "render"} /\ ~basic_auth_ok
  /\ reply' = <<<<"401", 0>>>> /\ stage' = "replied"
  /\ UNCHANGED <<settings, connected, todo, config_get_chunk_state, config_post_buf, holder, at,
                 changes, web_writes, draft, form, latches, bounds>>

(* DATA_FINAL of a POST: the rest of the body, then the save begins.       *)
DataFinal ==
  /\ stage = "more" /\ basic_auth_ok
  /\ config_post_buf' = Appended(holder.rest)
  /\ stage' = "save" /\ at' = 1 /\ changes' = FALSE
  /\ holder' = [holder EXCEPT !.rest = <<>>, !.before = ram]
  /\ UNCHANGED <<settings, connected, todo, config_get_chunk_state, web_writes, reply, draft, form,
                 latches, bounds>>

(* render_config_form_header, _tz_options, _footer: what each shows.       *)
Shows(fields) == draft' = [f \in Used |-> IF f \in fields THEN ram[f] ELSE draft[f]]

FormHeader ==
  /\ config_get_chunk_state = 0
  /\ reply' = Append(reply, <<"header", 0>>)
  /\ Shows(Used \ ({"tz", "tx"} \cup Secrets))
  /\ config_get_chunk_state' = 1 /\ UNCHANGED stage

Options(from, to) == [i \in 1..(to - from) |-> <<"tz", from + i - 1>>]

TzOptions ==
  LET from == config_get_chunk_state - 1
      to == IF from + TzPerChunk > TzCount THEN TzCount ELSE from + TzPerChunk
  IN  /\ config_get_chunk_state \in 1..TzCount
      /\ reply' = reply \o Options(from, to)
      /\ Shows(IF ram["tz"] \in from..(to - 1) THEN {"tz"} ELSE {})
      /\ config_get_chunk_state' = config_get_chunk_state + TzPerChunk /\ UNCHANGED stage

Footer ==
  /\ config_get_chunk_state > TzCount
  /\ reply' = Append(reply, <<"footer", 0>>)
  /\ Shows({"tx"})
  /\ config_get_chunk_state' = 0 /\ stage' = "replied"

Render ==
  /\ stage = "render" /\ basic_auth_ok
  /\ FormHeader \/ TzOptions \/ Footer
  /\ UNCHANGED <<settings, connected, todo, config_post_buf, holder, at, changes, web_writes,
                 form, latches, bounds>>

-----------------------------------------------------------------------------
(* The save: one store to RAM, or one to NVS, at a time.                   *)

(* What the form asks of a field; an absent tx box means off.              *)
Wanted(f) ==
  CASE f = "tx" -> IF form_get(f) = 1 THEN 1 ELSE 0
    [] f = "tz" -> IF form_get(f) \in 0..(TzCount - 1) THEN form_get(f) ELSE ram[f]
    [] OTHER -> IF form_get(f) = Empty THEN ram[f] ELSE form_get(f)

(* A secret that is given is saved even if it is the same.                 *)
MustSave(f) == Wanted(f) # ram[f] \/ (f \in Secrets /\ form_get(f) # Empty)

SaveField ==
  LET f == SaveOrder[at]
  IN  /\ f # "location"
      /\ ram' = [ram EXCEPT ![f] = Wanted(f)]
      /\ web_writes' = IF f \notin Location /\ MustSave(f) THEN <<<<f, Wanted(f)>>>> ELSE <<>>
      /\ changes' = (changes \/ (f \in Location \cup {"station"} /\ Wanted(f) # ram[f]))

(* tinygs_config_save_location is called with the values in RAM.           *)
SaveLocation ==
  /\ SaveOrder[at] = "location"
  /\ web_writes' = IF changes THEN LocationWrites ELSE <<>>
  /\ UNCHANGED <<ram, changes>>

Save ==
  /\ stage = "save" /\ web_writes = <<>> /\ at <= Len(SaveOrder)
  /\ SaveField \/ SaveLocation
  /\ at' = at + 1
  /\ UNCHANGED <<nvs, connected, todo, config_get_chunk_state, config_post_buf, stage, holder,
                 reply, draft, form, latches, bounds>>

(* settings_save_one.                                                      *)
SaveRecord ==
  /\ stage = "save" /\ web_writes # <<>>
  /\ nvs' = [nvs EXCEPT ![Head(web_writes)[1]] = Head(web_writes)[2]]
  /\ web_writes' = Tail(web_writes)
  /\ UNCHANGED <<ram, connected, todo, config_get_chunk_state, config_post_buf, stage, holder, at,
                 changes, reply, draft, form, latches, bounds>>

Saved ==
  /\ stage = "save" /\ web_writes = <<>> /\ at > Len(SaveOrder)
  /\ config_post_buf' = <<>>
  /\ reply' = <<<<"saved", 0>>>> /\ stage' = "replied"
  /\ UNCHANGED <<settings, connected, todo, config_get_chunk_state, holder, at, changes,
                 web_writes, draft, form, latches, bounds>>

-----------------------------------------------------------------------------
(* Main and the server.  A command is a list of the stores main makes:      *)
(* "ram" a field, "save" the settings as RAM holds them when it is reached, *)
(* "nvs" a record, "reboot".                                                *)
Store(kind, f, v) == [kind |-> kind, field |-> f, value |-> v]

Command(stores) ==
  /\ connected /\ todo = <<>> /\ updates < MaxUpdates
  /\ updates' = updates + 1
  /\ todo' = stores
  /\ UNCHANGED <<settings, connected, handler, form, latches, requests, commands>>

(* set_pos_prm with three values, or with the altitude alone; set_name.    *)
SetPos(value, fields) ==
  LET order == Only(fields, LocationOrder)
  IN  Command(Append([i \in 1..Len(order) |-> Store("ram", order[i], value)],
                     Store("save", "location", 0)))
SetName(value) ==
  Command(<<Store("ram", "station", value), Store("save", "station", 0),
            Store("reboot", "station", 0)>>)

(* The records of tinygs_config_save_location and tinygs_config_save_station.*)
Records(f) ==
  LET list == IF f = "location" THEN LocationWrites ELSE <<<<f, ram[f]>>>>
  IN  [i \in 1..Len(list) |-> Store("nvs", list[i][1], list[i][2])]

MainStores ==
  /\ todo # <<>>
  /\ LET store == Head(todo)
     IN  \/ /\ store.kind = "ram"
            /\ ram' = [ram EXCEPT ![store.field] = store.value] /\ UNCHANGED nvs
            /\ todo' = Tail(todo)
         \/ /\ store.kind = "save"
            /\ UNCHANGED settings
            /\ todo' = Records(store.field) \o Tail(todo)
         \/ /\ store.kind = "nvs"
            /\ nvs' = [nvs EXCEPT ![store.field] = store.value] /\ UNCHANGED ram
            /\ todo' = Tail(todo)
  /\ UNCHANGED <<connected, handler, form, latches, bounds>>

(* The session comes and goes between two iterations of main.              *)
SessionMoves ==
  /\ todo = <<>>
  /\ connected' = ~connected
  /\ UNCHANGED <<settings, todo, handler, form, latches, bounds>>

-----------------------------------------------------------------------------
(* Commands: the console's !e and !p (run_cs_command), and /restart.       *)
Console(cmd) ==
  /\ stage \in {"idle", "more"} /\ commands < MaxCommands
  /\ commands' = commands + 1
  /\ \/ cmd = "!e" /\ web_reboot_requested' = TRUE
        /\ UNCHANGED <<web_test_packet_requested, restart_work>>
     \/ cmd = "!p" /\ ram["tx"] = 1 /\ web_test_packet_requested' = TRUE
        /\ UNCHANGED <<web_reboot_requested, restart_work>>
     \/ cmd = "/restart" /\ restart_work' = TRUE
        /\ UNCHANGED <<web_reboot_requested, web_test_packet_requested>>
  /\ UNCHANGED <<settings, connected, todo, handler, form, requests, updates>>

(* What a reset leaves: the settings come from NVS, the browser keeps its   *)
(* page.                                                                    *)
Reset ==
  /\ ram' = nvs /\ UNCHANGED nvs
  /\ connected' = FALSE /\ todo' = <<>>
  /\ config_get_chunk_state' = 0 /\ config_post_buf' = <<>>
  /\ stage' = "idle" /\ holder' = NoRequest
  /\ at' = 1 /\ changes' = FALSE /\ web_writes' = <<>>
  /\ reply' = <<>> /\ draft' = Unseen
  /\ web_reboot_requested' = FALSE /\ web_test_packet_requested' = FALSE
  /\ restart_work' = FALSE
  /\ crossed' = {}
  /\ UNCHANGED <<form, requests, commands, updates>>

(* The latches, polled once in an iteration of a connected main: the        *)
(* restart first.                                                           *)
PopReboot ==
  /\ connected /\ todo = <<>> /\ web_reboot_requested
  /\ Reset

(* Mutant: the latch is read only where a packet may be sent.              *)
PopTestPacket_WhenAllowed ==
  /\ connected /\ todo = <<>> /\ ~web_reboot_requested
  /\ ram["tx"] = 1 /\ web_test_packet_requested
  /\ web_test_packet_requested' = FALSE
PopTestPacket ==
  /\ connected /\ todo = <<>> /\ ~web_reboot_requested
  /\ web_test_packet_requested
  /\ web_test_packet_requested' = FALSE
TakeTestPacket ==
  /\ PopTestPacket
  /\ UNCHANGED <<settings, connected, todo, handler, form, web_reboot_requested, restart_work, bounds>>

(* The work of /restart runs at any time after its request, in the middle   *)
(* of a save too: what it leaves is what a power cut there would leave.     *)
RestartFires == restart_work /\ Reset
CommandReboots == todo # <<>> /\ Head(todo).kind = "reboot" /\ Reset

-----------------------------------------------------------------------------
HttpThread ==
  Complete \/ Unauthorized \/ DataFinal \/ Render \/ Save \/ SaveRecord \/ Saved
MainThread == MainStores \/ TakeTestPacket
Reboots == PopReboot \/ RestartFires \/ CommandReboots

(* What an edit may put into a field: a tick, an option of the list, a text.*)
Offered(f) ==
  IF f = "tx" THEN {0, 1} ELSE IF f = "tz" THEN Values \cap 0..(TzCount - 1) ELSE Values

NoEdit == [f \in {} |-> Empty]
Edits == {NoEdit} \cup UNION {[{f} -> Offered(f)] : f \in Used}
Clients ==
  \/ \E password \in Values :
       \/ Get(password)
       \/ \E edit \in Edits : Post(edit, password)
  \/ Aborted
  \/ \E n \in Pieces : DataMore(n)
  \/ \E cmd \in {"!e", "!p", "/restart"} : Console(cmd)
Server ==
  \/ \E value \in FineValues, fields \in {Location, {"alt"}} : SetPos(value, fields)
  \/ SetName(1)
  \/ SessionMoves

(* Every step but a reset notes whether main and a save write at once.     *)
Running(step) ==
  /\ step
  /\ crossed' = IF stage' = "save" /\ todo' # <<>> THEN crossed \cup {"station"} \cup Location
                ELSE crossed

UiNext == Running(HttpThread \/ MainThread \/ Clients \/ Server) \/ Reboots

(* Both threads are scheduled and a delayed work runs some time; clients,   *)
(* the server and the session do what they like.                            *)
UiSpec ==
  /\ UiInit /\ [][UiNext]_uiVars
  /\ WF_uiVars(Running(HttpThread)) /\ WF_uiVars(Running(MainThread))
  /\ WF_uiVars(PopReboot) /\ WF_uiVars(RestartFires) /\ WF_uiVars(CommandReboots)

-----------------------------------------------------------------------------
Settings == [Used -> Values \cup FineValues]

UiTypeOK ==
  /\ ram \in Settings /\ nvs \in Settings
  /\ stage \in {"idle", "more", "render", "save", "replied"}
  /\ config_get_chunk_state \in Nat /\ Len(config_post_buf) <= PostBuf
  /\ at \in 1..(Len(SaveOrder) + 1)
  /\ {connected, changes, web_reboot_requested, web_test_packet_requested, restart_work}
       \subseteq BOOLEAN
  /\ crossed \subseteq Fields
  /\ DOMAIN draft = Used /\ DOMAIN form = Used

(* A page that is sent to its end is whole, header, every time zone once in *)
(* order, footer, whatever requests were broken off or refused before it    *)
(* (the comment at web_ui.cpp:735-747).                                     *)
PageIsWhole ==
  stage = "replied" /\ holder.method = "get" /\ reply # <<<<"401", 0>>>> =>
    reply = <<<<"header", 0>>>> \o Options(0, TzCount) \o <<<<"footer", 0>>>>

(* What a saved form makes of a field: the edit; else what it was when the  *)
(* save began, provided the page showed just that; else what the page       *)
(* showed, which sets back a later change by the server and rounds a        *)
(* coordinate to the digits of the page.                                    *)
Intended(f) ==
  IF f \in DOMAIN holder.edit THEN holder.edit[f]
  ELSE IF \/ f \in Secrets
          \/ holder.shown[f] = holder.before[f] /\ Printed(f, holder.before[f]) = holder.before[f]
       THEN holder.before[f]
  ELSE Printed(f, holder.shown[f])

(* A form that is answered with "Saved" has had just the intended effect,   *)
(* in RAM and in NVS, although bodies of broken or refused requests came    *)
(* before it, pages are old, and the device was reset in between.  Where a  *)
(* server command writes at the same moment nothing is promised: neither    *)
(* side locks.                                                              *)
SaveIsTheEdit ==
  [][Saved => \A f \in Used \ crossed : ram[f] = Intended(f) /\ nvs[f] = ram[f]]_uiVars

(* A command of the console or /restart is carried out, or dropped, but     *)
(* never kept: however long the broker was away and whatever was saved in   *)
(* between, a connection that lasts takes it.                               *)
Pending == web_reboot_requested \/ web_test_packet_requested \/ restart_work

CommandsAreTaken == <>[]connected => (Pending ~> ~Pending)
=============================================================================
