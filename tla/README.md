# TLA+ models of the TinyGS nRF52 ground station

The firmware receives satellite packets with an SX1262 radio, reports them over
MQTT/TLS through an OpenThread mesh, takes tuning commands from the TinyGS
server, keeps its settings in NVS with a mirror on a USB drive, and serves a web
console. This directory models the parts where order, failure or timing can go
wrong, checks them with TLC and proves some of the results with TLAPS.

## 1. The system

Threads: `main` (preemptive, the loop at src/main.cpp:3893), the **system
workqueue** (cooperative: watchdog feeder, USB poll, SNTP resync, epoch save,
joiner retries, resets), the **OpenThread** thread (role changes, DNS and SNTP
callbacks), the **HTTP** thread (web UI), the **logging** thread (log backends),
and interrupts (radio DIO1, button, timers).

| Component | State | Operations | Talks to |
|---|---|---|---|
| Watchdog | heartbeat mark, hardware counter | feeder every 60 s, gate of 90 s, window of 180 s | main (mark), workqueue |
| Main loop / MQTT session | `app_state`, retries, socket, unacked pings, silence | states WAIT_THREAD ... CONNECTED, ERROR; ping, publish, sleep, reset | DNS, SNTP, TLS, watchdog, radio, display, web latches |
| DNS resolver | `current_dctx`, generation, `dns_sem`, `dns_mutex` | resolve from main or workqueue; callback on OT thread | main, SNTP |
| Clock | offset, `time_synced`, two words of `__noinit` RAM, one semaphore for two askers | SNTP query, wait and answer, save, restore | main, workqueue, OT thread, Doppler, log |
| Configuration | NVS, RAM copies, config.json, snapshot | boot merge, server updates, detach check, wipes, failing mounts and reads | USB host, server, web form |
| Radio | radio record, chip, receive flag, Doppler shift | plans (begine ...), retunes, packet path, Doppler tick | server, ISR, web thread |
| Web console | byte ring, sequence numbers; in the page: cursor, scroll position | log, `/cs` read, page poll | logging thread, HTTP thread, browser |
| Web UI rest | form buffer, position in the page, latches, delayed restart | `/config` in chunks, save, `/restart`, `/wm` | browser, NVS, main, server commands |
| Display | page, place in the rotation, activity and page times, frames, login latch | update, button, packet, remote frames | main, ISR, HTTP thread |
| Joiner | attempts, receiver override, two delayed works | start, callback, retry, poll, role change | OpenThread, workqueue |
| Packet decoding | the packet, the unstuffer's bit window, counters and output | NRZ-S, descrambling, bit stuffing, PN9, software CRC | radio packet path, MQTT |
| JSON, protocol, time zones, P13, LEDs, board files | - | pure code, tables or hardware | - |

Hard behaviour, and what has to be right: the watchdog must bite a wedged main
and spare a busy one; a blocked or silent broker must be left from every state
without losing sockets; a DNS answer must not reach another call; a reset
between any two writes must not destroy an edit or bring an old value back; a
packet must be judged by the plan it was received under and decoded to what the
satellite sent, or refused; the console must not lose or repeat lines; a page
must be whole and a saved form do what its user asked for, whatever request
broke off before; a display must go dark when nobody uses it and only then.
PROJECT.json lists the hazards line by line.

## 2. Plan

Order: (1) watchdog and main loop, (2) resolver, (3) clock, (4) configuration,
(5) radio, (6) web console, (7) joiner and receiver override, (8) bit-level
decoding against the standards' definitions, (9) display with the button
interrupt, (10) the `/config` form and the latches of the console - these
exist - then (11) failing settings writes in ConfigSync and WebUi, where the
merge as it stands keeps neither of its promises (see 7), (12) the JSON, form and
query parsers as operators, (13) torn reads of the clock offset.

Composition: `Station` EXTENDS `Watchdog` and refines its abstract main thread;
`DnsResolver` refines `Resolver`; `WebConsole` refines `LogTail`. Every safety
property of the passing runs is the conclusion of a theorem (section 6).

## 3. Modules

| Module | Models | Variables and actions |
|---|---|---|
| `Watchdog` | src/main.cpp:528-658 | ages of the three time stamps instead of clock values; `FeederRun`, `WorkqJob`, `MainBump`, `WdTick`, `WdExpire`, `WdReboot` |
| `Station` | src/main.cpp:1639-1706, 2101-2182, 2312-2416, 3860-4273 | main cut at the calls that block; `block` bounds the rest of the call; nested MQTT events are the `lost` parameter of the action they interrupt |
| `Resolver` / `DnsResolver` | src/main.cpp:1451-1593 | promise: a call returns its own host's address or fails; code: mutex, semaphore, generation, query, callbacks |
| `Clock` | src/main.cpp:2979-3151, 3955-3960 | real time, the uptime that drifts against it (`Slip`), offset, the two saved words; the two stores of a save are two steps; `sntp_sync` in three (lookup, query, wait), of main and the workqueue at once, and answers whenever OpenThread has them |
| `ConfigSync` | src/main.cpp:2436-2470, 2618-2952 | file, NVS, snapshot, RAM; one step per persistent write, the host and power cuts between them; each mount, open and read of the drive may fail (`MountFails`, `Load`, `OpenFails`, `DetachFails`) |
| `RadioConfig` | src/main.cpp:1686-2286, 3170-3624 | radio record, chip, interrupt flag; begine in eight steps, the legacy begin in five, with attaching the action and `startReceive` apart, the packet path in four |
| `Joiner` | src/main.cpp:982-1006, 1039-1069, 1140-1424 | joiner state and its age, the two delayed works as countdowns, the receiver; the poll in two steps, before and after it gives the OpenThread mutex back |
| `Framing` | src/bitcode.c, src/main.cpp:3465-3584 | a satellite that codes by the standards (long division, run counting, sequences), a line that cuts or damages, and the decoder: one step per bit of `remove_bit_stuffing`, the rest in one; `IsPacket` says what satellites send |
| `Display` | src/tinygs_display.cpp, src/main.cpp:4032-4118 | ages instead of time stamps, with the wrapped difference where a stamp is newer than the clock read; `tinygs_display_update` in steps (clock read, test, off or draw) between which `button_pressed` comes; `panel` is the text that can be read |
| `WebUi` | `/config`, latches and `/restart` in web_ui.cpp, src/tinygs_config.cpp, src/main.cpp:2099-2116, 4120-4137, src/tinygs_protocol.cpp:559-601 | RAM, NVS, body buffer and position in the page; one step per call of the handler and per store of a save; `form` is the form in the browser, `holder` the request that has `/config`, `todo` what main still has to store for a server command |
| `LogTail` / `WebConsole` | src/web/log_backend_web.c, `/cs` in web_ui.cpp:517-588, the page script in scripts/gen_dashboard_gz.py:97-119 | promise: the newest lines that fit; code: cells with head, tail, used and wrap-around; its loops (dropping, walking, filling the answer) iterate one pass of the body (`Iterate`) |

`*Proofs` modules hold the theorems: `NetworkProofs` those of resolver and joiner,
`SharedDataProofs` those of clock, configuration and radio, `InductionProofs` the
induction the proofs about loops use. `Clock` and `ConfigSync` name their
specifications `ClockSpec` and `SyncSpec`, so that one module can extend both.
`MC*` modules and `.cfg` files instantiate.
Definitions whose comment begins with "Mutant" are faulty variants of the next
definition, kept to show that each property notices the fault.

Abstractions: payloads, plans and hosts are model values; the four kinds of plan
(LoRa, FSK, too long for `modem_conf`, not parsable) are those the handlers
treat differently. Of the sky, only how far the Doppler shift has moved is
kept. Of a settings string, only the value and whether the host wrote it in the
compact layout. Of a form, the fields and their order, not bytes and escapes; a
body arrives in pieces of whole fields. Coordinates are exact values or ones with
more digits than the page prints. A repaint of the panel adds text, the map
covers everything, `clear_screen` erases.

## 4. Runs

| Run | Question and result | Bounds |
|---|---|---|
| `station_safety` | with the source's limits (unit 30 s): main within the freshness limit on every chain of calls, silence bounded, dead sessions left, no socket lost, and `Station` implements `WdSpec` | 10 DNS retries, 4 TLS contexts as in the source; no sleep command |
| `station_live` | the watchdog fires only in a commanded sleep, and a main that sleeps on is reset within freshness limit + window; a healed network is always followed by a connection, even with one TLS context and a library that keeps the socket of an unfinished handshake | smaller limits (1 retry, silence limit 6); sleeps of up to 12 units, longer than limit + window = 9 |
| `dns` | answers never cross calls or dangle; every call ends; implements `Resolver` | two callers (all that exist), two hosts, 6 queries |
| `clock_lag` | the clock is ahead by the drift of the RTC at most; behind by that, and what its resets and torn saves lost | unit 30 s: save interval 2, boot, resync and latency 1; a drift of 1 unit in 5 (the code's 250 ppm would need 4000), low word of 5 units, 7 units of time from 4 on, 2 warm resets between two saves of a right clock, 1 open query (more at once are left to the proofs) |
| `config_merge` | stale files never revert a server update, edits of numbers survive power cuts and arrive, but for what a failing drive costs (below) | a string, two numbers and `display_timeout`, 3 values, 3 steps of host or cable, 2 updates, 2 power cuts or wipes, any number of failures |
| `radio_commands` | no stale packet outside the window before `startReceive`, no torn copy, the radio listens again, the shift is applied | 3 commands, 1 reboot, shifts -2..2 with tolerance 1 |
| `radio_mode` | *violated:* after FSK, a LoRa plan leaves the chip in FSK mode | 4 commands |
| `joiner_attach` | retries never end without a dataset, the receiver is on in time in every handshake and never forced in a scan, the station gets attached again and again | poll 1, scan 2, slow poll 3, retry 4, busy retry 5, workqueue held for 1; 2 resets |
| `framing` | what a satellite codes is what is published; a cut frame is a frame error; a burst in a raw or PN9 packet never passes that is, in the order of the CRC's bits, no longer than the CRC (388 000 states, half a minute) | frames of 16 to 18 bytes, four framings, 7 CRCs (all bit orders), 7 preambles, 3 of them with flags that begin inside a byte, 3 contents of the scrambler, cuts of 1, 2 and 9 bytes, bursts at both ends and in the CRC |
| `display` | dark only when nobody pressed and nothing was received for the timeout, except for a press in the very update that decides; dark in the end when nobody uses it; the map back within two page intervals and three iterations; no text of another page or of a replaced frame older than a page interval and two iterations | page interval 2 ticks, timeout 3 or 5 (shorter and longer than two pages), an iteration takes at most one tick, one server text, so frames empty or not |
| `web_ui` | a page sent to its end is whole; a form answered "Saved" had the effect the user asked for, in RAM and NVS; a latched command is taken once the session lasts | two requests beside a page from before the boot, one command, one server update; six fields of each kind, 3 time zones by 2, buffer of 8 fields for forms of 6 |
| `web_console` | ring implements the log of newest lines; the page shows each line once, in order, missing only evicted ones, and catches up unless it is scrolled up | ring of 9 cells, lines of 3 and 5 cells, 4 lines per boot, 1 restart, 1 reload |

Why the bounds suffice: each limit lets every case of its counter happen (below, at
and beyond the limit); a ring of 9 cells wraps inside a header and inside a text and
evicts one or two lines for one; three commands give each pair of plans with a
packet before, between and after; two power cuts allow one during the recovery from
another; two requests are one that breaks off, is refused or saves and the one it
may spoil, and the page from before the boot makes a third; a page interval of 2
with iterations of 1 lets presses, packets and page turns fall before, at and after
each limit; the frames need stuffing inside, across and at the end of bytes and have
the shortest legal length, beside longer ones. The unbounded things (edits, updates,
commands, boots, lines) are capped by the `Max...` constants named in the guards;
`Watchdog` and `Station` need none, since they keep ages and stop time at the next
event. Deadlock is not checked where the caps make a run end (`clock_*`, `config_*`,
`radio_*`, `dns`) or a packet's decoding does (`framing`); `display` and `web_ui`
are checked for it. The joiner's periods keep their order but not their ratios (150
ms, 0.3 s, 1 s, 5 s, 15 s): what counts is that polls fall into a scan, a handshake
and the pause before a retry.

Disagreements between code and text that the violated runs show are in
PROJECT.json under `findings`. `RadioConfig` also shows at `BeginOrbit` what its
properties do not promise: a plan too long for `modem_conf` is tuned to, but its
filter and orbit are read from the plan before. Two more observations that no run
states: the joiner's poll acts only when the value it wants changes
(src/main.cpp:1244), so an rx-off that OpenThread does later, with the receiver
wanted on all along, is not undone, although the comment at src/main.cpp:1249
speaks of a steady re-assert; and
`remove_bit_stuffing` leaves `ones` at 5 after an opening flag, so a frame whose
first five bits are 1 would be decoded wrongly. AX.25 addresses begin with a 0
bit, so the satellites of `Framing` send no such frame.

More that the code does and the properties therefore do not promise:

- The clock after a long silence of the time servers (`runaway`): at 250 ppm the
  clock may have gained more than a save interval after about two days and a half.
  An answer then sets it back behind the saved epoch; if the low word, which turns
  every 49.7 days, has just turned, a reset between the two stores of the next save
  leaves the new low word with the old high one, a turn too high: the restored clock
  is 49.7 days ahead. `NeverAhead` leaves this case out, and only this one.
- The comment at src/main.cpp:2998-2999 speaks of a loss of "~60-70 s"; the losses
  of warm reboots add up until SNTP answers (`LagBounded`), the drift comes on top.
- A boot that cannot mount the drive or open config.json (`orphaned`): the power
  fails after the file has been written and before its snapshot, the next boot
  cannot use the drive, and the server changes the same setting. The boot after that
  finds a file that differs from its snapshot, takes it for an edit of the user and
  reverts the server's update. `StaleFileNeverWins` leaves this out.
- A mount or a read that fails when the cable is pulled is not tried again before
  the next plug and unplug, as the comment at src/main.cpp:2442-2444 says: the edit
  waits for that or for a reboot. A file that mounts and cannot be read at boot is
  written over, with any edit in it. `EditsArrive` and `EditsAreMergedFirst` end
  where the drive fails (`failed`).
- `display_timeout`, which docs/CONFIG.md:44 lists among the settings a user may
  edit, is written into the file as the literal 30 and never read by the merge
  (src/main.cpp:2823-2877): the edit has no effect, and as the file then differs
  from its snapshot until a changed setting has it written anew, each unplugging
  restarts the station. The key is in
  the model (`FixedFields`) and no setting behind it, so the properties, which are
  about settings, promise nothing of it.
- The comment at src/main.cpp:1746-1749 has begine detach the interrupt so that no
  packet of the old plan is processed under the new one. The action is attached
  again (1972, in FSK as early as 1882, in begin_lora at 2025) before
  `startReceive` (1973, 2026) while a chip tuned by setters may still be receiving:
  a packet that it finishes between them raises the flag and is read under the new
  plan. `NoStalePacket` leaves out just this packet (`slipped`).
- A saved plan is put into the chip at boot with `begin` or `beginFSK`
  (src/main.cpp:3381, 3396) after `init_radio` has attached the action (3333). The
  comment at 1881 says that `beginFSK` resets the interrupt, and nothing attaches it
  again: whether it does is the library's business, so both are modelled, and the
  station may then be deaf until the next begine (`deaf` in `Listening`).
- A begine whose payload is not JSON leaves the chip alone, with the shift it has, but
  reads filter and orbit from `modem_conf` again and may clear the recorded shift;
  `dropped` in `ShiftIsApplied` covers it with the retunes. `setFrequency` is assumed
  to succeed for a plan of the server.
- The page's timer polls only while the console is scrolled to its end
  (scripts/gen_dashboard_gz.py:106): under a user who has scrolled up it is set
  again and again and shows nothing new until the user scrolls down or enters a
  command. `PageCatchesUp` ends where the user scrolls.
- A plan with `cRO` true: the receiver turns its CRC round (src/main.cpp:3548-3551)
  but not the bytes of the tail it compares with (3554-3575). For the both-reflected
  CRC of docs/TINYGS_MQTT_PROTOCOL.md:349 (`cRI` and `cRO` true; the test at
  tests/json_parser/src/main.cpp:1150-1162 parses the same plan) an undamaged packet
  is thus published as "Error_CRC", unless its CRC reads the same backwards.
  The satellite of `Framing` sends the register as it stands, which with both
  reflected is the low byte of the written value first, as X.25 has it; the check
  would fail in the other byte order as well. `SentIsReceived` says so (`turned`).
- After a flag or seven ones the unstuffer goes on with the next byte (`j = 0`,
  src/bitcode.c:150, 169) and drops what it has not read of this one. The resync of
  two bits makes up for a flag that ends with a byte; where the flags of a packet end
  inside one, the frame loses its first bits. `SentIsReceived` is stated for flags
  in step (`inStep`); cut frames are refused in any case. How often packets are in step
  is the chip's sync word's business, which cuts the packet out of the stream.
- The sleep command blocks main in `k_sleep` for up to a day
  (src/main.cpp:2178) while the feeder, 90 s after the last mark, withholds: a
  sleep longer than about 210 to 270 s is cut short by the watchdog.
  `WatchdogSparesMain` and `WedgeBounded` say just that. docs/TINYGS_MQTT_PROTOCOL.md:397
  has the station sleep for the whole time.
- An edit of a string in the layout the device itself writes
  (`"station": "x"`, with a blank) is not found by the merge, which looks for the
  key up to the quote without one (src/main.cpp:2836): it is written over.
  `EditsArrive` is stated for the numbers.
- The form posts every field: a page older than a server command sets the
  position back, and a coordinate comes back with four digits (`Intended`).
- A form and a server command that write at once may leave RAM and NVS, or the
  three coordinates among themselves, different; neither side locks (`crossed`).
- A body longer than 1024 bytes loses pieces silently, and a lost tx box means
  off.
- `!e` of the console waits for a connection, though web_ui.cpp:399 says
  "deferred 2s like /restart".
- The map is back after two page intervals and three iterations, not after the
  "~5s" of the comment at tinygs_display.cpp:77-79: a packet that wakes the display
  shows its own page for up to one interval, and one more page may follow.
- A display whose timeout is set to 0 seconds ("never": `UINT32_MAX`,
  tinygs_display.cpp:687) is outside `Timeouts`; `GoesDark` does not apply to it.
- While the station is not connected the display neither turns pages nor goes
  dark, since only the CONNECTED loop updates it; a press then stays latched.
- A press during an update that has read the clock but not compared yet is taken
  for 49 days of inactivity and swallowed.
- With the default timeout of 30 s, six pages, the rotation is darkened before it
  comes to the remote frames, unless packets come; a press starts it from the map
  again. The page a packet wakes the display for is turned away at once if the page time is over,
  as it is after any dark spell.
- A frame emptied while shown keeps its text until the page turns, though the
  comment at tinygs_display.cpp:445 expects a cleared screen.

## 5. Fairness

- `Watchdog`, `Station`: time passes, the cooperative workqueue runs when idle,
  main is scheduled (weak fairness). Strong fairness of `TlsOk` and `ConnackOk`
  says that a server that can be reached again and again answers some time;
  `Reconnects` assumes in addition that attachment lasts and name and time
  servers answer (`NetworkHeals`).
- `DnsResolver`: each caller's steps; strong fairness for the mutex, which
  Zephyr hands to its waiters. The answer itself is not fair: the timeout is.
- `Joiner`: boot, both works, the callback and time (weak fairness); an
  OpenThread that can start, find, connect, save and attach again and again does
  so some time (strong fairness). Its timeouts may come first any number of times.
- `ConfigSync`: the boot code and the periodic USB poll run (weak fairness).
- `WebConsole`: the page's timer, which each pass of the script sets again, asks
  while the console stays scrolled to its end (weak fairness of `Poll`, which
  scrolling up disables); the HTTP thread and the link complete a
  round trip now and then before the next poll (every 2.3 s) aborts it (strong
  fairness). On a link that is always slower the page shows nothing: that is
  what the script does. Scrolling, commands and reloads are not fair.
- `Display`: main is scheduled and time passes (weak fairness); an iteration of
  the connected loop takes at most `LoopTime`. Presses, packets, frames and the
  session are not fair; `GoesDark` is about the time after the last of them.
- `WebUi`: both threads and the delayed restart run (weak fairness); requests,
  aborts, the server and the session are not fair, and `CommandsAreTaken` assumes
  a session that lasts.
- The other runs are safety only.

## 6. Proofs

- `StationProofs` begins with the watchdog alone: `WdInv` relates the hardware
  count, the time since the feeder ran and the age of main's mark: while the feeder
  feeds, the mark was fresh at the last feed, so a wedge is at most freshness +
  window old (`WatchdogBoundsWedge`). `HealthyMainIsSpared` and `LateMainIsSpared`
  give the converse under `FeedInterval + WorkqHold <= WdtWindow` and twice that.
  Then the real loop: `MainBudget` bounds age of the mark plus rest of the call
  (`block`) by a limit for each point of the loop; it is inductive because every
  call's limit is its predecessor's plus its own wait until the next bump
  (assumption `ChainsFitFreshness`, which TLC evaluates for the source's values).
  From it follow `StationWithinFreshness`, the refinement
  `StationImplementsWatchdog` and with it the watchdog theorems for the real loop
  (`StationIsSpared`, `ShortSleepsAreSafe`). `Owner` says which points own a socket;
  it yields `StationLeavesDeadSession` and `StationLeaksNoSocket` (the latter if the
  library closes what `mqtt_disconnect` is given). At last the silence: each round
  of it (ping interval and two iterations) has left one unacknowledged ping
  (`Counted`), and a ping goes out in the first iteration that finds the interval
  over (`Pinging`). Hence `StationLeavesSilentBroker`, if `RebootPause <= IterWork`,
  and `StationBoundsSilence`, if in addition the rounds of pings and two iterations
  fit `SilenceTimeout`; `station_safety` runs with values that satisfy both.
- `NetworkProofs`, the resolver: the inductive invariant says that the mutex has one
  holder, only the newest query carries the current generation, and only while
  its caller is inside. Hence `ResolverWakesRight`, `ResolverNeverDangles` and
  the refinement `ResolverKeepsPromise`, for any number of callers and queries.
- `SharedDataProofs`, the clock: the RTC gains or loses a unit in `DriftPeriod`, so in
  a real time of length a, with `steady` of it since the last slip, at most
  `Drift(a)` (`DriftBound`). Clock, saved words and a save under way each keep a
  balance against real time, forward (`Ahead`) and backward (`Behind`): when SNTP set
  them, the warm reboots they have been through, each of which takes the boot and the
  time since the last save, and the turns of the low word that torn saves took or
  gave (`torn`). The balance stays `Within` the drift, whoever asks, however late an
  answer comes, and wherever a reset falls. A torn save can give a turn only if the
  clock is behind the saved epoch when the save begins; a save comes an interval
  after the last one, an answer is late by less (`LatencyIsShort`), so this needs a
  drift past the interval: `runaway`. Without it `torn` is never negative (`NoGain`).
  Hence `ClockNeverAhead` and `ClockLagIsBounded`, with no assumption about how often the
  low word turns; `ClockIsTyped` adds flags, threads and semaphore.
- `SharedDataProofs`, the settings: what the host has not rewritten the snapshot
  knows, and only a boot that was cut off leaves a file newer than the snapshot, one
  that NVS agrees with already (`Known`), until a boot that cannot use the drive
  lets the server change it (`orphaned`); the fields before the place of the merge
  have been taken (`Merged`). Hence `StaleFilesLose` and `EditsGoFirst`.
- `SharedDataProofs`, the radio: the receive flag speaks only of packets since the last
  reconfiguration, or of one that has `slipped` (`Flagged`); the halves of the record
  differ only inside the mutex (`Halves`); receiver and interrupt are armed outside
  a reconfiguration of a station that is not `deaf` (`Armed`); the shifts of record and
  chip are cleared together (`Shifted`). Hence `RadioReadsFresh`, `RadioCopiesWhole`,
  `RadioListens` and `RadioAppliesShift`.
- `DisplayProofs`: nothing on a page is older than the page, an update that keeps a
  page finds it younger than the interval, and the map is at most one interval away
  from a page that was turned to and two from one a packet jumped to. Hence
  `MapComesBack`, `StaleTextGoes` and `OnlyIdleGoesDark`; the iterations in the
  bounds of the first two are what the proof needs and the code takes.
- `NetworkProofs`, the joiner: after each poll the next is armed, and one that is
  due while the workqueue is held, or is between its two halves, is accounted for
  with the age of the joiner's state (`Polls`, `Readings`). As `PollFast + Hold <
  RetryPeriod` (the assumption `PollIsFrequent`) a receiver that an attempt left on
  is taken back before the next one (`Undone`), and a handshake older than `PollFast
  + Hold` has been polled. Hence `ScansUndisturbed` and `ListensInHandshake`.
  `RetriesGoOn`: as long as there is no dataset an attempt runs or is scheduled.
- `WebConsoleProofs`: the log ring for every size, every length of the lines and
  every number of them. A ring that holds lines is described by the offsets from the
  tail at which each begins (`Marks`, `Holds`); the loops of the code (dropping the
  oldest, walking the ring, filling the answer) are `Iterate`, about which the lemma
  `Loop` gives the rule of the loop invariant. `RingInvariant` says that the cells
  from the tail hold the lines of the log in order, numbered up to `next_seq`, across
  wrap-around, eviction of any number of lines and restart; with it `WebConsole`
  refines `LogTail` step by step (`RingKeepsNewestLines`). `PageInvariant` relates the
  page's cursor, an answer on its way and the lines shown (`Shown`, `Coming`,
  `Following`): hence `LinesShownOnce` and `CursorIsSafe`, although polls are aborted,
  answers come late and the device restarts under the page.
- `WebUiProofs`, a page: the position in the page says what has been sent of it, and
  a request that is given `/config` finds the position 0, as every end of a request,
  aborted ones and resets included, leaves it so (`Sending`). Hence `PagesAreWhole`,
  for every number of time zones and every size of a chunk.
- `WebUiProofs`, a form: `UiInv` follows it from the browser to NVS. What has come of
  a body and what is still to come make the form, as the buffer is empty when a
  request comes (`Receiving`); a page under way shows settings, in the end all of
  them (`Drawing`). A field before the place of the save is as intended, one behind
  it as when the save began (`Progress`); what RAM holds is in NVS, or in the records
  still to be written, or a coordinate that waits for `tinygs_config_save_location`
  (`Saving`). The same holds of main's list for a server command (`Serving`), and a
  command that meets a save has marked its fields in `crossed` (`Crossing`). Hence
  `FormInvariant` and `FormIsSaved`, for every set of fields with the five the
  assumption names, every edit, every cut of the body and every interleaving with
  server commands and resets. The hypothesis `FormFits` says that the buffer holds a
  form; of a longer body the code promises nothing (section 4).

- `FramingProofs`, the codes: both sides are loops (`Iterated`), and the lemma
  `Trace` is their rule: what every pass keeps holds at the end. With it each code
  of the satellite is given as a function of the bit's place, and each of the
  receiver is shown to undo it: the register of `bitcode_pn9` runs along the PN9
  sequence (`KeyIs`, `Pn9Undoes`); the CRC register, which takes a byte and shifts
  eight times, holds the next bits of the long division that the standard defines
  (`ByteIs`, `RegisterIs`), so that `CrcFailsIs` compares with the remainder in all
  four bit orders, and fails on an undamaged packet just where refout turns it
  round; NRZ-S from a wrong first level is right from the second bit on
  (`NrziUndoes`), the descrambler from the eighteenth (`DescrambledUndoes`).
- `FramingProofs`, a burst in a raw or PN9 packet: the difference of two divisions
  stays in a window of the CRC's width and does not vanish in it, because the
  polynomial ends in 1 (`WindowKept`, `RemaindersDiffer`). A burst has to lie in such
  a window in the order in which the CRC takes the bits, which with refin is not that
  on the air (`Place`). With refout the receiver does not compare with the CRC, so
  nothing is promised.
- `FramingProofs`, the unstuffer: `StuffedIs` gives every bit of a frame its place
  on the line, `LineCarries` puts noise, flags, stuffed frame and closing flag into
  it (`Layout`, `Carries`). Along this layout the unstuffer is in the noise, where
  it cannot have found enough for a frame (`InNoise`), at some bit of a flag
  (`InFlags`), which out of step it has entered in the middle (`InsideFlag`), behind
  the last flag (`Opened`) or that many bits far in the frame, with just these
  stored (`InFrame`). Out of step, where the flag's byte was dropped to its end, it
  only counts 1s that stand one behind the other (`Settled`), and neither a stuffed
  frame nor its end cut off holds six of them: it sees no flag. It leaves the last
  phase by the closing flag with the whole frame, or by the end of a line that was
  cut (`UnstuffEnds`). Hence `FramingInvariant`, `SentReceived`, `CutRejected` and
  `BurstCaught`; the invariant follows the packets in step and the damaged ones
  (`Covered`), and says of the others only how their CRC reads. `FramingAssumption`
  says what is sent: payloads of whole bytes, CRCs of 0 to 2 bytes with any odd
  polynomial, first register, final xor and bit orders; in HDLC framings frames of
  16 to 256 bytes that begin with a 0 bit, after flags at any bit of a byte and up
  to 112 bits of noise (with two flags less than a frame), long enough for the line
  code to settle. TLC evaluates it on the packets of `framing`; the invariant itself
  it does not check, since it quantifies over all layouts.

About induction: the library's induction theorems need an operator the provers
cannot instantiate, but well-foundedness of `<` on `Nat` is a first-order fact.
`InductionProofs` derives from it, by the least counterexample, that a set of
numbers closed under successor is `Nat` (`Induction`, `UpTo`) and that a function
defined step by step exists (`Recursion`); recursive *functions* can so be reasoned
about.

Only model-checked: all liveness, `GoesDark`, `EditsArrive`, `GetsAttached`,
`CommandsAreTaken` and `PageCatchesUp` among it (the prover does not handle
fairness or ENABLED).

## 7. Not modelled

Writes are assumed to succeed and to be whole: of settings, of the snapshot and of
config.json (`fs_write` may be short on a full drive). The erasing of a corrupt boot
sector and the formatting of an erased drive at the mount (src/main.cpp:2661-2690)
leave a drive without config.json, as `HostErases` does. The boot merge ignores what
`tinygs_config_save` returns and rewrites the file and the snapshot all the same
(src/main.cpp:2891-2945), so with a failing write an edit can be lost and a snapshot
be older than its file: `EditsAreMergedFirst` and `StaleFileNeverWins` are promises
for a working flash only. Torn 64-bit reads of the clock offset, the radio's
transmit path (`tx`, test packet) and the LEDs are left out. The 512-byte buffers of
`bitcode_nrz2ax25` are not modelled: the chip's packets of at most 255 bytes and a
sync word of at most 8 fit them. P13 is floating-point mathematics; its result is an
input. Time zones, fonts, map, board files, build and host scripts hold no state
worth a model. Zephyr, OpenThread, RadioLib and mbedTLS are external; the
assumptions about them are the actions marked external in PROJECT.json.
