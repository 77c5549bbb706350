------------------------------ MODULE Station -------------------------------
(***************************************************************************)
(* The station's main thread: the connection state machine of main()       *)
(* (src/main.cpp, 3891-4276) with the two watchdogs that guard it, the *)
(* MQTT silence reboot at the top of its loop and the hardware watchdog of *)
(* module Watchdog.                                                        *)
(*                                                                         *)
(* The main thread is sequential; it is cut at the calls that block.       *)
(* "block" bounds what is left of the call main is in, and time passes     *)
(* only while it is positive, so how long main may go without a bump is a  *)
(* consequence of the calls it makes, not an assumption.                   *)
(***************************************************************************)
EXTENDS Watchdog

CONSTANTS
    SilenceTimeout, \* MQTT_SILENCE_TIMEOUT_MS
    ForcePing,      \* MQTT_FORCE_PING_INTERVAL_MS
    UnackedMax,     \* TINYGS_MQTT_UNACKED_PING_MAX
    DnsRetries,     \* retry_count limit of STATE_DNS_RESOLVE
    TlsContexts,    \* CONFIG_NET_SOCKETS_TLS_MAX_CONTEXTS
    AbortsHandshake,\* mqtt_disconnect() closes a socket that never got its CONNACK
    WaitPoll,       \* k_msleep(10000) of STATE_WAIT_THREAD
    Settle,         \* k_msleep(5000) once attached
    DnsWait,        \* dns_mutex held by a resync, then dns_sem: 15 s each
    DnsPause,       \* k_msleep(5000) between two attempts
    SntpWait,       \* resolution of the time server and sntp_sem
    TlsWait,        \* TCP connect and TLS handshake
    ConnackWait,    \* wait_ms of STATE_MQTT_CONNECT
    IterWork,       \* broker commands, or the rest of one CONNECTED iteration
    ErrorPause,     \* k_msleep(30000) of STATE_ERROR
    RebootPause,    \* the k_msleep() before a sys_reboot() on the main thread
    SleepMax        \* the longest accepted sleep/siesta command

ASSUME StationConstants ==
    /\ SilenceTimeout \in Nat /\ ForcePing \in Nat \ {0}
    /\ UnackedMax \in Nat \ {0} /\ TlsContexts \in Nat \ {0}
    /\ DnsRetries \in Nat
    /\ AbortsHandshake \in BOOLEAN

ASSUME WaitConstants ==
    /\ WaitPoll \in Nat /\ Settle \in Nat /\ DnsWait \in Nat /\ DnsPause \in Nat
    /\ SntpWait \in Nat /\ TlsWait \in Nat /\ ConnackWait \in Nat
    /\ IterWork \in Nat /\ ErrorPause \in Nat /\ RebootPause \in Nat
    /\ SleepMax \in Nat

\* The blocking calls between two bumps of main_alive_uptime_ms add up to
\* less than the feeder's limit; a sleep command alone may exceed it.
ASSUME ChainsFitFreshness ==
    /\ WaitPoll <= MainFreshness /\ Settle <= MainFreshness
    /\ ErrorPause <= MainFreshness
    /\ DnsWait + DnsPause <= MainFreshness
    /\ DnsWait + SntpWait <= MainFreshness
    /\ TlsWait + ConnackWait + IterWork <= MainFreshness
    /\ 2 * IterWork + RebootPause <= MainFreshness
    /\ MainFreshness <= MaxBlock
    /\ SleepMax <= MaxBlock

VARIABLES
    app_state,    \* enum app_state
    pc,           \* the blocking call main is in, or the point it has reached
    block,        \* bound on the rest of that call
    attached,     \* thread_attached, written by the OpenThread callback
    retry,        \* retry_count, up to DnsRetries + 1
    sess,         \* the socket of mqtt_client: none, tcp (no CONNACK yet), up
    leaked,       \* sockets left open by an earlier mqtt_client
    unacked,      \* mqtt_client.unacked_ping
    pingAge,      \* now - last_force_ping_ms
    silence,      \* now - mqtt_last_activity_ms
    timeSynced,   \* time_synced
    sntp          \* none | asked | done (sntp_done_this_boot)

mainVars == <<app_state, pc, block, attached, retry, sess, leaked, unacked,
              pingAge, silence, timeSynced, sntp>>
vars == <<wdVars, mainVars>>

AppStates == {"WAIT_THREAD", "DNS_RESOLVE", "MQTT_CONNECT", "MQTT_CONNECTED", "ERROR"}
Points == {"top", "settle", "dns", "sntp", "tls", "connack", "poll", "live",
           "ping", "rest", "err", "sleep", "reboot"}

TypeOK ==
    /\ WdTypeOK
    /\ app_state \in AppStates
    /\ pc \in Points
    /\ block \in Nat
    /\ attached \in BOOLEAN
    /\ retry \in 0..(DnsRetries + 1)
    /\ sess \in {"none", "tcp", "up"}
    /\ leaked \in 0..TlsContexts
    /\ unacked \in Nat
    /\ pingAge \in Nat
    /\ silence \in Nat
    /\ timeSynced \in BOOLEAN
    /\ sntp \in {"none", "asked", "done"}

\* __noinit memory may restore the clock (epoch_persist_restore).
Init ==
    /\ WdInit
    /\ app_state = "WAIT_THREAD"
    /\ pc = "top"
    /\ block = 0
    /\ attached = FALSE
    /\ retry = 0
    /\ sess = "none"
    /\ leaked = 0
    /\ unacked = 0
    /\ pingAge = 0
    /\ silence = 0
    /\ timeSynced \in BOOLEAN
    /\ sntp = "none"

-----------------------------------------------------------------------------
(***************************************************************************)
(* Helpers.                                                                *)
(***************************************************************************)

\* Main has reached point p and the call that led there has returned.
At(p) == ~expired /\ pc = p /\ block = 0

\* Main goes on to point p, at most d units from now.
GoTo(p, d) == pc' = p /\ block' \in 0..d

(***************************************************************************)
(* mqtt_disconnect(&mqtt_client, NULL): it closes a session the broker has *)
(* acknowledged.  Before that the library may refuse the call, and the     *)
(* socket outlives mqtt_client, which the next connect initialises anew.   *)
(***************************************************************************)
Disconnect ==
    /\ sess' = "none"
    /\ leaked' = IF sess = "tcp" /\ ~AbortsHandshake THEN leaked + 1 ELSE leaked

\* A send or a receive failed inside the library, which closed the socket.
ClosedByLibrary == sess' = "none" /\ UNCHANGED leaked

NoIO == UNCHANGED <<sess, leaked>>
OnlyMain == UNCHANGED <<wdVars, attached>>

-----------------------------------------------------------------------------
(***************************************************************************)
(* Top of the outer loop: bump the mark, pause the silence timer while     *)
(* detached, reboot when it has run out, else dispatch on app_state.       *)
(***************************************************************************)
\* Mutant: the pause applies while attached, too.
SilenceAtTop_Paused == 0

SilenceAtTop == IF attached THEN silence ELSE 0

\* Mutant: the check sits in the CONNECTED loop, as it once did.
SilenceOver_Connected ==
    SilenceAtTop > SilenceTimeout /\ app_state = "MQTT_CONNECTED"

SilenceOver == SilenceAtTop > SilenceTimeout

SilenceReboot ==
    /\ At("top")
    /\ SilenceOver
    /\ MainBump
    /\ GoTo("reboot", RebootPause)
    /\ UNCHANGED <<app_state, attached, retry, sess, leaked, unacked, pingAge,
                   silence, timeSynced, sntp>>

Dispatch(s) ==
    /\ At("top")
    /\ app_state = s
    /\ ~SilenceOver
    /\ silence' = SilenceAtTop
    /\ MainBump
    /\ UNCHANGED <<attached, timeSynced>>

\* STATE_WAIT_THREAD, not attached: log and poll again in 10 s.
WaitThread ==
    /\ Dispatch("WAIT_THREAD")
    /\ ~attached
    /\ retry' = IF retry > DnsRetries THEN retry ELSE retry + 1
    /\ GoTo("top", WaitPoll)
    /\ UNCHANGED <<app_state, sess, leaked, unacked, pingAge, sntp>>

\* STATE_WAIT_THREAD, attached: let routing settle, then resolve.
WaitAttached ==
    /\ Dispatch("WAIT_THREAD")
    /\ attached
    /\ GoTo("settle", Settle)
    /\ UNCHANGED <<app_state, retry, sess, leaked, unacked, pingAge, sntp>>

Settled ==
    /\ At("settle")
    /\ app_state' = "DNS_RESOLVE"
    /\ retry' = 0
    /\ GoTo("top", 0)
    /\ OnlyMain /\ NoIO
    /\ UNCHANGED <<unacked, pingAge, silence, timeSynced, sntp>>

-----------------------------------------------------------------------------
\* STATE_DNS_RESOLVE: resolve_broker() blocks on dns_mutex and dns_sem.
DnsStart ==
    /\ Dispatch("DNS_RESOLVE")
    /\ GoTo("dns", DnsWait)
    /\ UNCHANGED <<app_state, retry, sess, leaked, unacked, pingAge, sntp>>

\* Resolved: sntp_sync() unless it has answered in this boot.
DnsOk ==
    /\ At("dns")
    /\ IF sntp = "done"
         THEN app_state' = "MQTT_CONNECT" /\ GoTo("top", 0) /\ UNCHANGED sntp
         ELSE sntp' = "asked" /\ GoTo("sntp", SntpWait) /\ UNCHANGED app_state
    /\ OnlyMain /\ NoIO
    /\ UNCHANGED <<retry, unacked, pingAge, silence, timeSynced>>

DnsFail ==
    /\ At("dns")
    /\ retry' = retry + 1
    /\ IF retry' > DnsRetries
         THEN app_state' = "ERROR" /\ GoTo("top", 0)
         ELSE GoTo("top", DnsPause) /\ UNCHANGED app_state
    /\ OnlyMain /\ NoIO
    /\ UNCHANGED <<unacked, pingAge, silence, timeSynced, sntp>>

\* sntp_response_handler, on the OpenThread thread; it may come after
\* sntp_sync() has given up waiting.
SntpAnswer ==
    /\ ~expired
    /\ sntp = "asked"
    /\ sntp' = "done"
    /\ timeSynced' = TRUE
    /\ block' = IF pc = "sntp" THEN 0 ELSE block
    /\ OnlyMain /\ NoIO
    /\ UNCHANGED <<app_state, pc, retry, unacked, pingAge, silence>>

\* Mutant: sntp_sync() asks again until it is answered.
SntpReturns_Insists ==
    /\ At("sntp")
    /\ IF sntp = "done"
         THEN app_state' = "MQTT_CONNECT" /\ GoTo("top", 0)
         ELSE GoTo("sntp", SntpWait) /\ UNCHANGED app_state
    /\ OnlyMain /\ NoIO
    /\ UNCHANGED <<retry, unacked, pingAge, silence, timeSynced, sntp>>

\* sntp_sync() returns, with or without an answer.
SntpReturns ==
    /\ At("sntp")
    /\ app_state' = "MQTT_CONNECT"
    /\ GoTo("top", 0)
    /\ OnlyMain /\ NoIO
    /\ UNCHANGED <<retry, unacked, pingAge, silence, timeSynced, sntp>>

-----------------------------------------------------------------------------
\* STATE_MQTT_CONNECT: mqtt_tls_connect() wipes mqtt_client and handshakes.
TlsStart ==
    /\ Dispatch("MQTT_CONNECT")
    /\ unacked' = 0
    /\ leaked' = IF sess = "none" THEN leaked ELSE leaked + 1
    /\ sess' = "none"
    /\ GoTo("tls", TlsWait)
    /\ UNCHANGED <<app_state, retry, pingAge, sntp>>

\* The certificate's validity check needs a clock, the socket a context.
TlsOk ==
    /\ At("tls")
    /\ timeSynced
    /\ leaked < TlsContexts
    /\ sess' = "tcp"
    /\ GoTo("connack", ConnackWait)
    /\ OnlyMain
    /\ UNCHANGED <<app_state, retry, leaked, unacked, pingAge, silence, timeSynced, sntp>>

TlsFail ==
    /\ At("tls")
    /\ app_state' = "ERROR"
    /\ GoTo("top", 0)
    /\ OnlyMain /\ NoIO
    /\ UNCHANGED <<retry, unacked, pingAge, silence, timeSynced, sntp>>

(***************************************************************************)
(* MQTT_EVT_CONNACK with result 0.  tinygs_subscribe() and the welcome are *)
(* sent from the handler; if a send fails the library closes the socket    *)
(* and nests MQTT_EVT_DISCONNECT, whose STATE_ERROR the handler then       *)
(* overwrites.                                                             *)
(***************************************************************************)
ConnackOk(lost) ==
    /\ At("connack")
    /\ silence' = 0
    /\ app_state' = "MQTT_CONNECTED"
    /\ sess' = IF lost THEN "none" ELSE "up"
    /\ GoTo("top", IterWork)
    /\ OnlyMain
    /\ UNCHANGED <<leaked, retry, unacked, pingAge, timeSynced, sntp>>

\* CONNACK refused, or mqtt_input() failed: the library has closed the socket.
ConnackRefused ==
    /\ At("connack")
    /\ app_state' = "ERROR"
    /\ ClosedByLibrary
    /\ GoTo("top", 0)
    /\ OnlyMain
    /\ UNCHANGED <<retry, unacked, pingAge, silence, timeSynced, sntp>>

\* No CONNACK in 15 s, or zsock_poll() failed: mqtt_disconnect().
ConnackTimeout ==
    /\ At("connack")
    /\ app_state' = "ERROR"
    /\ Disconnect
    /\ GoTo("top", 0)
    /\ OnlyMain
    /\ UNCHANGED <<retry, unacked, pingAge, silence, timeSynced, sntp>>

-----------------------------------------------------------------------------
(***************************************************************************)
(* STATE_MQTT_CONNECTED.  The dispatch enters the inner loop; each of its  *)
(* iterations bumps the mark, polls the socket, calls mqtt_live(), drives  *)
(* the forced PINGREQ and then does the rest (LoRa, display, Doppler,      *)
(* publishes, web requests, 100 ms sleep).                                 *)
(***************************************************************************)
EnterConnected ==
    /\ Dispatch("MQTT_CONNECTED")
    /\ pingAge' = 0
    /\ GoTo("poll", 0)
    /\ UNCHANGED <<app_state, retry, sess, leaked, unacked, sntp>>

\* Mutant: main_alive_uptime_ms is bumped by the outer loop only.
Poll_NoBump ==
    /\ At("poll")
    /\ UNCHANGED <<wdVars, attached, retry, pingAge, timeSynced, sntp>>

\* Head of an iteration, up to the return of zsock_poll().
Poll ==
    /\ At("poll")
    /\ MainBump
    /\ UNCHANGED <<attached, retry, pingAge, timeSynced, sntp>>

PollIdle ==
    /\ Poll
    /\ sess = "up"
    /\ GoTo("live", 0)
    /\ NoIO
    /\ UNCHANGED <<app_state, unacked, silence>>

\* MQTT_EVT_PINGRESP.
PollPingresp ==
    /\ Poll
    /\ sess = "up"
    /\ unacked > 0
    /\ unacked' = unacked - 1
    /\ silence' = 0
    /\ GoTo("live", 0)
    /\ NoIO
    /\ UNCHANGED app_state

(***************************************************************************)
(* MQTT_EVT_PUBLISH: a command that stays on the air.  Its handler may     *)
(* publish; a send that fails nests MQTT_EVT_DISCONNECT, and the iteration *)
(* goes on in STATE_ERROR.                                                 *)
(***************************************************************************)
PollCommand(lost) ==
    /\ Poll
    /\ sess = "up"
    /\ silence' = 0
    /\ IF lost
         THEN app_state' = "ERROR" /\ ClosedByLibrary
         ELSE NoIO /\ UNCHANGED app_state
    /\ GoTo("live", IterWork)
    /\ UNCHANGED unacked

\* MQTT_EVT_PUBLISH reset, which disconnects, or set_name, which does not:
\* the handler does not return.
PollReset ==
    /\ Poll
    /\ sess = "up"
    /\ silence' = 0
    /\ \/ Disconnect /\ app_state' = "ERROR"
       \/ NoIO /\ UNCHANGED app_state
    /\ GoTo("reboot", RebootPause)
    /\ UNCHANGED unacked

\* MQTT_EVT_PUBLISH sleep or siesta: k_sleep() in the handler, then reboot.
PollSleep(secs) ==
    /\ Poll
    /\ sess = "up"
    /\ silence' = 0
    /\ Disconnect
    /\ app_state' = "ERROR"
    /\ pc' = "sleep"
    /\ block' = secs
    /\ UNCHANGED unacked

\* zsock_poll() or mqtt_input() failed, as they do on a closed socket.
PollDead ==
    /\ Poll
    /\ Disconnect
    /\ app_state' = "MQTT_CONNECT"
    /\ GoTo("top", 0)
    /\ UNCHANGED <<unacked, silence>>

\* mqtt_live(): nothing is due, since the forced pings come more often.
Live ==
    /\ At("live")
    /\ GoTo("ping", 0)
    /\ OnlyMain /\ NoIO
    /\ UNCHANGED <<app_state, retry, unacked, pingAge, silence, timeSynced, sntp>>

\* Mutant: the error path reconnects without disconnecting.
LiveError_KeepsSocket ==
    /\ At("live")
    /\ app_state' = "MQTT_CONNECT"
    /\ GoTo("top", 0)
    /\ OnlyMain /\ NoIO
    /\ UNCHANGED <<retry, unacked, pingAge, silence, timeSynced, sntp>>

LiveError ==
    /\ At("live")
    /\ Disconnect
    /\ app_state' = "MQTT_CONNECT"
    /\ GoTo("top", 0)
    /\ OnlyMain
    /\ UNCHANGED <<retry, unacked, pingAge, silence, timeSynced, sntp>>

(***************************************************************************)
(* The forced PINGREQ, timed by main_alive_uptime_ms: the head of this     *)
(* iteration, mainAge ago.  Then the reconnect on unacknowledged pings.    *)
(***************************************************************************)
PingDue == pingAge >= ForcePing + mainAge

\* Mutant: unacknowledged pings are only counted.
AfterPing_NoLimit == NoIO /\ GoTo("rest", IterWork) /\ UNCHANGED app_state

AfterPing ==
    IF unacked' >= UnackedMax
      THEN Disconnect /\ app_state' = "MQTT_CONNECT" /\ GoTo("top", 0)
      ELSE NoIO /\ GoTo("rest", IterWork) /\ UNCHANGED app_state

Ping ==
    /\ At("ping")
    /\ IF PingDue /\ sess = "up"
         THEN unacked' = unacked + 1 /\ pingAge' = mainAge
         ELSE UNCHANGED <<unacked, pingAge>>
    /\ AfterPing
    /\ OnlyMain
    /\ UNCHANGED <<retry, silence, timeSynced, sntp>>

\* Mutant: MQTT_EVT_DISCONNECT is logged and does not change the state.
PingLost_Ignored ==
    /\ At("ping")
    /\ PingDue /\ sess = "up"
    /\ ClosedByLibrary
    /\ GoTo("rest", IterWork)
    /\ OnlyMain
    /\ UNCHANGED <<app_state, retry, unacked, pingAge, silence, timeSynced, sntp>>

\* mqtt_ping() could not be sent: MQTT_EVT_DISCONNECT, and the iteration goes on.
PingLost ==
    /\ At("ping")
    /\ PingDue /\ sess = "up"
    /\ app_state' = "ERROR"
    /\ ClosedByLibrary
    /\ GoTo("rest", IterWork)
    /\ OnlyMain
    /\ UNCHANGED <<retry, unacked, pingAge, silence, timeSynced, sntp>>

\* while (app_state == STATE_MQTT_CONNECTED)
NextIteration == pc' = IF app_state' = "MQTT_CONNECTED" THEN "poll" ELSE "top"

\* End of the iteration; one of its publishes may have closed the session.
Rest(lost) ==
    /\ At("rest")
    /\ IF lost /\ sess = "up"
         THEN app_state' = "ERROR" /\ ClosedByLibrary
         ELSE NoIO /\ UNCHANGED app_state
    /\ NextIteration
    /\ block' = 0
    /\ OnlyMain
    /\ UNCHANGED <<retry, unacked, pingAge, silence, timeSynced, sntp>>

\* web_ui_pop_reboot_request()
WebReboot ==
    /\ At("rest")
    /\ GoTo("reboot", RebootPause)
    /\ OnlyMain /\ NoIO
    /\ UNCHANGED <<app_state, retry, unacked, pingAge, silence, timeSynced, sntp>>

-----------------------------------------------------------------------------
\* STATE_ERROR: 30 s, then back to resolving, or to waiting for the mesh.
ErrorStart ==
    /\ Dispatch("ERROR")
    /\ pc' = "err"
    /\ block' = ErrorPause
    /\ UNCHANGED <<app_state, retry, sess, leaked, unacked, pingAge, sntp>>

ErrorDone ==
    /\ At("err")
    /\ app_state' = IF attached THEN "DNS_RESOLVE" ELSE "WAIT_THREAD"
    /\ retry' = 0
    /\ GoTo("top", 0)
    /\ OnlyMain /\ NoIO
    /\ UNCHANGED <<unacked, pingAge, silence, timeSynced, sntp>>

-----------------------------------------------------------------------------
(***************************************************************************)
(* What is not the main thread.                                            *)
(***************************************************************************)

\* A cold boot, after sys_reboot() or a watchdog reset.
Boot ==
    /\ WdReboot
    /\ app_state' = "WAIT_THREAD" /\ pc' = "top" /\ block' = 0
    /\ attached' = FALSE
    /\ retry' = 0 /\ sess' = "none" /\ leaked' = 0
    /\ unacked' = 0 /\ pingAge' = 0 /\ silence' = 0
    /\ timeSynced' \in BOOLEAN
    /\ sntp' = "none"

\* Main's own sys_reboot(), at the end of its pause or of the sleep command.
MainReboot == (At("reboot") \/ At("sleep")) /\ Boot

\* The hardware's reset.
WatchdogReset == expired /\ Boot

\* sys_reboot() from the system workqueue: touch baud, USB, POST /restart.
WorkqReboot == ~expired /\ Boot

\* ot_state_changed_handler: the device's role changed.
OtRoleChange ==
    /\ ~expired
    /\ attached' = ~attached
    /\ UNCHANGED <<wdVars, app_state, pc, block, retry, sess, leaked, unacked,
                   pingAge, silence, timeSynced, sntp>>

\* Time passes for everyone while main is inside a blocking call.
Tick ==
    /\ ClockTick
    /\ block > 0
    /\ block' = block - 1
    /\ silence' = silence + 1
    /\ pingAge' = IF app_state = "MQTT_CONNECTED" THEN pingAge + 1 ELSE 0
    /\ UNCHANGED <<app_state, pc, attached, retry, sess, leaked, unacked,
                   timeSynced, sntp>>

\* The feeder, the rest of the system workqueue and the hardware.
Background ==
    /\ \/ FeederRun
       \/ \E d \in 1..WorkqHold : WorkqJob(d)
       \/ WorkqJobEnds
       \/ WdExpire
    /\ UNCHANGED mainVars

MainStep ==
    \/ SilenceReboot
    \/ WaitThread \/ WaitAttached \/ Settled
    \/ DnsStart \/ DnsOk \/ DnsFail \/ SntpReturns
    \/ TlsStart \/ TlsOk \/ TlsFail
    \/ \E lost \in BOOLEAN : ConnackOk(lost)
    \/ ConnackRefused \/ ConnackTimeout
    \/ EnterConnected
    \/ PollIdle \/ PollPingresp \/ PollReset \/ PollDead
    \/ \E lost \in BOOLEAN : PollCommand(lost)
    \/ \E secs \in 1..SleepMax : PollSleep(secs)
    \/ Live \/ LiveError \/ Ping \/ PingLost
    \/ \E lost \in BOOLEAN : Rest(lost)
    \/ WebReboot
    \/ ErrorStart \/ ErrorDone
    \/ MainReboot

Next ==
    \/ MainStep
    \/ SntpAnswer \/ WorkqReboot \/ WatchdogReset \/ OtRoleChange
    \/ Tick \/ Background

Spec == Init /\ [][Next]_vars

(***************************************************************************)
(* The scheduler runs main, the workqueue and the hardware; a handshake    *)
(* that can succeed again and again, and a CONNACK that can arrive again   *)
(* and again, eventually do.                                               *)
(***************************************************************************)
FairSpec ==
    /\ Spec
    /\ WF_vars(MainStep) /\ WF_vars(WatchdogReset)
    /\ WF_vars(Tick)
    /\ WF_vars((FeederRun \/ WdExpire) /\ UNCHANGED mainVars)
    /\ SF_vars(TlsOk) /\ SF_vars(ConnackOk(FALSE))

-----------------------------------------------------------------------------
(***************************************************************************)
(* Properties.                                                             *)
(***************************************************************************)

(* Between two bumps of its mark main stays within what the feeder accepts *)
(* (main.cpp:642-643), whatever chain of blocking calls it makes, except   *)
(* for a commanded sleep.                                                  *)
MainWithinFreshness ==
    pc # "sleep" => mainAge + block <= MainFreshness

(* The watchdog resets the station only while it sleeps on command: in     *)
(* every other state, blocked on DNS, SNTP, TLS or the error pause, the    *)
(* feeder keeps it fed (the comment at main.cpp:632-641).                  *)
WatchdogSparesMain == expired => pc = "sleep"

(* The comment at main.cpp:236-258: broker silence never outlasts the      *)
(* limit by more than one trip around the outer loop, in any state.        *)
SilenceBounded ==
    pc \notin {"sleep", "reboot"} => silence <= SilenceTimeout + MainFreshness

(* "normally catches broker silence in ~120 s" (main.cpp:3907-3912): the   *)
(* inner loop, which does not check the silence limit, is left after       *)
(* UnackedMax forced pings without an answer.                              *)
SilentBrokerIsLeft ==
    app_state = "MQTT_CONNECTED" =>
        silence <= UnackedMax * (ForcePing + 2 * IterWork) + 2 * IterWork

(* A session lost inside an event handler is never served: past its poll,  *)
(* an iteration that still runs as CONNECTED has a live socket             *)
(* (main.cpp:1643-1677 sets the state from nested events).                 *)
DeadSessionIsLeft ==
    pc \in {"live", "ping", "rest"} /\ app_state = "MQTT_CONNECTED" => sess = "up"

(* No path through the state machine connects anew over an open socket     *)
(* (mqtt_client_init at main.cpp:2316 would lose it).                      *)
NoSocketLeak == leaked = 0

(* Once the mesh stays up, nobody reboots the station and its resolver and *)
(* time server answer, it gets connected again and again.                  *)
NetworkHeals ==
    /\ <>[]attached
    /\ <>[][~WorkqReboot /\ ~DnsFail /\ ~(SntpReturns /\ sntp # "done")]_vars

Reconnects == NetworkHeals => []<>(app_state = "MQTT_CONNECTED")
=============================================================================
