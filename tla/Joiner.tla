------------------------------- MODULE Joiner --------------------------------
(***************************************************************************)
(* Joining the Thread network (src/main.cpp:1140-1424): the joiner and its *)
(* retries, and the poll that drives the 802.15.4 receiver past            *)
(* OpenThread, which leaves it off when idle.  Retry and poll are delayed  *)
(* work on the system workqueue, which runs one handler at a time; the     *)
(* joiner's callback runs on the OpenThread thread with the API mutex      *)
(* held, and may run between the poll's reading of the joiner under that   *)
(* mutex and the setting of the receiver after it (1242-1247).             *)
(*                                                                         *)
(* A delay counts down from the k_work_schedule that started it; a work    *)
(* item that is due runs before time passes, unless another job holds the  *)
(* workqueue.                                                              *)
(***************************************************************************)
EXTENDS Integers

CONSTANTS
    PollFast, PollSlow,         \* the receiver poll: joining, commissioned
    RetryPeriod, BusyPeriod,    \* JOINER_RETRY_PERIOD_S, and 15 s
    ScanTime,                   \* a discovery scan
    Hold,                       \* longest other job on the workqueue
    MaxReboots                  \* bound: resets

ASSUME JoinerConstants ==
    /\ {PollFast, PollSlow, RetryPeriod, BusyPeriod, ScanTime} \subseteq Nat \ {0}
    /\ Hold \in Nat /\ MaxReboots \in Nat

\* A poll runs in every scan, and between a failed attempt and its retry.
ASSUME PollIsFrequent == PollFast + Hold < RetryPeriod

VARIABLES
    up,         \* init_openthread() has run since the reset
    committed,  \* otDatasetIsCommissioned(): the dataset is in NVS
    enabled,    \* otThreadSetEnabled(inst, true)
    attached,   \* the role is child or better
    js,         \* otJoinerGetState()
    jsAge,      \* time in that state, up to a cap
    retryIn,    \* joiner_retry_work: time to go, or Idle
    pollIn,     \* joiner_rxon_poll_work: the same
    holding,    \* how long another job still holds the workqueue
    polling,    \* what a poll has read and not yet applied, or NoPoll
    applied,    \* joiner_rxon_applied
    driver,     \* rx_on_when_idle of the driver
    reboots

ot == <<committed, enabled, attached, js, jsAge>>
works == <<retryIn, pollIn, holding>>
rx == <<applied, driver>>
vars == <<up, ot, works, polling, rx, reboots>>

Idle == -1
NoPoll == [read |-> FALSE]
Connecting == {"CONNECT", "ENTRUST"}    \* CONNECT..CONNECTED, ENTRUST..JOINED
Heard == PollFast + Hold + 1            \* cap of jsAge

WorkqFree == up /\ polling = NoPoll /\ holding = 0

\* k_work_schedule() leaves an item that is already scheduled as it is.
Schedule(timer, delay) == IF timer = Idle THEN delay ELSE timer

-----------------------------------------------------------------------------
Init ==
    /\ up = FALSE
    /\ committed = FALSE /\ enabled = FALSE /\ attached = FALSE
    /\ js = "IDLE" /\ jsAge = 0
    /\ retryIn = Idle /\ pollIn = Idle /\ holding = 0
    /\ polling = NoPoll
    /\ applied = FALSE /\ driver = FALSE
    /\ reboots = 0

Enter(state) == js' = state /\ jsAge' = 0

ScanBegins ==
    /\ js = "IDLE"
    /\ Enter("DISCOVER")
    /\ driver' = FALSE
    /\ UNCHANGED <<committed, enabled, attached, holding, applied>>

\* Mutant: the receiver poll is not started with the joiner.
JoinerStarts_NoPoll ==
    /\ ScanBegins
    /\ retryIn' = Idle
    /\ UNCHANGED pollIn

\* otJoinerStart(): the scan hops channels with the receiver off.
JoinerStarts ==
    /\ ScanBegins
    /\ pollIn' = Schedule(pollIn, PollFast)
    /\ retryIn' = Idle

\* Mutant: only a first attempt is retried.
JoinerRefused_GivesUp ==
    /\ retryIn' = Idle
    /\ UNCHANGED <<ot, pollIn, holding, rx>>

\* otJoinerStart() fails: busy with an attempt, or for another reason.
JoinerRefused ==
    /\ retryIn' = IF js # "IDLE" THEN BusyPeriod ELSE RetryPeriod
    /\ UNCHANGED <<ot, pollIn, holding, rx>>

\* init_openthread(), on the main thread.
Boot ==
    /\ ~up
    /\ up' = TRUE
    /\ \/ /\ committed
          /\ enabled' = TRUE
          /\ pollIn' = Schedule(pollIn, PollFast)
          /\ UNCHANGED <<committed, attached, js, jsAge, retryIn, holding, rx>>
       \/ ~committed /\ JoinerStarts
       \/ ~committed /\ JoinerRefused
    /\ UNCHANGED <<polling, reboots>>

\* joiner_retry_handler.
Retry ==
    /\ WorkqFree /\ retryIn = 0
    /\ IF committed
       THEN /\ enabled' = TRUE
            /\ retryIn' = Idle
            /\ UNCHANGED <<committed, attached, js, jsAge, pollIn, holding, rx>>
       ELSE JoinerStarts \/ JoinerRefused
    /\ UNCHANGED <<up, polling, reboots>>

\* Mutant: the receiver is wanted in every state of the joiner.
PollWant_Always == TRUE
\* want_rxon: while connecting, and whenever operational.
PollWant == js \in Connecting \/ committed

\* joiner_rxon_poll_handler, with the API mutex.
PollRead ==
    /\ WorkqFree /\ pollIn = 0
    /\ polling' = [read |-> TRUE, want |-> PollWant,
                   committed |-> committed]
    /\ UNCHANGED <<up, ot, works, rx, reboots>>

\* Mutant: the joiner's state alone decides, as it once did.
Wants_JoinerOnly(poll) == poll.want /\ ~poll.committed
Wants(poll) == poll.want

\* Then without it: the receiver is set only when the wish has changed.
PollApply ==
    /\ polling # NoPoll
    /\ IF Wants(polling) # applied
       THEN driver' = Wants(polling) /\ applied' = Wants(polling)
       ELSE UNCHANGED rx
    /\ pollIn' = IF polling.committed THEN PollSlow ELSE PollFast
    /\ polling' = NoPoll
    /\ UNCHANGED <<up, ot, retryIn, holding, reboots>>

-----------------------------------------------------------------------------
\* joiner_callback with an error: wait, then try again.
CallbackFails ==
    /\ Enter("IDLE")
    /\ retryIn' = Schedule(retryIn, RetryPeriod)
    /\ UNCHANGED <<up, committed, enabled, attached, pollIn, holding, polling, rx, reboots>>

\* The scan finds no joiner router, or one that is open to us.
ScanFindsNothing == js = "DISCOVER" /\ jsAge >= ScanTime /\ CallbackFails

ScanFinds ==
    /\ js = "DISCOVER" /\ jsAge >= ScanTime
    /\ Enter("CONNECT")
    /\ UNCHANGED <<up, committed, enabled, attached, works, polling, rx, reboots>>

\* The DTLS handshake, the entrust message and any refusal come only to a
\* receiver that is on; the timeouts are longer than a few polls.
HandshakeEnds ==
    /\ js = "CONNECT" /\ driver
    /\ Enter("ENTRUST")
    /\ UNCHANGED <<up, committed, enabled, attached, works, polling, rx, reboots>>

AttemptFails ==
    /\ js \in Connecting /\ ~committed
    /\ driver \/ jsAge = Heard
    /\ CallbackFails

\* The JOIN_ENT handler saves the dataset.
DatasetSaved ==
    /\ js = "ENTRUST" /\ driver /\ ~committed
    /\ committed' = TRUE
    /\ UNCHANGED <<up, enabled, attached, js, jsAge, works, polling, rx, reboots>>

\* joiner_callback without an error.
CallbackSucceeds ==
    /\ js = "ENTRUST" /\ committed
    /\ Enter("IDLE")
    /\ enabled' = TRUE
    /\ UNCHANGED <<up, committed, attached, works, polling, rx, reboots>>

Attach ==
    /\ up /\ enabled /\ committed /\ driver /\ ~attached
    /\ attached' = TRUE
    /\ UNCHANGED <<up, committed, enabled, js, jsAge, works, polling, rx, reboots>>

ParentLost ==
    /\ attached
    /\ attached' = FALSE
    /\ UNCHANGED <<up, committed, enabled, js, jsAge, works, polling, rx, reboots>>

-----------------------------------------------------------------------------
\* Any other job on the workqueue.
OtherJob ==
    /\ WorkqFree /\ retryIn # 0 /\ pollIn # 0 /\ Hold > 0
    /\ holding' = Hold
    /\ UNCHANGED <<up, ot, retryIn, pollIn, polling, rx, reboots>>

CountDown(timer) == IF timer > 0 THEN timer - 1 ELSE timer

Tick ==
    /\ up /\ polling = NoPoll
    /\ holding > 0 \/ (retryIn # 0 /\ pollIn # 0)
    /\ jsAge' = IF jsAge < Heard THEN jsAge + 1 ELSE jsAge
    /\ retryIn' = CountDown(retryIn)
    /\ pollIn' = CountDown(pollIn)
    /\ holding' = CountDown(holding)
    /\ UNCHANGED <<up, committed, enabled, attached, js, polling, rx, reboots>>

\* A reset, with or without a wipe of the settings by the 1201 baud rate.
Reboot ==
    /\ up /\ reboots < MaxReboots
    /\ reboots' = reboots + 1
    /\ up' = FALSE
    /\ committed' \in {committed, FALSE}
    /\ enabled' = FALSE /\ attached' = FALSE
    /\ js' = "IDLE" /\ jsAge' = 0
    /\ retryIn' = Idle /\ pollIn' = Idle /\ holding' = 0
    /\ polling' = NoPoll
    /\ applied' = FALSE /\ driver' = FALSE

Next ==
    \/ Boot \/ Retry \/ PollRead \/ PollApply
    \/ ScanFindsNothing \/ ScanFinds \/ HandshakeEnds \/ AttemptFails
    \/ DatasetSaved \/ CallbackSucceeds \/ Attach \/ ParentLost
    \/ OtherJob \/ Tick \/ Reboot

\* The firmware's own steps are taken; a joiner that can start, find, connect
\* and attach again and again does so some time.
Fairness ==
    /\ WF_vars(Boot) /\ WF_vars(PollRead) /\ WF_vars(PollApply) /\ WF_vars(Tick)
    /\ WF_vars(Retry) /\ WF_vars(CallbackSucceeds)
    /\ SF_vars(Retry /\ js' = "DISCOVER") /\ SF_vars(ScanFinds) /\ SF_vars(HandshakeEnds)
    /\ SF_vars(DatasetSaved) /\ SF_vars(Attach)

Spec == Init /\ [][Next]_vars /\ Fairness

-----------------------------------------------------------------------------
TypeOK ==
    /\ {up, committed, enabled, attached, applied, driver} \subseteq BOOLEAN
    /\ js \in {"IDLE", "DISCOVER"} \cup Connecting
    /\ jsAge \in 0..Heard
    /\ retryIn \in Idle..(IF RetryPeriod > BusyPeriod THEN RetryPeriod ELSE BusyPeriod)
    /\ pollIn \in Idle..(IF PollFast > PollSlow THEN PollFast ELSE PollSlow)
    /\ holding \in 0..Hold
    /\ reboots \in 0..MaxReboots
    /\ retryIn # Idle => js = "IDLE"    \* one attempt at a time

\* "Retry indefinitely" (1145): as long as there is no dataset, an attempt runs
\* or the next one is scheduled; once there is, Thread is enabled or will be by
\* the callback.
RetryNeverLost ==
    up => /\ ~committed => js # "IDLE" \/ retryIn # Idle
          /\ committed => enabled \/ js = "ENTRUST"

\* The receiver is never forced on during a scan (1167-1170), although the poll
\* acts on what it has read before it gave the mutex back.
ScanUndisturbed == [][~driver /\ driver' => js # "DISCOVER"]_vars

\* "A fraction of a second into CONNECT" (1171-1173) the receiver is on, in the
\* first attempt and in every later one.
ListensInTime == js \in Connecting /\ jsAge > PollFast + Hold => driver

\* However many attempts fail and parents are lost, the station gets attached.
GetsAttached == []<>attached
=============================================================================
