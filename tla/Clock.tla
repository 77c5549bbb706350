-------------------------------- MODULE Clock --------------------------------
(***************************************************************************)
(* The station's UTC clock (src/main.cpp, "SNTP Time Sync"): an offset     *)
(* added to the uptime, set by SNTP answers and, after a warm reboot, from *)
(* two words of __noinit RAM that the system workqueue saves now and then. *)
(* The uptime drifts against real time, the answer to a query may come     *)
(* after its asker has given up, and a reset may fall between any two      *)
(* steps, the two stores of a save included.  now is real time, which only *)
(* properties and SNTP servers see.                                        *)
(***************************************************************************)
EXTENDS Integers

CONSTANTS
    SaveInterval,   \* EPOCH_PERSIST_INTERVAL
    BootTime,       \* longest time from a reset to epoch_persist_restore()
    Hold,           \* longest sntp_sync() on the system workqueue
    Latency,        \* longest way of an SNTP answer, with the truncation to seconds
    DriftPeriod,    \* the RTC gains or loses at most one unit in so many (250 ppm)
    Word,           \* what the low word of the saved epoch counts to (2^32 ms)
    Start, MaxTime, \* the stretch of real time that is explored
    MaxReboots,     \* bound on the warm reboots between two saves of a right clock
    MaxQueries      \* bound on the queries OpenThread has not yet answered

ASSUME ClockConstants ==
    /\ SaveInterval \in Nat \ {0} /\ BootTime \in Nat /\ Hold \in Nat
    /\ Latency \in Nat /\ DriftPeriod \in Nat \ {0} /\ Word \in Nat \ {0}
    /\ Start \in Nat \ {0} /\ MaxTime \in Nat
    /\ MaxReboots \in Nat /\ MaxQueries \in Nat

\* An SNTP answer is on its way for less than a save interval (OpenThread drops a
\* query after seconds, saves are a minute apart), and nobody's time is before the
\* epoch.
ASSUME LatencyIsShort == Latency <= SaveInterval /\ Latency <= Start

VARIABLES
    now,            \* real time
    steady,         \* time since the RTC last gained or lost a unit, up to DriftPeriod
    up,             \* k_uptime_get(); -1 before epoch_persist_restore()
    down,           \* uptime since the reset, while up = -1
    offset,         \* sntp_epoch_offset_ms
    synced,         \* time_synced
    doneThisBoot,   \* sntp_done_this_boot
    magic, lo, hi,  \* the __noinit words
    half,           \* the save has stored lo and not yet hi: the epoch it saves, or -1
    sinceSave,      \* uptime since epoch_persist_work ran or was first scheduled
    resync,         \* sntp_resync_work is scheduled
    asking,         \* threads inside sntp_sync() ("main", "workq")
    waiting,        \* those of them that have sent their query: in k_sem_take()
    sem,            \* sntp_sem
    queries,        \* queries that OpenThread has not yet answered
    held,           \* how long "workq" has been inside
    lost,           \* history: when SNTP last set the clock, the warm reboots it has
                    \* been through since, and turns of the low word that torn saves
                    \* lost (or, below 0, gained)
    savedLost,      \* history: the same for the saved words, and the clock of a boot
    runaway         \* history: an answer may have put the clock back behind the next
                    \* save

sntpVars == <<resync, asking, waiting, sem, queries, held>>
bootVars == <<up, down, offset, synced, doneThisBoot, sinceSave, sntpVars>>
noinit == <<magic, lo, hi>>
history == <<lost, savedLost, runaway>>
clockVars == <<now, steady, bootVars, noinit, half, history>>

Saved == hi * Word + lo
Clock == up + offset
Running == up >= 0
Stored == magic \/ half # -1

Losses == [set : Nat, reboots : Nat, torn : Int]

ClockTypeOK ==
    /\ now \in Nat /\ steady \in 0..DriftPeriod
    /\ up \in Nat \union {-1} /\ down \in Nat /\ offset \in Int
    /\ synced \in BOOLEAN /\ doneThisBoot \in BOOLEAN
    /\ magic \in BOOLEAN /\ lo \in 0..(Word - 1) /\ hi \in Nat
    /\ half \in Nat \union {-1}
    /\ sinceSave \in 0..(SaveInterval + Hold)
    /\ resync \in BOOLEAN
    /\ waiting \subseteq asking /\ asking \subseteq {"main", "workq"}
    /\ sem \in 0..1 /\ queries \in Nat /\ held \in 0..Hold
    /\ lost \in Losses /\ savedLost \in Losses /\ runaway \in BOOLEAN

\* A clock that is set at time t has lost nothing, nor has one that was never set.
NoLoss(t) == [set |-> t, reboots |-> 0, torn |-> 0]

\* How far the uptime gets from real time in a real time of length a.
Drift(a) == 1 + a \div DriftPeriod

\* Power-on: the __noinit words are noise, which the magic number tells.
ClockInit ==
    /\ now = Start /\ steady = DriftPeriod
    /\ up = -1 /\ down = 0 /\ offset = 0
    /\ synced = FALSE /\ doneThisBoot = FALSE
    /\ magic = FALSE /\ lo = 0 /\ hi = 0
    /\ half = -1 /\ sinceSave = 0
    /\ resync = FALSE /\ asking = {} /\ waiting = {}
    /\ sem = 0 /\ queries = 0 /\ held = 0
    /\ lost = NoLoss(0) /\ savedLost = NoLoss(0) /\ runaway = FALSE

-----------------------------------------------------------------------------
SaveDue == sinceSave >= SaveInterval

\* A boot takes at most BootTime, the workqueue runs a due save unless the resync
\* holds it, the resync ends within Hold, and a save takes no time.
TimeMayPass ==
    /\ half = -1
    /\ Running /\ SaveDue => "workq" \in asking
    /\ Running /\ "workq" \in asking => held < Hold
    /\ ~Running => down < BootTime

RealTimePasses == now < MaxTime /\ now' = now + 1

\* The RTC counts one unit, and with it every timer of the kernel.
UptimePasses ==
    /\ IF Running
       THEN /\ up' = up + 1
            /\ sinceSave' = sinceSave + 1
            /\ held' = IF "workq" \in asking THEN held + 1 ELSE 0
            /\ UNCHANGED down
       ELSE /\ down' = down + 1
            /\ UNCHANGED <<up, sinceSave, held>>
    /\ UNCHANGED <<offset, synced, doneThisBoot, resync, asking, waiting, sem, queries>>

Tick ==
    /\ TimeMayPass
    /\ RealTimePasses /\ UptimePasses
    /\ steady' = IF steady < DriftPeriod THEN steady + 1 ELSE steady
    /\ UNCHANGED <<noinit, half, history>>

\* The RTC is an RC oscillator (main.cpp:3135-3138): now and then it misses a unit
\* of real time, or counts one that has not passed.
Slip ==
    /\ TimeMayPass
    /\ steady = DriftPeriod
    /\ steady' = 0
    /\ \/ RealTimePasses /\ UNCHANGED bootVars
       \/ UptimePasses /\ UNCHANGED now
    /\ UNCHANGED <<noinit, half, history>>

\* epoch_persist_restore(): the offset is relative to this boot's uptime.
Restore ==
    /\ ~Running
    /\ up' = down /\ down' = 0
    /\ IF magic /\ Saved > 0
       THEN offset' = Saved - down /\ synced' = TRUE
       ELSE UNCHANGED <<offset, synced>>
    /\ sinceSave' = 0
    /\ UNCHANGED <<now, steady, doneThisBoot, sntpVars, noinit, half, history>>

\* Turns of the low word since the saved high word was stored: what a save of c
\* loses if it is torn.
Turns(c) == c \div Word - hi

\* Mutant: the high word is stored first.
SaveFirst_High ==
    /\ hi' = Clock \div Word
    /\ UNCHANGED lo

\* The first store of a save.
SaveFirst ==
    /\ lo' = Clock % Word
    /\ UNCHANGED hi

(***************************************************************************)
(* epoch_persist_save(), in two steps: a reset may come after the first    *)
(* store, and so may an SNTP answer, on OpenThread's thread.  The next     *)
(* save is rescheduled at the end; as no time passes until then, it counts *)
(* from here.                                                              *)
(***************************************************************************)
SaveBegins ==
    /\ Running /\ SaveDue /\ "workq" \notin asking /\ half = -1
    /\ IF synced
       THEN /\ SaveFirst
            /\ half' = Clock
            /\ savedLost' = [lost EXCEPT !.torn = @ + Turns(Clock)]
            /\ UNCHANGED magic
       ELSE UNCHANGED <<half, noinit, savedLost>>
    /\ sinceSave' = 0
    /\ UNCHANGED <<now, steady, up, down, offset, synced, doneThisBoot, sntpVars, lost,
                   runaway>>

\* Mutant: the epoch is saved in 32 bits.
SaveEnds_Low ==
    /\ half # -1
    /\ lo' = half % Word
    /\ hi' = 0
    /\ magic' = TRUE
    /\ half' = -1
    /\ savedLost' = [savedLost EXCEPT !.torn = @ - Turns(half)]
    /\ UNCHANGED <<now, steady, bootVars, lost, runaway>>

SaveEnds ==
    /\ half # -1
    /\ lo' = half % Word
    /\ hi' = half \div Word
    /\ magic' = TRUE
    /\ half' = -1
    /\ savedLost' = [savedLost EXCEPT !.torn = @ - Turns(half)]
    /\ UNCHANGED <<now, steady, bootVars, lost, runaway>>

-----------------------------------------------------------------------------
(***************************************************************************)
(* sntp_sync(): by the main thread at each broker lookup until an answer   *)
(* has come in this boot, by the workqueue in the resync that every return *)
(* of either schedules anew.  Both may be inside, and share the semaphore. *)
(***************************************************************************)
askUnchanged == <<now, steady, up, down, offset, synced, doneThisBoot, sinceSave, held,
                  noinit, half, history>>

MainAsks ==
    /\ Running /\ ~doneThisBoot
    /\ "main" \notin asking
    /\ asking' = asking \union {"main"}
    /\ UNCHANGED <<askUnchanged, resync, waiting, sem, queries>>

\* A day or so later (the 24 h are not counted), between two other items of the
\* workqueue.
ResyncAsks ==
    /\ Running /\ resync
    /\ half = -1 /\ sinceSave <= SaveInterval /\ held = 0
    /\ "workq" \notin asking
    /\ asking' = asking \union {"workq"}
    /\ resync' = FALSE
    /\ UNCHANGED <<askUnchanged, waiting, sem, queries>>

\* The threads of S return from sntp_sync(); the caller of each reschedules the
\* resync, whatever came of the query (main.cpp:3957-3960, 3150).
Return(S) ==
    /\ asking' = asking \ S
    /\ resync' = (resync \/ S # {})

\* The server's name is not resolved.
LookupFails(t) ==
    /\ t \in asking \ waiting
    /\ Return({t})
    /\ UNCHANGED <<askUnchanged, waiting, sem, queries>>

\* k_sem_reset(), which throws out whoever waits, and the query, which OpenThread
\* may refuse.
Query(t) ==
    /\ t \in asking \ waiting
    /\ sem' = 0
    /\ \/ /\ queries < MaxQueries
          /\ queries' = queries + 1
          /\ waiting' = {t}
          /\ Return(waiting)
       \/ /\ waiting' = {}
          /\ Return(waiting \union {t})
          /\ UNCHANGED queries
    /\ UNCHANGED askUnchanged

\* k_sem_take() gets the semaphore, or gives up after 10 s.
WaitEnds(t) ==
    /\ t \in waiting
    /\ waiting' = waiting \ {t}
    /\ sem' = 0
    /\ Return({t})
    /\ UNCHANGED <<askUnchanged, queries>>

\* sntp_response_handler() with the server's time t.
Adopt(t) == offset' = t - up

\* The handler runs once for each query, on OpenThread's thread: perhaps after the
\* wait has ended, in another query's wait, or between the two stores of a save.
SntpAnswer ==
    /\ queries > 0
    /\ queries' = queries - 1
    /\ sem' = 1
    /\ \E t \in now - Latency..now : Adopt(t)
    /\ synced' = TRUE
    /\ doneThisBoot' = TRUE
    /\ lost' = NoLoss(now)
    /\ runaway' = (runaway \/ (Stored /\ Latency + Drift(now - savedLost.set) > SaveInterval))
    /\ UNCHANGED <<now, steady, up, down, sinceSave, resync, asking, waiting, held,
                   noinit, half, savedLost>>

\* The handler with an error: no server answered.
SntpFails ==
    /\ queries > 0
    /\ queries' = queries - 1
    /\ sem' = 1
    /\ UNCHANGED <<askUnchanged, resync, asking, waiting>>

-----------------------------------------------------------------------------
\* What every reset puts back to its initial value.
BootBegins ==
    /\ up' = -1 /\ down' = 0 /\ offset' = 0
    /\ synced' = FALSE /\ doneThisBoot' = FALSE
    /\ sinceSave' = 0
    /\ resync' = FALSE /\ asking' = {} /\ waiting' = {}
    /\ sem' = 0 /\ queries' = 0 /\ held' = 0
    /\ half' = -1

\* A watchdog or software reset, at any time: only the __noinit words survive.
WarmReboot ==
    /\ savedLost.reboots < MaxReboots
    /\ BootBegins
    /\ savedLost' = [savedLost EXCEPT !.reboots = @ + 1] /\ lost' = savedLost'
    /\ UNCHANGED <<now, steady, noinit, runaway>>

\* A power cut loses them.
PowerCut ==
    /\ BootBegins
    /\ magic' = FALSE /\ lo' = 0 /\ hi' = 0
    /\ lost' = NoLoss(0) /\ savedLost' = NoLoss(0) /\ runaway' = FALSE
    /\ UNCHANGED <<now, steady>>

ClockNext ==
    \/ Tick \/ Slip
    \/ Restore \/ SaveBegins \/ SaveEnds
    \/ MainAsks \/ ResyncAsks
    \/ \E t \in asking : LookupFails(t) \/ Query(t) \/ WaitEnds(t)
    \/ SntpAnswer \/ SntpFails
    \/ WarmReboot \/ PowerCut

ClockSpec == ClockInit /\ [][ClockNext]_clockVars

-----------------------------------------------------------------------------
(* The clock is ahead of real time by no more than the RTC has gained      *)
(* since SNTP last set it, over any warm reboots, a reset between the two  *)
(* stores of a save (main.cpp:3018-3020) and late answers: a restored time *)
(* is a time the clock has shown.  The exception, runaway: an answer that  *)
(* comes when the clock may have gained more than a save interval (at 250  *)
(* ppm, after two days and a half without one) can put it back behind the  *)
(* saved time, and a save torn by a reset then mixes words of two turns.   *)
NeverAhead ==
    Running /\ synced /\ ~runaway => Clock <= now + Drift(now - lost.set)

(* The clock lags by no more than the RTC has lost since SNTP last set it  *)
(* and what its warm reboots lost: each a save interval, a resync that     *)
(* held the workqueue and the boot, and each torn save the turns of the    *)
(* low word since the high word was stored.  The losses add up until SNTP  *)
(* answers (main.cpp:2994-3044), past the "save interval plus boot         *)
(* overhead" of the comment at 2998-2999.                                  *)
LagBounded ==
    Running /\ synced =>
        now - Clock <= Latency + Drift(now - lost.set)
                       + lost.reboots * (SaveInterval + Hold + BootTime)
                       + lost.torn * Word
=============================================================================
