------------------------------ MODULE Watchdog ------------------------------
(***************************************************************************)
(* The hardware watchdog of the station and the freshness-gated feeder     *)
(* that runs on Zephyr's system workqueue (src/main.cpp, "Hardware     *)
(* Watchdog").  The main thread is reduced to what the feeder can see of   *)
(* it: the age of main_alive_uptime_ms, and MaxBlock, a bound on the time  *)
(* that passes between two bumps of that mark.                             *)
(*                                                                         *)
(* Time is explicit and discrete.  Every variable that stands for a time   *)
(* stamp of the code is kept as the age of that stamp, so no clock value   *)
(* is unbounded.                                                           *)
(***************************************************************************)
EXTENDS Naturals

CONSTANTS
    FeedInterval,   \* WDT_FEED_INTERVAL_MS: the feeder reschedules itself by this
    MainFreshness,  \* WDT_MAIN_FRESHNESS_MS: oldest main_alive the feeder accepts
    WdtWindow,      \* the hardware window: 2 * CONFIG_MQTT_KEEPALIVE
    WorkqHold,      \* longest job that keeps the system workqueue from the feeder
    MaxBlock        \* longest stretch the main thread runs without a bump

ASSUME WatchdogConstants ==
    /\ FeedInterval \in Nat \ {0}
    /\ MainFreshness \in Nat \ {0}
    /\ WdtWindow \in Nat \ {0}
    /\ WorkqHold \in Nat
    /\ MaxBlock \in Nat \ {0}

VARIABLES
    mainAge,      \* now - main_alive_uptime_ms
    sinceRun,     \* time since the feeder's work item last ran (or was scheduled at boot)
    sinceFeed,    \* time since wdt_feed(), what the hardware counts
    wqBusy,       \* longest time the job on the workqueue still holds it; 0 when idle
    resyncReady,  \* a feeder run lies behind us since the last long job
    expired       \* the hardware has fired: the chip is going through reset

wdVars == <<mainAge, sinceRun, sinceFeed, wqBusy, resyncReady, expired>>

WdTypeOK ==
    /\ mainAge \in Nat
    /\ sinceRun \in Nat
    /\ sinceFeed \in Nat
    /\ wqBusy \in 0..WorkqHold
    /\ resyncReady \in BOOLEAN
    /\ expired \in BOOLEAN

(***************************************************************************)
(* watchdog_init(), then the marks main() sets before its loop.            *)
(***************************************************************************)
WdInit ==
    /\ mainAge = 0
    /\ sinceRun = 0
    /\ sinceFeed = 0
    /\ wqBusy = 0
    /\ resyncReady = FALSE
    /\ expired = FALSE

FeederDue == sinceRun >= FeedInterval

(***************************************************************************)
(* One unit of time.  It does not pass while the feeder could run (the     *)
(* system workqueue is a cooperative thread: it runs as soon as it is      *)
(* idle), nor beyond the instant the hardware window closes.               *)
(***************************************************************************)
ClockTick ==
    /\ ~expired
    /\ sinceFeed < WdtWindow
    /\ FeederDue => wqBusy > 0
    /\ mainAge' = mainAge + 1
    /\ sinceRun' = sinceRun + 1
    /\ sinceFeed' = sinceFeed + 1
    /\ wqBusy' = IF wqBusy = 0 THEN 0 ELSE wqBusy - 1
    /\ UNCHANGED <<resyncReady, expired>>

\* Here the main thread is known by its bound only.
WdTick == mainAge < MaxBlock /\ ClockTick

\* Mutant: feed from the workqueue whatever main does.
MainIsFresh_Ungated == TRUE

\* The age test of wdt_feeder_work_handler.
MainIsFresh == mainAge <= MainFreshness

\* wdt_feeder_work_handler: feed if main is fresh, reschedule in either case.
FeederRun ==
    /\ ~expired
    /\ FeederDue
    /\ wqBusy = 0
    /\ sinceFeed' = IF MainIsFresh THEN 0 ELSE sinceFeed
    /\ sinceRun' = 0
    /\ resyncReady' = TRUE
    /\ UNCHANGED <<mainAge, wqBusy, expired>>

(***************************************************************************)
(* Another job takes the workqueue for up to d units.  The only long one   *)
(* is the SNTP resync, which reschedules itself 24 h ahead: at least one   *)
(* feeder run separates two of them.                                       *)
(***************************************************************************)
WorkqJob(d) ==
    /\ ~expired
    /\ wqBusy = 0
    /\ resyncReady
    /\ wqBusy' = d
    /\ resyncReady' = FALSE
    /\ UNCHANGED <<mainAge, sinceRun, sinceFeed, expired>>

\* The job returns before its bound.
WorkqJobEnds ==
    /\ wqBusy > 0
    /\ wqBusy' = 0
    /\ UNCHANGED <<mainAge, sinceRun, sinceFeed, resyncReady, expired>>

\* main_alive_uptime_ms = k_uptime_get_32().
MainBump ==
    /\ ~expired
    /\ mainAge' = 0
    /\ UNCHANGED <<sinceRun, sinceFeed, wqBusy, resyncReady, expired>>

\* The window closes without a feed.
WdExpire ==
    /\ ~expired
    /\ sinceFeed >= WdtWindow
    /\ expired' = TRUE
    /\ UNCHANGED <<mainAge, sinceRun, sinceFeed, wqBusy, resyncReady>>

\* Reset by the watchdog, or sys_reboot() from any thread.
WdReboot ==
    /\ mainAge' = 0
    /\ sinceRun' = 0
    /\ sinceFeed' = 0
    /\ wqBusy' = 0
    /\ resyncReady' = FALSE
    /\ expired' = FALSE

WdNext ==
    \/ WdTick
    \/ FeederRun
    \/ \E d \in 1..WorkqHold : WorkqJob(d)
    \/ WorkqJobEnds
    \/ MainBump
    \/ WdExpire
    \/ WdReboot

WdSpec == WdInit /\ [][WdNext]_wdVars

-----------------------------------------------------------------------------
(***************************************************************************)
(* Properties.                                                             *)
(***************************************************************************)

(* main.cpp:636-639, "if main hasn't bumped in WDT_MAIN_FRESHNESS_MS the   *)
(* feeder withholds and the WDT fires": however long main is wedged, the   *)
(* chip is reset before its mark is older than one freshness limit plus    *)
(* one hardware window.                                                    *)
WedgeBounded == mainAge <= MainFreshness + WdtWindow

(* The other half of the same comment: a main thread whose blocking        *)
(* stretches are bounded by MaxBlock is never reset by the watchdog.       *)
NoFalseReset == ~expired

(***************************************************************************)
(* When NoFalseReset is promised.  Either no stretch exceeds the freshness *)
(* limit, so no run of the feeder withholds; or a stretch may span one     *)
(* run, and the window holds two feeder periods.                           *)
(***************************************************************************)
NeverWithheld ==
    /\ MaxBlock <= MainFreshness
    /\ FeedInterval + WorkqHold < WdtWindow

OneWithheld ==
    /\ MaxBlock <= MainFreshness + FeedInterval
    /\ FeedInterval + WorkqHold <= MainFreshness
    /\ 2 * (FeedInterval + WorkqHold) < WdtWindow

(* At most one run of the feeder withholds in a row (main.cpp:648-658):    *)
(* either its last run fed the hardware, or the run before it did and main *)
(* has either bumped since or is stale for good.                           *)
FeedAccounting ==
    \/ sinceFeed = sinceRun
    \/ /\ sinceFeed <= FeedInterval + WorkqHold + sinceRun
       /\ mainAge <= sinceRun \/ mainAge > MainFreshness + sinceRun

(* The inductive invariant: types, the longest gap between two runs of the *)
(* feeder, and how old main's mark can be when the hardware was last fed.  *)
WdInv ==
    /\ WdTypeOK
    /\ sinceRun + wqBusy <= FeedInterval + WorkqHold
    /\ resyncReady => wqBusy = 0 /\ sinceRun <= FeedInterval
    /\ sinceRun <= sinceFeed
    /\ mainAge <= MainFreshness + sinceFeed
    /\ mainAge <= MaxBlock
    /\ sinceFeed <= WdtWindow
=============================================================================
