---------------------------- MODULE StationProofs ----------------------------
(***************************************************************************)
(* Proofs about the watchdog and the main thread for every choice of the   *)
(* periods and waits.  The first part is about the watchdog alone: the     *)
(* bound on a wedged main thread, and the two sets of timings under which  *)
(* a healthy main thread is never reset.  The second is about the station: *)
(* it implements the main thread the watchdog assumes, it stays within the *)
(* feeder's limit outside a commanded sleep, the hardware watchdog resets  *)
(* it nowhere else, no socket is lost, and a silent broker is left in time.*)
(***************************************************************************)
EXTENDS Station, TLAPS

(* WdInv is inductive: every step of the clock, the feeder, the workqueue, *)
(* the main thread and the hardware keeps the ages within their bounds     *)
(* (main.cpp, watchdog_init and wdt_feeder_work_handler).                  *)
LEMMA WdInvStep == WdInv /\ [WdNext]_wdVars => WdInv'
<1> SUFFICES ASSUME WdInv, [WdNext]_wdVars PROVE WdInv'
  OBVIOUS
<1> USE WatchdogConstants DEF WdInv, WdTypeOK
<1>1. CASE WdTick
  BY <1>1 DEF WdTick, ClockTick, FeederDue
<1>2. CASE FeederRun
  BY <1>2 DEF FeederRun, FeederDue, MainIsFresh
<1>3. CASE \E d \in 1..WorkqHold : WorkqJob(d)
  <2>1. resyncReady' \in BOOLEAN /\ ~resyncReady'
    BY <1>3, Zenon DEF WorkqJob
  <2> QED
    BY <1>3, <2>1 DEF WorkqJob
<1>4. CASE WorkqJobEnds
  BY <1>4 DEF WorkqJobEnds
<1>5. CASE MainBump
  BY <1>5 DEF MainBump
<1>6. CASE WdExpire
  BY <1>6 DEF WdExpire
<1>7. CASE WdReboot
  <2>1. resyncReady' \in BOOLEAN /\ ~resyncReady' /\ expired' \in BOOLEAN
    BY <1>7, Zenon DEF WdReboot
  <2> QED
    BY <1>7, <2>1 DEF WdReboot
<1>8. CASE UNCHANGED wdVars
  BY <1>8 DEF wdVars
<1> QED
  BY <1>1, <1>2, <1>3, <1>4, <1>5, <1>6, <1>7, <1>8 DEF WdNext

LEMMA WdInvInit == WdInit => WdInv
<1> SUFFICES ASSUME WdInit PROVE WdInv
  OBVIOUS
<1>1. resyncReady \in BOOLEAN /\ expired \in BOOLEAN /\ ~resyncReady
  BY Zenon DEF WdInit
<1> QED
  BY <1>1, WatchdogConstants DEF WdInit, WdInv, WdTypeOK

(* The watchdog's ages stay within their bounds for ever.                  *)
THEOREM WatchdogInvariant == WdSpec => []WdInv
  BY WdInvInit, WdInvStep, PTL DEF WdSpec

(* However long main is wedged, its mark never grows older than one        *)
(* freshness limit plus one hardware window (comment at main.cpp:636-639). *)
THEOREM WatchdogBoundsWedge == WdSpec => []WedgeBounded
<1>1. WdInv => WedgeBounded
  BY WatchdogConstants DEF WdInv, WdTypeOK, WedgeBounded
<1> QED
  BY <1>1, WatchdogInvariant, PTL

-----------------------------------------------------------------------------
\* The feeder fed on its last run, and the hardware has not fired.
NeverLate == sinceFeed = sinceRun /\ ~expired

LEMMA NeverLateStep ==
  NeverWithheld /\ WdInv /\ NeverLate /\ [WdNext]_wdVars => NeverLate'
<1> SUFFICES ASSUME NeverWithheld, WdInv, NeverLate, [WdNext]_wdVars
             PROVE  NeverLate'
  OBVIOUS
<1> USE WatchdogConstants DEF WdInv, WdTypeOK, NeverLate, NeverWithheld
<1>1. CASE WdTick
  BY <1>1 DEF WdTick, ClockTick
<1>2. CASE FeederRun
  BY <1>2 DEF FeederRun, MainIsFresh
<1>3. CASE \E d \in 1..WorkqHold : WorkqJob(d)
  BY <1>3 DEF WorkqJob
<1>4. CASE WorkqJobEnds
  BY <1>4 DEF WorkqJobEnds
<1>5. CASE MainBump
  BY <1>5 DEF MainBump
<1>6. CASE WdExpire
  BY <1>6 DEF WdExpire
<1>7. CASE WdReboot
  BY <1>7 DEF WdReboot
<1>8. CASE UNCHANGED wdVars
  BY <1>8 DEF wdVars
<1> QED
  BY <1>1, <1>2, <1>3, <1>4, <1>5, <1>6, <1>7, <1>8 DEF WdNext

(* A main thread that bumps its mark at least once per freshness limit is  *)
(* never reset, whatever else the workqueue does in between.               *)
THEOREM HealthyMainIsSpared ==
  ASSUME NeverWithheld
  PROVE  WdSpec => []NoFalseReset
<1>1. WdInit => NeverLate
  BY DEF WdInit, NeverLate
<1>2. NeverLate => NoFalseReset
  BY DEF NeverLate, NoFalseReset
<1>3. WdInv /\ NeverLate /\ [WdNext]_wdVars => NeverLate'
  BY NeverLateStep
<1> QED
  BY <1>1, <1>2, <1>3, WatchdogInvariant, PTL DEF WdSpec

-----------------------------------------------------------------------------
\* At most the last run withheld, and the hardware has not fired.
OnceLate == FeedAccounting /\ ~expired

LEMMA OnceLateStep ==
  OneWithheld /\ WdInv /\ OnceLate /\ [WdNext]_wdVars => OnceLate'
<1> SUFFICES ASSUME OneWithheld, WdInv, OnceLate, [WdNext]_wdVars
             PROVE  OnceLate'
  OBVIOUS
<1> USE WatchdogConstants DEF WdInv, WdTypeOK, OnceLate, FeedAccounting, OneWithheld
<1>1. CASE WdTick
  BY <1>1 DEF WdTick, ClockTick
<1>2. CASE FeederRun
  BY <1>2 DEF FeederRun, MainIsFresh, FeederDue
<1>3. CASE \E d \in 1..WorkqHold : WorkqJob(d)
  BY <1>3 DEF WorkqJob
<1>4. CASE WorkqJobEnds
  BY <1>4 DEF WorkqJobEnds
<1>5. CASE MainBump
  BY <1>5 DEF MainBump
<1>6. CASE WdExpire
  BY <1>6 DEF WdExpire
<1>7. CASE WdReboot
  BY <1>7 DEF WdReboot
<1>8. CASE UNCHANGED wdVars
  BY <1>8 DEF wdVars
<1> QED
  BY <1>1, <1>2, <1>3, <1>4, <1>5, <1>6, <1>7, <1>8 DEF WdNext

(* A main thread that is late for one run of the feeder but not for two is *)
(* spared too, as long as two feeder periods fit into the window.          *)
THEOREM LateMainIsSpared ==
  ASSUME OneWithheld
  PROVE  WdSpec => [](NoFalseReset /\ FeedAccounting)
<1>1. WdInit => OnceLate
  BY DEF WdInit, OnceLate, FeedAccounting
<1>2. OnceLate => NoFalseReset /\ FeedAccounting
  BY DEF OnceLate, NoFalseReset
<1>3. WdInv /\ OnceLate /\ [WdNext]_wdVars => OnceLate'
  BY OnceLateStep
<1> QED
  BY <1>1, <1>2, <1>3, WatchdogInvariant, PTL DEF WdSpec

-----------------------------------------------------------------------------
(***************************************************************************)
(* The longest time since main's last bump, by the call it is in.          *)
(***************************************************************************)
Limit(p) ==
    CASE p = "dns" -> DnsWait
      [] p = "sntp" -> DnsWait + SntpWait
      [] p = "tls" -> TlsWait
      [] p = "connack" -> TlsWait + ConnackWait
      [] p = "live" -> IterWork
      [] p = "ping" -> IterWork
      [] p = "rest" -> 2 * IterWork
      [] p = "sleep" -> MaxBlock
      [] OTHER -> MainFreshness

MainBudget ==
    /\ pc \in Points
    /\ mainAge \in Nat
    /\ block \in Nat
    /\ mainAge + block <= Limit(pc)

\* A step of main from p to q, with and without a bump of its mark.
Bump(p, q, d) == /\ pc = p /\ block = 0 /\ mainAge' = 0
                 /\ pc' = q /\ block' \in 0..d
Move(p, q, d) == /\ pc = p /\ block = 0 /\ mainAge' = mainAge
                 /\ pc' = q /\ block' \in 0..d

LEMMA LimitType == \A p \in Points : Limit(p) \in Nat
  BY WatchdogConstants, WaitConstants DEF Limit, Points

\* A call that fits the limit of the point it leads to keeps the budget.
LEMMA BumpKeepsBudget ==
  ASSUME NEW p \in Points, NEW q \in Points, NEW d \in Nat,
         MainBudget, Bump(p, q, d), d <= Limit(q)
  PROVE  MainBudget'
  BY LimitType DEF MainBudget, Bump, Limit

LEMMA MoveKeepsBudget ==
  ASSUME NEW p \in Points, NEW q \in Points, NEW d \in Nat,
         MainBudget, Move(p, q, d), Limit(p) + d <= Limit(q)
  PROVE  MainBudget'
  BY LimitType DEF MainBudget, Move, Limit

LEMMA MainBudgetStep == MainBudget /\ [Next]_vars => MainBudget'
<1> SUFFICES ASSUME MainBudget, [Next]_vars PROVE MainBudget'
  OBVIOUS
<1>a. /\ MainFreshness \in Nat /\ MaxBlock \in Nat
      /\ \A p \in Points : Limit(p) \in Nat
  BY WatchdogConstants, LimitType
<1>1. CASE SilenceReboot
  <2>1. Bump("top", "reboot", RebootPause)
    BY <1>1 DEF Bump, SilenceReboot, At, GoTo, MainBump
  <2>2. RebootPause <= Limit("reboot")
    BY <1>a, WaitConstants, ChainsFitFreshness DEF Limit
  <2> QED
    BY <2>1, <2>2, WaitConstants, BumpKeepsBudget DEF Points
<1>2. CASE WaitThread
  <2>1. Bump("top", "top", WaitPoll)
    BY <1>2 DEF Bump, WaitThread, Dispatch, At, GoTo, MainBump
  <2>2. WaitPoll <= Limit("top")
    BY <1>a, WaitConstants, ChainsFitFreshness DEF Limit
  <2> QED
    BY <2>1, <2>2, WaitConstants, BumpKeepsBudget DEF Points
<1>3. CASE WaitAttached
  <2>1. Bump("top", "settle", Settle)
    BY <1>3 DEF Bump, WaitAttached, Dispatch, At, GoTo, MainBump
  <2>2. Settle <= Limit("settle")
    BY <1>a, WaitConstants, ChainsFitFreshness DEF Limit
  <2> QED
    BY <2>1, <2>2, WaitConstants, BumpKeepsBudget DEF Points
<1>4. CASE Settled
  <2>1. Move("settle", "top", 0)
    BY <1>4 DEF Move, Settled, At, GoTo, OnlyMain, wdVars
  <2>2. Limit("settle") + 0 <= Limit("top")
    BY <1>a, WaitConstants, ChainsFitFreshness DEF Limit
  <2> QED
    BY <2>1, <2>2, WaitConstants, MoveKeepsBudget DEF Points
<1>5. CASE DnsStart
  <2>1. Bump("top", "dns", DnsWait)
    BY <1>5 DEF Bump, DnsStart, Dispatch, At, GoTo, MainBump
  <2>2. DnsWait <= Limit("dns")
    BY <1>a, WaitConstants, ChainsFitFreshness DEF Limit
  <2> QED
    BY <2>1, <2>2, WaitConstants, BumpKeepsBudget DEF Points
<1>6. CASE DnsOk
  <2>1. Move("dns", "top", 0) \/ Move("dns", "sntp", SntpWait)
    BY <1>6 DEF Move, DnsOk, At, GoTo, OnlyMain, wdVars
  <2>2. Limit("dns") + 0 <= Limit("top") /\ Limit("dns") + SntpWait <= Limit("sntp")
    BY <1>a, WaitConstants, ChainsFitFreshness DEF Limit
  <2> QED
    BY <2>1, <2>2, WaitConstants, MoveKeepsBudget DEF Points
<1>7. CASE DnsFail
  <2>1. Move("dns", "top", 0) \/ Move("dns", "top", DnsPause)
    BY <1>7 DEF Move, DnsFail, At, GoTo, OnlyMain, wdVars
  <2>2. Limit("dns") + 0 <= Limit("top") /\ Limit("dns") + DnsPause <= Limit("top")
    BY <1>a, WaitConstants, ChainsFitFreshness DEF Limit
  <2> QED
    BY <2>1, <2>2, WaitConstants, MoveKeepsBudget DEF Points
<1>8. CASE SntpReturns
  <2>1. Move("sntp", "top", 0)
    BY <1>8 DEF Move, SntpReturns, At, GoTo, OnlyMain, wdVars
  <2>2. Limit("sntp") + 0 <= Limit("top")
    BY <1>a, WaitConstants, ChainsFitFreshness DEF Limit
  <2> QED
    BY <2>1, <2>2, WaitConstants, MoveKeepsBudget DEF Points
<1>9. CASE TlsStart
  <2>1. Bump("top", "tls", TlsWait)
    BY <1>9 DEF Bump, TlsStart, Dispatch, At, GoTo, MainBump
  <2>2. TlsWait <= Limit("tls")
    BY <1>a, WaitConstants, ChainsFitFreshness DEF Limit
  <2> QED
    BY <2>1, <2>2, WaitConstants, BumpKeepsBudget DEF Points
<1>10. CASE TlsOk
  <2>1. Move("tls", "connack", ConnackWait)
    BY <1>10 DEF Move, TlsOk, At, GoTo, OnlyMain, wdVars
  <2>2. Limit("tls") + ConnackWait <= Limit("connack")
    BY <1>a, WaitConstants, ChainsFitFreshness DEF Limit
  <2> QED
    BY <2>1, <2>2, WaitConstants, MoveKeepsBudget DEF Points
<1>11. CASE TlsFail
  <2>1. Move("tls", "top", 0)
    BY <1>11 DEF Move, TlsFail, At, GoTo, OnlyMain, wdVars
  <2>2. Limit("tls") + 0 <= Limit("top")
    BY <1>a, WaitConstants, ChainsFitFreshness DEF Limit
  <2> QED
    BY <2>1, <2>2, WaitConstants, MoveKeepsBudget DEF Points
<1>12. CASE \E lost \in BOOLEAN : ConnackOk(lost)
  <2>1. Move("connack", "top", IterWork)
    BY <1>12 DEF Move, ConnackOk, At, GoTo, OnlyMain, wdVars
  <2>2. Limit("connack") + IterWork <= Limit("top")
    BY <1>a, WaitConstants, ChainsFitFreshness DEF Limit
  <2> QED
    BY <2>1, <2>2, WaitConstants, MoveKeepsBudget DEF Points
<1>13. CASE ConnackRefused
  <2>1. Move("connack", "top", 0)
    BY <1>13 DEF Move, ConnackRefused, At, GoTo, OnlyMain, wdVars
  <2>2. Limit("connack") + 0 <= Limit("top")
    BY <1>a, WaitConstants, ChainsFitFreshness DEF Limit
  <2> QED
    BY <2>1, <2>2, WaitConstants, MoveKeepsBudget DEF Points
<1>14. CASE ConnackTimeout
  <2>1. Move("connack", "top", 0)
    BY <1>14 DEF Move, ConnackTimeout, At, GoTo, OnlyMain, wdVars
  <2>2. Limit("connack") + 0 <= Limit("top")
    BY <1>a, WaitConstants, ChainsFitFreshness DEF Limit
  <2> QED
    BY <2>1, <2>2, WaitConstants, MoveKeepsBudget DEF Points
<1>15. CASE EnterConnected
  <2>1. Bump("top", "poll", 0)
    BY <1>15 DEF Bump, EnterConnected, Dispatch, At, GoTo, MainBump
  <2>2. 0 <= Limit("poll")
    BY <1>a, WaitConstants, ChainsFitFreshness DEF Limit
  <2> QED
    BY <2>1, <2>2, WaitConstants, BumpKeepsBudget DEF Points
<1>16. CASE PollIdle
  <2>1. Bump("poll", "live", 0)
    BY <1>16 DEF Bump, PollIdle, Poll, At, GoTo, MainBump
  <2>2. 0 <= Limit("live")
    BY <1>a, WaitConstants, ChainsFitFreshness DEF Limit
  <2> QED
    BY <2>1, <2>2, WaitConstants, BumpKeepsBudget DEF Points
<1>17. CASE PollPingresp
  <2>1. Bump("poll", "live", 0)
    BY <1>17 DEF Bump, PollPingresp, Poll, At, GoTo, MainBump
  <2>2. 0 <= Limit("live")
    BY <1>a, WaitConstants, ChainsFitFreshness DEF Limit
  <2> QED
    BY <2>1, <2>2, WaitConstants, BumpKeepsBudget DEF Points
<1>18. CASE PollReset
  <2>1. Bump("poll", "reboot", RebootPause)
    BY <1>18 DEF Bump, PollReset, Poll, At, GoTo, MainBump
  <2>2. RebootPause <= Limit("reboot")
    BY <1>a, WaitConstants, ChainsFitFreshness DEF Limit
  <2> QED
    BY <2>1, <2>2, WaitConstants, BumpKeepsBudget DEF Points
<1>19. CASE PollDead
  <2>1. Bump("poll", "top", 0)
    BY <1>19 DEF Bump, PollDead, Poll, At, GoTo, MainBump
  <2>2. 0 <= Limit("top")
    BY <1>a, WaitConstants, ChainsFitFreshness DEF Limit
  <2> QED
    BY <2>1, <2>2, WaitConstants, BumpKeepsBudget DEF Points
<1>20. CASE \E lost \in BOOLEAN : PollCommand(lost)
  <2>1. Bump("poll", "live", IterWork)
    BY <1>20 DEF Bump, PollCommand, Poll, At, GoTo, MainBump
  <2>2. IterWork <= Limit("live")
    BY <1>a, WaitConstants, ChainsFitFreshness DEF Limit
  <2> QED
    BY <2>1, <2>2, WaitConstants, BumpKeepsBudget DEF Points
<1>21. CASE \E secs \in 1..SleepMax : PollSleep(secs)
  <2>1. Bump("poll", "sleep", SleepMax)
    BY <1>21, WaitConstants DEF Bump, PollSleep, Poll, At, GoTo, MainBump
  <2>2. SleepMax <= Limit("sleep")
    BY <1>a, WaitConstants, ChainsFitFreshness DEF Limit
  <2> QED
    BY <2>1, <2>2, WaitConstants, BumpKeepsBudget DEF Points
<1>22. CASE Live
  <2>1. Move("live", "ping", 0)
    BY <1>22 DEF Move, Live, At, GoTo, OnlyMain, wdVars
  <2>2. Limit("live") + 0 <= Limit("ping")
    BY <1>a, WaitConstants, ChainsFitFreshness DEF Limit
  <2> QED
    BY <2>1, <2>2, WaitConstants, MoveKeepsBudget DEF Points
<1>23. CASE LiveError
  <2>1. Move("live", "top", 0)
    BY <1>23 DEF Move, LiveError, At, GoTo, OnlyMain, wdVars
  <2>2. Limit("live") + 0 <= Limit("top")
    BY <1>a, WaitConstants, ChainsFitFreshness DEF Limit
  <2> QED
    BY <2>1, <2>2, WaitConstants, MoveKeepsBudget DEF Points
<1>24. CASE Ping
  <2>1. Move("ping", "top", 0) \/ Move("ping", "rest", IterWork)
    BY <1>24 DEF Move, Ping, AfterPing, At, GoTo, OnlyMain, wdVars
  <2>2. Limit("ping") + 0 <= Limit("top") /\ Limit("ping") + IterWork <= Limit("rest")
    BY <1>a, WaitConstants, ChainsFitFreshness DEF Limit
  <2> QED
    BY <2>1, <2>2, WaitConstants, MoveKeepsBudget DEF Points
<1>25. CASE PingLost
  <2>1. Move("ping", "rest", IterWork)
    BY <1>25 DEF Move, PingLost, At, GoTo, OnlyMain, wdVars
  <2>2. Limit("ping") + IterWork <= Limit("rest")
    BY <1>a, WaitConstants, ChainsFitFreshness DEF Limit
  <2> QED
    BY <2>1, <2>2, WaitConstants, MoveKeepsBudget DEF Points
<1>26. CASE \E lost \in BOOLEAN : Rest(lost)
  <2>1. Move("rest", "poll", 0) \/ Move("rest", "top", 0)
    BY <1>26 DEF Move, Rest, NextIteration, At, GoTo, OnlyMain, wdVars
  <2>2. Limit("rest") + 0 <= Limit("poll") /\ Limit("rest") + 0 <= Limit("top")
    BY <1>a, WaitConstants, ChainsFitFreshness DEF Limit
  <2> QED
    BY <2>1, <2>2, WaitConstants, MoveKeepsBudget DEF Points
<1>27. CASE WebReboot
  <2>1. Move("rest", "reboot", RebootPause)
    BY <1>27 DEF Move, WebReboot, At, GoTo, OnlyMain, wdVars
  <2>2. Limit("rest") + RebootPause <= Limit("reboot")
    BY <1>a, WaitConstants, ChainsFitFreshness DEF Limit
  <2> QED
    BY <2>1, <2>2, WaitConstants, MoveKeepsBudget DEF Points
<1>28. CASE ErrorStart
  <2>1. Bump("top", "err", ErrorPause)
    BY <1>28, WaitConstants DEF Bump, ErrorStart, Dispatch, At, GoTo, MainBump
  <2>2. ErrorPause <= Limit("err")
    BY <1>a, WaitConstants, ChainsFitFreshness DEF Limit
  <2> QED
    BY <2>1, <2>2, WaitConstants, BumpKeepsBudget DEF Points
<1>29. CASE ErrorDone
  <2>1. Move("err", "top", 0)
    BY <1>29 DEF Move, ErrorDone, At, GoTo, OnlyMain, wdVars
  <2>2. Limit("err") + 0 <= Limit("top")
    BY <1>a, WaitConstants, ChainsFitFreshness DEF Limit
  <2> QED
    BY <2>1, <2>2, WaitConstants, MoveKeepsBudget DEF Points
<1>30. CASE MainReboot
  <2>1. pc' = "top" /\ block' = 0 /\ mainAge' = 0
    BY <1>30 DEF MainReboot, Boot, WdReboot
  <2> QED
    BY <2>1, <1>a DEF MainBudget, Points, Limit
<1>31. CASE SntpAnswer
  <2>1. UNCHANGED <<pc, mainAge>> /\ block' \in {0, block}
    BY <1>31 DEF SntpAnswer, OnlyMain, wdVars
  <2> QED
    BY <2>1, <1>a DEF MainBudget
<1>32. CASE WorkqReboot
  <2>1. pc' = "top" /\ block' = 0 /\ mainAge' = 0
    BY <1>32 DEF WorkqReboot, Boot, WdReboot
  <2> QED
    BY <2>1, <1>a DEF MainBudget, Points, Limit
<1>33. CASE WatchdogReset
  <2>1. pc' = "top" /\ block' = 0 /\ mainAge' = 0
    BY <1>33 DEF WatchdogReset, Boot, WdReboot
  <2> QED
    BY <2>1, <1>a DEF MainBudget, Points, Limit
<1>34. CASE OtRoleChange
  <2>1. UNCHANGED <<pc, block, mainAge>>
    BY <1>34 DEF OtRoleChange, wdVars
  <2> QED
    BY <2>1, <1>a DEF MainBudget
<1>35. CASE Tick
  <2>1. pc' = pc /\ mainAge' = mainAge + 1 /\ block > 0 /\ block' = block - 1
    BY <1>35 DEF Tick, ClockTick
  <2> QED
    BY <2>1, <1>a DEF MainBudget
<1>36. CASE Background
  <2>1. UNCHANGED <<pc, block, mainAge>>
    BY <1>36 DEF Background, mainVars, FeederRun, WorkqJob, WorkqJobEnds, WdExpire
  <2> QED
    BY <2>1, <1>a DEF MainBudget
<1>37. CASE UNCHANGED vars
  <2>1. UNCHANGED <<pc, block, mainAge>>
    BY <1>37 DEF vars, mainVars, wdVars
  <2> QED
    BY <2>1, <1>a DEF MainBudget
<1> QED
  BY <1>1, <1>2, <1>3, <1>4, <1>5, <1>6, <1>7, <1>8, <1>9, <1>10,
     <1>11, <1>12, <1>13, <1>14, <1>15, <1>16, <1>17, <1>18, <1>19, <1>20,
     <1>21, <1>22, <1>23, <1>24, <1>25, <1>26, <1>27, <1>28, <1>29, <1>30,
     <1>31, <1>32, <1>33, <1>34, <1>35, <1>36, <1>37
  DEF Next, MainStep

LEMMA MainBudgetInit == Init => MainBudget
  BY WatchdogConstants DEF Init, WdInit, MainBudget, Points, Limit

LEMMA BudgetBounds ==
  ASSUME MainBudget
  PROVE  /\ mainAge + block <= MaxBlock
         /\ pc # "sleep" => mainAge + block <= MainFreshness
<1>1. Limit(pc) <= MaxBlock
  BY WatchdogConstants, WaitConstants, ChainsFitFreshness DEF MainBudget, Limit, Points
<1>2. pc # "sleep" => Limit(pc) <= MainFreshness
  BY WatchdogConstants, WaitConstants, ChainsFitFreshness DEF MainBudget, Limit, Points
<1> QED
  BY <1>1, <1>2, LimitType, WatchdogConstants DEF MainBudget

THEOREM StationBudget == Spec => []MainBudget
  BY MainBudgetInit, MainBudgetStep, PTL DEF Spec

(* Whatever chain of blocking calls main makes outside a commanded sleep,  *)
(* it bumps its mark within WDT_MAIN_FRESHNESS_MS (main.cpp:642-643).      *)
THEOREM StationWithinFreshness == Spec => []MainWithinFreshness
<1>1. MainBudget => MainWithinFreshness
  BY BudgetBounds DEF MainWithinFreshness
<1> QED
  BY <1>1, StationBudget, PTL

-----------------------------------------------------------------------------
(* The state machine implements the main thread module Watchdog assumes:   *)
(* each of its steps is a step of the watchdog's environment or of the     *)
(* feeder, and time never passes beyond MaxBlock without a bump.           *)
LEMMA StationStep == MainBudget /\ [Next]_vars => [WdNext]_wdVars
<1> SUFFICES ASSUME MainBudget, [Next]_vars PROVE [WdNext]_wdVars
  OBVIOUS
<1>1. CASE MainStep
  <2>1. MainBump \/ WdReboot \/ UNCHANGED wdVars
    BY <1>1 DEF MainStep, SilenceReboot, WaitThread, WaitAttached, Settled,
      DnsStart, DnsOk, DnsFail, SntpReturns, TlsStart, TlsOk, TlsFail, ConnackOk,
      ConnackRefused, ConnackTimeout, EnterConnected, PollIdle, PollPingresp,
      PollReset, PollDead, PollCommand, PollSleep, Live, LiveError, Ping, PingLost,
      Rest, WebReboot, ErrorStart, ErrorDone, MainReboot, Boot, Dispatch, Poll, OnlyMain
  <2> QED
    BY <2>1 DEF WdNext
<1>2. CASE SntpAnswer
  BY <1>2 DEF SntpAnswer, OnlyMain
<1>3. CASE WorkqReboot \/ WatchdogReset
  BY <1>3 DEF WorkqReboot, WatchdogReset, Boot, WdNext
<1>4. CASE OtRoleChange
  BY <1>4 DEF OtRoleChange
<1>5. CASE Tick
  <2>1. block > 0 /\ ClockTick
    BY <1>5 DEF Tick
  <2>2. mainAge < MaxBlock
    BY <2>1, BudgetBounds, WatchdogConstants DEF MainBudget
  <2> QED
    BY <2>1, <2>2 DEF WdNext, WdTick
<1>6. CASE Background
  BY <1>6 DEF Background, WdNext
<1>7. CASE UNCHANGED vars
  BY <1>7 DEF vars
<1> QED
  BY <1>1, <1>2, <1>3, <1>4, <1>5, <1>6, <1>7 DEF Next

THEOREM StationImplementsWatchdog == Spec => WdSpec
<1>1. Init => WdInit
  BY DEF Init
<1> QED
  BY <1>1, StationStep, StationBudget, PTL DEF Spec, WdSpec

(* With sleep commands short enough for one freshness limit the hardware   *)
(* watchdog never fires at all.                                            *)
THEOREM ShortSleepsAreSafe ==
  ASSUME NeverWithheld
  PROVE  Spec => []NoFalseReset
  BY StationImplementsWatchdog, HealthyMainIsSpared, PTL

-----------------------------------------------------------------------------
\* Outside a commanded sleep the last run of the feeder fed the hardware.
Awake == pc # "sleep" => sinceFeed = sinceRun /\ ~expired

LEMMA AwakeStep ==
  ASSUME FeedInterval + WorkqHold < WdtWindow, MainBudget, WdInv, Awake, [Next]_vars
  PROVE  Awake'
<1>1. CASE MainStep
  <2>1. \/ WdReboot
        \/ UNCHANGED <<sinceFeed, sinceRun, expired>> /\ pc # "sleep"
    BY <1>1 DEF MainStep, SilenceReboot, WaitThread, WaitAttached, Settled,
      DnsStart, DnsOk, DnsFail, SntpReturns, TlsStart, TlsOk, TlsFail, ConnackOk,
      ConnackRefused, ConnackTimeout, EnterConnected, PollIdle, PollPingresp,
      PollReset, PollDead, PollCommand, PollSleep, Live, LiveError, Ping, PingLost,
      Rest, WebReboot, ErrorStart, ErrorDone, MainReboot, Boot, Dispatch, Poll,
      OnlyMain, MainBump, At, wdVars
  <2> QED
    BY <2>1 DEF WdReboot, Awake
<1>2. CASE SntpAnswer \/ OtRoleChange \/ UNCHANGED vars
  BY <1>2 DEF SntpAnswer, OtRoleChange, OnlyMain, vars, mainVars, wdVars, Awake
<1>3. CASE WorkqReboot \/ WatchdogReset
  BY <1>3 DEF WorkqReboot, WatchdogReset, Boot, WdReboot, Awake
<1>5. CASE Tick
  BY <1>5 DEF Tick, ClockTick, Awake
<1>6. CASE Background
  <2> USE DEF Background, mainVars, Awake
  <2>1. CASE FeederRun
    <3>1. pc # "sleep" => MainIsFresh
      BY BudgetBounds, WatchdogConstants DEF MainIsFresh, MainBudget
    <3> QED
      BY <1>6, <2>1, <3>1 DEF FeederRun
  <2>2. CASE \E d \in 1..WorkqHold : WorkqJob(d)
    BY <1>6, <2>2 DEF WorkqJob
  <2>3. CASE WorkqJobEnds
    BY <1>6, <2>3 DEF WorkqJobEnds
  <2>4. CASE WdExpire
    <3>1. sinceRun < WdtWindow
      BY WatchdogConstants DEF WdInv, WdTypeOK
    <3> QED
      BY <1>6, <2>4, <3>1, WatchdogConstants DEF WdExpire, WdInv, WdTypeOK
  <2> QED
    BY <1>6, <2>1, <2>2, <2>3, <2>4
<1> QED
  BY <1>1, <1>2, <1>3, <1>5, <1>6 DEF Next

(* Blocked on DNS, SNTP, TLS or a pause, main is never reset by the        *)
(* hardware: it fires only during a commanded sleep (main.cpp:632-641).    *)
THEOREM StationIsSpared ==
  ASSUME FeedInterval + WorkqHold < WdtWindow
  PROVE  Spec => []WatchdogSparesMain
<1>1. Init => Awake
  BY DEF Init, WdInit, Awake
<1>2. MainBudget /\ WdInv /\ Awake /\ [Next]_vars => Awake'
  BY AwakeStep
<1>3. Awake => WatchdogSparesMain
  BY DEF Awake, WatchdogSparesMain
<1> QED
  BY <1>1, <1>2, <1>3, StationBudget, StationImplementsWatchdog, WatchdogInvariant,
     PTL DEF Spec

-----------------------------------------------------------------------------
(***************************************************************************)
(* Which point of the main thread owns a socket, and of which kind.        *)
(***************************************************************************)
Owner ==
    /\ sess \in {"none", "tcp", "up"}
    /\ sess = "tcp" => pc = "connack"
    /\ pc \in {"settle", "dns", "sntp", "tls", "err"} => sess = "none"
    /\ pc = "top" /\ app_state # "MQTT_CONNECTED" => sess = "none"
    /\ pc \in {"tls", "connack"} => app_state = "MQTT_CONNECT"
    /\ pc = "poll" => app_state = "MQTT_CONNECTED"
    /\ pc \in {"live", "ping", "rest"} =>
         \/ app_state = "MQTT_CONNECTED" /\ sess = "up"
         \/ app_state = "ERROR" /\ sess = "none"
    /\ AbortsHandshake => leaked = 0

LEMMA OwnerStep == Owner /\ [Next]_vars => Owner'
<1> SUFFICES ASSUME Owner, [Next]_vars PROVE Owner'
  OBVIOUS
<1> USE DEF Owner
<1>1. CASE SilenceReboot
  BY <1>1 DEF SilenceReboot, At, GoTo
<1>2. CASE WaitThread
  BY <1>2 DEF WaitThread, Dispatch, At, GoTo, MainBump, NoIO
<1>3. CASE WaitAttached
  BY <1>3 DEF WaitAttached, Dispatch, At, GoTo, MainBump, NoIO
<1>4. CASE Settled
  BY <1>4 DEF Settled, At, GoTo, OnlyMain, NoIO
<1>5. CASE DnsStart
  BY <1>5 DEF DnsStart, Dispatch, At, GoTo, MainBump, NoIO
<1>6. CASE DnsOk
  BY <1>6 DEF DnsOk, At, GoTo, OnlyMain, NoIO
<1>7. CASE DnsFail
  BY <1>7 DEF DnsFail, At, GoTo, OnlyMain, NoIO
<1>8. CASE SntpReturns
  BY <1>8 DEF SntpReturns, At, GoTo, OnlyMain, NoIO
<1>9. CASE TlsStart
  BY <1>9 DEF TlsStart, Dispatch, At, GoTo, MainBump, NoIO
<1>10. CASE TlsOk
  BY <1>10 DEF TlsOk, At, GoTo, OnlyMain, NoIO
<1>11. CASE TlsFail
  BY <1>11 DEF TlsFail, At, GoTo, OnlyMain, NoIO
<1>12. CASE \E lost \in BOOLEAN : ConnackOk(lost)
  BY <1>12 DEF ConnackOk, At, GoTo, OnlyMain, NoIO
<1>13. CASE ConnackRefused
  BY <1>13 DEF ConnackRefused, ClosedByLibrary, At, GoTo, OnlyMain, NoIO
<1>14. CASE ConnackTimeout
  BY <1>14 DEF ConnackTimeout, Disconnect, At, GoTo, OnlyMain, NoIO
<1>15. CASE EnterConnected
  BY <1>15 DEF EnterConnected, Dispatch, At, GoTo, MainBump, NoIO
<1>16. CASE PollIdle
  BY <1>16 DEF PollIdle, Poll, At, GoTo, MainBump, NoIO
<1>17. CASE PollPingresp
  BY <1>17 DEF PollPingresp, Poll, At, GoTo, MainBump, NoIO
<1>18. CASE PollReset
  BY <1>18 DEF PollReset, Disconnect, Poll, At, GoTo, MainBump, NoIO
<1>19. CASE PollDead
  BY <1>19 DEF PollDead, Disconnect, Poll, At, GoTo, MainBump, NoIO
<1>20. CASE \E lost \in BOOLEAN : PollCommand(lost)
  BY <1>20 DEF PollCommand, ClosedByLibrary, Poll, At, GoTo, MainBump, NoIO
<1>21. CASE \E secs \in 1..SleepMax : PollSleep(secs)
  BY <1>21 DEF PollSleep, Disconnect, Poll, At, GoTo, MainBump, NoIO
<1>22. CASE Live
  BY <1>22 DEF Live, At, GoTo, OnlyMain, NoIO
<1>23. CASE LiveError
  BY <1>23 DEF LiveError, Disconnect, At, GoTo, OnlyMain, NoIO
<1>24. CASE Ping
  BY <1>24 DEF Ping, AfterPing, Disconnect, At, GoTo, OnlyMain, NoIO
<1>25. CASE PingLost
  BY <1>25 DEF PingLost, ClosedByLibrary, At, GoTo, OnlyMain, NoIO
<1>26. CASE \E lost \in BOOLEAN : Rest(lost)
  BY <1>26 DEF Rest, NextIteration, ClosedByLibrary, At, GoTo, OnlyMain, NoIO
<1>27. CASE WebReboot
  BY <1>27 DEF WebReboot, At, GoTo, OnlyMain, NoIO
<1>28. CASE ErrorStart
  BY <1>28 DEF ErrorStart, Dispatch, At, GoTo, MainBump, NoIO
<1>29. CASE ErrorDone
  BY <1>29 DEF ErrorDone, At, GoTo, OnlyMain, NoIO
<1>30. CASE MainReboot
  BY <1>30 DEF MainReboot, Boot
<1>31. CASE SntpAnswer \/ OtRoleChange
  BY <1>31 DEF SntpAnswer, OtRoleChange, OnlyMain, NoIO
<1>32. CASE WorkqReboot \/ WatchdogReset
  BY <1>32 DEF WorkqReboot, WatchdogReset, Boot
<1>33. CASE Tick \/ Background \/ UNCHANGED vars
  BY <1>33 DEF Tick, Background, mainVars, vars
<1> QED
  BY <1>1, <1>2, <1>3, <1>4, <1>5, <1>6, <1>7, <1>8, <1>9, <1>10,
     <1>11, <1>12, <1>13, <1>14, <1>15, <1>16, <1>17, <1>18, <1>19, <1>20,
     <1>21, <1>22, <1>23, <1>24, <1>25, <1>26, <1>27, <1>28, <1>29, <1>30,
     <1>31, <1>32, <1>33
  DEF Next, MainStep

THEOREM StationOwner == Spec => []Owner
<1>1. Init => Owner
  BY DEF Init, Owner
<1> QED
  BY <1>1, OwnerStep, PTL DEF Spec

(* A session closed inside an event handler is never served as CONNECTED   *)
(* past the poll of the iteration (main.cpp:1643-1677, 4027-4060).         *)
THEOREM StationLeavesDeadSession == Spec => []DeadSessionIsLeft
<1>1. Owner => DeadSessionIsLeft
  BY DEF Owner, DeadSessionIsLeft
<1> QED
  BY <1>1, StationOwner, PTL

(* If mqtt_disconnect() closes what it is given, no path of the state      *)
(* machine connects anew over an open socket (main.cpp:2316, 3976-4012).   *)
THEOREM StationLeaksNoSocket ==
  ASSUME AbortsHandshake
  PROVE  Spec => []NoSocketLeak
<1>1. Owner => NoSocketLeak
  BY DEF Owner, NoSocketLeak
<1> QED
  BY <1>1, StationOwner, PTL

-----------------------------------------------------------------------------
(***************************************************************************)
(* The station does not outwait a silent broker: the forced pings end a     *)
(* session that is not answered, and the silence limit at the top of the    *)
(* loop bounds every other state, for all waits and intervals.              *)
(***************************************************************************)

\* A round: a ping, the interval, and the iteration that notices it is over.
Round == ForcePing + 2 * IterWork
Rounds(u) == u * Round

Serving == pc \in {"poll", "live", "ping", "rest"}
Connected == app_state = "MQTT_CONNECTED"

\* The session begins with no ping out and at most the welcome's time silent.
Fresh ==
  /\ pc \in {"tls", "connack"} => unacked = 0
  /\ pc = "top" /\ Connected => unacked = 0 /\ silence + block <= IterWork

\* Each round of silence has left an unacknowledged ping.
Counted ==
  Connected /\ Serving => unacked < UnackedMax /\ silence <= IterWork + Rounds(unacked) + pingAge

\* A ping goes out in the first iteration that finds the interval over.
Pinging ==
  /\ pc = "poll" => block = 0
  /\ Connected /\ pc = "poll" => pingAge <= Round
  /\ Connected /\ pc \in {"live", "ping"} => pingAge <= Round + mainAge
  /\ Connected /\ pc = "rest" => pingAge <= ForcePing + mainAge

Leaving ==
  /\ Connected => pc \in {"top", "poll", "live", "ping", "rest", "reboot"}
  /\ Connected /\ pc = "reboot" => silence + block <= Rounds(UnackedMax) + 2 * IterWork

SilenceInv ==
  /\ silence \in Nat /\ pingAge \in Nat /\ unacked \in Nat
  /\ Fresh /\ Counted /\ Pinging /\ Leaving

-----------------------------------------------------------------------------
\* Rounds add up.
LEMMA RoundsAdd ==
  /\ Round \in Nat
  /\ \A u \in Nat : Rounds(u) \in Nat /\ Rounds(u + 1) = Rounds(u) + Round
  /\ \A u \in Nat : u < UnackedMax => Rounds(u) + Round <= Rounds(UnackedMax)
<1>1. Round \in Nat
  BY StationConstants, WaitConstants DEF Round
<1> HIDE DEF Round
<1>2. \A u \in Nat : Rounds(u) \in Nat /\ Rounds(u + 1) = Rounds(u) + Round
  BY <1>1 DEF Rounds
<1>3. ASSUME NEW u \in Nat, u < UnackedMax PROVE Rounds(u) + Round <= Rounds(UnackedMax)
  <2>1. PICK d \in Nat : UnackedMax = u + 1 + d
    <3>1. UnackedMax - (u + 1) \in Nat /\ UnackedMax = u + 1 + (UnackedMax - (u + 1))
      BY <1>3, StationConstants
    <3> QED
      BY <3>1
  <2>2. Rounds(UnackedMax) = Rounds(u) + Round + d * Round
    BY <1>1, <2>1 DEF Rounds
  <2>3. d * Round \in Nat /\ Rounds(u) \in Nat
    BY <1>1, <1>2
  <2> QED
    BY <1>1, <2>2, <2>3
<1> QED
  BY <1>1, <1>2, <1>3

\* Only a ping, an answer or a new session changes the account of silence.
LEMMA SilenceStep ==
  ASSUME RebootPause <= IterWork, MainBudget, Owner, SilenceInv, [Next]_vars
  PROVE  SilenceInv'
<1> USE StationConstants, WaitConstants DEF SilenceInv, Fresh, Counted, Pinging,
        Leaving, Serving, Connected
<1>a. /\ mainAge \in Nat /\ block \in Nat
      /\ pc \in {"live", "ping"} => mainAge + block <= IterWork
      /\ pc = "rest" => mainAge + block <= 2 * IterWork
  BY DEF MainBudget, Limit
<1>b. Round = ForcePing + 2 * IterWork /\ Rounds(UnackedMax) \in Nat
  BY RoundsAdd DEF Round
<1> USE <1>a, <1>b
<1>1. CASE SilenceReboot
  BY <1>1, RoundsAdd DEF SilenceReboot, At, GoTo, MainBump
<1>2. CASE WaitThread \/ WaitAttached \/ Settled
  BY <1>2 DEF WaitThread, WaitAttached, Settled, Dispatch, At, GoTo, MainBump, OnlyMain,
       SilenceAtTop
<1>3. CASE DnsStart \/ DnsOk \/ DnsFail \/ SntpReturns
  BY <1>3 DEF DnsStart, DnsOk, DnsFail, SntpReturns, Dispatch, At, GoTo, OnlyMain, SilenceAtTop
<1>4. CASE TlsStart \/ TlsOk \/ TlsFail
  BY <1>4 DEF TlsStart, TlsOk, TlsFail, Dispatch, At, GoTo, OnlyMain, SilenceAtTop
<1>5. CASE \E lost \in BOOLEAN : ConnackOk(lost)
  <2>1. /\ pc = "connack" /\ pc' = "top" /\ silence' = 0 /\ block' \in 0..IterWork
        /\ UNCHANGED <<unacked, pingAge>>
    BY <1>5 DEF ConnackOk, At, GoTo
  <2>2. \A x, y : x = 0 /\ y \in 0..IterWork => x + y <= IterWork
    OBVIOUS
  <2>3. silence' + block' <= IterWork
    BY <2>1, <2>2, Zenon
  <2> QED
    BY <2>1, <2>3
<1>6. CASE ConnackRefused \/ ConnackTimeout
  BY <1>6 DEF ConnackRefused, ConnackTimeout, At, GoTo, OnlyMain
<1>7. CASE EnterConnected
  BY <1>7, RoundsAdd DEF EnterConnected, Dispatch, SilenceAtTop, At, GoTo, MainBump
<1>8. CASE PollIdle
  BY <1>8, RoundsAdd DEF PollIdle, Poll, At, GoTo, MainBump
<1>9. CASE PollPingresp
  BY <1>9, RoundsAdd DEF PollPingresp, Poll, At, GoTo, MainBump
<1>10. CASE \E lost \in BOOLEAN : PollCommand(lost)
  BY <1>10, RoundsAdd DEF PollCommand, Poll, At, GoTo, MainBump
<1>11. CASE PollReset
  BY <1>11, RoundsAdd DEF PollReset, Poll, At, GoTo, MainBump
<1>12. CASE (\E secs \in 1..SleepMax : PollSleep(secs)) \/ PollDead
  BY <1>12, RoundsAdd DEF PollSleep, PollDead, Poll, At, GoTo, MainBump
<1>13. CASE Live
  BY <1>13 DEF Live, At, GoTo, OnlyMain, wdVars
<1>14. CASE LiveError \/ PingLost
  BY <1>14 DEF LiveError, PingLost, At, GoTo, OnlyMain
<1>15. CASE Ping
  BY <1>15, RoundsAdd DEF Ping, AfterPing, PingDue, Owner, At, GoTo, OnlyMain, wdVars
<1>16. CASE \E lost \in BOOLEAN : Rest(lost)
  BY <1>16, RoundsAdd DEF Rest, NextIteration, At, OnlyMain, wdVars
<1>17. CASE WebReboot
  BY <1>17, RoundsAdd DEF WebReboot, At, GoTo, OnlyMain
<1>18. CASE ErrorStart \/ ErrorDone
  BY <1>18 DEF ErrorStart, ErrorDone, Dispatch, At, GoTo, OnlyMain, SilenceAtTop
<1>19. CASE MainReboot \/ WorkqReboot \/ WatchdogReset
  BY <1>19 DEF MainReboot, WorkqReboot, WatchdogReset, Boot
<1>20. CASE SntpAnswer \/ OtRoleChange
  BY <1>20 DEF SntpAnswer, OtRoleChange, OnlyMain, wdVars
<1>21. CASE Tick
  BY <1>21, RoundsAdd DEF Tick, ClockTick
<1>22. CASE Background \/ UNCHANGED vars
  BY <1>22 DEF Background, FeederRun, WorkqJob, WorkqJobEnds, WdExpire, mainVars, vars, wdVars
<1> QED
  BY <1>1, <1>2, <1>3, <1>4, <1>5, <1>6, <1>7, <1>8, <1>9, <1>10, <1>11, <1>12, <1>13, <1>14,
     <1>15, <1>16, <1>17, <1>18, <1>19, <1>20, <1>21, <1>22
     DEF Next, MainStep

(* The relations of silence, pings and the time within an iteration hold in  *)
(* every run, if the pause before a reboot fits an iteration's limit.        *)
THEOREM StationCountsSilence ==
  ASSUME RebootPause <= IterWork
  PROVE  Spec => []SilenceInv
<1>1. Init => SilenceInv
  BY DEF Init, SilenceInv, Fresh, Counted, Pinging, Leaving, Serving, Connected
<1> QED
  BY <1>1, SilenceStep, StationBudget, StationOwner, PTL DEF Spec

(* A broker that says nothing is left after UnackedMax rounds of pings        *)
(* (main.cpp:3907-3912), though the inner loop never looks at the limit.      *)
THEOREM StationLeavesSilentBroker ==
  ASSUME RebootPause <= IterWork
  PROVE  Spec => []SilentBrokerIsLeft
<1>1. MainBudget /\ SilenceInv => SilentBrokerIsLeft
  <2> SUFFICES ASSUME MainBudget, SilenceInv, Connected
               PROVE  silence <= Rounds(UnackedMax) + 2 * IterWork
    BY DEF SilentBrokerIsLeft, Connected, Rounds, Round
  <2> USE StationConstants, WaitConstants, RoundsAdd DEF SilenceInv, Connected, Serving
  <2>1. /\ mainAge \in Nat /\ block \in Nat
        /\ pc \in {"live", "ping"} => mainAge <= IterWork
        /\ pc = "rest" => mainAge <= 2 * IterWork
    BY DEF MainBudget, Limit
  <2>2. CASE pc = "top"
    BY <2>1, <2>2 DEF Fresh
  <2>3. CASE Serving
    BY <2>1, <2>3 DEF Counted, Pinging, Round
  <2>4. CASE pc = "reboot"
    BY <2>1, <2>4 DEF Leaving
  <2> QED
    BY <2>2, <2>3, <2>4 DEF Leaving
<1> QED
  BY <1>1, StationCountsSilence, StationBudget, PTL

-----------------------------------------------------------------------------
\* A bump of main's mark finds the silence within the limit.
Quiet ==
  /\ silence \in Nat
  /\ pc \notin {"sleep", "reboot"} => silence <= SilenceTimeout + mainAge

LEMMA QuietStep ==
  ASSUME UnackedMax * Round + 2 * IterWork <= SilenceTimeout,
         MainBudget, Owner, SilentBrokerIsLeft, Quiet, [Next]_vars
  PROVE  Quiet'
<1> USE StationConstants, WaitConstants DEF Quiet
<1>a. /\ mainAge \in Nat
      /\ pc = "poll" => silence <= SilenceTimeout
  BY RoundsAdd DEF MainBudget, Owner, SilentBrokerIsLeft, Round, Rounds
<1> USE <1>a
<1>1. CASE SilenceReboot
  BY <1>1 DEF SilenceReboot, At, GoTo, MainBump
<1>2. CASE WaitThread \/ WaitAttached \/ Settled
  BY <1>2 DEF WaitThread, WaitAttached, Settled, Dispatch, At, GoTo, MainBump, OnlyMain,
       SilenceAtTop, SilenceOver, wdVars
<1>3. CASE DnsStart \/ DnsOk \/ DnsFail \/ SntpReturns
  BY <1>3 DEF DnsStart, DnsOk, DnsFail, SntpReturns, Dispatch, At, GoTo, OnlyMain,
       SilenceAtTop, SilenceOver, wdVars, MainBump
<1>4. CASE TlsStart \/ TlsOk \/ TlsFail
  BY <1>4 DEF TlsStart, TlsOk, TlsFail, Dispatch, At, GoTo, OnlyMain, SilenceAtTop,
       SilenceOver, wdVars, MainBump
<1>5. CASE \E lost \in BOOLEAN : ConnackOk(lost)
  BY <1>5 DEF ConnackOk, At, GoTo, OnlyMain, wdVars
<1>6. CASE ConnackRefused \/ ConnackTimeout
  BY <1>6 DEF ConnackRefused, ConnackTimeout, At, GoTo, OnlyMain, wdVars
<1>7. CASE EnterConnected
  BY <1>7 DEF EnterConnected, Dispatch, SilenceAtTop, At, GoTo, MainBump, SilenceOver
<1>8. CASE PollIdle
  BY <1>8 DEF PollIdle, Poll, At, GoTo, MainBump
<1>9. CASE PollPingresp
  BY <1>9 DEF PollPingresp, Poll, At, GoTo, MainBump
<1>10. CASE \E lost \in BOOLEAN : PollCommand(lost)
  BY <1>10 DEF PollCommand, Poll, At, GoTo, MainBump
<1>11. CASE PollReset
  BY <1>11 DEF PollReset, Poll, At, GoTo, MainBump
<1>12. CASE (\E secs \in 1..SleepMax : PollSleep(secs)) \/ PollDead
  BY <1>12 DEF PollSleep, PollDead, Poll, At, GoTo, MainBump
<1>13. CASE Live
  BY <1>13 DEF Live, At, GoTo, OnlyMain, wdVars
<1>14. CASE LiveError \/ PingLost
  BY <1>14 DEF LiveError, PingLost, At, GoTo, OnlyMain, wdVars
<1>15. CASE Ping
  BY <1>15 DEF Ping, AfterPing, PingDue, Owner, At, GoTo, OnlyMain, wdVars
<1>16. CASE \E lost \in BOOLEAN : Rest(lost)
  BY <1>16 DEF Rest, NextIteration, At, OnlyMain, wdVars
<1>17. CASE WebReboot
  BY <1>17 DEF WebReboot, At, GoTo, OnlyMain, wdVars
<1>18. CASE ErrorStart \/ ErrorDone
  BY <1>18 DEF ErrorStart, ErrorDone, Dispatch, At, GoTo, OnlyMain, SilenceAtTop,
       SilenceOver, wdVars, MainBump
<1>19. CASE MainReboot \/ WorkqReboot \/ WatchdogReset
  BY <1>19 DEF MainReboot, WorkqReboot, WatchdogReset, Boot, WdReboot
<1>20. CASE SntpAnswer \/ OtRoleChange
  BY <1>20 DEF SntpAnswer, OtRoleChange, OnlyMain, wdVars
<1>21. CASE Tick
  BY <1>21 DEF Tick, ClockTick
<1>22. CASE Background \/ UNCHANGED vars
  BY <1>22 DEF Background, FeederRun, WorkqJob, WorkqJobEnds, WdExpire, mainVars, vars, wdVars
<1> QED
  BY <1>1, <1>2, <1>3, <1>4, <1>5, <1>6, <1>7, <1>8, <1>9, <1>10, <1>11, <1>12, <1>13, <1>14,
     <1>15, <1>16, <1>17, <1>18, <1>19, <1>20, <1>21, <1>22
     DEF Next, MainStep

(* Broker silence never outlasts the limit by more than the longest chain of *)
(* calls between two looks at it (main.cpp:236-258), in every state, if the  *)
(* pings end a dead session before the limit does.                           *)
THEOREM StationBoundsSilence ==
  ASSUME UnackedMax * Round + 2 * IterWork <= SilenceTimeout, RebootPause <= IterWork
  PROVE  Spec => []SilenceBounded
<1>1. Init => Quiet
  BY StationConstants DEF Init, WdInit, Quiet
<1>2. MainBudget /\ Quiet => SilenceBounded
  BY BudgetBounds, StationConstants, WatchdogConstants DEF MainBudget, Quiet, SilenceBounded
<1> QED
  BY <1>1, <1>2, QuietStep, StationLeavesSilentBroker, StationBudget, StationOwner, PTL DEF Spec
=============================================================================
