-------------------------- MODULE SharedDataProofs --------------------------
(***************************************************************************)
(* Proofs about the three components that keep data in several places: the *)
(* clock in retained RAM, the settings in RAM, NVS, snapshot and file, the *)
(* radio's plan in the record and in the chip.                             *)
(*                                                                         *)
(* The clock is ahead of real time by no more than the RTC's drift,        *)
(* wherever a reset tears a save in two, and behind it by no more than     *)
(* drift, resets and torn saves explain, for any drift, width of the       *)
(* words, intervals and latencies.                                         *)
(*                                                                         *)
(* A stale file never takes a setting back and no write of the file        *)
(* destroys an edit, for any fields and values and any number of edits,    *)
(* updates, power cuts and failures of the drive.                          *)
(*                                                                         *)
(* A reconfiguration of the radio never mixes up packets or halves of the  *)
(* record, and leaves the radio receiving with its shift applied, for any  *)
(* set of plans, any number of commands and any range of shifts.           *)
(***************************************************************************)
EXTENDS Clock, ConfigSync, RadioConfig, TLAPS

\* -------------------------------- The clock --------------------------------
\* The saved words would be restored, or are being saved.
Kept == half # -1 \/ (magic /\ Saved > 0)

ClockNumbers ==
    /\ now \in Nat /\ steady \in 0..DriftPeriod
    /\ up \in Int /\ up >= -1 /\ down \in Nat /\ offset \in Int
    /\ lo \in 0..(Word - 1) /\ hi \in Nat /\ half \in Int /\ half >= -1
    /\ sinceSave \in 0..(SaveInterval + Hold)
    /\ queries \in Nat /\ held \in 0..Hold
    /\ lost \in Losses /\ savedLost \in Losses

ClockTypes ==
    /\ ClockNumbers
    /\ now >= Start /\ lost.set <= now /\ savedLost.set <= now
    /\ Running => down = 0
    /\ ~Running => /\ down <= BootTime /\ sinceSave = 0 /\ ~synced
                   /\ asking = {} /\ queries = 0 /\ lost = savedLost
    /\ Running /\ synced => Clock >= 0
    /\ Running /\ Kept => synced
    /\ half # -1 => Running /\ sinceSave = 0 /\ lo = half % Word
    /\ magic \/ hi = 0
    /\ "workq" \in asking => sinceSave <= SaveInterval + held

\* With a gain of x on real time a units after the clock was set and s units after the
\* RTC's last slip, the RTC has gained no more than its drift allows.
Within(x, a, s) == DriftPeriod * x + s <= a + DriftPeriod

\* What one warm reboot costs.
RebootLoss == SaveInterval + Hold + BootTime

\* How far an epoch c is ahead of and behind real time n, but for its losses.
Ahead(c, loss, n) == c + loss.torn * Word - n
Behind(c, loss, n) ==
    n - c - Latency - loss.reboots * RebootLoss - loss.torn * Word

\* An epoch between early and late that has been through such losses is right.
Right(early, late, loss, n, s) ==
    /\ Within(Behind(early, loss, n), n - loss.set, s)
    /\ Within(Ahead(late, loss, n), n - loss.set, s)

\* The epoch that the saved words stand for by now, at the earliest and at the latest.
SavedLatest == Saved + sinceSave
SavedEarliest == IF Running THEN Saved + sinceSave ELSE Saved + down - BootTime

ClockRight == Running /\ synced => Right(Clock, Clock, lost, now, steady)
SavedRight == Kept => Right(SavedEarliest, SavedLatest, savedLost, now, steady)

\* Without a runaway the next save is of no earlier time than the saved one, and no
\* torn save gains a turn.
NoGain ==
    ~runaway =>
        /\ Running /\ Kept => Clock + SaveInterval >= (IF half = -1 THEN SavedLatest ELSE half)
        /\ Running /\ synced => lost.torn >= 0
        /\ Kept => savedLost.torn >= 0
        /\ half # -1 => savedLost.torn - Turns(half) >= 0

ClockInv == ClockTypes /\ ClockRight /\ SavedRight /\ NoGain

-----------------------------------------------------------------------------
\* Splitting a number into words and putting it together.
LEMMA Words ==
    ASSUME NEW c \in Nat
    PROVE  /\ c \div Word \in Nat /\ c % Word \in 0..(Word - 1)
           /\ (c \div Word) * Word + (c % Word) = c
    BY ClockConstants

\* Turns add up.
LEMMA Turning ==
    ASSUME NEW p \in Int, NEW q \in Int
    PROVE  /\ p * Word \in Int /\ (p + q) * Word = p * Word + q * Word
           /\ (p - q) * Word = p * Word - q * Word
    BY ClockConstants

\* A high word is no larger than that of any number not below it.
LEMMA HighWord ==
    ASSUME NEW c \in Nat, NEW h \in Nat, h * Word <= c
    PROVE  h <= c \div Word
<1>1. SUFFICES ASSUME h >= (c \div Word) + 1 PROVE FALSE
    BY Words
<1>2. PICK d \in Nat : h = (c \div Word) + 1 + d
    <2>1. h - ((c \div Word) + 1) \in Nat
        BY <1>1, Words
    <2> QED
        BY <2>1, Words
<1>3. h * Word = (c \div Word) * Word + Word + d * Word /\ d * Word \in Nat
    BY <1>2, Words, ClockConstants
<1> QED
    BY <1>3, Words, ClockConstants

\* What a drift within bounds becomes in a step in which no unit slips, or one does.
LEMMA Moved ==
    ASSUME NEW x \in Int, NEW y \in Int, NEW a \in Int, NEW b \in Int,
           NEW s \in Int, NEW t \in Int,
           DriftPeriod * x + s <= a + DriftPeriod, a <= b,
           \/ y <= x /\ t <= s + (b - a)
           \/ y <= x + 1 /\ s = DriftPeriod /\ t = 0
    PROVE  DriftPeriod * y + t <= b + DriftPeriod
<1>1. ASSUME NEW u \in Int, NEW v \in Int, u <= v PROVE DriftPeriod * u <= DriftPeriod * v
    <2>1. DriftPeriod * (v - u) >= 0 /\ v - u \in Nat
        BY <1>1, ClockConstants
    <2>2. DriftPeriod * (v - u) = DriftPeriod * v - DriftPeriod * u
        BY ClockConstants
    <2> QED
        BY <2>1, <2>2, ClockConstants
<1>2. CASE y <= x /\ t <= s + (b - a)
    BY <1>1, <1>2, ClockConstants
<1>3. CASE y <= x + 1 /\ s = DriftPeriod /\ t = 0
    <2>1. DriftPeriod * y <= DriftPeriod * (x + 1)
        <3>1. x + 1 \in Int /\ y <= x + 1
            BY <1>3
        <3> QED
            BY <1>1, <3>1, Zenon
    <2>2. DriftPeriod * (x + 1) = DriftPeriod * x + DriftPeriod
        BY ClockConstants
    <2> QED
        BY <1>3, <2>1, <2>2, ClockConstants
<1> QED
    BY <1>2, <1>3

\* Losses are integers.
LEMMA Gaps ==
    ASSUME NEW loss \in Losses
    PROVE  loss.set \in Nat /\ loss.reboots * RebootLoss \in Nat /\ loss.torn * Word \in Int
    BY ClockConstants DEF Losses, RebootLoss

\* A right epoch stays right when real time passes by d units while the RTC counts u.
LEMMA RightLater ==
    ASSUME NEW loss \in Losses, NEW early \in Int, NEW late \in Int, NEW n \in Int,
           NEW s \in Int, NEW d \in {0, 1}, NEW u \in {0, 1}, NEW t \in Int,
           NEW e \in Int, NEW l \in Int,
           Right(early, late, loss, n, s),
           \/ d = 1 /\ u = 1 /\ t <= s + 1
           \/ d + u = 1 /\ s = DriftPeriod /\ t = 0,
           e >= early + u, l <= late + u
    PROVE  Right(e, l, loss, n + d, t)
<1> DEFINE x == Behind(early, loss, n)
           y == Behind(e, loss, n + d)
           v == Ahead(late, loss, n)
           w == Ahead(l, loss, n + d)
           a == n - loss.set
           b == (n + d) - loss.set
<1>1. n + d \in Int /\ a \in Int /\ b \in Int /\ b = a + d
    <2>1. loss.set \in Int
        BY DEF Losses
    <2> QED
        BY <2>1
<1>2. /\ x \in Int /\ y \in Int /\ v \in Int /\ w \in Int
      /\ y = x + ((n + d) - n) - (e - early) /\ w = v + (l - late) - ((n + d) - n)
    <2> HIDE DEF a, b
    <2>1. x \in Int /\ y \in Int /\ y = x + ((n + d) - n) - (e - early)
        <3>1. loss.torn * Word \in Int /\ loss.reboots * RebootLoss \in Int
            BY Gaps
        <3> QED
            BY <1>1, <3>1, ClockConstants DEF Behind
    <2>2. v \in Int /\ w \in Int /\ w = v + (l - late) - ((n + d) - n)
        <3>1. loss.torn * Word \in Int
            BY Gaps
        <3> QED
            BY <1>1, <3>1 DEF Ahead
    <2> QED
        BY <2>1, <2>2
<1>3. Within(x, a, s) /\ Within(v, a, s)
    BY DEF Right
<1> HIDE DEF x, y, v, w, a, b
<1>4. y <= x + d - u /\ w <= v + u - d
    BY <1>2
<1>5. Within(y, b, t)
    BY <1>1, <1>2, <1>3, <1>4, Moved DEF Within
<1>6. Within(w, b, t)
    BY <1>1, <1>2, <1>3, <1>4, Moved DEF Within
<1> QED
    BY <1>5, <1>6 DEF Right, y, w, b

\* A right epoch stays right when what it loses is counted.
LEMMA RightCounted ==
    ASSUME NEW loss \in Losses, NEW early \in Int, NEW late \in Int, NEW n \in Int,
           NEW s \in Int, NEW more \in Losses, NEW e \in Int, NEW l \in Int,
           Right(early, late, loss, n, s), more.set = loss.set,
           l + more.torn * Word <= late + loss.torn * Word,
           e + more.reboots * RebootLoss + more.torn * Word
               >= early + loss.reboots * RebootLoss + loss.torn * Word
    PROVE  Right(e, l, more, n, s)
<1> DEFINE x == Behind(early, loss, n)
           y == Behind(e, more, n)
           v == Ahead(late, loss, n)
           w == Ahead(l, more, n)
           a == n - loss.set
<1>1. /\ x \in Int /\ y \in Int /\ v \in Int /\ w \in Int /\ a \in Int
      /\ y <= x /\ w <= v
    <2>1. /\ loss.reboots * RebootLoss \in Int /\ loss.torn * Word \in Int /\ loss.set \in Int
          /\ more.reboots * RebootLoss \in Int /\ more.torn * Word \in Int
        BY Gaps
    <2> QED
        BY <2>1, ClockConstants DEF Ahead, Behind
<1>2. Within(x, a, s) /\ Within(v, a, s)
    BY DEF Right
<1> HIDE DEF x, y, v, w, a
<1>3. Within(y, a, s)
    BY <1>1, <1>2, Moved DEF Within
<1>4. Within(w, a, s)
    BY <1>1, <1>2, Moved DEF Within
<1> QED
    BY <1>3, <1>4 DEF Right, y, w, a

\* An epoch that is no later than now and no earlier than the latency explains is right.
LEMMA RightWhenSet ==
    ASSUME NEW n \in Nat, NEW t \in n - Latency..n, NEW s \in 0..DriftPeriod
    PROVE  Right(t, t, [set |-> n, reboots |-> 0, torn |-> 0], n, s)
<1> DEFINE loss == [set |-> n, reboots |-> 0, torn |-> 0]
<1>1. loss.set = n /\ loss.reboots = 0 /\ loss.torn = 0
    OBVIOUS
<1>2. t \in Int /\ Behind(t, loss, n) \in Int /\ Behind(t, loss, n) <= 0
      /\ Ahead(t, loss, n) \in Int /\ Ahead(t, loss, n) <= 0
    <2>1. 0 * RebootLoss = 0 /\ 0 * Word = 0
        BY ClockConstants DEF RebootLoss
    <2> QED
        BY <1>1, <2>1, ClockConstants DEF Behind, Ahead
<1>3. DriftPeriod * 0 + s <= 0 + DriftPeriod
    BY ClockConstants
<1> HIDE DEF loss
<1>4. DriftPeriod * Behind(t, loss, n) + s <= 0 + DriftPeriod
    BY <1>2, <1>3, Moved
<1>5. DriftPeriod * Ahead(t, loss, n) + s <= 0 + DriftPeriod
    BY <1>2, <1>3, Moved
<1> QED
    BY <1>1, <1>4, <1>5 DEF Right, Within, loss

\* A gain within bounds is at most the drift in the properties.
LEMMA DriftBound ==
    ASSUME NEW x \in Int, NEW a \in Nat, NEW s \in Nat, Within(x, a, s)
    PROVE  x <= Drift(a)
<1> DEFINE q == a \div DriftPeriod
<1>1. q \in Nat /\ a < DriftPeriod * q + DriftPeriod
    BY ClockConstants
<1>2. DriftPeriod * x < DriftPeriod * (q + 2)
    <2>1. DriftPeriod * x <= a + DriftPeriod
        BY ClockConstants DEF Within
    <2>2. DriftPeriod * (q + 2) = DriftPeriod * q + DriftPeriod + DriftPeriod
        BY <1>1, ClockConstants
    <2> HIDE DEF q
    <2> QED
        BY <1>1, <2>1, <2>2, ClockConstants
<1> HIDE DEF q
<1>3. x < q + 2
    <2>1. SUFFICES ASSUME x - (q + 2) \in Nat PROVE FALSE
        BY <1>1
    <2>2. DriftPeriod * (x - (q + 2)) >= 0
        BY <2>1, ClockConstants
    <2>3. DriftPeriod * (x - (q + 2)) = DriftPeriod * x - DriftPeriod * (q + 2)
        BY <1>1, ClockConstants
    <2> QED
        BY <1>1, <1>2, <2>2, <2>3, ClockConstants
<1> QED
    BY <1>1, <1>3 DEF Drift, q

\* The numbers the invariant is about are integers.
LEMMA ClockInts ==
    ASSUME ClockTypes
    PROVE  /\ Saved \in Nat /\ Clock \in Int /\ RebootLoss \in Nat
           /\ now - lost.set \in Nat /\ now - savedLost.set \in Nat
           /\ SavedLatest \in Int /\ SavedEarliest \in Int
<1>1. hi * Word \in Nat /\ Saved \in Nat /\ Clock \in Int /\ RebootLoss \in Nat
    BY ClockConstants DEF ClockTypes, ClockNumbers, Saved, Clock, RebootLoss
<1>2. SavedLatest \in Int /\ SavedEarliest \in Int
    BY <1>1, ClockConstants DEF ClockTypes, ClockNumbers, SavedLatest, SavedEarliest
<1> QED
    BY <1>1, <1>2 DEF ClockTypes, ClockNumbers, Losses

-----------------------------------------------------------------------------
\* Power-on satisfies the invariant.
LEMMA ClockInvInit == ClockInit => ClockInv
<1> SUFFICES ASSUME ClockInit PROVE ClockInv
    OBVIOUS
<1>1. Saved = 0 /\ ~Kept /\ ~Running
    BY ClockConstants DEF ClockInit, Saved, Kept, Running
<1>2. NoLoss(0) \in Losses /\ NoLoss(0).set = 0
    BY DEF NoLoss, Losses
<1>3. ClockNumbers
    BY <1>2, ClockConstants DEF ClockInit, ClockNumbers
<1>4. ClockTypes
    BY <1>1, <1>2, <1>3, ClockConstants DEF ClockInit, ClockTypes
<1> QED
    BY <1>1, <1>4 DEF ClockInit, ClockInv, ClockRight, SavedRight, NoGain

\* While time may pass no save is due or under way, or the resync holds the workqueue.
LEMMA TimersStep ==
    ASSUME ClockTypes, Tick \/ Slip
    PROVE  ClockTypes' /\ half' = half /\ half = -1 /\ Saved' = Saved /\ Kept' = Kept
           /\ UNCHANGED <<lost, savedLost, runaway, synced, magic>>
<1> USE DEF ClockTypes, ClockNumbers, Running, TimeMayPass, RealTimePasses, UptimePasses,
            bootVars, sntpVars, noinit, history
<1>1. /\ half' = half /\ half = -1 /\ lo' = lo /\ hi' = hi
      /\ UNCHANGED <<lost, savedLost, runaway, magic, synced, asking, queries, offset>>
    BY DEF Tick, Slip
<1>2. Saved' = Saved /\ Kept' = Kept
    BY <1>1 DEF Saved, Kept
<1>3. steady' \in 0..DriftPeriod /\ now' \in Nat /\ now' >= now
    BY ClockConstants DEF Tick, Slip
<1>4. \/ UNCHANGED <<up, down, sinceSave, held>>
      \/ /\ Running /\ up' = up + 1 /\ down' = down /\ sinceSave' = sinceSave + 1
         /\ held' = IF "workq" \in asking THEN held + 1 ELSE 0
      \/ /\ ~Running /\ down' = down + 1 /\ UNCHANGED <<up, sinceSave, held>>
    BY DEF Tick, Slip
<1>5. sinceSave' \in 0..(SaveInterval + Hold) /\ held' \in 0..Hold
      /\ ("workq" \in asking => sinceSave' <= SaveInterval + held')
    BY <1>4, ClockConstants DEF Tick, Slip, SaveDue
<1>6. (Running' <=> Running) /\ up' \in Int /\ up' >= -1 /\ down' \in Nat
    BY <1>4
<1>7. (Running => down' = 0) /\ (~Running => down' <= BootTime /\ sinceSave' = 0)
    BY <1>4, ClockConstants DEF Tick, Slip
<1>8. Running /\ synced => Clock' >= 0
    BY <1>1, <1>4 DEF Clock
<1>9. ClockNumbers'
    BY <1>1, <1>3, <1>5, <1>6
<1>10. ClockTypes'
    <2> HIDE DEF ClockNumbers
    <2>1. (lost.set <= now)' /\ (savedLost.set <= now)' /\ (now >= Start)'
        BY <1>1, <1>3, ClockConstants DEF ClockNumbers, Losses
    <2>2. ((Running /\ Kept) => synced)' /\ (magic \/ hi = 0)'
          /\ (half # -1 => Running /\ sinceSave = 0 /\ lo = half % Word)'
        BY <1>1, <1>2, <1>6, Zenon DEF Running
    <2> QED
        BY <1>1, <1>5, <1>6, <1>7, <1>8, <1>9, <2>1, <2>2
<1> QED
    BY <1>1, <1>2, <1>10, Zenon

\* Time passes by d units while the RTC counts u.
LEMMA TimeIs ==
    ASSUME ClockTypes, Tick \/ Slip
    PROVE  \E d, u \in {0, 1} :
               /\ now' = now + d
               /\ Running => Clock' = Clock + u /\ sinceSave' = sinceSave + u
               /\ ~Running => down' = down + u /\ sinceSave' = sinceSave
               /\ \/ d = 1 /\ u = 1 /\ steady' <= steady + 1
                  \/ d + u = 1 /\ steady = DriftPeriod /\ steady' = 0
<1> USE DEF ClockTypes, ClockNumbers, Running, RealTimePasses, UptimePasses, bootVars, sntpVars, Clock
<1>1. CASE Tick
    <2>1. /\ now' = now + 1 /\ steady' <= steady + 1
          /\ Running => Clock' = Clock + 1 /\ sinceSave' = sinceSave + 1
          /\ ~Running => down' = down + 1 /\ sinceSave' = sinceSave
        BY <1>1, ClockConstants DEF Tick
    <2> QED
        BY <2>1
<1>2. CASE Slip
    <2>1. CASE RealTimePasses /\ UNCHANGED bootVars
        <3>1. /\ now' = now + 1 /\ steady = DriftPeriod /\ steady' = 0
              /\ Running => Clock' = Clock + 0 /\ sinceSave' = sinceSave + 0
              /\ ~Running => down' = down + 0 /\ sinceSave' = sinceSave
            BY <1>2, <2>1 DEF Slip
        <3> QED
            BY <3>1
    <2>2. CASE UptimePasses /\ UNCHANGED now
        <3>1. /\ now' = now + 0 /\ steady = DriftPeriod /\ steady' = 0
              /\ Running => Clock' = Clock + 1 /\ sinceSave' = sinceSave + 1
              /\ ~Running => down' = down + 1 /\ sinceSave' = sinceSave
            BY <1>2, <2>2 DEF Slip
        <3> QED
            BY <3>1
    <2> QED
        BY <1>2, <2>1, <2>2 DEF Slip
<1> QED
    BY <1>1, <1>2

\* The clock and the saved words move with the RTC.
LEMMA TimeStep == ASSUME ClockInv, Tick \/ Slip PROVE ClockInv'
<1>1. /\ ClockTypes /\ ClockTypes' /\ half' = half /\ half = -1 /\ Saved' = Saved
      /\ (Kept' <=> Kept) /\ UNCHANGED <<lost, savedLost, runaway, synced, magic>>
    BY TimersStep DEF ClockInv
<1>2. PICK d \in {0, 1}, u \in {0, 1} :
               /\ now' = now + d
               /\ Running => Clock' = Clock + u /\ sinceSave' = sinceSave + u
               /\ ~Running => down' = down + u /\ sinceSave' = sinceSave
               /\ \/ d = 1 /\ u = 1 /\ steady' <= steady + 1
                  \/ d + u = 1 /\ steady = DriftPeriod /\ steady' = 0
    BY <1>1, TimeIs
<1>3. (Running' <=> Running)
    BY DEF Tick, Slip, UptimePasses, bootVars, Running, ClockInv, ClockTypes, ClockNumbers
<1>4. /\ now \in Int /\ sinceSave \in Int /\ down \in Int /\ steady \in Int /\ steady' \in Int
      /\ lost \in Losses /\ savedLost \in Losses /\ Clock \in Int /\ Saved \in Int
    BY <1>1, ClockInts DEF ClockTypes, ClockNumbers
<1>5. ClockRight'
    <2>1. SUFFICES ASSUME Running, synced
                   PROVE  Right(Clock', Clock', lost, now + d, steady')
        BY <1>1, <1>2, <1>3 DEF ClockRight
    <2>2. Right(Clock, Clock, lost, now, steady)
        BY <2>1 DEF ClockInv, ClockRight
    <2>3. Clock' = Clock + u /\ Clock + u \in Int
        BY <1>2, <1>4, <2>1
    <2>4. Right(Clock + u, Clock + u, lost, now + d, steady')
        BY <1>2, <1>4, <2>2, <2>3, RightLater
    <2> QED
        BY <2>3, <2>4
<1>6. SavedRight'
    <2>1. SUFFICES ASSUME Kept
                   PROVE  Right(SavedEarliest', SavedLatest', savedLost, now + d, steady')
        BY <1>1, <1>2 DEF SavedRight
    <2>2. Right(SavedEarliest, SavedLatest, savedLost, now, steady)
        BY <2>1 DEF ClockInv, SavedRight
    <2>3. /\ SavedLatest \in Int /\ SavedEarliest \in Int
          /\ SavedLatest' \in Int /\ SavedEarliest' \in Int
          /\ SavedEarliest' >= SavedEarliest + u /\ SavedLatest' <= SavedLatest + u
        BY <1>1, <1>2, <1>3, <1>4, ClockConstants DEF SavedLatest, SavedEarliest
    <2> QED
        BY <1>2, <1>4, <2>2, <2>3, RightLater
<1>7. NoGain'
    <2>1. (Running /\ Kept => Clock + SaveInterval >= (IF half = -1 THEN SavedLatest ELSE half))
          => (Running /\ Kept => Clock + SaveInterval >= (IF half = -1 THEN SavedLatest ELSE half))'
        BY <1>1, <1>2, <1>3, <1>4, ClockConstants DEF SavedLatest
    <2> QED
        BY <1>1, <1>3, <2>1, Zenon DEF ClockInv, NoGain
<1> QED
    BY <1>1, <1>5, <1>6, <1>7 DEF ClockInv

\* The clock that is restored is the saved one; the boot is part of its losses.
LEMMA RestoreStep == ClockInv /\ Restore => ClockInv'
<1> SUFFICES ASSUME ClockInv, Restore PROVE ClockInv'
    OBVIOUS
<1> USE DEF Restore, sntpVars, noinit, history
<1>1. ClockTypes /\ Saved \in Nat /\ Saved' = Saved /\ (Kept' <=> Kept)
    BY ClockInts DEF ClockInv, Saved, Kept
<1>2. /\ ~Running /\ down \in 0..BootTime /\ sinceSave = 0 /\ ~synced /\ lost = savedLost
      /\ Running' /\ half' = half /\ half = -1 /\ asking = {}
    BY <1>1 DEF ClockTypes, ClockNumbers, Running
<1>3. magic /\ Saved > 0 => Clock' = Saved
    BY <1>1, <1>2 DEF Clock
<1>4. synced' => magic /\ Saved > 0
    BY <1>2
<1>5. ClockTypes'
    <2>1. offset' \in Int
        BY <1>1, <1>2 DEF ClockTypes, ClockNumbers
    <2>2. ClockNumbers'
        BY <1>1, <1>2, <2>1, ClockConstants DEF ClockTypes, ClockNumbers
    <2>3. ((Running /\ Kept) => synced)'
        BY <1>1, <1>2 DEF Kept
    <2>4. ((Running /\ synced) => Clock >= 0)'
        BY <1>1, <1>3, <1>4
    <2> QED
        BY <1>1, <1>2, <2>2, <2>3, <2>4 DEF ClockTypes
<1>6. Kept => Right(Saved, Saved, savedLost, now, steady)
    <2>1. SUFFICES ASSUME Kept PROVE Right(Saved, Saved, savedLost, now, steady)
        OBVIOUS
    <2>2. Right(SavedEarliest, SavedLatest, savedLost, now, steady)
        BY <2>1 DEF ClockInv, SavedRight
    <2>3. SavedLatest = Saved /\ SavedEarliest <= Saved /\ SavedEarliest \in Int
        BY <1>1, <1>2, ClockConstants DEF SavedLatest, SavedEarliest
    <2>4. now \in Int /\ steady \in Int /\ savedLost \in Losses
        BY <1>1 DEF ClockTypes, ClockNumbers
    <2>5. savedLost.torn * Word \in Int /\ savedLost.reboots * RebootLoss \in Int
        BY <2>4, Gaps
    <2> QED
        BY <1>1, <2>2, <2>3, <2>4, <2>5, RightCounted
<1>7. ClockRight'
    BY <1>2, <1>3, <1>4, <1>6 DEF ClockRight, Kept
<1>8. SavedRight'
    <2>1. SavedEarliest' = Saved /\ SavedLatest' = Saved
        BY <1>1, <1>2 DEF SavedEarliest, SavedLatest
    <2> QED
        BY <1>1, <1>6, <2>1 DEF SavedRight
<1>9. NoGain'
    <2>1. Kept => Clock' + SaveInterval >= SavedLatest'
        BY <1>1, <1>2, <1>3, ClockConstants DEF SavedLatest, Kept
    <2>2. synced' => Kept
        BY <1>4 DEF Kept
    <2> QED
        BY <1>1, <1>2, <2>1, <2>2, Zenon DEF ClockInv, NoGain
<1> QED
    BY <1>5, <1>7, <1>8, <1>9 DEF ClockInv

\* A save that begins: if it is torn, the saved words stand for the clock less the turns.
LEMMA SaveBeginsStep == ClockInv /\ SaveBegins => ClockInv'
<1> SUFFICES ASSUME ClockInv, SaveBegins PROVE ClockInv'
    OBVIOUS
<1> USE DEF SaveBegins, sntpVars, noinit
<1>1. /\ ClockTypes /\ Running /\ half = -1 /\ sinceSave >= SaveInterval /\ down = 0
      /\ "workq" \notin asking
    BY DEF ClockInv, ClockTypes, SaveDue
<1>2. CASE synced
    <2> DEFINE T == Turns(Clock)
    <2>1. Clock \in Nat /\ hi \in Nat /\ lost \in Losses /\ now \in Int /\ steady \in Int
          /\ Saved \in Nat
        BY <1>1, <1>2, ClockInts DEF ClockTypes, ClockNumbers
    <2>2. /\ half' = Clock /\ lo' = Clock % Word /\ hi' = hi /\ Clock' = Clock /\ sinceSave' = 0
          /\ savedLost' = [lost EXCEPT !.torn = @ + T] /\ Running' /\ Kept'
        BY <1>1, <1>2, <2>1 DEF SaveFirst, Clock, Running, Kept
    <2>3. /\ T \in Int /\ Clock % Word \in 0..(Word - 1)
          /\ hi * Word + (Clock % Word) + T * Word = Clock
        <3>1. Clock \div Word \in Nat /\ Clock % Word \in 0..(Word - 1)
              /\ (Clock \div Word) * Word + (Clock % Word) = Clock
            BY <2>1, Words
        <3>2. ((Clock \div Word) - hi) * Word = (Clock \div Word) * Word - hi * Word
              /\ hi * Word \in Int /\ (Clock \div Word) * Word \in Int
            BY <2>1, <3>1, Turning
        <3> QED
            BY <2>1, <3>1, <3>2 DEF Turns
    <2>4. /\ savedLost' \in Losses /\ savedLost'.set = lost.set
          /\ savedLost'.reboots = lost.reboots /\ savedLost'.torn = lost.torn + T
        BY <2>1, <2>2, <2>3 DEF Losses
    <2> HIDE DEF T
    <2>5. ClockTypes'
        <3>1. ClockNumbers'
            BY <1>1, <1>2, <2>1, <2>2, <2>3, <2>4, ClockConstants DEF ClockTypes, ClockNumbers
        <3>2. lost.set <= now /\ savedLost'.set <= now
            BY <1>1, <2>4 DEF ClockTypes
        <3>3. magic' = magic /\ asking' = asking /\ now' = now /\ synced' = synced
              /\ down' = down /\ lost' = lost /\ half' # -1
            BY <1>2, <2>1, <2>2
        <3> QED
            BY <1>1, <1>2, <2>1, <2>2, <3>1, <3>2, <3>3 DEF ClockTypes
    <2>6. Right(Clock, Clock, lost, now, steady)
        BY <1>1, <1>2 DEF ClockInv, ClockRight
    <2>7. ClockRight'
        BY <2>2, <2>6 DEF ClockRight
    <2>8. SavedRight'
        <3>1. Saved' = hi * Word + (Clock % Word) /\ Saved' \in Int
            BY <2>1, <2>2, <2>3, ClockConstants DEF Saved
        <3>2. SavedEarliest' = Saved' /\ SavedLatest' = Saved'
            BY <2>2, <3>1 DEF SavedEarliest, SavedLatest
        <3>3. /\ lost.torn * Word \in Int /\ lost.reboots * RebootLoss \in Int
              /\ savedLost'.torn * Word = lost.torn * Word + T * Word
            <4>1. (lost.torn + T) * Word = lost.torn * Word + T * Word
                BY <2>1, <2>3, Turning DEF Losses
            <4> QED
                BY <2>1, <2>4, <4>1, Gaps
        <3>4. T * Word \in Int
            BY <2>3, Turning
        <3>5. /\ Saved' + savedLost'.torn * Word = Clock + lost.torn * Word
              /\ savedLost'.reboots * RebootLoss = lost.reboots * RebootLoss
            BY <2>1, <2>3, <2>4, <3>1, <3>3, <3>4
        <3>6. Right(Saved', Saved', savedLost', now, steady)
            <4>1. savedLost'.torn * Word \in Int
                BY <2>4, Gaps
            <4> DEFINE more == savedLost'
                       e == Saved'
            <4>2. /\ more \in Losses /\ e \in Int /\ more.set = lost.set
                  /\ e + more.torn * Word <= Clock + lost.torn * Word
                  /\ e + more.reboots * RebootLoss + more.torn * Word
                         >= Clock + lost.reboots * RebootLoss + lost.torn * Word
                BY <2>1, <2>4, <3>1, <3>3, <3>5, <4>1
            <4> HIDE DEF more, e, SaveBegins
            <4>3. Right(e, e, more, now, steady)
                BY <2>1, <2>6, <4>2, RightCounted
            <4> QED
                BY <4>3 DEF more, e
        <3> QED
            BY <2>2, <3>2, <3>6 DEF SavedRight
    <2>9. NoGain'
        <3>1. SUFFICES ASSUME ~runaway
                       PROVE  /\ Clock + SaveInterval >= Clock /\ lost.torn >= 0
                              /\ savedLost'.torn >= 0
                              /\ savedLost'.torn - Turns(Clock)' >= 0
            BY <2>1, <2>2 DEF NoGain
        <3>2. lost.torn >= 0
            BY <1>1, <1>2, <3>1 DEF ClockInv, NoGain
        <3>3. T >= 0
            <4>1. hi * Word <= Clock
                <5>1. CASE Kept
                    <6>1. Clock + SaveInterval >= Saved + sinceSave
                        BY <1>1, <3>1, <5>1 DEF ClockInv, NoGain, SavedLatest
                    <6> QED
                        BY <1>1, <2>1, <6>1, ClockConstants DEF Saved, ClockTypes, ClockNumbers
                <5>2. CASE ~Kept
                    <6>1. hi = 0 \/ Saved = 0
                        BY <1>1, <2>1, <5>2 DEF Kept, ClockTypes
                    <6>2. hi * Word <= Saved /\ (hi = 0 => hi * Word = 0)
                        BY <1>1, <2>1, ClockConstants DEF Saved, ClockTypes, ClockNumbers
                    <6> QED
                        BY <2>1, <6>1, <6>2, ClockConstants
                <5> QED
                    BY <5>1, <5>2
            <4> QED
                BY <2>1, <4>1, HighWord, Words DEF T, Turns
        <3>4. Turns(Clock)' = T
            BY <2>2 DEF T, Turns
        <3> QED
            BY <2>1, <2>3, <2>4, <3>2, <3>3, <3>4, ClockConstants DEF Losses
    <2> QED
        BY <2>5, <2>7, <2>8, <2>9 DEF ClockInv
<1>3. CASE ~synced
    <2>1. /\ ~Kept /\ ~Kept' /\ ~synced' /\ half' = -1
          /\ UNCHANGED <<now, steady, up, down, offset, held, queries, lo, hi, magic, asking,
                         lost, savedLost>> /\ sinceSave' = 0
        BY <1>1, <1>3 DEF ClockTypes, Kept, Saved
    <2>2. ClockNumbers'
        BY <1>1, <2>1, ClockConstants DEF ClockTypes, ClockNumbers
    <2>3. Running'
        BY <1>1, <2>1 DEF Running
    <2>4. ClockTypes'
        BY <1>1, <2>1, <2>2, <2>3 DEF ClockTypes
    <2> QED
        BY <2>1, <2>4 DEF ClockInv, ClockRight, SavedRight, NoGain
<1> QED
    BY <1>2, <1>3

\* A save that ends has saved the epoch with which it began, and lost no turn.
LEMMA SaveEndsStep == ClockInv /\ SaveEnds => ClockInv'
<1> SUFFICES ASSUME ClockInv, SaveEnds PROVE ClockInv'
    OBVIOUS
<1> USE DEF SaveEnds, bootVars, sntpVars
<1>1. /\ ClockTypes /\ Running /\ half \in Nat /\ lo = half % Word /\ sinceSave = 0 /\ Kept
      /\ synced
    BY DEF ClockInv, ClockTypes, ClockNumbers, Kept
<1> DEFINE T == Turns(half)
<1>2. /\ hi \in Nat /\ savedLost \in Losses /\ now \in Int /\ steady \in Int /\ Saved \in Nat
      /\ Saved = hi * Word + lo /\ down = 0
    BY <1>1, ClockInts DEF ClockTypes, ClockNumbers, Saved
<1>3. /\ half \div Word \in Nat /\ half % Word \in 0..(Word - 1)
      /\ (half \div Word) * Word + (half % Word) = half
    BY <1>1, Words
<1>4. T \in Int /\ Saved + T * Word = half /\ T * Word \in Int
    <2>1. ((half \div Word) - hi) * Word = (half \div Word) * Word - hi * Word
          /\ hi * Word \in Int /\ (half \div Word) * Word \in Int /\ T \in Int
        BY <1>2, <1>3, Turning DEF Turns
    <2>2. T * Word \in Int
        BY <2>1, Turning
    <2> QED
        BY <1>1, <1>2, <1>3, <2>1, <2>2 DEF Turns
<1>5. /\ half' = -1 /\ hi' = half \div Word /\ lo' = half % Word /\ Saved' = half /\ magic'
      /\ savedLost' = [savedLost EXCEPT !.torn = @ - T] /\ Clock' = Clock
      /\ (Running' <=> Running) /\ sinceSave' = 0
    BY <1>1, <1>3 DEF Saved, Clock, Running
<1>6. /\ savedLost' \in Losses /\ savedLost'.set = savedLost.set
      /\ savedLost'.reboots = savedLost.reboots /\ savedLost'.torn = savedLost.torn - T
    BY <1>2, <1>4, <1>5 DEF Losses
<1> HIDE DEF T
<1>7. ClockTypes'
    <2>1. ClockNumbers'
        BY <1>1, <1>3, <1>5, <1>6, ClockConstants DEF ClockTypes, ClockNumbers
    <2>2. lost'.set <= now' /\ savedLost'.set <= now'
        BY <1>1, <1>6 DEF ClockTypes
    <2>3. asking' = asking /\ now' = now /\ synced' /\ down' = down /\ held' = held
        BY <1>1
    <2> QED
        BY <1>1, <1>5, <2>1, <2>2, <2>3 DEF ClockTypes
<1>8. ClockRight'
    <2>1. UNCHANGED <<lost, now, steady, synced>>
        OBVIOUS
    <2> QED
        BY <1>5, <2>1 DEF ClockInv, ClockRight
<1>9. SavedRight'
    <2>1. Right(SavedEarliest, SavedLatest, savedLost, now, steady)
          /\ SavedEarliest = Saved /\ SavedLatest = Saved
        BY <1>1, <1>2 DEF ClockInv, SavedRight, SavedEarliest, SavedLatest
    <2>2. SavedEarliest' = half /\ SavedLatest' = half
        BY <1>1, <1>5 DEF SavedEarliest, SavedLatest
    <2>3. savedLost'.torn * Word = savedLost.torn * Word - T * Word
          /\ savedLost.torn * Word \in Int /\ savedLost.reboots * RebootLoss \in Int
        <3>1. (savedLost.torn - T) * Word = savedLost.torn * Word - T * Word
            BY <1>2, <1>4, Turning DEF Losses
        <3> QED
            BY <1>2, <1>6, <3>1, Gaps
    <2> DEFINE more == savedLost'
    <2>4. /\ more \in Losses /\ more.set = savedLost.set
          /\ half + more.torn * Word <= Saved + savedLost.torn * Word
          /\ half + more.reboots * RebootLoss + more.torn * Word
                 >= Saved + savedLost.reboots * RebootLoss + savedLost.torn * Word
        BY <1>1, <1>2, <1>4, <1>6, <2>3
    <2> HIDE DEF more, SaveEnds
    <2>5. Right(half, half, more, now, steady)
        BY <1>1, <1>2, <2>1, <2>4, RightCounted
    <2>6. UNCHANGED <<now, steady>>
        BY DEF SaveEnds
    <2> QED
        BY <2>2, <2>5, <2>6 DEF SavedRight, more
<1>10. NoGain'
    <2>1. SUFFICES ASSUME ~runaway
                   PROVE  /\ Clock + SaveInterval >= SavedLatest' /\ lost.torn >= 0
                          /\ savedLost'.torn >= 0
        BY <1>1, <1>5 DEF NoGain
    <2>2. Clock + SaveInterval >= half /\ lost.torn >= 0 /\ savedLost.torn - T >= 0
        BY <1>1, <2>1 DEF ClockInv, NoGain, T
    <2> QED
        BY <1>1, <1>5, <1>6, <2>2 DEF SavedLatest
<1> QED
    BY <1>7, <1>8, <1>9, <1>10 DEF ClockInv

\* An answer is at most Latency old; unless a runaway is noted, the saved words are
\* then not too far ahead.
LEMMA AnswerStep == ClockInv /\ SntpAnswer => ClockInv'
<1> SUFFICES ASSUME ClockInv, SntpAnswer PROVE ClockInv'
    OBVIOUS
<1>1. PICK t \in now - Latency..now : Adopt(t)
    BY DEF SntpAnswer
<1>2. ClockTypes /\ Running /\ Saved \in Nat /\ SavedLatest \in Int /\ SavedEarliest \in Int
    BY ClockInts DEF ClockInv, ClockTypes, SntpAnswer, ClockNumbers
<1>3. /\ now \in Nat /\ now >= Start /\ steady \in 0..DriftPeriod /\ up \in Int /\ t \in Int
      /\ savedLost \in Losses /\ half \in Int /\ sinceSave \in Nat /\ hi \in Nat
      /\ now - Latency <= t /\ t <= now
    BY <1>1, <1>2, ClockConstants DEF ClockTypes, ClockNumbers
<1>4. /\ UNCHANGED <<now, steady, up, down, sinceSave, asking, held, magic, lo, hi, half,
                     savedLost>>
      /\ lost' = [set |-> now, reboots |-> 0, torn |-> 0] /\ synced' /\ queries' = queries - 1
      /\ queries > 0
    BY DEF SntpAnswer, noinit, NoLoss
<1>5. offset' = t - up /\ Clock' = t /\ t >= 0
    BY <1>1, <1>3, <1>4, ClockConstants, LatencyIsShort DEF Adopt, Clock
<1>6. (Running' <=> Running) /\ Saved' = Saved /\ SavedLatest' = SavedLatest
      /\ SavedEarliest' = SavedEarliest /\ (Kept' <=> Kept)
    BY <1>4 DEF Running, Saved, SavedLatest, SavedEarliest, Kept
<1>7. lost' \in Losses /\ lost'.torn = 0 /\ lost'.set = now
    BY <1>3, <1>4 DEF Losses
<1>8. ClockTypes'
    <2>1. ClockNumbers'
        BY <1>2, <1>3, <1>4, <1>5, <1>7 DEF ClockTypes, ClockNumbers
    <2> QED
        BY <1>2, <1>3, <1>4, <1>5, <1>6, <1>7, <2>1 DEF ClockTypes
<1>9. ClockRight'
    <2>1. Right(t, t, [set |-> now, reboots |-> 0, torn |-> 0], now, steady)
        BY <1>1, <1>3, RightWhenSet
    <2> QED
        BY <1>4, <1>5, <2>1 DEF ClockRight
<1>10. SavedRight'
    BY <1>4, <1>6 DEF ClockInv, SavedRight
<1>11. NoGain'
    <2>1. SUFFICES ASSUME ~runaway, Kept => Latency + Drift(now - savedLost.set) <= SaveInterval
                   PROVE  /\ Kept => t + SaveInterval >= (IF half = -1 THEN SavedLatest ELSE half)
                          /\ Kept => savedLost.torn >= 0
                          /\ half # -1 => savedLost.torn - Turns(half) >= 0
        <3>1. runaway' <=> (runaway \/ (Stored /\ Latency + Drift(now - savedLost.set) > SaveInterval))
            BY DEF SntpAnswer
        <3>2. Kept => Stored
            BY DEF Kept, Stored
        <3>3. Drift(now - savedLost.set) \in Int
            BY <1>3, ClockConstants DEF Drift, Losses
        <3>4. Turns(half)' = Turns(half)
            BY <1>4 DEF Turns
        <3> QED
            BY <1>2, <1>3, <1>4, <1>5, <1>6, <1>7, <3>1, <3>2, <3>3, <3>4, ClockConstants DEF NoGain
    <2>2. /\ Kept => savedLost.torn >= 0
          /\ half # -1 => savedLost.torn - Turns(half) >= 0
        BY <2>1 DEF ClockInv, NoGain
    <2>3. ASSUME Kept
          PROVE  t + SaveInterval >= (IF half = -1 THEN SavedLatest ELSE half)
        <3> DEFINE a == now - savedLost.set
                   w == Ahead(SavedLatest, savedLost, now)
        <3>1. a \in Nat
            BY <1>2, <1>3 DEF ClockTypes, Losses
        <3>2. savedLost.torn \in Int /\ savedLost.torn * Word \in Int /\ w \in Int
              /\ w = SavedLatest + savedLost.torn * Word - now
            BY <1>2, <1>3, Gaps DEF Ahead, Losses
        <3>3. Within(w, a, steady)
            BY <2>3 DEF ClockInv, SavedRight, Right
        <3> HIDE DEF w, a
        <3>4. w <= Drift(a)
            BY <1>3, <3>1, <3>2, <3>3, DriftBound
        <3>5. Latency + Drift(a) <= SaveInterval /\ Drift(a) \in Int
            BY <2>1, <2>3, <3>1, ClockConstants DEF a, Drift
        <3>6. SavedLatest + savedLost.torn * Word <= t + SaveInterval
            BY <1>2, <1>3, <3>2, <3>4, <3>5, ClockConstants
        <3>7. CASE half = -1
            <4>1. savedLost.torn * Word >= 0
                <5>1. savedLost.torn \in Nat
                    BY <2>2, <2>3, <3>2
                <5> QED
                    BY <5>1, ClockConstants
            <4> QED
                BY <1>2, <1>3, <3>2, <3>6, <3>7, <4>1, ClockConstants
        <3>8. CASE half # -1
            <4> DEFINE T == Turns(half)
                       q == savedLost.torn - T
            <4>1. half \in Nat /\ sinceSave = 0 /\ lo = half % Word
                BY <1>2, <1>3, <3>8 DEF ClockTypes, ClockNumbers
            <4>2. /\ half \div Word \in Nat /\ half % Word \in 0..(Word - 1)
                  /\ (half \div Word) * Word + (half % Word) = half
                BY <4>1, Words
            <4>3. ((half \div Word) - hi) * Word = (half \div Word) * Word - hi * Word
                  /\ hi * Word \in Int /\ (half \div Word) * Word \in Int /\ T \in Int
                <5>1. half \div Word \in Int /\ hi \in Int
                    BY <1>3, <4>2
                <5>2. ((half \div Word) - hi) * Word = (half \div Word) * Word - hi * Word
                    BY <5>1, Turning
                <5>3. hi * Word \in Int /\ (half \div Word) * Word \in Int
                    BY <5>1, Turning
                <5>4. T \in Int
                    BY <5>1 DEF Turns
                <5> QED
                    BY <5>2, <5>3, <5>4
            <4>4. T * Word \in Int
                BY <4>3, Turning
            <4>5. SavedLatest = half - T * Word
                BY <1>2, <1>3, <4>1, <4>2, <4>3, <4>4 DEF SavedLatest, Saved, Turns
            <4> HIDE DEF T
            <4>6. q * Word = savedLost.torn * Word - T * Word
                BY <3>2, <4>3, Turning
            <4>7. q * Word >= 0
                <5>1. q \in Nat
                    BY <2>2, <3>2, <3>8, <4>3 DEF T
                <5> HIDE DEF q
                <5> QED
                    BY <5>1, ClockConstants
            <4> HIDE DEF q
            <4>8. half <= t + SaveInterval
                BY <1>2, <1>3, <3>2, <3>6, <4>1, <4>4, <4>5, <4>6, <4>7, ClockConstants
            <4> QED
                BY <1>3, <3>8, <4>8, ClockConstants
        <3> QED
            BY <3>7, <3>8
    <2> QED
        BY <2>2, <2>3
<1> QED
    BY <1>8, <1>9, <1>10, <1>11 DEF ClockInv

\* A reset takes the clock away, and the saved words as they are stay.
LEMMA ResetStep == ClockInv /\ (WarmReboot \/ PowerCut) => ClockInv'
<1> SUFFICES ASSUME ClockInv, WarmReboot \/ PowerCut PROVE ClockInv'
    OBVIOUS
<1>1. ClockTypes /\ Saved \in Nat /\ now \in Nat /\ now >= Start /\ steady \in 0..DriftPeriod
      /\ SavedEarliest \in Int /\ SavedLatest \in Int /\ savedLost \in Losses
      /\ savedLost.set <= now /\ down \in 0..BootTime /\ sinceSave \in 0..(SaveInterval + Hold)
    BY ClockInts, ClockConstants DEF ClockInv, ClockTypes, ClockNumbers
<1>2. /\ up' = -1 /\ ~Running' /\ down' = 0 /\ offset' = 0 /\ ~synced' /\ sinceSave' = 0
      /\ asking' = {} /\ queries' = 0 /\ held' = 0 /\ half' = -1
      /\ now' = now /\ steady' = steady
    BY DEF WarmReboot, PowerCut, BootBegins, Running
<1>3. CASE WarmReboot
    <2>1. /\ UNCHANGED <<magic, lo, hi, runaway>> /\ Saved' = Saved
          /\ savedLost' = [savedLost EXCEPT !.reboots = @ + 1] /\ lost' = savedLost'
        BY <1>3 DEF WarmReboot, noinit, Saved
    <2>2. /\ savedLost' \in Losses /\ savedLost'.set = savedLost.set
          /\ savedLost'.reboots = savedLost.reboots + 1 /\ savedLost'.torn = savedLost.torn
        BY <1>1, <2>1 DEF Losses
    <2>3. ClockTypes'
        <3>1. ClockNumbers'
            BY <1>1, <1>2, <2>1, <2>2, ClockConstants DEF ClockTypes, ClockNumbers
        <3> QED
            BY <1>1, <1>2, <2>1, <2>2, <3>1, ClockConstants DEF ClockTypes
    <2>4. Kept' => Kept
        BY <1>2, <2>1 DEF Kept
    <2>5. SavedRight'
        <3>1. SUFFICES ASSUME Kept PROVE Right(SavedEarliest', SavedLatest', savedLost', now, steady)
            BY <1>2, <2>4 DEF SavedRight
        <3>2. Right(SavedEarliest, SavedLatest, savedLost, now, steady)
            BY <3>1 DEF ClockInv, SavedRight
        <3>3. SavedEarliest' = Saved - BootTime /\ SavedLatest' = Saved
            BY <1>1, <1>2, <2>1, ClockConstants DEF SavedEarliest, SavedLatest
        <3>4. SavedLatest >= Saved /\ SavedEarliest <= Saved + SaveInterval + Hold
            BY <1>1, ClockConstants DEF SavedEarliest, SavedLatest
        <3>5. /\ savedLost.torn * Word \in Int /\ savedLost.reboots * RebootLoss \in Int
              /\ savedLost'.reboots * RebootLoss = savedLost.reboots * RebootLoss + RebootLoss
              /\ savedLost'.torn * Word = savedLost.torn * Word
              /\ RebootLoss = SaveInterval + Hold + BootTime /\ RebootLoss \in Nat
            <4>1. RebootLoss = SaveInterval + Hold + BootTime /\ RebootLoss \in Nat
                BY ClockConstants DEF RebootLoss
            <4>2. (savedLost.reboots + 1) * RebootLoss = savedLost.reboots * RebootLoss + RebootLoss
                BY <1>1, <4>1 DEF Losses
            <4> QED
                BY <1>1, <2>2, <4>1, <4>2, Gaps
        <3> DEFINE more == savedLost'
                   e == SavedEarliest'
                   l == SavedLatest'
        <3>6. /\ more \in Losses /\ e \in Int /\ l \in Int /\ more.set = savedLost.set
              /\ l + more.torn * Word <= SavedLatest + savedLost.torn * Word
              /\ e + more.reboots * RebootLoss + more.torn * Word
                     >= SavedEarliest + savedLost.reboots * RebootLoss + savedLost.torn * Word
            BY <1>1, <2>2, <3>3, <3>4, <3>5, ClockConstants
        <3> HIDE DEF more, e, l
        <3>7. now \in Int /\ steady \in Int
            BY <1>1
        <3>8. Right(e, l, more, now, steady)
            BY <1>1, <3>2, <3>6, <3>7, RightCounted
        <3> QED
            BY <3>8 DEF more, e, l
    <2>6. ClockRight'
        BY <1>2 DEF ClockRight
    <2>7. NoGain'
        BY <1>2, <2>1, <2>2, <2>4 DEF ClockInv, NoGain
    <2> QED
        BY <2>3, <2>5, <2>6, <2>7 DEF ClockInv
<1>4. CASE PowerCut
    <2>1. /\ ~magic' /\ lo' = 0 /\ hi' = 0 /\ ~Kept'
          /\ lost' = NoLoss(0) /\ savedLost' = NoLoss(0)
        BY <1>2, <1>4 DEF PowerCut, Kept
    <2>2. NoLoss(0) \in Losses /\ NoLoss(0).set = 0
        BY DEF NoLoss, Losses
    <2>3. ClockNumbers'
        BY <1>1, <1>2, <2>1, <2>2, ClockConstants DEF ClockNumbers
    <2>4. ClockTypes'
        BY <1>1, <1>2, <2>1, <2>2, <2>3, ClockConstants DEF ClockTypes
    <2> QED
        BY <1>2, <2>1, <2>4 DEF ClockInv, ClockRight, SavedRight, NoGain
<1> QED
    BY <1>3, <1>4

\* Asking does not touch the clock.
LEMMA AskStep ==
    ASSUME ClockInv,
           \/ MainAsks \/ ResyncAsks \/ SntpFails
           \/ \E t \in asking : LookupFails(t) \/ Query(t) \/ WaitEnds(t)
           \/ UNCHANGED clockVars
    PROVE  ClockInv'
<1>1. /\ UNCHANGED <<now, steady, up, down, offset, sinceSave, held, synced, magic, lo, hi, half,
                     lost, savedLost, runaway>>
      /\ queries' \in Nat /\ (~Running => queries' = 0 /\ asking' = {})
      /\ "workq" \in asking' => sinceSave <= SaveInterval + held
    <2>1. CASE MainAsks
        BY <2>1 DEF MainAsks, askUnchanged, noinit, history, ClockInv, ClockTypes, ClockNumbers
    <2>2. CASE ResyncAsks
        BY <2>2, ClockConstants
           DEF ResyncAsks, askUnchanged, noinit, history, ClockInv, ClockTypes, ClockNumbers
    <2>3. CASE SntpFails
        BY <2>3 DEF SntpFails, askUnchanged, noinit, history, ClockInv, ClockTypes, ClockNumbers
    <2>4. ASSUME NEW t \in asking, LookupFails(t) \/ Query(t) \/ WaitEnds(t)
          PROVE  /\ UNCHANGED <<now, steady, up, down, offset, sinceSave, held, synced, magic, lo,
                                hi, half, lost, savedLost, runaway>>
                 /\ queries' \in Nat /\ asking' \subseteq asking /\ Running
        BY <2>4 DEF LookupFails, Query, WaitEnds, Return, askUnchanged, noinit, history,
                    ClockInv, ClockTypes, ClockNumbers
    <2>5. CASE UNCHANGED clockVars
        BY <2>5 DEF clockVars, bootVars, sntpVars, noinit, history, ClockInv, ClockTypes,
                    ClockNumbers
    <2>6. CASE \E t \in asking : LookupFails(t) \/ Query(t) \/ WaitEnds(t)
        BY <2>4, <2>6 DEF ClockInv, ClockTypes
    <2> QED
        BY <2>1, <2>2, <2>3, <2>5, <2>6
<1>2. ClockTypes'
    BY <1>1 DEF ClockInv, ClockTypes, ClockNumbers, Running, Kept, Saved, Clock
<1> QED
    BY <1>1, <1>2 DEF ClockInv, ClockRight, SavedRight, NoGain, Running, Kept, Saved, Clock,
                      SavedLatest, SavedEarliest, Turns

\* Every step keeps the invariant.
LEMMA ClockInvStep == ClockInv /\ [ClockNext]_clockVars => ClockInv'
    BY TimeStep, RestoreStep, SaveBeginsStep, SaveEndsStep, AnswerStep, ResetStep, AskStep
       DEF ClockNext

(* Between any two steps the clock and the saved words are off real time   *)
(* by no more than the RTC's drift since SNTP set them and their counted   *)
(* losses, and without a runaway no torn save gains a turn                 *)
(* (src/main.cpp, epoch_persist_save, epoch_persist_restore and            *)
(* sntp_response_handler).                                                 *)
THEOREM ClockInvariant == ClockSpec => []ClockInv
    BY ClockInvInit, ClockInvStep, PTL DEF ClockSpec

(* The clock is ahead of real time by the RTC's drift since it was set at  *)
(* most, whatever resets tear its saves, for any drift, word width and     *)
(* latency, though the answers of one thread's query may come late, into   *)
(* another's wait or between the two stores of a save.                     *)
THEOREM ClockNeverAhead == ClockSpec => []NeverAhead
<1>1. ASSUME ClockInv PROVE NeverAhead
    <2>1. SUFFICES ASSUME Running, synced, ~runaway
                   PROVE  Clock <= now + Drift(now - lost.set)
        BY DEF NeverAhead
    <2> DEFINE a == now - lost.set
               w == Ahead(Clock, lost, now)
    <2>2. /\ Clock \in Int /\ now \in Int /\ a \in Nat /\ lost \in Losses /\ steady \in Nat
          /\ lost.torn \in Nat
        BY <1>1, <2>1, ClockInts, ClockConstants
           DEF ClockInv, ClockTypes, ClockNumbers, NoGain, Losses
    <2>3. w = Clock + lost.torn * Word - now /\ lost.torn * Word \in Nat
        BY <2>2, ClockConstants DEF Ahead
    <2>4. Within(w, a, steady) /\ w \in Int
        BY <1>1, <2>1, <2>2, <2>3 DEF ClockInv, ClockRight, Right
    <2>5. Drift(a) \in Int
        BY <2>2, ClockConstants DEF Drift
    <2> HIDE DEF a, w
    <2>6. w <= Drift(a)
        BY <2>2, <2>4, DriftBound
    <2>7. Clock <= now + Drift(a)
        BY <2>2, <2>3, <2>5, <2>6, <2>4
    <2> QED
        BY <2>7 DEF a
<1> QED
    BY <1>1, ClockInvariant, PTL

(* The clock lags by no more than the drift, the reboots and the torn      *)
(* saves since the last answer explain (main.cpp:2994-3044), for any       *)
(* drift, intervals and word width.                                        *)
THEOREM ClockLagIsBounded == ClockSpec => []LagBounded
<1>1. ASSUME ClockInv PROVE LagBounded
    <2>1. SUFFICES ASSUME Running, synced
                   PROVE  now - Clock <= Latency + Drift(now - lost.set)
                              + lost.reboots * RebootLoss + lost.torn * Word
        BY DEF LagBounded, RebootLoss
    <2> DEFINE a == now - lost.set
               w == Behind(Clock, lost, now)
    <2>2. /\ Clock \in Int /\ now \in Int /\ a \in Nat /\ lost \in Losses /\ steady \in Nat
        BY <1>1, ClockInts, ClockConstants DEF ClockInv, ClockTypes, ClockNumbers, Losses
    <2>3. /\ lost.torn * Word \in Int /\ lost.reboots * RebootLoss \in Int
          /\ w = now - Clock - Latency - lost.reboots * RebootLoss - lost.torn * Word
        BY <2>2, Gaps DEF Behind
    <2>4. Within(w, a, steady) /\ w \in Int
        BY <1>1, <2>1, <2>2, <2>3, ClockConstants DEF ClockInv, ClockRight, Right
    <2>5. Drift(a) \in Int
        BY <2>2, ClockConstants DEF Drift
    <2> HIDE DEF a, w
    <2>6. w <= Drift(a)
        BY <2>2, <2>4, DriftBound
    <2>7. now - Clock <= Latency + Drift(a) + lost.reboots * RebootLoss + lost.torn * Word
        BY <2>2, <2>3, <2>5, <2>6, <2>4, ClockConstants
    <2> QED
        BY <2>7 DEF a
<1> QED
    BY <1>1, ClockInvariant, PTL

\* The flags and the threads, which the invariant above does not need.
ClockFlags ==
    /\ synced \in BOOLEAN /\ doneThisBoot \in BOOLEAN /\ magic \in BOOLEAN
    /\ resync \in BOOLEAN /\ runaway \in BOOLEAN
    /\ waiting \subseteq asking /\ asking \subseteq {"main", "workq"} /\ sem \in {0, 1}

LEMMA ClockFlagsStep == ASSUME ClockFlags, [ClockNext]_clockVars PROVE ClockFlags'
<1> USE DEF ClockFlags, UptimePasses, bootVars, sntpVars, noinit, history, askUnchanged
<1>1. CASE Tick \/ Slip
    BY <1>1, Zenon DEF Tick, Slip
<1>2. CASE Restore \/ SaveBegins \/ SaveEnds
    BY <1>2, Zenon DEF Restore, SaveBegins, SaveEnds
<1>3. CASE MainAsks \/ ResyncAsks
    BY <1>3, Zenon DEF MainAsks, ResyncAsks
<1>4. ASSUME NEW t \in asking, LookupFails(t) \/ Query(t) \/ WaitEnds(t) PROVE ClockFlags'
    <2>1. CASE LookupFails(t)
        BY <2>1, Zenon DEF LookupFails, Return
    <2>2. CASE Query(t)
        BY <2>2, Zenon DEF Query, Return
    <2>3. CASE WaitEnds(t)
        BY <2>3, Zenon DEF WaitEnds, Return
    <2> QED
        BY <1>4, <2>1, <2>2, <2>3
<1>5. CASE SntpAnswer \/ SntpFails
    BY <1>5, Zenon DEF SntpAnswer, SntpFails
<1>6. CASE WarmReboot \/ PowerCut
    BY <1>6, Zenon DEF WarmReboot, PowerCut, BootBegins
<1>7. CASE UNCHANGED clockVars
    BY <1>7, Zenon DEF clockVars
<1> QED
    BY <1>1, <1>2, <1>3, <1>4, <1>5, <1>6, <1>7 DEF ClockNext

(* The clock's state has its type: every step of sntp_sync(), of the saves *)
(* and of the resets leaves the variables of src/main.cpp in their ranges. *)
THEOREM ClockIsTyped == ClockSpec => []ClockTypeOK
<1>1. ClockInit => ClockFlags
    BY Zenon DEF ClockInit, ClockFlags
<1>2. ClockSpec => []ClockFlags
    BY <1>1, ClockFlagsStep, PTL DEF ClockSpec
<1>3. ASSUME ClockInv, ClockFlags PROVE ClockTypeOK
    <2>1. /\ up \in Nat \union {-1} /\ half \in Nat \union {-1} /\ sem \in 0..1
        BY <1>3 DEF ClockInv, ClockTypes, ClockNumbers, ClockFlags
    <2>2. ClockNumbers
        BY <1>3 DEF ClockInv, ClockTypes
    <2> QED
        BY <1>3, <2>1, <2>2, Zenon DEF ClockFlags, ClockNumbers, ClockTypeOK
<1> QED
    BY <1>2, <1>3, ClockInvariant, PTL

\* ------------------------------- The settings -------------------------------
ConfigTypes ==
  /\ mem \in [Fields -> Values] /\ nvs \in [Fields -> Values]
  /\ memSnap \in Snapshots /\ nvsSnap \in Snapshots
  /\ HaveFile => file \in Texts
  /\ touched \subseteq Keys /\ failed \in BOOLEAN /\ orphaned \in BOOLEAN /\ at \in Nat \ {0}
  /\ stage \in {"load", "merge", "write", "snapshot", "up"}

(* A boot starts with the first field; once loaded, RAM and NVS    *)
(* agree; a written file is what RAM renders to.                            *)
Agree ==
  /\ stage = "load" => at = 1
  /\ stage # "load" => mem = nvs /\ memSnap = nvsSnap
  /\ stage = "snapshot" => file = Rendered(mem)

(* The edits of the fields before `at' have been taken.                     *)
Taken(f) ==
  FileRead /\ file.val[f] # Bad
    => mem[f] = file.val[f] \/ (memSnap # NoSnap /\ file.val[f] = memSnap[f])
Merged ==
  stage = "merge" => \A j \in 1..(at - 1) : FieldOrder[j] \in NumFields => Taken(FieldOrder[j])

(* What the host has not rewritten the snapshot knows; only a boot that was *)
(* cut off leaves a newer file, and that one NVS agrees with until a boot    *)
(* gives up on the drive.                                                   *)
Known ==
  HaveFile /\ nvsSnap # NoSnap /\ ~orphaned =>
    \A f \in NumFields \ touched :
      \/ file.val[f] = nvsSnap[f] \/ file.val[f] = Bad
      \/ stage # "up" /\ file.val[f] = nvs[f]

ConfigInv == ConfigTypes /\ Agree /\ Merged /\ Known

-----------------------------------------------------------------------------
\* What the device renders is a text with the values of its settings.
LEMMA Rendering ==
  ASSUME NEW settings \in [Fields -> Values]
  PROVE  Rendered(settings) \in Texts /\ \A f \in Fields : Rendered(settings).val[f] = settings[f]
  BY ConfigAssumption DEF Rendered, Texts, Keys

\* At the end of the merge every number has been looked at.
LEMMA MergeEnds ==
  ASSUME ConfigInv, stage = "merge", at > Len(FieldOrder), NEW f \in NumFields
  PROVE  Taken(f)
<1>1. PICK j \in DOMAIN FieldOrder : FieldOrder[j] = f
  BY ConfigAssumption DEF Fields
<1>2. j \in 1..(at - 1)
  BY ConfigAssumption DEF ConfigInv, ConfigTypes
<1> QED
  BY <1>1, <1>2 DEF ConfigInv, Merged

LEMMA ConfigInvStep == ASSUME ConfigInv, [SyncNext]_syncVars PROVE ConfigInv'
<1> USE ConfigAssumption DEF ConfigInv, ConfigTypes, Agree, Merged, Known, Taken, HaveFile, FileRead, syncVars, store,
        ram, usb, syncBounds
<1>1. CASE Load
  BY <1>1 DEF Load
<1>0. CASE MountFails \/ OpenFails
  <2>1. /\ UNCHANGED <<file, nvs, nvsSnap, at, touched>>
        /\ stage' = "up" /\ mem' = nvs /\ memSnap' = nvsSnap
        /\ failed' = TRUE
    BY <1>0 DEF MountFails, OpenFails, GiveUp
  <2>2. orphaned' = (orphaned \/ (HaveFile /\ nvsSnap # NoSnap /\ file # Rendered(nvsSnap)))
    BY <1>0 DEF MountFails, OpenFails, GiveUp
  <2>3. Known'
    <3>1. SUFFICES ASSUME HaveFile, nvsSnap # NoSnap, ~orphaned', NEW f \in NumFields
                   PROVE  file.val[f] = nvsSnap[f]
      BY <2>1
    <3>2. file = Rendered(nvsSnap) /\ nvsSnap \in [Fields -> Values]
      BY <2>2, <3>1 DEF Snapshots
    <3> QED
      BY <3>1, <3>2, Rendering DEF Fields
  <2> QED
    BY <2>1, <2>2, <2>3
<1>2. CASE Merge
  <2> DEFINE f == FieldOrder[at]
  <2>1. f \in Fields /\ at' = at + 1 /\ at \in 1..Len(FieldOrder)
    BY <1>2 DEF Merge
  <2>2. /\ stage = "merge" /\ UNCHANGED <<file, nvsSnap, memSnap, stage, failed, touched, orphaned>>
        /\ mem = nvs /\ memSnap = nvsSnap
    BY <1>2 DEF Merge
  <2>3. CASE Edited(f)
    <3> DEFINE v == Found(file, f)
    <3>1. v = file.val[f] /\ v \in Values /\ HaveFile
      BY <2>1, <2>3 DEF Edited, Found, Texts, Keys
    <3>2. mem' = [mem EXCEPT ![f] = v] /\ nvs' = [nvs EXCEPT ![f] = v]
      BY <1>2, <2>3 DEF Merge
    <3> HIDE DEF f, v
    <3>3. mem' \in [Fields -> Values] /\ mem'[f] = v /\ \A g \in Fields \ {f} : mem'[g] = mem[g]
      BY <2>1, <3>1, <3>2
    <3>4. nvs' = mem'
      BY <2>2, <3>2
    <3>5. Merged'
      <4>1. SUFFICES ASSUME NEW j \in 1..at, FieldOrder[j] \in NumFields
                     PROVE  Taken(FieldOrder[j])'
        BY <2>1, <2>2
      <4>2. CASE FieldOrder[j] = f
        BY <2>2, <3>1, <3>3, <4>2
      <4>3. CASE FieldOrder[j] # f
        <5>1. j \in 1..(at - 1)
          BY <2>1, <4>1, <4>3 DEF f
        <5>2. Taken(FieldOrder[j])
          BY <2>2, <4>1, <5>1
        <5> QED
          BY <2>2, <3>3, <4>1, <4>3, <5>2 DEF Fields
      <4> QED
        BY <4>2, <4>3
    <3>6. Known'
      BY <2>2, <3>1, <3>3, <3>4 DEF Fields
    <3> QED
      BY <2>1, <2>2, <3>3, <3>4, <3>5, <3>6
  <2>4. CASE ~Edited(f)
    <3>1. UNCHANGED <<mem, nvs>>
      BY <1>2, <2>4 DEF Merge
    <3>2. f \in NumFields => Taken(f)
      BY <2>4 DEF Edited, Found, SnapValue, Rendered, Keys, Fields
    <3>3. Merged'
      <4>1. SUFFICES ASSUME NEW j \in 1..at, FieldOrder[j] \in NumFields
                     PROVE  Taken(FieldOrder[j])
        BY <2>1, <2>2, <3>1
      <4>2. CASE j = at
        BY <3>2, <4>1, <4>2
      <4>3. CASE j \in 1..(at - 1)
        BY <2>2, <4>1, <4>3
      <4> QED
        BY <2>1, <4>2, <4>3
    <3> QED
      BY <2>1, <2>2, <3>1, <3>3
  <2> QED
    BY <2>3, <2>4
<1>3. CASE KeepFile
  BY <1>3, MergeEnds DEF KeepFile, GoUp
<1>4. CASE Truncate
  BY <1>4 DEF Truncate
<1>5. CASE WriteFile
  <2>1. /\ stage = "write" /\ file' = Rendered(mem) /\ stage' = "snapshot" /\ mem = nvs
        /\ UNCHANGED <<nvs, nvsSnap, mem, memSnap, at, failed, touched, orphaned>>
    BY <1>5 DEF WriteFile
  <2>2. HaveFile' => file' \in Texts /\ \A f \in NumFields : file'.val[f] = nvs'[f]
    BY <2>1, Rendering DEF Fields
  <2>3. Agree'
    BY <2>1 DEF Rendered
  <2> QED
    BY <2>1, <2>2, <2>3
<1>6. CASE SaveSnapshot
  <2>1. /\ stage = "snapshot" /\ file = Rendered(mem) /\ stage' = "up" /\ memSnap' = mem /\ nvsSnap' = mem
        /\ failed' = FALSE /\ touched' = {} /\ orphaned' = FALSE
        /\ UNCHANGED <<file, nvs, mem, at>>
    BY <1>6 DEF SaveSnapshot, GoUp
  <2>2. \A f \in NumFields : file'.val[f] = nvsSnap'[f]
    BY <2>1, Rendering DEF Fields
  <2>3. ConfigTypes' /\ Agree' /\ Merged'
    BY <2>1 DEF Snapshots
  <2>4. Known'
    BY <2>1, <2>2
  <2> QED
    BY <2>3, <2>4
<1>7. CASE Update
  BY <1>7 DEF Update
<1>8. CASE Crash
  BY <1>8, Rendering DEF Crash, Restart
<1>9. CASE HostSetsField
  <2>1. PICK f \in Keys, v \in Values \cup {Bad} :
          file' = [file EXCEPT !.val[f] = v] /\ touched' = touched \cup {f}
    BY <1>9 DEF HostSetsField
  <2>2. /\ stage = "up" /\ file \in Texts
        /\ UNCHANGED <<nvs, nvsSnap, mem, memSnap, stage, at>>
    BY <1>9 DEF HostSetsField, HostMayWrite
  <2>3. file' \in Texts /\ \A g \in Keys \ {f} : file'.val[g] = file.val[g]
    BY <2>1, <2>2 DEF Texts
  <2>4. HaveFile
    BY <1>9 DEF HostSetsField
  <2>5. UNCHANGED <<failed, orphaned>>
    BY <1>9 DEF HostSetsField
  <2> QED
    BY <2>1, <2>2, <2>3, <2>4, <2>5 DEF Fields, Keys
<1>10. CASE HostReformats
  <2>1. PICK f \in StrFields :
          file' = [file EXCEPT !.compact = @ \cup {f}] /\ touched' = touched \cup {f}
    BY <1>10 DEF HostReformats
  <2>2. /\ stage = "up" /\ file \in Texts /\ HaveFile
        /\ UNCHANGED <<nvs, nvsSnap, mem, memSnap, stage, at, failed, orphaned>>
    BY <1>10 DEF HostReformats, HostMayWrite
  <2>3. file' \in Texts /\ file'.val = file.val
    BY <2>1, <2>2 DEF Texts
  <2> QED
    BY <2>1, <2>2, <2>3 DEF Fields, Keys
<1>11. CASE HostErases
  BY <1>11 DEF HostErases, HostMayWrite
<1>12. CASE CableMoves
  BY <1>12 DEF CableMoves
<1>13. CASE VbusPoll
  <2>1. /\ stage = "up" /\ UNCHANGED <<store, ram, touched, orphaned>> /\ failed' \in BOOLEAN
        /\ \/ UNCHANGED <<stage, at>>
           \/ stage' = "load" /\ at' = 1
    BY <1>13 DEF VbusPoll, Attach, Detach, DetachFails, LetGo, Restart
  <2> QED
    BY <2>1
<1>14. CASE WipeNvs
  BY <1>14 DEF WipeNvs, Restart, Snapshots
<1>15. CASE UNCHANGED syncVars
  BY <1>15
<1> QED
  BY <1>0, <1>1, <1>2, <1>3, <1>4, <1>5, <1>6, <1>7, <1>8, <1>9, <1>10, <1>11, <1>12, <1>13, <1>14,
     <1>15 DEF SyncNext, Boot, Host

(* The relations of file, snapshot, NVS and RAM hold in every run, wherever  *)
(* power fails.                                                              *)
THEOREM ConfigInvariant == SyncSpec => []ConfigInv
<1>1. SyncInit => ConfigInv
  <2> SUFFICES ASSUME SyncInit PROVE ConfigInv
    OBVIOUS
  <2>1. ~HaveFile
    BY DEF SyncInit, HaveFile
  <2>2. mem \in [Fields -> Values] /\ nvs \in [Fields -> Values]
    BY ConfigAssumption DEF SyncInit
  <2>3. /\ stage = "load" /\ at = 1 /\ touched = {} /\ failed = FALSE /\ orphaned = FALSE
        /\ memSnap = NoSnap /\ nvsSnap = NoSnap
    BY DEF SyncInit
  <2>4. ConfigTypes
    <3>1. at \in Nat \ {0}
      BY <2>3
    <3> QED
      BY <2>1, <2>2, <2>3, <3>1, Zenon DEF ConfigTypes, Snapshots
  <2> QED
    BY <2>1, <2>3, <2>4 DEF ConfigInv, Agree, Merged, Known
<1> QED
  BY <1>1, ConfigInvStep, PTL DEF SyncSpec

(* NVS is authoritative: a boot changes a number in NVS only if the host has *)
(* rewritten it since the last completed boot, NVS was wiped, or a boot has   *)
(* had to leave the drive with a file ahead of its snapshot.                 *)
THEOREM StaleFilesLose == SyncSpec => StaleFileNeverWins
<1> DEFINE Harmless(f) == stage = "merge" /\ nvs'[f] # nvs[f]
                         => f \in touched \/ nvsSnap = NoSnap \/ orphaned
<1>1. ASSUME ConfigInv, [SyncNext]_syncVars, NEW f \in NumFields, stage = "merge", nvs'[f] # nvs[f]
      PROVE  f \in touched \/ nvsSnap = NoSnap \/ orphaned
  <2>1. CASE Merge
    <3>1. /\ FieldOrder[at] = f /\ Edited(f) /\ nvs'[f] = file.val[f]
          /\ memSnap = nvsSnap
      <4>1. f \in Fields /\ nvs \in [Fields -> Values] /\ memSnap = nvsSnap
        BY <1>1 DEF Fields, ConfigInv, ConfigTypes, Agree
      <4>2. /\ Edited(FieldOrder[at])
            /\ nvs' = [nvs EXCEPT ![FieldOrder[at]] = Found(file, FieldOrder[at])]
        BY <1>1, <2>1 DEF Merge
      <4>3. FieldOrder[at] = f
        BY <1>1, <4>1, <4>2
      <4> QED
        BY <1>1, <4>1, <4>2, <4>3 DEF Found
    <3>2. nvsSnap # NoSnap => file.val[f] # nvsSnap[f]
      BY <3>1 DEF Edited, Found, SnapValue, Rendered, Keys, Fields
    <3>3. HaveFile /\ file.val[f] # Bad
      BY <3>1 DEF Edited, Found, FileRead
    <3> QED
      BY <1>1, <3>1, <3>2, <3>3 DEF ConfigInv, Known
  <2>2. CASE WipeNvs
    BY <1>1, <2>2 DEF WipeNvs
  <2>3. CASE UNCHANGED nvs
    BY <1>1, <2>3
  <2> QED
    BY <1>1, <2>1, <2>2, <2>3 DEF SyncNext, Boot, Host, VbusPoll, Load, MountFails, OpenFails,
       KeepFile, Truncate, WriteFile,
       SaveSnapshot, Update, Crash, HostSetsField, HostReformats, HostErases, CableMoves, Attach,
       Detach, DetachFails, store, syncVars
<1>2. ConfigInv /\ [SyncNext]_syncVars => [\A f \in NumFields : Harmless(f)]_syncVars
  BY <1>1
<1> QED
  BY <1>2, ConfigInvariant, PTL DEF SyncSpec, StaleFileNeverWins

(* An edit of a number that the boot could read is in NVS before the boot    *)
(* truncates the file.                                                       *)
THEOREM EditsGoFirst == SyncSpec => EditsAreMergedFirst
<1>1. ASSUME ConfigInv, [SyncNext]_syncVars, NEW f \in NumFields, stage = "merge",
             stage' \notin {"merge", "load"}, ~failed, Wanted(f)
      PROVE  nvs[f] = file.val[f]
  <2>1. at > Len(FieldOrder)
    BY <1>1 DEF SyncNext, Boot, Host, VbusPoll, Load, MountFails, OpenFails, Merge, KeepFile, Truncate, WriteFile,
       SaveSnapshot, Update, Crash, Restart, HostSetsField, HostReformats, HostErases, HostMayWrite,
       CableMoves, Attach, Detach, DetachFails, WipeNvs, syncVars
  <2>2. Taken(f)
    BY <1>1, <2>1, MergeEnds
  <2> QED
    BY <1>1, <2>2 DEF Taken, Wanted, FileRead, ConfigInv, Agree
<1>2. ConfigInv /\ [SyncNext]_syncVars =>
        [\A f \in NumFields : stage = "merge" /\ stage' \notin {"merge", "load"} /\ ~failed /\ Wanted(f)
           => nvs[f] = file.val[f]]_syncVars
  BY <1>1
<1> QED
  BY <1>2, ConfigInvariant, PTL DEF SyncSpec, EditsAreMergedFirst

\* -------------------------------- The radio --------------------------------
Locked == {"locked", "fields", "chip", "orbit", "armed"}   \* main holds the mutex
Drained == {"drained", "locked", "fields", "legacy"}       \* the flag is down and stays so
Legacy == {"undone", "legacy", "tuned", "rearmed"}

Parities ==
  /\ burst \in [first : 0..1, second : 0..1]
  /\ snap \in [stage : {"out", "copying"}, first : 0..1, second : 0..1]

(* The flag speaks of a packet received since the last reconfiguration: in  *)
(* one the action is detached until the plan goes into the chip, and a       *)
(* packet that raises the flag from there on is one that slipped in.         *)
Flagged ==
  /\ flag => packet = "new" \/ slipped
  /\ pc = "packet" => packet = "new" \/ slipped
  /\ pc \in {"packet", "report"} /\ flag => packet = "new"
  /\ pc \in {"detached", "undone"} => ~attached
  /\ pc \in Drained => ~flag /\ ~attached
  /\ Reconfiguring /\ flag => slipped

(* The halves of the record differ only between the two steps that write    *)
(* them, inside the mutex; a copy under way has the first half right.       *)
Halves ==
  /\ mutex = "main" <=> pc \in Locked
  /\ mutex = "web" <=> snap.stage = "copying"
  /\ IF pc = "fields" /\ plan \notin BrokenPlans
     THEN burst.first # burst.second ELSE burst.first = burst.second
  /\ snap.stage = "copying" => snap.first = burst.first
  /\ snap.stage = "out" => snap.first = snap.second

(* Both records keep their fields.                                          *)
Shapes ==
  /\ chip = [mode |-> chip.mode, tune |-> chip.tune, shift |-> chip.shift]
  /\ radio = [freq |-> radio.freq, sat |-> radio.sat, mode |-> radio.mode,
              filter |-> radio.filter, orbit |-> radio.orbit,
              doppler |-> radio.doppler, shift |-> radio.shift]

(* The receiver is on and its interrupt attached, the packet path included.  *)
Armed ==
  /\ pc = "idle" /\ ~deaf => rx
  /\ pc \in {"idle", "packet", "report"} /\ ~deaf => attached
  /\ pc \in {"armed", "rearmed"} => attached

(* The chip starts a plan without a shift, and so does the record.          *)
Shifted ==
  /\ pc = "chip" /\ plan \notin BrokenPlans => chip.shift = 0
  /\ /\ pc \in {"idle", "packet", "report", "orbit", "armed"} \cup Legacy
     /\ radio.orbit # NoOrbit /\ radio.doppler /\ ~dropped
     => chip.shift = radio.shift

RadioInv == Flagged /\ Parities /\ Halves /\ Armed /\ Shapes /\ Shifted

-----------------------------------------------------------------------------
\* The flag never speaks of the past.
LEMMA FlagStep == ASSUME Flagged, [Next]_vars PROVE Flagged'
<1> USE DEF Flagged, Drained, Reconfiguring, vars, chipVars, mainVars, ghosts, bounds
<1>1. CASE Receive
  BY <1>1, Zenon DEF Receive
<1>2. CASE SkyMoves \/ Beginp \/ Relabel \/ UNCHANGED vars
  BY <1>2 DEF SkyMoves, Beginp, Command, Relabel
<1>3. CASE BeginDetach \/ BeginDrain \/ BeginLock \/ BeginFields
  BY <1>3 DEF BeginDetach, Command, BeginDrain, BeginLock, BeginFields
<1>4. CASE BeginChip
  <2>1. pc = "fields" /\ pc' = "chip" /\ UNCHANGED <<packet, flag, slipped>>
    BY <1>4 DEF BeginChip
  <2> QED
    BY <2>1
<1>5. CASE BeginOrbit
  BY <1>5 DEF BeginOrbit, BeginOrbitWith
<1>6. CASE BeginAttach \/ BeginReceive
  BY <1>6 DEF BeginAttach, BeginReceive, Restarted, StartReceive
<1>7. CASE LegacyBegin
  <2>1. CASE LegacyTune
    <3>1. /\ pc = "legacy" /\ pc' \in {"tuned", "idle"} /\ UNCHANGED <<packet, flag, slipped, attached>>
      BY <2>1 DEF LegacyTune
    <3> QED
      BY <3>1
  <2>2. CASE LegacyDetach \/ LegacyDrain \/ LegacyRefused \/ LegacyAttach \/ LegacyReceive
    BY <2>2 DEF LegacyDetach, Command, LegacyDrain, LegacyRefused, LegacyAttach, LegacyReceive, Restarted,
       StartReceive
  <2> QED
    BY <1>7, <2>1, <2>2 DEF LegacyBegin
<1>8. CASE Retune
  BY <1>8 DEF Retune, Command, StartReceive
<1>9. CASE CheckRx \/ DopplerRetune \/ Web \/ Reboot
  BY <1>9 DEF CheckRx, TakeFlag, DiscardPacket, ReadPacket, ReportPacket, StartReceive,
       DopplerRetune, Web, WebLock, WebCopied, Reboot, BootedWith
<1> QED
  BY <1>1, <1>2, <1>3, <1>4, <1>5, <1>6, <1>7, <1>8, <1>9 DEF Next, ServerCommand, Begin

\* The mutex keeps the halves of the record together.
LEMMA HalvesStep == ASSUME Parities, Halves, [Next]_vars PROVE Parities' /\ Halves'
<1> USE DEF Parities, Halves, Locked, vars, chipVars, mainVars, ghosts, bounds
<1>1. CASE Receive \/ SkyMoves \/ Beginp \/ Relabel \/ UNCHANGED vars
  BY <1>1 DEF Receive, SkyMoves, Beginp, Command, Relabel
<1>2. CASE BeginDetach \/ BeginDrain \/ BeginLock
  BY <1>2 DEF BeginDetach, Command, BeginDrain, BeginLock
<1>3. CASE BeginFields
  BY <1>3 DEF BeginFields
<1>4. CASE BeginChip
  <2>1. /\ pc = "fields" /\ pc' = "chip" /\ UNCHANGED <<plan, mutex, snap>>
        /\ IF plan \in BrokenPlans THEN UNCHANGED burst
           ELSE burst' = [burst EXCEPT !.second = 1 - @]
    BY <1>4 DEF BeginChip
  <2> QED
    BY <2>1
<1>5. CASE BeginOrbit
  BY <1>5 DEF BeginOrbit, BeginOrbitWith
<1>6. CASE BeginAttach \/ BeginReceive \/ Retune \/ CheckRx \/ DopplerRetune
  BY <1>6 DEF BeginAttach, BeginReceive, Restarted, StartReceive, Command, Retune, CheckRx, TakeFlag,
       DiscardPacket, ReadPacket, ReportPacket, DopplerRetune
<1>9. CASE LegacyBegin
  <2>1. UNCHANGED <<mutex, snap, burst>> /\ pc \notin Locked \cup {"detached"} /\ pc' \notin Locked
    BY <1>9 DEF LegacyBegin, LegacyDetach, Command, LegacyDrain, LegacyRefused, LegacyTune, LegacyAttach,
       LegacyReceive, Restarted
  <2> QED
    BY <2>1
<1>7. CASE Web
  BY <1>7 DEF Web, WebLock, WebCopied
<1>8. CASE Reboot
  BY <1>8 DEF Reboot, BootedWith
<1> QED
  BY <1>1, <1>2, <1>3, <1>4, <1>5, <1>6, <1>7, <1>8, <1>9 DEF Next, ServerCommand, Begin

\* Every path leads back to a radio that receives.
LEMMA ArmedStep == ASSUME Armed, [Next]_vars PROVE Armed'
<1> USE DEF Armed, vars, chipVars, mainVars, ghosts, bounds
<1>1. CASE Receive \/ SkyMoves \/ Beginp \/ Relabel \/ UNCHANGED vars
  BY <1>1 DEF Receive, SkyMoves, Beginp, Command, Relabel
<1>2. CASE BeginDetach \/ BeginDrain \/ BeginLock \/ BeginFields \/ BeginChip
             \/ BeginOrbit \/ BeginAttach \/ BeginReceive \/ Retune \/ CheckRx \/ DopplerRetune \/ Web
  BY <1>2 DEF BeginDetach, Command, BeginDrain, BeginLock, BeginFields, BeginChip,
       BeginOrbit, BeginOrbitWith, BeginAttach, BeginReceive, Restarted, StartReceive, Retune, CheckRx,
       TakeFlag, DiscardPacket, ReadPacket, ReportPacket, DopplerRetune, Web, WebLock, WebCopied
<1>3. CASE Reboot
  <2>1. PICK ok, reset \in BOOLEAN : /\ rx' = (ok \/ nvsConf # None)
                                     /\ attached' = (ok /\ ~reset) /\ deaf' = (~ok \/ reset)
                                     /\ pc' = "idle"
    BY <1>3, Zenon DEF Reboot, BootedWith
  <2>2. ~deaf' => rx' /\ attached'
    BY <2>1, Zenon
  <2> QED
    BY <2>1, <2>2
<1>4. CASE LegacyBegin
  BY <1>4 DEF LegacyBegin, LegacyDetach, Command, LegacyDrain, LegacyRefused, LegacyTune, LegacyAttach,
       LegacyReceive, Restarted, StartReceive
<1> QED
  BY <1>1, <1>2, <1>3, <1>4 DEF Next, ServerCommand, Begin

\* No step loses a field of the records.
LEMMA ShapesStep == ASSUME Shapes, [Next]_vars PROVE Shapes'
<1> USE DEF Shapes, vars, chipVars, mainVars, ghosts, bounds
<1>1. CASE Receive \/ SkyMoves \/ Beginp \/ Relabel \/ UNCHANGED vars
  BY <1>1 DEF Receive, SkyMoves, Beginp, Command, Relabel
<1>2. CASE BeginDetach \/ BeginDrain \/ BeginLock \/ BeginFields
  BY <1>2 DEF BeginDetach, Command, BeginDrain, BeginLock, BeginFields
<1>3. CASE BeginChip
  <2>1. UNCHANGED radio
    BY <1>3 DEF BeginChip
  <2>2. CASE UNCHANGED chip
    BY <2>1, <2>2
  <2>3. CASE chip' = [chip EXCEPT !.tune = plan, !.shift = 0]
    BY <2>1, <2>3
  <2>4. CASE chip' = [mode |-> "FSK", tune |-> plan, shift |-> 0]
    BY <2>1, <2>4
  <2>5. CASE chip' = [chip EXCEPT !.mode = "FSK", !.shift = 0]
    BY <2>1, <2>5
  <2> QED
    BY <1>3, <2>2, <2>3, <2>4, <2>5 DEF BeginChip, TuneLoRa, BegunFSK, FailedFSK
<1>4. CASE BeginOrbit \/ BeginAttach \/ BeginReceive
  BY <1>4 DEF BeginOrbit, BeginOrbitWith, BeginAttach, BeginReceive, Restarted, StartReceive
<1>5. CASE LegacyBegin
  <2>1. CASE UNCHANGED <<radio, chip>>
    BY <2>1
  <2>2. CASE LegacyTune
    <3>1. radio' = [radio EXCEPT !.freq = plan, !.mode = Mode(plan)]
      BY <2>2 DEF LegacyTune
    <3>2. CASE chip' = [chip EXCEPT !.tune = plan, !.shift = 0]
      BY <3>1, <3>2
    <3>3. CASE chip' = [mode |-> "FSK", tune |-> plan, shift |-> 0]
      BY <3>1, <3>3
    <3>4. CASE chip' = [chip EXCEPT !.mode = "FSK", !.shift = 0]
      BY <3>1, <3>4
    <3> QED
      BY <2>2, <3>2, <3>3, <3>4 DEF LegacyTune, TuneLoRa, BegunFSK, FailedFSK
  <2> QED
    BY <1>5, <2>1, <2>2 DEF LegacyBegin, LegacyDetach, LegacyDrain, LegacyRefused, LegacyAttach, LegacyReceive
<1>6. CASE Retune
  BY <1>6 DEF Retune, Command, StartReceive
<1>7. CASE CheckRx \/ DopplerRetune \/ Web
  BY <1>7 DEF CheckRx, TakeFlag, DiscardPacket, ReadPacket, ReportPacket, StartReceive,
       DopplerRetune, Web, WebLock, WebCopied
<1>8. CASE Reboot
  BY <1>8 DEF Reboot, BootedWith
<1> QED
  BY <1>1, <1>2, <1>3, <1>4, <1>5, <1>6, <1>7, <1>8 DEF Next, ServerCommand, Begin

\* A plan starts with no shift in chip and record.
LEMMA ShiftedStep == ASSUME Shapes, Shifted, [Next]_vars PROVE Shifted'
<1> USE DEF Shapes, Shifted, Legacy, NoOrbit, Orbit, vars, chipVars, mainVars, ghosts, bounds
<1>1. CASE Receive \/ SkyMoves \/ Beginp \/ Relabel \/ UNCHANGED vars
  BY <1>1 DEF Receive, SkyMoves, Beginp, Command, Relabel
<1>2. CASE BeginDetach \/ BeginDrain \/ BeginLock \/ BeginFields
  BY <1>2 DEF BeginDetach, Command, BeginDrain, BeginLock, BeginFields
<1>3. CASE BeginChip
  <2>1. pc' = "chip" /\ UNCHANGED plan
    BY <1>3 DEF BeginChip
  <2>2. plan \notin BrokenPlans => chip'.shift = 0
    <3>1. ASSUME plan \notin BrokenPlans
          PROVE  \/ chip' = [chip EXCEPT !.tune = plan, !.shift = 0]
                 \/ chip' = [mode |-> "FSK", tune |-> plan, shift |-> 0]
                 \/ chip' = [chip EXCEPT !.mode = "FSK", !.shift = 0]
      BY <1>3, <3>1 DEF BeginChip, TuneLoRa, BegunFSK, FailedFSK
    <3>2. CASE chip' = [chip EXCEPT !.tune = plan, !.shift = 0]
      BY <3>2
    <3>3. CASE chip' = [mode |-> "FSK", tune |-> plan, shift |-> 0]
      BY <3>3
    <3>4. CASE chip' = [chip EXCEPT !.mode = "FSK", !.shift = 0]
      BY <3>4
    <3> QED
      BY <3>1, <3>2, <3>3, <3>4
  <2> QED
    BY <2>1, <2>2
<1>4. CASE BeginOrbit \/ BeginAttach \/ BeginReceive
  BY <1>4 DEF BeginOrbit, BeginOrbitWith, BeginAttach, BeginReceive, Restarted, StartReceive
<1>5. CASE LegacyBegin
  <2>1. CASE LegacyTune
    <3>1. pc' \in {"tuned", "idle"} /\ dropped' = TRUE
      BY <2>1 DEF LegacyTune
    <3> QED
      BY <3>1
  <2>2. CASE LegacyDetach \/ LegacyDrain \/ LegacyRefused \/ LegacyAttach \/ LegacyReceive
    BY <2>2 DEF LegacyDetach, Command, LegacyDrain, LegacyRefused, LegacyAttach, LegacyReceive, Restarted
  <2> QED
    BY <1>5, <2>1, <2>2 DEF LegacyBegin
<1>6. CASE Retune
  BY <1>6 DEF Retune, Command, StartReceive
<1>7. CASE CheckRx \/ DopplerRetune \/ Web
  BY <1>7 DEF CheckRx, TakeFlag, DiscardPacket, ReadPacket, ReportPacket, StartReceive,
       DopplerRetune, Web, WebLock, WebCopied
<1>8. CASE Reboot
  BY <1>8 DEF Reboot, BootedWith
<1> QED
  BY <1>1, <1>2, <1>3, <1>4, <1>5, <1>6, <1>7, <1>8 DEF Next, ServerCommand, Begin

(* The relations of flag, mutex, record and chip hold in every run, whatever *)
(* the plans and however commands, packets, page requests and reboots mix.   *)
THEOREM RadioInvariant == Spec => []RadioInv
<1>1. Init => RadioInv
  BY DEF Init, RadioInv, Parities, Flagged, Halves, Shapes, Armed, Shifted, Drained, Locked,
         Reconfiguring, Legacy, NoOrbit
<1>2. RadioInv /\ [Next]_vars => RadioInv'
  BY FlagStep, HalvesStep, ShapesStep, ArmedStep, ShiftedStep DEF RadioInv
<1> QED
  BY <1>1, <1>2, PTL DEF Spec

(* Detach and drain (src/main.cpp:1746-1758): a packet received before a     *)
(* reconfiguration is read after it only if it was finished by a chip still  *)
(* receiving while the new plan went in and the action was attached.         *)
THEOREM RadioReadsFresh == Spec => []NoStalePacket
<1>1. RadioInv => NoStalePacket
  BY DEF RadioInv, Flagged, NoStalePacket
<1> QED
  BY <1>1, RadioInvariant, PTL

(* The mutex (src/main.cpp:1760-1767): a page's copy of the record never     *)
(* holds one half of a burst.                                                *)
THEOREM RadioCopiesWhole == Spec => []NoTornCopy
<1>1. RadioInv => NoTornCopy
  BY DEF RadioInv, Halves, NoTornCopy
<1> QED
  BY <1>1, RadioInvariant, PTL

(* Every path of a packet or command ends in reception with the interrupt    *)
(* attached, unless the boot's begin() failed or reset the action, or a      *)
(* legacy begin was refused.                                                 *)
THEOREM RadioListens == Spec => []Listening
<1>1. RadioInv => Listening
  BY DEF RadioInv, Armed, Listening
<1> QED
  BY <1>1, RadioInvariant, PTL

(* The shift the hysteresis compares with is the one in the chip, until a    *)
(* command drops it.                                                         *)
THEOREM RadioAppliesShift == Spec => []ShiftIsApplied
<1>1. RadioInv => ShiftIsApplied
  BY DEF RadioInv, Shifted, ShiftIsApplied
<1> QED
  BY <1>1, RadioInvariant, PTL

=============================================================================
