--------------------------- MODULE NetworkProofs ---------------------------
(***************************************************************************)
(* Proofs about the two components that deal with OpenThread.              *)
(*                                                                         *)
(* The resolver keeps its promise for any number of callers, hosts and     *)
(* calls.                                                                  *)
(*                                                                         *)
(* The joiner never runs out of retries, its scans are never disturbed by  *)
(* the receiver poll and its handshakes find the receiver on, for all      *)
(* periods in which a poll falls between a failed attempt and its retry.   *)
(***************************************************************************)
EXTENDS DnsResolver, Joiner, TLAPS

\* ------------------------------ The resolver ------------------------------
InCall == {"query", "wait", "woken", "late"}
Asked  == {"wait", "woken", "late"}

(***************************************************************************)
(* Only the newest query has the current generation, and only while the    *)
(* call that sent it is inside: its answer can reach nobody else.          *)
(***************************************************************************)
Generation ==
    \A q \in queries :
        /\ q.id <= curId
        /\ q.id = curId => /\ mutex \in Callers
                           /\ pc[mutex] \in Asked
                           /\ q.host = host[mutex]

Inside ==
    \A c \in Callers : pc[c] \in InCall =>
        /\ mutex = c
        /\ out = c
        /\ curId < MaxId
        /\ host[c] \in Hosts
        /\ pc[c] = "query" => /\ \A q \in queries : q.id < curId
                              /\ result = -1
        /\ pc[c] \in Asked /\ result = 0 => buf[c] = host[c]

Holder == mutex \in Callers => pc[mutex] \in InCall

Waiting == \A c \in Callers : pc[c] = "lock" => host[c] \in Hosts

\* Between calls nothing is asked and a call in progress has no answer yet.
Asleep ==
    \A c \in Callers : IF pc[c] = "idle" THEN host[c] = NoHost
                       ELSE answer[c] = NoHost /\ host[c] # NoHost

ResolverInv == DnsTypeOK /\ Generation /\ Inside /\ Holder /\ Waiting /\ Asleep

LEMMA ResolverInvInit == DnsInit => ResolverInv
<1> SUFFICES ASSUME DnsInit PROVE ResolverInv
  OBVIOUS
<1> USE ResolverConstants
<1>1. DnsTypeOK
  BY DEF DnsInit, DnsTypeOK
<1>2. Generation /\ Inside /\ Holder /\ Waiting /\ Asleep
  BY DEF DnsInit, Generation, Inside, Holder, Waiting, Asleep, InCall, Asked
<1> QED
  BY <1>1, <1>2 DEF ResolverInv

LEMMA StepType == ASSUME ResolverInv, [DnsNext]_dnsVars PROVE DnsTypeOK'
<1> USE ResolverConstants DEF ResolverInv, DnsTypeOK, Query
<1>1. ASSUME NEW c \in Callers, NEW h \in Hosts, Call(c, h) PROVE DnsTypeOK'
  BY <1>1 DEF Call
<1>2. ASSUME NEW c \in Callers, Lock(c) PROVE DnsTypeOK'
  BY <1>2 DEF Lock
<1>3. ASSUME NEW c \in Callers, NoRoute(c) PROVE DnsTypeOK'
  BY <1>3 DEF NoRoute
<1>4. ASSUME NEW c \in Callers, SendQuery(c) PROVE DnsTypeOK'
  BY <1>4 DEF SendQuery, Inside, InCall
<1>5. ASSUME NEW c \in Callers, QueryRefused(c) \/ FinishLate(c) \/ Finish(c) PROVE DnsTypeOK'
  BY <1>5 DEF QueryRefused, FinishLate, Finish, Leave, Inside, InCall
<1>6. ASSUME NEW c \in Callers, Wake(c) \/ Timeout(c) PROVE DnsTypeOK'
  BY <1>6 DEF Wake, Timeout
<1>7. ASSUME NEW q \in queries, Callback(q) PROVE DnsTypeOK'
  BY <1>7 DEF Callback, Answered, Signal
<1>8. ASSUME NEW q \in queries, CallbackError(q) \/ CallbackLate(q) PROVE DnsTypeOK'
  BY <1>8 DEF CallbackError, CallbackLate, Answered, Signal
<1>9. CASE UNCHANGED dnsVars
  BY <1>9 DEF dnsVars
<1> QED
  BY <1>1, <1>2, <1>3, <1>4, <1>5, <1>6, <1>7, <1>8, <1>9 DEF DnsNext, CallStep

LEMMA StepHolder == ASSUME ResolverInv, [DnsNext]_dnsVars PROVE Holder'
<1> USE ResolverConstants
    DEF ResolverInv, DnsTypeOK, Query, Generation, Inside, Holder, Waiting, Asleep, InCall, Asked
<1>1. ASSUME NEW c \in Callers, NEW h \in Hosts, Call(c, h) PROVE Holder'
  BY <1>1 DEF Call
<1>2. ASSUME NEW c \in Callers, Lock(c) PROVE Holder'
  BY <1>2 DEF Lock
<1>3. ASSUME NEW c \in Callers, NoRoute(c) PROVE Holder'
  BY <1>3 DEF NoRoute
<1>4. ASSUME NEW c \in Callers, SendQuery(c) PROVE Holder'
  BY <1>4 DEF SendQuery
<1>5. ASSUME NEW c \in Callers, QueryRefused(c) PROVE Holder'
  BY <1>5 DEF QueryRefused, Leave
<1>6. ASSUME NEW c \in Callers, FinishLate(c) PROVE Holder'
  BY <1>6 DEF FinishLate, Leave
<1>7. ASSUME NEW c \in Callers, Finish(c) PROVE Holder'
  BY <1>7 DEF Finish, Leave
<1>8. ASSUME NEW c \in Callers, Wake(c) PROVE Holder'
  BY <1>8 DEF Wake
<1>9. ASSUME NEW c \in Callers, Timeout(c) PROVE Holder'
  BY <1>9 DEF Timeout
<1>10. ASSUME NEW q \in queries, Callback(q) PROVE Holder'
  BY <1>10 DEF Callback, Answered, Signal, ForCurrent
<1>11. ASSUME NEW q \in queries, CallbackError(q) PROVE Holder'
  BY <1>11 DEF CallbackError, Answered, Signal, ForCurrent
<1>12. ASSUME NEW q \in queries, CallbackLate(q) PROVE Holder'
  BY <1>12 DEF CallbackLate
<1>13. CASE UNCHANGED dnsVars
  BY <1>13 DEF dnsVars
<1> QED
  BY <1>1, <1>2, <1>3, <1>4, <1>5, <1>6, <1>7, <1>8,
     <1>9, <1>10, <1>11, <1>12, <1>13 DEF DnsNext, CallStep

LEMMA StepWaiting == ASSUME ResolverInv, [DnsNext]_dnsVars PROVE Waiting'
<1> USE ResolverConstants
    DEF ResolverInv, DnsTypeOK, Query, Generation, Inside, Holder, Waiting, Asleep, InCall, Asked
<1>1. ASSUME NEW c \in Callers, NEW h \in Hosts, Call(c, h) PROVE Waiting'
  BY <1>1 DEF Call
<1>2. ASSUME NEW c \in Callers, Lock(c) PROVE Waiting'
  BY <1>2 DEF Lock
<1>3. ASSUME NEW c \in Callers, NoRoute(c) PROVE Waiting'
  BY <1>3 DEF NoRoute
<1>4. ASSUME NEW c \in Callers, SendQuery(c) PROVE Waiting'
  BY <1>4 DEF SendQuery
<1>5. ASSUME NEW c \in Callers, QueryRefused(c) PROVE Waiting'
  BY <1>5 DEF QueryRefused, Leave
<1>6. ASSUME NEW c \in Callers, FinishLate(c) PROVE Waiting'
  BY <1>6 DEF FinishLate, Leave
<1>7. ASSUME NEW c \in Callers, Finish(c) PROVE Waiting'
  BY <1>7 DEF Finish, Leave
<1>8. ASSUME NEW c \in Callers, Wake(c) PROVE Waiting'
  BY <1>8 DEF Wake
<1>9. ASSUME NEW c \in Callers, Timeout(c) PROVE Waiting'
  BY <1>9 DEF Timeout
<1>10. ASSUME NEW q \in queries, Callback(q) PROVE Waiting'
  BY <1>10 DEF Callback, Answered, Signal, ForCurrent
<1>11. ASSUME NEW q \in queries, CallbackError(q) PROVE Waiting'
  BY <1>11 DEF CallbackError, Answered, Signal, ForCurrent
<1>12. ASSUME NEW q \in queries, CallbackLate(q) PROVE Waiting'
  BY <1>12 DEF CallbackLate
<1>13. CASE UNCHANGED dnsVars
  BY <1>13 DEF dnsVars
<1> QED
  BY <1>1, <1>2, <1>3, <1>4, <1>5, <1>6, <1>7, <1>8,
     <1>9, <1>10, <1>11, <1>12, <1>13 DEF DnsNext, CallStep

LEMMA StepGeneration == ASSUME ResolverInv, [DnsNext]_dnsVars PROVE Generation'
<1> USE ResolverConstants
    DEF ResolverInv, DnsTypeOK, Query, Generation, Inside, Holder, Waiting, Asleep, InCall, Asked
<1>1. ASSUME NEW c \in Callers, NEW h \in Hosts, Call(c, h) PROVE Generation'
  BY <1>1 DEF Call
<1>2. ASSUME NEW c \in Callers, Lock(c) PROVE Generation'
  BY <1>2 DEF Lock
<1>3. ASSUME NEW c \in Callers, NoRoute(c) PROVE Generation'
  BY <1>3 DEF NoRoute
<1>4. ASSUME NEW c \in Callers, SendQuery(c) PROVE Generation'
  BY <1>4 DEF SendQuery
<1>5. ASSUME NEW c \in Callers, QueryRefused(c) PROVE Generation'
  BY <1>5 DEF QueryRefused, Leave
<1>6. ASSUME NEW c \in Callers, FinishLate(c) PROVE Generation'
  BY <1>6 DEF FinishLate, Leave
<1>7. ASSUME NEW c \in Callers, Finish(c) PROVE Generation'
  BY <1>7 DEF Finish, Leave
<1>8. ASSUME NEW c \in Callers, Wake(c) PROVE Generation'
  BY <1>8 DEF Wake
<1>9. ASSUME NEW c \in Callers, Timeout(c) PROVE Generation'
  BY <1>9 DEF Timeout
<1>10. ASSUME NEW q \in queries, Callback(q) PROVE Generation'
  BY <1>10 DEF Callback, Answered, Signal, ForCurrent
<1>11. ASSUME NEW q \in queries, CallbackError(q) PROVE Generation'
  BY <1>11 DEF CallbackError, Answered, Signal, ForCurrent
<1>12. ASSUME NEW q \in queries, CallbackLate(q) PROVE Generation'
  BY <1>12 DEF CallbackLate
<1>13. CASE UNCHANGED dnsVars
  BY <1>13 DEF dnsVars
<1> QED
  BY <1>1, <1>2, <1>3, <1>4, <1>5, <1>6, <1>7, <1>8,
     <1>9, <1>10, <1>11, <1>12, <1>13 DEF DnsNext, CallStep

LEMMA StepAsleep == ASSUME ResolverInv, [DnsNext]_dnsVars PROVE Asleep'
<1> USE ResolverConstants
    DEF ResolverInv, DnsTypeOK, Query, Generation, Inside, Holder, Waiting, Asleep, InCall, Asked
<1>1. ASSUME NEW c \in Callers, NEW h \in Hosts, Call(c, h) PROVE Asleep'
  BY <1>1 DEF Call
<1>2. ASSUME NEW c \in Callers, Lock(c) PROVE Asleep'
  BY <1>2 DEF Lock
<1>3. ASSUME NEW c \in Callers, NoRoute(c) PROVE Asleep'
  BY <1>3 DEF NoRoute
<1>4. ASSUME NEW c \in Callers, SendQuery(c) PROVE Asleep'
  BY <1>4 DEF SendQuery
<1>5. ASSUME NEW c \in Callers, QueryRefused(c) PROVE Asleep'
  BY <1>5 DEF QueryRefused, Leave
<1>6. ASSUME NEW c \in Callers, FinishLate(c) PROVE Asleep'
  BY <1>6 DEF FinishLate, Leave
<1>7. ASSUME NEW c \in Callers, Finish(c) PROVE Asleep'
  BY <1>7 DEF Finish, Leave
<1>8. ASSUME NEW c \in Callers, Wake(c) PROVE Asleep'
  BY <1>8 DEF Wake
<1>9. ASSUME NEW c \in Callers, Timeout(c) PROVE Asleep'
  BY <1>9 DEF Timeout
<1>10. ASSUME NEW q \in queries, Callback(q) PROVE Asleep'
  BY <1>10 DEF Callback, Answered, Signal, ForCurrent
<1>11. ASSUME NEW q \in queries, CallbackError(q) PROVE Asleep'
  BY <1>11 DEF CallbackError, Answered, Signal, ForCurrent
<1>12. ASSUME NEW q \in queries, CallbackLate(q) PROVE Asleep'
  BY <1>12 DEF CallbackLate
<1>13. CASE UNCHANGED dnsVars
  BY <1>13 DEF dnsVars
<1> QED
  BY <1>1, <1>2, <1>3, <1>4, <1>5, <1>6, <1>7, <1>8,
     <1>9, <1>10, <1>11, <1>12, <1>13 DEF DnsNext, CallStep

LEMMA StepInside == ASSUME ResolverInv, [DnsNext]_dnsVars PROVE Inside'
<1> USE ResolverConstants
    DEF ResolverInv, DnsTypeOK, Query, Generation, Inside, Holder, Waiting, Asleep, InCall, Asked
<1>1. ASSUME NEW c \in Callers, NEW h \in Hosts, Call(c, h) PROVE Inside'
  BY <1>1 DEF Call
<1>2. ASSUME NEW c \in Callers, Lock(c) PROVE Inside'
  BY <1>2 DEF Lock
<1>3. ASSUME NEW c \in Callers, NoRoute(c) PROVE Inside'
  BY <1>3 DEF NoRoute
<1>4. ASSUME NEW c \in Callers, SendQuery(c) PROVE Inside'
  BY <1>4 DEF SendQuery
<1>5. ASSUME NEW c \in Callers, QueryRefused(c) PROVE Inside'
  BY <1>5 DEF QueryRefused, Leave
<1>6. ASSUME NEW c \in Callers, FinishLate(c) PROVE Inside'
  BY <1>6 DEF FinishLate, Leave
<1>7. ASSUME NEW c \in Callers, Finish(c) PROVE Inside'
  BY <1>7 DEF Finish, Leave
<1>8. ASSUME NEW c \in Callers, Wake(c) PROVE Inside'
  BY <1>8 DEF Wake
<1>9. ASSUME NEW c \in Callers, Timeout(c) PROVE Inside'
  BY <1>9 DEF Timeout
<1>10. ASSUME NEW q \in queries, Callback(q) PROVE Inside'
  BY <1>10 DEF Callback, Answered, Signal, ForCurrent
<1>11. ASSUME NEW q \in queries, CallbackError(q) PROVE Inside'
  BY <1>11 DEF CallbackError, Answered, Signal, ForCurrent
<1>12. ASSUME NEW q \in queries, CallbackLate(q) PROVE Inside'
  BY <1>12 DEF CallbackLate
<1>13. CASE UNCHANGED dnsVars
  BY <1>13 DEF dnsVars
<1> QED
  BY <1>1, <1>2, <1>3, <1>4, <1>5, <1>6, <1>7, <1>8,
     <1>9, <1>10, <1>11, <1>12, <1>13 DEF DnsNext, CallStep

LEMMA ResolverInvStep == ResolverInv /\ [DnsNext]_dnsVars => ResolverInv'
  BY StepType, StepHolder, StepWaiting, StepGeneration, StepInside, StepAsleep DEF ResolverInv

THEOREM ResolverInvariant == DnsSpec => []ResolverInv
  BY ResolverInvInit, ResolverInvStep, PTL DEF DnsSpec

(* A success that wakes a caller has filled its own buffer with the        *)
(* address of its own host (main.cpp:1460-1464).                           *)
THEOREM ResolverWakesRight == DnsSpec => [](WokenByOwnAnswer /\ OneInside)
<1>1. ResolverInv => WokenByOwnAnswer /\ OneInside
  BY DEF ResolverInv, Inside, InCall, Asked, WokenByOwnAnswer, OneInside
<1> QED
  BY <1>1, ResolverInvariant, PTL

(* No answer is written through the pointer of a call that has returned.   *)
THEOREM ResolverNeverDangles == DnsSpec => NoDanglingWrite
<1>1. ASSUME ResolverInv, [DnsNext]_dnsVars, NEW x \in Callers, pc[x] = "idle", pc'[x] = "idle"
      PROVE  buf'[x] = buf[x]
  <2> USE <1>1, ResolverConstants DEF ResolverInv, DnsTypeOK
  <2>1. ASSUME NEW c \in Callers, NEW h \in Hosts, Call(c, h) PROVE buf'[x] = buf[x]
    BY <1>1, <2>1 DEF Call
  <2>2. ASSUME NEW c \in Callers, CallStep(c) PROVE buf'[x] = buf[x]
    BY <2>2 DEF CallStep, Lock, NoRoute, SendQuery, QueryRefused, Wake, Timeout,
       Finish, FinishLate
  <2>3. ASSUME NEW q \in queries, Callback(q) PROVE buf'[x] = buf[x]
    <3>1. mutex \in Callers /\ pc[mutex] \in Asked
      BY <2>3 DEF Callback, ForCurrent, Generation
    <3>2. pc[mutex] \in InCall /\ pc[mutex] # "idle"
      BY <3>1 DEF Asked, InCall
    <3>3. out = mutex
      BY <3>1, <3>2 DEF Inside
    <3>4. out # x
      BY <1>1, <3>2, <3>3
    <3> QED
      BY <2>3, <3>4 DEF Callback
  <2>4. ASSUME NEW q \in queries, CallbackError(q) \/ CallbackLate(q)
        PROVE  buf'[x] = buf[x]
    BY <2>4 DEF CallbackError, CallbackLate
  <2>5. CASE UNCHANGED dnsVars
    BY <2>5 DEF dnsVars
  <2> QED
    BY <1>1, <2>1, <2>2, <2>3, <2>4, <2>5 DEF DnsNext
<1>2. ResolverInv /\ [DnsNext]_dnsVars =>
        [\A c \in Callers :
           pc[c] = "idle" /\ pc'[c] = "idle" => buf'[c] = buf[c]]_dnsVars
  BY <1>1
<1> QED
  BY <1>2, ResolverInvariant, PTL DEF DnsSpec, NoDanglingWrite

-----------------------------------------------------------------------------
(* Every step of the resolver is a step of the promise or leaves what it   *)
(* promises alone.                                                         *)
LEMMA PromiseStep == ResolverInv /\ [DnsNext]_dnsVars => [Promise!RvNext]_<<host, answer>>
<1> SUFFICES ASSUME ResolverInv, [DnsNext]_dnsVars PROVE [Promise!RvNext]_<<host, answer>>
  OBVIOUS
<1> USE ResolverConstants DEF ResolverInv, DnsTypeOK
<1>1. ASSUME NEW c \in Callers, NEW h \in Hosts, Call(c, h)
      PROVE  [Promise!RvNext]_<<host, answer>>
  <2>1. host[c] = NoHost
    BY <1>1 DEF Call, Asleep
  <2> QED
    BY <1>1, <2>1 DEF Call, Promise!RvNext, Promise!Ask
<1>2. ASSUME NEW c \in Callers, NoRoute(c) \/ QueryRefused(c) \/ FinishLate(c)
      PROVE  Promise!GiveUp(c)
  BY <1>2 DEF NoRoute, QueryRefused, FinishLate, Leave, Inside, InCall, Promise!GiveUp, Asleep
<1>3. ASSUME NEW c \in Callers, Finish(c)
      PROVE  Promise!Return(c) \/ Promise!GiveUp(c)
  BY <1>3 DEF Finish, Leave, Inside, InCall, Asked, Promise!GiveUp, Promise!Return, Asleep
<1>4. ASSUME NEW c \in Callers, Lock(c) \/ SendQuery(c) \/ Wake(c) \/ Timeout(c)
      PROVE  UNCHANGED <<host, answer>>
  BY <1>4 DEF Lock, SendQuery, Wake, Timeout
<1>5. ASSUME NEW q \in queries, Callback(q) \/ CallbackError(q) \/ CallbackLate(q)
      PROVE  UNCHANGED <<host, answer>>
  BY <1>5 DEF Callback, CallbackError, CallbackLate
<1>6. CASE UNCHANGED dnsVars
  BY <1>6 DEF dnsVars
<1> QED
  BY <1>1, <1>2, <1>3, <1>4, <1>5, <1>6 DEF DnsNext, CallStep, Promise!RvNext

(* The resolver implements its promise.                                    *)
THEOREM ResolverKeepsPromise == DnsSpec => KeepsPromise
<1>1. DnsInit => Promise!RvInit
  BY DEF DnsInit, Promise!RvInit
<1> QED
  BY <1>1, PromiseStep, ResolverInvariant, PTL DEF DnsSpec, KeepsPromise, Promise!RvSpec,
     Promise!rvVars

\* ------------------------------- The joiner -------------------------------
\* Time until the poll runs: the workqueue may be taken until just before it is due.
Due == IF pollIn > 0 THEN pollIn + Hold ELSE holding

Reading == [read : {TRUE}, want : BOOLEAN, committed : BOOLEAN]
Polling == polling # NoPoll
WillForce == Polling /\ polling.want

Timers ==
    /\ jsAge \in Nat /\ retryIn \in Int /\ retryIn >= Idle
    /\ pollIn \in Int /\ pollIn >= Idle /\ holding \in 0..Hold
Phase == js \in {"IDLE", "DISCOVER"} \cup Connecting
Flags == committed \in BOOLEAN /\ applied \in BOOLEAN /\ driver \in BOOLEAN
Readings == polling \in {NoPoll} \cup Reading

\* Before the boot nothing runs; an attempt has no retry pending but a poll; no
\* attempt is made with a dataset, and none has one until it is entrusted with it.
Attempts ==
    /\ ~up => js = "IDLE" /\ ~applied /\ ~driver /\ ~Polling /\ retryIn = Idle
    /\ js # "IDLE" => retryIn = Idle /\ pollIn # Idle
    /\ committed => js \in {"IDLE", "ENTRUST"}

\* The poll is the fast one until there is a dataset, and the receiver is the
\* poll's business alone.
Polls ==
    /\ ~committed => pollIn <= PollFast
    /\ Polling => up /\ (polling.committed => committed /\ polling.want)
    /\ applied \/ driver \/ Polling => pollIn # Idle

\* A receiver left on by an attempt is taken back before the next one begins.
Undone ==
    js = "IDLE" /\ ~committed /\ (applied \/ WillForce) =>
        retryIn > (IF WillForce THEN PollFast + Hold ELSE IF Polling THEN 0 ELSE Due)

\* The scan has the receiver off, and no poll under way turns it on.
Scanning == js = "DISCOVER" => ~driver /\ ~applied /\ ~WillForce

\* In a handshake the receiver is on, or a poll comes in time to turn it on.
Listening ==
    js \in Connecting =>
        /\ driver = applied
        /\ Polling /\ ~polling.want => ~driver /\ jsAge = 0
        /\ ~driver => IF Polling THEN jsAge <= PollFast + Hold
                      ELSE jsAge + Due <= PollFast + Hold

JoinerInv ==
    /\ Timers /\ Phase /\ Flags /\ Readings
    /\ Attempts /\ Polls /\ Undone /\ Scanning /\ Listening /\ RetryNeverLost

-----------------------------------------------------------------------------
LEMMA Constants ==
    /\ PollFast \in Nat \ {0} /\ PollSlow \in Nat \ {0} /\ RetryPeriod \in Nat \ {0}
    /\ BusyPeriod \in Nat \ {0} /\ Hold \in Nat /\ PollFast + Hold < RetryPeriod
    BY JoinerConstants, PollIsFrequent

\* A poll that has read something is under way.
LEMMA NotReading == NoPoll \notin Reading
    BY DEF NoPoll, Reading

LEMMA InvInit == Init => JoinerInv
<1> SUFFICES ASSUME Init PROVE JoinerInv
    OBVIOUS
<1> USE Constants DEF Init, Idle, Connecting
<1>1. Timers /\ Phase
    BY DEF Timers, Phase
<1>3. Flags
    BY DEF Flags
<1>4. Readings
    BY DEF Readings
<1>2. Attempts /\ Polls /\ Undone /\ Scanning /\ Listening /\ RetryNeverLost
    BY DEF Attempts, Polls, Undone, Scanning, Listening, RetryNeverLost, Due, Polling, WillForce
<1> QED
    BY <1>1, <1>2, <1>3, <1>4 DEF JoinerInv

LEMMA InvStep == JoinerInv /\ [Next]_vars => JoinerInv'
<1> SUFFICES ASSUME JoinerInv, [Next]_vars PROVE JoinerInv'
    OBVIOUS
<1> USE Constants, NotReading DEF JoinerInv, Timers, Phase, Flags, Readings, Reading, Attempts, Polls, Undone, Scanning,
        Listening, RetryNeverLost, Due, Polling, WillForce, Idle, Connecting, ot, works, rx,
        WorkqFree, Schedule, Enter, CallbackFails, JoinerStarts, ScanBegins, JoinerRefused
<1>1. CASE ScanFinds
    <2> USE <1>1 DEF ScanFinds
    <2>1. Timers' /\ Phase'
        OBVIOUS
    <2>8. Flags'
        OBVIOUS
    <2>9. Readings'
        OBVIOUS
    <2>2. Attempts'
        OBVIOUS
    <2>3. Polls'
        OBVIOUS
    <2>4. Undone'
        OBVIOUS
    <2>5. Scanning'
        OBVIOUS
    <2>6. Listening'
        OBVIOUS
    <2>7. RetryNeverLost'
        OBVIOUS
    <2> QED
        BY <2>1, <2>2, <2>3, <2>4, <2>5, <2>6, <2>7, <2>8, <2>9
<1>2. CASE HandshakeEnds
    BY <1>2 DEF HandshakeEnds
<1>3. CASE DatasetSaved
    BY <1>3 DEF DatasetSaved
<1>4. CASE CallbackSucceeds
    BY <1>4 DEF CallbackSucceeds
<1>5. CASE Attach
    BY <1>5 DEF Attach
<1>6. CASE ParentLost
    BY <1>6 DEF ParentLost
<1>7. CASE OtherJob
    BY <1>7 DEF OtherJob
<1>8. CASE PollRead
    <2> USE <1>8 DEF PollRead, PollWant
    <2>1. Timers' /\ Phase'
        OBVIOUS
    <2>8. Flags'
        OBVIOUS
    <2>9. Readings'
        OBVIOUS
    <2>2. Attempts'
        OBVIOUS
    <2>3. Polls'
        OBVIOUS
    <2>4. Undone'
        OBVIOUS
    <2>5. Scanning'
        OBVIOUS
    <2>10. polling'.want = PollWant /\ polling' # NoPoll
        BY DEF NoPoll
    <2>11. js \in Connecting => PollWant
        OBVIOUS
    <2>12. ~driver /\ js \in Connecting => jsAge <= PollFast + Hold
        OBVIOUS
    <2>6. Listening'
        BY <2>10, <2>11, <2>12
    <2>7. RetryNeverLost'
        OBVIOUS
    <2> QED
        BY <2>1, <2>2, <2>3, <2>4, <2>5, <2>6, <2>7, <2>8, <2>9
<1>9. CASE PollApply
    <2> USE <1>9 DEF PollApply, Wants
    <2>1. Timers' /\ Phase'
        OBVIOUS
    <2>8. Flags'
        OBVIOUS
    <2>9. Readings'
        OBVIOUS
    <2>2. Attempts'
        OBVIOUS
    <2>3. Polls'
        OBVIOUS
    <2>10. ~Polling' /\ ~WillForce'
        OBVIOUS
    <2>11. ~committed => Due' = PollFast + Hold
        OBVIOUS
    <2>12. applied' = polling.want
        OBVIOUS
    <2>4. Undone'
        BY <2>10, <2>11, <2>12
    <2>5. Scanning'
        OBVIOUS
    <2>6. Listening'
        BY <2>10, <2>11, <2>12
    <2>7. RetryNeverLost'
        OBVIOUS
    <2> QED
        BY <2>1, <2>2, <2>3, <2>4, <2>5, <2>6, <2>7, <2>8, <2>9
<1>10. CASE Reboot
    <2> USE <1>10 DEF Reboot
    <2>1. Timers' /\ Phase'
        OBVIOUS
    <2>8. Flags'
        OBVIOUS
    <2>9. Readings'
        OBVIOUS
    <2>2. Attempts'
        OBVIOUS
    <2>3. Polls'
        OBVIOUS
    <2>4. Undone'
        OBVIOUS
    <2>5. Scanning'
        OBVIOUS
    <2>6. Listening'
        OBVIOUS
    <2>7. RetryNeverLost'
        OBVIOUS
    <2> QED
        BY <2>1, <2>2, <2>3, <2>4, <2>5, <2>6, <2>7, <2>8, <2>9
<1>11. CASE Tick
    BY <1>11 DEF Tick, CountDown, Heard
<1>12. CASE Boot
    <2> USE <1>12 DEF Boot
    <2>1. Timers' /\ Phase'
        OBVIOUS
    <2>8. Flags'
        OBVIOUS
    <2>9. Readings'
        OBVIOUS
    <2>2. Attempts'
        OBVIOUS
    <2>3. Polls'
        OBVIOUS
    <2>4. Undone'
        OBVIOUS
    <2>5. Scanning'
        OBVIOUS
    <2>6. Listening'
        OBVIOUS
    <2>7. RetryNeverLost'
        OBVIOUS
    <2> QED
        BY <2>1, <2>2, <2>3, <2>4, <2>5, <2>6, <2>7, <2>8, <2>9
<1>13. CASE Retry
    <2> USE <1>13 DEF Retry
    <2>1. Timers' /\ Phase'
        OBVIOUS
    <2>8. Flags'
        OBVIOUS
    <2>9. Readings'
        OBVIOUS
    <2>2. Attempts'
        OBVIOUS
    <2>3. Polls'
        OBVIOUS
    <2>10. ~Polling' /\ ~WillForce'
        OBVIOUS
    <2>11. ASSUME ~committed => JoinerRefused PROVE Undone'
        <3>1. js' = js /\ committed' = committed
            BY <2>11
        <3>2. ASSUME js = "IDLE", ~committed PROVE retryIn' > Due'
            <4>1. retryIn' = RetryPeriod /\ pollIn' = pollIn /\ holding' = 0
                BY <2>11, <3>2
            <4>2. Due' <= PollFast + Hold /\ Due' \in Int
                BY <4>1, <3>2
            <4> QED
                BY <4>1, <4>2
        <3> QED
            BY <2>10, <3>1, <3>2
    <2>12. ASSUME ~committed, JoinerStarts PROVE Undone'
        BY <2>12
    <2>4. Undone'
        BY <2>11, <2>12
    <2>5. Scanning'
        OBVIOUS
    <2>6. Listening'
        OBVIOUS
    <2>7. RetryNeverLost'
        OBVIOUS
    <2> QED
        BY <2>1, <2>2, <2>3, <2>4, <2>5, <2>6, <2>7, <2>8, <2>9
<1>14. CASE ScanFindsNothing
    <2> USE <1>14 DEF ScanFindsNothing
    <2>1. Timers' /\ Phase'
        OBVIOUS
    <2>8. Flags'
        OBVIOUS
    <2>9. Readings'
        OBVIOUS
    <2>2. Attempts'
        OBVIOUS
    <2>3. Polls'
        OBVIOUS
    <2>4. Undone'
        OBVIOUS
    <2>5. Scanning'
        OBVIOUS
    <2>6. Listening'
        OBVIOUS
    <2>7. RetryNeverLost'
        OBVIOUS
    <2> QED
        BY <2>1, <2>2, <2>3, <2>4, <2>5, <2>6, <2>7, <2>8, <2>9
<1>15. CASE AttemptFails
    <2> USE <1>15 DEF AttemptFails, Heard
    <2>1. Timers' /\ Phase'
        OBVIOUS
    <2>8. Flags'
        OBVIOUS
    <2>9. Readings'
        OBVIOUS
    <2>2. Attempts'
        OBVIOUS
    <2>3. Polls'
        OBVIOUS
    <2>4. Undone'
        OBVIOUS
    <2>5. Scanning'
        OBVIOUS
    <2>6. Listening'
        OBVIOUS
    <2>7. RetryNeverLost'
        OBVIOUS
    <2> QED
        BY <2>1, <2>2, <2>3, <2>4, <2>5, <2>6, <2>7, <2>8, <2>9
<1>16. CASE UNCHANGED vars
    BY <1>16 DEF vars
<1> QED
    BY <1>1, <1>2, <1>3, <1>4, <1>5, <1>6, <1>7, <1>8, <1>9, <1>10, <1>11, <1>12, <1>13, <1>14, <1>15, <1>16 DEF Next

\* No state of the joiner is one in which nothing will start it again.
THEOREM JoinerInvariant == Spec => []JoinerInv
    BY InvInit, InvStep, PTL DEF Spec

\* The run's RetryNeverLost (main.cpp:1145, "retry indefinitely"), for all periods.
THEOREM RetriesGoOn == Spec => []RetryNeverLost
<1>1. JoinerInv => RetryNeverLost
    BY DEF JoinerInv
<1> QED
    BY <1>1, JoinerInvariant, PTL

\* The run's ListensInTime (main.cpp:1171-1173): an attempt that reaches its
\* handshake finds the receiver on after one poll at the latest.
THEOREM ListensInHandshake == Spec => []ListensInTime
<1>1. JoinerInv => ListensInTime
    BY Constants DEF JoinerInv, Timers, Flags, Polls, Listening, Due, ListensInTime, Idle, Polling
<1> QED
    BY <1>1, JoinerInvariant, PTL

\* The run's ScanUndisturbed (main.cpp:1167-1170), whatever the poll had read
\* before the scan began.
THEOREM ScansUndisturbed == Spec => ScanUndisturbed
<1>1. JoinerInv /\ [Next]_vars => [~driver /\ driver' => js # "DISCOVER"]_vars
    <2> SUFFICES ASSUME JoinerInv, Next, ~driver, driver', js = "DISCOVER" PROVE FALSE
        BY DEF vars
    <2>1. CASE PollApply
        BY <2>1 DEF PollApply, Wants, JoinerInv, Flags, Scanning, WillForce, Polling, rx
    <2> QED
        BY <2>1 DEF Next, Boot, Retry, JoinerStarts, ScanBegins, JoinerRefused, PollRead,
            ScanFindsNothing, ScanFinds, HandshakeEnds, AttemptFails, CallbackFails, DatasetSaved,
            CallbackSucceeds, Attach, ParentLost, OtherJob, Tick, Reboot, rx, ot, works
<1> QED
    BY <1>1, JoinerInvariant, PTL DEF Spec, ScanUndisturbed
=============================================================================
