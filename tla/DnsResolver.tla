---------------------------- MODULE DnsResolver -----------------------------
(***************************************************************************)
(* resolve_ipv4_hostname() and dns_callback() (src/main.cpp:1451-1593).*)
(* The main thread (broker, boot-time SNTP) and the system workqueue       *)
(* (daily SNTP resync) call it; answers come on the OpenThread thread,     *)
(* possibly after the caller's 15 s wait has ended, and possibly twice.    *)
(* OpenThread's callback runs to completion on the one core; everything    *)
(* the callers do can be interrupted by it.                                *)
(***************************************************************************)
EXTENDS Integers

CONSTANTS
    Callers, Hosts, NoHost,
    Nobody,     \* no mutex owner, no out pointer
    MaxId       \* bound on current_dns_id, so on the number of calls

ASSUME ResolverConstants ==
    /\ NoHost \notin Hosts
    /\ Nobody \notin Callers
    /\ MaxId \in Nat

VARIABLES
    pc,         \* idle | lock | query | wait | woken | late
    host,       \* hostname of the call in progress
    buf,        \* *out of the caller: an address, named like its host
    answer,     \* what the last call returned, NoHost for -1
    mutex,      \* dns_mutex
    sem,        \* dns_sem
    result,     \* dns_result: 0 or -1
    curId,      \* current_dns_id
    out,        \* current_dctx.out: the caller whose buffer it points to
    queries     \* queries OpenThread may still answer

dnsVars == <<pc, host, buf, answer, mutex, sem, result, curId, out, queries>>

Query == [id : 0..MaxId, host : Hosts]

DnsTypeOK ==
    /\ pc \in [Callers -> {"idle", "lock", "query", "wait", "woken", "late"}]
    /\ host \in [Callers -> Hosts \union {NoHost}]
    /\ buf \in [Callers -> Hosts \union {NoHost}]
    /\ answer \in [Callers -> Hosts \union {NoHost}]
    /\ mutex \in Callers \union {Nobody}
    /\ sem \in {0, 1}
    /\ result \in {0, -1}
    /\ curId \in 0..MaxId
    /\ out \in Callers \union {Nobody}
    /\ queries \subseteq Query

DnsInit ==
    /\ pc = [c \in Callers |-> "idle"]
    /\ host = [c \in Callers |-> NoHost]
    /\ buf = [c \in Callers |-> NoHost]
    /\ answer = [c \in Callers |-> NoHost]
    /\ mutex = Nobody
    /\ sem = 0
    /\ result = -1
    /\ curId = 0
    /\ out = Nobody
    /\ queries = {}

-----------------------------------------------------------------------------
\* Entry of the call, up to k_mutex_lock().
Call(c, h) ==
    /\ pc[c] = "idle"
    /\ pc' = [pc EXCEPT ![c] = "lock"]
    /\ host' = [host EXCEPT ![c] = h]
    /\ buf' = [buf EXCEPT ![c] = NoHost]
    /\ answer' = [answer EXCEPT ![c] = NoHost]
    /\ UNCHANGED <<mutex, sem, result, curId, out, queries>>

\* Mutant: without dns_mutex.
Lock_Free(c) ==
    /\ pc[c] = "lock"
    /\ curId < MaxId
    /\ mutex' = c
    /\ pc' = [pc EXCEPT ![c] = "query"]
    /\ sem' = 0
    /\ result' = -1
    /\ curId' = curId + 1
    /\ out' = c
    /\ UNCHANGED <<host, buf, answer, queries>>

\* The mutex is taken; semaphore, result, generation and context are set up.
Lock(c) ==
    /\ pc[c] = "lock"
    /\ mutex = Nobody
    /\ curId + 1 < MaxId
    /\ mutex' = c
    /\ pc' = [pc EXCEPT ![c] = "query"]
    /\ sem' = 0
    /\ result' = -1
    /\ curId' = curId + 1
    /\ out' = c
    /\ UNCHANGED <<host, buf, answer, queries>>

\* Mutant: the context is not invalidated on the way out.
Leave_Valid(c, r) ==
    /\ mutex' = Nobody
    /\ pc' = [pc EXCEPT ![c] = "idle"]
    /\ host' = [host EXCEPT ![c] = NoHost]
    /\ answer' = [answer EXCEPT ![c] = r]
    /\ UNCHANGED <<curId, out>>

\* Invalidate the context, unlock, return r.
Leave(c, r) ==
    /\ curId' = curId + 1
    /\ out' = Nobody
    /\ mutex' = Nobody
    /\ pc' = [pc EXCEPT ![c] = "idle"]
    /\ host' = [host EXCEPT ![c] = NoHost]
    /\ answer' = [answer EXCEPT ![c] = r]

\* Mutant: the early return forgets the mutex.
NoRoute_KeepsMutex(c) ==
    /\ pc[c] = "query"
    /\ pc' = [pc EXCEPT ![c] = "idle"]
    /\ host' = [host EXCEPT ![c] = NoHost]
    /\ UNCHANGED <<buf, answer, mutex, sem, result, curId, out, queries>>

\* No NAT64 route in the network data: this path leaves the context in place.
NoRoute(c) ==
    /\ pc[c] = "query"
    /\ mutex' = Nobody
    /\ pc' = [pc EXCEPT ![c] = "idle"]
    /\ host' = [host EXCEPT ![c] = NoHost]
    /\ UNCHANGED <<buf, answer, sem, result, curId, out, queries>>

\* otDnsClientResolveIp4Address() takes the query.
SendQuery(c) ==
    /\ pc[c] = "query"
    /\ queries' = queries \union {[id |-> curId, host |-> host[c]]}
    /\ pc' = [pc EXCEPT ![c] = "wait"]
    /\ UNCHANGED <<host, buf, answer, mutex, sem, result, curId, out>>

QueryRefused(c) ==
    /\ pc[c] = "query"
    /\ Leave(c, NoHost)
    /\ UNCHANGED <<buf, sem, result, queries>>

\* k_sem_take() returns 0.
Wake(c) ==
    /\ pc[c] = "wait"
    /\ sem = 1
    /\ sem' = 0
    /\ pc' = [pc EXCEPT ![c] = "woken"]
    /\ UNCHANGED <<host, buf, answer, mutex, result, curId, out, queries>>

\* k_sem_take() times out; the context is still valid for a moment.
Timeout(c) ==
    /\ pc[c] = "wait"
    /\ sem = 0
    /\ pc' = [pc EXCEPT ![c] = "late"]
    /\ UNCHANGED <<host, buf, answer, mutex, sem, result, curId, out, queries>>

Finish(c) ==
    /\ pc[c] = "woken"
    /\ Leave(c, IF result = 0 THEN buf[c] ELSE NoHost)
    /\ UNCHANGED <<buf, sem, result, queries>>

FinishLate(c) ==
    /\ pc[c] = "late"
    /\ Leave(c, NoHost)
    /\ UNCHANGED <<buf, sem, result, queries>>

-----------------------------------------------------------------------------
\* Mutant: the generation is not compared.
ForCurrent_Any(q) == q = q

\* The generation test at the head of dns_callback().
ForCurrent(q) == q.id = curId

\* OpenThread may keep a query it has answered (a duplicate answer) or not.
Answered(q) == queries' \in {queries, queries \ {q}}

\* k_sem_give() on a binary semaphore.
Signal == sem' = 1

\* dns_callback() with an address.
Callback(q) ==
    /\ q \in queries
    /\ ForCurrent(q)
    /\ buf' = IF out = Nobody THEN buf ELSE [buf EXCEPT ![out] = q.host]
    /\ result' = 0
    /\ Signal
    /\ Answered(q)
    /\ UNCHANGED <<pc, host, answer, mutex, curId, out>>

\* dns_callback() with an error or an empty answer.
CallbackError(q) ==
    /\ q \in queries
    /\ ForCurrent(q)
    /\ result' = -1
    /\ Signal
    /\ Answered(q)
    /\ UNCHANGED <<pc, host, buf, answer, mutex, curId, out>>

\* A late answer is dropped.
CallbackLate(q) ==
    /\ q \in queries
    /\ ~ForCurrent(q)
    /\ queries' = queries \ {q}
    /\ UNCHANGED <<pc, host, buf, answer, mutex, sem, result, curId, out>>

CallStep(c) ==
    \/ Lock(c) \/ NoRoute(c) \/ SendQuery(c) \/ QueryRefused(c)
    \/ Wake(c) \/ Timeout(c) \/ Finish(c) \/ FinishLate(c)

DnsNext ==
    \/ \E c \in Callers : CallStep(c) \/ \E h \in Hosts : Call(c, h)
    \/ \E q \in queries : Callback(q) \/ CallbackError(q) \/ CallbackLate(q)

DnsSpec == DnsInit /\ [][DnsNext]_dnsVars

\* Threads run and waits time out.  A caller may find the mutex taken again
\* and again, but k_mutex serves waiters in order of priority, then of age.
DnsFairSpec ==
    /\ DnsSpec
    /\ \A c \in Callers :
        SF_dnsVars(Lock(c)) /\ WF_dnsVars(CallStep(c))

-----------------------------------------------------------------------------
\* The promise made to a caller: module Resolver.
Promise == INSTANCE Resolver WITH
    asking <- host, answer <- answer

(* main.cpp:1510-1513, "Returns 0 on success and fills *out": a call ends  *)
(* with the address of the host it asked for, or fails, whatever late or   *)
(* duplicate answers to earlier calls come in meanwhile (1453-1457,        *)
(* 1461-1465).                                                             *)
KeepsPromise == Promise!RvSpec

(* main.cpp:1460-1464: no answer is ever written through the pointer of a  *)
(* call that has returned, whose stack frame is gone.                      *)
NoDanglingWrite ==
    [][\A c \in Callers :
         pc[c] = "idle" /\ pc'[c] = "idle" => buf'[c] = buf[c]]_dnsVars

(* A caller that its semaphore woke is woken by an answer to its own query *)
(* (the k_sem_reset() and the generation exist for this): a success it     *)
(* reads has filled its own buffer.                                        *)
WokenByOwnAnswer ==
    \A c \in Callers : pc[c] = "woken" /\ result = 0 => buf[c] = host[c]

\* One call at a time is past the lock.
OneInside ==
    \A c \in Callers : pc[c] \in {"query", "wait", "woken", "late"} => mutex = c

(* Every call ends unless the bound on the model's ids stops it at the     *)
(* lock: nobody waits for ever on the mutex or the semaphore.              *)
CallsEnd ==
    \A c \in Callers : pc[c] = "lock" /\ curId + 1 < MaxId ~>
        pc[c] = "idle" \/ curId + 1 >= MaxId
=============================================================================
