------------------------------ MODULE Resolver ------------------------------
(***************************************************************************)
(* What a caller of resolve_ipv4_hostname() is promised                    *)
(* (src/main.cpp:1510-1513): a call ends with the address of the       *)
(* host it asked for or with a failure, and calls never mix.               *)
(***************************************************************************)
CONSTANTS
    Callers,   \* threads that resolve names
    Hosts,     \* names they may ask for
    NoHost     \* no name, no address

VARIABLES
    asking,    \* the host a caller is waiting for
    answer     \* what its last call returned: an address, or NoHost for -1

rvVars == <<asking, answer>>

\* The address of a host is named like the host.
RvTypeOK ==
    /\ asking \in [Callers -> Hosts \union {NoHost}]
    /\ answer \in [Callers -> Hosts \union {NoHost}]

RvInit ==
    /\ asking = [c \in Callers |-> NoHost]
    /\ answer = [c \in Callers |-> NoHost]

Ask(c, h) ==
    /\ asking[c] = NoHost
    /\ asking' = [asking EXCEPT ![c] = h]
    /\ answer' = [answer EXCEPT ![c] = NoHost]

Return(c) ==
    /\ asking[c] # NoHost
    /\ asking' = [asking EXCEPT ![c] = NoHost]
    /\ answer' = [answer EXCEPT ![c] = asking[c]]

GiveUp(c) ==
    /\ asking[c] # NoHost
    /\ asking' = [asking EXCEPT ![c] = NoHost]
    /\ UNCHANGED answer

RvNext ==
    \E c \in Callers :
        \/ \E h \in Hosts : Ask(c, h)
        \/ Return(c)
        \/ GiveUp(c)

RvSpec == RvInit /\ [][RvNext]_rvVars

\* Every call ends.
RvLive == \A c \in Callers : asking[c] # NoHost ~> asking[c] = NoHost
=============================================================================
