------------------------------- MODULE LogTail -------------------------------
(***************************************************************************)
(* What the log backend of the web console promises                       *)
(* (src/web/log_backend_web.c:1-30): the newest log lines of this boot, in *)
(* order and numbered from 1, as many as fit in the ring; the oldest are   *)
(* given up, and only as many as the new line needs.                       *)
(***************************************************************************)
EXTENDS Naturals, Sequences

CONSTANTS
    Capacity,   \* bytes of the ring
    Header,     \* bytes stored with each line
    Lengths     \* the lengths a line may have

VARIABLES
    log,        \* the lines kept, oldest first
    next        \* the number of the next line

logVars == <<log, next>>

Text(seq, len) == [i \in 1..len |-> <<"text", seq, i>>]

Size(lines) ==
    LET sum[i \in 0..Len(lines)] ==
          IF i = 0 THEN 0 ELSE sum[i - 1] + Header + Len(lines[i].text)
    IN  sum[Len(lines)]

LtInit == log = <<>> /\ next = 1

\* The longest tails of the log that leave room for `bytes` more.
Tails(bytes) == {k \in 0..Len(log) : Size(SubSeq(log, k + 1, Len(log))) + bytes <= Capacity}

AppendLine(len) ==
    /\ Header + len <= Capacity
    /\ \E k \in Tails(Header + len) :
          /\ \A j \in Tails(Header + len) : k <= j
          /\ log' = Append(SubSeq(log, k + 1, Len(log)), [seq |-> next, text |-> Text(next, len)])
    /\ next' = next + 1

Restart == log' = <<>> /\ next' = 1

LtNext == Restart \/ \E len \in Lengths : AppendLine(len)

LtSpec == LtInit /\ [][LtNext]_logVars
=============================================================================
