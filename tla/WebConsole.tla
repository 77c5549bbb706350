----------------------------- MODULE WebConsole -----------------------------
(***************************************************************************)
(* The web console: the byte ring the logging thread fills                 *)
(* (src/web/log_backend_web.c), the /cs handler that reads it from the     *)
(* HTTP thread (src/web/web_ui.cpp:517-588) and the dashboard page whose   *)
(* script polls /cs with the number of the last line it has seen           *)
(* (scripts/gen_dashboard_gz.py:100-119).                                  *)
(*                                                                         *)
(* The ring is kept cell by cell, with the wrap-around of its head and     *)
(* tail: a line is a header of Header cells (its number, its length, the   *)
(* rest padding) and a cell per byte of text.  Each critical section under *)
(* ring_lock is one action.  The link between page and device may lose a   *)
(* request or an answer.                                                   *)
(***************************************************************************)
EXTENDS Naturals, Sequences, SequencesExt

CONSTANTS
    RingSize,   \* WEB_LOG_RING_SIZE
    Header,     \* WEB_LOG_HDR_SIZE
    Lengths,    \* lengths of formatted lines (msg_buf bounds them)
    Prefix,     \* WEB_LOG_TS_PREFIX_LEN
    Cap,        \* room for lines in one answer of /cs
    MaxLines,   \* bound: lines logged in one boot
    MaxBoots,   \* bound: restarts of the device
    MaxLoads    \* bound: reloads of the page

ASSUME RingAssumption ==
    /\ {RingSize, Header, Prefix, Cap, MaxLines, MaxBoots, MaxLoads} \subseteq Nat
    /\ Lengths \subseteq Nat \ {0}
    /\ Header >= 2 /\ RingSize > Header

\* A line longer than one answer would stop the cursor for good; the source
\* has 255 + 9 + 1 bytes at most against 784.
ASSUME LineFitsAnswer == \A len \in Lengths : Prefix + len + 1 <= Cap

VARIABLES
    ring,       \* the cells: <<kind, line number, value>>
    head,       \* write index
    tail,       \* index of the oldest line
    used,       \* cells in use
    next_seq,   \* number of the next line
    boot,       \* restarts so far (history)
    request,    \* the /cs request on its way, or None
    answer,     \* the answer on its way, or None
    page,       \* the dashboard page: cursor and lines shown; boot and number
                \* of its last load (history)
    scrolled    \* the user has scrolled its console up: t.scrollTop < sn

ringVars == <<ring, head, tail, used, next_seq>>
vars == <<ring, head, tail, used, next_seq, boot, request, answer, page, scrolled>>

None == [sent |-> FALSE]
Cells == 0..(RingSize - 1)
Cell == {"zero", "seq", "len", "text"} \X Nat \X Nat
Zero == <<"zero", 0, 0>>

\* A line; head, tail and used; where a walk is and what it has read; what a
\* request has got.
Line == [seq : Nat, text : Seq(Cell)]
Bounds == [head : Cells, tail : Cells, used : 0..RingSize]
Cursor == [pos : Cells, left : 0..RingSize, lines : Seq(Line)]
Got == [full : BOOLEAN, written : 0..Cap, out : Seq(Line)]

TextCells(seq, len) == [i \in 1..len |-> <<"text", seq, i>>]
HeaderCells(seq, len) ==
    [i \in 1..Header |-> IF i = Header THEN <<"len", seq, len>> ELSE <<"seq", seq, seq>>]

-----------------------------------------------------------------------------
\* Mutant: the second memcpy is missing.
RingPut_NoWrap(cells, at, src) ==
    [i \in Cells |-> IF i >= at /\ i - at < Len(src) THEN src[i - at + 1] ELSE cells[i]]
\* ring_put and ring_peek: copies that wrap at the end of the ring.
RingPut(cells, at, src) ==
    [i \in Cells |-> LET k == (i + RingSize - at) % RingSize
                     IN  IF k < Len(src) THEN src[k + 1] ELSE cells[i]]
RingPeek(cells, at, n) == [i \in 1..n |-> cells[(at + i - 1) % RingSize]]

SeqAt(cells, at) == RingPeek(cells, at, Header)[1][3]
LenAt(cells, at) == RingPeek(cells, at, Header)[Header][3]
Entry(cells, at) == Header + LenAt(cells, at)

\* f applied n times, n passes of a loop.
Iterate(f, start, n) ==
    LET pass[k \in 0..n] == IF k = 0 THEN start ELSE f[pass[k - 1]]
    IN  pass[n]

\* drop_oldest.  Where it returns false it ends the loop: another call would
\* change nothing.  A length that runs past the used cells flushes all.
Dropped(cells, s) ==
    IF s.used < Header THEN s
    ELSE IF Entry(cells, s.tail) > s.used THEN [head |-> 0, tail |-> 0, used |-> 0]
    ELSE [head |-> s.head, tail |-> (s.tail + Entry(cells, s.tail)) % RingSize,
          used |-> s.used - Entry(cells, s.tail)]

\* The while loop of enqueue_line.  A pass that goes on takes a cell at least,
\* so RingSize passes are the whole loop, here and in Walk.
MakeRoom(cells, start, need) ==
    LET drop == [s \in Bounds |-> IF s.used + need <= RingSize THEN s ELSE Dropped(cells, s)]
    IN  Iterate(drop, start, RingSize)

\* The walk of web_log_read_since over the entries, oldest first.
ReadEntry(cells, s) ==
    IF s.left < Header THEN s
    ELSE IF Entry(cells, s.pos) > s.left THEN s
    ELSE [pos |-> (s.pos + Entry(cells, s.pos)) % RingSize,
          left |-> s.left - Entry(cells, s.pos),
          lines |-> Append(s.lines,
                      [seq |-> SeqAt(cells, s.pos),
                       text |-> RingPeek(cells, (s.pos + Header) % RingSize,
                                         LenAt(cells, s.pos))])]

Walk(cells, at, n) ==
    LET read == [s \in Cursor |-> ReadEntry(cells, s)]
    IN  Iterate(read, [pos |-> at, left |-> n, lines |-> <<>>], RingSize).lines

Lines == Walk(ring, tail, used)

\* Mutant: the page's last line is sent again.
Newer_OrSame(line, since) == line.seq >= since
Newer(line, since) == line.seq > since

Needed(line) == Prefix + Len(line.text) + 1

\* What it does with a line: the first newer one that does not fit ends the loop.
Take(since) ==
    [line \in Line |-> [got \in Got |->
        IF got.full \/ ~Newer(line, since) THEN got
        ELSE IF got.written + Needed(line) > Cap THEN [got EXCEPT !.full = TRUE]
        ELSE [full |-> FALSE, written |-> got.written + Needed(line),
              out |-> Append(got.out, line)]]]

Taken(lines, since) ==
    LET got[k \in 0..Len(lines)] ==
          IF k = 0 THEN [full |-> FALSE, written |-> 0, out |-> <<>>]
          ELSE Take(since)[lines[k]][got[k - 1]]
    IN  got[Len(lines)]

\* Mutant: nothing is sent unless everything fits.
ReadSince_AllOrNothing(since) ==
    LET got == Taken(Lines, since)
    IN  IF got.full THEN <<>> ELSE got.out
\* The lines it returns: those after `since`, up to the first that does not fit.
ReadSince(since) == Taken(Lines, since).out

\* Mutant: the cursor is set to the newest line of the ring.
HighMark_HeadSeq(lines, since) == next_seq - 1
\* Its out_seq, which /cs sends as the page's new cursor.
HighMark(lines, since) == IF lines = <<>> THEN since ELSE Last(lines).seq

-----------------------------------------------------------------------------
Blank == [i \in Cells |-> Zero]

FreshPage(b, n) == [cursor |-> 0, shown |-> <<>>, boot |-> b, loads |-> n]

Init ==
    /\ ring = Blank
    /\ head = 0 /\ tail = 0 /\ used = 0
    /\ next_seq = 1
    /\ boot = 0
    /\ request = None
    /\ answer = None
    /\ page = FreshPage(0, 0)
    /\ scrolled = FALSE

\* enqueue_line, under the spinlock.
Enqueue(len) ==
    LET need == Header + len
        room == MakeRoom(ring, [head |-> head, tail |-> tail, used |-> used], need)
        line == HeaderCells(next_seq, len) \o TextCells(next_seq, len)
    IN  /\ next_seq <= MaxLines
        /\ need <= RingSize
        /\ ring' = RingPut(ring, room.head, line)
        /\ head' = (room.head + need) % RingSize
        /\ tail' = room.tail
        /\ used' = room.used + need
        /\ next_seq' = next_seq + 1
        /\ UNCHANGED <<boot, request, answer, page, scrolled>>

\* cs_handler at the end of a request: one walk of the ring under the spinlock.
Serve ==
    /\ request # None
    /\ LET lines == ReadSince(request.since)
       IN  answer' = [sent |-> TRUE, boot |-> boot, lines |-> lines,
                      high |-> HighMark(lines, request.since)]
    /\ request' = None
    /\ UNCHANGED <<ringVars, boot, page, scrolled>>

\* The page asks for what follows its cursor; a request still open is aborted.
Ask ==
    /\ request' = [sent |-> TRUE, since |-> page.cursor]
    /\ answer' = None
    /\ UNCHANGED <<ringVars, boot, page, scrolled>>

\* The page's timer asks only while the console is at its end: under a user who has
\* scrolled up it is set again and nothing else happens.
Poll == ~scrolled /\ Ask

\* The user enters a command, or an empty line.
Submit == Ask

\* The user scrolls, up from what is shown or down to the end.
Scroll ==
    /\ page.shown # <<>>
    /\ scrolled' = ~scrolled
    /\ UNCHANGED <<ringVars, boot, request, answer, page>>

\* readyState 4 with status 200: take the cursor, show the lines, go to the end.
Show ==
    /\ answer # None
    /\ page' = [page EXCEPT !.cursor = answer.high,
                            !.shown = @ \o [i \in DOMAIN answer.lines |->
                               [boot |-> answer.boot, line |-> answer.lines[i]]]]
    /\ answer' = None
    /\ scrolled' = FALSE
    /\ UNCHANGED <<ringVars, boot, request>>

\* The link fails, or the device refuses a command with 401, which the page shows at
\* the end of its console.
Lose ==
    /\ request # None \/ answer # None
    /\ request' = None /\ answer' = None
    /\ scrolled' \in {scrolled, FALSE}
    /\ UNCHANGED <<ringVars, boot, page>>

\* The user reloads the page.
Reload ==
    /\ page.loads < MaxLoads
    /\ page' = FreshPage(boot, page.loads + 1)
    /\ request' = None /\ answer' = None
    /\ scrolled' = FALSE
    /\ UNCHANGED <<ringVars, boot>>

\* The device restarts (from /restart, the console's !e or any other cause):
\* the ring is empty, the numbers begin again, the page keeps its cursor.
Reboot ==
    /\ boot < MaxBoots
    /\ boot' = boot + 1
    /\ ring' = Blank
    /\ head' = 0 /\ tail' = 0 /\ used' = 0
    /\ next_seq' = 1
    /\ request' = None
    /\ UNCHANGED <<answer, page, scrolled>>

Next ==
    \/ \E len \in Lengths : Enqueue(len)
    \/ Serve \/ Poll \/ Submit \/ Scroll \/ Show \/ Lose \/ Reload \/ Reboot

\* The HTTP thread serves what it is sent.  The timer, set again on every pass, asks
\* while the console stays at its end; it and the link let a round trip end now and
\* then before the next poll aborts it.
Fairness == WF_vars(Poll) /\ SF_vars(Serve) /\ SF_vars(Show)

Spec == Init /\ [][Next]_vars /\ Fairness

-----------------------------------------------------------------------------
Log == INSTANCE LogTail WITH Capacity <- RingSize, log <- Lines, next <- next_seq

\* Type correctness, and the ring's arithmetic: head is where the used cells
\* end, and the entries fill exactly the used cells.
TypeOK ==
    /\ ring \in [Cells -> Cell]
    /\ head \in Cells /\ tail \in Cells /\ used \in 0..RingSize
    /\ next_seq \in 1..(MaxLines + 1)
    /\ boot \in 0..MaxBoots
    /\ page.cursor \in 0..MaxLines
    /\ scrolled \in BOOLEAN
    /\ head = (tail + used) % RingSize
    /\ used = Log!Size(Lines)

\* The ring implements the abstract log: wrapping, dropping and decoding, its
\* cells always hold the newest lines, whole and in order, and a line is given
\* up only when the next one needs its room (log_backend_web.c:27-29).
KeepsNewestLines == Log!LtSpec

\* However requests are aborted, lost and repeated, the page shows the lines of
\* a boot once each, in order, and whole.
ShownOnceInOrder ==
    /\ \A i, j \in DOMAIN page.shown :
          i < j => \/ page.shown[i].boot < page.shown[j].boot
                   \/ /\ page.shown[i].boot = page.shown[j].boot
                      /\ page.shown[i].line.seq < page.shown[j].line.seq
    /\ \A i \in DOMAIN page.shown :
          LET line == page.shown[i].line
          IN  line.text = TextCells(line.seq, Len(line.text))

\* A page loaded in this boot has shown every line the ring still holds up to
\* its cursor: what it misses is what the ring had to give up first.
CursorSkipsNothing ==
    page.boot = boot =>
      \A i \in DOMAIN Lines :
        Lines[i].seq <= page.cursor =>
          \E j \in DOMAIN page.shown :
             page.shown[j] = [boot |-> boot, line |-> Lines[i]]

Kept(seq) == \E i \in DOMAIN Lines : Lines[i].seq = seq

\* A line the ring keeps is reached by the cursor of a page of this boot, whatever the
\* sizes of the lines before it and however many answers they need - unless the user
\* scrolls the console up, and the page stops asking.
PageCatchesUp ==
    \A seq \in 1..MaxLines :
      (page.boot = boot /\ Kept(seq) /\ page.cursor < seq) ~>
        (page.cursor >= seq \/ ~Kept(seq) \/ page.boot # boot \/ scrolled)
=============================================================================
