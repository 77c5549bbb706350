-------------------------- MODULE WebConsoleProofs --------------------------
(***************************************************************************)
(* The byte ring implements the abstract log, and the page that polls it   *)
(* shows every line once, in order and without gaps, for every size of the *)
(* ring, the header and the answer.  The loops of the code are recursive   *)
(* functions of the model; what they compute is proved by induction.       *)
(***************************************************************************)
EXTENDS WebConsole, InductionProofs, SequenceTheorems

\* ------------------------------ Loops ------------------------------
\* What n passes of a loop keep: J[k] holds after k of them.
LEMMA Loop ==
    ASSUME NEW f, NEW start, NEW n \in Nat, NEW J, start \in J[0],
           \A k \in 0..(n - 1) : \A s \in J[k] : f[s] \in J[k + 1]
    PROVE  Iterate(f, start, n) \in J[n]
<1> DEFINE body(q) == [k \in 0..n |-> IF k = 0 THEN start ELSE f[q[k - 1]]]
           pass == CHOOSE q : q = body(q)
           D == UNION {J[k] : k \in 0..n}
           g == [k \in 1..n |-> [d \in D |-> IF d \in J[k - 1] THEN f[d] ELSE start]]
<1>1. \E q \in [0..n -> D] : q = body(q)
    <2>1. start \in D
        OBVIOUS
    <2>2. g \in Steps(n, D)
        <3>1. ASSUME NEW k \in 1..n, NEW d \in J[k - 1] PROVE f[d] \in D
            <4>1. k - 1 \in 0..(n - 1) /\ (k - 1) + 1 = k /\ k \in 0..n
                OBVIOUS
            <4> QED
                BY <3>1, <4>1
        <3> QED
            BY <2>1, <3>1 DEF Steps
    <2>3. \A k \in 1..n : \A d \in J[k - 1] : g[k][d] = f[d]
        <3> TAKE k \in 1..n
        <3>1. k - 1 \in 0..n
            OBVIOUS
        <3> QED
            BY <3>1
    <2> HIDE DEF g, D
    <2>4. PICK q \in [0..n -> D] :
              \A k \in 0..n : q[k] = IF k = 0 THEN start ELSE g[k][q[k - 1]]
        BY <2>1, <2>2, Recursion
    <2> DEFINE S == {k \in Nat : k <= n => q[k] \in J[k]}
    <2>5. 0 \in S
        BY <2>4
    <2>6. \A k \in S : k + 1 \in S
        <3> SUFFICES ASSUME NEW k \in S, k + 1 <= n PROVE q[k + 1] \in J[k + 1]
            OBVIOUS
        <3>1. k \in 0..(n - 1) /\ k + 1 \in 1..n /\ (k + 1) - 1 = k /\ q[k] \in J[k]
            OBVIOUS
        <3>2. q[k + 1] = g[k + 1][q[k]]
            BY <2>4, <3>1
        <3>3. q[k + 1] = f[q[k]]
            BY <2>3, <3>1, <3>2
        <3> QED
            BY <3>1, <3>3
    <2>7. S = Nat
        BY <2>5, <2>6, Induction
    <2>8. \A k \in 0..n : q[k] = IF k = 0 THEN start ELSE f[q[k - 1]]
        BY <2>3, <2>4, <2>7
    <2> QED
        BY <2>4, <2>8
<1>2. pass = body(pass)
    BY <1>1, Zenon
<1>3. Iterate(f, start, n) = pass[n]
    BY DEF Iterate
<1> HIDE DEF pass
<1> DEFINE S == {k \in Nat : k <= n => pass[k] \in J[k]}
<1>4. 0 \in S
    BY <1>2
<1>5. \A k \in S : k + 1 \in S
    BY <1>2
<1>6. S = Nat
    BY <1>4, <1>5, Induction
<1> QED
    BY <1>3, <1>6

\* ------------------------------ The ring ------------------------------
LEMMA Constants ==
    /\ RingSize \in Nat /\ Header \in Nat /\ Header >= 2 /\ RingSize > Header
    /\ Prefix \in Nat /\ Cap \in Nat /\ Lengths \subseteq Nat \ {0}
    /\ MaxLines \in Nat /\ MaxBoots \in Nat /\ MaxLoads \in Nat
    BY RingAssumption


\* No index of the ring is more than one turn ahead.
LEMMA Wrap ==
    ASSUME NEW a \in Cells, NEW b \in 0..RingSize
    PROVE  /\ (a + b) % RingSize = IF a + b < RingSize THEN a + b ELSE a + b - RingSize
           /\ (a + b) % RingSize \in Cells
<1>1. CASE a + b < RingSize
    BY <1>1, Constants DEF Cells
<1>2. CASE a + b >= RingSize
    BY <1>2, Constants DEF Cells
<1> QED
    BY <1>1, <1>2, Constants DEF Cells

\* The cell x cells after index t.
At(cells, t, x) == cells[(t + x) % RingSize]

LEMMA Shift ==
    ASSUME NEW cells, NEW t \in Cells, NEW m \in Nat, NEW x \in Nat, m + x <= RingSize
    PROVE  /\ (t + m) % RingSize \in Cells
           /\ (((t + m) % RingSize) + x) % RingSize = (t + (m + x)) % RingSize
           /\ At(cells, (t + m) % RingSize, x) = At(cells, t, m + x)
<1> DEFINE at == (t + m) % RingSize
<1>1. m \in 0..RingSize /\ x \in 0..RingSize /\ m + x \in 0..RingSize
    BY Constants
<1>2. at \in Cells /\ at = IF t + m < RingSize THEN t + m ELSE t + m - RingSize
    BY <1>1, Wrap
<1> HIDE DEF at
<1>3. (at + x) % RingSize = IF at + x < RingSize THEN at + x ELSE at + x - RingSize
    BY <1>1, <1>2, Wrap
<1>4. (t + (m + x)) % RingSize =
          IF t + (m + x) < RingSize THEN t + (m + x) ELSE t + (m + x) - RingSize
    BY <1>1, Wrap
<1>5. (at + x) % RingSize = (t + (m + x)) % RingSize
    BY <1>1, <1>2, <1>3, <1>4, Constants DEF Cells
<1> QED
    BY <1>2, <1>5 DEF At, at

\* What ring_put leaves, seen from the tail: the bytes after the used cells.
LEMMA Put ==
    ASSUME NEW cells, NEW t \in Cells, NEW u \in Nat, NEW src \in Seq(Cell),
           u + Len(src) <= RingSize, NEW x \in 0..(RingSize - 1)
    PROVE  At(RingPut(cells, (t + u) % RingSize, src), t, x) =
              IF u <= x /\ x < u + Len(src) THEN src[x - u + 1] ELSE At(cells, t, x)
<1> DEFINE at == (t + u) % RingSize
           i == (t + x) % RingSize
           back == RingSize - at
           k == (i + RingSize - at) % RingSize
<1>1. u \in 0..RingSize /\ x \in 0..RingSize
    BY Constants
<1>2. at \in Cells /\ at = IF t + u < RingSize THEN t + u ELSE t + u - RingSize
    BY <1>1, Wrap
<1>3. i \in Cells /\ i = IF t + x < RingSize THEN t + x ELSE t + x - RingSize
    BY <1>1, Wrap
<1>4. At(RingPut(cells, at, src), t, x) = IF k < Len(src) THEN src[k + 1] ELSE cells[i]
    BY <1>3 DEF At, RingPut
<1> HIDE DEF at, i
<1>5. back \in 0..RingSize /\ i + RingSize - at = i + back
    BY <1>2, <1>3, Constants DEF Cells
<1> HIDE DEF back
<1>6. k = IF i + back < RingSize THEN i + back ELSE i + back - RingSize
    BY <1>3, <1>5, Wrap
<1> HIDE DEF k
<1>7. k = IF u <= x THEN x - u ELSE x - u + RingSize
    BY <1>2, <1>3, <1>6, Constants DEF Cells, back
<1>8. CASE u <= x /\ x < u + Len(src)
    <2>1. k < Len(src) /\ k + 1 = x - u + 1
        BY <1>7, <1>8
    <2> QED
        BY <1>4, <1>8, <2>1 DEF at
<1>9. CASE ~(u <= x /\ x < u + Len(src))
    <2>1. ~(k < Len(src))
        BY <1>7, <1>9, Constants
    <2> QED
        BY <1>4, <1>9, <2>1 DEF At, at, i
<1> QED
    BY <1>8, <1>9

\* ------------------------------ Entries ------------------------------
EntryOf(line) == Header + Len(line.text)
Image(line) == HeaderCells(line.seq, Len(line.text)) \o line.text

\* The cells of a line begin x cells after t.
Stored(cells, t, x, line) ==
    \A j \in 0..(EntryOf(line) - 1) : At(cells, t, x + j) = Image(line)[j + 1]

LEMMA ImageIs ==
    ASSUME NEW line \in Line
    PROVE  /\ Image(line) \in Seq(Cell) /\ Len(Image(line)) = EntryOf(line)
           /\ EntryOf(line) \in Nat /\ EntryOf(line) >= Header
           /\ Image(line)[1] = <<"seq", line.seq, line.seq>>
           /\ Image(line)[Header] = <<"len", line.seq, Len(line.text)>>
           /\ \A j \in 1..Len(line.text) : Image(line)[Header + j] = line.text[j]
<1> DEFINE hdr == HeaderCells(line.seq, Len(line.text))
<1>1. line.seq \in Nat /\ line.text \in Seq(Cell) /\ Len(line.text) \in Nat
    BY DEF Line
<1>2. hdr \in Seq(Cell) /\ Len(hdr) = Header
    BY <1>1, Constants DEF HeaderCells, Cell
<1>3. hdr[1] = <<"seq", line.seq, line.seq>> /\ hdr[Header] = <<"len", line.seq, Len(line.text)>>
    BY Constants DEF HeaderCells
<1> HIDE DEF hdr
<1>4. Image(line) = hdr \o line.text
    BY DEF Image, hdr
<1>5. Image(line) \in Seq(Cell) /\ Len(Image(line)) = Header + Len(line.text)
    BY <1>1, <1>2, <1>4, ConcatProperties
<1>6. \A j \in 1..Header : Image(line)[j] = hdr[j]
    BY <1>1, <1>2, <1>4, Constants
<1>7. \A j \in 1..Len(line.text) : Image(line)[Header + j] = line.text[j]
    BY <1>1, <1>2, <1>4, Constants
<1>8. Image(line)[1] = hdr[1] /\ Image(line)[Header] = hdr[Header]
    BY <1>6, Constants
<1> QED
    BY <1>1, <1>3, <1>5, <1>7, <1>8, Constants DEF EntryOf

LEMMA EntryIs ==
    ASSUME NEW line \in Line
    PROVE  EntryOf(line) \in Nat /\ EntryOf(line) >= Header /\ EntryOf(line) >= 1
<1>1. EntryOf(line) \in Nat /\ EntryOf(line) >= Header
    BY ImageIs
<1> QED
    BY <1>1, Constants

\* What the walk and drop_oldest read at the index of a line.
LEMMA EntryRead ==
    ASSUME NEW cells, NEW t \in Cells, NEW x \in Nat, NEW line \in Line,
           x + EntryOf(line) <= RingSize, Stored(cells, t, x, line)
    PROVE  LET at == (t + x) % RingSize
           IN  /\ at \in Cells
               /\ Entry(cells, at) = EntryOf(line)
               /\ [seq |-> SeqAt(cells, at),
                   text |-> RingPeek(cells, (at + Header) % RingSize, LenAt(cells, at))] = line
               /\ (at + Entry(cells, at)) % RingSize = (t + (x + EntryOf(line))) % RingSize
<1> DEFINE at == (t + x) % RingSize
<1>1. line.seq \in Nat /\ line.text \in Seq(Cell) /\ Len(line.text) \in Nat
    BY DEF Line
<1>2. EntryOf(line) = Header + Len(line.text)
    BY DEF EntryOf
<1>3. at \in Cells /\ \A y \in Nat : x + y <= RingSize => At(cells, at, y) = At(cells, t, x + y)
    <2>1. x \in 0..RingSize
        BY <1>1, <1>2, Constants
    <2>2. at \in Cells
        BY <2>1, Wrap
    <2>3. ASSUME NEW y \in Nat, x + y <= RingSize
          PROVE  At(cells, at, y) = At(cells, t, x + y)
        BY <2>3, Shift
    <2> QED
        BY <2>2, <2>3
<1> HIDE DEF at
<1>4. \A j \in 0..(EntryOf(line) - 1) : At(cells, at, j) = Image(line)[j + 1]
    BY <1>1, <1>2, <1>3, Constants DEF Stored
<1>5. SeqAt(cells, at) = line.seq
    <2>1. SeqAt(cells, at) = At(cells, at, 0)[3]
        BY Constants DEF SeqAt, RingPeek, At
    <2>2. At(cells, at, 0) = Image(line)[1]
        BY <1>1, <1>2, <1>4, Constants
    <2> QED
        BY <2>1, <2>2, ImageIs
<1>6. LenAt(cells, at) = Len(line.text)
    <2>1. LenAt(cells, at) = At(cells, at, Header - 1)[3]
        BY <1>3, Constants DEF LenAt, RingPeek, At, Cells
    <2>2. At(cells, at, Header - 1) = Image(line)[Header]
        BY <1>1, <1>2, <1>4, Constants
    <2> QED
        BY <2>1, <2>2, ImageIs
<1>7. RingPeek(cells, (at + Header) % RingSize, Len(line.text)) = line.text
    <2> DEFINE from == (at + Header) % RingSize
    <2>1. \A y \in Nat : Header + y <= RingSize => At(cells, from, y) = At(cells, at, Header + y)
        BY Shift, <1>3, Constants
    <2> HIDE DEF from
    <2>2. \A j \in 1..Len(line.text) : cells[(from + j - 1) % RingSize] = line.text[j]
        <3> TAKE j \in 1..Len(line.text)
        <3>1. At(cells, from, j - 1) = At(cells, at, Header + (j - 1))
            BY <2>1, <1>1, <1>2, Constants
        <3>2. At(cells, at, Header + (j - 1)) = Image(line)[Header + j]
            BY <1>1, <1>2, <1>4, Constants
        <3>3. Image(line)[Header + j] = line.text[j]
            BY ImageIs
        <3>4. At(cells, from, j - 1) = cells[(from + j - 1) % RingSize]
            <4>1. from \in Int /\ j \in Int
                BY <1>1, <1>3, Wrap, Constants DEF from, Cells
            <4>2. from + (j - 1) = from + j - 1
                BY <4>1
            <4> QED
                BY <4>2 DEF At
        <3> QED
            BY <3>1, <3>2, <3>3, <3>4
    <2> QED
        BY <2>2, <1>1 DEF RingPeek, from
<1>8. Entry(cells, at) = EntryOf(line)
    BY <1>2, <1>6 DEF Entry
<1>9. (at + Entry(cells, at)) % RingSize = (t + (x + EntryOf(line))) % RingSize
    <2>1. EntryOf(line) \in Nat /\ x + EntryOf(line) <= RingSize
        BY <1>1, <1>2, Constants
    <2>2. (at + EntryOf(line)) % RingSize = (t + (x + EntryOf(line))) % RingSize
        BY <2>1, Shift DEF at
    <2> QED
        BY <1>8, <2>2
<1>10. line = [seq |-> line.seq, text |-> line.text]
    BY DEF Line
<1> QED
    BY <1>3, <1>5, <1>6, <1>7, <1>8, <1>9, <1>10 DEF at

\* Where each line begins, counted from the tail.
Marks(lines, u, mark) ==
    /\ mark \in [1..(Len(lines) + 1) -> Nat]
    /\ mark[1] = 0 /\ mark[Len(lines) + 1] = u
    /\ \A i \in 1..Len(lines) : mark[i + 1] = mark[i] + EntryOf(lines[i])

\* The cells from t on hold the lines, one after the other, in u cells.
Holds(cells, t, u, lines, mark) ==
    /\ Marks(lines, u, mark)
    /\ \A i \in 1..Len(lines) : Stored(cells, t, mark[i], lines[i])

LEMMA MarksGrow ==
    ASSUME NEW lines \in Seq(Line), NEW u \in Nat, NEW mark, Marks(lines, u, mark),
           NEW i \in 1..(Len(lines) + 1), NEW j \in i..(Len(lines) + 1)
    PROVE  mark[i] + (j - i) <= mark[j]
<1> DEFINE S == {d \in Nat : i + d <= Len(lines) + 1 => mark[i] + d <= mark[i + d]}
<1>1. Len(lines) \in Nat /\ \A k \in 1..Len(lines) : lines[k] \in Line
    OBVIOUS
<1>2. 0 \in S
    <2>1. mark[i] \in Nat /\ i + 0 = i
        BY <1>1 DEF Marks
    <2> QED
        BY <2>1
<1>3. \A d \in S : d + 1 \in S
    <2> SUFFICES ASSUME NEW d \in S, i + (d + 1) <= Len(lines) + 1
                 PROVE  mark[i] + (d + 1) <= mark[i + (d + 1)]
        OBVIOUS
    <2>1. i + d \in 1..Len(lines) /\ (i + d) + 1 = i + (d + 1)
        BY <1>1
    <2>2. mark[i + (d + 1)] = mark[i + d] + EntryOf(lines[i + d])
        BY <2>1 DEF Marks
    <2>3. EntryOf(lines[i + d]) \in Nat /\ EntryOf(lines[i + d]) >= 1
        <3>1. lines[i + d] \in Line
            BY <1>1, <2>1
        <3> QED
            BY <3>1, EntryIs, Zenon
    <2>4. mark[i + d] \in Nat /\ mark[i] \in Nat
        BY <1>1, <2>1 DEF Marks
    <2>5. mark[i] + d <= mark[i + d]
        BY <1>1, <2>1
    <2> QED
        BY <2>2, <2>3, <2>4, <2>5
<1>4. S = Nat
    BY <1>2, <1>3, Induction
<1>5. j - i \in Nat /\ i + (j - i) = j
    BY <1>1
<1> QED
    BY <1>1, <1>4, <1>5

\* What the walk and the dropping loop read from such cells.
Decoded(cells, t, u, lines, mark) ==
    /\ Len(lines) \in Nat /\ mark[1] = 0 /\ mark[Len(lines) + 1] = u
    /\ \A i \in 1..(Len(lines) + 1) :
          /\ mark[i] \in 0..RingSize /\ mark[i] <= u /\ i - 1 <= mark[i]
          /\ (t + mark[i]) % RingSize \in Cells
    /\ \A i \in 1..Len(lines) :
          LET at == (t + mark[i]) % RingSize
          IN  /\ lines[i] \in Line
              /\ EntryOf(lines[i]) \in Nat /\ EntryOf(lines[i]) >= Header
              /\ mark[i + 1] = mark[i] + EntryOf(lines[i])
              /\ Entry(cells, at) = EntryOf(lines[i])
              /\ [seq |-> SeqAt(cells, at),
                  text |-> RingPeek(cells, (at + Header) % RingSize, LenAt(cells, at))]
                   = lines[i]
              /\ (at + EntryOf(lines[i])) % RingSize = (t + mark[i + 1]) % RingSize

LEMMA HoldsFacts ==
    ASSUME NEW cells, NEW t \in Cells, NEW u \in 0..RingSize, NEW lines \in Seq(Line),
           NEW mark, Holds(cells, t, u, lines, mark)
    PROVE  Decoded(cells, t, u, lines, mark)
<1> DEFINE n == Len(lines)
<1>1. n \in Nat /\ u \in Nat /\ RingSize \in Nat /\ \A i \in 1..n : lines[i] \in Line
    BY Constants
<1>2. Marks(lines, u, mark) /\ \A i \in 1..n : Stored(cells, t, mark[i], lines[i])
    BY DEF Holds
<1>3. /\ mark[1] = 0 /\ mark[n + 1] = u /\ \A i \in 1..(n + 1) : mark[i] \in Nat
      /\ \A i \in 1..n : mark[i + 1] = mark[i] + EntryOf(lines[i])
    BY <1>1, <1>2 DEF Marks
<1>4. \A i \in 1..(n + 1) : mark[i] <= u /\ i - 1 <= mark[i]
    <2> TAKE i \in 1..(n + 1)
    <2>1. mark[i] + ((n + 1) - i) <= mark[n + 1]
        <3>1. n + 1 \in i..(n + 1)
            BY <1>1
        <3> QED
            BY <1>1, <1>2, <3>1, MarksGrow
    <2>2. mark[1] + (i - 1) <= mark[i]
        <3>1. 1 \in 1..(n + 1) /\ i \in 1..(n + 1)
            BY <1>1
        <3> QED
            BY <1>2, <3>1, MarksGrow
    <2> QED
        BY <1>1, <1>3, <2>1, <2>2
<1>5. \A i \in 1..(n + 1) : mark[i] \in 0..RingSize
    BY <1>1, <1>3, <1>4
<1>6. \A i \in 1..(n + 1) : (t + mark[i]) % RingSize \in Cells
    <2> TAKE i \in 1..(n + 1)
    <2> QED
        BY <1>5, Wrap
<1>7. ASSUME NEW i \in 1..n
      PROVE  LET at == (t + mark[i]) % RingSize
             IN  /\ EntryOf(lines[i]) \in Nat /\ EntryOf(lines[i]) >= Header
                 /\ Entry(cells, at) = EntryOf(lines[i])
                 /\ [seq |-> SeqAt(cells, at),
                     text |-> RingPeek(cells, (at + Header) % RingSize, LenAt(cells, at))]
                      = lines[i]
                 /\ (at + EntryOf(lines[i])) % RingSize = (t + mark[i + 1]) % RingSize
    <2> DEFINE at == (t + mark[i]) % RingSize
    <2>1. i \in 1..(n + 1) /\ i + 1 \in 1..(n + 1)
        BY <1>1
    <2>2. EntryOf(lines[i]) \in Nat /\ EntryOf(lines[i]) >= Header /\ lines[i] \in Line
        BY <1>1, ImageIs
    <2>3. mark[i] + EntryOf(lines[i]) <= RingSize /\ mark[i] \in Nat
        <3>1. mark[i + 1] <= u /\ u <= RingSize
            BY <1>1, <1>4, <2>1
        <3>2. mark[i + 1] = mark[i] + EntryOf(lines[i]) /\ mark[i] \in Nat
            BY <1>3, <2>1
        <3> QED
            BY <1>1, <2>2, <3>1, <3>2
    <2>4. /\ Entry(cells, at) = EntryOf(lines[i])
          /\ [seq |-> SeqAt(cells, at),
              text |-> RingPeek(cells, (at + Header) % RingSize, LenAt(cells, at))] = lines[i]
          /\ (at + Entry(cells, at)) % RingSize = (t + (mark[i] + EntryOf(lines[i]))) % RingSize
        BY <1>1, <1>2, <2>2, <2>3, EntryRead
    <2> QED
        BY <1>3, <2>2, <2>4
<1> QED
    BY <1>1, <1>3, <1>4, <1>5, <1>6, <1>7 DEF Decoded

\* The walk reads the lines that the cells hold.
LEMMA WalkReads ==
    ASSUME NEW cells, NEW t \in Cells, NEW u \in 0..RingSize, NEW lines \in Seq(Line),
           NEW mark, Holds(cells, t, u, lines, mark)
    PROVE  Walk(cells, t, u) = lines
<1> DEFINE n == Len(lines)
           P(i) == [pos |-> (t + mark[i]) % RingSize, left |-> u - mark[i],
                    lines |-> SubSeq(lines, 1, i - 1)]
           J == [k \in 0..RingSize |-> {P(i) : i \in {i \in 1..(n + 1) : i = k + 1 \/ i = n + 1}}]
           read == [s \in Cursor |-> ReadEntry(cells, s)]
<1>0. Decoded(cells, t, u, lines, mark)
    BY HoldsFacts
<1>1. n \in Nat /\ u \in Nat /\ RingSize \in Nat /\ \A i \in 1..n : lines[i] \in Line
    BY Constants
<1>2. mark[1] = 0 /\ mark[n + 1] = u
    BY <1>0 DEF Decoded
<1>3. \A i \in 1..(n + 1) : /\ mark[i] \in 0..RingSize /\ mark[i] <= u /\ i - 1 <= mark[i]
                            /\ (t + mark[i]) % RingSize \in Cells
    BY <1>0 DEF Decoded
<1>5. \A i \in 1..(n + 1) : P(i) \in Cursor
    <2> TAKE i \in 1..(n + 1)
    <2>1. u - mark[i] \in 0..RingSize
        BY <1>1, <1>3
    <2>2. SubSeq(lines, 1, i - 1) \in Seq(Line)
        BY <1>1, SubSeqProperties
    <2> QED
        BY <1>3, <2>1, <2>2 DEF Cursor
<1>6. \A i \in 1..n : read[P(i)] = P(i + 1)
    <2> TAKE i \in 1..n
    <2> DEFINE at == (t + mark[i]) % RingSize
    <2>1. /\ EntryOf(lines[i]) \in Nat /\ EntryOf(lines[i]) >= Header
          /\ mark[i + 1] = mark[i] + EntryOf(lines[i])
          /\ Entry(cells, at) = EntryOf(lines[i])
          /\ [seq |-> SeqAt(cells, at),
              text |-> RingPeek(cells, (at + Header) % RingSize, LenAt(cells, at))] = lines[i]
          /\ (at + EntryOf(lines[i])) % RingSize = (t + mark[i + 1]) % RingSize
        BY <1>0 DEF Decoded
    <2>2. /\ i \in 1..(n + 1) /\ i + 1 \in 1..(n + 1) /\ (i + 1) - 1 = i
          /\ mark[i] \in Nat /\ mark[i + 1] \in Nat /\ mark[i + 1] <= u
        BY <1>1, <1>3
    <2>3. ~(u - mark[i] < Header) /\ ~(EntryOf(lines[i]) > u - mark[i])
        BY <1>1, <2>1, <2>2, Constants
    <2>4. u - mark[i] - EntryOf(lines[i]) = u - mark[i + 1]
        BY <1>1, <2>1, <2>2
    <2>5. Append(SubSeq(lines, 1, i - 1), lines[i]) = SubSeq(lines, 1, i)
        BY <1>1, SubSeqRecursiveSecond
    <2>6. read[P(i)] = ReadEntry(cells, P(i))
        BY <1>5, <2>2
    <2> HIDE DEF at
    <2>7. P(i).pos = at /\ P(i).left = u - mark[i] /\ P(i).lines = SubSeq(lines, 1, i - 1)
        BY DEF at
    <2>8. ReadEntry(cells, P(i)) =
             [pos |-> (t + mark[i + 1]) % RingSize, left |-> u - mark[i + 1],
              lines |-> SubSeq(lines, 1, i)]
        BY <2>1, <2>3, <2>4, <2>5, <2>7 DEF ReadEntry
    <2> QED
        BY <2>2, <2>6, <2>8
<1>7. read[P(n + 1)] = P(n + 1)
    <2>1. P(n + 1).left < Header
        BY <1>1, <1>2, Constants
    <2>2. read[P(n + 1)] = ReadEntry(cells, P(n + 1))
        BY <1>1, <1>5
    <2> QED
        BY <2>1, <2>2 DEF ReadEntry
<1> HIDE DEF P, read
<1>8. P(1) \in J[0]
    BY <1>1
<1>9. \A k \in 0..(RingSize - 1) : \A s \in J[k] : read[s] \in J[k + 1]
    <2> TAKE k \in 0..(RingSize - 1)
    <2> TAKE s \in J[k]
    <2>1. PICK i \in 1..(n + 1) : s = P(i) /\ (i = k + 1 \/ i = n + 1)
        BY <1>1
    <2>2. CASE i = n + 1
        BY <1>1, <1>7, <2>1, <2>2
    <2>3. CASE i = k + 1 /\ i # n + 1
        BY <1>1, <1>6, <2>1, <2>3
    <2> QED
        BY <2>1, <2>2, <2>3
<1>10. Iterate(read, P(1), RingSize) \in J[RingSize]
    <2> HIDE DEF J
    <2> QED
        BY <1>1, <1>8, <1>9, Loop
<1>11. Iterate(read, P(1), RingSize) = P(n + 1)
    <2>1. PICK i \in 1..(n + 1) :
              Iterate(read, P(1), RingSize) = P(i) /\ (i = RingSize + 1 \/ i = n + 1)
        BY <1>1, <1>10
    <2>2. n <= RingSize
        <3>1. (n + 1) - 1 <= mark[n + 1]
            BY <1>1, <1>3
        <3> QED
            BY <1>1, <1>2, <3>1
    <2> QED
        BY <1>1, <2>1, <2>2
<1>12. P(1) = [pos |-> t, left |-> u, lines |-> <<>>]
    <2>1. (t + 0) % RingSize = t
        <3>1. t + 0 = t /\ t % RingSize = t
            BY Constants DEF Cells
        <3> QED
            BY <3>1
    <2>2. SubSeq(lines, 1, 1 - 1) = <<>>
        BY SubSeqEmpty
    <2> QED
        BY <1>1, <1>2, <2>1, <2>2 DEF P
<1>13. P(n + 1).lines = lines
    <2>1. SubSeq(lines, 1, n) = lines
        BY <1>1, SubSeqFull
    <2>2. (n + 1) - 1 = n
        BY <1>1
    <2> QED
        BY <2>1, <2>2 DEF P
<1> QED
    BY <1>11, <1>12, <1>13 DEF Walk, read

\* enqueue_line gives up the fewest old lines, i - 1, that leave room for the new one.
MadeRoom(cells, h, t, u, mark, need, i) ==
    /\ MakeRoom(cells, [head |-> h, tail |-> t, used |-> u], need) =
          [head |-> h, tail |-> (t + mark[i]) % RingSize, used |-> u - mark[i]]
    /\ u - mark[i] + need <= RingSize
    /\ \A j \in 1..(i - 1) : u - mark[j] + need > RingSize

LEMMA RoomMade ==
    ASSUME NEW cells, NEW h \in Cells, NEW t \in Cells, NEW u \in 0..RingSize,
           NEW lines \in Seq(Line), NEW mark, Holds(cells, t, u, lines, mark),
           NEW need \in 0..RingSize
    PROVE  \E i \in 1..(Len(lines) + 1) : MadeRoom(cells, h, t, u, mark, need, i)
<1> DEFINE n == Len(lines)
           P(i) == [head |-> h, tail |-> (t + mark[i]) % RingSize, used |-> u - mark[i]]
           Full(i) == u - mark[i] + need > RingSize
           Fits(k, i) == (\A j \in 1..(i - 1) : Full(j)) /\ (i = k + 1 \/ ~Full(i))
           J == [k \in 0..RingSize |-> {P(i) : i \in {i \in 1..(n + 1) : Fits(k, i)}}]
           drop == [s \in Bounds |-> IF s.used + need <= RingSize THEN s ELSE Dropped(cells, s)]
<1>0. Decoded(cells, t, u, lines, mark)
    BY HoldsFacts
<1>1. n \in Nat /\ u \in Nat /\ RingSize \in Nat /\ need \in Nat
    BY Constants
<1>2. mark[1] = 0 /\ mark[n + 1] = u
    BY <1>0 DEF Decoded
<1>3. \A i \in 1..(n + 1) : /\ mark[i] \in 0..RingSize /\ mark[i] <= u /\ i - 1 <= mark[i]
                            /\ (t + mark[i]) % RingSize \in Cells
    BY <1>0 DEF Decoded
<1>4. \A i \in 1..(n + 1) : P(i) \in Bounds
    BY <1>1, <1>3 DEF Bounds
<1>5. \A i \in 1..(n + 1) : ~Full(i) => drop[P(i)] = P(i)
    BY <1>1, <1>3, <1>4
<1>6. ~Full(n + 1)
    BY <1>1, <1>2
<1>7. \A i \in 1..n : Full(i) => drop[P(i)] = P(i + 1)
    <2> TAKE i \in 1..n
    <2> HAVE Full(i)
    <2> DEFINE at == (t + mark[i]) % RingSize
    <2>1. /\ EntryOf(lines[i]) \in Nat /\ EntryOf(lines[i]) >= Header
          /\ mark[i + 1] = mark[i] + EntryOf(lines[i])
          /\ Entry(cells, at) = EntryOf(lines[i])
          /\ (at + EntryOf(lines[i])) % RingSize = (t + mark[i + 1]) % RingSize
        BY <1>0, Zenon DEF Decoded
    <2>2. /\ i \in 1..(n + 1) /\ mark[i] \in Nat /\ mark[i + 1] \in Nat /\ mark[i + 1] <= u
        BY <1>1, <1>3
    <2>3. ~(u - mark[i] < Header) /\ ~(EntryOf(lines[i]) > u - mark[i])
        BY <1>1, <2>1, <2>2, Constants
    <2>4. u - mark[i] - EntryOf(lines[i]) = u - mark[i + 1]
        BY <1>1, <2>1, <2>2
    <2>5. ~(P(i).used + need <= RingSize)
        BY <1>1, <2>2
    <2>6. drop[P(i)] = Dropped(cells, P(i))
        BY <1>4, <2>2, <2>5
    <2> HIDE DEF at
    <2>7. P(i).head = h /\ P(i).tail = at /\ P(i).used = u - mark[i]
        BY DEF at
    <2>8. Dropped(cells, P(i)) = P(i + 1)
        BY <2>1, <2>3, <2>4, <2>7 DEF Dropped
    <2> QED
        BY <2>6, <2>8
<1> HIDE DEF P, drop, Full
<1>8. P(1) \in J[0]
    <2>1. 1 \in {i \in 1..(n + 1) : Fits(0, i)} /\ 0 \in 0..RingSize
        BY <1>1
    <2> HIDE DEF Fits
    <2> QED
        BY <2>1
<1>9. \A k \in 0..(RingSize - 1) : \A s \in J[k] : drop[s] \in J[k + 1]
    <2> TAKE k \in 0..(RingSize - 1)
    <2> TAKE s \in J[k]
    <2>1. PICK i \in 1..(n + 1) : s = P(i) /\ Fits(k, i)
        BY <1>1
    <2>2. CASE ~Full(i)
        BY <1>1, <1>5, <2>1, <2>2
    <2>3. CASE Full(i)
        <3>1. i = k + 1 /\ i \in 1..n /\ i + 1 \in 1..(n + 1)
            BY <1>1, <1>6, <2>1, <2>3
        <3>2. Fits(k + 1, i + 1)
            BY <1>1, <2>1, <2>3, <3>1
        <3> QED
            BY <1>1, <1>7, <2>1, <2>3, <3>1, <3>2
    <2> QED
        BY <2>2, <2>3
<1>10. Iterate(drop, P(1), RingSize) \in J[RingSize]
    <2> HIDE DEF J
    <2> QED
        BY <1>1, <1>8, <1>9, Loop
<1>11. PICK i \in 1..(n + 1) : Iterate(drop, P(1), RingSize) = P(i) /\ Fits(RingSize, i)
    BY <1>1, <1>10
<1>12. ~Full(i)
    <2>1. mark[i] \in Nat /\ i - 1 <= mark[i] /\ mark[i] <= u
        BY <1>1, <1>3
    <2>2. i = RingSize + 1 => ~Full(i)
        BY <1>1, <2>1 DEF Full
    <2> QED
        BY <1>11, <2>2
<1>13. P(1) = [head |-> h, tail |-> t, used |-> u]
    <2>1. t + 0 = t /\ t % RingSize = t
        BY Constants DEF Cells
    <2> QED
        BY <1>1, <1>2, <2>1 DEF P
<1>14. MakeRoom(cells, [head |-> h, tail |-> t, used |-> u], need) = P(i)
    BY <1>11, <1>13 DEF MakeRoom, drop
<1>15. \A j \in 1..(i - 1) : Full(j)
    BY <1>11
<1>16. u - mark[i] + need <= RingSize
    BY <1>1, <1>3, <1>12 DEF Full
<1> QED
    BY <1>14, <1>15, <1>16 DEF P, Full, MadeRoom

\* Once the first lines are given up, the cells hold the others.
LEMMA Dropping ==
    ASSUME NEW cells, NEW t \in Cells, NEW u \in 0..RingSize, NEW lines \in Seq(Line),
           NEW mark, Holds(cells, t, u, lines, mark), NEW i \in 1..(Len(lines) + 1)
    PROVE  \E m : Holds(cells, (t + mark[i]) % RingSize, u - mark[i],
                        SubSeq(lines, i, Len(lines)), m)
<1> DEFINE n == Len(lines)
           rest == SubSeq(lines, i, n)
           t2 == (t + mark[i]) % RingSize
           m == [k \in 1..(Len(rest) + 1) |-> mark[i + k - 1] - mark[i]]
<1>0. Decoded(cells, t, u, lines, mark)
    BY HoldsFacts
<1>1. n \in Nat /\ u \in Nat /\ RingSize \in Nat /\ i \in Nat /\ 1 <= i /\ i <= n + 1
    BY Constants
<1>2. Len(rest) = n - i + 1 /\ \A k \in 1..Len(rest) : rest[k] = lines[i + k - 1]
    BY <1>1, SubSeqProperties
<1>3. mark[n + 1] = u
    BY <1>0 DEF Decoded
<1>4. \A k \in 1..(n + 1) : mark[k] \in 0..RingSize /\ mark[k] <= u
    BY <1>0 DEF Decoded
<1>5. \A k \in 1..n : /\ lines[k] \in Line /\ EntryOf(lines[k]) \in Nat
                      /\ mark[k + 1] = mark[k] + EntryOf(lines[k])
    BY <1>0, Zenon DEF Decoded
<1>6. \A k \in i..(n + 1) : mark[i] + (k - i) <= mark[k]
    BY <1>1, MarksGrow DEF Holds
<1>7. \A k \in 1..(Len(rest) + 1) : m[k] \in Nat /\ mark[i] + m[k] = mark[i + k - 1]
    <2> TAKE k \in 1..(Len(rest) + 1)
    <2>1. i + k - 1 \in i..(n + 1) /\ i + k - 1 \in 1..(n + 1) /\ i \in 1..(n + 1)
        BY <1>1, <1>2
    <2>2. mark[i] + ((i + k - 1) - i) <= mark[i + k - 1]
        BY <1>6, <2>1
    <2>3. mark[i] \in Nat /\ mark[i + k - 1] \in Nat /\ (i + k - 1) - i \in Nat
        BY <1>1, <1>4, <2>1
    <2>4. m[k] = mark[i + k - 1] - mark[i]
        OBVIOUS
    <2> QED
        BY <2>2, <2>3, <2>4
<1>8. Marks(rest, u - mark[i], m)
    <2>1. m \in [1..(Len(rest) + 1) -> Nat]
        BY <1>7
    <2>2. m[1] = 0
        BY <1>1, <1>2, <1>4
    <2>3. m[Len(rest) + 1] = u - mark[i]
        BY <1>1, <1>2, <1>3
    <2>4. ASSUME NEW k \in 1..Len(rest) PROVE m[k + 1] = m[k] + EntryOf(rest[k])
        <3>1. i + k - 1 \in 1..n /\ (i + k - 1) + 1 = i + (k + 1) - 1
            BY <1>1, <1>2
        <3>2. mark[i + (k + 1) - 1] = mark[i + k - 1] + EntryOf(rest[k])
            BY <1>2, <1>5, <3>1
        <3>3. k \in 1..(Len(rest) + 1) /\ k + 1 \in 1..(Len(rest) + 1)
            BY <1>1, <1>2
        <3>4. EntryOf(rest[k]) \in Nat /\ mark[i] \in Nat
            BY <1>1, <1>2, <1>4, <1>5, <3>1
        <3>5. /\ m[k] \in Nat /\ mark[i] + m[k] = mark[i + k - 1]
              /\ m[k + 1] \in Nat /\ mark[i] + m[k + 1] = mark[i + (k + 1) - 1]
            BY <1>7, <3>3
        <3> HIDE DEF m
        <3> QED
            BY <3>2, <3>4, <3>5, SMTT(30)
    <2> QED
        BY <2>1, <2>2, <2>3, <2>4 DEF Marks
<1>9. ASSUME NEW k \in 1..Len(rest) PROVE Stored(cells, t2, m[k], rest[k])
    <2>1. i + k - 1 \in 1..n /\ k \in 1..(Len(rest) + 1) /\ (i + k - 1) + 1 \in 1..(n + 1)
        BY <1>1, <1>2
    <2>2. rest[k] = lines[i + k - 1] /\ mark[i] + m[k] = mark[i + k - 1] /\ m[k] \in Nat
        BY <1>2, <1>7, <2>1
    <2>3. /\ mark[i] \in Nat /\ EntryOf(rest[k]) \in Nat
          /\ mark[i + k - 1] + EntryOf(rest[k]) <= RingSize
        <3>1. /\ EntryOf(lines[i + k - 1]) \in Nat
              /\ mark[(i + k - 1) + 1] = mark[i + k - 1] + EntryOf(lines[i + k - 1])
            BY <1>5, <2>1
        <3>2. mark[(i + k - 1) + 1] <= RingSize /\ mark[i] \in Nat
            BY <1>1, <1>4, <2>1
        <3> HIDE DEF m, rest
        <3> QED
            BY <2>2, <3>1, <3>2
    <2>4. Stored(cells, t, mark[i + k - 1], rest[k])
        BY <2>1, <2>2 DEF Holds
    <2> HIDE DEF m, rest
    <2>5. ASSUME NEW j \in 0..(EntryOf(rest[k]) - 1)
          PROVE  At(cells, t2, m[k] + j) = Image(rest[k])[j + 1]
        <3>1. j \in Nat /\ j <= EntryOf(rest[k])
            BY <2>3
        <3>2. m[k] + j \in Nat /\ mark[i] + (m[k] + j) = mark[i + k - 1] + j
            <4>1. m[k] \in Nat /\ mark[i] \in Nat /\ mark[i] + m[k] = mark[i + k - 1]
                BY <2>2, <2>3
            <4> QED
                BY <3>1, <4>1, SMTT(30)
        <3>3. mark[i] + (m[k] + j) <= RingSize
            BY <1>1, <2>2, <2>3, <3>1, <3>2, SMTT(30)
        <3>4. At(cells, t2, m[k] + j) = At(cells, t, mark[i] + (m[k] + j))
            BY <2>3, <3>2, <3>3, Shift
        <3> QED
            BY <2>4, <3>2, <3>4 DEF Stored
    <2> QED
        BY <2>5 DEF Stored
<1> QED
    BY <1>8, <1>9 DEF Holds

\* A line put after the used cells is held with the others.
LEMMA Putting ==
    ASSUME NEW cells, NEW t \in Cells, NEW u \in 0..RingSize, NEW lines \in Seq(Line),
           NEW mark, Holds(cells, t, u, lines, mark), NEW line \in Line,
           u + EntryOf(line) <= RingSize
    PROVE  \E m : Holds(RingPut(cells, (t + u) % RingSize, Image(line)), t,
                        u + EntryOf(line), Append(lines, line), m)
<1> DEFINE n == Len(lines)
           new == RingPut(cells, (t + u) % RingSize, Image(line))
           more == Append(lines, line)
           m == [k \in 1..(n + 2) |-> IF k = n + 2 THEN u + EntryOf(line) ELSE mark[k]]
<1>0. Decoded(cells, t, u, lines, mark)
    BY HoldsFacts
<1>1. /\ n \in Nat /\ u \in Nat /\ RingSize \in Nat
      /\ Image(line) \in Seq(Cell) /\ Len(Image(line)) = EntryOf(line) /\ EntryOf(line) \in Nat
    BY Constants, ImageIs
<1>2. /\ Len(more) = n + 1 /\ more[n + 1] = line
      /\ \A k \in 1..n : more[k] = lines[k]
    BY <1>1, AppendProperties
<1>3. mark[1] = 0 /\ mark[n + 1] = u
    BY <1>0 DEF Decoded
<1>4. \A k \in 1..(n + 1) : mark[k] \in 0..RingSize /\ mark[k] <= u
    BY <1>0 DEF Decoded
<1>5. \A k \in 1..n : /\ lines[k] \in Line /\ EntryOf(lines[k]) \in Nat
                      /\ mark[k + 1] = mark[k] + EntryOf(lines[k])
    BY <1>0, Zenon DEF Decoded
<1>6. \A x \in 0..(RingSize - 1) :
         At(new, t, x) = IF u <= x /\ x < u + EntryOf(line) THEN Image(line)[x - u + 1]
                         ELSE At(cells, t, x)
    <2> TAKE x \in 0..(RingSize - 1)
    <2> QED
        BY <1>1, Put
<1>7. /\ m[n + 2] = u + EntryOf(line) /\ \A k \in 1..(n + 1) : m[k] = mark[k]
      /\ m \in [1..(n + 2) -> Nat]
    BY <1>1, <1>4
<1> HIDE DEF m, new, more
<1>8. Marks(more, u + EntryOf(line), m)
    <2>1. Len(more) + 1 = n + 2
        BY <1>1, <1>2
    <2>2. m[1] = 0
        BY <1>1, <1>3, <1>7
    <2>3. ASSUME NEW k \in 1..(n + 1) PROVE m[k + 1] = m[k] + EntryOf(more[k])
        <3>1. CASE k = n + 1
            BY <1>1, <1>2, <1>3, <1>7, <3>1
        <3>2. CASE k \in 1..n
            BY <1>1, <1>2, <1>5, <1>7, <3>2
        <3> QED
            BY <1>1, <3>1, <3>2
    <2> QED
        BY <1>2, <1>7, <2>1, <2>2, <2>3 DEF Marks
<1>9. ASSUME NEW k \in 1..(n + 1) PROVE Stored(new, t, m[k], more[k])
    <2>1. CASE k = n + 1
        <3>1. m[k] = u /\ more[k] = line
            BY <1>1, <1>2, <1>3, <1>7, <2>1
        <3>2. ASSUME NEW j \in 0..(EntryOf(line) - 1)
              PROVE  At(new, t, u + j) = Image(line)[j + 1]
            <4>1. u + j \in 0..(RingSize - 1) /\ u <= u + j /\ u + j < u + EntryOf(line)
                  /\ (u + j) - u + 1 = j + 1
                BY <1>1
            <4> QED
                BY <1>6, <4>1
        <3> QED
            BY <3>1, <3>2 DEF Stored
    <2>2. CASE k \in 1..n
        <3>1. m[k] = mark[k] /\ more[k] = lines[k] /\ mark[k] \in Nat
            BY <1>1, <1>2, <1>4, <1>7, <2>2
        <3>2. mark[k] + EntryOf(lines[k]) <= u /\ EntryOf(lines[k]) \in Nat
            <4>1. k + 1 \in 1..(n + 1)
                BY <1>1, <2>2
            <4> QED
                BY <1>4, <1>5, <2>2, <4>1
        <3>3. Stored(cells, t, mark[k], lines[k])
            BY <2>2 DEF Holds
        <3>4. ASSUME NEW j \in 0..(EntryOf(lines[k]) - 1)
              PROVE  At(new, t, mark[k] + j) = Image(lines[k])[j + 1]
            <4>1. mark[k] + j \in 0..(RingSize - 1) /\ mark[k] + j < u
                BY <1>1, <3>1, <3>2, SMTT(30)
            <4>2. At(new, t, mark[k] + j) = At(cells, t, mark[k] + j)
                BY <1>1, <1>6, <4>1
            <4> QED
                BY <3>3, <4>2 DEF Stored
        <3> QED
            BY <3>1, <3>4 DEF Stored
    <2> QED
        BY <1>1, <2>1, <2>2
<1> QED
    BY <1>2, <1>8, <1>9 DEF Holds, new, more

\* The abstract log's size of the lines is the number of cells they take.
LEMMA SizeIs ==
    ASSUME NEW lines \in Seq(Line), NEW u \in Nat, NEW mark, Marks(lines, u, mark)
    PROVE  Log!Size(lines) = u
<1> DEFINE n == Len(lines)
           body(q) == [i \in 0..n |->
                         IF i = 0 THEN 0 ELSE q[i - 1] + Header + Len(lines[i].text)]
           sum == CHOOSE q : q = body(q)
           g == [k \in 1..n |-> [x \in Nat |-> x + Header + Len(lines[k].text)]]
<1>1. n \in Nat /\ Header \in Nat /\ \A k \in 1..n : Len(lines[k].text) \in Nat
    <2>1. \A line \in Line : Len(line.text) \in Nat
        BY DEF Line
    <2> QED
        BY <2>1, Constants
<1>2. \E q \in [0..n -> Nat] : q = body(q)
    <2> DEFINE D == Nat
    <2>1. g \in Steps(n, D) /\ 0 \in D
        <3>1. ASSUME NEW k \in 1..n, NEW x \in Nat PROVE x + Header + Len(lines[k].text) \in Nat
            <4>1. Len(lines[k].text) \in Nat
                BY <1>1
            <4>2. \A l \in Nat : x + Header + l \in Nat
                BY <1>1
            <4> QED
                BY <4>1, <4>2, Zenon
        <3> QED
            BY <3>1 DEF Steps
    <2>2. \A k \in 1..n : \A x \in Nat : g[k][x] = x + Header + Len(lines[k].text)
        OBVIOUS
    <2> HIDE DEF g, D
    <2>3. PICK q \in [0..n -> D] :
              \A k \in 0..n : q[k] = IF k = 0 THEN 0 ELSE g[k][q[k - 1]]
        BY <1>1, <2>1, Recursion
    <2> USE DEF D
    <2>4. \A k \in 0..n : q[k] = IF k = 0 THEN 0 ELSE q[k - 1] + Header + Len(lines[k].text)
        <3> TAKE k \in 0..n
        <3>1. k # 0 => k \in 1..n /\ q[k - 1] \in Nat
            BY <1>1, <2>3, SMTT(30)
        <3> QED
            BY <2>2, <2>3, <3>1
    <2> QED
        BY <2>3, <2>4
<1>3. sum = body(sum)
    BY <1>2, Zenon
<1>4. Log!Size(lines) = sum[n]
    BY DEF Log!Size
<1> HIDE DEF sum
<1> DEFINE S == {k \in Nat : k <= n => sum[k] = mark[k + 1]}
<1>5. 0 \in S
    BY <1>1, <1>3 DEF Marks
<1>6. \A k \in S : k + 1 \in S
    <2> SUFFICES ASSUME NEW k \in S, k + 1 <= n PROVE sum[k + 1] = mark[(k + 1) + 1]
        OBVIOUS
    <2>1. k + 1 \in 1..n /\ k + 1 \in 0..n /\ (k + 1) - 1 = k /\ k + 1 # 0
        BY <1>1
    <2>2. sum[k + 1] = sum[k] + Header + Len(lines[k + 1].text)
        BY <1>3, <2>1
    <2>3. mark[(k + 1) + 1] = mark[k + 1] + (Header + Len(lines[k + 1].text))
        BY <2>1 DEF Marks, EntryOf
    <2>4. mark[k + 1] \in Nat /\ sum[k] = mark[k + 1]
        BY <1>1, <2>1 DEF Marks
    <2> QED
        BY <1>1, <2>1, <2>2, <2>3, <2>4
<1>7. S = Nat
    BY <1>5, <1>6, Induction
<1> QED
    BY <1>1, <1>4, <1>7 DEF Marks

\* --------------------------- The ring's steps ---------------------------
\* The lines of the ring are numbered without gaps up to the newest, and whole.
Numbered(lines, next) ==
    /\ Len(lines) < next
    /\ \A i \in 1..Len(lines) :
          /\ lines[i].seq = next - Len(lines) + i - 1
          /\ lines[i].text = TextCells(lines[i].seq, Len(lines[i].text))

RingInv ==
    /\ head \in Cells /\ tail \in Cells /\ used \in 0..RingSize
    /\ head = (tail + used) % RingSize
    /\ next_seq \in Nat \ {0}
    /\ Lines \in Seq(Line)
    /\ \E mark : Holds(ring, tail, used, Lines, mark)
    /\ Numbered(Lines, next_seq)

NewLine(seq, len) == [seq |-> seq, text |-> TextCells(seq, len)]

LEMMA NewLineIs ==
    ASSUME NEW seq \in Nat, NEW len \in Nat
    PROVE  /\ NewLine(seq, len) \in Line /\ EntryOf(NewLine(seq, len)) = Header + len
           /\ NewLine(seq, len).seq = seq /\ Len(NewLine(seq, len).text) = len
           /\ NewLine(seq, len).text = TextCells(seq, Len(NewLine(seq, len).text))
           /\ Image(NewLine(seq, len)) = HeaderCells(seq, len) \o TextCells(seq, len)
<1>1. TextCells(seq, len) \in Seq(Cell) /\ Len(TextCells(seq, len)) = len
    BY DEF TextCells, Cell
<1> QED
    BY <1>1 DEF NewLine, Line, EntryOf, Image

LEMMA EmptyRing ==
    ASSUME NEW cells
    PROVE  Walk(cells, 0, 0) = <<>> /\ \E mark : Holds(cells, 0, 0, <<>>, mark)
<1> DEFINE mark == [k \in 1..1 |-> 0]
<1>1. 0 \in Cells /\ 0 \in 0..RingSize /\ <<>> \in Seq(Line) /\ Len(<<>>) = 0
    BY Constants DEF Cells
<1>2. Holds(cells, 0, 0, <<>>, mark)
    BY <1>1 DEF Holds, Marks
<1> HIDE DEF mark
<1>3. Walk(cells, 0, 0) = <<>>
    BY <1>1, <1>2, WalkReads
<1> QED
    BY <1>2, <1>3

\* Giving up lines 1..i-1 and appending one keeps the numbering.
LEMMA NumberedOn ==
    ASSUME NEW lines \in Seq(Line), NEW next \in Nat \ {0}, NEW len \in Nat,
           NEW i \in 1..(Len(lines) + 1), Numbered(lines, next)
    PROVE  Numbered(Append(SubSeq(lines, i, Len(lines)), NewLine(next, len)), next + 1)
<1> DEFINE n == Len(lines)
           rest == SubSeq(lines, i, n)
           line == NewLine(next, len)
           more == Append(rest, line)
<1>1. n \in Nat /\ next \in Nat /\ i \in Nat /\ i <= n + 1 /\ 1 <= i /\ n < next
    BY DEF Numbered
<1>2. rest \in Seq(Line) /\ Len(rest) = n - i + 1
      /\ \A k \in 1..Len(rest) : rest[k] = lines[i + k - 1]
    BY <1>1, SubSeqProperties
<1>3. line.seq = next /\ line.text = TextCells(next, Len(line.text)) /\ line \in Line
    BY NewLineIs
<1> HIDE DEF rest, line
<1>4. Len(more) = n - i + 2 /\ more[n - i + 2] = line
      /\ \A k \in 1..(n - i + 1) : more[k] = rest[k]
    <2>1. Len(more) = Len(rest) + 1 /\ more[Len(rest) + 1] = line
          /\ \A k \in 1..Len(rest) : more[k] = rest[k]
        BY <1>2, <1>3, AppendProperties, SMTT(30)
    <2>2. Len(rest) + 1 = n - i + 2
        BY <1>1, <1>2
    <2> QED
        BY <1>2, <2>1, <2>2
<1>5. ASSUME NEW k \in 1..(n - i + 2)
      PROVE  /\ more[k].seq = (next + 1) - (n - i + 2) + k - 1
             /\ more[k].text = TextCells(more[k].seq, Len(more[k].text))
    <2>1. CASE k = n - i + 2
        BY <1>1, <1>3, <1>4, <2>1
    <2>2. CASE k # n - i + 2
        <3>1. k \in 1..(n - i + 1) /\ i + k - 1 \in 1..n
            BY <1>1, <2>2
        <3>2. more[k] = lines[i + k - 1]
            BY <1>2, <1>4, <3>1
        <3>3. /\ lines[i + k - 1].seq = next - n + (i + k - 1) - 1
              /\ lines[i + k - 1].text = TextCells(lines[i + k - 1].seq, Len(lines[i + k - 1].text))
            BY <3>1 DEF Numbered
        <3> QED
            BY <1>1, <3>1, <3>2, <3>3
    <2> QED
        BY <2>1, <2>2
<1> HIDE DEF more
<1>6. Numbered(more, next + 1)
    BY <1>1, <1>4, <1>5 DEF Numbered
<1> QED
    BY <1>6 DEF more, rest, line

\* What enqueue_line does to the lines, and what of the abstract log it is.
LEMMA EnqueueStep ==
    ASSUME RingInv, NEW len \in Lengths, Enqueue(len)
    PROVE  /\ RingInv'
           /\ \E i \in 1..(Len(Lines) + 1) :
                 Lines' = Append(SubSeq(Lines, i, Len(Lines)), NewLine(next_seq, len))
           /\ Log!AppendLine(len)
<1> DEFINE n == Len(Lines)
           need == Header + len
           start == [head |-> head, tail |-> tail, used |-> used]
           line == NewLine(next_seq, len)
<1>1. /\ head \in Cells /\ tail \in Cells /\ used \in 0..RingSize /\ next_seq \in Nat \ {0}
      /\ head = (tail + used) % RingSize /\ Lines \in Seq(Line) /\ n \in Nat
      /\ Numbered(Lines, next_seq)
    BY DEF RingInv
<1>2. PICK mark : Holds(ring, tail, used, Lines, mark)
    BY DEF RingInv
<1>3. len \in Nat /\ need \in 0..RingSize
    BY Constants DEF Enqueue
<1>20. PICK i \in 1..(n + 1) : MadeRoom(ring, head, tail, used, mark, need, i)
    BY <1>1, <1>2, <1>3, RoomMade
<1>4. /\ MakeRoom(ring, start, need) =
            [head |-> head, tail |-> (tail + mark[i]) % RingSize, used |-> used - mark[i]]
      /\ used - mark[i] + need <= RingSize
      /\ \A j \in 1..(i - 1) : used - mark[j] + need > RingSize
    BY <1>20 DEF MadeRoom
<1> DEFINE rest == SubSeq(Lines, i, n)
           more == Append(rest, line)
           t == (tail + mark[i]) % RingSize
           u == used - mark[i]
<1>5. /\ ring' = RingPut(ring, head, HeaderCells(next_seq, len) \o TextCells(next_seq, len))
      /\ head' = (head + need) % RingSize /\ tail' = t /\ used' = u + need
      /\ next_seq' = next_seq + 1
    BY <1>4 DEF Enqueue
<1>6. \A j \in 1..(n + 1) : /\ mark[j] \in 0..RingSize /\ mark[j] <= used
                            /\ (tail + mark[j]) % RingSize \in Cells
    BY <1>1, <1>2, HoldsFacts DEF Decoded
<1>7. t \in Cells /\ u \in 0..RingSize /\ mark[i] \in Nat /\ mark[i] + u <= RingSize
    BY <1>1, <1>6, Constants
<1>8. (t + u) % RingSize = head
    <2>1. (t + u) % RingSize = (tail + (mark[i] + u)) % RingSize
        <3>1. u \in Nat /\ mark[i] \in Nat /\ mark[i] + u <= RingSize
            BY <1>7
        <3>2. tail \in Cells
            BY <1>1
        <3>3. (t + u) % RingSize = (((tail + mark[i]) % RingSize) + u) % RingSize
            OBVIOUS
        <3> HIDE DEF u, t
        <3>4. (((tail + mark[i]) % RingSize) + u) % RingSize = (tail + (mark[i] + u)) % RingSize
            BY <3>1, <3>2, Shift, Zenon
        <3> QED
            BY <3>3, <3>4
    <2>2. mark[i] + u = used
        BY <1>1, <1>7
    <2> QED
        BY <1>1, <2>1, <2>2
<1>9. line \in Line /\ EntryOf(line) = need
      /\ Image(line) = HeaderCells(next_seq, len) \o TextCells(next_seq, len)
    BY <1>1, <1>3, NewLineIs
<1>10. rest \in Seq(Line) /\ more \in Seq(Line)
    BY <1>1, <1>9, SubSeqProperties, AppendProperties
<1>11. PICK m : Holds(ring, t, u, rest, m)
    BY <1>1, <1>2, Dropping
<1>12. u + need \in 0..RingSize /\ u + EntryOf(line) <= RingSize
    BY <1>3, <1>4, <1>7, <1>9, Constants
<1> HIDE DEF t, u, rest, line, need
<1>13. PICK m2 : Holds(RingPut(ring, (t + u) % RingSize, Image(line)), t, u + EntryOf(line), more, m2)
    BY <1>7, <1>9, <1>10, <1>11, <1>12, Putting
<1>14. Holds(ring', tail', used', more, m2)
    BY <1>5, <1>8, <1>9, <1>13
<1>15. Lines' = more
    <2>1. tail' \in Cells /\ used' \in 0..RingSize
        BY <1>5, <1>7, <1>12
    <2> HIDE DEF more
    <2>2. Walk(ring', tail', used') = more
        BY <1>10, <1>14, <2>1, WalkReads
    <2> QED
        BY <2>2 DEF Lines
<1>16. RingInv'
    <2>1. tail' \in Cells /\ used' \in 0..RingSize /\ next_seq' \in Nat \ {0}
        BY <1>1, <1>5, <1>7, <1>12
    <2>2. head' \in Cells /\ head' = (tail' + used') % RingSize
        <3>1. (head + need) % RingSize = (((t + u) % RingSize) + need) % RingSize
            BY <1>8
        <3>2. (((t + u) % RingSize) + need) % RingSize = (t + (u + need)) % RingSize
            <4>1. t \in Cells /\ u \in Nat /\ need \in Nat /\ u + need <= RingSize
                BY <1>3, <1>7, <1>12, Constants DEF need
            <4> QED
                BY <4>1, Shift
        <3>3. (t + (u + need)) % RingSize \in Cells
            BY <1>7, <1>12, Wrap
        <3> QED
            BY <1>5, <3>1, <3>2, <3>3
    <2>3. Numbered(more, next_seq')
        BY <1>1, <1>3, <1>5, NumberedOn DEF rest, line
    <2> HIDE DEF more
    <2> QED
        BY <1>10, <1>14, <1>15, <2>1, <2>2, <2>3 DEF RingInv
<1>17. Log!AppendLine(len)
    <2>1. \A j \in 1..(n + 1) : Log!Size(SubSeq(Lines, j, n)) = used - mark[j]
        <3> TAKE j \in 1..(n + 1)
        <3>1. PICK mj : Holds(ring, (tail + mark[j]) % RingSize, used - mark[j], SubSeq(Lines, j, n), mj)
            BY <1>1, <1>2, Dropping
        <3>2. Marks(SubSeq(Lines, j, n), used - mark[j], mj)
            BY <3>1 DEF Holds
        <3>3. SubSeq(Lines, j, n) \in Seq(Line)
            BY <1>1, SubSeqProperties
        <3>4. used - mark[j] \in Nat
            BY <1>1, <1>6
        <3> QED
            BY <3>2, <3>3, <3>4, SizeIs
    <2>2. Log!Tails(need) = {k \in 0..n : used - mark[k + 1] + need <= RingSize}
        <3>1. \A k \in 0..n : Log!Size(SubSeq(Lines, k + 1, n)) = used - mark[k + 1]
            BY <1>1, <2>1
        <3> QED
            BY <3>1 DEF Log!Tails
    <2>3. i - 1 \in Log!Tails(need) /\ \A j \in Log!Tails(need) : i - 1 <= j
        <3>1. i - 1 \in Log!Tails(need)
            BY <1>1, <1>4, <2>2 DEF need
        <3>2. ASSUME NEW j \in Log!Tails(need), j < i - 1 PROVE FALSE
            <4>1. j + 1 \in 1..(i - 1) /\ j + 1 \in 1..(n + 1) /\ used - mark[j + 1] + need <= RingSize
                BY <1>1, <2>2, <3>2
            <4>2. used - mark[j + 1] + need > RingSize
                BY <1>4, <4>1 DEF need
            <4>3. mark[j + 1] \in Nat
                BY <1>6, <4>1, Constants
            <4> QED
                BY <1>1, <1>3, <4>1, <4>2, <4>3, Constants
        <3>3. \A j \in Log!Tails(need) : j \in Int
            BY <1>1, <2>2
        <3> QED
            BY <1>1, <3>1, <3>2, <3>3
    <2>4. Lines' = Append(SubSeq(Lines, (i - 1) + 1, Len(Lines)),
                          [seq |-> next_seq, text |-> Log!Text(next_seq, len)])
        <3>1. (i - 1) + 1 = i
            BY <1>1
        <3> QED
            BY <1>15, <3>1 DEF more, rest, line, NewLine, TextCells, Log!Text
    <2>5. Header + len <= RingSize /\ next_seq' = next_seq + 1
        BY <1>3, <1>5 DEF need
    <2> QED
        BY <2>3, <2>4, <2>5 DEF Log!AppendLine, need
<1> QED
    BY <1>15, <1>16, <1>17 DEF more, rest, line

LEMMA EnqueuePuts ==
    ASSUME RingInv, NEW len \in Lengths, Enqueue(len)
    PROVE  \E at \in Cells :
              ring' = RingPut(ring, at, HeaderCells(next_seq, len) \o TextCells(next_seq, len))
<1> DEFINE need == Header + len
           start == [head |-> head, tail |-> tail, used |-> used]
<1>1. PICK mark : Holds(ring, tail, used, Lines, mark)
    BY DEF RingInv
<1>2. /\ need \in 0..RingSize /\ head \in Cells /\ tail \in Cells /\ used \in 0..RingSize
      /\ Lines \in Seq(Line)
    BY Constants DEF RingInv, Enqueue
<1> HIDE DEF need
<1>3. PICK i \in 1..(Len(Lines) + 1) : MadeRoom(ring, head, tail, used, mark, need, i)
    BY <1>1, <1>2, RoomMade
<1>4. MakeRoom(ring, start, need).head = head
    BY <1>3 DEF MadeRoom
<1> QED
    BY <1>2, <1>4 DEF Enqueue, need

LEMMA RingInit == Init => RingInv /\ Lines = <<>>
<1> SUFFICES ASSUME Init PROVE RingInv /\ Lines = <<>>
    OBVIOUS
<1>1. Lines = <<>> /\ \E mark : Holds(ring, tail, used, Lines, mark)
    BY EmptyRing DEF Init, Lines
<1>2. 0 \in Cells /\ 0 % RingSize = 0 /\ 0 + 0 = 0
    BY Constants DEF Cells
<1>3. Numbered(<<>>, 1)
    BY DEF Numbered
<1> QED
    BY <1>1, <1>2, <1>3, Constants DEF Init, RingInv

LEMMA RebootEmpties ==
    ASSUME RingInv, Reboot PROVE RingInv' /\ Lines' = <<>> /\ next_seq' = 1
<1>1. Lines' = <<>> /\ \E mark : Holds(ring', tail', used', Lines', mark)
    BY EmptyRing DEF Reboot, Lines
<1>2. 0 \in Cells /\ 0 % RingSize = 0 /\ 0 + 0 = 0
    BY Constants DEF Cells
<1>3. Numbered(<<>>, 1)
    BY DEF Numbered
<1> QED
    BY <1>1, <1>2, <1>3, Constants DEF Reboot, RingInv

LEMMA RingKept ==
    ASSUME UNCHANGED ringVars PROVE (RingInv => RingInv') /\ Lines' = Lines
    BY DEF ringVars, RingInv, Lines

LEMMA RingStep ==
    ASSUME RingInv, [Next]_vars
    PROVE  RingInv' /\ [Log!LtNext]_(Log!logVars)
<1>1. CASE \E len \in Lengths : Enqueue(len)
    BY <1>1, EnqueueStep DEF Log!LtNext
<1>2. CASE Reboot
    BY <1>2, RebootEmpties DEF Log!LtNext, Log!Restart
<1>3. CASE UNCHANGED ringVars
    BY <1>3, RingKept DEF ringVars, Log!logVars
<1>4. CASE Serve \/ Poll \/ Submit \/ Scroll \/ Show \/ Lose \/ Reload \/ UNCHANGED vars
    BY <1>3, <1>4 DEF Serve, Poll, Submit, Ask, Scroll, Show, Lose, Reload, vars, ringVars
<1> QED
    BY <1>1, <1>2, <1>4 DEF Next

\* Whatever is logged and however often the device restarts, the used cells of the ring
\* are whole lines, numbered without a gap up to the newest (log_backend_web.c:149-185).
THEOREM RingInvariant == Spec => []RingInv
    BY RingInit, RingStep, PTL DEF Spec

\* The run's KeepsNewestLines (log_backend_web.c:27-29), for all sizes of the ring, the
\* header and the lines: the byte ring is the abstract log.
THEOREM RingKeepsNewestLines == Spec => KeepsNewestLines
<1>1. Init => Log!LtInit
    BY RingInit DEF Init, Log!LtInit
<1> QED
    BY <1>1, RingStep, RingInvariant, PTL DEF Spec, KeepsNewestLines, Log!LtSpec

\* ------------------------------ Reading ------------------------------
\* After k lines: some first lines were old, those after them are taken, and
\* no line was passed over unless nothing fits any more.
TakenTo(lines, since, k, got, a, b) ==
    /\ got \in Got
    /\ 0 <= a /\ a <= b /\ b <= k
    /\ got.out = SubSeq(lines, a + 1, b)
    /\ \A j \in 1..a : lines[j].seq <= since
    /\ \A j \in (a + 1)..b : lines[j].seq > since
    /\ ~got.full => b = k

LEMMA TakeOne ==
    ASSUME NEW lines \in Seq(Line), NEW next \in Nat, Numbered(lines, next), NEW since \in Nat,
           NEW k \in 0..(Len(lines) - 1), NEW got, NEW a \in Nat, NEW b \in Nat,
           TakenTo(lines, since, k, got, a, b)
    PROVE  \E c, d \in Nat : TakenTo(lines, since, k + 1, Take(since)[lines[k + 1]][got], c, d)
<1> DEFINE line == lines[k + 1]
           got2 == Take(since)[line][got]
<1>1. /\ Len(lines) \in Nat /\ k \in Nat /\ k + 1 \in 1..Len(lines) /\ line \in Line
      /\ got \in Got /\ a <= b /\ b <= k
    BY DEF TakenTo
<1>2. got2 = IF got.full \/ ~Newer(line, since) THEN got
             ELSE IF got.written + Needed(line) > Cap THEN [got EXCEPT !.full = TRUE]
             ELSE [full |-> FALSE, written |-> got.written + Needed(line),
                   out |-> Append(got.out, line)]
    BY <1>1 DEF Take
<1>3. /\ got.full \in BOOLEAN /\ got.written \in 0..Cap /\ got.out \in Seq(Line)
      /\ Needed(line) \in Nat /\ line.seq \in Nat
    BY <1>1, Constants, SMTT(30) DEF Got, Line, Needed
<1> HIDE DEF line
<1>4. CASE got.full
    <2>1. got2 = got
        BY <1>2, <1>4
    <2>2. TakenTo(lines, since, k + 1, got, a, b)
        BY <1>1, <1>4 DEF TakenTo
    <2> QED
        BY <2>1, <2>2 DEF line
<1>5. CASE ~got.full /\ ~Newer(line, since)
    <2>1. got2 = got /\ b = k
        BY <1>2, <1>5 DEF TakenTo
    <2>2. a = b
        <3> SUFFICES ASSUME a < b PROVE FALSE
            BY <1>1
        <3>1. lines[k].seq > since
            BY <1>1, <2>1 DEF TakenTo
        <3>2. /\ lines[k].seq = next - Len(lines) + k - 1
              /\ lines[k + 1].seq = next - Len(lines) + (k + 1) - 1
            BY <1>1, <2>1 DEF Numbered
        <3> QED
            BY <1>1, <1>5, <3>1, <3>2 DEF Newer, line
    <2>3. TakenTo(lines, since, k + 1, got, k + 1, k + 1)
        <3>1. SubSeq(lines, a + 1, b) = <<>> /\ SubSeq(lines, (k + 1) + 1, k + 1) = <<>>
            BY <1>1, <2>2, SubSeqEmpty
        <3>2. \A j \in 1..(k + 1) : lines[j].seq <= since
            BY <1>1, <1>3, <1>5, <2>1, <2>2 DEF TakenTo, Newer, line
        <3> QED
            BY <1>1, <3>1, <3>2 DEF TakenTo
    <2> QED
        BY <1>1, <2>1, <2>3 DEF line
<1>6. CASE ~got.full /\ Newer(line, since) /\ got.written + Needed(line) > Cap
    <2>1. got2 = [got EXCEPT !.full = TRUE]
        BY <1>2, <1>6
    <2>2. got2 \in Got /\ got2.full /\ got2.out = got.out
        BY <1>1, <2>1 DEF Got
    <2> HIDE DEF got2
    <2>3. TakenTo(lines, since, k + 1, got2, a, b)
        BY <1>1, <2>2 DEF TakenTo
    <2> QED
        BY <2>3 DEF got2, line
<1>7. CASE ~got.full /\ Newer(line, since) /\ ~(got.written + Needed(line) > Cap)
    <2>1. /\ got2.full = FALSE /\ got2.out = Append(got.out, line) /\ b = k
          /\ got2 \in Got
        <3>1. got2 = [full |-> FALSE, written |-> got.written + Needed(line),
                      out |-> Append(got.out, line)]
            BY <1>2, <1>7
        <3>2. Append(got.out, line) \in Seq(Line)
            BY <1>1, <1>3, AppendProperties DEF line
        <3>3. got.written + Needed(line) \in 0..Cap
            BY <1>3, <1>7, Constants
        <3> QED
            BY <1>7, <3>1, <3>2, <3>3 DEF Got, TakenTo
    <2>2. Append(SubSeq(lines, a + 1, k), lines[k + 1]) = SubSeq(lines, a + 1, k + 1)
        BY <1>1, <2>1, SubSeqRecursiveSecond
    <2>3. \A j \in (a + 1)..(k + 1) : lines[j].seq > since
        BY <1>1, <1>7, <2>1 DEF TakenTo, Newer, line
    <2> HIDE DEF got2
    <2>4. TakenTo(lines, since, k + 1, got2, a, k + 1)
        BY <1>1, <2>1, <2>2, <2>3 DEF TakenTo, line
    <2>5. k + 1 \in Nat
        BY <1>1
    <2> QED
        BY <2>4, <2>5 DEF got2, line
<1> QED
    BY <1>4, <1>5, <1>6, <1>7

LEMMA TakenIs ==
    ASSUME NEW lines \in Seq(Line), NEW next \in Nat, Numbered(lines, next), NEW since \in Nat
    PROVE  \E a, b \in Nat : TakenTo(lines, since, Len(lines), Taken(lines, since), a, b)
<1> DEFINE n == Len(lines)
           start == [full |-> FALSE, written |-> 0, out |-> <<>>]
           body(q) == [k \in 0..n |->
                         IF k = 0 THEN start ELSE Take(since)[lines[k]][q[k - 1]]]
           got == CHOOSE q : q = body(q)
           g == [k \in 1..n |-> Take(since)[lines[k]]]
<1>1. n \in Nat /\ start \in Got /\ \A k \in 1..n : lines[k] \in Line
    BY Constants DEF Got
<1>2. \A line \in Line : Take(since)[line] \in [Got -> Got]
    <2> SUFFICES ASSUME NEW line \in Line, NEW x \in Got PROVE Take(since)[line][x] \in Got
        BY DEF Take
    <2>1. x.full \in BOOLEAN /\ x.written \in 0..Cap /\ x.out \in Seq(Line)
          /\ Needed(line) \in Nat /\ Append(x.out, line) \in Seq(Line)
        BY Constants DEF Got, Line, Needed
    <2>2. Take(since)[line][x] =
             IF x.full \/ ~Newer(line, since) THEN x
             ELSE IF x.written + Needed(line) > Cap THEN [x EXCEPT !.full = TRUE]
             ELSE [full |-> FALSE, written |-> x.written + Needed(line),
                   out |-> Append(x.out, line)]
        BY DEF Take
    <2>3. CASE x.full \/ ~Newer(line, since)
        BY <2>2, <2>3
    <2>4. CASE ~(x.full \/ ~Newer(line, since)) /\ x.written + Needed(line) > Cap
        BY <2>2, <2>4 DEF Got
    <2>5. CASE ~(x.full \/ ~Newer(line, since)) /\ ~(x.written + Needed(line) > Cap)
        <3>1. x.written + Needed(line) \in 0..Cap
            BY <2>1, <2>5, Constants
        <3> QED
            BY <2>1, <2>2, <2>5, <3>1 DEF Got
    <2> QED
        BY <2>3, <2>4, <2>5
<1>3. \E q \in [0..n -> Got] : q = body(q)
    <2>1. g \in Steps(n, Got) /\ \A k \in 1..n : g[k] = Take(since)[lines[k]]
        BY <1>1, <1>2 DEF Steps
    <2> HIDE DEF g, start
    <2>2. PICK q \in [0..n -> Got] :
              \A k \in 0..n : q[k] = IF k = 0 THEN start ELSE g[k][q[k - 1]]
        BY <1>1, <2>1, Recursion
    <2>3. \A k \in 0..n : q[k] = IF k = 0 THEN start ELSE Take(since)[lines[k]][q[k - 1]]
        BY <2>1, <2>2
    <2> QED
        BY <2>2, <2>3
<1>4. got = body(got)
    BY <1>3, Zenon
<1>5. Taken(lines, since) = got[n]
    BY DEF Taken
<1> HIDE DEF got
<1> DEFINE S == {k \in Nat : k <= n =>
                    \E a, b \in Nat : TakenTo(lines, since, k, got[k], a, b)}
<1>6. 0 \in S
    <2>1. got[0] = start
        BY <1>1, <1>4
    <2>2. SubSeq(lines, 0 + 1, 0) = <<>>
        BY SubSeqEmpty
    <2>3. TakenTo(lines, since, 0, start, 0, 0)
        BY <1>1, <2>2 DEF TakenTo
    <2> QED
        BY <2>1, <2>3
<1>7. \A k \in S : k + 1 \in S
    <2> SUFFICES ASSUME NEW k \in S, k + 1 <= n
                 PROVE  \E a, b \in Nat : TakenTo(lines, since, k + 1, got[k + 1], a, b)
        OBVIOUS
    <2>1. k \in 0..(n - 1) /\ k + 1 \in 1..n /\ (k + 1) - 1 = k
        BY <1>1
    <2>2. got[k + 1] = Take(since)[lines[k + 1]][got[k]]
        <3>1. \A j \in 0..n : got[j] = IF j = 0 THEN start ELSE Take(since)[lines[j]][got[j - 1]]
            BY <1>4
        <3> HIDE DEF start
        <3>2. k + 1 \in 0..n /\ k + 1 # 0
            BY <1>1, <2>1
        <3> QED
            BY <2>1, <3>1, <3>2
    <2>3. PICK a, b \in Nat : TakenTo(lines, since, k, got[k], a, b)
        BY <1>1, <2>1
    <2>4. \E c, d \in Nat : TakenTo(lines, since, k + 1, Take(since)[lines[k + 1]][got[k]], c, d)
        BY <2>1, <2>3, TakeOne
    <2> QED
        BY <2>2, <2>4
<1>8. S = Nat
    BY <1>6, <1>7, Induction
<1> QED
    BY <1>1, <1>5, <1>8

\* The lines an answer carries: some that follow one another in the ring, newer than
\* the request's, up to the new cursor, with every older one before it.
Carries(got, lines, since, high) ==
    /\ got \in Seq(Line)
    /\ \A i \in 1..Len(got) : \E j \in 1..Len(lines) : got[i] = lines[j]
    /\ \A i \in 1..Len(got) : since < got[i].seq /\ got[i].seq <= high
    /\ \A i, j \in 1..Len(got) : i < j => got[i].seq < got[j].seq
    /\ high \in Nat /\ since <= high
    /\ \A j \in 1..Len(lines) :
          since < lines[j].seq /\ lines[j].seq <= high => \E i \in 1..Len(got) : got[i] = lines[j]
    /\ high = since \/ \E j \in 1..Len(lines) : high = lines[j].seq

LEMMA AnswerIs ==
    ASSUME NEW since \in Nat, RingInv
    PROVE  Carries(ReadSince(since), Lines, since, HighMark(ReadSince(since), since))
<1> DEFINE n == Len(Lines)
           got == ReadSince(since)
           high == HighMark(got, since)
<1>1. /\ Lines \in Seq(Line) /\ n \in Nat /\ next_seq \in Nat /\ Numbered(Lines, next_seq)
      /\ \A j \in 1..n : Lines[j] \in Line /\ Lines[j].seq \in Nat
    <2>1. Lines \in Seq(Line) /\ next_seq \in Nat /\ Numbered(Lines, next_seq)
        BY DEF RingInv
    <2>2. n \in Nat /\ \A j \in 1..n : Lines[j] \in Line
        BY <2>1
    <2>3. \A line \in Line : line.seq \in Nat
        BY DEF Line
    <2> QED
        BY <2>1, <2>2, <2>3
<1>2. PICK a, b \in Nat : TakenTo(Lines, since, n, Taken(Lines, since), a, b)
    BY <1>1, TakenIs
<1>3. /\ got = SubSeq(Lines, a + 1, b) /\ a <= b /\ b <= n
      /\ \A j \in 1..a : Lines[j].seq <= since
      /\ \A j \in (a + 1)..b : Lines[j].seq > since
    BY <1>2 DEF TakenTo, ReadSince
<1> HIDE DEF got
<1>4. got \in Seq(Line) /\ Len(got) = b - a
      /\ \A i \in 1..Len(got) : got[i] = Lines[a + i]
    <2>1. Len(SubSeq(Lines, a + 1, b)) = (IF a + 1 <= b THEN b - (a + 1) + 1 ELSE 0)
          /\ SubSeq(Lines, a + 1, b) \in Seq(Line)
          /\ \A i \in 1..(b - (a + 1) + 1) : SubSeq(Lines, a + 1, b)[i] = Lines[a + 1 + i - 1]
        BY <1>1, <1>3, SubSeqProperties
    <2> QED
        BY <1>1, <1>3, <2>1
<1>5. \A j \in 1..n : Lines[j].seq = next_seq - n + j - 1
    BY <1>1 DEF Numbered
<1>6. \A i \in 1..Len(got) : a + i \in 1..n /\ a + i \in (a + 1)..b
    BY <1>1, <1>3, <1>4
<1>7. CASE a = b
    <2>1. got = <<>> /\ Len(got) = 0
        BY <1>1, <1>4, <1>7, EmptySeq
    <2>2. high = since
        BY <2>1 DEF HighMark
    <2>3. 1..Len(got) = {}
        BY <2>1
    <2> HIDE DEF high
    <2>4. Carries(got, Lines, since, high)
        <3>1. \A j \in 1..n : ~(since < Lines[j].seq /\ Lines[j].seq <= high)
            BY <1>1, <2>2
        <3>2. high \in Nat /\ since <= high
            BY <2>2
        <3>3. \A i \in 1..Len(got) : FALSE
            BY <2>3
        <3> QED
            BY <1>4, <2>2, <3>1, <3>2, <3>3, Zenon DEF Carries
    <2> QED
        BY <2>4 DEF high, got
<1>8. CASE a < b
    <2>1. Len(got) \in Nat \ {0} /\ got # <<>>
        BY <1>1, <1>4, <1>8, EmptySeq
    <2>2. high = Lines[b].seq /\ b \in 1..n /\ high > since /\ high \in Nat
        <3>1. high = got[Len(got)].seq
            BY <2>1 DEF HighMark, Last
        <3>2. a + Len(got) = b
            BY <1>1, <1>4, <1>8
        <3> QED
            BY <1>1, <1>3, <1>4, <1>6, <1>8, <2>1, <3>1, <3>2
    <2> HIDE DEF high
    <2>3. \A i \in 1..Len(got) : since < got[i].seq /\ got[i].seq <= high
        BY <1>1, <1>3, <1>4, <1>5, <1>6, <2>2
    <2>4. \A i, j \in 1..Len(got) : i < j => got[i].seq < got[j].seq
        <3>1. \A i \in 1..Len(got) : got[i].seq = next_seq - n + (a + i) - 1
            BY <1>4, <1>5, <1>6
        <3> TAKE i, j \in 1..Len(got)
        <3>2. i \in Int /\ j \in Int /\ next_seq - n + a \in Int
            BY <1>1, <1>4
        <3>3. got[i].seq = next_seq - n + (a + i) - 1 /\ got[j].seq = next_seq - n + (a + j) - 1
            BY <3>1
        <3> QED
            BY <1>1, <3>2, <3>3
    <2>5. ASSUME NEW j \in 1..n, since < Lines[j].seq, Lines[j].seq <= high
          PROVE  \E i \in 1..Len(got) : got[i] = Lines[j]
        <3>1. ~(j <= a)
            BY <1>1, <1>3, <2>5
        <3>2. j <= b
            BY <1>1, <1>5, <2>2, <2>5
        <3>3. j - a \in 1..Len(got) /\ a + (j - a) = j
            BY <1>1, <1>4, <3>1, <3>2
        <3> QED
            BY <1>4, <3>3
    <2>6. \A i \in 1..Len(got) : \E j \in 1..n : got[i] = Lines[j]
        BY <1>4, <1>6
    <2>7. since <= high
        BY <2>2
    <2>8. Carries(got, Lines, since, high)
        <3>1. \E j \in 1..n : high = Lines[j].seq
            BY <2>2
        <3> QED
            BY <1>4, <2>2, <2>3, <2>4, <2>5, <2>6, <2>7, <3>1, Zenon DEF Carries
    <2> QED
        BY <2>8 DEF high, got
<1> QED
    BY <1>3, <1>7, <1>8 DEF got

\* ------------------------------- The page -------------------------------
ShownLine == [boot : Nat, line : Line]
Page == [cursor : Nat, shown : Seq(ShownLine), boot : Nat, loads : Nat]
Request == [sent : {TRUE}, since : Nat]
Answer == [sent : {TRUE}, boot : Nat, lines : Seq(Line), high : Nat]
Whole(line) == line.text = TextCells(line.seq, Len(line.text))

PageTypes ==
    /\ page \in Page /\ boot \in Nat /\ page.boot <= boot
    /\ request = None \/ (request \in Request /\ request.since = page.cursor)
    /\ answer = None \/ answer \in Answer
    /\ request = None \/ answer = None

\* What is shown is in the order of the boots and, since no line is older than the
\* cursor was, of the numbers, even across boots.
Shown ==
    /\ \A i \in 1..Len(page.shown) :
          /\ page.shown[i].line.seq <= page.cursor
          /\ page.shown[i].boot <= boot
          /\ Whole(page.shown[i].line)
    /\ \A i, j \in 1..Len(page.shown) :
          i < j => /\ page.shown[i].boot <= page.shown[j].boot
                   /\ page.shown[i].line.seq < page.shown[j].line.seq

\* An answer on its way carries on where the page is.
Coming ==
    answer # None =>
        /\ page.cursor <= answer.high /\ answer.boot <= boot
        /\ \A i \in 1..Len(page.shown) : page.shown[i].boot <= answer.boot
        /\ \A i \in 1..Len(answer.lines) :
              /\ page.cursor < answer.lines[i].seq /\ answer.lines[i].seq <= answer.high
              /\ Whole(answer.lines[i])
        /\ \A i, j \in 1..Len(answer.lines) :
              i < j => answer.lines[i].seq < answer.lines[j].seq

\* What the ring holds up to the cursor has been shown; what it holds from there to
\* the cursor of an answer is in that answer.
Seen(j) == \E i \in 1..Len(page.shown) : page.shown[i] = [boot |-> boot, line |-> Lines[j]]
InAnswer(j) == \E i \in 1..Len(answer.lines) : answer.lines[i] = Lines[j]

Following ==
    page.boot = boot =>
        /\ page.cursor < next_seq
        /\ \A j \in 1..Len(Lines) : Lines[j].seq <= page.cursor => Seen(j)
        /\ answer # None =>
              /\ answer.boot = boot /\ answer.high < next_seq
              /\ \A j \in 1..Len(Lines) :
                    page.cursor < Lines[j].seq /\ Lines[j].seq <= answer.high => InAnswer(j)

PageInv == PageTypes /\ Shown /\ Coming /\ Following

LEMMA LinesFacts ==
    ASSUME RingInv
    PROVE  /\ Lines \in Seq(Line) /\ Len(Lines) \in Nat /\ next_seq \in Nat \ {0}
           /\ \A j \in 1..Len(Lines) :
                 /\ Lines[j] \in Line /\ Lines[j].seq \in Nat /\ Whole(Lines[j])
                 /\ 0 < Lines[j].seq /\ Lines[j].seq < next_seq
<1>1. /\ Lines \in Seq(Line) /\ Len(Lines) \in Nat /\ next_seq \in Nat \ {0}
      /\ Numbered(Lines, next_seq)
    BY DEF RingInv
<1>2. \A line \in Line : line.seq \in Nat
    BY DEF Line
<1>3. ASSUME NEW j \in 1..Len(Lines)
      PROVE  /\ Lines[j] \in Line /\ Lines[j].seq \in Nat /\ Whole(Lines[j])
             /\ 0 < Lines[j].seq /\ Lines[j].seq < next_seq
    <2>1. Lines[j] \in Line /\ Lines[j].seq \in Nat
        BY <1>1, <1>2
    <2>2. Lines[j].seq = next_seq - Len(Lines) + j - 1 /\ Len(Lines) < next_seq
        BY <1>1 DEF Numbered
    <2>3. Whole(Lines[j])
        BY <1>1 DEF Numbered, Whole
    <2> QED
        BY <1>1, <2>1, <2>2, <2>3
<1> QED
    BY <1>1, <1>3

LEMMA PageInit == Init => PageInv
<1> SUFFICES ASSUME Init PROVE PageInv
    OBVIOUS
<1>1. page = [cursor |-> 0, shown |-> <<>>, boot |-> 0, loads |-> 0] /\ page \in Page
    BY EmptySeq DEF Init, FreshPage, Page
<1>2. 1..Len(page.shown) = {}
    BY <1>1
<1>3. Lines = <<>> /\ 1..Len(Lines) = {}
    BY RingInit
<1>4. PageTypes
    BY <1>1 DEF Init, PageTypes
<1>5. Shown
    BY <1>2 DEF Shown
<1>6. Coming
    BY DEF Init, Coming
<1>7. Following
    BY <1>1, <1>3 DEF Init, Following
<1> QED
    BY <1>4, <1>5, <1>6, <1>7 DEF PageInv

LEMMA PageOnEnqueue ==
    ASSUME RingInv, PageInv, NEW len \in Lengths, Enqueue(len)
    PROVE  PageInv'
<1>1. UNCHANGED <<boot, request, answer, page>> /\ next_seq' = next_seq + 1
    BY DEF Enqueue
<1>2. PICK i \in 1..(Len(Lines) + 1) :
          Lines' = Append(SubSeq(Lines, i, Len(Lines)), NewLine(next_seq, len))
    BY EnqueueStep
<1>3. /\ Lines \in Seq(Line) /\ Len(Lines) \in Nat /\ next_seq \in Nat \ {0} /\ len \in Nat
    BY LinesFacts, Constants
<1>4. \A j \in 1..Len(Lines') :
         Lines'[j].seq = next_seq \/ \E k \in 1..Len(Lines) : Lines'[j] = Lines[k]
    <2> DEFINE rest == SubSeq(Lines, i, Len(Lines))
    <2>1. rest \in Seq(Line) /\ Len(rest) = Len(Lines) - i + 1
          /\ \A k \in 1..Len(rest) : rest[k] = Lines[i + k - 1]
        BY <1>3, SubSeqProperties
    <2>2. NewLine(next_seq, len) \in Line /\ NewLine(next_seq, len).seq = next_seq
        BY <1>3, NewLineIs
    <2> HIDE DEF rest
    <2>3. /\ Len(Lines') = Len(rest) + 1 /\ Lines'[Len(rest) + 1] = NewLine(next_seq, len)
          /\ \A k \in 1..Len(rest) : Lines'[k] = rest[k]
        BY <1>2, <2>1, <2>2, AppendProperties DEF rest
    <2> TAKE j \in 1..Len(Lines')
    <2>4. CASE j = Len(rest) + 1
        BY <2>2, <2>3, <2>4
    <2>5. CASE j # Len(rest) + 1
        <3>1. j \in 1..Len(rest) /\ i + j - 1 \in 1..Len(Lines)
            <4>1. Len(rest) \in Nat /\ i \in 1..(Len(Lines) + 1)
                BY <2>1
            <4>2. j \in 1..Len(rest)
                BY <2>3, <2>5, <4>1
            <4> QED
                BY <1>3, <2>1, <4>1, <4>2
        <3>2. Lines'[j] = Lines[i + j - 1]
            BY <2>1, <2>3, <3>1
        <3> QED
            BY <3>1, <3>2
    <2> QED
        BY <2>4, <2>5
<1>5. page \in Page /\ page.cursor \in Nat /\ (answer # None => answer.high \in Nat)
    BY DEF PageInv, PageTypes, Page, Answer
<1>6. Following'
    <2> SUFFICES ASSUME page.boot = boot
                 PROVE  /\ page.cursor < next_seq + 1
                        /\ \A j \in 1..Len(Lines') : Lines'[j].seq <= page.cursor => Seen(j)'
                        /\ answer # None =>
                              /\ answer.boot = boot /\ answer.high < next_seq + 1
                              /\ \A j \in 1..Len(Lines') :
                                    page.cursor < Lines'[j].seq /\ Lines'[j].seq <= answer.high
                                      => InAnswer(j)'
        BY <1>1 DEF Following
    <2>1. Following
        BY DEF PageInv
    <2>2. ASSUME NEW j \in 1..Len(Lines'), Lines'[j].seq <= page.cursor PROVE Seen(j)'
        <3>1. Lines'[j].seq # next_seq
            BY <1>3, <1>5, <2>1, <2>2 DEF Following
        <3>2. PICK k \in 1..Len(Lines) : Lines'[j] = Lines[k]
            BY <1>4, <3>1
        <3>3. Seen(k)
            BY <2>1, <2>2, <3>2 DEF Following
        <3> QED
            BY <1>1, <3>2, <3>3 DEF Seen
    <2>3. ASSUME answer # None, NEW j \in 1..Len(Lines'),
                 page.cursor < Lines'[j].seq, Lines'[j].seq <= answer.high
          PROVE  InAnswer(j)'
        <3>1. Lines'[j].seq # next_seq
            BY <1>3, <1>5, <2>1, <2>3 DEF Following
        <3>2. PICK k \in 1..Len(Lines) : Lines'[j] = Lines[k]
            BY <1>4, <3>1
        <3>3. InAnswer(k)
            BY <2>1, <2>3, <3>2 DEF Following
        <3> QED
            BY <1>1, <3>2, <3>3 DEF InAnswer
    <2> QED
        BY <1>3, <1>5, <2>1, <2>2, <2>3 DEF Following
<1> QED
    BY <1>1, <1>6 DEF PageInv, PageTypes, Shown, Coming

LEMMA PageOnServe ==
    ASSUME RingInv, PageInv, Serve
    PROVE  PageInv'
<1> DEFINE got == ReadSince(request.since)
           high == HighMark(got, request.since)
<1>1. /\ request \in Request /\ request.since = page.cursor /\ page.cursor \in Nat
      /\ page \in Page /\ boot \in Nat /\ page.boot <= boot
    BY DEF PageInv, PageTypes, Serve, Page
<1>2. /\ answer' = [sent |-> TRUE, boot |-> boot, lines |-> got, high |-> high]
      /\ request' = None /\ UNCHANGED <<ringVars, boot, page>>
    BY DEF Serve
<1>3. Carries(got, Lines, page.cursor, high)
    BY <1>1, AnswerIs
<1>4. Lines' = Lines /\ next_seq' = next_seq
    BY <1>2, RingKept DEF ringVars
<1> HIDE DEF got, high
<1>5. /\ answer'.boot = boot /\ answer'.lines = got /\ answer'.high = high /\ answer' # None
      /\ answer' \in Answer /\ got \in Seq(Line) /\ high \in Nat
    BY <1>1, <1>2, <1>3 DEF Carries, Answer, None
<1>6. PageTypes'
    BY <1>1, <1>2, <1>5 DEF PageTypes
<1>7. Shown'
    BY <1>2 DEF PageInv, Shown
<1>8. Coming'
    <2>1. /\ page.cursor <= high
          /\ \A i \in 1..Len(got) : page.cursor < got[i].seq /\ got[i].seq <= high
          /\ \A i, j \in 1..Len(got) : i < j => got[i].seq < got[j].seq
        BY <1>3 DEF Carries
    <2>2. \A i \in 1..Len(got) : Whole(got[i])
        BY <1>3, LinesFacts DEF Carries
    <2>3. \A i \in 1..Len(page.shown) : page.shown[i].boot <= boot
        BY DEF PageInv, Shown
    <2>4. boot <= boot
        BY <1>1
    <2> QED
        BY <1>2, <1>5, <2>1, <2>2, <2>3, <2>4 DEF Coming
<1>9. Following'
    <2> SUFFICES ASSUME page.boot = boot PROVE Following'
        BY <1>2 DEF Following
    <2>1. Following
        BY DEF PageInv
    <2>2. high < next_seq
        <3>1. high = page.cursor \/ \E j \in 1..Len(Lines) : high = Lines[j].seq
            BY <1>3 DEF Carries
        <3> QED
            BY <2>1, <3>1, LinesFacts DEF Following
    <2>3. \A j \in 1..Len(Lines) : Lines[j].seq <= page.cursor => Seen(j)'
        BY <1>2, <1>4, <2>1 DEF Following, Seen
    <2>4. \A j \in 1..Len(Lines) :
             page.cursor < Lines[j].seq /\ Lines[j].seq <= high => InAnswer(j)'
        BY <1>3, <1>4, <1>5 DEF Carries, InAnswer
    <2> QED
        BY <1>2, <1>4, <1>5, <2>1, <2>2, <2>3, <2>4 DEF Following
<1> QED
    BY <1>6, <1>7, <1>8, <1>9 DEF PageInv

\* The lines of an answer are shown behind those that are shown already.
LEMMA ShowIs ==
    ASSUME PageInv, Show
    PROVE  /\ page' \in Page /\ page'.cursor = answer.high
           /\ page'.boot = page.boot /\ answer \in Answer
           /\ Len(page.shown) \in Nat /\ Len(answer.lines) \in Nat
           /\ Len(page'.shown) = Len(page.shown) + Len(answer.lines)
           /\ \A i \in 1..Len(page.shown) : page'.shown[i] = page.shown[i]
           /\ \A i \in 1..Len(answer.lines) :
                 page'.shown[Len(page.shown) + i] = [boot |-> answer.boot, line |-> answer.lines[i]]
<1> DEFINE new == [i \in 1..Len(answer.lines) |-> [boot |-> answer.boot, line |-> answer.lines[i]]]
<1>1. /\ answer \in Answer /\ page \in Page /\ page.shown \in Seq(ShownLine)
      /\ answer.lines \in Seq(Line) /\ answer.boot \in Nat /\ answer.high \in Nat
    BY DEF Show, PageInv, PageTypes, Answer, Page
<1>2. /\ DOMAIN answer.lines = 1..Len(answer.lines) /\ Len(answer.lines) \in Nat
      /\ Len(page.shown) \in Nat
    BY <1>1, LenProperties
<1>3. new \in Seq(ShownLine) /\ Len(new) = Len(answer.lines)
    <2>1. \A i \in 1..Len(answer.lines) : answer.lines[i] \in Line
        BY <1>1, <1>2, ElementOfSeq
    <2>2. \A i \in 1..Len(answer.lines) :
             [boot |-> answer.boot, line |-> answer.lines[i]] \in ShownLine
        BY <1>1, <2>1 DEF ShownLine
    <2>3. new \in [1..Len(answer.lines) -> ShownLine]
        BY <2>2
    <2> HIDE DEF new
    <2>4. new \in Seq(ShownLine)
        BY <1>2, <2>3
    <2>5. DOMAIN new = 1..Len(answer.lines)
        BY <2>3
    <2> QED
        BY <1>2, <2>4, <2>5, LenProperties
<1>4. page' = [page EXCEPT !.cursor = answer.high, !.shown = page.shown \o new]
    BY <1>2 DEF Show
<1>5. \A i \in 1..Len(answer.lines) : new[i] = [boot |-> answer.boot, line |-> answer.lines[i]]
    OBVIOUS
<1> HIDE DEF new
<1>6. /\ page.shown \o new \in Seq(ShownLine)
      /\ Len(page.shown \o new) = Len(page.shown) + Len(new)
      /\ \A i \in 1..(Len(page.shown) + Len(new)) : (page.shown \o new)[i] =
            IF i <= Len(page.shown) THEN page.shown[i] ELSE new[i - Len(page.shown)]
    BY <1>1, <1>3, ConcatProperties
<1>7. page' \in Page /\ page'.cursor = answer.high /\ page'.boot = page.boot
      /\ page'.shown = page.shown \o new
    BY <1>1, <1>4, <1>6 DEF Page
<1>8. ASSUME NEW i \in 1..Len(page.shown) PROVE page'.shown[i] = page.shown[i]
    BY <1>2, <1>3, <1>6, <1>7
<1>9. ASSUME NEW i \in 1..Len(answer.lines)
      PROVE  page'.shown[Len(page.shown) + i] = [boot |-> answer.boot, line |-> answer.lines[i]]
    <2>1. Len(page.shown) \in Nat /\ Len(new) \in Nat /\ i \in 1..Len(new)
        BY <1>2, <1>3
    <2> DEFINE k == Len(page.shown) + i
    <2>2. /\ k \in 1..(Len(page.shown) + Len(new))
          /\ ~(k <= Len(page.shown)) /\ k - Len(page.shown) = i
        BY <2>1
    <2> HIDE DEF k
    <2>3. (page.shown \o new)[k] = new[i]
        BY <1>6, <2>2
    <2> QED
        BY <1>5, <1>7, <2>3 DEF k
<1> QED
    BY <1>1, <1>2, <1>3, <1>6, <1>7, <1>8, <1>9

LEMMA PageOnShow ==
    ASSUME RingInv, PageInv, Show
    PROVE  PageInv'
<1> DEFINE n == Len(page.shown)
           m == Len(answer.lines)
<1>1. /\ page' \in Page /\ page'.cursor = answer.high /\ page'.boot = page.boot
      /\ answer \in Answer /\ n \in Nat /\ m \in Nat /\ Len(page'.shown) = n + m
      /\ \A i \in 1..n : page'.shown[i] = page.shown[i]
      /\ \A i \in 1..m : page'.shown[n + i] = [boot |-> answer.boot, line |-> answer.lines[i]]
    BY ShowIs
<1>2. /\ answer # None /\ answer' = None /\ request' = request /\ boot' = boot
      /\ UNCHANGED ringVars /\ request = None
      /\ page \in Page /\ page.cursor \in Nat /\ boot \in Nat /\ page.boot <= boot
      /\ answer.high \in Nat /\ answer.boot \in Nat
      /\ \A i \in 1..n : page.shown[i] \in ShownLine /\ page.shown[i].line.seq \in Nat
                         /\ page.shown[i].boot \in Nat
      /\ \A i \in 1..m : answer.lines[i] \in Line /\ answer.lines[i].seq \in Nat
    <2>1. /\ answer # None /\ answer' = None /\ request' = request /\ boot' = boot
          /\ UNCHANGED ringVars /\ request = None
        BY DEF Show, PageInv, PageTypes
    <2>2. /\ page \in Page /\ page.cursor \in Nat /\ boot \in Nat /\ page.boot <= boot
          /\ answer.high \in Nat /\ answer.boot \in Nat
        BY <1>1 DEF PageInv, PageTypes, Page, Answer
    <2>3. page.shown \in Seq(ShownLine) /\ answer.lines \in Seq(Line)
        BY <1>1, <2>2 DEF Page, Answer
    <2>4. \A i \in 1..n : page.shown[i] \in ShownLine
        BY <2>3, ElementOfSeq
    <2>5. \A i \in 1..m : answer.lines[i] \in Line
        BY <2>3, ElementOfSeq
    <2> QED
        BY <2>1, <2>2, <2>4, <2>5 DEF ShownLine, Line
<1>3. Lines' = Lines /\ next_seq' = next_seq
    BY <1>2, RingKept DEF ringVars
<1>4. /\ page.cursor <= answer.high /\ answer.boot <= boot
      /\ \A i \in 1..n : page.shown[i].boot <= answer.boot
      /\ \A i \in 1..m : /\ page.cursor < answer.lines[i].seq
                         /\ answer.lines[i].seq <= answer.high
                         /\ Whole(answer.lines[i])
      /\ \A i, j \in 1..m : i < j => answer.lines[i].seq < answer.lines[j].seq
    BY <1>2 DEF PageInv, Coming
<1>5. /\ \A i \in 1..n : /\ page.shown[i].line.seq <= page.cursor
                         /\ page.shown[i].boot <= boot
                         /\ Whole(page.shown[i].line)
      /\ \A i, j \in 1..n :
            i < j => /\ page.shown[i].boot <= page.shown[j].boot
                     /\ page.shown[i].line.seq < page.shown[j].line.seq
    BY DEF PageInv, Shown
<1> HIDE DEF n, m
<1>6. ASSUME NEW i \in 1..(n + m)
      PROVE  \/ i \in 1..n
             \/ \E k \in 1..m : i = n + k
    <2>1. i \in 1..n \/ i - n \in 1..m
        BY <1>1
    <2> QED
        BY <1>1, <2>1
<1>7. ASSUME NEW k \in 1..m, NEW i, i = n + k
       PROVE  page'.shown[i].line = answer.lines[k] /\ page'.shown[i].boot = answer.boot
    <2>1. page'.shown[n + k] = [boot |-> answer.boot, line |-> answer.lines[k]]
        BY <1>1
    <2> QED
        BY <1>7, <2>1
<1>8. PageTypes'
    BY <1>1, <1>2 DEF PageTypes
<1>9. Shown'
    <2>1. ASSUME NEW i \in 1..(n + m)
          PROVE  /\ page'.shown[i].line.seq <= answer.high
                 /\ page'.shown[i].boot <= boot
                 /\ Whole(page'.shown[i].line)
        <3>1. CASE i \in 1..n
            <4>1. page'.shown[i] = page.shown[i] /\ page.shown[i].line.seq \in Nat
                BY <1>1, <1>2, <3>1 DEF n
            <4>2. /\ page.shown[i].line.seq <= page.cursor /\ page.shown[i].boot <= boot
                  /\ Whole(page.shown[i].line)
                BY <1>5, <3>1
            <4>3. page.shown[i].line.seq <= answer.high
                BY <1>2, <1>4, <4>1, <4>2
            <4> QED
                BY <4>1, <4>2, <4>3
        <3>2. ASSUME NEW k \in 1..m, i = n + k
              PROVE  /\ page'.shown[i].line.seq <= answer.high
                     /\ page'.shown[i].boot <= boot
                     /\ Whole(page'.shown[i].line)
            <4>1. page'.shown[i].line = answer.lines[k] /\ page'.shown[i].boot = answer.boot
                BY <3>2, <1>7
            <4> QED
                BY <1>4, <4>1
        <3> QED
            BY <1>6, <3>1, <3>2
    <2>2. ASSUME NEW i \in 1..(n + m), NEW j \in 1..(n + m), i < j
          PROVE  /\ page'.shown[i].boot <= page'.shown[j].boot
                 /\ page'.shown[i].line.seq < page'.shown[j].line.seq
        <3>1. CASE i \in 1..n /\ j \in 1..n
            BY <1>1, <1>5, <2>2, <3>1
        <3>2. ASSUME i \in 1..n, NEW k \in 1..m, j = n + k
              PROVE  /\ page'.shown[i].boot <= page'.shown[j].boot
                     /\ page'.shown[i].line.seq < page'.shown[j].line.seq
            <4>1. /\ page'.shown[j].line = answer.lines[k] /\ page'.shown[j].boot = answer.boot
                  /\ page'.shown[i] = page.shown[i]
                BY <1>1, <1>7, <3>2
            <4>2. /\ page.shown[i].line.seq <= page.cursor
                  /\ page.cursor < answer.lines[k].seq /\ page.shown[i].boot <= answer.boot
                BY <1>4, <1>5, <3>2
            <4>3. page.shown[i].line.seq \in Nat /\ answer.lines[k].seq \in Nat
                BY <1>2, <3>2 DEF n, m
            <4>4. page.shown[i].line.seq < answer.lines[k].seq
                BY <1>2, <4>2, <4>3
            <4> QED
                BY <4>1, <4>2, <4>4
        <3>3. ASSUME NEW k \in 1..m, i = n + k, NEW l \in 1..m, j = n + l
              PROVE  /\ page'.shown[i].boot <= page'.shown[j].boot
                     /\ page'.shown[i].line.seq < page'.shown[j].line.seq
            <4>1. /\ page'.shown[i].line = answer.lines[k] /\ page'.shown[i].boot = answer.boot
                  /\ page'.shown[j].line = answer.lines[l] /\ page'.shown[j].boot = answer.boot
                BY <1>7, <3>3
            <4>2. k < l
                BY <1>1, <2>2, <3>3
            <4> QED
                BY <1>2, <1>4, <4>1, <4>2
        <3>4. ~(\E k \in 1..m : i = n + k) \/ ~(j \in 1..n)
            BY <1>1, <2>2
        <3> QED
            BY <1>6, <3>1, <3>2, <3>3, <3>4
    <2> QED
        BY <1>1, <1>2, <2>1, <2>2 DEF Shown
<1>10. Coming'
    BY <1>2 DEF Coming
<1>11. Following'
    <2> SUFFICES ASSUME page.boot = boot
                 PROVE  /\ answer.high < next_seq
                        /\ \A j \in 1..Len(Lines) : Lines[j].seq <= answer.high => Seen(j)'
        BY <1>1, <1>2, <1>3 DEF Following
    <2>1. /\ answer.boot = boot /\ answer.high < next_seq
          /\ \A j \in 1..Len(Lines) : Lines[j].seq <= page.cursor => Seen(j)
          /\ \A j \in 1..Len(Lines) :
                page.cursor < Lines[j].seq /\ Lines[j].seq <= answer.high => InAnswer(j)
        BY <1>2 DEF PageInv, Following
    <2>2. ASSUME NEW j \in 1..Len(Lines), Seen(j) PROVE Seen(j)'
        <3>1. PICK i \in 1..n : page.shown[i] = [boot |-> boot, line |-> Lines[j]]
            BY <2>2 DEF Seen, n
        <3>2. i \in 1..(n + m) /\ page'.shown[i] = page.shown[i]
            BY <1>1
        <3> QED
            BY <1>1, <1>2, <1>3, <3>1, <3>2 DEF Seen
    <2>3. ASSUME NEW j \in 1..Len(Lines), InAnswer(j) PROVE Seen(j)'
        <3>1. PICK i \in 1..m : answer.lines[i] = Lines[j]
            BY <2>3 DEF InAnswer, m
        <3>2. n + i \in 1..(n + m) /\ page'.shown[n + i] = [boot |-> boot, line |-> Lines[j]]
            BY <1>1, <2>1, <3>1
        <3> QED
            BY <1>1, <1>2, <1>3, <3>2 DEF Seen
    <2>4. \A j \in 1..Len(Lines) : Lines[j].seq \in Nat
        BY LinesFacts
    <2>5. ASSUME NEW j \in 1..Len(Lines), Lines[j].seq <= answer.high PROVE Seen(j)'
        <3>1. Lines[j].seq <= page.cursor \/ page.cursor < Lines[j].seq
            BY <1>2, <2>4
        <3> QED
            BY <2>1, <2>2, <2>3, <2>5, <3>1
    <2> QED
        BY <2>1, <2>5
<1> QED
    BY <1>8, <1>9, <1>10, <1>11 DEF PageInv

\* A new poll, a lost one, a page loaded again, a restart of the device.
LEMMA PageOnAbort ==
    ASSUME RingInv, PageInv, Ask \/ Lose
    PROVE  PageInv'
<1>1. /\ answer' = None /\ UNCHANGED <<ringVars, boot, page>>
      /\ request' = None \/ request' = [sent |-> TRUE, since |-> page.cursor]
    BY DEF Ask, Lose
<1>2. Lines' = Lines /\ next_seq' = next_seq
    BY <1>1, RingKept DEF ringVars
<1>3. page.cursor \in Nat
    BY DEF PageInv, PageTypes, Page
<1>4. PageTypes'
    <2> DEFINE new == [sent |-> TRUE, since |-> page.cursor]
    <2>1. new \in Request /\ new.since = page.cursor
        BY <1>3 DEF Request
    <2>2. request' = None \/ request' = new
        BY <1>1
    <2> HIDE DEF new
    <2>3. request' = None \/ (request' \in Request /\ request'.since = page.cursor)
        BY <2>1, <2>2
    <2> QED
        BY <1>1, <2>3 DEF PageInv, PageTypes
<1>5. Shown' /\ Coming'
    BY <1>1 DEF PageInv, Shown, Coming
<1>6. Following'
    <2>1. \A j \in 1..Len(Lines) : Seen(j)' <=> Seen(j)
        BY <1>1, <1>2 DEF Seen
    <2> QED
        BY <1>1, <1>2, <2>1 DEF PageInv, Following
<1> QED
    BY <1>4, <1>5, <1>6 DEF PageInv

LEMMA PageOnReload ==
    ASSUME RingInv, PageInv, Reload
    PROVE  PageInv'
<1>1. /\ page' = FreshPage(boot, page.loads + 1) /\ request' = None /\ answer' = None
      /\ UNCHANGED <<ringVars, boot>>
    BY DEF Reload
<1>2. /\ boot \in Nat /\ page.loads \in Nat
    BY DEF PageInv, PageTypes, Page
<1>3. /\ page' \in Page /\ page'.cursor = 0 /\ page'.boot = boot /\ page'.shown = <<>>
      /\ 1..Len(page'.shown) = {}
    BY <1>1, <1>2, EmptySeq DEF FreshPage, Page
<1>4. Lines' = Lines /\ next_seq' = next_seq
    BY <1>1, RingKept DEF ringVars
<1>5. PageTypes'
    BY <1>1, <1>2, <1>3 DEF PageTypes
<1>6. Shown'
    BY <1>3 DEF Shown
<1>7. Coming'
    BY <1>1 DEF Coming
<1>8. Following'
    <2>1. next_seq > 0 /\ \A j \in 1..Len(Lines) : ~(Lines[j].seq <= 0)
        BY LinesFacts
    <2> QED
        BY <1>1, <1>3, <1>4, <2>1 DEF Following
<1> QED
    BY <1>5, <1>6, <1>7, <1>8 DEF PageInv

LEMMA PageOnReboot ==
    ASSUME RingInv, PageInv, Reboot
    PROVE  PageInv'
<1>1. boot' = boot + 1 /\ request' = None /\ UNCHANGED <<answer, page>>
    BY DEF Reboot
<1>2. boot \in Nat /\ page.boot <= boot /\ page \in Page /\ page.boot \in Nat
    BY DEF PageInv, PageTypes, Page
<1>3. PageTypes'
    BY <1>1, <1>2 DEF PageInv, PageTypes
<1>4. \A b \in Nat : b <= boot => b <= boot'
    BY <1>1, <1>2
<1>5. Shown'
    <2>1. \A i \in 1..Len(page.shown) : page.shown[i].boot \in Nat
        <3>1. page.shown \in Seq(ShownLine)
            BY <1>2 DEF Page
        <3>2. \A i \in 1..Len(page.shown) : page.shown[i] \in ShownLine
            BY <3>1, ElementOfSeq
        <3> QED
            BY <3>2 DEF ShownLine
    <2> QED
        BY <1>1, <1>4, <2>1 DEF PageInv, Shown
<1>6. Coming'
    <2>1. answer # None => answer.boot \in Nat
        BY DEF PageInv, PageTypes, Answer
    <2> QED
        BY <1>1, <1>4, <2>1 DEF PageInv, Coming
<1>7. Following'
    <2>1. page'.boot # boot'
        BY <1>1, <1>2
    <2> QED
        BY <2>1 DEF Following
<1> QED
    BY <1>3, <1>5, <1>6, <1>7 DEF PageInv

LEMMA PageStep == RingInv /\ PageInv /\ [Next]_vars => PageInv'
<1> SUFFICES ASSUME RingInv, PageInv, [Next]_vars PROVE PageInv'
    OBVIOUS
<1>1. ASSUME NEW len \in Lengths, Enqueue(len) PROVE PageInv'
    BY <1>1, PageOnEnqueue
<1>2. CASE Serve
    BY <1>2, PageOnServe
<1>3. CASE Show
    BY <1>3, PageOnShow
<1>4. CASE Poll \/ Submit \/ Lose
    BY <1>4, PageOnAbort DEF Poll, Submit
<1>5. CASE Reload
    BY <1>5, PageOnReload
<1>6. CASE Reboot
    BY <1>6, PageOnReboot
<1>7. CASE Scroll \/ UNCHANGED vars
    <2>1. UNCHANGED <<ringVars, boot, request, answer, page>>
        BY <1>7 DEF Scroll, vars, ringVars
    <2>2. Lines' = Lines /\ next_seq' = next_seq
        BY <2>1, RingKept DEF ringVars
    <2>3. \A j \in 1..Len(Lines) : (Seen(j)' <=> Seen(j)) /\ (InAnswer(j)' <=> InAnswer(j))
        BY <2>1, <2>2 DEF Seen, InAnswer
    <2>4. Following'
        BY <2>1, <2>2, <2>3 DEF PageInv, Following
    <2> QED
        BY <2>1, <2>4 DEF PageInv, PageTypes, Shown, Coming
<1> QED
    BY <1>1, <1>2, <1>3, <1>4, <1>5, <1>6, <1>7 DEF Next

\* Between the ring and the page, whatever is aborted, lost or delayed and however
\* often either starts again.
THEOREM PageInvariant == Spec => []PageInv
<1>1. Spec => []RingInv
    BY RingInvariant
<1> QED
    BY <1>1, PageInit, PageStep, PTL DEF Spec

\* ------------------------------ Types ------------------------------
\* What the bounds of the model leave: no number is past MaxLines.
Bounded ==
    /\ ring \in [Cells -> Cell]
    /\ next_seq \in 1..(MaxLines + 1)
    /\ boot \in 0..MaxBoots
    /\ page.cursor \in 0..MaxLines
    /\ answer # None => answer.high \in 0..MaxLines

LEMMA BoundedInit == Init => Bounded
    BY Constants DEF Init, Bounded, Blank, Zero, Cell, FreshPage

LEMMA PutTyped ==
    ASSUME NEW at \in Cells, NEW src \in Seq(Cell), ring \in [Cells -> Cell]
    PROVE  RingPut(ring, at, src) \in [Cells -> Cell]
<1> SUFFICES ASSUME NEW i \in Cells
             PROVE  (LET k == (i + RingSize - at) % RingSize
                     IN  IF k < Len(src) THEN src[k + 1] ELSE ring[i]) \in Cell
    BY DEF RingPut
<1> DEFINE k == (i + RingSize - at) % RingSize
<1>1. k \in Nat
    <2>1. i + RingSize - at \in Nat /\ RingSize \in Nat \ {0}
        BY Constants DEF Cells
    <2> QED
        BY <2>1
<1> HIDE DEF k
<1>2. CASE k < Len(src)
    <2>1. k + 1 \in 1..Len(src)
        BY <1>1, <1>2
    <2> QED
        BY <1>2, <2>1, ElementOfSeq DEF k
<1>3. CASE ~(k < Len(src))
    BY <1>3 DEF k
<1> QED
    BY <1>2, <1>3

LEMMA BoundedStep == RingInv /\ PageInv /\ Bounded /\ [Next]_vars => Bounded'
<1> SUFFICES ASSUME RingInv, PageInv, Bounded, [Next]_vars PROVE Bounded'
    OBVIOUS
<1>1. ASSUME NEW len \in Lengths, Enqueue(len) PROVE Bounded'
    <2>1. UNCHANGED <<boot, answer, page>> /\ next_seq' = next_seq + 1 /\ next_seq <= MaxLines
        BY <1>1 DEF Enqueue
    <2>2. len \in Nat /\ next_seq \in Nat /\ MaxLines \in Nat
        BY Constants DEF Bounded
    <2>3. HeaderCells(next_seq, len) \o TextCells(next_seq, len) \in Seq(Cell)
        <3>1. /\ NewLine(next_seq, len) \in Line
              /\ Image(NewLine(next_seq, len)) = HeaderCells(next_seq, len) \o TextCells(next_seq, len)
            BY <2>2, NewLineIs
        <3> QED
            BY <3>1, ImageIs
    <2>4. PICK at \in Cells :
              ring' = RingPut(ring, at, HeaderCells(next_seq, len) \o TextCells(next_seq, len))
        BY <1>1, EnqueuePuts
    <2>5. ring' \in [Cells -> Cell]
        BY <2>3, <2>4, PutTyped DEF Bounded
    <2>6. next_seq' \in 1..(MaxLines + 1)
        BY <2>1, <2>2 DEF Bounded
    <2> QED
        BY <2>1, <2>5, <2>6 DEF Bounded
<1>2. CASE Serve
    <2>1. UNCHANGED <<ring, next_seq, boot, page>>
        BY <1>2 DEF Serve, ringVars
    <2> DEFINE high == HighMark(ReadSince(request.since), request.since)
    <2>2. request.since = page.cursor /\ page.cursor \in Nat /\ answer'.high = high
        BY <1>2 DEF Serve, PageInv, PageTypes, Page
    <2>3. Carries(ReadSince(request.since), Lines, page.cursor, high)
        BY <2>2, AnswerIs
    <2> HIDE DEF high
    <2>4. high \in 0..MaxLines
        <3>1. high = page.cursor \/ \E j \in 1..Len(Lines) : high = Lines[j].seq
            BY <2>3 DEF Carries
        <3> QED
            BY <3>1, LinesFacts, Constants DEF Bounded
    <2> QED
        BY <2>1, <2>2, <2>4 DEF Bounded
<1>3. CASE Show
    <2>1. UNCHANGED <<ring, next_seq, boot>> /\ answer' = None /\ answer # None
        BY <1>3 DEF Show, ringVars
    <2>2. page'.cursor = answer.high
        BY <1>3, ShowIs
    <2> QED
        BY <2>1, <2>2 DEF Bounded
<1>4. CASE Poll \/ Submit \/ Lose
    BY <1>4 DEF Poll, Submit, Ask, Lose, ringVars, Bounded
<1>5. CASE Reload
    BY <1>5, Constants DEF Reload, ringVars, FreshPage, Bounded
<1>6. CASE Reboot
    <2>1. ring' \in [Cells -> Cell]
        BY <1>6 DEF Reboot, Blank, Zero, Cell
    <2>2. boot' \in 0..MaxBoots /\ next_seq' \in 1..(MaxLines + 1)
        BY <1>6, Constants DEF Reboot, Bounded
    <2> QED
        BY <1>6, <2>1, <2>2 DEF Reboot, Bounded
<1>7. CASE Scroll \/ UNCHANGED vars
    BY <1>7 DEF Scroll, vars, ringVars, Bounded
<1> QED
    BY <1>1, <1>2, <1>3, <1>4, <1>5, <1>6, <1>7 DEF Next

ScrollTyped == scrolled \in BOOLEAN

LEMMA ScrollStep == ScrollTyped /\ [Next]_vars => ScrollTyped'
    BY Zenon DEF ScrollTyped, Next, Enqueue, Serve, Poll, Submit, Ask, Scroll, Show, Lose, Reload, Reboot, vars

\* The ring's arithmetic (log_backend_web.c:60-164): head is where the used cells end,
\* and the lines that can be read fill exactly the used cells.
THEOREM WebConsoleTypes == Spec => []TypeOK
<1>1. RingInv /\ Bounded /\ ScrollTyped => TypeOK
    <2> SUFFICES ASSUME RingInv, Bounded, ScrollTyped PROVE TypeOK
        OBVIOUS
    <2>1. PICK mark : Marks(Lines, used, mark)
        BY DEF RingInv, Holds
    <2>2. Lines \in Seq(Line) /\ used \in Nat
        BY Constants DEF RingInv
    <2>3. used = Log!Size(Lines)
        BY <2>1, <2>2, SizeIs
    <2> QED
        BY <2>3 DEF RingInv, Bounded, ScrollTyped, TypeOK
<1>2. Spec => []Bounded
    BY BoundedInit, BoundedStep, RingInvariant, PageInvariant, PTL DEF Spec
<1>3. Spec => []ScrollTyped
    <2>1. Init => ScrollTyped
        BY DEF Init, ScrollTyped
    <2> QED
        BY <2>1, ScrollStep, PTL DEF Spec
<1> QED
    BY <1>1, <1>2, <1>3, RingInvariant, PTL

\* The page shows the lines of a boot once each, in order and whole (cs_handler and
\* the page's script, web_ui.cpp:517-588): the numbers it shows only ever rise.
THEOREM LinesShownOnce == Spec => []ShownOnceInOrder
<1>1. PageInv => ShownOnceInOrder
    <2> SUFFICES ASSUME PageInv PROVE ShownOnceInOrder
        OBVIOUS
    <2>1. page \in Page /\ page.shown \in Seq(ShownLine)
        BY DEF PageInv, PageTypes, Page
    <2>2. DOMAIN page.shown = 1..Len(page.shown)
        BY <2>1, LenProperties
    <2>3. \A i \in 1..Len(page.shown) : page.shown[i] \in ShownLine
        BY <2>1, ElementOfSeq
    <2>4. \A i \in 1..Len(page.shown) : page.shown[i].boot \in Nat
        BY <2>3 DEF ShownLine
    <2>5. ASSUME NEW i \in DOMAIN page.shown, NEW j \in DOMAIN page.shown, i < j
          PROVE  \/ page.shown[i].boot < page.shown[j].boot
                 \/ /\ page.shown[i].boot = page.shown[j].boot
                    /\ page.shown[i].line.seq < page.shown[j].line.seq
        <3>1. /\ page.shown[i].boot <= page.shown[j].boot
              /\ page.shown[i].line.seq < page.shown[j].line.seq
            BY <2>2, <2>5 DEF PageInv, Shown
        <3> QED
            BY <2>2, <2>4, <3>1
    <2>6. ASSUME NEW i \in DOMAIN page.shown
          PROVE  LET line == page.shown[i].line
                 IN  line.text = TextCells(line.seq, Len(line.text))
        BY <2>2 DEF PageInv, Shown, Whole
    <2> QED
        BY <2>5, <2>6 DEF ShownOnceInOrder
<1> QED
    BY <1>1, PageInvariant, PTL

\* A page of this boot never moves its cursor past a line it has not shown and the
\* ring still holds (web_log_read_since leaves out_seq at the last line it copied,
\* log_backend_web.c:254-286).
THEOREM CursorIsSafe == Spec => []CursorSkipsNothing
<1>1. RingInv /\ PageInv => CursorSkipsNothing
    <2> SUFFICES ASSUME RingInv, PageInv PROVE CursorSkipsNothing
        OBVIOUS
    <2>1. page.shown \in Seq(ShownLine) /\ Lines \in Seq(Line)
        BY LinesFacts DEF PageInv, PageTypes, Page
    <2>2. DOMAIN page.shown = 1..Len(page.shown) /\ DOMAIN Lines = 1..Len(Lines)
        BY <2>1, LenProperties
    <2> QED
        BY <2>2 DEF PageInv, Following, Seen, CursorSkipsNothing
<1> QED
    BY <1>1, RingInvariant, PageInvariant, PTL
=============================================================================
