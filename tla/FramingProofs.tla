--------------------------- MODULE FramingProofs ---------------------------
(***************************************************************************)
(* What satellites send is received, a frame that is cut off is refused    *)
(* and a burst is caught, for packets of any content and length, any CRC   *)
(* whose polynomial ends in 1, any preamble and scrambler content.         *)
(*                                                                         *)
(* The loops of receiver and satellite compute different things in         *)
(* different ways.  For each pair it is proved what the satellite's code   *)
(* is (bit i of the output from the input) and that the receiver's undoes  *)
(* it: PN9, the CRC register as long division, the line codes, and the     *)
(* stuffing with the positions the bits of a frame have on the line.  The  *)
(* unstuffer is followed along these positions.                            *)
(***************************************************************************)
EXTENDS Framing, SequenceTheorems, FiniteSetTheorems, InductionProofs

\* -------------------------------- Loops --------------------------------
\* The values a g runs through, each in the set that J gives for it.
Kept(g, start, n, J) ==
    start \in J[0] /\ \A k \in 0..(n - 1) : \A s \in J[k] : g[k + 1][s] \in J[k + 1]

IsTrace(p, g, start, n, J) ==
    /\ p[0] = start /\ p[n] = Iterated(g, start, n)
    /\ \A k \in 0..n : p[k] \in J[k]
    /\ \A k \in 0..(n - 1) : p[k + 1] = g[k + 1][p[k]]

\* What every pass of a loop keeps holds at its end.
LEMMA Trace ==
    ASSUME NEW g, NEW start, NEW n \in Nat, NEW J, Kept(g, start, n, J)
    PROVE  Iterated(g, start, n) \in J[n] /\ \E p : IsTrace(p, g, start, n, J)
<1> DEFINE body(q) == [k \in 0..n |-> IF k = 0 THEN start ELSE g[k][q[k - 1]]]
           pass == CHOOSE q : q = body(q)
           D == UNION {J[k] : k \in 0..n}
           h == [k \in 1..n |-> [d \in D |-> IF d \in J[k - 1] THEN g[k][d] ELSE start]]
<1>1. \E q : q = body(q)
    <2>1. start \in D
        BY DEF Kept
    <2>2. h \in Steps(n, D)
        <3>1. ASSUME NEW k \in 1..n, NEW d \in J[k - 1] PROVE g[k][d] \in D
            <4>1. k - 1 \in 0..(n - 1) /\ (k - 1) + 1 = k /\ k \in 0..n
                OBVIOUS
            <4> QED
                BY <3>1, <4>1 DEF Kept
        <3> QED
            BY <2>1, <3>1 DEF Steps
    <2>3. \A k \in 1..n : \A d \in J[k - 1] : h[k][d] = g[k][d]
        <3> TAKE k \in 1..n
        <3>1. k - 1 \in 0..n
            OBVIOUS
        <3> QED
            BY <3>1
    <2> HIDE DEF h, D
    <2>4. PICK q \in [0..n -> D] :
              \A k \in 0..n : q[k] = IF k = 0 THEN start ELSE h[k][q[k - 1]]
        BY <2>1, <2>2, Recursion
    <2> DEFINE S == {k \in Nat : q[k] \in J[k]}
    <2>5. 0 \in S
        BY <2>4 DEF Kept
    <2>6. \A k \in 0..(n - 1) : k \in S => k + 1 \in S
        <3> SUFFICES ASSUME NEW k \in 0..(n - 1), k \in S PROVE q[k + 1] \in J[k + 1]
            OBVIOUS
        <3>1. k + 1 \in 1..n /\ k + 1 \in 0..n /\ (k + 1) - 1 = k /\ q[k] \in J[k]
            OBVIOUS
        <3>2. q[k + 1] = h[k + 1][q[k]]
            BY <2>4, <3>1
        <3>3. q[k + 1] = g[k + 1][q[k]]
            BY <2>3, <3>1, <3>2
        <3> QED
            BY <3>1, <3>3 DEF Kept
    <2>7. \A k \in 0..n : k \in S
        <3> HIDE DEF S
        <3> QED
            BY <2>5, <2>6, UpTo
    <2>8. \A k \in 0..n : q[k] = IF k = 0 THEN start ELSE g[k][q[k - 1]]
        BY <2>3, <2>4, <2>7
    <2> QED
        BY <2>4, <2>8
<1>2. pass = body(pass)
    BY <1>1, Zenon
<1>3. pass[n] = Iterated(g, start, n)
    BY DEF Iterated
<1> HIDE DEF pass
<1>4. pass[0] = start /\ \A k \in 0..(n - 1) : pass[k + 1] = g[k + 1][pass[k]]
    <2>1. \A k \in 0..(n - 1) : k + 1 \in 0..n /\ k + 1 # 0 /\ (k + 1) - 1 = k
        OBVIOUS
    <2> QED
        BY <1>2, <2>1
<1>5. \A k \in 0..n : pass[k] \in J[k]
    <2> DEFINE S == {k \in Nat : pass[k] \in J[k]}
    <2>1. 0 \in S /\ \A k \in 0..(n - 1) : k \in S => k + 1 \in S
        BY <1>4 DEF Kept
    <2>2. \A k \in 0..n : k \in S
        <3> HIDE DEF S
        <3> QED
            BY <2>1, UpTo
    <2> QED
        BY <2>2
<1>6. IsTrace(pass, g, start, n, J) /\ n \in 0..n
    BY <1>3, <1>4, <1>5 DEF IsTrace
<1> QED
    BY <1>6 DEF IsTrace

\* -------------------------------- Words --------------------------------
\* A word of n bits is a sequence of them.
LEMMA WordIs ==
    ASSUME NEW n \in Nat, NEW s \in Word(n)
    PROVE  s \in Seq(Bits) /\ Len(s) = n /\ DOMAIN s = 1..n /\ \A i \in 1..n : s[i] \in Bits
    BY DEF Word

\* A sequence of bits is a word of its length.
LEMMA IsWord ==
    ASSUME NEW s \in Seq(Bits)
    PROVE  Len(s) \in Nat /\ s \in Word(Len(s)) /\ DOMAIN s = 1..Len(s)
    BY DEF Word

\* Words are equal bit by bit.
LEMMA WordsEqual ==
    ASSUME NEW n \in Nat, NEW s \in Word(n), NEW t \in Word(n), \A i \in 1..n : s[i] = t[i]
    PROVE  s = t
    BY DEF Word

\* Adding without carry: it is a group, and each bit its own inverse.
LEMMA XorIs ==
    /\ \A a, b \in Bits : Xor(a, b) \in Bits /\ Xor(a, b) = Xor(b, a) /\ (Xor(a, b) = 0 <=> a = b)
    /\ \A a, b \in Bits : Xor(a, 0) = a /\ Xor(0, a) = a /\ Xor(a, 1) = 1 - a /\ Xor(Xor(a, b), b) = a
    /\ \A a, b, c \in Bits : Xor(a, Xor(b, c)) = Xor(Xor(a, b), c)
    BY DEF Xor, Bits

\* The sum of words is taken bit by bit.
LEMMA PlusIs ==
    ASSUME NEW n \in Nat, NEW s \in Word(n), NEW t \in Word(n)
    PROVE  Plus(s, t) \in Word(n) /\ \A i \in 1..n : Plus(s, t)[i] = Xor(s[i], t[i])
<1>1. DOMAIN s = 1..n /\ \A i \in 1..n : s[i] \in Bits /\ t[i] \in Bits
    BY DEF Word
<1>2. \A i \in 1..n : Xor(s[i], t[i]) \in Bits
    BY <1>1, XorIs
<1> QED
    BY <1>1, <1>2 DEF Plus, Word

\* Where the bits of a concatenation come from.
LEMMA ConcatIs ==
    ASSUME NEW m \in Nat, NEW n \in Nat, NEW s \in Word(m), NEW t \in Word(n)
    PROVE  /\ s \o t \in Word(m + n)
           /\ \A i \in 1..(m + n) : (s \o t)[i] = IF i <= m THEN s[i] ELSE t[i - m]
<1>1. s \in Seq(Bits) /\ t \in Seq(Bits) /\ Len(s) = m /\ Len(t) = n
    BY WordIs
<1>2. /\ s \o t \in Seq(Bits) /\ Len(s \o t) = m + n
      /\ \A i \in 1..(m + n) : (s \o t)[i] = IF i <= m THEN s[i] ELSE t[i - m]
    BY <1>1, ConcatProperties
<1> QED
    BY <1>2, IsWord

\* A word with zeros behind it.
LEMMA PaddedIs ==
    ASSUME NEW m \in Nat, NEW n \in Nat, NEW s \in Word(m)
    PROVE  /\ s \o Zeros(n) \in Word(m + n)
           /\ \A i \in 1..(m + n) : (s \o Zeros(n))[i] = IF i <= m THEN s[i] ELSE 0
<1> DEFINE z == Zeros(n)
<1>1. z \in Word(n) /\ \A i \in 1..n : z[i] = 0
    BY DEF Zeros, Word, Bits
<1> HIDE DEF z
<1>2. /\ s \o z \in Word(m + n)
      /\ \A i \in 1..(m + n) : (s \o z)[i] = IF i <= m THEN s[i] ELSE z[i - m]
    BY <1>1, ConcatIs
<1>3. \A i \in 1..(m + n) : ~(i <= m) => i - m \in 1..n
    OBVIOUS
<1> QED
    BY <1>1, <1>2, <1>3 DEF z

\* A word with one bit more.
LEMMA AppendIs ==
    ASSUME NEW n \in Nat, NEW s \in Word(n), NEW e \in Bits
    PROVE  /\ Append(s, e) \in Word(n + 1) /\ Append(s, e)[n + 1] = e
           /\ \A i \in 1..n : Append(s, e)[i] = s[i]
<1>1. s \in Seq(Bits) /\ Len(s) = n
    BY WordIs
<1>2. /\ Append(s, e) \in Seq(Bits) /\ Len(Append(s, e)) = n + 1 /\ Append(s, e)[n + 1] = e
      /\ \A i \in 1..n : Append(s, e)[i] = s[i]
    BY <1>1, AppendProperties
<1> QED
    BY <1>2, IsWord

IsShifted(t, s, e, n) ==
    /\ t \in Word(n) /\ t[n] = e
    /\ \A i \in 1..n : i < n => t[i] = s[i + 1]

\* A register shifted by one, its last bit given.
LEMMA ShiftIs ==
    ASSUME NEW n \in Nat \ {0}, NEW s \in Word(n), NEW e \in Bits
    PROVE  IsShifted(Append(Tail(s), e), s, e, n)
<1>1. s \in Seq(Bits) /\ Len(s) = n /\ s # <<>>
    BY WordIs
<1>2. /\ Tail(s) \in Seq(Bits) /\ Len(Tail(s)) = n - 1
      /\ \A i \in 1..(n - 1) : Tail(s)[i] = s[i + 1]
    BY <1>1, HeadTailProperties
<1> DEFINE m == n - 1
           t == Tail(s)
<1>3. m \in Nat /\ m + 1 = n
    OBVIOUS
<1>4. t \in Word(m)
    BY <1>2, IsWord
<1> HIDE DEF t, m
<1>5. /\ Append(t, e) \in Word(m + 1) /\ Append(t, e)[m + 1] = e
      /\ \A i \in 1..m : Append(t, e)[i] = t[i]
    BY <1>3, <1>4, AppendIs
<1> USE DEF t
<1>6. \A i \in 1..m : t[i] = s[i + 1]
    BY <1>2 DEF m
<1>7. \A i \in 1..n : i < n => i \in 1..m
    BY <1>3
<1> HIDE DEF m
<1> QED
    BY <1>3, <1>5, <1>6, <1>7 DEF IsShifted

\* A part of a word.
LEMMA SubIs ==
    ASSUME NEW n \in Nat, NEW s \in Word(n), NEW i \in 1..(n + 1), NEW j \in (i - 1)..n
    PROVE  /\ SubSeq(s, i, j) \in Word(j - i + 1)
           /\ \A k \in 1..(j - i + 1) : SubSeq(s, i, j)[k] = s[i + k - 1]
<1>1. \A k \in i..j : s[k] \in Bits
    BY DEF Word
<1>2. /\ SubSeq(s, i, j) \in Seq(Bits) /\ Len(SubSeq(s, i, j)) = IF i <= j THEN j - i + 1 ELSE 0
      /\ \A k \in 1..(j - i + 1) : SubSeq(s, i, j)[k] = s[i + k - 1]
    BY <1>1, SubSeqProperties
<1>3. Len(SubSeq(s, i, j)) = j - i + 1
    BY <1>2
<1> QED
    BY <1>2, <1>3, IsWord

\* Turning a byte round twice restores it, and no bit leaves its byte.
LEMMA MirrorIs ==
    ASSUME NEW n \in Nat, n % 8 = 0, NEW i \in 1..n
    PROVE  /\ Mirror(i) \in 1..n /\ Mirror(Mirror(i)) = i
           /\ (Mirror(i) - 1) \div 8 = (i - 1) \div 8
    BY DEF Mirror

\* So does turning round all bytes of a word.
LEMMA ReverseIs ==
    ASSUME NEW n \in Nat, n % 8 = 0, NEW s \in Word(n)
    PROVE  /\ ReverseBytes(s) \in Word(n) /\ ReverseBytes(ReverseBytes(s)) = s
           /\ \A i \in 1..n : ReverseBytes(s)[i] = s[Mirror(i)]
<1>1. \A i \in 1..n : Mirror(i) \in 1..n /\ Mirror(Mirror(i)) = i
    BY MirrorIs
<1>2. \A t \in Word(n) : /\ ReverseBytes(t) \in Word(n)
                          /\ \A i \in 1..n : ReverseBytes(t)[i] = t[Mirror(i)]
    BY <1>1 DEF ReverseBytes, Word
<1>3. ReverseBytes(ReverseBytes(s)) \in Word(n)
      /\ \A i \in 1..n : ReverseBytes(ReverseBytes(s))[i] = s[i]
    BY <1>1, <1>2
<1>4. ReverseBytes(ReverseBytes(s)) = s
    BY <1>3, WordsEqual
<1> QED
    BY <1>2, <1>4

\* --------------------------------- PN9 ---------------------------------
LEMMA SequenceIs ==
    ASSUME NEW n \in Nat
    PROVE  LET c == Pn9Sequence(n)
           IN  /\ c \in Word(n)
               /\ \A i \in 1..n : c[i] = IF i <= 9 THEN 1 ELSE Xor(c[i - 9], c[i - 4])
<1> DEFINE Good(c, k) == \A i \in 1..k : c[i] = IF i <= 9 THEN 1 ELSE Xor(c[i - 9], c[i - 4])
           next(c, k) == Append(c, IF k <= 9 THEN 1 ELSE Xor(c[k - 9], c[k - 4]))
           g == [k \in 1..n |-> [c \in Word(k - 1) |-> next(c, k)]]
           J == [k \in 0..n |-> {c \in Word(k) : Good(c, k)}]
<1>1. <<>> \in J[0]
    BY DEF Word
<1>2. ASSUME NEW k \in 0..(n - 1), NEW c \in J[k] PROVE g[k + 1][c] \in J[k + 1]
    <2>1. c \in Word(k) /\ Good(c, k) /\ k \in Nat
        OBVIOUS
    <2>2. k + 1 \in 1..n /\ (k + 1) - 1 = k
        OBVIOUS
    <2>3. g[k + 1][c] = next(c, k + 1)
        BY <2>1, <2>2
    <2> DEFINE e == IF k + 1 <= 9 THEN 1 ELSE Xor(c[k + 1 - 9], c[k + 1 - 4])
    <2>4. e \in Bits
        <3>1. CASE k + 1 <= 9
            BY <3>1 DEF Bits
        <3>2. CASE k + 1 > 9
            <4>1. k + 1 - 9 \in 1..k /\ k + 1 - 4 \in 1..k
                BY <3>2
            <4>2. c[k + 1 - 9] \in Bits /\ c[k + 1 - 4] \in Bits
                BY <2>1, <4>1, WordIs
            <4> QED
                BY <3>2, <4>2, XorIs
        <3> QED
            BY <3>1, <3>2
    <2>5. /\ Append(c, e) \in Word(k + 1) /\ Append(c, e)[k + 1] = e
          /\ \A i \in 1..k : Append(c, e)[i] = c[i]
        BY <2>1, <2>4, AppendIs
    <2>6. Good(Append(c, e), k + 1)
        <3> DEFINE d == Append(c, e)
        <3>1. d[k + 1] = e /\ \A i \in 1..k : d[i] = c[i]
            BY <2>5
        <3> HIDE DEF d
        <3> SUFFICES ASSUME NEW i \in 1..(k + 1)
                     PROVE  d[i] = IF i <= 9 THEN 1 ELSE Xor(d[i - 9], d[i - 4])
            BY DEF d
        <3>2. i > 9 => i - 9 \in 1..k /\ i - 4 \in 1..k
            OBVIOUS
        <3>3. CASE i = k + 1
            BY <3>1, <3>2, <3>3
        <3>4. CASE i \in 1..k
            BY <2>1, <3>1, <3>2, <3>4
        <3> QED
            BY <3>3, <3>4
    <2>7. J[k + 1] = {d \in Word(k + 1) : Good(d, k + 1)}
        BY <2>2
    <2>8. next(c, k + 1) = Append(c, e)
        OBVIOUS
    <2> HIDE DEF g, J, e, Good
    <2> QED
        BY <2>3, <2>5, <2>6, <2>7, <2>8
<1>3. Kept(g, <<>>, n, J)
    BY <1>1, <1>2, Zenon DEF Kept
<1>4. Iterated(g, <<>>, n) \in J[n]
    <2> HIDE DEF g, J
    <2> QED
        BY <1>3, Trace
<1>5. Pn9Sequence(n) = Iterated(g, <<>>, n)
    BY DEF Pn9Sequence
<1>6. J[n] = {c \in Word(n) : Good(c, n)}
    OBVIOUS
<1> QED
    <2> HIDE DEF g, J
    <2> QED
        BY <1>4, <1>5, <1>6

\* The register before byte b holds the nine bits of the sequence that come next.
LEMMA KeyIs ==
    ASSUME NEW n \in Nat, NEW b \in Nat
    PROVE  /\ Pn9Key(b) \in Word(9)
           /\ \A j \in 1..9 : 8 * b + j <= n => Pn9Key(b)[j] = Pn9Sequence(n)[8 * b + j]
<1> DEFINE c == Pn9Sequence(n)
           m == 8 * b
           Good(r, k) == \A j \in 1..9 : k + j <= n => r[j] = c[k + j]
           g == [k \in 1..m |-> [r \in Word(9) |-> Pn9Shift(r)]]
           J == [k \in 0..m |-> {r \in Word(9) : Good(r, k)}]
<1>1. m \in Nat
    OBVIOUS
<1>2. /\ c \in Word(n)
      /\ \A i \in 1..n : c[i] = IF i <= 9 THEN 1 ELSE Xor(c[i - 9], c[i - 4])
    BY SequenceIs
<1> HIDE DEF c, m
<1>3. Ones(9) \in J[0]
    <2>1. Ones(9) \in Word(9) /\ \A j \in 1..9 : Ones(9)[j] = 1
        BY DEF Ones, Word, Bits
    <2>2. Good(Ones(9), 0)
        BY <1>2, <2>1
    <2> QED
        BY <1>1, <2>1, <2>2
<1>4. ASSUME NEW k \in 0..(m - 1), NEW r \in J[k] PROVE g[k + 1][r] \in J[k + 1]
    <2>1. r \in Word(9) /\ Good(r, k) /\ k \in Nat /\ k + 1 \in 1..m
        BY <1>1
    <2>2. g[k + 1][r] = Pn9Shift(r)
        BY <2>1
    <2>3. r[1] \in Bits /\ r[6] \in Bits
        BY <2>1 DEF Word
    <2> DEFINE e == Xor(r[1], r[6])
               s == Pn9Shift(r)
    <2>4. e \in Bits
        BY <2>3, XorIs
    <2>5. s \in Word(9) /\ s[9] = e /\ \A j \in 1..8 : s[j] = r[j + 1]
        <3>1. s = Append(Tail(r), e)
            BY DEF Pn9Shift
        <3> HIDE DEF s, e
        <3>2. 9 \in Nat \ {0} /\ \A j \in 1..8 : j \in 1..9 /\ j < 9
            OBVIOUS
        <3>3. /\ Append(Tail(r), e) \in Word(9) /\ Append(Tail(r), e)[9] = e
              /\ \A i \in 1..9 : i < 9 => Append(Tail(r), e)[i] = r[i + 1]
            <4>1. r \in Word(9) /\ e \in Bits /\ 9 \in Nat \ {0}
                BY <2>1, <2>4, <3>2
            <4>2. IsShifted(Append(Tail(r), e), r, e, 9)
                BY <4>1, ShiftIs
            <4> QED
                BY <4>2 DEF IsShifted
        <3> QED
            BY <3>1, <3>2, <3>3
    <2> HIDE DEF s
    <2>6. Good(s, k + 1)
        <3> SUFFICES ASSUME NEW j \in 1..9, k + 1 + j <= n PROVE s[j] = c[k + 1 + j]
            OBVIOUS
        <3>1. CASE j \in 1..8
            <4>1. j + 1 \in 1..9 /\ k + (j + 1) = k + 1 + j /\ k + (j + 1) <= n
                BY <2>1, <3>1
            <4>2. r[j + 1] = c[k + (j + 1)]
                BY <2>1, <4>1
            <4> QED
                BY <2>5, <3>1, <4>1, <4>2
        <3>2. CASE j = 9
            <4>1. k + 10 \in 1..n /\ k + 10 - 9 = k + 1 /\ k + 10 - 4 = k + 6
                BY <2>1, <3>2
            <4>2. r[1] = c[k + 1] /\ r[6] = c[k + 6]
                <5>1. 1 \in 1..9 /\ 6 \in 1..9 /\ k + 1 <= n /\ k + 6 <= n
                    BY <4>1
                <5> QED
                    BY <2>1, <5>1
            <4>3. c[k + 10] = Xor(c[k + 1], c[k + 6])
                BY <1>2, <2>1, <4>1
            <4> QED
                BY <2>5, <3>2, <4>2, <4>3
        <3> QED
            BY <3>1, <3>2
    <2>7. J[k + 1] = {d \in Word(9) : Good(d, k + 1)}
        BY <2>1
    <2> HIDE DEF g, J, Good
    <2> QED
        BY <2>2, <2>5, <2>6, <2>7 DEF s
<1>5. Kept(g, Ones(9), m, J)
    BY <1>3, <1>4, Zenon DEF Kept
<1>6. Iterated(g, Ones(9), m) \in J[m]
    <2> HIDE DEF g, J
    <2> QED
        BY <1>1, <1>5, Trace
<1>7. Pn9Key(b) = Iterated(g, Ones(9), m)
    BY DEF Pn9Key, m
<1>8. J[m] = {r \in Word(9) : Good(r, m)}
    BY <1>1
<1>9. Pn9Key(b) \in Word(9) /\ Good(Pn9Key(b), m)
    <2> HIDE DEF g, J, Good
    <2> QED
        BY <1>6, <1>7, <1>8
<1> QED
    BY <1>9 DEF c, m

\* The receiver's key is the satellite's sequence: both add the same bits.
LEMMA Pn9Whitens ==
    ASSUME NEW n \in Nat, n % 8 = 0, NEW s \in Word(n)
    PROVE  /\ Pn9(s) = Whitened(s) /\ Whitened(s) \in Word(n)
           /\ \A i \in 1..n : Whitened(s)[i] = Xor(s[i], Pn9Sequence(n)[Mirror(i)])
<1> DEFINE c == Pn9Sequence(n)
<1>1. Len(s) = n /\ DOMAIN s = 1..n /\ \A i \in 1..n : s[i] \in Bits
    BY WordIs
<1>2. \A i \in 1..n : Mirror(i) \in 1..n
    BY MirrorIs
<1>3. \A i \in 1..n : c[Mirror(i)] \in Bits
    BY <1>2, SequenceIs, WordIs
<1>4. /\ Whitened(s) = [i \in 1..n |-> Xor(s[i], c[Mirror(i)])]
      /\ \A i \in 1..n : Xor(s[i], c[Mirror(i)]) \in Bits
    BY <1>1, <1>3, XorIs DEF Whitened
<1> DEFINE key == [b \in 0..(n \div 8 - 1) |-> Pn9Key(b)]
<1>5. Pn9(s) = [i \in 1..n |-> Xor(s[i], key[(i - 1) \div 8][8 - ((i - 1) % 8)])]
    BY <1>1 DEF Pn9
<1>6. ASSUME NEW i \in 1..n PROVE key[(i - 1) \div 8][8 - ((i - 1) % 8)] = c[Mirror(i)]
    <2> DEFINE b == (i - 1) \div 8
               j == 8 - ((i - 1) % 8)
    <2>1. b \in Nat /\ b \in 0..(n \div 8 - 1) /\ j \in 1..9 /\ 8 * b + j = Mirror(i)
        BY DEF Mirror
    <2>2. key[b] = Pn9Key(b)
        BY <2>1
    <2> HIDE DEF b, j
    <2>3. Pn9Key(b)[j] = c[8 * b + j]
        <3>1. 8 * b + j <= n
            BY <1>2, <2>1
        <3> QED
            BY <2>1, <3>1, KeyIs
    <2> QED
        BY <2>1, <2>2, <2>3 DEF b, j
<1> HIDE DEF c, key
<1>7. Pn9(s) = Whitened(s)
    BY <1>4, <1>5, <1>6
<1> QED
    BY <1>4, <1>7 DEF Word, c

\* Flipped bits, and only they, have changed.
LEMMA FlippedIs ==
    ASSUME NEW n \in Nat, NEW s \in Word(n), NEW hit
    PROVE  /\ Flipped(s, hit) \in Word(n) /\ (hit = {} => Flipped(s, hit) = s)
           /\ \A i \in 1..n : Flipped(s, hit)[i] = IF i \in hit THEN 1 - s[i] ELSE s[i]
<1>1. DOMAIN s = 1..n /\ \A i \in 1..n : s[i] \in Bits /\ 1 - s[i] \in Bits
    BY DEF Word, Bits
<1>2. /\ Flipped(s, hit) \in Word(n)
      /\ \A i \in 1..n : Flipped(s, hit)[i] = IF i \in hit THEN 1 - s[i] ELSE s[i]
    BY <1>1 DEF Flipped, Word
<1>3. hit = {} => Flipped(s, hit) = s
    BY <1>2, WordsEqual
<1> QED
    BY <1>2, <1>3

\* Whitening twice is nothing, and a flipped bit stays flipped.
LEMMA Pn9Undoes ==
    ASSUME NEW n \in Nat, n % 8 = 0, NEW s \in Word(n), NEW hit
    PROVE  Pn9(Flipped(Whitened(s), hit)) = Flipped(s, hit)
<1> DEFINE c == Pn9Sequence(n)
           w == Whitened(s)
           d == Flipped(w, hit)
<1>1. w \in Word(n) /\ \A i \in 1..n : w[i] = Xor(s[i], c[Mirror(i)])
    BY Pn9Whitens
<1>2. d \in Word(n) /\ \A i \in 1..n : d[i] = IF i \in hit THEN 1 - w[i] ELSE w[i]
    BY <1>1, FlippedIs
<1>3. Pn9(d) \in Word(n) /\ \A i \in 1..n : Pn9(d)[i] = Xor(d[i], c[Mirror(i)])
    BY <1>2, Pn9Whitens
<1>4. Flipped(s, hit) \in Word(n)
      /\ \A i \in 1..n : Flipped(s, hit)[i] = IF i \in hit THEN 1 - s[i] ELSE s[i]
    BY FlippedIs
<1>5. \A i \in 1..n : s[i] \in Bits /\ c[Mirror(i)] \in Bits
    BY MirrorIs, SequenceIs, WordIs
<1>6. \A a, b \in Bits : Xor(1 - Xor(a, b), b) = 1 - a /\ Xor(Xor(a, b), b) = a
    BY DEF Xor, Bits
<1> HIDE DEF c, w, d
<1>7. \A i \in 1..n : Pn9(d)[i] = Flipped(s, hit)[i]
    BY <1>1, <1>2, <1>3, <1>4, <1>5, <1>6
<1>8. Pn9(d) = Flipped(s, hit)
    BY <1>3, <1>4, <1>7, WordsEqual
<1> QED
    BY <1>8 DEF d, w

\* ---------------------------- Long division ----------------------------
\* The dividend after each of n steps.
IsDivision(q, poly, n, w) ==
    /\ \A i \in 0..n : q[i] \in Word(n + w)
    /\ \A i \in 0..(n - 1) : q[i + 1] = Subtracted(poly, q[i], i + 1)

IsDifference(s, poly, d, n, w, i) ==
    /\ s \in Word(n + w) /\ s[i] = 0
    /\ \A j \in 1..w : s[i + j] = IF d[i] = 1 THEN Xor(d[i + j], poly[j]) ELSE d[i + j]
    /\ \A p \in 1..(n + w) : p < i \/ p > i + w => s[p] = d[p]

\* The divisor is taken off from bit i on, if that bit is 1.
LEMMA SubtractedIs ==
    ASSUME NEW n \in Nat, NEW w \in Nat, NEW poly \in Word(w), NEW d \in Word(n + w), NEW i \in 1..n
    PROVE  IsDifference(Subtracted(poly, d, i), poly, d, n, w, i)
<1> DEFINE N == n + w
           off(j) == d[i] = 1 /\ j \in i..(i + w)
           e(j) == IF off(j) THEN Xor(d[j], IF j = i THEN 1 ELSE poly[j - i]) ELSE d[j]
           s == Subtracted(poly, d, i)
<1>1. N \in Nat /\ i \in 1..N /\ \A j \in 1..w : i + j \in 1..N /\ (i + j) - i = j /\ i + j # i
    OBVIOUS
<1>2. DOMAIN d = 1..N /\ (\A p \in 1..N : d[p] \in Bits) /\ Len(poly) = w
    BY <1>1, WordIs
<1>3. s = [j \in 1..N |-> e(j)]
    BY <1>2 DEF Subtracted
<1>4. \A j \in 1..N : e(j) \in Bits
    <2> TAKE j \in 1..N
    <2>1. off(j) /\ j # i => j - i \in 1..w
        OBVIOUS
    <2>2. off(j) /\ j # i => poly[j - i] \in Bits
        BY <2>1 DEF Word
    <2>3. (IF j = i THEN 1 ELSE poly[j - i]) \in Bits \/ ~off(j)
        BY <2>2 DEF Bits
    <2> QED
        BY <1>2, <2>3, XorIs
<1>5. s \in Word(N) /\ \A j \in 1..N : s[j] = e(j)
    BY <1>3, <1>4 DEF Word
<1>6. e(i) = 0
    <2>1. d[i] = 1 => e(i) = Xor(1, 1)
        BY <1>1
    <2>2. d[i] # 1 => e(i) = 0
        BY <1>1, <1>2 DEF Bits
    <2> QED
        BY <2>1, <2>2 DEF Xor
<1>7. \A j \in 1..w : e(i + j) = IF d[i] = 1 THEN Xor(d[i + j], poly[j]) ELSE d[i + j]
    BY <1>1
<1>8. \A p \in 1..N : p < i \/ p > i + w => e(p) = d[p]
    OBVIOUS
<1> HIDE DEF e, s, off
<1> QED
    BY <1>1, <1>5, <1>6, <1>7, <1>8 DEF IsDifference, s

IsStep(q, poly, n, w, i) ==
    /\ q[i] \in Word(n + w) /\ q[i + 1] \in Word(n + w)
    /\ q[i + 1][i + 1] = 0
    /\ \A j \in 1..w : q[i + 1][i + 1 + j] =
         IF q[i][i + 1] = 1 THEN Xor(q[i][i + 1 + j], poly[j]) ELSE q[i][i + 1 + j]
    /\ \A p \in 1..(n + w) : p < i + 1 \/ p > i + 1 + w => q[i + 1][p] = q[i][p]

\* Each pass of the division clears its bit.
LEMMA StepIs ==
    ASSUME NEW n \in Nat, NEW w \in Nat, NEW poly \in Word(w), NEW q, IsDivision(q, poly, n, w),
           NEW i \in 0..(n - 1)
    PROVE  IsStep(q, poly, n, w, i)
<1> DEFINE k == i + 1
           d == q[i]
<1>1. k \in 1..n /\ i \in 0..n /\ k \in 0..n
    OBVIOUS
<1>2. d \in Word(n + w) /\ q[k] = Subtracted(poly, d, k) /\ q[k] \in Word(n + w)
    BY <1>1 DEF IsDivision
<1> HIDE DEF d, k
<1>3. IsDifference(q[k], poly, d, n, w, k)
    BY <1>1, <1>2, SubtractedIs
<1> QED
    BY <1>2, <1>3 DEF IsStep, IsDifference, d, k

\* No step reaches farther than the width behind it.
LEMMA TailKept ==
    ASSUME NEW n \in Nat, NEW w \in Nat, NEW poly \in Word(w), NEW q, IsDivision(q, poly, n, w)
    PROVE  \A i \in 0..n : \A p \in 1..(n + w) : p > i + w => q[i][p] = q[0][p]
<1> DEFINE S == {i \in 0..n : \A p \in 1..(n + w) : p > i + w => q[i][p] = q[0][p]}
<1>1. 0 \in S
    OBVIOUS
<1>2. ASSUME NEW i \in 0..(n - 1), i \in S PROVE i + 1 \in S
    <2>1. i + 1 \in 1..n /\ i \in 0..n /\ i + 1 \in 0..n
        OBVIOUS
    <2>2. q[i] \in Word(n + w) /\ q[i + 1] = Subtracted(poly, q[i], i + 1)
        BY <2>1 DEF IsDivision
    <2>3. \A p \in 1..(n + w) : p > i + 1 + w => q[i + 1][p] = q[i][p]
        BY <2>1, <2>2, SubtractedIs DEF IsDifference
    <2>4. \A p \in 1..(n + w) : p > i + 1 + w => p > i + w
        OBVIOUS
    <2> QED
        BY <1>2, <2>1, <2>3, <2>4
<1> HIDE DEF S
<1>3. \A i \in 0..n : i \in S
    BY <1>1, <1>2, UpTo
<1> QED
    BY <1>3 DEF S

Divided(poly, d, n) ==
    Iterated([i \in 1..n |-> [x \in Word(n + Len(poly)) |-> Subtracted(poly, x, i)]], d, n)

\* The passes of a division, one by one.
LEMMA DividedIs ==
    ASSUME NEW n \in Nat, NEW w \in Nat, NEW poly \in Word(w), NEW d \in Word(n + w)
    PROVE  \E q : q[0] = d /\ q[n] = Divided(poly, d, n) /\ IsDivision(q, poly, n, w)
<1> DEFINE g == [i \in 1..n |-> [x \in Word(n + w) |-> Subtracted(poly, x, i)]]
           J == [i \in 0..n |-> Word(n + w)]
<1>1. d \in J[0]
    OBVIOUS
<1>2. ASSUME NEW i \in 0..(n - 1), NEW x \in Word(n + w)
      PROVE  g[i + 1][x] = Subtracted(poly, x, i + 1) /\ g[i + 1][x] \in Word(n + w)
    <2>1. i + 1 \in 1..n
        OBVIOUS
    <2>2. g[i + 1][x] = Subtracted(poly, x, i + 1)
        BY <2>1
    <2>3. Subtracted(poly, x, i + 1) \in Word(n + w)
        BY <2>1, SubtractedIs DEF IsDifference
    <2> QED
        BY <2>2, <2>3
<1>3. \A i \in 0..n : J[i] = Word(n + w)
    OBVIOUS
<1>4. \A i \in 0..(n - 1) : i \in 0..n /\ i + 1 \in 0..n
    OBVIOUS
<1>5. Divided(poly, d, n) = Iterated(g, d, n)
    BY WordIs DEF Divided
<1> HIDE DEF g, J
<1>6. Kept(g, d, n, J)
    BY <1>1, <1>2, <1>3, <1>4 DEF Kept
<1>7. PICK q : IsTrace(q, g, d, n, J)
    BY <1>6, Trace, Zenon
<1>8. IsDivision(q, poly, n, w)
    BY <1>2, <1>3, <1>4, <1>7 DEF IsDivision, IsTrace
<1> QED
    BY <1>5, <1>7, <1>8 DEF IsTrace

\* ------------------------------- The CRC -------------------------------
\* One shift of the register, bit by bit.
LEMMA CrcShiftIs ==
    ASSUME NEW w \in Nat \ {0}, NEW poly \in Word(w), NEW r \in Word(w)
    PROVE  /\ CrcShift(poly, r) \in Word(w)
           /\ \A j \in 1..w : LET moved == IF j < w THEN r[j + 1] ELSE 0
                              IN  CrcShift(poly, r)[j] = IF r[1] = 1 THEN Xor(moved, poly[j]) ELSE moved
<1> DEFINE m == Append(Tail(r), 0)
<1>1. 0 \in Bits
    BY DEF Bits
<1>2. IsShifted(m, r, 0, w)
    BY <1>1, ShiftIs
<1> HIDE DEF m
<1>3. Plus(m, poly) \in Word(w) /\ \A j \in 1..w : Plus(m, poly)[j] = Xor(m[j], poly[j])
    BY <1>2, PlusIs DEF IsShifted
<1>4. CrcShift(poly, r) = IF r[1] = 1 THEN Plus(m, poly) ELSE m
    BY DEF CrcShift, m
<1>5. \A j \in 1..w : m[j] = IF j < w THEN r[j + 1] ELSE 0
    BY <1>2 DEF IsShifted
<1> QED
    BY <1>2, <1>3, <1>4, <1>5 DEF IsShifted

\* What the register holds of the dividend: the message in it is still to come.
Holds(r, q, M, at, w) == \A j \in 1..w : r[j] = Xor(q[at][at + j], M[at + j])

BeginsAs(q, M, n, w) == \A p \in 1..(n + w) : p > w => q[0][p] = M[p]
IsByte(byte, M, at) == \A j \in 1..8 : byte[j] = M[at + j]

\* Eight shifts are eight steps of the division, whose dividend begins as M.
LEMMA ByteIs ==
    ASSUME NEW crc, NEW w \in Nat, w = 8 * crc.bytes, w >= 8, crc.poly \in Word(w),
           NEW n \in Nat, NEW M \in Word(n + w),
           NEW q, IsDivision(q, crc.poly, n, w), BeginsAs(q, M, n, w),
           NEW at \in Nat, at + 8 <= n,
           NEW r \in Word(w), Holds(r, q, M, at, w),
           NEW byte \in Word(8), IsByte(byte, M, at)
    PROVE  CrcByte(crc, r, byte) \in Word(w) /\ Holds(CrcByte(crc, r, byte), q, M, at + 8, w)
<1> DEFINE poly == crc.poly
           first == Plus(r, byte \o Zeros(w - 8))
           want(k, j) == LET p == at + k + j
                         IN  IF k + j > 8 THEN Xor(q[at + k][p], M[p]) ELSE q[at + k][p]
           Good(s, k) == \A j \in 1..w : s[j] = want(k, j)
           g == [k \in 1..8 |-> [s \in Word(w) |-> CrcShift(poly, s)]]
           J == [k \in 0..8 |-> {s \in Word(w) : Good(s, k)}]
<1>1. /\ w \in Nat \ {0} /\ poly \in Word(w)
      /\ \A k \in 0..8 : at + k \in 0..n /\ q[at + k] \in Word(n + w)
      /\ \A k \in 0..8 : \A j \in 1..w : at + k + j \in 1..(n + w)
    BY DEF IsDivision
<1>9. \A h \in 0..(n - 1) : IsStep(q, poly, n, w, h)
    BY <1>1, StepIs
<1>0. \A j \in 1..w : j < w \/ j = w
    OBVIOUS
<1>2. \A k \in 0..8 : \A j \in 1..w : q[at + k][at + k + j] \in Bits /\ M[at + k + j] \in Bits
    BY <1>1 DEF Word
<1>3. first \in J[0]
    <2> DEFINE m == w - 8
               z == byte \o Zeros(m)
    <2>1. m \in Nat /\ 8 \in Nat /\ 8 + m = w
        OBVIOUS
    <2>2. z \in Word(8 + m) /\ \A j \in 1..(8 + m) : z[j] = IF j <= 8 THEN byte[j] ELSE 0
        <3> HIDE DEF m
        <3> QED
            BY <2>1, PaddedIs, Zenon
    <2>4. z \in Word(w) /\ \A j \in 1..w : z[j] = IF j <= 8 THEN byte[j] ELSE 0
        <3> HIDE DEF z, m
        <3> QED
            BY <2>1, <2>2
    <2> HIDE DEF z
    <2>5. first \in Word(w) /\ \A j \in 1..w : first[j] = Xor(r[j], z[j])
        BY <1>1, <2>4, PlusIs DEF z
    <2>6. Good(first, 0)
        <3> SUFFICES ASSUME NEW j \in 1..w PROVE first[j] = want(0, j)
            OBVIOUS
        <3>1. q[at][at + j] \in Bits /\ M[at + j] \in Bits /\ at + 0 = at /\ at + 0 + j = at + j
            BY <1>2
        <3>2. r[j] = Xor(q[at][at + j], M[at + j]) /\ r[j] \in Bits
            BY DEF Holds, Word
        <3>3. CASE j <= 8
            <4>1. z[j] = M[at + j]
                BY <2>4, <3>3 DEF IsByte
            <4>2. first[j] = q[at][at + j]
                BY <2>5, <3>1, <3>2, <4>1, XorIs
            <4> QED
                BY <3>1, <3>3, <4>2
        <3>4. CASE j > 8
            <4>1. z[j] = 0
                BY <2>4, <3>4
            <4>2. first[j] = r[j]
                BY <2>5, <3>2, <4>1, XorIs
            <4> QED
                BY <3>1, <3>2, <3>4, <4>2
        <3> QED
            BY <3>3, <3>4
    <2>7. J[0] = {s \in Word(w) : Good(s, 0)}
        OBVIOUS
    <2> HIDE DEF J, Good, first
    <2> QED
        BY <2>5, <2>6, <2>7
<1>4. ASSUME NEW k \in 0..7, NEW s \in J[k] PROVE g[k + 1][s] \in J[k + 1]
    <2> DEFINE i == at + k + 1
               t == CrcShift(poly, s)
    <2>1. s \in Word(w) /\ Good(s, k) /\ k \in 0..8 /\ k + 1 \in 1..8
        OBVIOUS
    <2>2. i \in 1..n /\ at + k \in 0..(n - 1) /\ at + k \in 0..n /\ at + (k + 1) = i /\ (at + k) + 1 = i
        OBVIOUS
    <2>3. g[k + 1][s] = t
        BY <2>1
    <2>4. /\ t \in Word(w)
          /\ \A j \in 1..w : t[j] = IF s[1] = 1 THEN Xor(IF j < w THEN s[j + 1] ELSE 0, poly[j])
                                    ELSE IF j < w THEN s[j + 1] ELSE 0
        <3>1. w \in Nat \ {0} /\ poly \in Word(w) /\ s \in Word(w)
            BY <1>1, <2>1
        <3> QED
            BY <3>1, CrcShiftIs, Zenon
    <2>5. s[1] = q[at + k][i]
        <3>1. 1 \in 1..w /\ ~(k + 1 > 8) /\ at + k + 1 = i
            OBVIOUS
        <3> QED
            BY <2>1, <3>1
    <2> HIDE DEF t
    <2> DEFINE x == q[at + k]
    <2>6. /\ q[i] \in Word(n + w) /\ x \in Word(n + w)
          /\ \A j \in 1..w : q[i][i + j] = IF s[1] = 1 THEN Xor(x[i + j], poly[j]) ELSE x[i + j]
        <3> DEFINE h == at + k
        <3>1. h \in 0..(n - 1) /\ i = h + 1 /\ s[1] = q[h][h + 1]
            BY <2>2, <2>5
        <3> HIDE DEF h, i
        <3>2. /\ q[h] \in Word(n + w) /\ q[h + 1] \in Word(n + w)
              /\ \A j \in 1..w : q[h + 1][h + 1 + j] =
                   IF q[h][h + 1] = 1 THEN Xor(q[h][h + 1 + j], poly[j]) ELSE q[h][h + 1 + j]
            BY <1>9, <3>1 DEF IsStep
        <3> QED
            BY <3>1, <3>2 DEF h
    <2>7. Good(t, k + 1)
        <3> SUFFICES ASSUME NEW j \in 1..w PROVE t[j] = want(k + 1, j)
            OBVIOUS
        <3> DEFINE old == q[at + k][i + j]
                   new == q[i][i + j]
                   bit == M[i + j]
                   moved == IF j < w THEN s[j + 1] ELSE 0
        <3>1. i + j \in 1..(n + w) /\ at + (k + 1) + j = i + j
            BY <2>2
        <3>2. old \in Bits /\ new \in Bits /\ bit \in Bits /\ poly[j] \in Bits
            <4>1. q[i] \in Word(n + w) /\ q[at + k] \in Word(n + w)
                BY <2>6
            <4> QED
                BY <1>1, <3>1, <4>1 DEF Word
        <3>3. moved = IF k + 1 + j > 8 THEN Xor(old, bit) ELSE old
            <4>1. CASE j < w
                <5>1. j + 1 \in 1..w /\ at + k + (j + 1) = i + j /\ (k + (j + 1) > 8 <=> k + 1 + j > 8)
                    BY <4>1
                <5>2. s[j + 1] = want(k, j + 1)
                    BY <2>1, <5>1
                <5> QED
                    BY <4>1, <5>1, <5>2
            <4>2. CASE j = w
                <5>1. i + j > (at + k) + w /\ i + j > w /\ k + 1 + j > 8
                    BY <2>2, <4>2
                <5>2. old = q[0][i + j]
                    BY <1>1, <2>2, <3>1, <5>1, TailKept
                <5>3. old = bit
                    BY <3>1, <5>1, <5>2 DEF BeginsAs
                <5> QED
                    BY <3>2, <4>2, <5>1, <5>3, XorIs
            <4> QED
                <5>1. j < w \/ j = w
                    BY <1>0, Zenon
                <5> QED
                    BY <4>1, <4>2, <5>1, Zenon
        <3>4. t[j] = IF s[1] = 1 THEN Xor(moved, poly[j]) ELSE moved
            BY <2>4
        <3>5. new = IF s[1] = 1 THEN Xor(old, poly[j]) ELSE old
            BY <2>6
        <3>6. want(k + 1, j) = IF k + 1 + j > 8 THEN Xor(new, bit) ELSE new
            BY <2>2, <3>1
        <3>7. \A a, b, c \in Bits : Xor(Xor(a, b), c) = Xor(Xor(a, c), b)
            BY DEF Xor, Bits
        <3> HIDE DEF old, new, bit, moved, want
        <3> QED
            BY <3>2, <3>3, <3>4, <3>5, <3>6, <3>7
    <2>8. J[k + 1] = {v \in Word(w) : Good(v, k + 1)}
        BY <2>1
    <2> HIDE DEF g, J, Good
    <2> QED
        BY <2>3, <2>4, <2>7, <2>8
<1>5. CrcByte(crc, r, byte) = Iterated(g, first, 8)
    BY DEF CrcByte
<1>6. J[8] = {x \in Word(w) : Good(x, 8)}
    OBVIOUS
<1>7. Iterated(g, first, 8) \in J[8]
    <2> HIDE DEF g, J, first
    <2>1. 8 \in Nat /\ 8 - 1 = 7
        OBVIOUS
    <2>2. Kept(g, first, 8, J)
        BY <1>3, <1>4, <2>1 DEF Kept
    <2> QED
        BY <2>1, <2>2, Trace, Zenon
<1> DEFINE t == CrcByte(crc, r, byte)
<1>8. t \in Word(w) /\ Good(t, 8)
    <2> HIDE DEF g, J, Good, first
    <2> QED
        BY <1>5, <1>6, <1>7
<1> HIDE DEF t
<1>10. \A j \in 1..w : t[j] = Xor(q[at + 8][at + 8 + j], M[at + 8 + j])
    BY <1>8
<1> QED
    BY <1>8, <1>10 DEF Holds, t

\* The register after a message whose bits are taken in their order.
Register(crc, bits) ==
    Iterated([b \in 1..(Len(bits) \div 8) |-> [r \in Word(8 * crc.bytes) |->
                CrcByte(crc, r, SubSeq(bits, 8 * b - 7, 8 * b))]],
             crc.init, Len(bits) \div 8)

IsWide(crc, w) == crc.bytes \in Nat /\ w = 8 * crc.bytes /\ w >= 8 /\ IsCrc(crc)

Spans(n, B) == n = 8 * B /\ n \div 8 = B

\* What is divided.
Dividend(crc, bits) ==
    Plus(bits \o Zeros(8 * crc.bytes), crc.init \o Zeros(Len(bits)))

\* The dividend: the message, flipped by the first register, and zeros.
LEMMA DividendIs ==
    ASSUME NEW crc, NEW w \in Nat, IsWide(crc, w), NEW n \in Nat, NEW bits \in Word(n)
    PROVE  /\ bits \o Zeros(w) \in Word(n + w) /\ Dividend(crc, bits) \in Word(n + w)
           /\ \A p \in 1..(n + w) :
                /\ (bits \o Zeros(w))[p] = IF p <= n THEN bits[p] ELSE 0
                /\ Dividend(crc, bits)[p] = Xor(IF p <= n THEN bits[p] ELSE 0,
                                                IF p <= w THEN crc.init[p] ELSE 0)
<1> DEFINE M == bits \o Zeros(w)
           I == crc.init \o Zeros(n)
<1>1. crc.init \in Word(w) /\ Len(bits) = n /\ n + w \in Nat /\ w + n = n + w
    BY WordIs DEF IsCrc, IsWide
<1>2. M \in Word(n + w) /\ \A p \in 1..(n + w) : M[p] = IF p <= n THEN bits[p] ELSE 0
    BY PaddedIs
<1>3. I \in Word(n + w) /\ \A p \in 1..(n + w) : I[p] = IF p <= w THEN crc.init[p] ELSE 0
    <2> HIDE DEF I
    <2>1. I \in Word(w + n) /\ \A p \in 1..(w + n) : I[p] = IF p <= w THEN crc.init[p] ELSE 0
        BY <1>1, PaddedIs DEF I
    <2> QED
        BY <1>1, <2>1
<1>4. Dividend(crc, bits) = Plus(M, I)
    BY <1>1 DEF Dividend, IsWide
<1> HIDE DEF M, I
<1>5. Plus(M, I) \in Word(n + w) /\ \A p \in 1..(n + w) : Plus(M, I)[p] = Xor(M[p], I[p])
    BY <1>1, <1>2, <1>3, PlusIs
<1> QED
    BY <1>2, <1>3, <1>4, <1>5 DEF M

\* The satellite's remainder is what the division leaves behind the message.
LEMMA RemainderIs ==
    ASSUME NEW crc, NEW w \in Nat, IsWide(crc, w), NEW n \in Nat, NEW bits \in Word(n)
    PROVE  \E q : /\ q[0] = Dividend(crc, bits) /\ IsDivision(q, crc.poly, n, w)
                  /\ q[n] \in Word(n + w)
                  /\ Remainder(crc, bits) = SubSeq(q[n], n + 1, n + w)
<1> DEFINE poly == crc.poly
           d == Dividend(crc, bits)
<1>1. poly \in Word(w) /\ Len(poly) = w /\ Len(bits) = n /\ n \in 0..n
    BY WordIs DEF IsCrc, IsWide
<1>2. d \in Word(n + w)
    BY DividendIs
<1>3. PICK q : q[0] = d /\ q[n] = Divided(poly, d, n) /\ IsDivision(q, poly, n, w)
    <2> HIDE DEF d, poly
    <2> QED
        BY <1>1, <1>2, DividedIs
<1>4. q[n] \in Word(n + w)
    BY <1>1, <1>3 DEF IsDivision
<1>5. Remainder(crc, bits) = SubSeq(Divided(poly, d, n), n + 1, n + w)
    BY <1>1 DEF Remainder, Divided, Dividend, IsWide
<1> QED
    BY <1>3, <1>4, <1>5

\* After all bytes the register holds the remainder of the division.
LEMMA RegisterIs ==
    ASSUME NEW crc, NEW w \in Nat, IsWide(crc, w),
           NEW B \in Nat, NEW n \in Nat, Spans(n, B), NEW bits \in Word(n)
    PROVE  Register(crc, bits) \in Word(w) /\ Register(crc, bits) = Remainder(crc, bits)
<1> DEFINE M == bits \o Zeros(w)
           g == [b \in 1..B |-> [r \in Word(w) |-> CrcByte(crc, r, SubSeq(bits, 8 * b - 7, 8 * b))]]
<1>1. /\ w >= 8 /\ w = 8 * crc.bytes /\ Len(bits) = n /\ n = 8 * B /\ n \div 8 = B
      /\ crc.init \in Word(w) /\ crc.poly \in Word(w)
      /\ \A p \in 1..w : crc.init[p] \in Bits
    <2>1. w >= 8 /\ w = 8 * crc.bytes /\ n = 8 * B /\ n \div 8 = B
        BY DEF IsWide, Spans
    <2>2. crc.init \in Word(w) /\ crc.poly \in Word(w)
        BY DEF IsCrc, IsWide
    <2> QED
        BY <2>1, <2>2, WordIs
<1>1a. bits \in Word(n) /\ IsWide(crc, w)
    OBVIOUS
<1>2. PICK q : /\ q[0] = Dividend(crc, bits) /\ IsDivision(q, crc.poly, n, w)
               /\ q[n] \in Word(n + w)
               /\ Remainder(crc, bits) = SubSeq(q[n], n + 1, n + w)
    BY RemainderIs
<1>3. /\ M \in Word(n + w) /\ q[0] \in Word(n + w)
      /\ \A p \in 1..(n + w) :
           /\ M[p] = IF p <= n THEN bits[p] ELSE 0
           /\ q[0][p] = Xor(IF p <= n THEN bits[p] ELSE 0, IF p <= w THEN crc.init[p] ELSE 0)
    <2> DEFINE d == Dividend(crc, bits)
    <2>1. /\ M \in Word(n + w) /\ d \in Word(n + w)
          /\ \A p \in 1..(n + w) :
               /\ M[p] = IF p <= n THEN bits[p] ELSE 0
               /\ d[p] = Xor(IF p <= n THEN bits[p] ELSE 0, IF p <= w THEN crc.init[p] ELSE 0)
        BY DividendIs, Zenon
    <2> HIDE DEF d, M
    <2>2. q[0] = d
        BY <1>2 DEF d
    <2> QED
        BY <2>1, <2>2
<1> HIDE DEF M
<1>4. \A p \in 1..(n + w) : M[p] \in Bits /\ q[0][p] \in Bits
    BY <1>3 DEF Word
<1>5. BeginsAs(q, M, n, w)
    <2> SUFFICES ASSUME NEW p \in 1..(n + w), p > w PROVE q[0][p] = M[p]
        BY DEF BeginsAs
    <2>1. q[0][p] = Xor(M[p], 0)
        BY <1>3
    <2> QED
        BY <1>4, <2>1, XorIs
<1> DEFINE J == [b \in 0..B |-> {r \in Word(w) : Holds(r, q, M, 8 * b, w)}]
<1>6. crc.init \in J[0]
    <2>1. Holds(crc.init, q, M, 0, w)
        <3> SUFFICES ASSUME NEW j \in 1..w PROVE crc.init[j] = Xor(q[0][j], M[j])
            BY DEF Holds
        <3>1. j \in 1..(n + w) /\ q[0][j] = Xor(M[j], crc.init[j]) /\ M[j] \in Bits /\ crc.init[j] \in Bits
            BY <1>1, <1>3, <1>4
        <3> QED
            BY <3>1, XorIs
    <2>2. J[0] = {r \in Word(w) : Holds(r, q, M, 0, w)}
        OBVIOUS
    <2> HIDE DEF J
    <2> QED
        BY <1>1, <2>1, <2>2
<1>7. ASSUME NEW b \in 0..(B - 1), NEW r \in J[b] PROVE g[b + 1][r] \in J[b + 1]
    <2> DEFINE at == 8 * b
               byte == SubSeq(bits, 8 * (b + 1) - 7, 8 * (b + 1))
    <2>1. /\ at \in Nat /\ at + 8 <= n /\ b \in 0..B /\ b + 1 \in 1..B /\ b + 1 \in 0..B
          /\ 8 * (b + 1) - 7 = at + 1 /\ 8 * (b + 1) = at + 8
        BY <1>1
    <2>2. r \in Word(w) /\ Holds(r, q, M, at, w)
        BY <2>1
    <2>3. g[b + 1][r] = CrcByte(crc, r, byte)
        BY <2>1, <2>2
    <2>4. byte \in Word(8) /\ IsByte(byte, M, at)
        <3> DEFINE i == at + 1
                   j == at + 8
        <3>1. i \in 1..(n + 1) /\ j \in (i - 1)..n /\ j - i + 1 = 8
            BY <2>1
        <3>2. byte = SubSeq(bits, i, j)
            BY <2>1
        <3> HIDE DEF byte, i, j
        <3>3. byte \in Word(8) /\ \A k \in 1..8 : byte[k] = bits[i + k - 1]
            <4>1. /\ SubSeq(bits, i, j) \in Word(j - i + 1)
                  /\ \A k \in 1..(j - i + 1) : SubSeq(bits, i, j)[k] = bits[i + k - 1]
                BY <3>1, SubIs, Zenon
            <4> QED
                BY <3>1, <3>2, <4>1
        <3>4. \A k \in 1..8 : i + k - 1 = at + k /\ at + k <= n /\ at + k \in 1..(n + w)
            BY <2>1 DEF i
        <3>5. \A k \in 1..8 : byte[k] = M[at + k]
            <4> TAKE k \in 1..8
            <4>1. byte[k] = bits[i + k - 1]
                BY <3>3
            <4>2. i + k - 1 = at + k /\ at + k \in 1..(n + w) /\ at + k <= n
                <5> HIDE DEF at
                <5> QED
                    BY <3>4, Zenon
            <4> HIDE DEF at
            <4> QED
                BY <1>3, <4>1, <4>2
        <3> QED
            BY <3>3, <3>5 DEF IsByte
    <2>5. J[b + 1] = {x \in Word(w) : Holds(x, q, M, at + 8, w)}
        BY <2>1
    <2> HIDE DEF g, J, at, byte
    <2>6. CrcByte(crc, r, byte) \in Word(w) /\ Holds(CrcByte(crc, r, byte), q, M, at + 8, w)
        BY <1>1, <1>2, <1>3, <1>5, <2>1, <2>2, <2>4, ByteIs DEF IsWide
    <2> QED
        BY <2>3, <2>5, <2>6
<1>8. Register(crc, bits) = Iterated(g, crc.init, B)
    BY <1>1 DEF Register
<1> DEFINE reg == Register(crc, bits)
<1>9. reg \in Word(w) /\ Holds(reg, q, M, n, w)
    <2>1. J[B] = {r \in Word(w) : Holds(r, q, M, n, w)}
        BY <1>1
    <2> HIDE DEF g, J
    <2>2. Kept(g, crc.init, B, J)
        BY <1>6, <1>7 DEF Kept
    <2>3. Iterated(g, crc.init, B) \in J[B]
        BY <2>2, Trace, Zenon
    <2> QED
        BY <1>8, <2>1, <2>3
<1> HIDE DEF reg
<1> DEFINE i == n + 1
           m == n + w
           rem == SubSeq(q[n], i, m)
<1>10. rem \in Word(w) /\ \A j \in 1..w : rem[j] = q[n][n + j]
    <2>1. m \in Nat /\ i \in 1..(m + 1) /\ m \in (i - 1)..m /\ m - i + 1 = w /\ q[n] \in Word(m)
        BY <1>2
    <2> DEFINE qn == q[n]
    <2> HIDE DEF i, m, qn
    <2>2. SubSeq(qn, i, m) \in Word(m - i + 1) /\ \A k \in 1..(m - i + 1) : SubSeq(qn, i, m)[k] = qn[i + k - 1]
        BY <2>1, SubIs DEF qn
    <2>3. \A k \in 1..w : i + k - 1 = n + k
        BY DEF i
    <2> QED
        BY <2>1, <2>2, <2>3 DEF qn
<1> HIDE DEF rem
<1>11. \A j \in 1..w : reg[j] = rem[j]
    <2> TAKE j \in 1..w
    <2>1. n + j \in 1..(n + w) /\ M[n + j] = 0
        BY <1>3
    <2>2. q[n][n + j] \in Bits
        BY <1>2, <2>1 DEF Word
    <2>3. reg[j] = Xor(q[n][n + j], 0)
        BY <1>9, <2>1 DEF Holds
    <2> QED
        BY <1>10, <2>2, <2>3, XorIs
<1>12. reg = rem
    BY <1>9, <1>10, <1>11, WordsEqual
<1> QED
    BY <1>2, <1>9, <1>12 DEF reg, rem

\* Two dividends that differ in a window of w bits leave different remainders:
\* the window moves along, and never becomes empty, since poly[w] = 1.
Differ(q, r, D, n, i, p) == Xor(Xor(r[i][p], q[i][p]), IF p > n THEN D[p] ELSE 0)

InWindow(q, r, D, n, w, i) ==
    \E j \in i..(n + w) :
      /\ \E p \in 1..(n + w) : Differ(q, r, D, n, i, p) = 1
      /\ \A p \in 1..(n + w) : Differ(q, r, D, n, i, p) = 1 => p \in (j + 1)..(j + w)

DifferStep(q, r, D, poly, n, w, i) ==
    /\ \A p \in 1..(n + w) : /\ Differ(q, r, D, n, i, p) \in Bits
                             /\ Differ(q, r, D, n, i + 1, p) \in Bits
    /\ Differ(q, r, D, n, i + 1, i + 1) = 0
    /\ \A j \in 1..w :
         Differ(q, r, D, n, i + 1, i + 1 + j) =
           IF Differ(q, r, D, n, i, i + 1) = 1
           THEN Xor(Differ(q, r, D, n, i, i + 1 + j), poly[j])
           ELSE Differ(q, r, D, n, i, i + 1 + j)
    /\ \A p \in 1..(n + w) : p < i + 1 \/ p > i + 1 + w =>
         Differ(q, r, D, n, i + 1, p) = Differ(q, r, D, n, i, p)

\* How a difference of two dividends goes through one pass.
LEMMA DifferIs ==
    ASSUME NEW n \in Nat, NEW w \in Nat, NEW poly \in Word(w), NEW D \in Word(n + w),
           NEW q, NEW r, IsDivision(q, poly, n, w), IsDivision(r, poly, n, w),
           NEW i \in 0..(n - 1)
    PROVE  DifferStep(q, r, D, poly, n, w, i)
<1> DEFINE k == i + 1
           a(p) == q[i][p]
           b(p) == r[i][p]
           x(p) == q[k][p]
           y(p) == r[k][p]
           z(p) == IF p > n THEN D[p] ELSE 0
<1>0. k \in 1..n /\ k \in 1..(n + w) /\ ~(k > n)
    OBVIOUS
<1>1. /\ q[i] \in Word(n + w) /\ q[k] \in Word(n + w) /\ q[k][k] = 0
      /\ \A j \in 1..w : q[k][k + j] = IF q[i][k] = 1 THEN Xor(q[i][k + j], poly[j]) ELSE q[i][k + j]
      /\ \A p \in 1..(n + w) : p < k \/ p > k + w => q[k][p] = q[i][p]
    <2>1. IsStep(q, poly, n, w, i)
        BY StepIs
    <2> QED
        BY <2>1 DEF IsStep
<1>2. /\ r[i] \in Word(n + w) /\ r[k] \in Word(n + w) /\ r[k][k] = 0
      /\ \A j \in 1..w : r[k][k + j] = IF r[i][k] = 1 THEN Xor(r[i][k + j], poly[j]) ELSE r[i][k + j]
      /\ \A p \in 1..(n + w) : p < k \/ p > k + w => r[k][p] = r[i][p]
    <2>1. IsStep(r, poly, n, w, i)
        BY StepIs
    <2> QED
        BY <2>1 DEF IsStep
<1>3. \A p \in 1..(n + w) :
        /\ a(p) \in Bits /\ b(p) \in Bits /\ x(p) \in Bits /\ y(p) \in Bits /\ z(p) \in Bits
    <2>1. 0 \in Bits
        BY DEF Bits
    <2> HIDE DEF k
    <2> QED
        BY <1>1, <1>2, <2>1 DEF Word
<1>4. \A j \in 1..w : poly[j] \in Bits /\ k + j \in 1..(n + w)
    BY <1>0 DEF Word
<1>5. /\ x(k) = 0 /\ y(k) = 0 /\ z(k) = 0
      /\ \A j \in 1..w : /\ x(k + j) = IF a(k) = 1 THEN Xor(a(k + j), poly[j]) ELSE a(k + j)
                         /\ y(k + j) = IF b(k) = 1 THEN Xor(b(k + j), poly[j]) ELSE b(k + j)
      /\ \A p \in 1..(n + w) : p < k \/ p > k + w => x(p) = a(p) /\ y(p) = b(p)
    <2> HIDE DEF k
    <2> QED
        BY <1>0, <1>1, <1>2
<1>6. \A p : /\ Differ(q, r, D, n, i, p) = Xor(Xor(b(p), a(p)), z(p))
             /\ Differ(q, r, D, n, k, p) = Xor(Xor(y(p), x(p)), z(p))
    BY DEF Differ
<1> HIDE DEF k, a, b, x, y, z
<1>7. \A p \in 1..(n + w) : /\ Differ(q, r, D, n, i, p) \in Bits
                            /\ Differ(q, r, D, n, k, p) \in Bits
    BY <1>3, <1>6, XorIs
<1>8. Differ(q, r, D, n, k, k) = 0
    BY <1>5, <1>6 DEF Xor
<1>9. ASSUME NEW j \in 1..w
      PROVE  Differ(q, r, D, n, k, k + j) =
                  IF Differ(q, r, D, n, i, k) = 1
                  THEN Xor(Differ(q, r, D, n, i, k + j), poly[j])
                  ELSE Differ(q, r, D, n, i, k + j)
    <2>1. /\ a(k) \in Bits /\ b(k) \in Bits /\ a(k + j) \in Bits /\ b(k + j) \in Bits
          /\ z(k + j) \in Bits /\ poly[j] \in Bits
        BY <1>0, <1>3, <1>4
    <2>2. Differ(q, r, D, n, i, k) = Xor(b(k), a(k))
        BY <1>5, <1>6, <2>1, XorIs
    <2>3. \A a1, b1, c1, d1 \in Bits :
             /\ Xor(Xor(Xor(b1, d1), Xor(a1, d1)), c1) = Xor(Xor(b1, a1), c1)
             /\ Xor(Xor(Xor(b1, d1), a1), c1) = Xor(Xor(Xor(b1, a1), c1), d1)
             /\ Xor(Xor(b1, Xor(a1, d1)), c1) = Xor(Xor(Xor(b1, a1), c1), d1)
        BY DEF Xor, Bits
    <2>4. Xor(1, 0) = 1 /\ Xor(0, 1) = 1 /\ Xor(0, 0) = 0 /\ Xor(1, 1) = 0
        BY DEF Xor
    <2>5. /\ x(k + j) = IF a(k) = 1 THEN Xor(a(k + j), poly[j]) ELSE a(k + j)
          /\ y(k + j) = IF b(k) = 1 THEN Xor(b(k + j), poly[j]) ELSE b(k + j)
          /\ Differ(q, r, D, n, i, k + j) = Xor(Xor(b(k + j), a(k + j)), z(k + j))
          /\ Differ(q, r, D, n, k, k + j) = Xor(Xor(y(k + j), x(k + j)), z(k + j))
        BY <1>5, <1>6
    <2>6. (a(k) = 0 \/ a(k) = 1) /\ (b(k) = 0 \/ b(k) = 1)
        BY <2>1 DEF Bits
    <2> QED
        <3>1. CASE a(k) = 0 /\ b(k) = 0
            BY <2>1, <2>2, <2>4, <2>5, <3>1
        <3>2. CASE a(k) = 0 /\ b(k) = 1
            BY <2>1, <2>2, <2>3, <2>4, <2>5, <3>2
        <3>3. CASE a(k) = 1 /\ b(k) = 0
            BY <2>1, <2>2, <2>3, <2>4, <2>5, <3>3
        <3>4. CASE a(k) = 1 /\ b(k) = 1
            BY <2>1, <2>2, <2>3, <2>4, <2>5, <3>4
        <3> QED
            BY <2>6, <3>1, <3>2, <3>3, <3>4
<1>10. \A p \in 1..(n + w) : p < k \/ p > k + w =>
         Differ(q, r, D, n, k, p) = Differ(q, r, D, n, i, p)
    BY <1>5, <1>6
<1> QED
    BY <1>7, <1>8, <1>9, <1>10 DEF DifferStep, k

\* A difference within w bits stays one within w bits: a polynomial that ends in 1
\* cannot clear its last bit.
LEMMA WindowKept ==
    ASSUME NEW n \in Nat, NEW w \in Nat, w > 0, NEW poly \in Word(w), poly[w] = 1,
           NEW D \in Word(n + w),
           NEW q, NEW r, IsDivision(q, poly, n, w), IsDivision(r, poly, n, w),
           NEW i \in 0..(n - 1), InWindow(q, r, D, n, w, i)
    PROVE  InWindow(q, r, D, n, w, i + 1)
<1> DEFINE k == i + 1
           old(p) == Differ(q, r, D, n, i, p)
           new(p) == Differ(q, r, D, n, k, p)
           N == n + w
<1>1. /\ \A p \in 1..N : old(p) \in Bits /\ new(p) \in Bits
      /\ new(k) = 0
      /\ \A j \in 1..w : new(k + j) = IF old(k) = 1 THEN Xor(old(k + j), poly[j]) ELSE old(k + j)
      /\ \A p \in 1..N : p < k \/ p > k + w => new(p) = old(p)
    <2>1. DifferStep(q, r, D, poly, n, w, i)
        BY DifferIs
    <2> QED
        BY <2>1 DEF DifferStep
<1>2. PICK j \in i..N : /\ \E p \in 1..N : old(p) = 1
                        /\ \A p \in 1..N : old(p) = 1 => p \in (j + 1)..(j + w)
    BY DEF InWindow
<1>3. /\ k \in 1..n /\ k \in 1..N /\ k \in Nat /\ i \in Nat /\ N \in Nat /\ N = n + w
      /\ k + w \in 1..N /\ w \in 1..w /\ k = i + 1 /\ w \in Nat /\ w > 0
    OBVIOUS
<1>4. \A p \in 1..N : p > k /\ ~(p > k + w) => p - k \in 1..w /\ k + (p - k) = p
    BY <1>3
<1> SUFFICES \E m \in k..N : /\ \E p \in 1..N : new(p) = 1
                             /\ \A p \in 1..N : new(p) = 1 => p \in (m + 1)..(m + w)
    BY DEF InWindow
<1> HIDE DEF old, new, k, N
<1>5. CASE old(k) # 1
    <2>0. old(k) = 0
        BY <1>1, <1>3, <1>5 DEF Bits
    <2>1. \A p \in 1..N : new(p) = old(p)
        <3> TAKE p \in 1..N
        <3>1. CASE p < k \/ p > k + w
            BY <1>1, <3>1
        <3>2. CASE p = k
            BY <1>1, <2>0, <3>2
        <3>3. CASE p > k /\ ~(p > k + w)
            <4> DEFINE o == p - k
            <4>1. o \in 1..w /\ k + o = p
                BY <1>4, <3>3
            <4> HIDE DEF o
            <4>2. new(k + o) = old(k + o)
                BY <1>1, <1>5, <4>1
            <4> QED
                BY <4>1, <4>2
        <3> QED
            BY <1>3, <3>1, <3>2, <3>3
    <2>2. CASE j >= k
        BY <1>2, <1>3, <2>1, <2>2
    <2>3. CASE j < k
        <3>1. j = i
            BY <1>2, <1>3, <2>3
        <3>2. \A p \in 1..N : new(p) = 1 => p \in (k + 1)..(k + w)
            <4> SUFFICES ASSUME NEW p \in 1..N, new(p) = 1 PROVE p \in (k + 1)..(k + w)
                OBVIOUS
            <4>1. p \in (i + 1)..(i + w)
                BY <1>2, <2>1, <3>1
            <4>2. p # k
                BY <1>1
            <4> QED
                BY <1>3, <4>1, <4>2
        <3>3. \E p \in 1..N : new(p) = 1
            BY <1>2, <2>1
        <3>4. k \in k..N
            BY <1>3
        <3> QED
            BY <3>2, <3>3, <3>4
    <2> QED
        BY <1>2, <1>3, <2>2, <2>3
<1>6. CASE old(k) = 1
    <2>1. j = i
        <3>1. k \in (j + 1)..(j + w)
            BY <1>2, <1>3, <1>6
        <3> QED
            BY <1>2, <1>3, <3>1
    <2>2. new(k + w) = 1
        <3>1. old(k + w) # 1
            BY <1>2, <1>3, <2>1
        <3>2. old(k + w) = 0
            BY <1>1, <1>3, <3>1 DEF Bits
        <3>3. new(k + w) = Xor(old(k + w), poly[w])
            BY <1>1, <1>3, <1>6
        <3> QED
            BY <3>2, <3>3 DEF Xor
    <2>3. \A p \in 1..N : new(p) = 1 => p \in (k + 1)..(k + w)
        <3> SUFFICES ASSUME NEW p \in 1..N, new(p) = 1 PROVE p \in (k + 1)..(k + w)
            OBVIOUS
        <3>1. p # k
            BY <1>1
        <3>2. ASSUME p < k \/ p > k + w PROVE FALSE
            <4>1. old(p) = 1
                BY <1>1, <3>2
            <4>2. p \in (i + 1)..(i + w)
                BY <1>2, <2>1, <4>1
            <4> QED
                BY <1>3, <3>2, <4>2
        <3> QED
            BY <1>3, <3>1, <3>2
    <2>4. k \in k..N
        BY <1>3
    <2> QED
        BY <1>3, <2>2, <2>3, <2>4
<1> QED
    BY <1>5, <1>6

\* So dividends that differ within w bits have different remainders.
LEMMA RemaindersDiffer ==
    ASSUME NEW n \in Nat, NEW w \in Nat, w > 0, NEW poly \in Word(w), poly[w] = 1,
           NEW D \in Word(n + w),
           NEW q, NEW r, IsDivision(q, poly, n, w), IsDivision(r, poly, n, w),
           InWindow(q, r, D, n, w, 0)
    PROVE  \E p \in (n + 1)..(n + w) : Xor(Xor(r[n][p], q[n][p]), D[p]) = 1
<1> DEFINE S == {i \in 0..n : InWindow(q, r, D, n, w, i)}
<1>1. 0 \in S
    OBVIOUS
<1>2. ASSUME NEW i \in 0..(n - 1), i \in S PROVE i + 1 \in S
    <2>1. InWindow(q, r, D, n, w, i) /\ i + 1 \in 0..n
        BY <1>2
    <2>2. InWindow(q, r, D, n, w, i + 1)
        BY <2>1, WindowKept, Zenon
    <2> QED
        BY <2>1, <2>2
<1>3. n \in S
    <2> HIDE DEF S
    <2>1. \A i \in 0..n : i \in S
        BY <1>1, <1>2, UpTo
    <2> QED
        BY <2>1
<1>4. PICK j \in n..(n + w) :
         /\ \E p \in 1..(n + w) : Differ(q, r, D, n, n, p) = 1
         /\ \A p \in 1..(n + w) : Differ(q, r, D, n, n, p) = 1 => p \in (j + 1)..(j + w)
    BY <1>3 DEF InWindow
<1>5. PICK p \in 1..(n + w) : Differ(q, r, D, n, n, p) = 1
    BY <1>4
<1>6. p \in (n + 1)..(n + w) /\ p > n
    BY <1>4, <1>5
<1> QED
    BY <1>5, <1>6 DEF Differ

\* A word turned round, twice.
LEMMA TurnedRound ==
    ASSUME NEW w \in Nat, NEW s \in Word(w)
    PROVE  /\ Reverse(s) \in Word(w) /\ Reverse(Reverse(s)) = s
           /\ \A i \in 1..w : Reverse(s)[i] = s[w + 1 - i]
<1>1. \A t \in Word(w) : /\ Reverse(t) \in Word(w)
                         /\ \A i \in 1..w : Reverse(t)[i] = t[w + 1 - i]
    <2> TAKE t \in Word(w)
    <2>1. Len(t) = w
        BY WordIs
    <2>2. \A i \in 1..w : w - i + 1 = w + 1 - i /\ w + 1 - i \in 1..w
        OBVIOUS
    <2> QED
        BY <2>1, <2>2 DEF Reverse, Word
<1>2. \A i \in 1..w : w + 1 - i \in 1..w /\ w + 1 - (w + 1 - i) = i
    OBVIOUS
<1>3. Reverse(Reverse(s)) \in Word(w) /\ \A i \in 1..w : Reverse(Reverse(s))[i] = s[i]
    BY <1>1, <1>2
<1>4. Reverse(Reverse(s)) = s
    BY <1>3, WordsEqual
<1> QED
    BY <1>1, <1>4

\* The register of the receiver, and what the satellite appends.
Sum(crc, bits) == Plus(Remainder(crc, bits), crc.xor)
Appended(crc, bits) == Plus(Remainder(crc, bits), IF crc.refout THEN Reverse(crc.xor) ELSE crc.xor)

\* refin turns the bytes round and back.
LEMMA OrderedIs ==
    ASSUME NEW crc, NEW n \in Nat, n % 8 = 0, NEW s \in Word(n)
    PROVE  Ordered(crc, s) \in Word(n) /\ Ordered(crc, Ordered(crc, s)) = s
    BY ReverseIs DEF Ordered

\* Receiver and satellite compute the same remainder.
LEMMA SumIs ==
    ASSUME NEW crc, NEW w \in Nat, IsWide(crc, w), NEW n \in Nat, n % 8 = 0, NEW s \in Word(n)
    PROVE  LET sum == Sum(crc, Ordered(crc, s))
               calc == IF crc.refout THEN Reverse(sum) ELSE sum
               field == Appended(crc, Ordered(crc, s))
           IN  /\ Remainder(crc, Ordered(crc, s)) \in Word(w) /\ sum \in Word(w) /\ calc \in Word(w)
               /\ CrcOf(crc, s) = calc
               /\ field \in Word(w) /\ WithCrc(crc, s) = s \o Ordered(crc, field)
               /\ calc = field <=> ~IsTurned(crc, s)
<1> DEFINE bits == Ordered(crc, s)
           B == n \div 8
           rem == Remainder(crc, bits)
           sum == Sum(crc, bits)
           calc == IF crc.refout THEN Reverse(sum) ELSE sum
           field == Appended(crc, bits)
           xor == crc.xor
<1>1. bits \in Word(n) /\ Len(bits) = n /\ Len(s) = n
    BY OrderedIs, WordIs
<1>2. B \in Nat /\ Spans(n, B)
    BY DEF Spans
<1>3. Register(crc, bits) = rem /\ rem \in Word(w)
    <2> HIDE DEF bits, B
    <2>1. Register(crc, bits) \in Word(w) /\ Register(crc, bits) = Remainder(crc, bits)
        BY <1>1, <1>2, RegisterIs
    <2> QED
        BY <2>1
<1>4. xor \in Word(w) /\ Reverse(xor) \in Word(w) /\ \A i \in 1..w : Reverse(xor)[i] = xor[w + 1 - i]
    <2>1. xor \in Word(w)
        BY DEF IsWide, IsCrc
    <2> HIDE DEF xor
    <2> QED
        BY <2>1, TurnedRound
<1>5. sum \in Word(w) /\ \A i \in 1..w : sum[i] = Xor(rem[i], xor[i])
    <2>1. sum = Plus(rem, xor)
        BY DEF Sum
    <2> HIDE DEF sum, rem, xor
    <2> QED
        BY <1>3, <1>4, <2>1, PlusIs
<1>6. calc \in Word(w)
    <2> HIDE DEF sum
    <2> QED
        BY <1>5, TurnedRound
<1>7. CrcOf(crc, s) = calc
    <2>1. CrcOf(crc, s) = LET xored == Plus(Register(crc, bits), crc.xor)
                          IN  IF crc.refout THEN Reverse(xored) ELSE xored
        BY <1>1 DEF CrcOf, Register
    <2> QED
        BY <1>3, <2>1 DEF Sum
<1>8. WithCrc(crc, s) = s \o Ordered(crc, field)
    <2>1. crc.bytes # 0
        BY DEF IsWide
    <2> QED
        BY <2>1 DEF WithCrc, Appended
<1>9. CASE ~crc.refout
    <2>1. field = sum /\ calc = sum /\ ~IsTurned(crc, s)
        BY <1>9 DEF Appended, Sum, IsTurned
    <2> QED
        BY <1>3, <1>5, <1>6, <1>7, <1>8, <2>1
<1>10. CASE crc.refout
    <2>1. field \in Word(w) /\ \A i \in 1..w : field[i] = Xor(rem[i], xor[w + 1 - i])
        <3>1. field = Plus(rem, Reverse(xor))
            BY <1>10 DEF Appended
        <3> HIDE DEF field, rem, xor
        <3>2. field \in Word(w) /\ \A i \in 1..w : field[i] = Xor(rem[i], Reverse(xor)[i])
            BY <1>3, <1>4, <3>1, PlusIs
        <3> QED
            BY <1>4, <3>2
    <2>2. \A i \in 1..w : w + 1 - i \in 1..w
        OBVIOUS
    <2>3. \A i \in 1..w : calc[i] = Xor(rem[w + 1 - i], xor[w + 1 - i])
        <3>1. calc = Reverse(sum)
            BY <1>10
        <3> HIDE DEF sum, calc, rem, xor
        <3>2. \A i \in 1..w : Reverse(sum)[i] = sum[w + 1 - i]
            BY <1>5, TurnedRound
        <3> QED
            BY <1>5, <2>2, <3>1, <3>2
    <2>4. Reverse(rem) \in Word(w) /\ \A i \in 1..w : Reverse(rem)[i] = rem[w + 1 - i]
        <3> HIDE DEF rem
        <3> QED
            BY <1>3, TurnedRound
    <2>5. IsTurned(crc, s) <=> rem # Reverse(rem)
        <3>1. crc.bytes > 0
            BY DEF IsWide
        <3> QED
            BY <1>10, <3>1 DEF IsTurned
    <2> HIDE DEF field, calc, rem, xor, sum, bits
    <2>6. \A i \in 1..w : rem[i] \in Bits /\ rem[w + 1 - i] \in Bits /\ xor[w + 1 - i] \in Bits
        BY <1>3, <1>4, <2>2, WordIs
    <2>7. \A x, y, z \in Bits : Xor(x, z) = Xor(y, z) <=> x = y
        BY DEF Xor, Bits
    <2>8. \A i \in 1..w : calc[i] = field[i] <=> Reverse(rem)[i] = rem[i]
        BY <2>1, <2>3, <2>4, <2>6, <2>7
    <2>9. calc = field <=> \A i \in 1..w : calc[i] = field[i]
        BY <1>6, <2>1, WordsEqual
    <2>10. rem = Reverse(rem) <=> \A i \in 1..w : Reverse(rem)[i] = rem[i]
        BY <1>3, <2>4, WordsEqual
    <2>11. calc = field <=> ~IsTurned(crc, s)
        BY <2>5, <2>8, <2>9, <2>10
    <2> QED
        BY <1>3, <1>5, <1>6, <1>7, <1>8, <2>1, <2>11 DEF field, calc, rem, sum, bits
<1> QED
    BY <1>9, <1>10

\* A packet of n bits and its CRC.
Message(s, n) == SubSeq(s, 1, n)
Field(s, n, w) == SubSeq(s, n + 1, n + w)

\* Message and CRC field of a packet.
LEMMA PartsAre ==
    ASSUME NEW n \in Nat, NEW w \in Nat, NEW s \in Word(n + w)
    PROVE  /\ Message(s, n) \in Word(n) /\ \A i \in 1..n : Message(s, n)[i] = s[i]
           /\ Field(s, n, w) \in Word(w) /\ \A i \in 1..w : Field(s, n, w)[i] = s[n + i]
<1> DEFINE N == n + w
           b == n + 1
<1>1. N \in Nat /\ 1 \in 1..(N + 1) /\ n \in (1 - 1)..N /\ n - 1 + 1 = n
    OBVIOUS
<1>2. b \in 1..(N + 1) /\ N \in (b - 1)..N /\ N - b + 1 = w
    OBVIOUS
<1>3. \A i \in 1..w : b + i - 1 = n + i
    OBVIOUS
<1>4. \A i \in 1..n : 1 + i - 1 = i
    OBVIOUS
<1>5. Field(s, n, w) = SubSeq(s, b, N)
    BY DEF Field
<1> HIDE DEF N, b
<1>6. SubSeq(s, 1, n) \in Word(n - 1 + 1) /\ \A i \in 1..(n - 1 + 1) : SubSeq(s, 1, n)[i] = s[1 + i - 1]
    BY <1>1, SubIs DEF N
<1>7. SubSeq(s, b, N) \in Word(N - b + 1) /\ \A i \in 1..(N - b + 1) : SubSeq(s, b, N)[i] = s[b + i - 1]
    BY <1>1, <1>2, SubIs DEF N
<1>8. Message(s, n) \in Word(n) /\ \A i \in 1..n : Message(s, n)[i] = s[i]
    BY <1>1, <1>4, <1>6 DEF Message
<1> QED
    BY <1>2, <1>3, <1>5, <1>7, <1>8

\* The check compares the CRC of the message with the field.
LEMMA CrcFailsIs ==
    ASSUME NEW crc, NEW w \in Nat, IsWide(crc, w), NEW n \in Nat, n % 8 = 0, n > 0,
           NEW s \in Word(n + w)
    PROVE  CrcFails(crc, s) <=> CrcOf(crc, Message(s, n)) # Ordered(crc, Field(s, n, w))
<1>1. Len(s) = n + w /\ 8 * crc.bytes = w /\ crc.bytes > 0 /\ (n + w) - w = n
    BY WordIs DEF IsWide
<1> QED
    BY <1>1 DEF CrcFails, Message, Field, Ordered

\* The receiver accepts what a satellite appends unless refout turns it round.
LEMMA WithCrcHolds ==
    ASSUME NEW crc, NEW w \in Nat, IsWide(crc, w), NEW n \in Nat, n % 8 = 0, n > 0, NEW s \in Word(n)
    PROVE  /\ WithCrc(crc, s) \in Word(n + w) /\ (CrcFails(crc, WithCrc(crc, s)) <=> IsTurned(crc, s))
           /\ \A i \in 1..n : WithCrc(crc, s)[i] = s[i]
<1> DEFINE calc == CrcOf(crc, s)
           own == Appended(crc, Ordered(crc, s))
           field == Ordered(crc, own)
           p == s \o field
<1>1. calc \in Word(w) /\ own \in Word(w) /\ WithCrc(crc, s) = p /\ (calc = own <=> ~IsTurned(crc, s))
    BY SumIs
<1>2. w % 8 = 0
    BY DEF IsWide
<1> HIDE DEF calc, own
<1>3. field \in Word(w) /\ Ordered(crc, field) = own
    BY <1>1, <1>2, OrderedIs
<1> HIDE DEF field
<1>4. p \in Word(n + w) /\ \A i \in 1..(n + w) : p[i] = IF i <= n THEN s[i] ELSE field[i - n]
    BY <1>3, ConcatIs
<1> HIDE DEF p
<1>5. Message(p, n) = s
    <2>1. Message(p, n) \in Word(n) /\ \A i \in 1..n : Message(p, n)[i] = s[i]
        BY <1>4, PartsAre
    <2> QED
        BY <2>1, WordsEqual
<1>6. Field(p, n, w) = field
    <2>1. Field(p, n, w) \in Word(w) /\ \A i \in 1..w : Field(p, n, w)[i] = p[n + i]
        BY <1>4, PartsAre
    <2>2. \A i \in 1..w : n + i \in 1..(n + w) /\ ~(n + i <= n) /\ (n + i) - n = i
        OBVIOUS
    <2>3. \A i \in 1..w : Field(p, n, w)[i] = field[i]
        BY <1>4, <2>1, <2>2
    <2> QED
        BY <1>3, <2>1, <2>3, WordsEqual
<1>7. CrcFails(crc, p) <=> CrcOf(crc, Message(p, n)) # Ordered(crc, Field(p, n, w))
    BY <1>4, CrcFailsIs
<1>8. \A i \in 1..n : p[i] = s[i]
    <2>1. \A i \in 1..n : i \in 1..(n + w) /\ i <= n
        OBVIOUS
    <2> QED
        BY <1>4, <2>1
<1> QED
    BY <1>1, <1>3, <1>4, <1>5, <1>6, <1>7, <1>8 DEF calc

\* Whole bytes in front do not change how a bit is mirrored.
LEMMA MirrorBehind ==
    ASSUME NEW n \in Nat, n % 8 = 0, NEW k \in Nat \ {0}
    PROVE  Mirror(n + k) = n + Mirror(k)
<1>1. (n + k - 1) \div 8 = n \div 8 + (k - 1) \div 8 /\ (n + k - 1) % 8 = (k - 1) % 8 /\ 8 * (n \div 8) = n
    OBVIOUS
<1> QED
    BY <1>1 DEF Mirror

\* The order in which the CRC takes a packet's bits, and the way back.
LEMMA PlaceIs ==
    ASSUME NEW crc, NEW w \in Nat, w % 8 = 0, crc.refin \in BOOLEAN, NEW n \in Nat, n % 8 = 0
    PROVE  /\ \A i \in 1..(n + w) : Place(crc, i) \in 1..(n + w) /\ Place(crc, Place(crc, i)) = i
           /\ \A k \in 1..w : Place(crc, n + k) = n + Place(crc, k)
<1> DEFINE N == n + w
<1>1. N \in Nat /\ N % 8 = 0
    OBVIOUS
<1> HIDE DEF N
<1>2. \A i \in 1..N : Place(crc, i) \in 1..N /\ Place(crc, Place(crc, i)) = i
    BY <1>1, MirrorIs DEF Place
<1>3. \A k \in 1..w : Place(crc, n + k) = n + Place(crc, k)
    <2>1. \A k \in Nat \ {0} : Mirror(n + k) = n + Mirror(k)
        BY MirrorBehind, Zenon
    <2>2. \A k \in 1..w : k \in Nat \ {0}
        OBVIOUS
    <2> QED
        BY <2>1, <2>2 DEF Place
<1> QED
    BY <1>2, <1>3 DEF N

\* Whether the CRC fits, bit by bit in its own order.
LEMMA Fits ==
    ASSUME NEW crc, NEW w \in Nat, w % 8 = 0, IsWide(crc, w), ~crc.refout,
           NEW n \in Nat, n % 8 = 0, n > 0, NEW s \in Word(n + w), ~CrcFails(crc, s)
    PROVE  LET bits == Ordered(crc, Message(s, n))
           IN  /\ \A i \in 1..n : bits[i] = s[Place(crc, i)]
               /\ Remainder(crc, bits) \in Word(w)
               /\ \A j \in 1..w : Xor(Remainder(crc, bits)[j], crc.xor[j]) = s[Place(crc, n + j)]
<1> DEFINE msg == Message(s, n)
           fld == Field(s, n, w)
           bits == Ordered(crc, msg)
           rem == Remainder(crc, bits)
           sum == Sum(crc, bits)
<1>1. /\ msg \in Word(n) /\ \A i \in 1..n : msg[i] = s[i]
      /\ fld \in Word(w) /\ \A i \in 1..w : fld[i] = s[n + i]
    BY PartsAre
<1>2. rem \in Word(w) /\ sum \in Word(w) /\ CrcOf(crc, msg) = sum
    <2> HIDE DEF msg
    <2> QED
        BY <1>1, SumIs
<1>3. sum = Ordered(crc, fld)
    <2>1. CrcOf(crc, msg) = Ordered(crc, fld)
        BY CrcFailsIs
    <2> QED
        BY <1>2, <2>1
<1> HIDE DEF msg, fld
<1>4. \A i \in 1..n : Place(crc, i) \in 1..n /\ bits[i] = msg[Place(crc, i)]
    BY <1>1, ReverseIs, MirrorIs DEF Ordered, Place
<1>5. \A k \in 1..w : Place(crc, k) \in 1..w /\ Ordered(crc, fld)[k] = fld[Place(crc, k)]
    BY <1>1, ReverseIs, MirrorIs DEF Ordered, Place
<1>6. \A i \in 1..n : bits[i] = s[Place(crc, i)]
    BY <1>1, <1>4
<1>7. \A j \in 1..w : Xor(rem[j], crc.xor[j]) = s[Place(crc, n + j)]
    <2> TAKE j \in 1..w
    <2>1. Place(crc, n + j) = n + Place(crc, j)
        <3>1. crc.refin \in BOOLEAN
            BY DEF IsWide, IsCrc
        <3> QED
            BY <3>1, PlaceIs
    <2>2. sum[j] = Xor(rem[j], crc.xor[j])
        <3>1. crc.xor \in Word(w)
            BY DEF IsWide, IsCrc
        <3>2. sum = Plus(rem, crc.xor)
            BY DEF Sum
        <3> HIDE DEF sum, rem
        <3> QED
            BY <1>2, <3>1, <3>2, PlusIs
    <2> HIDE DEF sum, rem
    <2> QED
        BY <1>1, <1>3, <1>5, <2>1, <2>2
<1> QED
    BY <1>2, <1>6, <1>7 DEF msg

\* No burst as wide as the CRC leaves both halves of a packet in agreement.
LEMMA BurstFails ==
    ASSUME NEW crc, NEW w \in Nat, w % 8 = 0, IsWide(crc, w), ~crc.refout, NEW n \in Nat, n % 8 = 0, n > 0,
           NEW s \in Word(n + w), ~CrcFails(crc, s),
           NEW hit \in SUBSET (1..(n + w)), IsBurst(crc, n + w, hit)
    PROVE  CrcFails(crc, Flipped(s, hit))
<1> DEFINE N == n + w
           o(i) == Place(crc, i)
           f == Flipped(s, hit)
           D == [i \in 1..N |-> IF o(i) \in hit THEN 1 ELSE 0]
           a == Ordered(crc, Message(s, n))
           b == Ordered(crc, Message(f, n))
<1>1. SUFFICES ASSUME ~CrcFails(crc, f) PROVE FALSE
    OBVIOUS
<1>2. /\ w = 8 * crc.bytes /\ w > 0 /\ N \in Nat
      /\ crc.poly \in Word(w) /\ crc.poly[w] = 1 /\ crc.init \in Word(w) /\ crc.xor \in Word(w)
      /\ crc.refin \in BOOLEAN
    BY DEF IsWide, IsCrc
<1>3. /\ \A i \in 1..N : o(i) \in 1..N /\ Place(crc, o(i)) = i
      /\ \A p \in 1..N : Place(crc, p) \in 1..N /\ o(Place(crc, p)) = p
    BY <1>2, PlaceIs
<1>4. f \in Word(N) /\ \A i \in 1..N : f[i] = IF i \in hit THEN 1 - s[i] ELSE s[i]
    BY <1>2, FlippedIs
<1> HIDE DEF f
<1>5. /\ \A i \in 1..n : a[i] = s[o(i)]
      /\ Remainder(crc, a) \in Word(w)
      /\ \A j \in 1..w : Xor(Remainder(crc, a)[j], crc.xor[j]) = s[o(n + j)]
    BY Fits
<1>6. /\ \A i \in 1..n : b[i] = f[o(i)]
      /\ Remainder(crc, b) \in Word(w)
      /\ \A j \in 1..w : Xor(Remainder(crc, b)[j], crc.xor[j]) = f[o(n + j)]
    <2>1. f \in Word(n + w) /\ ~CrcFails(crc, f)
        BY <1>1, <1>4
    <2> QED
        BY <2>1, Fits, Zenon
<1>7. a \in Word(n) /\ b \in Word(n)
    <2>1. Message(s, n) \in Word(n) /\ Message(f, n) \in Word(n)
        BY <1>4, PartsAre
    <2> QED
        BY <2>1, OrderedIs
<1> HIDE DEF a, b
<1>8. D \in Word(N) /\ \A i \in 1..N : D[i] \in Bits
    BY DEF Word, Bits
<1>9. \A i \in 1..N : Xor(f[o(i)], s[o(i)]) = D[i] /\ s[o(i)] \in Bits /\ f[o(i)] \in Bits
    <2> TAKE i \in 1..N
    <2>1. o(i) \in 1..N
        BY <1>3
    <2>2. s[o(i)] \in Bits /\ f[o(i)] \in Bits
        BY <1>4, <2>1 DEF Word
    <2>3. D[i] = IF o(i) \in hit THEN 1 ELSE 0
        OBVIOUS
    <2> HIDE DEF o, D
    <2>4. f[o(i)] = IF o(i) \in hit THEN 1 - s[o(i)] ELSE s[o(i)]
        BY <1>4, <2>1
    <2>5. \A c \in Bits : Xor(1 - c, c) = 1 /\ Xor(c, c) = 0
        BY DEF Xor, Bits
    <2> QED
        BY <2>2, <2>3, <2>4, <2>5
<1>10. PICK q : /\ q[0] = Dividend(crc, a) /\ IsDivision(q, crc.poly, n, w)
                /\ q[n] \in Word(n + w)
                /\ Remainder(crc, a) = SubSeq(q[n], n + 1, n + w)
    BY <1>7, RemainderIs, Zenon
<1>11. PICK r : /\ r[0] = Dividend(crc, b) /\ IsDivision(r, crc.poly, n, w)
                /\ r[n] \in Word(n + w)
                /\ Remainder(crc, b) = SubSeq(r[n], n + 1, n + w)
    BY <1>7, RemainderIs, Zenon
<1>12. /\ \A j \in 1..w : Remainder(crc, a)[j] = q[n][n + j]
       /\ \A j \in 1..w : Remainder(crc, b)[j] = r[n][n + j]
    <2> DEFINE x == q[n]
               y == r[n]
    <2>1. Remainder(crc, a) = Field(x, n, w) /\ Remainder(crc, b) = Field(y, n, w)
        BY <1>10, <1>11 DEF Field
    <2>2. x \in Word(n + w) /\ y \in Word(n + w)
        BY <1>10, <1>11
    <2> HIDE DEF x, y
    <2>3. \A j \in 1..w : Field(x, n, w)[j] = x[n + j] /\ Field(y, n, w)[j] = y[n + j]
        BY <2>2, PartsAre
    <2> QED
        BY <2>1, <2>3 DEF x, y
<1> DEFINE ahead(p) == IF p <= w THEN crc.init[p] ELSE 0
           shown(z, p) == IF p <= n THEN z[p] ELSE 0
<1>13. \A p \in 1..N : /\ q[0][p] = Xor(shown(a, p), ahead(p))
                       /\ r[0][p] = Xor(shown(b, p), ahead(p))
    <2> DEFINE x == q[0]
               y == r[0]
    <2>1. x = Dividend(crc, a) /\ y = Dividend(crc, b)
        BY <1>10, <1>11
    <2> HIDE DEF x, y, N
    <2>2. \A p \in 1..(n + w) : Dividend(crc, a)[p] = Xor(IF p <= n THEN a[p] ELSE 0,
                                                IF p <= w THEN crc.init[p] ELSE 0)
        BY <1>7, DividendIs
    <2>3. \A p \in 1..(n + w) : Dividend(crc, b)[p] = Xor(IF p <= n THEN b[p] ELSE 0,
                                                IF p <= w THEN crc.init[p] ELSE 0)
        BY <1>7, DividendIs
    <2> QED
        BY <2>1, <2>2, <2>3 DEF x, y, N
<1>14. \A p \in 1..N : Differ(q, r, D, n, 0, p) = D[p]
    <2> TAKE p \in 1..N
    <2>1. ahead(p) \in Bits /\ D[p] \in Bits
        <3>1. p <= w => p \in 1..w
            OBVIOUS
        <3> QED
            BY <1>2, <1>8, <3>1 DEF Word, Bits
    <2>2. \A x, y, z \in Bits : Xor(Xor(x, z), Xor(y, z)) = Xor(x, y) /\ Xor(Xor(0, z), Xor(0, z)) = 0
                                /\ Xor(x, 0) = x /\ Xor(0, x) = x
        BY DEF Xor, Bits
    <2>3. Differ(q, r, D, n, 0, p) = Xor(Xor(r[0][p], q[0][p]), IF p > n THEN D[p] ELSE 0)
        BY DEF Differ
    <2> HIDE DEF ahead, D, o
    <2>4. CASE p <= n
        <3>1. p \in 1..n /\ ~(p > n)
            BY <2>4
        <3>2. a[p] = s[o(p)] /\ b[p] = f[o(p)]
            BY <1>5, <1>6, <3>1
        <3>3. q[0][p] = Xor(a[p], ahead(p)) /\ r[0][p] = Xor(b[p], ahead(p))
            BY <1>13, <2>4
        <3>4. Xor(r[0][p], q[0][p]) = D[p]
            BY <1>9, <2>1, <2>2, <3>2, <3>3
        <3> QED
            BY <2>1, <2>2, <2>3, <3>1, <3>4
    <2>5. CASE ~(p <= n)
        <3>1. p > n
            BY <2>5
        <3>2. q[0][p] = Xor(0, ahead(p)) /\ r[0][p] = Xor(0, ahead(p))
            BY <1>13, <2>5
        <3>3. Xor(r[0][p], q[0][p]) = 0
            BY <2>1, <2>2, <3>2
        <3> QED
            BY <2>1, <2>2, <2>3, <3>1, <3>3
    <2> QED
        BY <2>4, <2>5
<1>15. InWindow(q, r, D, n, w, 0)
    <2>1. PICK from \in 1..N : \A h \in hit : Place(crc, h) \in from..(from + w - 1)
        BY <1>2 DEF IsBurst
    <2>2. PICK h \in hit : h \in 1..N
        BY DEF IsBurst
    <2> DEFINE j == from - 1
    <2>3. j \in 0..N /\ j + 1 = from /\ j + w = from + w - 1
        BY <1>2
    <2>4. Place(crc, h) \in 1..N /\ D[Place(crc, h)] = 1
        BY <1>3, <2>2
    <2>5. \A p \in 1..N : D[p] = 1 => p \in (j + 1)..(j + w)
        <3> SUFFICES ASSUME NEW p \in 1..N, D[p] = 1 PROVE p \in (j + 1)..(j + w)
            OBVIOUS
        <3>1. o(p) \in hit
            OBVIOUS
        <3> HIDE DEF o, j
        <3> QED
            BY <1>3, <2>1, <2>3, <3>1
    <2> HIDE DEF j, D
    <2>6. (\E p \in 1..N : Differ(q, r, D, n, 0, p) = 1)
          /\ \A p \in 1..N : Differ(q, r, D, n, 0, p) = 1 => p \in (j + 1)..(j + w)
        BY <1>14, <2>4, <2>5
    <2> QED
        BY <2>3, <2>6 DEF InWindow
<1>16. PICK p \in (n + 1)..(n + w) : Xor(Xor(r[n][p], q[n][p]), D[p]) = 1
    <2> HIDE DEF D, N
    <2>1. D \in Word(n + w)
        BY <1>8 DEF N
    <2> DEFINE poly == crc.poly
    <2>2. poly \in Word(w) /\ poly[w] = 1 /\ w > 0 /\ IsDivision(q, poly, n, w) /\ IsDivision(r, poly, n, w)
        BY <1>2, <1>10, <1>11
    <2> HIDE DEF poly, o, ahead, shown
    <2> QED
        BY <1>15, <2>1, <2>2, RemaindersDiffer
<1> DEFINE j == p - n
<1>17. j \in 1..w /\ n + j = p /\ p \in 1..N
    OBVIOUS
<1> HIDE DEF j
<1>18. /\ Xor(q[n][p], crc.xor[j]) = s[o(p)] /\ Xor(r[n][p], crc.xor[j]) = f[o(p)]
       /\ q[n][p] \in Bits /\ r[n][p] \in Bits /\ crc.xor[j] \in Bits
    <2>1. Xor(q[n][p], crc.xor[j]) = s[o(p)] /\ Xor(r[n][p], crc.xor[j]) = f[o(p)]
        <3> HIDE DEF o, D
        <3>1. /\ Remainder(crc, a)[j] = q[n][p] /\ Remainder(crc, b)[j] = r[n][p]
              /\ Xor(Remainder(crc, a)[j], crc.xor[j]) = s[o(n + j)]
              /\ Xor(Remainder(crc, b)[j], crc.xor[j]) = f[o(n + j)]
            BY <1>5, <1>6, <1>12, <1>17
        <3> QED
            BY <1>17, <3>1
    <2>2. q[n][p] \in Bits /\ r[n][p] \in Bits /\ crc.xor[j] \in Bits
        BY <1>2, <1>10, <1>11, <1>17 DEF Word
    <2> QED
        BY <2>1, <2>2
<1>19. \A x, y, z \in Bits : Xor(Xor(x, z), Xor(y, z)) = Xor(x, y) /\ Xor(x, x) = 0
    BY DEF Xor, Bits
<1>20. Xor(r[n][p], q[n][p]) = D[p] /\ D[p] \in Bits
    <2> HIDE DEF D, o
    <2> QED
        BY <1>8, <1>9, <1>17, <1>18, <1>19
<1> HIDE DEF D
<1> QED
    BY <1>16, <1>19, <1>20
\* ----------------------------- The line codes -----------------------------
\* The level stays where the bit is 1.
LEMMA LevelsAre ==
    ASSUME NEW n \in Nat, NEW s \in Word(n), NEW level \in Bits
    PROVE  /\ Levels(s, level) \in Word(n)
           /\ \A i \in 2..n : s[i] = 1 <=> Levels(s, level)[i] = Levels(s, level)[i - 1]
<1> DEFINE Z(i) == {j \in 1..i : s[j] = 0}
           c(i) == Cardinality(Z(i))
           l == Levels(s, level)
<1>1. \A i \in Nat : IsFiniteSet(Z(i)) /\ c(i) \in Nat
    <2> TAKE i \in Nat
    <2>1. IsFiniteSet(1..i) /\ Z(i) \in SUBSET (1..i)
        BY FS_Interval
    <2> HIDE DEF Z
    <2>2. IsFiniteSet(Z(i))
        BY <2>1, FS_Subset
    <2> QED
        BY <2>2, FS_CardinalityType
<1>2. l = [i \in 1..n |-> (level + c(i)) % 2]
    BY WordIs DEF Levels
<1>3. l \in Word(n)
    <2>1. \A i \in 1..n : (level + c(i)) % 2 \in Bits
        <3>1. \A a \in Nat : a % 2 \in Bits
            BY DEF Bits
        <3>2. \A i \in 1..n : c(i) \in Nat
            BY <1>1
        <3> HIDE DEF c
        <3>3. \A i \in 1..n : level + c(i) \in Nat
            BY <3>2 DEF Bits
        <3> QED
            BY <3>1, <3>3
    <2> HIDE DEF c, l
    <2> QED
        BY <1>2, <2>1 DEF Word
<1>4. ASSUME NEW i \in 2..n PROVE s[i] = 1 <=> l[i] = l[i - 1]
    <2> DEFINE k == i - 1
    <2>1. k \in 1..n /\ i \in 1..n /\ k \in Nat /\ i = k + 1 /\ i \in Nat
        OBVIOUS
    <2>2. l[i] = (level + c(i)) % 2 /\ l[k] = (level + c(k)) % 2
        <3> HIDE DEF c, l, k
        <3> QED
            BY <1>2, <2>1
    <2>3. s[i] \in Bits
        BY <2>1 DEF Word
    <2>4. CASE s[i] = 1
        <3>1. Z(i) = Z(k)
            BY <2>1, <2>4
        <3> HIDE DEF l, Z
        <3> QED
            BY <2>2, <2>4, <3>1
    <2>5. CASE s[i] = 0
        <3>1. Z(i) = Z(k) \cup {i} /\ i \notin Z(k)
            BY <2>1, <2>5
        <3>2. c(i) = c(k) + 1
            <4> HIDE DEF Z, k
            <4> QED
                BY <1>1, <2>1, <3>1, FS_AddElement
        <3>3. \A a \in Nat : (level + (a + 1)) % 2 # (level + a) % 2
            BY DEF Bits
        <3>4. c(k) \in Nat
            BY <1>1, <2>1
        <3>5. l[i] # l[k]
            <4> HIDE DEF l, c, k
            <4> QED
                BY <2>2, <3>2, <3>3, <3>4
        <3> QED
            BY <2>5, <3>5
    <2> QED
        BY <2>3, <2>4, <2>5 DEF Bits
<1> HIDE DEF l
<1> QED
    BY <1>3, <1>4 DEF l

\* A 1 where the level stays.
LEMMA NrziIs ==
    ASSUME NEW n \in Nat, NEW s \in Word(n)
    PROVE  /\ Nrzi(s) \in Word(n)
           /\ \A i \in 2..n : Nrzi(s)[i] = IF s[i] = s[i - 1] THEN 1 ELSE 0
<1>1. DOMAIN s = 1..n
    BY WordIs
<1> QED
    BY <1>1 DEF Nrzi, Word, Bits

\* Of a line that arrives as sent, up to where it is cut, the bits come back.
LEMMA NrziUndoes ==
    ASSUME NEW n \in Nat, NEW s \in Word(n), NEW level \in Bits, NEW k \in 0..n, NEW from \in 1..n,
           NEW r \in Word(k), \A i \in 1..k : i >= from => r[i] = Levels(s, level)[i]
    PROVE  Nrzi(r) \in Word(k) /\ \A i \in 1..k : i > from => Nrzi(r)[i] = s[i]
<1> DEFINE l == Levels(s, level)
<1>1. l \in Word(n) /\ \A i \in 2..n : s[i] = 1 <=> l[i] = l[i - 1]
    BY LevelsAre
<1>2. Nrzi(r) \in Word(k) /\ \A i \in 2..k : Nrzi(r)[i] = IF r[i] = r[i - 1] THEN 1 ELSE 0
    BY NrziIs
<1> HIDE DEF l
<1>3. ASSUME NEW i \in 1..k, i > from PROVE Nrzi(r)[i] = s[i]
    <2> DEFINE h == i - 1
    <2>1. i \in 2..k /\ i \in 2..n /\ h \in 1..k /\ h >= from /\ i >= from /\ i \in 1..n
        BY <1>3
    <2>2. r[i] = l[i] /\ r[h] = l[h]
        BY <2>1 DEF l
    <2>3. Nrzi(r)[i] = (IF r[i] = r[h] THEN 1 ELSE 0) /\ (s[i] = 1 <=> l[i] = l[h])
        BY <1>1, <1>2, <2>1
    <2>4. s[i] = 0 \/ s[i] = 1
        BY <2>1 DEF Word, Bits
    <2> HIDE DEF h
    <2> QED
        BY <2>2, <2>3, <2>4
<1> QED
    BY <1>2, <1>3

\* What the scrambler holds after each bit: the 17 of its content, and all it sent.
LEMMA ScrambledIs ==
    ASSUME NEW n \in Nat, NEW s \in Word(n), NEW content \in Word(17)
    PROVE  /\ Scrambled(s, content) \in Word(n)
           /\ \A i \in 1..n : i > 17 =>
                Scrambled(s, content)[i] =
                  Xor(s[i], Xor(Scrambled(s, content)[i - 12], Scrambled(s, content)[i - 17]))
<1> DEFINE Good(c, k) == \A i \in 1..k : c[17 + i] = Xor(s[i], Xor(c[i + 5], c[i]))
           next(c, k) == Append(c, Xor(s[k], Xor(c[k + 5], c[k])))
           g == [k \in 1..n |-> [c \in Word(k + 16) |-> next(c, k)]]
           J == [k \in 0..n |-> {c \in Word(k + 17) : Good(c, k)}]
<1>1. content \in J[0]
    OBVIOUS
<1>2. ASSUME NEW k \in 0..(n - 1), NEW c \in J[k] PROVE g[k + 1][c] \in J[k + 1]
    <2> DEFINE m == k + 17
               e == Xor(s[k + 1], Xor(c[k + 1 + 5], c[k + 1]))
               d == Append(c, e)
    <2>1. /\ c \in Word(m) /\ Good(c, k) /\ k \in Nat /\ m \in Nat /\ k + 1 \in 1..n
          /\ k + 1 + 16 = m /\ k + 1 + 17 = m + 1 /\ 17 + (k + 1) = m + 1
          /\ k + 1 + 5 \in 1..m /\ k + 1 \in 1..m
        OBVIOUS
    <2>2. g[k + 1][c] = next(c, k + 1)
        <3> HIDE DEF m, next
        <3> QED
            BY <2>1
    <2>3. e \in Bits
        <3>1. s[k + 1] \in Bits /\ c[k + 1 + 5] \in Bits /\ c[k + 1] \in Bits
            <4> HIDE DEF m
            <4> QED
                BY <2>1 DEF Word
        <3> QED
            BY <3>1, XorIs
    <2>4. d \in Word(m + 1) /\ d[m + 1] = e /\ \A i \in 1..m : d[i] = c[i]
        <3> HIDE DEF m, e
        <3> QED
            BY <2>1, <2>3, AppendIs
    <2>5. Good(d, k + 1)
        <3> HIDE DEF d
        <3> SUFFICES ASSUME NEW i \in 1..(k + 1) PROVE d[17 + i] = Xor(s[i], Xor(d[i + 5], d[i]))
            OBVIOUS
        <3>1. d[i + 5] = c[i + 5] /\ d[i] = c[i]
            BY <2>4
        <3>2. CASE i = k + 1
            BY <2>1, <2>4, <3>1, <3>2
        <3>3. CASE i \in 1..k
            <4>1. 17 + i \in 1..m
                BY <3>3
            <4>2. d[17 + i] = c[17 + i] /\ c[17 + i] = Xor(s[i], Xor(c[i + 5], c[i]))
                BY <2>1, <2>4, <3>3, <4>1
            <4> QED
                BY <3>1, <4>2
        <3> QED
            BY <3>2, <3>3
    <2>6. J[k + 1] = {x \in Word(m + 1) : Good(x, k + 1)}
        BY <2>1
    <2>7. next(c, k + 1) = d
        OBVIOUS
    <2> HIDE DEF g, J, Good, d, next
    <2> QED
        BY <2>2, <2>4, <2>5, <2>6, <2>7
<1> DEFINE c == Iterated(g, content, n)
           a == Scrambled(s, content)
           N == n + 17
<1>3. c \in Word(N) /\ Good(c, n)
    <2>1. J[n] = {x \in Word(N) : Good(x, n)}
        OBVIOUS
    <2> HIDE DEF g, J, Good, N
    <2>2. Kept(g, content, n, J)
        BY <1>1, <1>2 DEF Kept
    <2>3. Iterated(g, content, n) \in J[n]
        BY <2>2, Trace, Zenon
    <2> QED
        BY <2>1, <2>3
<1>4. a = SubSeq(c, 18, N)
    BY WordIs DEF Scrambled
<1> HIDE DEF c, a, g, J
<1>5. a \in Word(n) /\ \A i \in 1..n : a[i] = c[17 + i]
    <2> DEFINE b == 18
    <2>1. N \in Nat /\ b \in 1..(N + 1) /\ N \in (b - 1)..N /\ N - b + 1 = n
        OBVIOUS
    <2>2. \A i \in 1..n : b + i - 1 = 17 + i
        OBVIOUS
    <2> HIDE DEF N, b
    <2>3. SubSeq(c, b, N) \in Word(N - b + 1) /\ \A i \in 1..(N - b + 1) : SubSeq(c, b, N)[i] = c[b + i - 1]
        BY <1>3, <2>1, SubIs
    <2> QED
        BY <1>4, <2>1, <2>2, <2>3 DEF b
<1>6. ASSUME NEW i \in 1..n, i > 17 PROVE a[i] = Xor(s[i], Xor(a[i - 12], a[i - 17]))
    <2> DEFINE x == i - 12
               y == i - 17
    <2>1. x \in 1..n /\ y \in 1..n /\ 17 + x = i + 5 /\ 17 + y = i
        BY <1>6
    <2> HIDE DEF x, y
    <2>2. a[x] = c[i + 5] /\ a[y] = c[i] /\ a[i] = c[17 + i]
        BY <1>5, <2>1
    <2>3. c[17 + i] = Xor(s[i], Xor(c[i + 5], c[i]))
        BY <1>3
    <2> QED
        BY <2>2, <2>3 DEF x, y
<1> QED
    BY <1>5, <1>6 DEF a

\* After 17 bits the descrambler gives what went into the scrambler, of whatever
\* part of it arrives.
LEMMA DescrambledUndoes ==
    ASSUME NEW n \in Nat, NEW s \in Word(n), NEW content \in Word(17), NEW k \in 0..n,
           NEW r \in Word(k), \A i \in 1..k : r[i] = Scrambled(s, content)[i]
    PROVE  Descrambled(r) \in Word(k) /\ \A i \in 1..k : i > 17 => Descrambled(r)[i] = s[i]
<1> DEFINE a == Scrambled(s, content)
           Ago(i, m) == IF i > m THEN r[i - m] ELSE 0
           d == Descrambled(r)
<1>1. /\ a \in Word(n)
      /\ \A i \in 1..n : i > 17 => a[i] = Xor(s[i], Xor(a[i - 12], a[i - 17]))
    BY ScrambledIs
<1>2. d = [i \in 1..k |-> Xor(r[i], Xor(Ago(i, 12), Ago(i, 17)))]
    BY WordIs DEF Descrambled
<1>3. \A i \in 1..k : r[i] \in Bits /\ Ago(i, 12) \in Bits /\ Ago(i, 17) \in Bits
    <2> TAKE i \in 1..k
    <2>1. (i > 12 => i - 12 \in 1..k) /\ (i > 17 => i - 17 \in 1..k)
        OBVIOUS
    <2> QED
        BY <2>1 DEF Word, Bits
<1>4. d \in Word(k) /\ \A i \in 1..k : d[i] = Xor(r[i], Xor(Ago(i, 12), Ago(i, 17)))
    <2>1. \A i \in 1..k : Xor(r[i], Xor(Ago(i, 12), Ago(i, 17))) \in Bits
        <3> HIDE DEF Ago
        <3> QED
            BY <1>3, XorIs
    <2> HIDE DEF d, Ago
    <2> QED
        BY <1>2, <2>1 DEF Word
<1> HIDE DEF d, a
<1>5. ASSUME NEW i \in 1..k, i > 17 PROVE d[i] = s[i]
    <2> DEFINE x == i - 12
               y == i - 17
    <2>1. x \in 1..k /\ y \in 1..k /\ i \in 1..n /\ i > 12
        BY <1>5
    <2>2. Ago(i, 12) = a[x] /\ Ago(i, 17) = a[y] /\ r[i] = a[i]
        BY <1>5, <2>1 DEF a
    <2>3. a[i] = Xor(s[i], Xor(a[x], a[y]))
        BY <1>1, <1>5, <2>1
    <2>4. s[i] \in Bits /\ a[x] \in Bits /\ a[y] \in Bits
        BY <1>1, <2>1 DEF Word
    <2>5. d[i] = Xor(a[i], Xor(a[x], a[y]))
        BY <1>4, <2>2
    <2>6. \A u, v \in Bits : Xor(Xor(u, v), v) = u
        BY DEF Xor, Bits
    <2>7. Xor(a[x], a[y]) \in Bits
        BY <2>4, XorIs
    <2> HIDE DEF x, y
    <2> QED
        BY <2>3, <2>4, <2>5, <2>6, <2>7
<1> QED
    BY <1>4, <1>5 DEF d
\* ------------------------------ Bit stuffing ------------------------------
LEMMA RunIs ==
    ASSUME NEW n \in Nat, NEW s \in Word(n)
    PROVE  /\ Run(s, 0) = 0 /\ \A i \in 0..n : Run(s, i) \in Nat
           /\ \A i \in 0..(n - 1) : Run(s, i + 1) = IF s[i + 1] = 1 THEN Run(s, i) + 1 ELSE 0
<1> DEFINE Z(i) == {0} \cup {j \in 1..i : s[j] = 0}
           top(i) == Max(Z(i))
           S == {i \in 0..n : top(i) \in 0..i}
<1>1. \A i : Run(s, i) = i - top(i)
    BY DEF Run
<1>2. top(0) = 0
    <2>1. Z(0) = {0}
        OBVIOUS
    <2> HIDE DEF Z
    <2> QED
        BY <2>1 DEF Max
<1>3. ASSUME NEW i \in 0..(n - 1), i \in S
      PROVE  top(i + 1) = IF s[i + 1] = 1 THEN top(i) ELSE i + 1
    <2> DEFINE k == i + 1
    <2>1. k \in 1..n /\ i \in 0..n /\ k = i + 1 /\ k \in Nat
        OBVIOUS
    <2>2. s[k] = 0 \/ s[k] = 1
        BY <2>1 DEF Word, Bits
    <2>3. CASE s[k] = 1
        <3>1. Z(k) = Z(i)
            BY <2>1, <2>3
        <3> HIDE DEF Z
        <3> QED
            BY <2>3, <3>1
    <2>4. CASE s[k] = 0
        <3>1. k \in Z(k) /\ \A y \in Z(k) : k >= y /\ y \in Nat
            BY <2>1, <2>4
        <3> HIDE DEF Z, k
        <3>2. top(k) \in Z(k) /\ \A y \in Z(k) : top(k) >= y
            <4>1. \E x \in Z(k) : \A y \in Z(k) : x >= y
                BY <3>1
            <4> QED
                BY <4>1, Zenon DEF Max
        <3> HIDE DEF top
        <3>3. top(k) = k
            BY <2>1, <3>1, <3>2
        <3> QED
            BY <2>4, <3>3 DEF k
    <2> QED
        BY <2>2, <2>3, <2>4
<1>4. \A i \in 0..n : i \in S
    <2>1. 0 \in S
        BY <1>2
    <2>2. ASSUME NEW i \in 0..(n - 1), i \in S PROVE i + 1 \in S
        <3>1. top(i) \in 0..i
            BY <2>2
        <3>2. top(i + 1) \in 0..(i + 1)
            <4> HIDE DEF top, S
            <4> QED
                BY <1>3, <2>2, <3>1
        <3> HIDE DEF top
        <3> QED
            BY <3>2
    <2> HIDE DEF S
    <2> QED
        BY <2>1, <2>2, UpTo
<1>5. \A i \in 0..n : top(i) \in 0..i
    <2> HIDE DEF top
    <2> QED
        BY <1>4
<1>6. Run(s, 0) = 0 /\ \A i \in 0..n : Run(s, i) \in Nat
    <2> HIDE DEF top
    <2> QED
        BY <1>1, <1>2, <1>5
<1>7. ASSUME NEW i \in 0..(n - 1)
      PROVE  Run(s, i + 1) = IF s[i + 1] = 1 THEN Run(s, i) + 1 ELSE 0
    <2>1. i \in 0..n /\ i + 1 \in 0..n
        OBVIOUS
    <2>2. top(i + 1) = IF s[i + 1] = 1 THEN top(i) ELSE i + 1
        <3> HIDE DEF S, top
        <3> QED
            BY <1>3, <1>4, <2>1
    <2> HIDE DEF top
    <2> QED
        BY <1>1, <1>5, <2>1, <2>2
<1> QED
    BY <1>6, <1>7

\* Where the bits of s lie among the stuffed ones: at[i] of them hold the first i.
IsStuffed(t, at, s, n) ==
    /\ at \in [0..n -> Nat] /\ at[0] = 0 /\ t \in Word(at[n])
    /\ \A i \in 0..(n - 1) :
         /\ at[i + 1] = at[i] + (IF Fifth(s, i + 1) THEN 2 ELSE 1)
         /\ at[i + 1] <= at[n]
         /\ t[at[i] + 1] = s[i + 1]
         /\ Fifth(s, i + 1) => t[at[i] + 2] = 0

\* Where every bit of a frame comes to stand when it is stuffed.
LEMMA StuffedIs ==
    ASSUME NEW n \in Nat, NEW s \in Word(n)
    PROVE  \E at : IsStuffed(Stuffed(s), at, s, n)
<1> DEFINE e(i) == IF Fifth(s, i) THEN <<1, 0>> ELSE <<s[i]>>
           g == [i \in 1..n |-> [t \in Seq(Bits) |-> t \o e(i)]]
           J == [i \in 0..n |-> Seq(Bits)]
<1>1. \A i \in 1..n : e(i) \in Word(IF Fifth(s, i) THEN 2 ELSE 1)
                      /\ e(i)[1] = s[i] /\ (Fifth(s, i) => e(i)[2] = 0)
    <2> TAKE i \in 1..n
    <2>1. s[i] \in Bits
        BY DEF Word
    <2>2. CASE Fifth(s, i)
        <3>1. s[i] = 1
            BY <2>2 DEF Fifth
        <3> QED
            BY <2>2, <3>1 DEF Word, Bits
    <2>3. CASE ~Fifth(s, i)
        BY <2>1, <2>3 DEF Word
    <2> QED
        BY <2>2, <2>3
<1> HIDE DEF e
<1>2. \A i \in 0..(n - 1) : \A t \in Seq(Bits) : g[i + 1][t] = t \o e(i + 1)
    <2> TAKE i \in 0..(n - 1)
    <2>1. i + 1 \in 1..n
        OBVIOUS
    <2> QED
        BY <2>1
<1>3. \A i \in 1..n : e(i) \in Seq(Bits)
    <2> TAKE i \in 1..n
    <2>1. \A m \in Nat : \A x \in Word(m) : x \in Seq(Bits)
        BY WordIs
    <2> QED
        BY <1>1, <2>1
<1>4. Kept(g, <<>>, n, J)
    <2>1. J[0] = Seq(Bits) /\ <<>> \in J[0]
        OBVIOUS
    <2>2. \A i \in 0..(n - 1) : J[i] = Seq(Bits) /\ J[i + 1] = Seq(Bits) /\ i + 1 \in 1..n
        OBVIOUS
    <2> HIDE DEF g, J
    <2>3. ASSUME NEW i \in 0..(n - 1), NEW t \in J[i] PROVE g[i + 1][t] \in J[i + 1]
        <3>1. t \in Seq(Bits) /\ e(i + 1) \in Seq(Bits)
            BY <1>3, <2>2
        <3>2. t \o e(i + 1) \in Seq(Bits)
            BY <3>1, ConcatProperties
        <3> QED
            BY <1>2, <2>2, <3>1, <3>2
    <2> QED
        BY <2>1, <2>3 DEF Kept
<1>5. \A i \in 0..n : J[i] = Seq(Bits)
    OBVIOUS
<1>6. Stuffed(s) = Iterated(g, <<>>, n)
    BY WordIs DEF Stuffed, e
<1> HIDE DEF g, J
<1>7. PICK p : IsTrace(p, g, <<>>, n, J)
    BY <1>4, Trace, Zenon
<1>8. /\ p[0] = <<>> /\ p[n] = Stuffed(s) /\ \A i \in 0..n : p[i] \in Seq(Bits)
      /\ \A i \in 0..(n - 1) : p[i + 1] = p[i] \o e(i + 1)
    <2>1. \A i \in 0..(n - 1) : i \in 0..n
        OBVIOUS
    <2> QED
        BY <1>2, <1>5, <1>6, <1>7, <2>1 DEF IsTrace
<1> DEFINE at == [i \in 0..n |-> Len(p[i])]
           Grown(i) == at[i + 1] = at[i] + (IF Fifth(s, i + 1) THEN 2 ELSE 1)
           Held(t, i) == t[at[i] + 1] = s[i + 1] /\ (Fifth(s, i + 1) => t[at[i] + 2] = 0)
           S == {k \in 0..n : \A i \in 0..(n - 1) : i < k => at[i + 1] <= at[k] /\ Held(p[k], i)}
<1>9. /\ at \in [0..n -> Nat] /\ at[0] = 0
      /\ \A i \in 0..n : at[i] = Len(p[i]) /\ at[i] \in Nat /\ p[i] \in Word(at[i])
    BY <1>8, IsWord
<1> HIDE DEF at
<1>10. ASSUME NEW i \in 0..(n - 1)
       PROVE  /\ Grown(i) /\ Held(p[i + 1], i) /\ at[i] <= at[i + 1]
              /\ \A x \in 1..at[i] : p[i + 1][x] = p[i][x]
    <2> DEFINE k == i + 1
               m == IF Fifth(s, k) THEN 2 ELSE 1
               d == e(k)
    <2>1. k \in 1..n /\ i \in 0..n /\ k \in 0..n /\ m \in Nat /\ 1 \in 1..m /\ (Fifth(s, k) => 2 \in 1..m)
          /\ m \in {1, 2} /\ (Fifth(s, k) <=> m = 2)
        OBVIOUS
    <2>2. d \in Word(m) /\ d[1] = s[k] /\ (Fifth(s, k) => d[2] = 0)
        BY <1>1, <2>1
    <2>3. p[k] = p[i] \o d /\ p[i] \in Word(at[i]) /\ at[i] \in Nat /\ at[k] = Len(p[k]) /\ p[k] \in Word(at[k])
        BY <1>8, <1>9, <2>1
    <2> HIDE DEF k, m, d
    <2>4. /\ p[k] \in Word(at[i] + m)
          /\ \A x \in 1..(at[i] + m) : p[k][x] = IF x <= at[i] THEN p[i][x] ELSE d[x - at[i]]
        <3> DEFINE a == at[i]
                   b == p[i]
        <3>1. a \in Nat /\ b \in Word(a) /\ p[k] = b \o d
            BY <2>3
        <3> HIDE DEF a, b
        <3>2. /\ b \o d \in Word(a + m)
              /\ \A x \in 1..(a + m) : (b \o d)[x] = IF x <= a THEN b[x] ELSE d[x - a]
            BY <2>1, <2>2, <3>1, ConcatIs
        <3>3. /\ p[k] \in Word(a + m)
              /\ \A x \in 1..(a + m) : p[k][x] = IF x <= a THEN b[x] ELSE d[x - a]
            BY <3>1, <3>2, Zenon
        <3> QED
            BY <3>3, Zenon DEF a, b
    <2>5. at[k] = at[i] + m
        <3>1. at[i] + m \in Nat
            BY <2>1, <2>3
        <3> QED
            BY <2>3, <2>4, <3>1, WordIs
    <2>6. p[k][at[i] + 1] = d[1]
        <3> DEFINE a == at[i]
        <3>1. a \in Nat /\ m \in {1, 2}
            BY <2>1, <2>3
        <3> HIDE DEF a
        <3>2. a + 1 \in 1..(a + m) /\ ~(a + 1 <= a) /\ (a + 1) - a = 1
            BY <3>1
        <3>3. at[i] + 1 \in 1..(at[i] + m) /\ ~(at[i] + 1 <= at[i]) /\ (at[i] + 1) - at[i] = 1
            BY <3>2 DEF a
        <3> QED
            BY <2>4, <3>3
    <2>7. Fifth(s, k) => p[k][at[i] + 2] = d[2]
        <3> SUFFICES ASSUME m = 2 PROVE p[k][at[i] + 2] = d[2]
            BY <2>1
        <3>1. at[i] + 2 \in 1..(at[i] + m) /\ ~(at[i] + 2 <= at[i]) /\ (at[i] + 2) - at[i] = 2
            BY <2>1, <2>3
        <3> QED
            BY <2>4, <3>1
    <2>8. \A x \in 1..at[i] : p[k][x] = p[i][x]
        <3>1. \A x \in 1..at[i] : x \in 1..(at[i] + m) /\ x <= at[i]
            BY <2>1, <2>3
        <3> QED
            BY <2>4, <3>1
    <2>9. at[i] <= at[k]
        BY <2>1, <2>3, <2>5
    <2> QED
        BY <2>2, <2>5, <2>6, <2>7, <2>8, <2>9 DEF k, m
<1>11. \A k \in 0..n : k \in S
    <2>1. 0 \in S
        OBVIOUS
    <2>2. ASSUME NEW k \in 0..(n - 1), k \in S PROVE k + 1 \in S
        <3>1. k + 1 \in 0..n /\ k \in 0..n
            OBVIOUS
        <3>2. ASSUME NEW i \in 0..(n - 1), i < k + 1 PROVE at[i + 1] <= at[k + 1] /\ Held(p[k + 1], i)
            <4>1. CASE i = k
                <5>1. at[k + 1] \in Nat
                    BY <1>9, <3>1
                <5> QED
                    BY <1>10, <4>1, <5>1
            <4>2. CASE i < k
                <5>1. at[i + 1] <= at[k] /\ Held(p[k], i)
                    BY <2>2, <4>2
                <5>2. at[i + 1] \in Nat /\ at[k] \in Nat /\ at[k + 1] \in Nat /\ at[i] \in Nat
                    <6>1. i \in 0..n /\ i + 1 \in 0..n
                        OBVIOUS
                    <6> QED
                        BY <1>9, <3>1, <6>1
                <5>3. Grown(i)
                    BY <1>10
                <5>4. at[i] + 1 \in 1..at[k] /\ (Fifth(s, i + 1) => at[i] + 2 \in 1..at[k])
                    BY <5>1, <5>2, <5>3
                <5>5. at[k] <= at[k + 1] /\ \A x \in 1..at[k] : p[k + 1][x] = p[k][x]
                    BY <1>10
                <5>6. at[i + 1] <= at[k + 1]
                    BY <5>1, <5>2, <5>5
                <5>7. Held(p[k + 1], i)
                    BY <5>1, <5>4, <5>5
                <5> QED
                    BY <5>6, <5>7
            <4> QED
                BY <3>2, <4>1, <4>2
        <3> HIDE DEF Held
        <3> QED
            BY <3>1, <3>2
    <2> HIDE DEF S
    <2> QED
        BY <2>1, <2>2, UpTo
<1>12. \A i \in 0..(n - 1) : at[i + 1] <= at[n] /\ Held(p[n], i)
    <2>1. n \in S
        <3> HIDE DEF S
        <3>1. n \in 0..n
            OBVIOUS
        <3> QED
            BY <1>11, <3>1
    <2>2. \A i \in 0..(n - 1) : i < n
        OBVIOUS
    <2> HIDE DEF Held
    <2> QED
        BY <2>1, <2>2
<1>13. Stuffed(s) \in Word(at[n])
    <2>1. n \in 0..n
        OBVIOUS
    <2> QED
        BY <1>8, <1>9, <2>1
<1>14. IsStuffed(Stuffed(s), at, s, n)
    <2>1. \A i \in 0..(n - 1) : at[i + 1] = at[i] + (IF Fifth(s, i + 1) THEN 2 ELSE 1)
        BY <1>10
    <2>2. \A i \in 0..(n - 1) :
             /\ at[i + 1] <= at[n] /\ Stuffed(s)[at[i] + 1] = s[i + 1]
             /\ Fifth(s, i + 1) => Stuffed(s)[at[i] + 2] = 0
        BY <1>8, <1>12
    <2> HIDE DEF Grown, Held
    <2> QED
        BY <1>9, <1>13, <2>1, <2>2, Zenon DEF IsStuffed
<1> QED
    BY <1>14

\* Stuffing only adds.
LEMMA StuffedLonger ==
    ASSUME NEW n \in Nat, NEW s \in Word(n), NEW t, NEW at, IsStuffed(t, at, s, n)
    PROVE  at[n] \in Nat /\ at[n] >= n
<1> DEFINE S == {i \in 0..n : at[i] >= i}
<1>1. 0 \in S
    BY DEF IsStuffed
<1>2. ASSUME NEW i \in 0..(n - 1), i \in S PROVE i + 1 \in S
    <2>1. i \in 0..n /\ i + 1 \in 0..n /\ at[i] >= i
        BY <1>2
    <2>2. at[i] \in Nat /\ at[i + 1] = at[i] + (IF Fifth(s, i + 1) THEN 2 ELSE 1)
        BY <2>1 DEF IsStuffed
    <2> QED
        BY <2>1, <2>2
<1>3. n \in S
    <2> HIDE DEF S
    <2>1. n \in 0..n
        OBVIOUS
    <2> QED
        BY <1>1, <1>2, <2>1, UpTo
<1>4. at[n] \in Nat
    <2>1. n \in 0..n
        OBVIOUS
    <2> QED
        BY <2>1 DEF IsStuffed
<1> QED
    BY <1>3, <1>4

\* A flag is six 1s between two 0s.
LEMMA FlagIs ==
    Flag \in Word(8) /\ \A i \in 1..8 : Flag[i] = IF i \in {1, 8} THEN 0 ELSE 1
    BY DEF Flag, Word, Bits

\* The preamble, the stuffed frame and the closing flag, one behind the other.
LEMMA LineIs ==
    ASSUME NEW P \in Nat, NEW pre \in Word(P), NEW n \in Nat, n % 8 = 0, NEW frame \in Word(n),
           NEW at, IsStuffed(Stuffed(ReverseBytes(frame)), at, ReverseBytes(frame), n)
    PROVE  \E k \in Nat :
             /\ Line(pre, frame) \in Word(k) /\ k % 8 = 0
             /\ P + at[n] + 8 <= k /\ k < P + at[n] + 16
             /\ \A i \in 1..P : Line(pre, frame)[i] = pre[i]
             /\ \A i \in 1..at[n] : Line(pre, frame)[P + i] = Stuffed(ReverseBytes(frame))[i]
             /\ \A i \in 1..8 : Line(pre, frame)[P + at[n] + i] = Flag[i]
<1> DEFINE t == Stuffed(ReverseBytes(frame))
           m == at[n]
           a == pre \o t
           b == a \o Flag
           M == P + m + 8
           z == (8 - (M % 8)) % 8
           l == b \o Zeros(z)
           k == M + z
<1>1. ReverseBytes(frame) \in Word(n)
    BY ReverseIs
<1>2. m \in Nat /\ t \in Word(m)
    <2>1. m \in Nat
        BY <1>1, StuffedLonger
    <2> QED
        BY <2>1 DEF IsStuffed
<1> HIDE DEF m, t
<1>3. P + m \in Nat /\ M \in Nat /\ M = (P + m) + 8 /\ z \in 0..7 /\ k \in Nat /\ k % 8 = 0
      /\ M <= k /\ k < M + 8
    BY <1>2
<1>4. a \in Word(P + m) /\ \A i \in 1..(P + m) : a[i] = IF i <= P THEN pre[i] ELSE t[i - P]
    BY <1>2, ConcatIs
<1> HIDE DEF a
<1>5. b \in Word(M) /\ \A i \in 1..M : b[i] = IF i <= P + m THEN a[i] ELSE Flag[i - (P + m)]
    <2> DEFINE c == P + m
    <2>1. c \in Nat /\ a \in Word(c) /\ 8 \in Nat /\ M = c + 8
        BY <1>3, <1>4
    <2> HIDE DEF c, b
    <2>2. /\ a \o Flag \in Word(c + 8)
          /\ \A i \in 1..(c + 8) : (a \o Flag)[i] = IF i <= c THEN a[i] ELSE Flag[i - c]
        <3>1. Flag \in Word(8)
            BY FlagIs
        <3> QED
            BY <2>1, <3>1, ConcatIs, Zenon
    <2> HIDE DEF M
    <2> QED
        BY <2>1, <2>2 DEF b, c
<1>6. l \in Word(k) /\ \A i \in 1..k : l[i] = IF i <= M THEN b[i] ELSE 0
    <2> HIDE DEF b, M, z
    <2>1. z \in Nat
        BY <1>3
    <2> QED
        <3>1. M \in Nat /\ b \in Word(M) /\ l = b \o Zeros(z) /\ k = M + z
            BY <1>3, <1>5
        <3>2. /\ b \o Zeros(z) \in Word(M + z)
              /\ \A i \in 1..(M + z) : (b \o Zeros(z))[i] = IF i <= M THEN b[i] ELSE 0
            BY <2>1, <3>1, PaddedIs, Zenon
        <3> QED
            BY <3>1, <3>2, Zenon
<1>7. Line(pre, frame) = l
    <2>1. Len(b) = M
        BY <1>3, <1>5, WordIs
    <2> HIDE DEF M
    <2> QED
        BY <2>1 DEF Line, t, a
<1> HIDE DEF l, z, b, k
<1>8. \A i \in 1..P : l[i] = pre[i]
    <2>1. \A i \in 1..P : i \in 1..k /\ i <= M /\ i \in 1..M /\ i <= P + m /\ i \in 1..(P + m)
        BY <1>2, <1>3
    <2> HIDE DEF M
    <2> QED
        BY <1>4, <1>5, <1>6, <2>1
<1>9. \A i \in 1..m : l[P + i] = t[i]
    <2> TAKE i \in 1..m
    <2> DEFINE j == P + i
    <2>1. j \in 1..k /\ j <= M /\ j \in 1..M /\ j <= P + m /\ j \in 1..(P + m) /\ ~(j <= P) /\ j - P = i
        BY <1>2, <1>3
    <2> HIDE DEF M, j
    <2> QED
        BY <1>4, <1>5, <1>6, <2>1 DEF j
<1>10. \A i \in 1..8 : l[P + m + i] = Flag[i]
    <2> TAKE i \in 1..8
    <2> DEFINE j == P + m + i
    <2>1. j \in 1..k /\ j <= M /\ j \in 1..M /\ ~(j <= P + m) /\ j - (P + m) = i
        BY <1>2, <1>3
    <2> HIDE DEF M, j
    <2> QED
        BY <1>5, <1>6, <2>1 DEF j
<1> QED
    BY <1>3, <1>6, <1>7, <1>8, <1>9, <1>10 DEF m, t

\* What a line h of a packet carries, as far as it goes: behind N bits of noise
\* flags up to P; behind those the n bits of v, the i-th of which
\* ends at P + at[i]; and the rest of the closing flag.  v is the frame and, of
\* the flag, what comes before its fifth 1; run[i] of its bits are the 1s up to i.
IsFifth(v, run, i) == v[i] = 1 /\ run[i] % 5 = 0

Layout(N, P, v, run, at, n) ==
    /\ N \in 1..112 /\ P \in Nat /\ (P - N) % 8 = 0 /\ N < P
    /\ n \in Nat /\ n % 8 = 5 /\ n > 8 * MinFrame /\ n - 5 <= 8 * MaxFrame
    /\ v \in Word(n) /\ run \in [0..n -> Nat] /\ at \in [0..n -> Nat]
    /\ at[0] = 0 /\ v[1] = 0 /\ run[n] = 4
    /\ \A i \in 0..(n - 1) :
         /\ run[i + 1] = IF v[i + 1] = 1 THEN run[i] + 1 ELSE 0
         /\ at[i + 1] = at[i] + IF IsFifth(v, run, i + 1) THEN 2 ELSE 1

Carries(h, N, P, v, run, at, n) ==
    /\ Layout(N, P, v, run, at, n)
    /\ h \in Seq(Bits) /\ Len(h) % 8 = 0
    /\ \A i \in (N + 1)..P : i <= Len(h) => h[i] = Flag[((i - N - 1) % 8) + 1]
    /\ \A i \in 0..(n - 1) :
         /\ P + at[i] + 1 <= Len(h) => h[P + at[i] + 1] = v[i + 1]
         /\ IsFifth(v, run, i + 1) /\ P + at[i] + 2 <= Len(h) => h[P + at[i] + 2] = 0
    /\ P + at[n] + 1 <= Len(h) => h[P + at[n] + 1] = 1
    /\ P + at[n] + 2 <= Len(h) => h[P + at[n] + 2] = 1
    /\ P + at[n] + 3 <= Len(h) => h[P + at[n] + 3] = 0

IsLine(l, k, N, P, v, run, at, n) ==
    /\ k \in Nat /\ l \in Word(k) /\ k % 8 = 0
    /\ P + at[n] + 3 <= k /\ k < P + at[n] + 11 /\ P + at[n] + 3 > 8 * MinFrame
    /\ Carries(l, N, P, v, run, at, n)

FlagsFrom(pre, P, N) ==
    /\ pre \in Word(P) /\ (P - N) % 8 = 0 /\ N \in 1..112 /\ N < P
    /\ \A i \in (N + 1)..P : pre[i] = Flag[((i - N - 1) % 8) + 1]

\* The line carries the flags, the stuffed frame and the first five bits of the flag
\* that closes it.
LEMMA LineCarries ==
    ASSUME NEW P \in Nat, NEW pre, NEW N, FlagsFrom(pre, P, N),
           NEW n \in Nat, n % 8 = 0, n >= 8 * MinFrame, n <= 8 * MaxFrame,
           NEW frame \in Word(n), frame[8] = 0
    PROVE  \E k, v, run, at :
              /\ IsLine(Line(pre, frame), k, N, P, v, run, at, n + 5)
              /\ \A i \in 1..n : v[i] = ReverseBytes(frame)[i]
<1> DEFINE s == ReverseBytes(frame)
           t == Stuffed(s)
           l == Line(pre, frame)
<1>1. s \in Word(n) /\ s[1] = frame[8]
    <2>1. Mirror(1) = 8 /\ 1 \in 1..n
        BY DEF Mirror, MinFrame
    <2> HIDE DEF s
    <2>2. s \in Word(n) /\ \A i \in 1..n : s[i] = frame[Mirror(i)]
        BY ReverseIs DEF s
    <2> QED
        BY <2>1, <2>2
<1>2. PICK at : IsStuffed(t, at, s, n)
    <2> HIDE DEF s
    <2> QED
        BY <1>1, StuffedIs
<1>3. at[n] \in Nat /\ at[n] >= n
    <2> HIDE DEF s, t
    <2> QED
        BY <1>1, <1>2, StuffedLonger
<1> DEFINE m == at[n]
<1>4. PICK k \in Nat :
         /\ l \in Word(k) /\ k % 8 = 0
         /\ P + m + 8 <= k /\ k < P + m + 16
         /\ \A i \in 1..P : l[i] = pre[i]
         /\ \A i \in 1..m : l[P + i] = t[i]
         /\ \A i \in 1..8 : l[P + m + i] = Flag[i]
    <2>1. pre \in Word(P)
        BY DEF FlagsFrom
    <2> QED
        BY <1>2, <2>1, LineIs
<1>5. /\ Run(s, 0) = 0 /\ \A i \in 0..n : Run(s, i) \in Nat
      /\ \A i \in 0..(n - 1) : Run(s, i + 1) = IF s[i + 1] = 1 THEN Run(s, i) + 1 ELSE 0
    <2> HIDE DEF s
    <2> QED
        BY <1>1, RunIs
<1>6. /\ at \in [0..n -> Nat] /\ at[0] = 0
      /\ \A i \in 0..(n - 1) :
           /\ at[i + 1] = at[i] + (IF Fifth(s, i + 1) THEN 2 ELSE 1)
           /\ at[i + 1] <= m
           /\ t[at[i] + 1] = s[i + 1]
           /\ Fifth(s, i + 1) => t[at[i] + 2] = 0
    BY <1>2 DEF IsStuffed
<1> HIDE DEF s, t, l, m
<1> DEFINE r(i) == Run(s, i)
           run == [i \in 0..(n + 5) |-> IF i <= n THEN r(i) ELSE i - n - 1]
           pl == [i \in 0..(n + 5) |-> IF i <= n THEN at[i] ELSE m + (i - n)]
           v == [i \in 1..(n + 5) |-> IF i <= n THEN s[i] ELSE IF i = n + 1 THEN 0 ELSE 1]
           L == n + 5
<1>7. L \in Nat /\ L = n + 5 /\ m \in Nat /\ m >= n /\ m = at[n] /\ n \in Nat /\ P \in Nat /\ k \in Nat
    BY <1>3 DEF m
<1>8. v \in Word(L) /\ (\A i \in 1..n : v[i] = s[i]) /\ v[n + 1] = 0
      /\ \A i \in (n + 2)..(n + 5) : v[i] = 1
    <2>1. \A i \in 1..n : s[i] \in Bits
        BY <1>1 DEF Word
    <2> QED
        BY <2>1 DEF Word, Bits
<1>9. run \in [0..L -> Nat] /\ (\A i \in 0..n : run[i] = r(i)) /\ \A i \in (n + 1)..L : run[i] = i - n - 1
    <2>1. \A i \in 0..n : r(i) \in Nat
        BY <1>5
    <2> HIDE DEF r
    <2> QED
        BY <2>1
<1>10. pl \in [0..L -> Nat] /\ (\A i \in 0..n : pl[i] = at[i]) /\ \A i \in (n + 1)..L : pl[i] = m + (i - n)
    BY <1>6, <1>7
<1> HIDE DEF v, run, pl, L
<1>11. pl[L] = m + 5 /\ run[L] = 4 /\ pl[0] = 0 /\ pl[n] = m /\ run[n] = r(n)
    <2>1. L \in (n + 1)..L /\ 0 \in 0..n /\ n \in 0..n /\ L - n = 5 /\ L - n - 1 = 4
        BY <1>7
    <2>2. pl[L] = m + (L - n) /\ run[L] = L - n - 1
        BY <1>9, <1>10, <2>1
    <2> QED
        BY <1>6, <1>7, <1>9, <1>10, <2>1, <2>2
<1>12. Len(l) = k /\ l \in Seq(Bits)
    BY <1>4, WordIs
<1>13. \A i \in 1..8 : l[P + m + i] = IF i \in {1, 8} THEN 0 ELSE 1
    BY <1>4, FlagIs
<1>14. ASSUME NEW i \in 0..(L - 1)
       PROVE  /\ run[i + 1] = IF v[i + 1] = 1 THEN run[i] + 1 ELSE 0
              /\ pl[i + 1] = pl[i] + IF IsFifth(v, run, i + 1) THEN 2 ELSE 1
              /\ l[P + pl[i] + 1] = v[i + 1]
              /\ IsFifth(v, run, i + 1) => l[P + pl[i] + 2] = 0
    <2>1. CASE i < n
        <3>1. i \in 0..(n - 1) /\ i \in 0..n /\ i + 1 \in 0..n /\ i + 1 \in 1..n
            BY <1>7, <2>1
        <3>2. v[i + 1] = s[i + 1] /\ run[i] = r(i) /\ run[i + 1] = r(i + 1) /\ pl[i] = at[i] /\ pl[i + 1] = at[i + 1]
            BY <1>8, <1>9, <1>10, <3>1
        <3>3. run[i + 1] = IF v[i + 1] = 1 THEN run[i] + 1 ELSE 0
            BY <1>5, <3>1, <3>2
        <3>4. IsFifth(v, run, i + 1) <=> Fifth(s, i + 1)
            BY <3>2 DEF IsFifth, Fifth
        <3>5. /\ at[i + 1] = at[i] + (IF Fifth(s, i + 1) THEN 2 ELSE 1)
              /\ at[i + 1] <= m
              /\ t[at[i] + 1] = s[i + 1]
              /\ Fifth(s, i + 1) => t[at[i] + 2] = 0
            BY <1>6, <3>1
        <3>6. at[i] \in Nat /\ at[i + 1] \in Nat
            BY <1>6, <3>1
        <3> DEFINE a == at[i] + 1
                   b == at[i] + 2
        <3>7. a \in 1..m /\ P + a = P + at[i] + 1 /\ P + b = P + at[i] + 2
              /\ (Fifth(s, i + 1) => b \in 1..m)
            BY <1>7, <3>5, <3>6
        <3>8. l[P + a] = t[a] /\ (Fifth(s, i + 1) => l[P + b] = t[b])
            <4> HIDE DEF a, b
            <4> QED
                BY <1>4, <3>7
        <3>9. l[P + at[i] + 1] = s[i + 1] /\ (Fifth(s, i + 1) => l[P + at[i] + 2] = 0)
            BY <3>5, <3>7, <3>8
        <3> QED
            BY <3>2, <3>3, <3>4, <3>5, <3>9
    <2>2. CASE i >= n
        <3> DEFINE j == i - n
        <3>1. j \in 0..4 /\ i = n + j /\ i + 1 \in (n + 1)..L /\ i + 1 - n = j + 1 /\ j + 1 \in 1..8 /\ i \in Nat
            BY <1>7, <2>2
        <3>2. pl[i + 1] = m + (j + 1) /\ run[i + 1] = j
            BY <1>9, <1>10, <3>1
        <3>3. pl[i] = m + j
            <4>1. CASE j = 0
                BY <1>7, <1>11, <3>1, <4>1
            <4>2. CASE j > 0
                <5>1. i \in (n + 1)..L
                    BY <1>7, <3>1, <4>2
                <5> QED
                    BY <1>10, <5>1
            <4> QED
                BY <3>1, <4>1, <4>2
        <3>4. v[i + 1] = IF j = 0 THEN 0 ELSE 1
            <4>1. CASE j = 0
                BY <1>8, <3>1, <4>1
            <4>2. CASE j > 0
                <5>1. i + 1 \in (n + 2)..(n + 5)
                    BY <1>7, <3>1, <4>2
                <5> QED
                    BY <1>8, <4>2, <5>1
            <4> QED
                BY <3>1, <4>1, <4>2
        <3>5. j > 0 => run[i] = j - 1
            <4> SUFFICES ASSUME j > 0 PROVE run[i] = j - 1
                OBVIOUS
            <4>1. i \in (n + 1)..L
                BY <1>7, <3>1
            <4> QED
                BY <1>9, <4>1
        <3> HIDE DEF j
        <3>6. run[i + 1] = IF v[i + 1] = 1 THEN run[i] + 1 ELSE 0
            BY <3>1, <3>2, <3>4, <3>5
        <3>7. ~IsFifth(v, run, i + 1)
            BY <3>1, <3>2, <3>4 DEF IsFifth
        <3>8. l[P + m + (j + 1)] = v[i + 1]
            BY <1>13, <3>1, <3>4
        <3>9. P + pl[i] + 1 = P + m + (j + 1) /\ pl[i + 1] = pl[i] + 1
            BY <1>7, <3>1, <3>2, <3>3
        <3> QED
            BY <3>6, <3>7, <3>8, <3>9
    <2> QED
        BY <1>7, <2>1, <2>2
<1>15. l[P + pl[L] + 1] = 1 /\ l[P + pl[L] + 2] = 1 /\ l[P + pl[L] + 3] = 0
    <2>1. /\ P + pl[L] + 1 = P + m + 6 /\ P + pl[L] + 2 = P + m + 7 /\ P + pl[L] + 3 = P + m + 8
          /\ 6 \in 1..8 /\ 7 \in 1..8 /\ 8 \in 1..8
        BY <1>7, <1>11
    <2> QED
        BY <1>13, <2>1
<1>16. /\ N \in 1..112 /\ (P - N) % 8 = 0 /\ N < P
       /\ \A i \in (N + 1)..P : l[i] = Flag[((i - N - 1) % 8) + 1]
    <2>1. /\ N \in 1..112 /\ (P - N) % 8 = 0 /\ N < P
          /\ \A i \in (N + 1)..P : pre[i] = Flag[((i - N - 1) % 8) + 1]
        BY DEF FlagsFrom
    <2>2. \A i \in (N + 1)..P : i \in 1..P
        BY <2>1
    <2> QED
        BY <1>4, <2>1, <2>2
<1>17. L % 8 = 5 /\ L > 8 * MinFrame /\ L - 5 <= 8 * MaxFrame /\ v[1] = 0
    <2>1. v[1] = s[1]
        <3>1. 1 \in 1..n
            BY DEF MinFrame
        <3> QED
            BY <1>8, <3>1
    <2>2. L % 8 = 5 /\ L > 8 * MinFrame /\ L - 5 <= 8 * MaxFrame
        BY DEF L, MinFrame, MaxFrame
    <2> QED
        BY <1>1, <2>1, <2>2
<1>18. Carries(l, N, P, v, run, pl, L)
    <2>1. Layout(N, P, v, run, pl, L)
        BY <1>7, <1>8, <1>9, <1>10, <1>11, <1>14, <1>16, <1>17 DEF Layout
    <2> QED
        BY <1>4, <1>12, <1>14, <1>15, <1>16, <2>1 DEF Carries
<1>19. P + pl[L] + 3 <= k /\ k < P + pl[L] + 11 /\ P + pl[L] + 3 > 8 * MinFrame
    BY <1>4, <1>7, <1>11, <1>16 DEF MinFrame
<1>20. IsLine(l, k, N, P, v, run, pl, L)
    BY <1>4, <1>18, <1>19 DEF IsLine
<1>21. /\ v \in Word(n + 5) /\ IsLine(Line(pre, frame), k, N, P, v, run, pl, n + 5)
       /\ \A i \in 1..n : v[i] = ReverseBytes(frame)[i]
    BY <1>8, <1>20 DEF L, s, l
<1> QED
    BY <1>21

\* What arrives of it, whatever the bits before the first flag have become.
LEMMA PartCarries ==
    ASSUME NEW l, NEW k, NEW N, NEW P, NEW v, NEW run, NEW at, NEW n,
           IsLine(l, k, N, P, v, run, at, n),
           NEW j \in 0..k, j % 8 = 0, NEW h \in Word(j), \A i \in 1..j : i > N => h[i] = l[i]
    PROVE  Carries(h, N, P, v, run, at, n)
<1>1. /\ k \in Nat /\ l \in Word(k) /\ Carries(l, N, P, v, run, at, n)
    BY DEF IsLine
<1>2. h \in Seq(Bits) /\ Len(h) = j /\ j \in Nat /\ Len(l) = k
    BY <1>1, WordIs
<1>3. /\ N \in Nat /\ P \in Nat /\ n \in Nat /\ at \in [0..n -> Nat] /\ N < P
    <2>1. Layout(N, P, v, run, at, n)
        BY <1>1 DEF Carries
    <2>2. N \in 1..112 /\ P \in Nat /\ n \in Nat /\ at \in [0..n -> Nat] /\ N < P
        BY <2>1 DEF Layout
    <2> QED
        BY <2>2
<1>4. \A i \in Nat : i > N /\ i <= j => i <= Len(l) /\ h[i] = l[i]
    BY <1>1, <1>2, <1>3
<1>5. ASSUME NEW i \in (N + 1)..P, i <= Len(h) PROVE h[i] = Flag[((i - N - 1) % 8) + 1]
    <2>1. h[i] = l[i] /\ i <= Len(l)
        BY <1>2, <1>3, <1>4, <1>5
    <2> QED
        BY <1>1, <2>1 DEF Carries
<1>6. ASSUME NEW i \in 0..(n - 1)
      PROVE  /\ P + at[i] + 1 <= Len(h) => h[P + at[i] + 1] = v[i + 1]
             /\ IsFifth(v, run, i + 1) /\ P + at[i] + 2 <= Len(h) => h[P + at[i] + 2] = 0
    <2> DEFINE a == P + at[i] + 1
               b == P + at[i] + 2
    <2>1. a \in Nat /\ b \in Nat /\ a > N /\ b > N
        <3>1. i \in 0..n
            BY <1>3
        <3>2. at[i] \in Nat /\ P \in Nat /\ N \in Nat /\ N < P
            BY <1>3, <3>1
        <3> DEFINE c == at[i]
        <3> HIDE DEF c
        <3>3. c \in Nat
            BY <3>2 DEF c
        <3> QED
            BY <3>2, <3>3 DEF c
    <2>2. (a <= Len(l) => l[a] = v[i + 1]) /\ (IsFifth(v, run, i + 1) /\ b <= Len(l) => l[b] = 0)
        BY <1>1 DEF Carries
    <2> HIDE DEF a, b
    <2>3. (a <= Len(h) => h[a] = v[i + 1]) /\ (IsFifth(v, run, i + 1) /\ b <= Len(h) => h[b] = 0)
        BY <1>2, <1>4, <2>1, <2>2
    <2> QED
        BY <2>3 DEF a, b
<1>7. ASSUME NEW c \in 1..3 PROVE P + at[n] + c <= Len(h) => h[P + at[n] + c] = IF c = 3 THEN 0 ELSE 1
    <2> DEFINE a == P + at[n] + c
    <2>1. a \in Nat /\ a > N
        <3> DEFINE d == at[n]
        <3>1. n \in 0..n
            BY <1>3
        <3>2. d \in Nat
            BY <1>3, <3>1
        <3>3. N \in Nat /\ P \in Nat /\ N < P /\ c \in Nat /\ a = P + d + c
            BY <1>3
        <3> HIDE DEF d, a
        <3> QED
            BY <3>2, <3>3
    <2>2. a <= Len(l) => l[a] = IF c = 3 THEN 0 ELSE 1
        BY <1>1 DEF Carries
    <2> HIDE DEF a
    <2>3. a <= Len(h) => h[a] = IF c = 3 THEN 0 ELSE 1
        BY <1>2, <1>4, <2>1, <2>2
    <2> QED
        BY <2>3 DEF a
<1>8. /\ P + at[n] + 1 <= Len(h) => h[P + at[n] + 1] = 1
      /\ P + at[n] + 2 <= Len(h) => h[P + at[n] + 2] = 1
      /\ P + at[n] + 3 <= Len(h) => h[P + at[n] + 3] = 0
    <2>1. 1 \in 1..3 /\ 2 \in 1..3 /\ 3 \in 1..3 /\ 1 # 3 /\ 2 # 3
        OBVIOUS
    <2> QED
        BY <1>7, <2>1
<1> QED
    BY <1>1, <1>2, <1>5, <1>6, <1>8 DEF Carries
\* ------------------------------ The unstuffer ------------------------------
Scanned ==
    /\ pos \in Nat \ {0} /\ last \in Bits /\ this \in Bits /\ ones \in Nat
    /\ part \in Seq(Bits) /\ Len(part) < 8 /\ out \in Seq(Bits)
    /\ store \in BOOLEAN /\ resync \in 0..2 /\ skip \in BOOLEAN

Found == Len(out) + Len(part)

\* In the bits before the flags, where anything may be found but a frame.
InNoise(N) ==
    /\ pos \in 3..N /\ Found + 3 <= pos
    /\ resync > 0 => skip = FALSE

\* Before bit t of a flag, counted from 0.  Behind the first flag it is reached behind a 0;
\* by the third bit it makes no difference what was there before.
AtFlagBit(t, first) ==
    /\ t = 0 => (resync > 0 => skip = FALSE) /\ (first \/ this = 0)
    /\ t = 1 => this = 0 /\ resync < 2 /\ (resync = 1 => skip = FALSE)
    /\ t = 2 => last = 0 /\ this = 1 /\ resync = 0 /\ (skip = TRUE => ones = 0)
    /\ t > 2 => ones = t - 3 /\ last = 1 /\ this = 1 /\ resync = 0 /\ skip = FALSE

\* Out of step a flag is entered in the middle; the next one is met at its first bit.
InsideFlag ==
    /\ ones >= 5 /\ skip = FALSE
    /\ resync = 1 => this = 1
    /\ resync = 0 => last = 1 /\ this = 1

FlagBit(N) == (pos - N - 1) % 8

InFlags(N, P) ==
    /\ pos \in (N + 1)..P
    /\ pos <= N + 16 => Found + 3 <= pos
    /\ \/ AtFlagBit(FlagBit(N), pos = N + 1) /\ (pos > N + 16 => Found <= FlagBit(N) + 8)
       \/ InsideFlag /\ N % 8 # 0 /\ FlagBit(N) > 0 /\ (pos > N + 8 => Found <= FlagBit(N))

\* Behind flags out of step: `ones` counts 1s that stand one behind the other.
Settled(P) ==
    /\ pos > P
    /\ resync > 0 => ones >= 5 /\ skip = FALSE
    /\ resync < 2 => this = hdlc[pos - 1]
    /\ resync = 0 => last = hdlc[pos - 2]
    /\ skip = TRUE => ones = 0
    /\ ones < 5 => \A k \in 1..ones : hdlc[pos - 2 - k] = 1

\* Behind the last flag before the frame, whose first two bits are passed over.
Opened(P) ==
    /\ pos \in {P + 1, P + 2} /\ pos <= Len(hdlc) + 1 /\ resync = P + 3 - pos
    /\ skip = FALSE /\ store = TRUE /\ out = <<>> /\ part = <<>> /\ ones = 5
    /\ pos = P + 2 => this = hdlc[P + 1]

\* The first i bits of v are found; the next, or a stuffed 0 to skip, is `last`.
FirstBits(some, bytes, i, v) ==
    /\ Len(some) = i % 8 /\ Len(bytes) = i - (i % 8)
    /\ \A k \in 1..Len(bytes) : bytes[k] = v[k]
    /\ \A k \in 1..Len(some) : some[k] = v[Len(bytes) + k]

AtBit(i, m, P, v, run, at) ==
    /\ \/ m = at[i] /\ skip = FALSE
       \/ m = at[i] - 1 /\ skip = TRUE /\ i > 0 /\ IsFifth(v, run, i)
    /\ pos = P + 3 + m /\ pos <= Len(hdlc) + 1
    /\ last = hdlc[P + m + 1] /\ this = hdlc[P + m + 2]
    /\ resync = 0 /\ store = TRUE
    /\ ones = IF i = 0 THEN 5 ELSE run[i] % 5
    /\ FirstBits(part, out, i, v)

InFrame(P, v, run, at, n) == \E i \in 0..n : \E m \in Nat : AtBit(i, m, P, v, run, at)

\* A bit taken makes a byte of eight at most.
LEMMA TakenIs ==
    ASSUME Scanned, NEW bit \in Bits
    PROVE  /\ Taken(bit).part \in Seq(Bits) /\ Len(Taken(bit).part) < 8
           /\ Taken(bit).out \in Seq(Bits) /\ Len(Taken(bit).out) <= Found + 1
           /\ Len(Taken(bit).out) + Len(Taken(bit).part) <= Found + 1
<1> DEFINE byte == Append(part, bit)
<1>1. byte \in Seq(Bits) /\ Len(byte) = Len(part) + 1
    BY AppendProperties DEF Scanned
<1>2. out \o byte \in Seq(Bits) /\ Len(out \o byte) = Len(out) + Len(byte)
    BY <1>1, ConcatProperties DEF Scanned
<1>3. Len(part) \in Nat /\ Len(out) \in Nat /\ Len(part) < 8 /\ out \in Seq(Bits)
    BY DEF Scanned
<1> HIDE DEF byte
<1>4. CASE Len(byte) < 8
    <2>1. Taken(bit).part = byte /\ Taken(bit).out = out
        BY <1>4 DEF Taken, byte
    <2> QED
        BY <1>1, <1>3, <1>4, <2>1 DEF Found
<1>5. CASE ~(Len(byte) < 8)
    <2>1. Taken(bit).part = <<>> /\ (Taken(bit).out = out \/ Taken(bit).out = out \o byte)
        BY <1>5 DEF Taken, byte
    <2>2. <<>> \in Seq(Bits) /\ Len(<<>>) = 0
        OBVIOUS
    <2> DEFINE a == Len(part)
               b == Len(byte)
    <2>3. a = 7 /\ b = 8
        <3>1. a \in Nat /\ b = a + 1 /\ a < 8 /\ ~(b < 8)
            BY <1>1, <1>3, <1>5
        <3> HIDE DEF a, b
        <3> QED
            BY <3>1
    <2>4. Taken(bit).part \in Seq(Bits) /\ Len(Taken(bit).part) = 0
        BY <2>1, <2>2
    <2>5. Taken(bit).out \in Seq(Bits) /\ Len(Taken(bit).out) <= Len(out) + 8
        <3>1. Len(out \o byte) = Len(out) + 8 /\ Len(out) <= Len(out) + 8
            BY <1>2, <1>3, <2>3
        <3>2. CASE Taken(bit).out = out
            BY <1>3, <3>1, <3>2
        <3>3. CASE Taken(bit).out = out \o byte
            <4>1. Len(out) + 8 <= Len(out) + 8
                BY <1>3
            <4> QED
                BY <1>2, <3>1, <3>3, <4>1
        <3> QED
            BY <2>1, <3>2, <3>3
    <2>6. Len(Taken(bit).out) \in Nat
        BY <2>5
    <2> QED
        BY <1>3, <2>3, <2>4, <2>5, <2>6 DEF Found
<1> QED
    BY <1>4, <1>5

Pass == Skip \/ Bit \/ StuffedZero \/ SevenOnes \/ OpeningFlag

\* What each does to the variables that the cases below tell apart.
Moved == pos' = pos + 1
Jumped == pos' = 8 * ((pos - 1) \div 8) + 9
TookOne == part' = Taken(1).part /\ out' = Taken(1).out

\* What each pass of the unstuffer reads and writes: a skipped bit,
LEMMA SkipIs ==
    ASSUME Scanned, Skip
    PROVE  /\ ~(resync = 0 /\ skip = FALSE)
           /\ resync' = IF resync > 0 THEN resync - 1 ELSE 0
           /\ resync = 0 => resync' = 0
           /\ Moved /\ skip' = FALSE /\ ones' = ones /\ part' = part /\ out' = out /\ store' = store
<1>1. resync = 0 => ~(resync > 0)
    OBVIOUS
<1> QED
    BY <1>1, Zenon DEF Scanned, Skip, Moved, NextBit

\* a bit of data,
LEMMA BitIs ==
    ASSUME Scanned, Bit
    PROVE  /\ resync = 0 /\ skip = FALSE /\ (last = 0 \/ ones # 4)
           /\ part' = Taken(last).part /\ out' = Taken(last).out
           /\ ones' = IF last = 0 THEN 0 ELSE ones + 1
           /\ Moved /\ skip' = FALSE /\ resync' = 0 /\ store' = store
    BY Zenon DEF Scanned, Bit, Moved, NextBit

\* the fifth 1 before a stuffed 0,
LEMMA StuffedZeroIs ==
    ASSUME Scanned, StuffedZero
    PROVE  /\ resync = 0 /\ skip = FALSE /\ last = 1 /\ ones = 4 /\ this = 0
           /\ TookOne /\ ones' = 0
           /\ Moved /\ skip' = TRUE /\ resync' = 0 /\ store' = store
    BY Zenon DEF Scanned, StuffedZero, FifthOne, Moved, NextBit, TookOne

\* before a seventh 1,
LEMMA SevenOnesIs ==
    ASSUME Scanned, SevenOnes
    PROVE  /\ resync = 0 /\ skip = FALSE /\ last = 1 /\ ones = 4 /\ this = 1 /\ hdlc[pos] = 1
           /\ TookOne /\ ones' = 5
           /\ Jumped /\ skip' = FALSE /\ resync' = 0 /\ store' = store
    BY Zenon DEF Scanned, SevenOnes, FifthOne, Jumped, NextByte, TookOne

\* in a flag that opens a frame,
LEMMA OpeningFlagIs ==
    ASSUME Scanned, OpeningFlag
    PROVE  /\ resync = 0 /\ skip = FALSE /\ last = 1 /\ ones = 4 /\ this = 1 /\ hdlc[pos] = 0
           /\ ~IsClosing
           /\ part' = <<>> /\ out' = <<>> /\ ones' = 5
           /\ Jumped /\ skip' = FALSE /\ resync' = 2 /\ store' = TRUE
    BY Zenon DEF Scanned, OpeningFlag, FlagSeen, FifthOne, Jumped, NextByte, Resync

\* and in one that closes it.
LEMMA ClosingFlagIs ==
    ASSUME Scanned, ClosingFlag
    PROVE  /\ resync = 0 /\ skip = FALSE /\ last = 1 /\ ones = 4 /\ this = 1 /\ hdlc[pos] = 0
           /\ IsClosing /\ pos <= Len(hdlc)
           /\ data' = ReverseBytes(Taken(1).out) /\ sent' = sent
    BY Zenon DEF Scanned, ClosingFlag, FlagSeen, FifthOne, Reading

\* What a pass of the loop does whatever the line holds.
LEMMA PassIs ==
    ASSUME Scanned, hdlc \in Seq(Bits), Pass
    PROVE  /\ Scanned' /\ hdlc' = hdlc /\ sent' = sent /\ stage' = "unstuff"
           /\ pos <= Len(hdlc) /\ last' = this /\ this' = hdlc[pos]
           /\ pos' = pos + 1 \/ pos' = 8 * ((pos - 1) \div 8) + 9
           /\ Found \in Nat /\ Found' \in Nat /\ Found' <= Found + 1
<1>1. /\ pos \in Nat \ {0} /\ last \in Bits /\ this \in Bits /\ ones \in Nat /\ resync \in 0..2
      /\ part \in Seq(Bits) /\ Len(part) < 8 /\ out \in Seq(Bits)
      /\ store \in BOOLEAN /\ skip \in BOOLEAN
    BY DEF Scanned
<1>2. Len(part) \in Nat /\ Len(out) \in Nat /\ Found \in Nat
    BY <1>1 DEF Found
<1>3. /\ hdlc' = hdlc /\ sent' = sent /\ stage' = "unstuff"
      /\ pos <= Len(hdlc) /\ last' = this /\ this' = hdlc[pos]
    BY DEF Pass, Skip, Bit, StuffedZero, SevenOnes, OpeningFlag, FlagSeen, FifthOne, Reading, Read
<1>4. pos' = pos + 1 \/ pos' = 8 * ((pos - 1) \div 8) + 9
    BY DEF Pass, Skip, Bit, StuffedZero, SevenOnes, OpeningFlag, NextBit, NextByte
<1>5. pos' \in Nat \ {0}
    BY <1>1, <1>4
<1>6. last' \in Bits /\ this' \in Bits
    <2>1. pos \in 1..Len(hdlc)
        BY <1>1, <1>3
    <2> QED
        BY <1>1, <1>3, <2>1
<1>7. ones' \in Nat /\ resync' \in 0..2 /\ skip' \in BOOLEAN /\ store' \in BOOLEAN
    <2>1. ones' \in Nat
        <3>1. ones' = ones \/ ones' = 0 \/ ones' = 5 \/ ones' = ones + 1
            BY DEF Pass, Skip, Bit, StuffedZero, SevenOnes, OpeningFlag
        <3> QED
            BY <1>1, <3>1
    <2>2. resync' \in 0..2
        <3>1. \/ resync' = resync \/ resync' = 2
              \/ resync' = IF resync > 0 THEN resync - 1 ELSE 0
            BY DEF Pass, Skip, Bit, StuffedZero, SevenOnes, OpeningFlag, Resync
        <3> QED
            BY <1>1, <3>1
    <2>3. skip' \in BOOLEAN
        BY <1>1 DEF Pass, Skip, Bit, StuffedZero, SevenOnes, OpeningFlag
    <2>4. store' \in BOOLEAN
        BY <1>1 DEF Pass, Skip, Bit, StuffedZero, SevenOnes, OpeningFlag
    <2> QED
        BY <2>1, <2>2, <2>3, <2>4
<1>8. \/ part' = part /\ out' = out
      \/ part' = <<>> /\ out' = <<>>
      \/ \E bit \in Bits : part' = Taken(bit).part /\ out' = Taken(bit).out
    <2>1. 1 \in Bits
        BY DEF Bits
    <2> QED
        BY <1>1, <2>1 DEF Pass, Skip, Bit, StuffedZero, SevenOnes, OpeningFlag
<1>9. part' \in Seq(Bits) /\ Len(part') < 8 /\ out' \in Seq(Bits) /\ Len(out') + Len(part') <= Found + 1
    <2>1. CASE part' = part /\ out' = out
        BY <1>1, <1>2, <2>1 DEF Found
    <2>2. CASE part' = <<>> /\ out' = <<>>
        <3>1. <<>> \in Seq(Bits) /\ Len(<<>>) = 0
            OBVIOUS
        <3> QED
            BY <1>2, <2>2, <3>1
    <2>3. CASE \E bit \in Bits : part' = Taken(bit).part /\ out' = Taken(bit).out
        <3>1. PICK bit \in Bits : part' = Taken(bit).part /\ out' = Taken(bit).out
            BY <2>3
        <3> QED
            BY <3>1, TakenIs
    <2> QED
        BY <1>8, <2>1, <2>2, <2>3
<1>10. Found' \in Nat /\ Found' <= Found + 1
    BY <1>9 DEF Found
<1> QED
    BY <1>1, <1>2, <1>3, <1>4, <1>5, <1>6, <1>7, <1>9, <1>10 DEF Scanned

\* A flag is the last only of 16 bytes.
LEMMA NoneYet ==
    ASSUME Scanned, Found < 8 * MinFrame - 1
    PROVE  ~IsClosing
<1>1. 1 \in Bits
    BY DEF Bits
<1>2. Taken(1).out \in Seq(Bits) /\ Len(Taken(1).out) <= Found + 1
    BY <1>1, TakenIs
<1>3. Found \in Nat /\ Len(Taken(1).out) \in Nat
    BY <1>2 DEF Scanned, Found
<1> QED
    BY <1>2, <1>3 DEF IsClosing, MinFrame

\* Noise has not the bytes for a frame: what follows is noise or flags.
LEMMA NoiseKept ==
    ASSUME NEW N, NEW P, NEW v, NEW run, NEW at, NEW n, Carries(hdlc, N, P, v, run, at, n),
           Scanned, InNoise(N)
    PROVE  ~ClosingFlag /\ (Pass => InNoise(N)' \/ InFlags(N, P)')
<1>1. /\ N \in 1..112 /\ P \in Nat /\ (P - N) % 8 = 0 /\ N < P /\ hdlc \in Seq(Bits)
    BY DEF Carries, Layout
<1>2. /\ pos \in 3..N /\ Found + 3 <= pos /\ (resync > 0 => skip = FALSE)
      /\ resync \in 0..2
    BY DEF InNoise, Scanned
<1>3. ~ClosingFlag
    <2>1. Found \in Nat
        BY DEF Scanned, Found
    <2>2. ~IsClosing
        BY <1>1, <1>2, <2>1, NoneYet DEF MinFrame
    <2> QED
        BY <2>2 DEF ClosingFlag
<1>4. ASSUME Pass PROVE InNoise(N)' \/ InFlags(N, P)'
    <2>1. /\ hdlc' = hdlc /\ pos <= Len(hdlc) /\ last' = this /\ this' = hdlc[pos]
        BY <1>1, <1>4, PassIs
    <2>2. Found' + 3 <= pos'
        <3>1. Found \in Nat /\ Found' \in Nat /\ Found' <= Found + 1
            BY <1>1, <1>4, PassIs
        <3>2. Found + 3 <= pos /\ pos \in Nat /\ pos' \in Nat /\ pos + 1 <= pos'
            <4>1. pos' = pos + 1 \/ pos' = 8 * ((pos - 1) \div 8) + 9
                BY <1>1, <1>4, PassIs
            <4>2. pos \in Nat /\ pos >= 3
                BY <1>1, <1>2
            <4> QED
                BY <1>2, <4>1, <4>2
        <3> DEFINE f == Found
                   g == Found'
        <3> HIDE DEF f, g
        <3>3. f \in Nat /\ g \in Nat /\ g <= f + 1 /\ f + 3 <= pos
            BY <3>1, <3>2 DEF f, g
        <3>4. g + 3 <= pos'
            BY <3>2, <3>3
        <3> QED
            BY <3>4 DEF g
    <2>3. CASE Skip \/ Bit \/ StuffedZero
        <3>1. pos' = pos + 1 /\ (resync' > 0 => skip' = FALSE)
            <4>1. CASE Skip
                BY <4>1, SkipIs DEF Moved
            <4>2. CASE Bit \/ StuffedZero
                <5>1. pos' = pos + 1 /\ resync' = 0
                    BY <4>2, BitIs, StuffedZeroIs DEF Moved
                <5>2. ~(resync' > 0)
                    BY <5>1
                <5> QED
                    BY <5>1, <5>2
            <4> QED
                BY <2>3, <4>1, <4>2
        <3>2. CASE pos < N
            <4>1. pos' \in 3..N
                BY <1>1, <1>2, <3>1, <3>2
            <4>2. InNoise(N)'
                BY <2>2, <3>1, <4>1 DEF InNoise
            <4> QED
                BY <4>2
        <3>3. CASE pos = N
            <4>1. (pos' - N - 1) % 8 = 0 /\ pos' = N + 1 /\ pos' \in (N + 1)..P /\ ~(pos' > N + 16)
                BY <1>1, <1>2, <3>1, <3>3
            <4>2. AtFlagBit(0, TRUE)'
                <5>1. 0 # 1 /\ 0 # 2 /\ ~(0 > 2)
                    OBVIOUS
                <5>2. resync' > 0 => skip' = FALSE
                    BY <3>1, Zenon
                <5> QED
                    BY <5>1, <5>2, Zenon DEF AtFlagBit
            <4>3. AtFlagBit(FlagBit(N), pos = N + 1)'
                BY <4>1, <4>2 DEF FlagBit
            <4>4. InFlags(N, P)'
                BY <2>2, <4>1, <4>3 DEF InFlags
            <4> QED
                BY <4>4
        <3> QED
            BY <1>1, <1>2, <3>2, <3>3
    <2>4. CASE SevenOnes \/ OpeningFlag
        <3>1. /\ pos' = 8 * ((pos - 1) \div 8) + 9 /\ skip' = FALSE /\ ones' = 5
              /\ resync' = 2 \/ (resync' = 0 /\ last' = 1 /\ this' = 1)
            <4>1. CASE SevenOnes
                BY <2>1, <4>1, SevenOnesIs DEF Jumped
            <4>2. CASE OpeningFlag
                BY <4>2, OpeningFlagIs DEF Jumped
            <4> QED
                BY <2>4, <4>1, <4>2
        <3>2. /\ pos' \in (pos + 1)..(N + 8) /\ pos' \in Nat /\ pos' > 3
              /\ (pos' > N + 1 => N % 8 # 0 /\ (pos' - N - 1) % 8 > 0)
              /\ N + 8 <= P
            <4> DEFINE q == (pos - 1) \div 8
            <4>1. q \in Nat /\ 8 * q <= pos - 1 /\ pos - 1 < 8 * q + 8 /\ pos \in Nat /\ pos >= 3
                BY <1>2
            <4>2. pos' = 8 * q + 9
                BY <3>1
            <4> HIDE DEF q
            <4>3. N \in Nat /\ P \in Nat /\ pos <= N /\ N + 8 <= P
                BY <1>1, <1>2
            <4>4. /\ pos' \in (pos + 1)..(N + 8) /\ pos' \in Nat /\ pos' > 3
                BY <4>1, <4>2, <4>3
            <4>5. ASSUME pos' > N + 1 PROVE N % 8 # 0 /\ (pos' - N - 1) % 8 > 0
                BY <4>1, <4>2, <4>3, <4>5
            <4> QED
                BY <4>3, <4>4, <4>5
        <3>3. CASE pos' <= N
            <4>1. pos' \in 3..N
                BY <1>1, <1>2, <3>2, <3>3
            <4>2. InNoise(N)'
                BY <2>2, <3>1, <4>1 DEF InNoise
            <4> QED
                BY <4>2
        <3>4. CASE pos' = N + 1
            <4>1. (pos' - N - 1) % 8 = 0 /\ pos' \in (N + 1)..P /\ ~(pos' > N + 16)
                BY <1>1, <3>4
            <4>2. AtFlagBit(0, TRUE)'
                <5>1. 0 # 1 /\ 0 # 2 /\ ~(0 > 2)
                    OBVIOUS
                <5>2. resync' > 0 => skip' = FALSE
                    BY <3>1, Zenon
                <5> QED
                    BY <5>1, <5>2, Zenon DEF AtFlagBit
            <4>3. AtFlagBit(FlagBit(N), pos = N + 1)'
                BY <3>4, <4>1, <4>2 DEF FlagBit
            <4>4. InFlags(N, P)'
                BY <2>2, <4>1, <4>3 DEF InFlags
            <4> QED
                BY <4>4
        <3>5. CASE pos' > N + 1
            <4>1. N % 8 # 0 /\ FlagBit(N)' > 0 /\ pos' \in (N + 1)..P /\ ~(pos' > N + 8)
                <5>1. FlagBit(N)' = (pos' - N - 1) % 8
                    BY DEF FlagBit
                <5>2. N \in Nat /\ P \in Nat
                    BY <1>1
                <5>3. N % 8 # 0 /\ (pos' - N - 1) % 8 > 0 /\ pos' \in Nat /\ pos' <= N + 8 /\ N + 8 <= P
                    BY <3>2, <3>5
                <5>4. pos' \in (N + 1)..P /\ ~(pos' > N + 8)
                    BY <3>5, <5>2, <5>3
                <5> QED
                    BY <5>1, <5>3, <5>4
            <4>2. InsideFlag'
                <5>1. resync' # 1 /\ ones' >= 5 /\ (resync' = 0 => last' = 1 /\ this' = 1)
                    BY <3>1
                <5> QED
                    BY <3>1, <5>1 DEF InsideFlag
            <4>3. InFlags(N, P)'
                BY <2>2, <4>1, <4>2 DEF InFlags
            <4> QED
                BY <4>3
        <3> QED
            BY <1>1, <1>2, <3>2, <3>3, <3>4, <3>5
    <2> QED
        BY <1>4, <2>3, <2>4 DEF Pass
<1> QED
    BY <1>3, <1>4

\* What is read among the flags.
LEMMA FlagRead ==
    ASSUME NEW N, NEW P, NEW v, NEW run, NEW at, NEW n, Carries(hdlc, N, P, v, run, at, n),
           pos \in (N + 1)..P
    PROVE  /\ FlagBit(N) \in 0..7
           /\ pos <= Len(hdlc) => hdlc[pos] = IF FlagBit(N) \in {0, 7} THEN 0 ELSE 1
<1>1. N \in Nat /\ P \in Nat
    BY DEF Carries, Layout
<1> DEFINE t == (pos - N - 1) % 8
<1>2. t \in 0..7 /\ FlagBit(N) = t
    BY <1>1 DEF FlagBit
<1>3. pos <= Len(hdlc) => hdlc[pos] = Flag[t + 1]
    BY DEF Carries
<1> HIDE DEF t
<1>4. t + 1 \in 1..8 /\ (t + 1 \in {1, 8} <=> t \in {0, 7})
    BY <1>2
<1>5. Flag[t + 1] = IF t + 1 \in {1, 8} THEN 0 ELSE 1
    BY <1>4, FlagIs
<1> QED
    BY <1>2, <1>3, <1>4, <1>5

\* From one bit of a flag to the next.
LEMMA FlagBitKept ==
    ASSUME Scanned, NEW t \in 0..6, NEW first \in BOOLEAN, AtFlagBit(t, first), Pass,
           last' = this, this' = IF t = 0 THEN 0 ELSE 1,
           t = 0 => ~OpeningFlag /\ ~SevenOnes
    PROVE  Moved /\ AtFlagBit(t + 1, FALSE)'
<1>1. resync \in 0..2 /\ ones \in Nat /\ last \in Bits /\ this \in Bits
    BY DEF Scanned
<1>2. ~OpeningFlag /\ ~SevenOnes
    <2>1. t = 1 => this # 1
        BY DEF AtFlagBit
    <2>2. t = 2 => last # 1
        BY DEF AtFlagBit
    <2>3. t > 2 => ones # 4
        BY DEF AtFlagBit
    <2>4. t = 0 \/ t = 1 \/ t = 2 \/ t > 2
        OBVIOUS
    <2> QED
        BY <2>1, <2>2, <2>3, <2>4, OpeningFlagIs, SevenOnesIs
<1>3. Skip \/ Bit \/ StuffedZero
    BY <1>2 DEF Pass
<1>4. Moved
    BY <1>3, SkipIs, BitIs, StuffedZeroIs
<1>5. CASE t = 0
    <2>1. this' = 0 /\ t + 1 = 1
        BY <1>5
    <2>2. resync' < 2 /\ (resync' = 1 => skip' = FALSE)
        <3>1. CASE Skip
            <4>1. resync' = (IF resync > 0 THEN resync - 1 ELSE 0) /\ skip' = FALSE
                BY <3>1, SkipIs
            <4>2. resync' < 2
                BY <1>1, <4>1
            <4> QED
                BY <4>1, <4>2
        <3>2. CASE Bit \/ StuffedZero
            <4>1. resync' = 0
                BY <3>2, BitIs, StuffedZeroIs
            <4> QED
                BY <4>1
        <3> QED
            BY <1>3, <3>1, <3>2
    <2>3. 1 # 0 /\ 1 # 2 /\ ~(1 > 2)
        OBVIOUS
    <2>4. AtFlagBit(1, FALSE)'
        BY <2>1, <2>2, <2>3, Zenon DEF AtFlagBit
    <2> QED
        BY <1>4, <2>1, <2>4
<1>6. CASE t = 1
    <2>1. this' = 1 /\ last' = 0 /\ t + 1 = 2 /\ resync < 2
        BY <1>6 DEF AtFlagBit
    <2>2. resync' = 0 /\ (skip' = TRUE => ones' = 0)
        <3>1. CASE Skip
            <4>1. resync' = (IF resync > 0 THEN resync - 1 ELSE 0) /\ skip' = FALSE
                BY <3>1, SkipIs
            <4>2. resync' = 0
                BY <1>1, <2>1, <4>1
            <4> QED
                BY <4>1, <4>2
        <3>2. CASE Bit
            BY <3>2, BitIs
        <3>3. CASE StuffedZero
            BY <3>3, StuffedZeroIs
        <3> QED
            BY <1>3, <3>1, <3>2, <3>3
    <2>3. 2 # 0 /\ 2 # 1 /\ ~(2 > 2)
        OBVIOUS
    <2>4. AtFlagBit(2, FALSE)'
        BY <2>1, <2>2, <2>3, Zenon DEF AtFlagBit
    <2> QED
        BY <1>4, <2>1, <2>4
<1>7. CASE t = 2
    <2>1. last = 0 /\ this = 1 /\ resync = 0 /\ (skip = TRUE => ones = 0)
        BY <1>7 DEF AtFlagBit
    <2>2. last' = 1 /\ this' = 1 /\ t + 1 = 3 /\ last # 1
        BY <1>7, <2>1
    <2>3. ones' = 0 /\ resync' = 0 /\ skip' = FALSE
        <3>1. CASE Skip
            <4>1. skip = TRUE
                <5>1. skip \in BOOLEAN /\ ~(skip = FALSE)
                    BY <2>1, <3>1, SkipIs DEF Scanned
                <5> QED
                    BY <5>1
            <4>2. ones = 0
                BY <2>1, <4>1
            <4> QED
                BY <2>1, <3>1, <4>2, SkipIs
        <3>2. CASE Bit
            BY <2>1, <3>2, BitIs
        <3>3. ~StuffedZero
            BY <2>2, StuffedZeroIs
        <3> QED
            BY <1>3, <3>1, <3>2, <3>3
    <2>4. 3 # 0 /\ 3 # 1 /\ 3 # 2 /\ 0 = 3 - 3
        OBVIOUS
    <2>5. AtFlagBit(3, FALSE)'
        BY <2>2, <2>3, <2>4, Zenon DEF AtFlagBit
    <2> QED
        BY <1>4, <2>2, <2>5
<1>8. CASE t > 2
    <2>1. ones = t - 3 /\ last = 1 /\ this = 1 /\ resync = 0 /\ skip = FALSE
        BY <1>8 DEF AtFlagBit
    <2>2. ones # 4 /\ last # 0
        BY <2>1
    <2>3. Bit
        BY <1>3, <2>1, <2>2, SkipIs, StuffedZeroIs
    <2>4. ones' = ones + 1 /\ resync' = 0 /\ skip' = FALSE
        BY <2>2, <2>3, BitIs
    <2>5. last' = 1 /\ this' = 1
        BY <1>8, <2>1
    <2> DEFINE u == t + 1
    <2>6. u # 0 /\ u # 1 /\ u # 2 /\ ones' = u - 3
        BY <1>8, <2>1, <2>4
    <2> HIDE DEF u
    <2>7. AtFlagBit(u, FALSE)'
        BY <2>4, <2>5, <2>6, Zenon DEF AtFlagBit
    <2> QED
        BY <1>4, <2>7 DEF u
<1>9. t = 0 \/ t = 1 \/ t = 2 \/ t > 2
    OBVIOUS
<1> QED
    BY <1>5, <1>6, <1>7, <1>8, <1>9

\* Out of step, to the end of the flag that was entered.
LEMMA InsideKept ==
    ASSUME Scanned, InsideFlag, Pass, last' = this
    PROVE  /\ Moved /\ skip' = FALSE /\ ones' \in Nat /\ ones' >= 5
           /\ resync' < 2 /\ (resync' = 0 => last' = 1)
<1>1. resync \in 0..2 /\ ones \in Nat /\ ones >= 5 /\ skip = FALSE
      /\ (resync = 1 => this = 1) /\ (resync = 0 => last = 1 /\ this = 1)
    BY DEF Scanned, InsideFlag
<1>2. ones # 4
    BY <1>1
<1>3. Skip \/ Bit
    BY <1>2, StuffedZeroIs, SevenOnesIs, OpeningFlagIs DEF Pass
<1>4. CASE Skip
    <2>1. Moved /\ skip' = FALSE /\ ones' = ones /\ resync' = IF resync > 0 THEN resync - 1 ELSE 0
        BY <1>4, SkipIs
    <2>2. resync' < 2 /\ (resync' = 0 => last' = 1)
        BY <1>1, <2>1
    <2>3. ones' \in Nat /\ ones' >= 5
        BY <1>1, <2>1
    <2> QED
        BY <2>1, <2>2, <2>3
<1>5. CASE Bit
    <2>1. Moved /\ skip' = FALSE /\ resync' = 0 /\ resync = 0 /\ ones' = IF last = 0 THEN 0 ELSE ones + 1
        BY <1>5, BitIs
    <2>2. last = 1 /\ last # 0 /\ this = 1
        BY <1>1, <2>1
    <2>3. ones' \in Nat /\ ones' >= 5 /\ resync' < 2
        BY <1>1, <2>1, <2>2
    <2> QED
        BY <2>1, <2>2, <2>3
<1> QED
    BY <1>3, <1>4, <1>5

\* Where a flag is seen: the next byte is the next flag's, or in the middle of it, or
\* behind the last one.
LEMMA FlagJumped ==
    ASSUME NEW N, NEW P, NEW v, NEW run, NEW at, NEW n, Carries(hdlc, N, P, v, run, at, n),
           Scanned, Pass, pos \in (N + 1)..P, OpeningFlag, FlagBit(N) = 7 \/ pos = N + 1
    PROVE  InFlags(N, P)' \/ (P % 8 = 0 /\ Opened(P)') \/ (P % 8 # 0 /\ Settled(P)')
<1>1. N \in 1..112 /\ P \in Nat /\ (P - N) % 8 = 0 /\ N < P /\ hdlc \in Seq(Bits) /\ Len(hdlc) % 8 = 0
    BY DEF Carries, Layout
<1>2. /\ part' = <<>> /\ out' = <<>> /\ ones' = 5 /\ skip' = FALSE /\ resync' = 2 /\ store' = TRUE
      /\ hdlc[pos] = 0 /\ pos' = 8 * ((pos - 1) \div 8) + 9
    BY OpeningFlagIs DEF Jumped
<1>3. hdlc' = hdlc /\ pos <= Len(hdlc) /\ this' = 0
    BY <1>1, <1>2, PassIs
<1>4. Found' = 0
    <2>1. Len(<<>>) = 0
        OBVIOUS
    <2> QED
        BY <1>2, <2>1 DEF Found
<1>5. FlagBit(N) = (pos - N - 1) % 8 /\ FlagBit(N)' = (pos' - N - 1) % 8
    BY DEF FlagBit
<1> DEFINE q == (pos - 1) \div 8
           l == Len(hdlc)
<1>6. q \in Nat /\ 8 * q <= pos - 1 /\ pos - 1 < 8 * q + 8 /\ pos' = 8 * q + 9 /\ l \in Nat /\ l % 8 = 0
      /\ pos <= l /\ pos \in Nat /\ N < pos /\ pos <= P
    BY <1>1, <1>2, <1>3
<1>7. (pos - N - 1) % 8 = 7 \/ pos = N + 1
    BY <1>5
<1> HIDE DEF q, l
<1>8. pos' \in Nat /\ pos' > N + 1 /\ pos' > 3 /\ N \in Nat
    BY <1>1, <1>6
<1>9. CASE N % 8 = 0
    <2>1. P % 8 = 0 /\ (pos' - N - 1) % 8 = 0 /\ (pos' <= P \/ pos' = P + 1) /\ (pos' = P + 1 => pos' <= l + 1)
        BY <1>1, <1>6, <1>7, <1>9
    <2>2. CASE pos' <= P
        <3>1. pos' \in (N + 1)..P /\ Found' + 3 <= pos' /\ Found' <= FlagBit(N)' + 8 /\ FlagBit(N)' = 0
            <4>1. pos' \in (N + 1)..P /\ 0 + 3 <= pos' /\ 0 <= 0 + 8
                BY <1>1, <1>8, <2>2
            <4>2. FlagBit(N)' = 0
                BY <1>5, <2>1
            <4> QED
                BY <1>4, <4>1, <4>2
        <3>2. AtFlagBit(0, pos = N + 1)'
            <4>1. 0 # 1 /\ 0 # 2 /\ ~(0 > 2)
                OBVIOUS
            <4> QED
                BY <1>2, <1>3, <4>1, Zenon DEF AtFlagBit
        <3>3. AtFlagBit(FlagBit(N), pos = N + 1)'
            BY <3>1, <3>2
        <3>4. InFlags(N, P)'
            BY <3>1, <3>3 DEF InFlags
        <3> QED
            BY <3>4
    <2>3. CASE pos' = P + 1
        <3>1. pos' <= Len(hdlc') + 1 /\ resync' = P + 3 - pos' /\ pos' # P + 2
            BY <1>1, <1>2, <1>3, <2>1, <2>3 DEF l
        <3>2. Opened(P)'
            BY <1>2, <2>3, <3>1 DEF Opened
        <3> QED
            BY <2>1, <3>2
    <2> QED
        BY <2>1, <2>2, <2>3
<1>10. CASE N % 8 # 0
    <2>1. P % 8 # 0 /\ (pos' <= P => (pos' - N - 1) % 8 > 0)
        BY <1>1, <1>6, <1>7, <1>10
    <2>2. CASE pos' <= P
        <3>1. pos' \in (N + 1)..P /\ Found' + 3 <= pos' /\ FlagBit(N)' > 0 /\ Found' <= FlagBit(N)'
            <4> DEFINE u == (pos' - N - 1) % 8
            <4>1. u \in 0..7 /\ u > 0
                <5>1. u > 0
                    BY <2>1, <2>2
                <5> DEFINE a == pos'
                <5>2. a \in Nat /\ N \in Nat /\ a > N + 1
                    BY <1>8
                <5> HIDE DEF a
                <5>3. a - N - 1 \in Nat
                    BY <5>2
                <5>4. (a - N - 1) % 8 \in 0..7
                    BY <5>3
                <5> QED
                    BY <5>1, <5>4 DEF a
            <4> HIDE DEF u
            <4>2. FlagBit(N)' > 0 /\ 0 <= FlagBit(N)'
                <5>1. FlagBit(N)' = u
                    BY <1>5 DEF u
                <5> QED
                    BY <4>1, <5>1
            <4>3. pos' \in (N + 1)..P /\ 0 + 3 <= pos'
                BY <1>1, <1>8, <2>2
            <4> QED
                BY <1>4, <4>2, <4>3
        <3>2. InsideFlag'
            <4>1. 5 >= 5 /\ 2 # 1 /\ 2 # 0
                OBVIOUS
            <4> QED
                BY <1>2, <4>1, Zenon DEF InsideFlag
        <3>3. InFlags(N, P)'
            BY <1>10, <3>1, <3>2 DEF InFlags
        <3> QED
            BY <3>3
    <2>3. CASE pos' > P
        <3>1. ones' >= 5 /\ ~(ones' < 5) /\ ~(resync' < 2) /\ resync' # 0
            BY <1>2
        <3>2. Settled(P)'
            BY <1>2, <2>3, <3>1 DEF Settled
        <3> QED
            BY <2>1, <3>2
    <2> QED
        BY <1>1, <1>8, <2>2, <2>3
<1> QED
    BY <1>9, <1>10

\* How many bits have been found on the way to the next one.
LEMMA FoundMore ==
    ASSUME Scanned, hdlc \in Seq(Bits), Pass, Moved, NEW c \in Nat
    PROVE  /\ Found + 3 <= pos => Found' + 3 <= pos'
           /\ Found <= c => Found' <= c + 1
<1> DEFINE f == Found
           g == Found'
<1>1. f \in Nat /\ g \in Nat /\ g <= f + 1 /\ pos \in Nat /\ pos' = pos + 1
    BY PassIs DEF Scanned, Moved
<1> HIDE DEF f, g
<1>2. (f + 3 <= pos => g + 3 <= pos') /\ (f <= c => g <= c + 1)
    BY <1>1
<1> QED
    BY <1>2 DEF f, g

\* Every flag of the preamble that is met at its first bit opens a frame anew.
LEMMA FlagsKept ==
    ASSUME NEW N, NEW P, NEW v, NEW run, NEW at, NEW n, Carries(hdlc, N, P, v, run, at, n),
           Scanned, InFlags(N, P)
    PROVE  /\ ~ClosingFlag
           /\ Pass => InFlags(N, P)' \/ (P % 8 = 0 /\ Opened(P)') \/ (P % 8 # 0 /\ Settled(P)')
<1>1. N \in 1..112 /\ P \in Nat /\ (P - N) % 8 = 0 /\ N < P /\ hdlc \in Seq(Bits)
    BY DEF Carries, Layout
<1>2. pos \in (N + 1)..P /\ (pos <= N + 16 => Found + 3 <= pos) /\ Found \in Nat
    BY DEF InFlags, Scanned, Found
<1>3. PICK t \in 0..7 : /\ t = FlagBit(N)
                        /\ pos <= Len(hdlc) => hdlc[pos] = IF t \in {0, 7} THEN 0 ELSE 1
    BY <1>2, FlagRead
<1>4. t = (pos - N - 1) % 8
    BY <1>3 DEF FlagBit
<1>5. \/ AtFlagBit(t, pos = N + 1) /\ (pos > N + 16 => Found <= t + 8)
      \/ InsideFlag /\ N % 8 # 0 /\ t > 0 /\ (pos > N + 8 => Found <= t)
    BY <1>3 DEF InFlags
<1>6. ~ClosingFlag
    <2>1. Found <= 125
        <3> DEFINE f == Found
        <3>1. f \in Nat /\ pos \in Nat /\ (pos <= N + 16 => f + 3 <= pos)
              /\ (pos > N + 16 => f <= t + 8)
            BY <1>1, <1>2, <1>3, <1>5
        <3> HIDE DEF f
        <3>2. N \in Nat /\ N <= 112 /\ t \in Nat /\ t <= 7
            BY <1>1, <1>3
        <3>3. CASE pos <= N + 16
            <4>1. f + 3 <= pos /\ pos <= 128
                BY <3>1, <3>2, <3>3
            <4> QED
                BY <3>1, <4>1 DEF f
        <3>4. CASE pos > N + 16
            <4>1. f <= t + 8
                BY <3>1, <3>4
            <4> QED
                BY <3>1, <3>2, <4>1 DEF f
        <3>5. pos <= N + 16 \/ pos > N + 16
            BY <3>1, <3>2
        <3>6. f <= 125
            BY <3>3, <3>4, <3>5 DEF f
        <3> QED
            BY <3>6 DEF f
    <2>2. Found < 8 * MinFrame - 1
        BY <1>2, <2>1 DEF MinFrame
    <2> QED
        BY <2>2, NoneYet DEF ClosingFlag
<1>7. ASSUME Pass
      PROVE  InFlags(N, P)' \/ (P % 8 = 0 /\ Opened(P)') \/ (P % 8 # 0 /\ Settled(P)')
    <2>1. hdlc' = hdlc /\ pos <= Len(hdlc) /\ last' = this /\ this' = hdlc[pos]
        BY <1>1, <1>7, PassIs
    <2>2. this' = IF t \in {0, 7} THEN 0 ELSE 1
        BY <1>3, <2>1
    <2>3. FlagBit(N)' = (pos' - N - 1) % 8
        BY DEF FlagBit
    <2>4. Moved => \/ t < 7 /\ pos < P /\ FlagBit(N)' = t + 1
                   \/ t = 7 /\ pos < P /\ FlagBit(N)' = 0
                   \/ t = 7 /\ pos = P
        BY <1>1, <1>2, <1>3, <1>4, <2>3 DEF Moved
    <2>5. Moved => /\ (Found + 3 <= pos => Found' + 3 <= pos') /\ (Found <= t => Found' <= t + 1)
                   /\ (Found <= t + 8 => Found' <= t + 9)
        <3>1. t \in Nat /\ t + 8 \in Nat /\ (t + 8) + 1 = t + 9
            BY <1>3
        <3> QED
            BY <1>1, <1>7, <3>1, FoundMore
    <2>6. CASE AtFlagBit(t, pos = N + 1) /\ (pos > N + 16 => Found <= t + 8)
        <3>1. CASE t < 7 /\ ~(t = 0 /\ OpeningFlag)
            <4>1. Moved /\ AtFlagBit(t + 1, FALSE)'
                <5>1. t \in 0..6 /\ (t = 0 => t # 7)
                    BY <1>3, <3>1
                <5>2. this' = IF t = 0 THEN 0 ELSE 1
                    BY <2>2, <5>1
                <5>3. t = 0 => ~OpeningFlag /\ ~SevenOnes
                    BY <2>1, <3>1, <5>2, SevenOnesIs
                <5> DEFINE first == pos = N + 1
                <5>4. first \in BOOLEAN /\ AtFlagBit(t, first)
                    BY <2>6
                <5> HIDE DEF first
                <5> QED
                    BY <1>7, <2>1, <5>1, <5>2, <5>3, <5>4, FlagBitKept, Zenon
            <4>2. FlagBit(N)' = t + 1 /\ pos < P /\ pos' = pos + 1
                BY <2>4, <3>1, <4>1 DEF Moved
            <4>3. AtFlagBit(FlagBit(N), pos = N + 1)'
                <5>1. t + 1 # 0
                    BY <1>3
                <5>2. AtFlagBit(t + 1, pos = N + 1)'
                    BY <4>1, <5>1, Zenon DEF AtFlagBit
                <5> QED
                    BY <4>2, <5>2
            <4>4. /\ pos' \in (N + 1)..P /\ (pos' <= N + 16 => Found' + 3 <= pos')
                  /\ (pos' > N + 16 => Found' <= FlagBit(N)' + 8)
                <5>1. pos' \in (N + 1)..P /\ (pos' <= N + 16 => pos <= N + 16)
                      /\ (pos' > N + 16 => pos > N + 16)
                    BY <1>1, <1>2, <1>4, <3>1, <4>2
                <5>2. t + 9 = FlagBit(N)' + 8
                    BY <1>3, <4>2
                <5> QED
                    BY <1>2, <2>5, <2>6, <4>1, <5>1, <5>2
            <4>5. InFlags(N, P)'
                BY <4>3, <4>4 DEF InFlags
            <4> QED
                BY <4>5
        <3>2. CASE t = 0 /\ OpeningFlag
            <4>1. this = 1
                BY <3>2, OpeningFlagIs
            <4>2. pos = N + 1
                BY <2>6, <3>2, <4>1 DEF AtFlagBit
            <4> QED
                BY <1>2, <1>7, <3>2, <4>2, FlagJumped
        <3>3. CASE t = 7
            <4>1. ones = 4 /\ last = 1 /\ last # 0 /\ this # 0 /\ this = 1 /\ resync = 0 /\ skip = FALSE
                BY <2>6, <3>3 DEF AtFlagBit
            <4>2. this' = 0
                BY <2>2, <3>3
            <4>3. OpeningFlag
                <5>1. ~Skip /\ ~Bit /\ ~StuffedZero
                    BY <4>1, SkipIs, BitIs, StuffedZeroIs
                <5>2. ~SevenOnes
                    BY <2>1, <4>2, SevenOnesIs
                <5> QED
                    BY <1>7, <5>1, <5>2 DEF Pass
            <4> QED
                BY <1>2, <1>3, <1>7, <3>3, <4>3, FlagJumped
        <3> QED
            BY <1>3, <3>1, <3>2, <3>3
    <2>7. CASE InsideFlag /\ N % 8 # 0 /\ t > 0 /\ (pos > N + 8 => Found <= t)
        <3>1. /\ Moved /\ skip' = FALSE /\ ones' \in Nat /\ ones' >= 5
              /\ resync' < 2 /\ (resync' = 0 => last' = 1)
            BY <1>7, <2>1, <2>7, InsideKept
        <3>2. pos' = pos + 1 /\ (pos' \in (N + 1)..P \/ pos' = P + 1)
            BY <1>1, <1>2, <3>1 DEF Moved
        <3>3. P % 8 # 0
            <4>1. N % 8 # 0
                BY <2>7
            <4> QED
                BY <1>1, <4>1
        <3>4. CASE t < 7
            <4>1. FlagBit(N)' = t + 1 /\ pos < P
                BY <2>4, <3>1, <3>4
            <4>2. this' = 1
                <5>1. t \notin {0, 7}
                    BY <2>7, <3>4
                <5> QED
                    BY <2>2, <5>1
            <4>3. InsideFlag'
                BY <3>1, <4>2 DEF InsideFlag
            <4>4. /\ pos' \in (N + 1)..P /\ (pos' <= N + 16 => Found' + 3 <= pos')
                  /\ (pos' > N + 8 => Found' <= FlagBit(N)') /\ FlagBit(N)' > 0
                <5>1. pos' \in (N + 1)..P /\ (pos' <= N + 16 => pos <= N + 16)
                      /\ (pos' > N + 8 => pos > N + 8) /\ t + 1 > 0
                    BY <1>1, <1>2, <1>3, <1>4, <3>2, <3>4, <4>1
                <5> QED
                    BY <1>2, <2>5, <2>7, <3>1, <4>1, <5>1
            <4>5. InFlags(N, P)'
                BY <2>7, <4>3, <4>4 DEF InFlags
            <4> QED
                BY <4>5
        <3>5. CASE t = 7 /\ pos < P
            <4>1. FlagBit(N)' = 0
                <5>1. ~(t < 7) /\ pos # P
                    BY <1>1, <1>2, <3>5
                <5> QED
                    BY <2>4, <3>1, <5>1, Zenon
            <4>2. AtFlagBit(0, pos = N + 1)'
                <5>1. 0 # 1 /\ 0 # 2 /\ ~(0 > 2) /\ this' = 0
                    BY <2>2, <3>5
                <5> QED
                    BY <3>1, <5>1, Zenon DEF AtFlagBit
            <4>3. AtFlagBit(FlagBit(N), pos = N + 1)'
                BY <4>1, <4>2
            <4>4. /\ pos' \in (N + 1)..P /\ (pos' <= N + 16 => Found' + 3 <= pos')
                  /\ (pos' > N + 16 => Found' <= FlagBit(N)' + 8)
                <5>1. pos' \in (N + 1)..P /\ (pos' <= N + 16 => pos <= N + 16)
                      /\ (pos' > N + 16 => pos > N + 8)
                    BY <1>1, <1>2, <3>2, <3>5
                <5>2. t + 1 = FlagBit(N)' + 8
                    BY <3>5, <4>1
                <5> QED
                    BY <1>2, <2>5, <2>7, <3>1, <5>1, <5>2
            <4>5. InFlags(N, P)'
                BY <4>3, <4>4 DEF InFlags
            <4> QED
                BY <4>5
        <3>6. CASE t = 7 /\ pos = P
            <4>1. pos' = P + 1 /\ pos' - 1 = pos /\ pos' - 2 = P - 1 /\ P - 1 >= N + 1 /\ P - 1 <= Len(hdlc)
                BY <1>1, <1>2, <1>4, <2>1, <3>2, <3>6
            <4>2. this' = hdlc'[pos' - 1]
                BY <2>1, <4>1
            <4>3. hdlc[P - 1] = 1
                <5>1. P - 1 \in (N + 1)..P /\ ((P - 1) - N - 1) % 8 = 6
                    <6> DEFINE e == P - N
                    <6>1. e \in Nat /\ e % 8 = 0 /\ e >= 2 /\ (P - 1) - N - 1 = e - 2
                        BY <1>1, <4>1
                    <6> HIDE DEF e
                    <6>2. (e - 2) % 8 = 6
                        BY <6>1
                    <6> QED
                        BY <1>1, <4>1, <6>1, <6>2
                <5>2. hdlc[P - 1] = Flag[6 + 1]
                    BY <4>1, <5>1 DEF Carries
                <5> QED
                    BY <5>2, FlagIs
            <4>4. resync' = 0 => last' = hdlc'[pos' - 2]
                BY <2>1, <3>1, <4>1, <4>3
            <4>5. pos' > P /\ ~(ones' < 5)
                BY <1>1, <3>1, <4>1
            <4>6. Settled(P)'
                BY <3>1, <4>2, <4>4, <4>5 DEF Settled
            <4> QED
                BY <3>3, <4>6
        <3> QED
            BY <1>1, <1>2, <1>3, <3>4, <3>5, <3>6
    <2> QED
        BY <1>5, <2>6, <2>7
<1> QED
    BY <1>6, <1>7

\* Behind the last flag come the two bits of it that are skipped, then the frame.
LEMMA OpenedKept ==
    ASSUME NEW N, NEW P, NEW v, NEW run, NEW at, NEW n, Carries(hdlc, N, P, v, run, at, n),
           Scanned, Opened(P)
    PROVE  /\ ~ClosingFlag
           /\ Pass => Opened(P)' \/ InFrame(P, v, run, at, n)'
<1>1. P \in Nat /\ n \in Nat /\ at[0] = 0 /\ hdlc \in Seq(Bits)
    BY DEF Carries, Layout
<1>2. /\ pos = P + 1 \/ pos = P + 2
      /\ resync = P + 3 - pos /\ store = TRUE /\ out = <<>> /\ part = <<>> /\ ones = 5
      /\ pos = P + 2 => this = hdlc[P + 1]
    BY DEF Opened
<1>3. ~ClosingFlag /\ (Pass => Skip)
    <2>1. ones # 4 /\ resync > 0 /\ resync # 0
        BY <1>1, <1>2
    <2> QED
        BY <2>1, ClosingFlagIs, BitIs, StuffedZeroIs, SevenOnesIs, OpeningFlagIs DEF Pass
<1>4. ASSUME Pass PROVE Opened(P)' \/ InFrame(P, v, run, at, n)'
    <2>1. hdlc' = hdlc /\ pos <= Len(hdlc) /\ last' = this /\ this' = hdlc[pos]
        BY <1>1, <1>4, PassIs
    <2>2. /\ pos' = pos + 1 /\ skip' = FALSE /\ resync' = IF resync > 0 THEN resync - 1 ELSE 0
          /\ ones' = 5 /\ part' = <<>> /\ out' = <<>> /\ store' = TRUE
        BY <1>2, <1>3, <1>4, SkipIs DEF Moved
    <2>3. CASE pos = P + 1
        <3>1. pos' = P + 2 /\ resync' = P + 3 - pos' /\ pos' <= Len(hdlc) + 1
            BY <1>1, <1>2, <2>1, <2>2, <2>3
        <3>2. this' = hdlc[P + 1]
            BY <2>1, <2>3
        <3>3. Opened(P)'
            BY <2>1, <2>2, <3>1, <3>2 DEF Opened
        <3> QED
            BY <3>3
    <2>4. CASE pos = P + 2
        <3>1. pos' = P + 3 + 0 /\ resync' = 0 /\ pos' <= Len(hdlc) + 1
            BY <1>1, <1>2, <2>1, <2>2, <2>4
        <3>2. last' = hdlc[P + 0 + 1] /\ this' = hdlc[P + 0 + 2]
            BY <1>1, <1>2, <2>1, <2>4
        <3>3. FirstBits(part, out, 0, v)'
            <4>1. Len(<<>>) = 0
                OBVIOUS
            <4>2. Len(part') = 0 /\ Len(out') = 0
                BY <2>2, <4>1
            <4>3. Len(part') = 0 % 8 /\ Len(out') = 0 - (0 % 8)
                BY <4>2
            <4>4. 1..0 = {}
                OBVIOUS
            <4> QED
                BY <4>2, <4>3, <4>4 DEF FirstBits
        <3>4. AtBit(0, 0, P, v, run, at)'
            <4>1. 0 = at[0] /\ skip' = FALSE
                BY <1>1, <2>2
            <4>2. ones' = IF 0 = 0 THEN 5 ELSE run[0] % 5
                BY <2>2
            <4> QED
                BY <2>1, <2>2, <3>1, <3>2, <3>3, <4>1, <4>2 DEF AtBit
        <3>5. 0 \in 0..n /\ 0 \in Nat
            BY <1>1
        <3> QED
            BY <3>4, <3>5 DEF InFrame
    <2> QED
        BY <1>2, <2>3, <2>4
<1> QED
    BY <1>3, <1>4

\* The next bit of v, once more than five bits are left of a byte, completes it.
LEMMA NextTaken ==
    ASSUME Scanned, store = TRUE, NEW n \in Nat, n % 8 = 5, n - 5 <= 8 * MaxFrame, NEW v \in Word(n),
           NEW i \in 0..(n - 1), FirstBits(part, out, i, v)
    PROVE  FirstBits(Taken(v[i + 1]).part, Taken(v[i + 1]).out, i + 1, v)
<1> DEFINE bit == v[i + 1]
           byte == Append(part, bit)
           a == Len(part)
           o == Len(out)
<1>1. /\ part \in Seq(Bits) /\ out \in Seq(Bits) /\ a \in 0..7 /\ o \in Nat
      /\ a = i % 8 /\ o = i - (i % 8)
      /\ \A k \in 1..o : out[k] = v[k]
      /\ \A k \in 1..a : part[k] = v[o + k]
    BY DEF Scanned, FirstBits
<1>2. bit \in Bits
    BY WordIs
<1> HIDE DEF bit, a, o
<1>3. /\ byte \in Seq(Bits) /\ Len(byte) = a + 1
      /\ \A k \in 1..(a + 1) : byte[k] = v[o + k]
    <2>1. byte \in Seq(Bits) /\ Len(byte) = a + 1 /\ byte[a + 1] = bit
          /\ \A k \in 1..a : byte[k] = part[k]
        BY <1>1, <1>2, AppendProperties DEF a
    <2>2. bit = v[o + (a + 1)]
        <3>1. o + (a + 1) = i + 1
            BY <1>1
        <3> QED
            BY <3>1 DEF bit
    <2>3. ASSUME NEW k \in 1..(a + 1) PROVE byte[k] = v[o + k]
        <3>1. k \in 1..a \/ k = a + 1
            BY <1>1
        <3> QED
            BY <1>1, <2>1, <2>2, <3>1
    <2> QED
        BY <2>1, <2>3
<1>4. i \in Nat /\ a \in 0..7 /\ o \in Nat /\ a = i % 8 /\ o = i - (i % 8)
    BY <1>1
<1>5. CASE a < 7
    <2>1. Taken(bit).part = byte /\ Taken(bit).out = out
        BY <1>1, <1>3, <1>5 DEF Taken
    <2>2. (i + 1) % 8 = a + 1 /\ (i + 1) - ((i + 1) % 8) = o
        <3>1. (i + 1) % 8 = a + 1
            BY <1>4, <1>5
        <3> QED
            BY <1>4, <3>1
    <2> HIDE DEF byte
    <2>3. FirstBits(byte, out, i + 1, v)
        BY <1>1, <1>3, <2>2 DEF FirstBits, o
    <2> QED
        BY <2>1, <2>3 DEF bit
<1>6. CASE a = 7
    <2>1. (i + 1) % 8 = 0 /\ i + 1 = o + 8 /\ o < 8 * MaxFrame
        <3>1. (i + 1) % 8 = 0 /\ i + 1 = o + 8
            BY <1>4, <1>6
        <3>2. i + 1 <= n /\ i + 1 # n /\ i + 1 \in Nat
            BY <3>1
        <3>3. i + 1 <= n - 5
            BY <3>1, <3>2
        <3> QED
            BY <1>1, <3>1, <3>3 DEF MaxFrame
    <2>2. Taken(bit).part = <<>> /\ Taken(bit).out = out \o byte
        BY <1>1, <1>3, <1>6, <2>1 DEF Taken, o
    <2>3. /\ out \o byte \in Seq(Bits) /\ Len(out \o byte) = o + 8
          /\ \A k \in 1..(o + 8) : (out \o byte)[k] = IF k <= o THEN out[k] ELSE byte[k - o]
        <3> HIDE DEF byte
        <3>1. Len(byte) = 8
            BY <1>3, <1>6
        <3>2. out \o byte \in Seq(Bits) /\ Len(out \o byte) = Len(out) + Len(byte)
              /\ \A k \in 1..(Len(out) + Len(byte)) :
                   (out \o byte)[k] = IF k <= Len(out) THEN out[k] ELSE byte[k - Len(out)]
            <4>1. out \in Seq(Bits) /\ byte \in Seq(Bits)
                BY <1>1, <1>3
            <4> QED
                BY <4>1, ConcatProperties
        <3> QED
            BY <3>1, <3>2 DEF o
    <2>4. ASSUME NEW k \in 1..(o + 8) PROVE (out \o byte)[k] = v[k]
        <3>1. CASE k <= o
            <4>1. k \in 1..o
                BY <1>1, <3>1
            <4> QED
                BY <1>1, <2>3, <3>1, <4>1
        <3>2. CASE ~(k <= o)
            <4>1. k - o \in 1..(a + 1) /\ o + (k - o) = k
                BY <1>1, <1>6, <3>2
            <4>2. byte[k - o] = v[o + (k - o)]
                BY <1>3, <4>1
            <4> QED
                BY <2>3, <3>2, <4>1, <4>2
        <3> QED
            BY <3>1, <3>2
    <2>5. Len(<<>>) = 0 /\ 1..0 = {}
        OBVIOUS
    <2> DEFINE all == out \o byte
    <2>6. Len(all) = o + 8 /\ \A k \in 1..(o + 8) : all[k] = v[k]
        BY <2>3, <2>4
    <2> HIDE DEF all
    <2>7. FirstBits(<<>>, all, i + 1, v)
        BY <1>1, <2>1, <2>5, <2>6 DEF FirstBits
    <2> QED
        BY <2>2, <2>7 DEF bit, all
<1> QED
    BY <1>1, <1>5, <1>6

\* What is known at bit i of the frame, in terms of the line.
LEMMA BitAt ==
    ASSUME NEW N, NEW P, NEW v, NEW run, NEW at, NEW n, Carries(hdlc, N, P, v, run, at, n),
           NEW i \in 0..(n - 1), NEW m \in Nat, AtBit(i, m, P, v, run, at), m = at[i]
    PROVE  /\ last = v[i + 1]
           /\ ones = 4 /\ last = 1 <=> IsFifth(v, run, i + 1)
           /\ IsFifth(v, run, i + 1) => this = 0 /\ run[i + 1] % 5 = 0 /\ at[i + 1] = at[i] + 2
           /\ ~IsFifth(v, run, i + 1) =>
                /\ at[i + 1] = at[i] + 1
                /\ run[i + 1] % 5 = IF last = 0 THEN 0 ELSE ones + 1
<1>1. /\ P \in Nat /\ n \in Nat /\ v \in Word(n) /\ run \in [0..n -> Nat] /\ at \in [0..n -> Nat]
      /\ at[0] = 0 /\ v[1] = 0
      /\ run[i + 1] = IF v[i + 1] = 1 THEN run[i] + 1 ELSE 0
      /\ at[i + 1] = at[i] + IF IsFifth(v, run, i + 1) THEN 2 ELSE 1
      /\ hdlc \in Seq(Bits)
      /\ P + at[i] + 1 <= Len(hdlc) => hdlc[P + at[i] + 1] = v[i + 1]
      /\ IsFifth(v, run, i + 1) /\ P + at[i] + 2 <= Len(hdlc) => hdlc[P + at[i] + 2] = 0
    BY DEF Carries, Layout
<1>2. /\ pos = P + 3 + m /\ pos <= Len(hdlc) + 1
      /\ last = hdlc[P + m + 1] /\ this = hdlc[P + m + 2]
      /\ ones = IF i = 0 THEN 5 ELSE run[i] % 5
    BY DEF AtBit
<1> DEFINE b == v[i + 1]
           r == run[i]
           s == run[i + 1]
<1>3. b \in Bits /\ r \in Nat /\ s \in Nat /\ at[i] \in Nat /\ at[i + 1] \in Nat
    <2>1. i \in 0..n /\ i + 1 \in 0..n /\ i + 1 \in 1..n
        BY <1>1
    <2> QED
        BY <1>1, <2>1, WordIs
<1>4. last = b /\ (IsFifth(v, run, i + 1) => this = 0)
    <2>1. P + at[i] + 1 <= Len(hdlc) /\ P + at[i] + 2 <= Len(hdlc)
        <3> DEFINE d == at[i]
                   l == Len(hdlc)
        <3>1. d \in Nat /\ l \in Nat /\ P \in Nat /\ pos = P + 3 + d /\ pos <= l + 1
            BY <1>1, <1>2, <1>3
        <3> HIDE DEF d, l
        <3>2. P + d + 1 <= l /\ P + d + 2 <= l
            BY <3>1
        <3> QED
            BY <3>2 DEF d, l
    <2> QED
        BY <1>1, <1>2, <2>1
<1>5. i = 0 => b = 0 /\ ~IsFifth(v, run, i + 1)
    <2>1. v[1] = 0
        BY <1>1
    <2> QED
        BY <2>1 DEF IsFifth
<1>6. IsFifth(v, run, i + 1) <=> b = 1 /\ s % 5 = 0
    BY DEF IsFifth
<1>7. s = IF b = 1 THEN r + 1 ELSE 0
    BY <1>1
<1>8. ones = IF i = 0 THEN 5 ELSE r % 5
    BY <1>2
<1> HIDE DEF b, r, s
<1>9. ones = 4 /\ b = 1 <=> IsFifth(v, run, i + 1)
    <2>1. CASE i = 0
        BY <1>5, <1>6, <2>1
    <2>2. CASE i # 0
        <3>1. r % 5 = 4 <=> (r + 1) % 5 = 0
            BY <1>3
        <3> QED
            BY <1>6, <1>7, <1>8, <2>2, <3>1
    <2> QED
        BY <2>1, <2>2
<1>10. ~IsFifth(v, run, i + 1) => s % 5 = IF b = 0 THEN 0 ELSE ones + 1
    <2>1. CASE b = 0
        BY <1>7, <2>1
    <2>2. CASE b = 1
        <3>1. i # 0
            BY <1>5, <2>2
        <3>2. r % 5 # 4 => (r + 1) % 5 = (r % 5) + 1
            BY <1>3
        <3> QED
            BY <1>7, <1>8, <1>9, <2>2, <3>1, <3>2
    <2> QED
        BY <1>3, <2>1, <2>2 DEF Bits
<1>11. IsFifth(v, run, i + 1) => s % 5 = 0 /\ at[i + 1] = at[i] + 2
    BY <1>1, <1>6
<1>12. ~IsFifth(v, run, i + 1) => at[i + 1] = at[i] + 1
    BY <1>1
<1> QED
    BY <1>4, <1>9, <1>10, <1>11, <1>12 DEF b, s

\* From one bit of the line to the next.
Slid(m, P) ==
    /\ pos' = P + 3 + m /\ pos' <= Len(hdlc') + 1
    /\ last' = hdlc'[P + m + 1] /\ this' = hdlc'[P + m + 2]

\* A pass that moves on by one reads the next bit of the line.
LEMMA SlidIs ==
    ASSUME Scanned, hdlc \in Seq(Bits), Pass, Moved,
           NEW P \in Nat, NEW m \in Nat, pos = P + 3 + m, this = hdlc[P + m + 2]
    PROVE  Slid(m + 1, P)
<1>1. hdlc' = hdlc /\ pos <= Len(hdlc) /\ last' = this /\ this' = hdlc[pos] /\ pos' = pos + 1
    BY PassIs DEF Moved
<1>2. Len(hdlc) \in Nat /\ P + (m + 1) + 1 = P + m + 2 /\ P + (m + 1) + 2 = pos
      /\ P + 3 + (m + 1) = pos + 1 /\ pos + 1 <= Len(hdlc) + 1
    BY <1>1
<1> QED
    BY <1>1, <1>2 DEF Slid

\* Between two bits of the frame.
LEMMA FrameKept ==
    ASSUME NEW N, NEW P, NEW v, NEW run, NEW at, NEW n, Carries(hdlc, N, P, v, run, at, n),
           Scanned, NEW i \in 0..(n - 1), NEW m \in Nat, AtBit(i, m, P, v, run, at)
    PROVE  ~ClosingFlag /\ (Pass => InFrame(P, v, run, at, n)')
<1>1. /\ P \in Nat /\ n \in Nat /\ v \in Word(n) /\ at \in [0..n -> Nat] /\ hdlc \in Seq(Bits)
      /\ n % 8 = 5 /\ n - 5 <= 8 * MaxFrame /\ i + 1 \in 0..n /\ i \in 0..n /\ i + 1 # 0 /\ i + 1 > 0
    <2>1. /\ P \in Nat /\ n \in Nat /\ v \in Word(n) /\ at \in [0..n -> Nat] /\ hdlc \in Seq(Bits)
          /\ n % 8 = 5 /\ n - 5 <= 8 * MaxFrame
        BY DEF Carries, Layout
    <2>2. i + 1 \in 0..n /\ i \in 0..n /\ i + 1 # 0 /\ i + 1 > 0
        BY <2>1
    <2> QED
        BY <2>1, <2>2
<1>2. /\ \/ m = at[i] /\ skip = FALSE
         \/ m = at[i] - 1 /\ skip = TRUE /\ i > 0 /\ IsFifth(v, run, i)
      /\ pos = P + 3 + m /\ this = hdlc[P + m + 2]
      /\ resync = 0 /\ store = TRUE
      /\ ones = IF i = 0 THEN 5 ELSE run[i] % 5
      /\ FirstBits(part, out, i, v)
    BY DEF AtBit
<1>3. CASE m = at[i] - 1 /\ skip = TRUE
    <2>1. ~ClosingFlag /\ (Pass => Skip)
        <3>1. skip # FALSE
            BY <1>3
        <3> QED
            BY <3>1, ClosingFlagIs, BitIs, StuffedZeroIs, SevenOnesIs, OpeningFlagIs DEF Pass
    <2>2. ASSUME Pass PROVE InFrame(P, v, run, at, n)'
        <3>1. /\ Moved /\ skip' = FALSE /\ resync' = 0 /\ ones' = ones
              /\ part' = part /\ out' = out /\ store' = store
            BY <1>2, <2>1, <2>2, SkipIs
        <3>2. Slid(m + 1, P)
            BY <1>1, <1>2, <2>2, <3>1, SlidIs
        <3>3. m + 1 = at[i]
            <4> DEFINE b == at[i]
            <4>1. b \in Nat /\ m = b - 1
                BY <1>1, <1>3
            <4> HIDE DEF b
            <4>2. m + 1 = b
                BY <4>1
            <4> QED
                BY <4>2 DEF b
        <3>4. AtBit(i, m + 1, P, v, run, at)'
            <4>1. FirstBits(part, out, i, v)'
                BY <1>2, <3>1
            <4> QED
                BY <1>2, <3>1, <3>2, <3>3, <4>1 DEF AtBit, Slid
        <3> QED
            BY <1>1, <3>4 DEF InFrame
    <2> QED
        BY <2>1, <2>2
<1>4. CASE m = at[i] /\ skip = FALSE
    <2>1. /\ last = v[i + 1]
          /\ ones = 4 /\ last = 1 <=> IsFifth(v, run, i + 1)
          /\ IsFifth(v, run, i + 1) => this = 0 /\ run[i + 1] % 5 = 0 /\ at[i + 1] = at[i] + 2
          /\ ~IsFifth(v, run, i + 1) =>
               /\ at[i + 1] = at[i] + 1
               /\ run[i + 1] % 5 = IF last = 0 THEN 0 ELSE ones + 1
        BY <1>4, BitAt
    <2>2. FirstBits(Taken(last).part, Taken(last).out, i + 1, v)
        BY <1>1, <1>2, <2>1, NextTaken
    <2>3. ~Skip /\ ~SevenOnes /\ ~OpeningFlag /\ ~ClosingFlag
        <3>1. ~(last = 1 /\ ones = 4 /\ this = 1)
            BY <2>1
        <3> QED
            BY <1>2, <1>4, <3>1, SkipIs, SevenOnesIs, OpeningFlagIs, ClosingFlagIs
    <2>4. ASSUME Pass, IsFifth(v, run, i + 1) PROVE InFrame(P, v, run, at, n)'
        <3>1. last = 1 /\ last # 0 /\ ones = 4
            BY <2>1, <2>4
        <3>2. StuffedZero
            BY <2>3, <2>4, <3>1, BitIs DEF Pass
        <3>3. /\ Moved /\ skip' = TRUE /\ resync' = 0 /\ ones' = 0
              /\ part' = Taken(last).part /\ out' = Taken(last).out /\ store' = store
            BY <3>1, <3>2, StuffedZeroIs DEF TookOne
        <3>4. Slid(m + 1, P)
            BY <1>1, <1>2, <2>4, <3>3, SlidIs
        <3>5. m + 1 = at[i + 1] - 1
            BY <1>1, <1>4, <2>1, <2>4
        <3>6. AtBit(i + 1, m + 1, P, v, run, at)'
            <4>1. FirstBits(part, out, i + 1, v)'
                BY <2>2, <3>3
            <4>2. ones' = IF i + 1 = 0 THEN 5 ELSE run[i + 1] % 5
                BY <1>1, <2>1, <2>4, <3>3
            <4> QED
                BY <1>1, <1>2, <2>4, <3>3, <3>4, <3>5, <4>1, <4>2 DEF AtBit, Slid
        <3> QED
            BY <1>1, <3>6 DEF InFrame
    <2>5. ASSUME Pass, ~IsFifth(v, run, i + 1) PROVE InFrame(P, v, run, at, n)'
        <3>1. ~(last = 1 /\ ones = 4)
            BY <2>1, <2>5
        <3>2. Bit
            BY <2>3, <2>5, <3>1, StuffedZeroIs DEF Pass
        <3>3. /\ Moved /\ skip' = FALSE /\ resync' = 0 /\ ones' = IF last = 0 THEN 0 ELSE ones + 1
              /\ part' = Taken(last).part /\ out' = Taken(last).out /\ store' = store
            BY <3>2, BitIs
        <3>4. Slid(m + 1, P)
            BY <1>1, <1>2, <2>5, <3>3, SlidIs
        <3>5. m + 1 = at[i + 1]
            BY <1>4, <2>1, <2>5
        <3>6. AtBit(i + 1, m + 1, P, v, run, at)'
            <4>1. FirstBits(part, out, i + 1, v)'
                BY <2>2, <3>3
            <4>2. ones' = IF i + 1 = 0 THEN 5 ELSE run[i + 1] % 5
                BY <1>1, <2>1, <2>5, <3>3
            <4> QED
                BY <1>2, <3>3, <3>4, <3>5, <4>1, <4>2 DEF AtBit, Slid
        <3> QED
            BY <1>1, <3>6 DEF InFrame
    <2> QED
        BY <2>3, <2>4, <2>5
<1> QED
    BY <1>2, <1>3, <1>4

\* Behind the last of them, at the seventh bit of the closing flag.
LEMMA FrameClosed ==
    ASSUME NEW N, NEW P, NEW v, NEW run, NEW at, NEW n, Carries(hdlc, N, P, v, run, at, n),
           Scanned, NEW m \in Nat, AtBit(n, m, P, v, run, at)
    PROVE  /\ pos = P + at[n] + 3 /\ ~Pass
           /\ ClosingFlag => /\ Taken(1).out \in Seq(Bits) /\ Len(Taken(1).out) = n - 5
                             /\ \A k \in 1..(n - 5) : Taken(1).out[k] = v[k]
<1>1. /\ P \in Nat /\ n \in Nat /\ at \in [0..n -> Nat] /\ run \in [0..n -> Nat] /\ hdlc \in Seq(Bits)
      /\ n % 8 = 5 /\ n > 8 * MinFrame /\ run[n] = 4
      /\ P + at[n] + 1 <= Len(hdlc) => hdlc[P + at[n] + 1] = 1
      /\ P + at[n] + 2 <= Len(hdlc) => hdlc[P + at[n] + 2] = 1
      /\ P + at[n] + 3 <= Len(hdlc) => hdlc[P + at[n] + 3] = 0
    BY DEF Carries, Layout
<1>2. /\ pos = P + 3 + m /\ pos <= Len(hdlc) + 1 /\ last = hdlc[P + m + 1] /\ this = hdlc[P + m + 2]
      /\ resync = 0 /\ store = TRUE /\ FirstBits(part, out, n, v)
    BY DEF AtBit
<1>3. m = at[n] /\ skip = FALSE
    <2>1. ~IsFifth(v, run, n)
        BY <1>1 DEF IsFifth
    <2> QED
        BY <2>1 DEF AtBit
<1>4. ones = 4
    <2>1. n # 0
        BY <1>1 DEF MinFrame
    <2>2. ones = run[n] % 5
        BY <2>1 DEF AtBit
    <2> QED
        BY <1>1, <2>2
<1> DEFINE d == at[n]
           l == Len(hdlc)
<1>5. d \in Nat /\ l \in Nat
    <2>1. n \in 0..n /\ at \in [0..n -> Nat] /\ hdlc \in Seq(Bits)
        BY <1>1
    <2> QED
        BY <2>1
<1>6. pos = P + d + 3 /\ P + d + 1 <= l /\ P + d + 2 <= l
    <2>1. pos = P + 3 + d /\ pos <= l + 1
        BY <1>2, <1>3
    <2> HIDE DEF d, l
    <2> QED
        BY <1>1, <1>5, <2>1
<1>7. last = 1 /\ this = 1 /\ last # 0 /\ this # 0
    <2>1. hdlc[P + d + 1] = 1 /\ hdlc[P + d + 2] = 1
        BY <1>1, <1>6
    <2> QED
        BY <1>2, <1>3, <2>1
<1>8. pos <= l => hdlc[pos] = 0
    BY <1>1, <1>6
<1>9. /\ part \in Seq(Bits) /\ out \in Seq(Bits)
      /\ Len(part) = 5 /\ Len(out) = n - 5 /\ \A k \in 1..(n - 5) : out[k] = v[k]
    BY <1>1, <1>2 DEF FirstBits, Scanned
<1>10. Taken(1).out = out /\ Len(Taken(1).part) = 6
    <2>1. Len(Append(part, 1)) = 6
        <3>1. 1 \in Bits
            BY DEF Bits
        <3>2. part \in Seq(Bits)
            BY <1>9
        <3>3. Len(Append(part, 1)) = Len(part) + 1
            BY <3>1, <3>2, AppendProperties
        <3> QED
            BY <1>9, <3>3
    <2> QED
        BY <2>1 DEF Taken
<1>11. IsClosing
    <2>1. Len(out) >= 8 * MinFrame
        <3>1. n \in Nat /\ n % 8 = 5 /\ n > 8 * MinFrame
            BY <1>1
        <3>2. n - 5 >= 8 * MinFrame
            BY <3>1 DEF MinFrame
        <3> QED
            BY <1>9, <3>2
    <2> QED
        BY <1>10, <2>1 DEF IsClosing
<1>12. ~Pass
    <2>1. ~Skip /\ ~Bit /\ ~StuffedZero
        BY <1>2, <1>3, <1>4, <1>7, SkipIs, BitIs, StuffedZeroIs
    <2>2. ~OpeningFlag
        BY <1>11, OpeningFlagIs
    <2>3. ~SevenOnes
        <3>1. ASSUME SevenOnes PROVE FALSE
            <4>1. hdlc[pos] = 1 /\ pos <= l
                BY <3>1 DEF SevenOnes, FifthOne, Reading
            <4> QED
                BY <1>8, <4>1
        <3> QED
            BY <3>1
    <2> QED
        BY <2>1, <2>2, <2>3 DEF Pass
<1> QED
    BY <1>6, <1>9, <1>10, <1>12

\* A bit of the frame does not stand behind its end.
LEMMA AtBelow ==
    ASSUME NEW N, NEW P, NEW v, NEW run, NEW at, NEW n, Layout(N, P, v, run, at, n), NEW i \in 0..n
    PROVE  at[i] \in Nat /\ at[n] \in Nat /\ at[i] <= at[n]
<1> DEFINE S == {k \in 0..n : at[n - k] <= at[n]}
<1>1. n \in Nat /\ at \in [0..n -> Nat]
    BY DEF Layout
<1>2. at[i] \in Nat /\ at[n] \in Nat
    <2>1. n \in 0..n
        BY <1>1
    <2> QED
        BY <1>1, <2>1
<1>3. 0 \in S
    <2>1. n - 0 = n /\ 0 \in 0..n /\ at[n] <= at[n]
        BY <1>1, <1>2
    <2> QED
        BY <2>1
<1>4. ASSUME NEW k \in 0..(n - 1), k \in S PROVE k + 1 \in S
    <2> DEFINE j == n - (k + 1)
    <2>1. j \in 0..(n - 1) /\ j \in 0..n /\ j + 1 \in 0..n /\ n - k = j + 1 /\ k + 1 \in 0..n
        BY <1>1
    <2>2. at[j + 1] = at[j] + IF IsFifth(v, run, j + 1) THEN 2 ELSE 1
        BY <2>1 DEF Layout
    <2>3. at[j] \in Nat /\ at[j + 1] \in Nat /\ at[j + 1] <= at[n]
        BY <1>1, <1>4, <2>1
    <2>4. at[j] <= at[n]
        BY <1>2, <2>2, <2>3
    <2> QED
        BY <2>1, <2>4
<1>5. n - i \in S
    <2> HIDE DEF S
    <2>1. n - i \in 0..n
        BY <1>1
    <2> QED
        BY <1>1, <1>3, <1>4, <2>1, UpTo
<1>6. n - (n - i) = i
    BY <1>1
<1> QED
    BY <1>2, <1>5, <1>6

\* In the frame no six 1s stand together before those of the closing flag.
LEMMA NoSixOnes ==
    ASSUME NEW h, NEW N, NEW P, NEW v, NEW run, NEW at, NEW n, Carries(h, N, P, v, run, at, n),
           NEW e \in (P + 1)..(P + at[n] + 1), e <= Len(h)
    PROVE  \E z \in (P + 1)..e : z >= e - 5 /\ h[z] = 0
<1>1. /\ P \in Nat /\ n \in Nat /\ n > 8 * MinFrame
      /\ v \in Word(n) /\ run \in [0..n -> Nat] /\ at \in [0..n -> Nat]
      /\ at[0] = 0 /\ v[1] = 0 /\ run[n] = 4 /\ h \in Seq(Bits)
      /\ \A i \in 0..(n - 1) :
           /\ run[i + 1] = IF v[i + 1] = 1 THEN run[i] + 1 ELSE 0
           /\ at[i + 1] = at[i] + IF IsFifth(v, run, i + 1) THEN 2 ELSE 1
           /\ P + at[i] + 1 <= Len(h) => h[P + at[i] + 1] = v[i + 1]
           /\ IsFifth(v, run, i + 1) /\ P + at[i] + 2 <= Len(h) => h[P + at[i] + 2] = 0
    BY DEF Carries, Layout
<1> DEFINE l == Len(h)
           Near(f) == \E z \in (P + 1)..f : z >= f - 5 /\ h[z] = 0
           Below(a, r) == /\ P + a <= l => r % 5 < a /\ h[P + a - (r % 5)] = 0
                          /\ \A f \in (P + 1)..(P + a) : f <= l => Near(f)
           S == {i \in 0..(n - 1) : Below(at[i + 1], run[i + 1])}
<1>2. n - 1 \in Nat /\ l \in Nat
    BY <1>1 DEF MinFrame
<1>10. \A f, y : y \in (P + 1)..f /\ y >= f - 5 /\ h[y] = 0 => Near(f)
    OBVIOUS
<1>3. 0 \in S
    <2>1. 0 \in 0..(n - 1) /\ 0 + 1 = 1
        BY <1>2
    <2>2. ~IsFifth(v, run, 1)
        BY <1>1 DEF IsFifth
    <2>3. at[1] = 1 /\ run[1] = 0 /\ (P + 1 <= l => h[P + 1] = 0)
        <3>1. /\ run[0 + 1] = IF v[0 + 1] = 1 THEN run[0] + 1 ELSE 0
              /\ at[0 + 1] = at[0] + IF IsFifth(v, run, 0 + 1) THEN 2 ELSE 1
              /\ P + at[0] + 1 <= Len(h) => h[P + at[0] + 1] = v[0 + 1]
            BY <1>1, <2>1
        <3> QED
            BY <1>1, <2>1, <2>2, <3>1
    <2>4. Below(1, 0)
        BY <1>1, <2>3
    <2> QED
        BY <2>1, <2>3, <2>4
<1>4. ASSUME NEW i \in 0..(n - 1 - 1), i \in S PROVE i + 1 \in S
    <2> DEFINE a == at[i + 1]
               r == run[i + 1]
               b == at[i + 2]
               s == run[i + 2]
    <2>1. i + 1 \in 0..(n - 1) /\ i + 1 \in 0..n /\ i + 2 \in 0..n /\ (i + 1) + 1 = i + 2 /\ i + 2 \in 1..n
        BY <1>1, <1>2
    <2>2. /\ s = IF v[i + 2] = 1 THEN r + 1 ELSE 0
          /\ b = a + IF IsFifth(v, run, i + 2) THEN 2 ELSE 1
          /\ P + a + 1 <= l => h[P + a + 1] = v[i + 2]
          /\ IsFifth(v, run, i + 2) /\ P + a + 2 <= l => h[P + a + 2] = 0
        <3>1. /\ run[(i + 1) + 1] = IF v[(i + 1) + 1] = 1 THEN run[i + 1] + 1 ELSE 0
              /\ at[(i + 1) + 1] = at[i + 1] + IF IsFifth(v, run, (i + 1) + 1) THEN 2 ELSE 1
              /\ P + at[i + 1] + 1 <= Len(h) => h[P + at[i + 1] + 1] = v[(i + 1) + 1]
              /\ IsFifth(v, run, (i + 1) + 1) /\ P + at[i + 1] + 2 <= Len(h) => h[P + at[i + 1] + 2] = 0
            BY <1>1, <2>1
        <3> QED
            BY <2>1, <3>1
    <2>3. IsFifth(v, run, i + 2) <=> v[i + 2] = 1 /\ s % 5 = 0
        BY DEF IsFifth
    <2>4. a \in Nat /\ r \in Nat /\ b \in Nat /\ s \in Nat /\ v[i + 2] \in Bits /\ Below(a, r)
        BY <1>1, <1>4, <2>1 DEF Word
    <2> HIDE DEF a, b, r, s, l
    <2>5. CASE v[i + 2] # 1
        <3>1. s = 0 /\ b = a + 1 /\ (P + b <= l => h[P + b] = 0)
            <4>1. v[i + 2] = 0
                BY <2>4, <2>5 DEF Bits
            <4>2. b = a + 1 /\ s = 0
                BY <2>2, <2>3, <2>5
            <4>3. P + b = P + a + 1
                BY <1>1, <2>4, <4>2
            <4> QED
                BY <2>2, <4>1, <4>2, <4>3
        <3>2. P + b <= l => s % 5 < b /\ h[P + b - (s % 5)] = 0
            BY <1>1, <2>4, <3>1
        <3>3. P + b <= l => Near(P + b)
            BY <1>1, <2>4, <3>1
        <3>4. \A f \in (P + 1)..(P + b) : f <= l => Near(f)
            <4> SUFFICES ASSUME NEW f \in (P + 1)..(P + b), f <= l PROVE Near(f)
                OBVIOUS
            <4>1. f \in (P + 1)..(P + a) \/ f = P + b
                BY <1>1, <2>4, <3>1
            <4> HIDE DEF Near
            <4> QED
                BY <2>4, <3>3, <4>1
        <3>5. Below(b, s)
            BY <3>2, <3>4
        <3> QED
            BY <2>1, <3>5 DEF b, s
    <2>6. CASE v[i + 2] = 1 /\ s % 5 # 0
        <3>1. s = r + 1 /\ b = a + 1 /\ s % 5 = (r % 5) + 1 /\ r % 5 <= 3 /\ r % 5 \in Nat
            BY <2>2, <2>3, <2>4, <2>6
        <3>2. P + b <= l => r % 5 < a /\ h[P + a - (r % 5)] = 0 /\ P + b - (s % 5) = P + a - (r % 5)
            <4>1. P + b <= l => P + a <= l
                BY <1>1, <1>2, <2>4, <3>1 DEF l
            <4> DEFINE c == r % 5
            <4>2. P + b - (s % 5) = P + a - c
                <5> HIDE DEF c
                <5>1. s % 5 = c + 1 /\ c \in Nat
                    BY <3>1 DEF c
                <5> QED
                    BY <1>1, <2>4, <3>1, <5>1
            <4> QED
                BY <2>4, <4>1, <4>2
        <3>3. P + b <= l => s % 5 < b /\ h[P + b - (s % 5)] = 0
            BY <2>4, <3>1, <3>2
        <3>4. P + b <= l => Near(P + b)
            <4> SUFFICES ASSUME P + b <= l PROVE Near(P + b)
                OBVIOUS
            <4> DEFINE y == P + a - (r % 5)
            <4>1. h[y] = 0
                BY <3>2
            <4>2. y \in (P + 1)..(P + b) /\ y >= (P + b) - 5
                <5> DEFINE c == r % 5
                <5>1. c \in Nat /\ c <= 3 /\ c < a /\ y = P + a - c
                    BY <3>1, <3>2
                <5> HIDE DEF c, y
                <5> QED
                    BY <1>1, <2>4, <3>1, <5>1
            <4> HIDE DEF y, Near
            <4> QED
                BY <1>10, <4>1, <4>2, Zenon
        <3>5. \A f \in (P + 1)..(P + b) : f <= l => Near(f)
            <4> SUFFICES ASSUME NEW f \in (P + 1)..(P + b), f <= l PROVE Near(f)
                OBVIOUS
            <4>1. f \in (P + 1)..(P + a) \/ f = P + b
                BY <1>1, <2>4, <3>1
            <4> HIDE DEF Near
            <4> QED
                BY <2>4, <3>4, <4>1
        <3>6. Below(b, s)
            BY <3>3, <3>5
        <3> QED
            BY <2>1, <3>6 DEF b, s
    <2>7. CASE v[i + 2] = 1 /\ s % 5 = 0
        <3>1. s = r + 1 /\ b = a + 2 /\ r % 5 = 4 /\ (P + b <= l => h[P + b] = 0)
            <4>1. s = r + 1 /\ b = a + 2 /\ (P + a + 2 <= l => h[P + a + 2] = 0)
                BY <2>2, <2>3, <2>7
            <4>2. r % 5 = 4
                <5>1. (r + 1) % 5 = 0
                    BY <2>7, <4>1
                <5> QED
                    BY <2>4, <5>1
            <4>3. P + b = P + a + 2
                BY <1>1, <2>4, <4>1
            <4> QED
                BY <4>1, <4>2, <4>3
        <3>2. P + b <= l => s % 5 < b /\ h[P + b - (s % 5)] = 0
            BY <1>1, <2>4, <2>7, <3>1
        <3>3. P + b <= l => Near(P + b)
            BY <1>1, <2>4, <3>1
        <3>4. P + a + 1 <= l => Near(P + a + 1)
            <4> SUFFICES ASSUME P + a + 1 <= l PROVE Near(P + a + 1)
                OBVIOUS
            <4>1. P + a <= l
                BY <1>1, <1>2, <2>4 DEF l
            <4>2. 4 < a /\ h[P + a - 4] = 0
                BY <2>4, <3>1, <4>1
            <4> DEFINE y == P + a - 4
            <4>3. y \in (P + 1)..(P + a + 1) /\ y >= (P + a + 1) - 5
                BY <1>1, <2>4, <4>2
            <4>4. h[y] = 0
                BY <4>2
            <4> HIDE DEF y, Near
            <4> QED
                BY <1>10, <4>3, <4>4, Zenon
        <3>5. \A f \in (P + 1)..(P + b) : f <= l => Near(f)
            <4> SUFFICES ASSUME NEW f \in (P + 1)..(P + b), f <= l PROVE Near(f)
                OBVIOUS
            <4>1. f \in (P + 1)..(P + a) \/ f = P + a + 1 \/ f = P + b
                BY <1>1, <2>4, <3>1
            <4> HIDE DEF Near
            <4> QED
                BY <2>4, <3>3, <3>4, <4>1
        <3>6. Below(b, s)
            BY <3>2, <3>5
        <3> QED
            BY <2>1, <3>6 DEF b, s
    <2> QED
        BY <2>5, <2>6, <2>7
<1>5. n - 1 \in S
    <2> HIDE DEF S
    <2>1. n - 1 \in 0..(n - 1)
        BY <1>2
    <2> QED
        BY <1>2, <1>3, <1>4, <2>1, UpTo
<1>6. Below(at[n], 4) /\ at[n] \in Nat
    <2>1. (n - 1) + 1 = n /\ n \in 0..n
        BY <1>1
    <2> QED
        BY <1>1, <1>5, <2>1
<1> DEFINE m == at[n]
<1>11. m \in Nat /\ P \in Nat /\ e \in (P + 1)..(P + m + 1)
    BY <1>1, <1>6
<1>7. e \in (P + 1)..(P + m) \/ e = P + m + 1
    <2> HIDE DEF m
    <2> QED
        BY <1>11
<1>8. CASE e = P + m + 1
    <2>1. P + m <= l /\ m \in Nat
        BY <1>1, <1>2, <1>6, <1>8
    <2>2. 4 < m /\ h[P + m - 4] = 0
        BY <1>6, <2>1
    <2> HIDE DEF m
    <2> DEFINE z == P + m - 4
    <2>3. z \in (P + 1)..e /\ z >= e - 5 /\ h[z] = 0
        BY <1>1, <1>8, <2>1, <2>2
    <2> HIDE DEF z
    <2> QED
        BY <2>3
<1>9. CASE e \in (P + 1)..(P + m)
    BY <1>6, <1>9
<1> QED
    BY <1>7, <1>8, <1>9

\* So no flag is seen there, wherever the unstuffer stands.
LEMMA SettledKept ==
    ASSUME NEW N, NEW P, NEW v, NEW run, NEW at, NEW n, Carries(hdlc, N, P, v, run, at, n),
           Scanned, Settled(P), Len(hdlc) < P + at[n] + 3
    PROVE  ~ClosingFlag /\ (Pass => Settled(P)')
<1>1. /\ N \in Nat /\ P \in Nat /\ (P - N) % 8 = 0 /\ N < P /\ hdlc \in Seq(Bits) /\ at[n] \in Nat
      /\ pos \in Nat /\ ones \in Nat /\ resync \in 0..2 /\ last \in Bits /\ this \in Bits
    <2>1. n \in 0..n
        BY DEF Carries, Layout
    <2> QED
        BY <2>1 DEF Carries, Layout, Scanned
<1>2. /\ pos > P /\ (resync > 0 => ones >= 5 /\ skip = FALSE)
      /\ (resync < 2 => this = hdlc[pos - 1]) /\ (resync = 0 => last = hdlc[pos - 2])
      /\ (skip = TRUE => ones = 0)
      /\ (ones < 5 => \A k \in 1..ones : hdlc[pos - 2 - k] = 1)
    BY DEF Settled
<1>3. ~(FifthOne /\ this = 1)
    <2> SUFFICES ASSUME FifthOne, this = 1 PROVE FALSE
        OBVIOUS
    <2>1. pos <= Len(hdlc) /\ resync = 0 /\ last = 1 /\ ones = 4
        BY DEF FifthOne, Reading
    <2>2. hdlc[pos - 1] = 1 /\ hdlc[pos - 2] = 1 /\ \A k \in 1..4 : hdlc[pos - 2 - k] = 1
        BY <1>2, <2>1
    <2>3. \A k \in 1..6 : hdlc[pos - k] = 1
        <3> TAKE k \in 1..6
        <3>1. CASE k = 1 \/ k = 2
            BY <2>2, <3>1
        <3>2. CASE k \in 3..6
            <4>1. k - 2 \in 1..4 /\ pos - 2 - (k - 2) = pos - k
                BY <1>1, <3>2
            <4> QED
                BY <2>2, <4>1
        <3> QED
            BY <3>1, <3>2
    <2>4. hdlc[P] = 0 /\ pos # P + 1
        <3>1. P \in (N + 1)..P /\ (P - N - 1) % 8 = 7 /\ P <= Len(hdlc)
            <4> DEFINE d == P - N
                       len == Len(hdlc)
            <4>1. d \in Nat /\ d > 0 /\ d % 8 = 0 /\ d - 1 = P - N - 1 /\ len \in Nat /\ pos <= len
                BY <1>1, <2>1
            <4>2. (d - 1) % 8 = 7
                <5> HIDE DEF d, len
                <5> QED
                    BY <4>1
            <4>3. P <= len
                <5> HIDE DEF d, len
                <5> QED
                    BY <1>1, <1>2, <4>1
            <4> QED
                BY <1>1, <4>1, <4>2, <4>3
        <3>2. hdlc[P] = Flag[7 + 1]
            BY <3>1 DEF Carries
        <3>3. hdlc[P] = 0
            BY <3>2, FlagIs
        <3>4. hdlc[(P + 1) - 1] = hdlc[P]
            BY <1>1
        <3> QED
            BY <2>2, <3>3, <3>4
    <2> DEFINE e == pos - 1
               m == at[n]
    <2>5. e \in (P + 1)..(P + m + 1) /\ e <= Len(hdlc)
        <3> DEFINE len == Len(hdlc)
        <3>1. len \in Nat /\ m \in Nat /\ pos <= len /\ len < P + m + 3
            BY <1>1, <2>1
        <3> HIDE DEF len, m
        <3>2. e \in (P + 1)..(P + m + 1) /\ e <= len
            BY <1>1, <1>2, <2>4, <3>1
        <3> QED
            BY <3>2 DEF len
    <2>6. PICK z \in (P + 1)..e : z >= e - 5 /\ hdlc[z] = 0
        BY <2>5, NoSixOnes
    <2>7. pos - z \in 1..6 /\ pos - (pos - z) = z
        BY <1>1, <1>2, <2>6
    <2>8. hdlc[z] = 1
        BY <2>3, <2>7
    <2> QED
        BY <2>6, <2>8
<1>4. ~ClosingFlag /\ ~SevenOnes /\ ~OpeningFlag
    BY <1>3 DEF ClosingFlag, SevenOnes, OpeningFlag, FlagSeen
<1>5. ASSUME Pass PROVE Settled(P)'
    <2>1. hdlc' = hdlc /\ last' = this /\ this' = hdlc[pos]
        BY <1>1, <1>5, PassIs
    <2>2. Skip \/ Bit \/ StuffedZero
        BY <1>4, <1>5 DEF Pass
    <2>3. pos' = pos + 1
        BY <2>2, SkipIs, BitIs, StuffedZeroIs DEF Moved
    <2>4. pos' > P /\ pos' - 1 = pos /\ pos' - 2 = pos - 1
        BY <1>1, <1>2, <2>3
    <2>5. this' = hdlc'[pos' - 1] /\ (resync < 2 => last' = hdlc'[pos' - 2])
        BY <1>2, <2>1, <2>4
    <2>6. CASE Skip
        <3>1. skip' = FALSE /\ ones' = ones /\ resync' = IF resync > 0 THEN resync - 1 ELSE 0
            BY <2>6, SkipIs
        <3>2. (resync' > 0 => ones' >= 5) /\ (resync' = 0 => resync < 2)
            BY <1>1, <1>2, <3>1
        <3>3. ~(ones' < 5) \/ ones' = 0
            <4>1. CASE resync > 0
                BY <1>1, <1>2, <3>1, <4>1
            <4>2. CASE ~(resync > 0)
                <5>1. resync = 0
                    BY <1>1, <4>2
                <5>2. skip = TRUE
                    <6>1. skip \in BOOLEAN /\ ~(skip = FALSE)
                        BY <2>6, <5>1, SkipIs DEF Scanned
                    <6> QED
                        BY <6>1
                <5> QED
                    BY <1>2, <3>1, <5>2
            <4> QED
                BY <4>1, <4>2
        <3>4. ones' < 5 => \A k \in 1..ones' : hdlc'[pos' - 2 - k] = 1
            <4>1. 1..0 = {}
                OBVIOUS
            <4> QED
                BY <3>3, <4>1
        <3> QED
            BY <2>4, <2>5, <3>1, <3>2, <3>4 DEF Settled
    <2>7. CASE Bit /\ last = 0
        <3>1. skip' = FALSE /\ ones' = 0 /\ resync' = 0 /\ resync = 0
            BY <2>7, BitIs
        <3>2. ~(resync' > 0) /\ resync < 2 /\ 1..0 = {}
            BY <3>1
        <3> QED
            BY <2>4, <2>5, <3>1, <3>2 DEF Settled
    <2>8. CASE Bit /\ last = 1
        <3>1. skip' = FALSE /\ ones' = ones + 1 /\ resync' = 0 /\ resync = 0 /\ ones # 4
            <4>1. last # 0
                BY <2>8
            <4> QED
                BY <2>8, <4>1, BitIs
        <3>2. ~(resync' > 0) /\ resync < 2
            BY <3>1
        <3>3. ASSUME ones' < 5, NEW k \in 1..ones' PROVE hdlc'[pos' - 2 - k] = 1
            <4>1. CASE k = 1
                <5>1. pos' - 2 - 1 = pos - 2
                    BY <1>1, <2>3
                <5> QED
                    BY <1>2, <2>1, <2>8, <3>1, <4>1, <5>1
            <4>2. CASE k # 1
                <5>1. k - 1 \in 1..ones /\ ones < 5 /\ pos' - 2 - k = pos - 2 - (k - 1)
                    BY <1>1, <2>3, <3>1, <3>3, <4>2
                <5> QED
                    BY <1>2, <2>1, <5>1
            <4> QED
                BY <4>1, <4>2
        <3> QED
            BY <2>4, <2>5, <3>1, <3>2, <3>3 DEF Settled
    <2>9. CASE StuffedZero
        <3>1. skip' = TRUE /\ ones' = 0 /\ resync' = 0 /\ resync = 0
            BY <2>9, StuffedZeroIs
        <3>2. ~(resync' > 0) /\ resync < 2 /\ 1..0 = {}
            BY <3>1
        <3> QED
            BY <2>4, <2>5, <3>1, <3>2 DEF Settled
    <2> QED
        BY <1>1, <2>2, <2>6, <2>7, <2>8, <2>9 DEF Bits
<1> QED
    BY <1>4, <1>5

\* The loop anywhere in the line, which out of step is one that was cut off.
Unstuffing(N, P, v, run, at, n) ==
    /\ Carries(hdlc, N, P, v, run, at, n) /\ Scanned
    /\ P % 8 = 0 \/ Len(hdlc) < P + at[n] + 3
    /\ \/ InNoise(N) \/ InFlags(N, P)
       \/ P % 8 = 0 /\ Opened(P)
       \/ P % 8 = 0 /\ InFrame(P, v, run, at, n)
       \/ P % 8 # 0 /\ Settled(P)

\* A pass of the unstuffer that does not close the frame.
LEMMA UnstuffKept ==
    ASSUME NEW N, NEW P, NEW v, NEW run, NEW at, NEW n, Unstuffing(N, P, v, run, at, n), Pass
    PROVE  Unstuffing(N, P, v, run, at, n)' /\ hdlc' = hdlc /\ sent' = sent /\ stage' = "unstuff"
<1>1. /\ Carries(hdlc, N, P, v, run, at, n) /\ Scanned /\ hdlc \in Seq(Bits)
      /\ P % 8 = 0 \/ Len(hdlc) < P + at[n] + 3
    BY DEF Unstuffing, Carries
<1>2. Scanned' /\ hdlc' = hdlc /\ sent' = sent /\ stage' = "unstuff"
    BY <1>1, PassIs
<1>3. Carries(hdlc, N, P, v, run, at, n)' /\ (P % 8 = 0 \/ Len(hdlc) < P + at[n] + 3)'
    BY <1>1, <1>2
<1>4. (\/ InNoise(N) \/ InFlags(N, P)
       \/ P % 8 = 0 /\ Opened(P)
       \/ P % 8 = 0 /\ InFrame(P, v, run, at, n)
       \/ P % 8 # 0 /\ Settled(P))'
    <2>1. CASE InNoise(N)
        BY <1>1, <2>1, NoiseKept, Zenon
    <2>2. CASE InFlags(N, P)
        BY <1>1, <2>2, FlagsKept, Zenon
    <2>3. CASE P % 8 = 0 /\ Opened(P)
        BY <1>1, <2>3, OpenedKept, Zenon
    <2>5. CASE P % 8 # 0 /\ Settled(P)
        BY <1>1, <2>5, SettledKept, Zenon
    <2>4. CASE P % 8 = 0 /\ InFrame(P, v, run, at, n)
        <3>1. PICK i \in 0..n, m \in Nat : AtBit(i, m, P, v, run, at)
            BY <2>4 DEF InFrame
        <3>2. CASE i = n
            BY <1>1, <3>1, <3>2, FrameClosed
        <3>3. CASE i # n
            <4>1. i \in 0..(n - 1)
                BY <1>1, <3>1, <3>3 DEF Carries, Layout
            <4> QED
                BY <1>1, <2>4, <3>1, <4>1, FrameKept, Zenon
        <3> QED
            BY <3>2, <3>3
    <2> QED
        BY <2>1, <2>2, <2>3, <2>4, <2>5 DEF Unstuffing
<1> QED
    BY <1>2, <1>3, <1>4 DEF Unstuffing

\* The frame is closed only with all its bits read, and the line ends before that
\* only if it is too short.
LEMMA UnstuffEnds ==
    ASSUME NEW N, NEW P, NEW v, NEW run, NEW at, NEW n, Unstuffing(N, P, v, run, at, n)
    PROVE  /\ LineEnds => Len(hdlc) < P + at[n] + 3
           /\ ClosingFlag =>
                /\ P + at[n] + 3 <= Len(hdlc)
                /\ Taken(1).out \in Seq(Bits) /\ Len(Taken(1).out) = n - 5
                /\ \A k \in 1..(n - 5) : Taken(1).out[k] = v[k]
<1>1. Carries(hdlc, N, P, v, run, at, n) /\ Scanned
      /\ Layout(N, P, v, run, at, n) /\ hdlc \in Seq(Bits) /\ P \in Nat /\ N \in 1..112 /\ N < P
      /\ n \in Nat
    BY DEF Unstuffing, Carries, Layout
<1>2. at[n] \in Nat /\ Len(hdlc) \in Nat
    <2>1. n \in 0..n
        BY <1>1
    <2> QED
        BY <1>1, <2>1, AtBelow
<1> DEFINE d == at[n]
           l == Len(hdlc)
<1> HIDE DEF d, l
<1>3. P \in Nat /\ d \in Nat /\ l \in Nat
    BY <1>1, <1>2 DEF d, l
<1>4. ASSUME pos \in Nat, pos <= P + 2, ~ClosingFlag
      PROVE  (LineEnds => l < P + d + 3) /\ ~ClosingFlag
    <2>1. ASSUME LineEnds PROVE l < P + d + 3
        <3>1. pos > l
            BY <2>1 DEF LineEnds, l
        <3> QED
            BY <1>3, <1>4, <3>1
    <2> QED
        BY <1>4, <2>1
<1>5. CASE InNoise(N)
    <2>1. ~ClosingFlag
        BY <1>1, <1>5, NoiseKept, Zenon
    <2>2. pos \in Nat /\ pos <= P + 2
        BY <1>1, <1>5 DEF InNoise
    <2> QED
        BY <1>4, <2>1, <2>2 DEF d, l
<1>6. CASE InFlags(N, P)
    <2>1. ~ClosingFlag
        BY <1>1, <1>6, FlagsKept, Zenon
    <2>2. pos \in Nat /\ pos <= P + 2
        BY <1>1, <1>6 DEF InFlags
    <2> QED
        BY <1>4, <2>1, <2>2 DEF d, l
<1>9. CASE P % 8 # 0 /\ Settled(P)
    <2>1. l < P + d + 3
        BY <1>9 DEF Unstuffing, d, l
    <2>2. ~ClosingFlag
        BY <1>1, <1>9, <2>1, SettledKept, Zenon DEF d, l
    <2> QED
        BY <2>1, <2>2 DEF d, l
<1>7. CASE P % 8 = 0 /\ Opened(P)
    <2>1. ~ClosingFlag
        BY <1>1, <1>7, OpenedKept, Zenon
    <2>2. pos \in Nat /\ pos <= P + 2
        BY <1>1, <1>7 DEF Opened
    <2> QED
        BY <1>4, <2>1, <2>2 DEF d, l
<1>8. CASE P % 8 = 0 /\ InFrame(P, v, run, at, n)
    <2>1. PICK i \in 0..n, m \in Nat : AtBit(i, m, P, v, run, at)
        BY <1>8 DEF InFrame
    <2>2. at[i] \in Nat /\ at[i] <= at[n]
        BY <1>1, <2>1, AtBelow
    <2>3. pos = P + 3 + m /\ (m = at[i] \/ m = at[i] - 1)
        BY <2>1 DEF AtBit
    <2>4. pos \in Nat /\ pos <= P + d + 3
        <3> DEFINE b == at[i]
        <3>1. b \in Nat /\ b <= d /\ (m = b \/ m = b - 1)
            BY <2>2, <2>3 DEF d
        <3> HIDE DEF b
        <3> QED
            BY <1>3, <2>3, <3>1
    <2>5. LineEnds => l < P + d + 3
        <3>1. ASSUME LineEnds PROVE l < P + d + 3
            <4>1. pos > l
                BY <3>1 DEF LineEnds, l
            <4> QED
                BY <1>3, <2>4, <4>1
        <3> QED
            BY <3>1
    <2>6. ASSUME ClosingFlag
          PROVE  /\ P + d + 3 <= l
                 /\ Taken(1).out \in Seq(Bits) /\ Len(Taken(1).out) = n - 5
                 /\ \A k \in 1..(n - 5) : Taken(1).out[k] = v[k]
        <3>1. i = n
            <4>1. ASSUME i # n PROVE FALSE
                <5>1. i \in 0..(n - 1)
                    BY <1>1, <2>1, <4>1
                <5> QED
                    BY <1>1, <2>1, <2>6, <5>1, FrameKept, Zenon
            <4> QED
                BY <4>1
        <3>2. AtBit(n, m, P, v, run, at)
            BY <2>1, <3>1
        <3>3. pos = P + at[n] + 3 /\ Taken(1).out \in Seq(Bits) /\ Len(Taken(1).out) = n - 5
              /\ \A k \in 1..(n - 5) : Taken(1).out[k] = v[k]
            BY <1>1, <2>1, <2>6, <3>2, FrameClosed
        <3>4. pos <= l
            BY <1>1, <2>6, ClosingFlagIs DEF l
        <3> QED
            BY <3>3, <3>4 DEF d
    <2> QED
        BY <2>5, <2>6 DEF d, l
<1> QED
    BY <1>5, <1>6, <1>7, <1>8, <1>9 DEF Unstuffing

\* ------------------------------- The packets -------------------------------
FrameOf(p) == WithCrc(p.crc, p.payload)

IsFrame(p, frame, n) ==
    /\ n \in Nat /\ n % 8 = 0 /\ n > 0 /\ frame \in Word(n)
    /\ CrcFails(p.crc, frame) <=> IsTurned(p.crc, p.payload)
    /\ p.fr \in {1, 3} => n >= 8 * MinFrame /\ n <= 8 * MaxFrame /\ frame[8] = 0

\* The frame a satellite sends.
LEMMA FrameIs ==
    ASSUME NEW p \in Packets
    PROVE  \E n : IsFrame(p, FrameOf(p), n)
<1> DEFINE m == Len(p.payload)
           w == 8 * p.crc.bytes
<1>1. /\ p.payload \in Seq(Bits) /\ m % 8 = 0 /\ m > 0
      /\ p.crc.bytes \in 0..2 /\ (p.crc.bytes > 0 => IsCrc(p.crc))
      /\ p.fr \in {1, 3} => m \div 8 + p.crc.bytes \in MinFrame..MaxFrame /\ p.payload[8] = 0
    BY FramingAssumption DEF IsPacket, Whole
<1>2. m \in Nat /\ p.payload \in Word(m) /\ w \in Nat
    BY <1>1, IsWord
<1>3. m >= 8
    <2> HIDE DEF m
    <2> QED
        BY <1>1, <1>2
<1>4. (m + w) % 8 = 0 /\ m + w > 0 /\ m + w \in Nat
    <2>1. w % 8 = 0
        BY <1>1
    <2>2. m \in Nat /\ m % 8 = 0 /\ m > 0 /\ w \in Nat
        BY <1>1, <1>2
    <2> HIDE DEF m, w
    <2> QED
        BY <2>1, <2>2
<1>5. p.fr \in {1, 3} => m + w >= 8 * MinFrame /\ m + w <= 8 * MaxFrame
    <2>1. ASSUME p.fr \in {1, 3} PROVE m + w >= 8 * MinFrame /\ m + w <= 8 * MaxFrame
        <3> DEFINE b == p.crc.bytes
        <3>1. m \in Nat /\ m % 8 = 0 /\ b \in Nat /\ w = 8 * b
            <4>1. m \in Nat /\ m % 8 = 0
                BY <1>1, <1>2
            <4>2. p.crc.bytes \in Nat
                BY <1>1
            <4> QED
                BY <4>1, <4>2
        <3>2. m \div 8 + b \in MinFrame..MaxFrame
            BY <1>1, <2>1, Zenon
        <3> HIDE DEF m, w, b
        <3> QED
            BY <3>1, <3>2 DEF MinFrame, MaxFrame
    <2> QED
        BY <2>1
<1>6. /\ FrameOf(p) \in Word(m + w) /\ (CrcFails(p.crc, FrameOf(p)) <=> IsTurned(p.crc, p.payload))
      /\ FrameOf(p)[8] = p.payload[8]
    <2>1. CASE p.crc.bytes = 0
        <3>1. FrameOf(p) = p.payload
            BY <2>1 DEF FrameOf, WithCrc
        <3>2. ~CrcFails(p.crc, FrameOf(p)) /\ ~IsTurned(p.crc, p.payload)
            BY <2>1 DEF CrcFails, IsTurned
        <3>3. m + w = m
            <4> HIDE DEF m
            <4> QED
                BY <1>2, <2>1
        <3> QED
            BY <1>2, <3>1, <3>2, <3>3
    <2>2. CASE p.crc.bytes # 0
        <3>1. IsWide(p.crc, w)
            <4>1. p.crc.bytes \in Nat /\ p.crc.bytes > 0 /\ w >= 8
                BY <1>1, <2>2
            <4> QED
                BY <1>1, <4>1 DEF IsWide
        <3> HIDE DEF m, w
        <3>2. /\ FrameOf(p) \in Word(m + w) /\ (CrcFails(p.crc, FrameOf(p)) <=> IsTurned(p.crc, p.payload))
              /\ \A i \in 1..m : FrameOf(p)[i] = p.payload[i]
            <4>1. m % 8 = 0 /\ m > 0
                BY <1>1 DEF m
            <4> QED
                BY <1>2, <3>1, <4>1, WithCrcHolds DEF FrameOf
        <3>3. 8 \in 1..m
            BY <1>2, <1>3
        <3> QED
            BY <3>2, <3>3
    <2> QED
        BY <2>1, <2>2
<1> DEFINE n == m + w
<1>7. /\ n \in Nat /\ n % 8 = 0 /\ n > 0 /\ FrameOf(p) \in Word(n)
      /\ CrcFails(p.crc, FrameOf(p)) <=> IsTurned(p.crc, p.payload)
    BY <1>4, <1>6
<1>8. p.fr \in {1, 3} => n >= 8 * MinFrame /\ n <= 8 * MaxFrame /\ FrameOf(p)[8] = 0
    BY <1>1, <1>5, <1>6
<1> HIDE DEF n
<1>9. IsFrame(p, FrameOf(p), n)
    BY <1>7, <1>8 DEF IsFrame
<1> QED
    BY <1>9

\* A preamble puts flags in front of the frame, in step or not.
LEMMA PreambleIs ==
    ASSUME NEW p \in Packets, p.fr \in {1, 3}
    PROVE  \E P \in Nat : \E N \in 1..112 :
              FlagsFrom(p.preamble, P, N) /\ (p.fr = 3 => N >= 18) /\ (InStep(p) <=> P % 8 = 0)
<1>1. IsPreamble(p.preamble, IF p.fr = 1 THEN 1 ELSE 18)
    BY FramingAssumption DEF IsPacket
<1> DEFINE P == Len(p.preamble)
<1>2. PICK N \in (IF p.fr = 1 THEN 1 ELSE 18)..112 :
        /\ N < P /\ (P - N) % 8 = 0
        /\ \A i \in (N + 1)..P : p.preamble[i] = Flag[((i - N - 1) % 8) + 1]
    <2>1. 8 * (MinFrame - 2) = 112
        BY DEF MinFrame
    <2> QED
        BY <1>1, <2>1 DEF IsPreamble
<1>3. p.preamble \in Seq(Bits)
    BY <1>1 DEF IsPreamble
<1>4. p.preamble \in Word(P) /\ P \in Nat
    BY <1>3, IsWord
<1>5. N \in 1..112 /\ (p.fr = 3 => N >= 18)
    <2>1. CASE p.fr = 1
        BY <2>1
    <2>2. CASE p.fr = 3
        BY <2>2
    <2> QED
        BY <2>1, <2>2
<1>6. FlagsFrom(p.preamble, P, N)
    BY <1>2, <1>4, <1>5 DEF FlagsFrom
<1>7. InStep(p) <=> P % 8 = 0
    BY DEF InStep
<1> HIDE DEF P
<1> QED
    BY <1>4, <1>5, <1>6, <1>7

Demodulated(fr, d) == Nrzi(IF fr = 3 THEN Descrambled(d) ELSE d)
Modulated(fr, l, content) ==
    IF fr = 1 THEN Levels(l, content[1]) ELSE Scrambled(Levels(l, content[1]), content)

\* Of whatever part of the line arrives, all but the first bits are recovered.
Undoes(fr, air, l, k) ==
    /\ air \in Word(k)
    /\ \A j \in 0..k : \A d \in Word(j) :
         (\A i \in 1..j : d[i] = air[i]) =>
           /\ Demodulated(fr, d) \in Word(j)
           /\ \A i \in 1..j : i > (IF fr = 1 THEN 1 ELSE 18) => Demodulated(fr, d)[i] = l[i]

LEMMA Demodulates ==
    ASSUME NEW fr \in {1, 3}, NEW k \in Nat, k > 18, NEW l \in Word(k), NEW content \in Word(17)
    PROVE  Undoes(fr, Modulated(fr, l, content), l, k)
<1> DEFINE level == content[1]
           lev == Levels(l, level)
<1>1. level \in Bits
    BY DEF Word
<1> HIDE DEF level
<1>2. lev \in Word(k)
    BY <1>1, LevelsAre
<1>3. CASE fr = 1
    <2>1. Modulated(fr, l, content) = lev
        BY <1>3 DEF Modulated, level
    <2>2. ASSUME NEW j \in 0..k, NEW d \in Word(j), \A i \in 1..j : d[i] = lev[i]
          PROVE  Nrzi(d) \in Word(j) /\ \A i \in 1..j : i > 1 => Nrzi(d)[i] = l[i]
        <3>1. 1 \in 1..k /\ \A i \in 1..j : i >= 1 => d[i] = lev[i]
            BY <2>2
        <3> QED
            BY <1>1, <3>1, NrziUndoes
    <2>3. \A d : Demodulated(fr, d) = Nrzi(d)
        BY <1>3 DEF Demodulated
    <2> HIDE DEF lev
    <2> QED
        BY <1>2, <1>3, <2>1, <2>2, <2>3 DEF Undoes
<1>4. CASE fr = 3
    <2> HIDE DEF lev
    <2> DEFINE air == Scrambled(lev, content)
    <2>1. Modulated(fr, l, content) = air
        BY <1>4 DEF Modulated, level, lev
    <2>2. air \in Word(k)
        BY <1>2, ScrambledIs
    <2> HIDE DEF air
    <2>3. ASSUME NEW j \in 0..k, NEW d \in Word(j), \A i \in 1..j : d[i] = air[i]
          PROVE  /\ Nrzi(Descrambled(d)) \in Word(j)
                 /\ \A i \in 1..j : i > 18 => Nrzi(Descrambled(d))[i] = l[i]
        <3> DEFINE r == Descrambled(d)
        <3>1. r \in Word(j) /\ \A i \in 1..j : i > 17 => r[i] = lev[i]
            BY <1>2, <2>3, DescrambledUndoes DEF air
        <3> HIDE DEF r
        <3>2. 18 \in 1..k /\ \A i \in 1..j : i >= 18 => r[i] = Levels(l, level)[i]
            BY <3>1 DEF lev
        <3>3. Nrzi(r) \in Word(j) /\ \A i \in 1..j : i > 18 => Nrzi(r)[i] = l[i]
            BY <1>1, <3>1, <3>2, NrziUndoes
        <3> QED
            BY <3>3 DEF r
    <2>4. \A d : Demodulated(fr, d) = Nrzi(Descrambled(d))
        BY <1>4 DEF Demodulated
    <2> QED
        BY <1>4, <2>1, <2>2, <2>3, <2>4 DEF Undoes
<1> QED
    BY <1>3, <1>4

\* What comes out of the line code, and how much of it there is.
Framed(h, frame, damage, N, P, v, run, at, n) ==
    /\ Carries(h, N, P, v, run, at, n + 5) /\ Len(h) > 1
    /\ P % 8 = 0 \/ damage = "cut"
    /\ n \in Nat /\ n % 8 = 0 /\ frame \in Word(n) /\ \A i \in 1..n : v[i] = ReverseBytes(frame)[i]
    /\ damage = "none" => P + at[n + 5] + 3 <= Len(h)
    /\ damage = "cut" => Len(h) < P + at[n + 5] + 3
    /\ damage # "burst"

IsFramed(h, frame, damage) ==
    \E N, P, v, run, at, n : Framed(h, frame, damage, N, P, v, run, at, n)

\* The part of k bits that arrives.
Arrives(j, k, damage) ==
    /\ j \in 0..k /\ j % 8 = 0
    /\ \/ damage = "none" /\ j = k
       \/ damage = "cut" /\ j >= 8 /\ j <= k - 8

\* The padding behind the closing flag is less than a byte.
LEMMA LineLengths ==
    ASSUME NEW l, NEW k, NEW N, NEW P, NEW v, NEW run, NEW at, NEW n, IsLine(l, k, N, P, v, run, at, n)
    PROVE  /\ P \in Nat /\ at[n] \in Nat
           /\ k \in Nat /\ k % 8 = 0 /\ l \in Word(k) /\ k > 8 * MinFrame
           /\ P + at[n] + 3 <= k /\ k < P + at[n] + 11 /\ P + at[n] + 3 > 8 * MinFrame
<1>1. /\ k \in Nat /\ k % 8 = 0 /\ l \in Word(k)
      /\ P + at[n] + 3 <= k /\ k < P + at[n] + 11 /\ P + at[n] + 3 > 8 * MinFrame
    BY DEF IsLine
<1>2. Layout(N, P, v, run, at, n)
    BY DEF IsLine, Carries
<1>3. P \in Nat /\ n \in Nat /\ at \in [0..n -> Nat]
    BY <1>2 DEF Layout
<1>4. at[n] \in Nat
    BY <1>3
<1>5. k > 8 * MinFrame
    <2> DEFINE end == P + at[n] + 3
    <2>1. end \in Nat /\ end <= k /\ end > 8 * MinFrame
        BY <1>1, <1>3, <1>4
    <2> HIDE DEF end
    <2> QED
        BY <1>1, <2>1 DEF MinFrame
<1> QED
    BY <1>1, <1>3, <1>4, <1>5

\* What arrives carries the frame, or ends before its flag.
LEMMA ArrivesFramed ==
    ASSUME NEW l, NEW frame, NEW N, NEW P, NEW v, NEW run, NEW at, NEW n \in Nat, n % 8 = 0,
           NEW k, IsLine(l, k, N, P, v, run, at, n + 5),
           frame \in Word(n), \A i \in 1..n : v[i] = ReverseBytes(frame)[i],
           NEW damage, NEW j, Arrives(j, k, damage), P % 8 = 0 \/ damage = "cut",
           NEW h \in Word(j), \A i \in 1..j : i > N => h[i] = l[i]
    PROVE  IsFramed(h, frame, damage)
<1>1. /\ k \in Nat /\ k % 8 = 0 /\ P + at[n + 5] + 3 <= k /\ k < P + at[n + 5] + 11
      /\ P + at[n + 5] + 3 > 8 * MinFrame
    BY LineLengths
<1>2. P \in Nat /\ at[n + 5] \in Nat
    BY LineLengths
<1>3. Carries(h, N, P, v, run, at, n + 5)
    <2>1. j \in 0..k /\ j % 8 = 0
        BY DEF Arrives
    <2> QED
        BY <2>1, PartCarries
<1>4. Len(h) = j /\ j \in Nat
    <2>1. j \in Nat
        BY DEF Arrives
    <2> QED
        BY <2>1, WordIs
<1> DEFINE end == P + at[n + 5] + 3
<1>5. end \in Nat
    BY <1>2
<1> HIDE DEF end
<1>6. k > 8 * MinFrame /\ end <= k /\ k < end + 8 /\ end > 8 * MinFrame
    <2>1. P + at[n + 5] + 11 = end + 8
        BY <1>2 DEF end
    <2>2. k < end + 8 /\ end <= k /\ end > 8 * MinFrame
        BY <1>1, <2>1 DEF end
    <2> QED
        BY <1>1, <1>5, <2>2 DEF MinFrame
<1>7. j > 1 /\ (damage = "none" => end <= j) /\ (damage = "cut" => j < end) /\ damage # "burst"
    <2>1. CASE damage = "none" /\ j = k
        BY <1>1, <1>6, <2>1 DEF MinFrame
    <2>2. CASE damage = "cut" /\ j >= 8 /\ j <= k - 8
        BY <1>1, <1>4, <1>5, <1>6, <2>2
    <2> QED
        BY <2>1, <2>2 DEF Arrives
<1>8. Framed(h, frame, damage, N, P, v, run, at, n)
    BY <1>3, <1>4, <1>7 DEF Framed, end
<1> QED
    BY <1>8 DEF IsFramed

\* The line codes undo the satellite's, whole or cut off.
LEMMA ReceivedFramed ==
    ASSUME NEW p \in Packets, p.fr \in {1, 3}, NEW damage, NEW d, InStep(p) \/ damage = "cut",
           LET air == OnAir(p.fr, p.preamble, FrameOf(p), p.content)
           IN  \/ damage = "none" /\ d = air
               \/ /\ damage = "cut"
                  /\ \E c \in Nat \ {0} : c < Len(air) \div 8 /\ d = SubSeq(air, 1, Len(air) - 8 * c)
    PROVE  IsFramed(Demodulated(p.fr, d), FrameOf(p), damage)
<1> DEFINE frame == FrameOf(p)
           l == Line(p.preamble, frame)
           air == Modulated(p.fr, l, p.content)
<1>1. OnAir(p.fr, p.preamble, frame, p.content) = air
    <2>1. CASE p.fr = 1
        BY <2>1 DEF OnAir, Modulated
    <2>2. CASE p.fr = 3
        BY <2>2 DEF OnAir, Modulated
    <2> QED
        BY <2>1, <2>2
<1>2. PICK n : IsFrame(p, frame, n)
    BY FrameIs
<1>3. n \in Nat /\ n % 8 = 0 /\ frame \in Word(n) /\ n >= 8 * MinFrame /\ n <= 8 * MaxFrame /\ frame[8] = 0
    BY <1>2 DEF IsFrame
<1>4. PICK P \in Nat, N \in 1..112 :
         FlagsFrom(p.preamble, P, N) /\ (p.fr = 3 => N >= 18) /\ (InStep(p) <=> P % 8 = 0)
    BY PreambleIs
<1> HIDE DEF frame
<1>5. PICK k, v, run, at : /\ IsLine(l, k, N, P, v, run, at, n + 5)
                           /\ \A i \in 1..n : v[i] = ReverseBytes(frame)[i]
    BY <1>3, <1>4, LineCarries
<1>6. k \in Nat /\ k % 8 = 0 /\ l \in Word(k) /\ k > 8 * MinFrame
    BY <1>5, LineLengths
<1> HIDE DEF l
<1>7. Undoes(p.fr, air, l, k)
    <2>1. p.content \in Word(17)
        BY FramingAssumption DEF IsPacket
    <2>2. k > 18
        BY <1>6 DEF MinFrame
    <2> QED
        <3>1. k \in Nat /\ l \in Word(k)
            BY <1>6
        <3> HIDE DEF air
        <3>2. air = Modulated(p.fr, l, p.content)
            BY DEF air
        <3> QED
            BY <2>1, <2>2, <3>1, <3>2, Demodulates
<1> HIDE DEF air
<1>8. Len(air) = k
    BY <1>6, <1>7, WordIs DEF Undoes
<1>9. PICK j : Arrives(j, k, damage) /\ d \in Word(j) /\ \A i \in 1..j : d[i] = air[i]
    <2>1. ASSUME damage = "none", d = air
          PROVE  Arrives(k, k, damage) /\ d \in Word(k) /\ \A i \in 1..k : d[i] = air[i]
        BY <1>6, <1>7, <2>1 DEF Arrives, Undoes
    <2>2. ASSUME damage = "cut", NEW c \in Nat \ {0}, c < k \div 8,
                 NEW j, j = k - 8 * c, d = SubSeq(air, 1, j)
          PROVE  Arrives(j, k, damage) /\ d \in Word(j) /\ \A i \in 1..j : d[i] = air[i]
        <3>1. j \in 0..k /\ j % 8 = 0 /\ j >= 8 /\ j <= k - 8
            BY <1>6, <2>2
        <3>2. 1 \in 1..(k + 1) /\ j \in (1 - 1)..k /\ j - 1 + 1 = j /\ \A i \in 1..j : 1 + i - 1 = i
            BY <1>6, <3>1
        <3>3. d \in Word(j - 1 + 1) /\ \A i \in 1..(j - 1 + 1) : d[i] = air[1 + i - 1]
            <4>1. k \in Nat /\ air \in Word(k) /\ d = SubSeq(air, 1, j)
                BY <1>6, <1>7, <2>2 DEF Undoes
            <4> QED
                BY <3>2, <4>1, SubIs
        <3> QED
            BY <2>2, <3>1, <3>2, <3>3 DEF Arrives
    <2>3. \/ damage = "none" /\ d = air
          \/ damage = "cut" /\ \E c \in Nat \ {0} : c < k \div 8 /\ d = SubSeq(air, 1, k - 8 * c)
        BY <1>1, <1>8 DEF frame
    <2>4. CASE damage = "none" /\ d = air
        BY <2>1, <2>4
    <2>5. CASE damage = "cut" /\ \E c \in Nat \ {0} : c < k \div 8 /\ d = SubSeq(air, 1, k - 8 * c)
        BY <2>2, <2>5
    <2> QED
        BY <2>3, <2>4, <2>5
<1> DEFINE h == Demodulated(p.fr, d)
<1>10. h \in Word(j) /\ \A i \in 1..j : i > (IF p.fr = 1 THEN 1 ELSE 18) => h[i] = l[i]
    <2>1. j \in 0..k
        BY <1>9 DEF Arrives
    <2> QED
        BY <1>7, <1>9, <2>1 DEF Undoes
<1> HIDE DEF h
<1>11. \A i \in 1..j : i > N => h[i] = l[i]
    <2>1. ASSUME NEW i \in 1..j, i > N PROVE i > (IF p.fr = 1 THEN 1 ELSE 18)
        <3>1. i \in Nat /\ N \in Nat /\ N >= 1
            <4>1. j \in Nat
                BY <1>6, <1>9 DEF Arrives
            <4> QED
                BY <1>4, <4>1
        <3>4. p.fr = 3 => N >= 18
            BY <1>4
        <3>2. CASE p.fr = 1
            <4>1. i > 1
                BY <2>1, <3>1
            <4> QED
                BY <3>2, <4>1
        <3>3. CASE p.fr = 3
            <4>1. i > 18
                BY <2>1, <3>1, <3>3, <3>4
            <4> QED
                BY <3>3, <4>1
        <3> QED
            BY <3>2, <3>3
    <2> QED
        BY <1>10, <2>1
<1>13. P % 8 = 0 \/ damage = "cut"
    BY <1>4
<1>12. IsFramed(h, frame, damage)
    BY <1>3, <1>5, <1>9, <1>10, <1>11, <1>13, ArrivesFramed
<1> QED
    BY <1>12 DEF h, frame

\* A frame with a CRC that refout does not turn round is one the check accepts.
LEMMA FrameParts ==
    ASSUME NEW p \in Packets, p.crc.bytes > 0, ~p.crc.refout
    PROVE  \E m \in Nat, w \in Nat :
             /\ IsWide(p.crc, w) /\ w % 8 = 0 /\ m % 8 = 0 /\ m > 0
             /\ FrameOf(p) \in Word(m + w) /\ (m + w) % 8 = 0 /\ ~CrcFails(p.crc, FrameOf(p))
<1> DEFINE m == Len(p.payload)
           w == 8 * p.crc.bytes
<1>1. /\ p.payload \in Seq(Bits) /\ m % 8 = 0 /\ m > 0 /\ p.crc.bytes \in 0..2 /\ IsCrc(p.crc)
    BY FramingAssumption DEF IsPacket, Whole
<1>2. p.crc.bytes \in Nat /\ w >= 8 /\ w \in Nat /\ w % 8 = 0
    BY <1>1
<1>3. m \in Nat /\ p.payload \in Word(m)
    BY <1>1, IsWord
<1>4. IsWide(p.crc, w)
    BY <1>1, <1>2 DEF IsWide
<1> HIDE DEF m, w
<1>5. FrameOf(p) \in Word(m + w) /\ ~CrcFails(p.crc, FrameOf(p))
    <2>1. m % 8 = 0 /\ m > 0
        BY <1>1 DEF m
    <2>2. ~IsTurned(p.crc, p.payload)
        BY DEF IsTurned
    <2> QED
        BY <1>2, <1>3, <1>4, <2>1, <2>2, WithCrcHolds DEF FrameOf
<1>6. m % 8 = 0 /\ m > 0 /\ (m + w) % 8 = 0
    <2>1. m % 8 = 0 /\ m > 0
        BY <1>1 DEF m
    <2> QED
        BY <1>2, <1>3, <2>1
<1> QED
    BY <1>2, <1>3, <1>4, <1>5, <1>6

\* What the CRC is compared on.
Checked(crc, frame, damage, d) ==
    /\ damage # "cut"
    /\ damage = "none" => d = frame
    /\ damage = "burst" /\ ~crc.refout => CrcFails(crc, d)

\* PN9 undoes itself, flipped bits and all, and the CRC notices a burst.
LEMMA ReceivedUnframed ==
    ASSUME NEW p \in Packets, p.fr \in {0, 2}, NEW damage, NEW d,
           LET air == OnAir(p.fr, p.preamble, FrameOf(p), p.content)
           IN  \/ damage = "none" /\ d = air
               \/ /\ damage = "burst" /\ p.crc.bytes > 0
                  /\ \E hit \in SUBSET (DOMAIN air) :
                       IsBurst(p.crc, Len(air), hit) /\ d = Flipped(air, hit)
    PROVE  Checked(p.crc, FrameOf(p), damage, IF p.fr = 2 THEN Pn9(d) ELSE d)
<1> DEFINE frame == FrameOf(p)
           air == IF p.fr = 2 THEN Whitened(frame) ELSE frame
           got == IF p.fr = 2 THEN Pn9(d) ELSE d
<1>1. OnAir(p.fr, p.preamble, frame, p.content) = air
    <2>1. CASE p.fr = 0
        BY <2>1 DEF OnAir
    <2>2. CASE p.fr = 2
        BY <2>2 DEF OnAir
    <2> QED
        BY <2>1, <2>2
<1>2. \/ damage = "none" /\ d = air
      \/ /\ damage = "burst" /\ p.crc.bytes > 0
         /\ \E hit \in SUBSET (DOMAIN air) : IsBurst(p.crc, Len(air), hit) /\ d = Flipped(air, hit)
    BY <1>1 DEF frame
<1> HIDE DEF frame
<1>3. ASSUME NEW n \in Nat, n % 8 = 0, frame \in Word(n)
      PROVE  /\ air \in Word(n)
             /\ \A hit : d = Flipped(air, hit) => got = Flipped(frame, hit)
             /\ d = air => got = frame
    <2>1. Whitened(frame) \in Word(n) /\ \A hit : Pn9(Flipped(Whitened(frame), hit)) = Flipped(frame, hit)
        BY <1>3, Pn9Whitens, Pn9Undoes
    <2>2. Flipped(frame, {}) = frame /\ Flipped(Whitened(frame), {}) = Whitened(frame)
        BY <1>3, <2>1, FlippedIs
    <2>3. Pn9(Whitened(frame)) = frame
        BY <2>1, <2>2
    <2> QED
        BY <1>3, <2>1, <2>3
<1>4. CASE damage = "none" /\ d = air
    <2>1. PICK n : n \in Nat /\ n % 8 = 0 /\ frame \in Word(n)
        BY FrameIs DEF frame, IsFrame
    <2>2. got = frame
        BY <1>3, <1>4, <2>1
    <2> QED
        BY <1>4, <2>2 DEF Checked, frame
<1>6. CASE damage = "burst" /\ p.crc.refout
    BY <1>6 DEF Checked
<1>5. CASE /\ damage = "burst" /\ p.crc.bytes > 0 /\ ~p.crc.refout
           /\ \E hit \in SUBSET (DOMAIN air) : IsBurst(p.crc, Len(air), hit) /\ d = Flipped(air, hit)
    <2>1. PICK m \in Nat, w \in Nat :
             /\ IsWide(p.crc, w) /\ w % 8 = 0 /\ m % 8 = 0 /\ m > 0
             /\ frame \in Word(m + w) /\ (m + w) % 8 = 0 /\ ~CrcFails(p.crc, frame)
        BY <1>5, FrameParts DEF frame
    <2>2. PICK hit \in SUBSET (DOMAIN air) : IsBurst(p.crc, Len(air), hit) /\ d = Flipped(air, hit)
        BY <1>5
    <2>3. m + w \in Nat
        BY <2>1
    <2>4. air \in Word(m + w) /\ got = Flipped(frame, hit)
        BY <1>3, <2>1, <2>2, <2>3
    <2> HIDE DEF air, got
    <2>5. Len(air) = m + w /\ DOMAIN air = 1..(m + w)
        BY <2>3, <2>4, WordIs
    <2>6. CrcFails(p.crc, Flipped(frame, hit))
        BY <1>5, <2>1, <2>2, <2>5, BurstFails
    <2> QED
        BY <1>5, <2>4, <2>6 DEF Checked, got
<1> QED
    BY <1>2, <1>4, <1>5, <1>6

\* ------------------------------ The invariant ------------------------------
Unframe(fr, d) == IF fr = 2 THEN Pn9(d) ELSE d

Arrived ==
    /\ sent.framing \in 0..3
    /\ pos = 3 /\ ones = 0 /\ part = <<>> /\ out = <<>> /\ store = FALSE /\ resync = 0 /\ skip = FALSE
    /\ sent.framing \in {1, 3} => IsFramed(Demodulated(sent.framing, data), sent.frame, sent.damage)
    /\ sent.framing \in {0, 2} =>
         Checked(sent.crc, sent.frame, sent.damage, Unframe(sent.framing, data))

InLine == \E N, P, v, run, at, n :
    Framed(hdlc, sent.frame, sent.damage, N, P, v, run, at, n) /\ Unstuffing(N, P, v, run, at, n + 5)

Judged ==
    /\ sent.damage = "none" => data = sent.frame /\ verdict = IF sent.turned THEN "sw_crc_fail" ELSE "ok"
    /\ sent.damage = "cut" => verdict = "frame_error"
    /\ sent.damage = "burst" /\ ~sent.crc.refout => verdict = "sw_crc_fail"

\* Nothing is said of what a whole packet out of step becomes.
Covered == sent.inStep \/ sent.damage # "none"

FramingInv ==
    /\ CrcFails(sent.crc, sent.frame) <=> sent.turned
    /\ Covered =>
         /\ stage = "received" => Arrived
         /\ stage = "unstuff" => InLine
         /\ stage = "check" => Checked(sent.crc, sent.frame, sent.damage, data)
         /\ stage = "done" => Judged

\* A packet that has just arrived.
LEMMA FramingInit ==
    ASSUME Init PROVE FramingInv
<1>1. PICK p \in Packets, damage \in {"none", "cut", "burst"} :
        LET air == OnAir(p.fr, p.preamble, FrameOf(p), p.content)
        IN  /\ sent = [framing |-> p.fr, crc |-> p.crc, frame |-> FrameOf(p), damage |-> damage,
                       inStep |-> InStep(p), turned |-> IsTurned(p.crc, p.payload)]
            /\ \/ damage = "none" /\ Undamaged(air)
               \/ damage = "cut" /\ p.fr \in {1, 3} /\ CutOff(air)
               \/ damage = "burst" /\ p.fr \in {0, 2} /\ p.crc.bytes > 0 /\ Burst(p.crc, air)
    BY Zenon DEF Init, FrameOf
<1> DEFINE air == OnAir(p.fr, p.preamble, FrameOf(p), p.content)
<1>2. /\ sent.framing = p.fr /\ sent.crc = p.crc /\ sent.frame = FrameOf(p) /\ sent.damage = damage
      /\ sent.inStep = InStep(p) /\ sent.turned = IsTurned(p.crc, p.payload)
      /\ stage = "received"
      /\ pos = 3 /\ ones = 0 /\ part = <<>> /\ out = <<>> /\ store = FALSE /\ resync = 0 /\ skip = FALSE
    <2>1. sent = [framing |-> p.fr, crc |-> p.crc, frame |-> FrameOf(p), damage |-> damage,
                  inStep |-> InStep(p), turned |-> IsTurned(p.crc, p.payload)]
        BY <1>1
    <2>2. /\ stage = "received"
          /\ pos = 3 /\ ones = 0 /\ part = <<>> /\ out = <<>> /\ store = FALSE /\ resync = 0 /\ skip = FALSE
        BY DEF Init
    <2> QED
        BY <2>1, <2>2
<1>3. \/ damage = "none" /\ Undamaged(air)
      \/ damage = "cut" /\ p.fr \in {1, 3} /\ CutOff(air)
      \/ damage = "burst" /\ p.fr \in {0, 2} /\ p.crc.bytes > 0 /\ Burst(p.crc, air)
    BY <1>1
<1> HIDE DEF air
<1>4. p.fr \in 0..3
    BY FramingAssumption DEF IsPacket
<1>5. CrcFails(sent.crc, sent.frame) <=> sent.turned
    <2>1. CrcFails(p.crc, FrameOf(p)) <=> IsTurned(p.crc, p.payload)
        BY FrameIs DEF IsFrame
    <2> QED
        BY <1>2, <2>1
<1>6. p.fr \in {1, 3} /\ Covered => IsFramed(Demodulated(p.fr, data), FrameOf(p), damage)
    <2>1. ASSUME p.fr \in {1, 3}, Covered PROVE IsFramed(Demodulated(p.fr, data), FrameOf(p), damage)
        <3>1. ~(p.fr \in {0, 2})
            BY <2>1
        <3>2. \/ damage = "none" /\ data = air
              \/ damage = "cut" /\ \E c \in Nat \ {0} : c < Len(air) \div 8 /\ data = SubSeq(air, 1, Len(air) - 8 * c)
            BY <1>3, <3>1, FramingAssumption DEF Undamaged, CutOff
        <3>3. InStep(p) \/ damage = "cut"
            BY <1>2, <2>1, <3>2 DEF Covered
        <3> QED
            BY <2>1, <3>2, <3>3, ReceivedFramed, Zenon DEF air
    <2> QED
        BY <2>1
<1>7. p.fr \in {0, 2} => Checked(p.crc, FrameOf(p), damage, Unframe(p.fr, data))
    <2>1. ASSUME p.fr \in {0, 2} PROVE Checked(p.crc, FrameOf(p), damage, Unframe(p.fr, data))
        <3>1. ~(p.fr \in {1, 3})
            BY <2>1
        <3>2. Burst(p.crc, air) => \E hit \in SUBSET (DOMAIN air) :
                                      IsBurst(p.crc, Len(air), hit) /\ data = Flipped(air, hit)
            BY DEF Burst
        <3>3. \/ damage = "none" /\ data = air
              \/ /\ damage = "burst" /\ p.crc.bytes > 0
                 /\ \E hit \in SUBSET (DOMAIN air) :
                      IsBurst(p.crc, Len(air), hit) /\ data = Flipped(air, hit)
            BY <1>3, <3>1, <3>2, Zenon DEF Undamaged
        <3> QED
            BY <2>1, <3>3, ReceivedUnframed, Zenon DEF air, Unframe
    <2> QED
        BY <2>1
<1>8. Covered => Arrived
    BY <1>2, <1>4, <1>6, <1>7 DEF Arrived
<1>9. stage # "unstuff" /\ stage # "check" /\ stage # "done"
    BY <1>2
<1> QED
    BY <1>5, <1>8, <1>9 DEF FramingInv

\* A whole frame is found, and only in a line that was not cut off.
LEMMA FrameFound ==
    ASSUME InLine, ClosingFlag
    PROVE  Checked(sent.crc, sent.frame, sent.damage, data)'
<1>1. PICK N, P, v, run, at, n :
        Framed(hdlc, sent.frame, sent.damage, N, P, v, run, at, n) /\ Unstuffing(N, P, v, run, at, n + 5)
    BY DEF InLine
<1> DEFINE found == Taken(1).out
           h == ReverseBytes(sent.frame)
<1>2. /\ n \in Nat /\ n % 8 = 0 /\ sent.frame \in Word(n) /\ \A i \in 1..n : v[i] = h[i]
      /\ sent.damage = "cut" => Len(hdlc) < P + at[n + 5] + 3
      /\ sent.damage # "burst" /\ hdlc \in Seq(Bits) /\ Scanned
      /\ P \in Nat /\ at \in [0..(n + 5) -> Nat]
    BY <1>1 DEF Framed, Carries, Layout, Unstuffing
<1>3. /\ P + at[n + 5] + 3 <= Len(hdlc)
      /\ found \in Seq(Bits) /\ Len(found) = (n + 5) - 5
      /\ \A k \in 1..((n + 5) - 5) : found[k] = v[k]
    BY <1>1, UnstuffEnds
<1>4. (n + 5) - 5 = n /\ n + 5 \in 0..(n + 5)
    BY <1>2
<1> HIDE DEF found
<1>5. found \in Word(n) /\ \A k \in 1..n : found[k] = v[k]
    BY <1>3, <1>4, IsWord
<1>6. h \in Word(n) /\ ReverseBytes(h) = sent.frame
    BY <1>2, ReverseIs
<1> HIDE DEF h
<1>7. found = h
    <2>1. \A i \in 1..n : found[i] = h[i]
        BY <1>2, <1>5
    <2>2. n \in Nat /\ found \in Word(n) /\ h \in Word(n)
        BY <1>2, <1>5, <1>6
    <2> QED
        BY <2>1, <2>2, WordsEqual, Zenon
<1>8. data' = sent.frame /\ sent' = sent
    BY <1>2, <1>6, <1>7, ClosingFlagIs DEF found
<1>9. sent.damage # "cut"
    <2>1. at[n + 5] \in Nat /\ Len(hdlc) \in Nat
        BY <1>2, <1>4
    <2> DEFINE e == at[n + 5]
               l == Len(hdlc)
    <2>2. e \in Nat /\ l \in Nat /\ P \in Nat /\ P + e + 3 <= l
        BY <1>2, <1>3, <2>1
    <2>3. sent.damage = "cut" => l < P + e + 3
        BY <1>2
    <2> HIDE DEF e, l
    <2>4. ~(l < P + e + 3)
        BY <2>2
    <2> QED
        BY <2>3, <2>4
<1> QED
    BY <1>2, <1>8, <1>9 DEF Checked

\* A line that ends has been cut off.
LEMMA LineWasCut ==
    ASSUME InLine, LineEnds
    PROVE  sent.damage # "none" /\ sent.damage # "burst"
<1>1. PICK N, P, v, run, at, n :
        Framed(hdlc, sent.frame, sent.damage, N, P, v, run, at, n) /\ Unstuffing(N, P, v, run, at, n + 5)
    BY DEF InLine
<1>2. /\ n \in Nat /\ P \in Nat /\ at \in [0..(n + 5) -> Nat] /\ hdlc \in Seq(Bits)
      /\ sent.damage = "none" => P + at[n + 5] + 3 <= Len(hdlc)
      /\ sent.damage # "burst"
    BY <1>1 DEF Framed, Carries, Layout
<1>3. Len(hdlc) < P + at[n + 5] + 3
    BY <1>1, UnstuffEnds
<1>4. at[n + 5] \in Nat /\ Len(hdlc) \in Nat
    <2>1. n + 5 \in 0..(n + 5)
        BY <1>2
    <2> QED
        BY <1>2, <2>1
<1> QED
    BY <1>2, <1>3, <1>4

\* The line code is undone and the unstuffer begins.
LEMMA NrzBegins ==
    ASSUME Arrived, Nrz
    PROVE  InLine'
<1>1. /\ sent' = sent /\ hdlc' = Demodulated(sent.framing, data) /\ last' = hdlc'[1] /\ this' = hdlc'[2]
      /\ sent.framing \in {1, 3}
      /\ pos' = pos /\ ones' = ones /\ part' = part /\ out' = out
      /\ store' = store /\ resync' = resync /\ skip' = skip
    BY DEF Nrz, Demodulated
<1>2. IsFramed(hdlc', sent.frame, sent.damage)
    BY <1>1 DEF Arrived
<1>3. PICK N, P, v, run, at, n : Framed(hdlc', sent.frame, sent.damage, N, P, v, run, at, n)
    BY <1>2 DEF IsFramed
<1>4. Carries(hdlc', N, P, v, run, at, n + 5) /\ Len(hdlc') > 1
    BY <1>3 DEF Framed
<1>5. /\ hdlc' \in Seq(Bits) /\ N \in 1..112 /\ P \in Nat /\ (P - N) % 8 = 0 /\ N < P
      /\ \A i \in (N + 1)..P : i <= Len(hdlc') => hdlc'[i] = Flag[((i - N - 1) % 8) + 1]
    BY <1>4 DEF Carries, Layout
<1>6. /\ pos' = 3 /\ ones' = 0 /\ part' = <<>> /\ out' = <<>>
      /\ store' = FALSE /\ resync' = 0 /\ skip' = FALSE
    BY <1>1 DEF Arrived
<1>7. Scanned'
    <2>1. last' \in Bits /\ this' \in Bits
        BY <1>1, <1>4, <1>5
    <2>2. <<>> \in Seq(Bits) /\ Len(<<>>) = 0
        OBVIOUS
    <2>3. part' \in Seq(Bits) /\ Len(part') < 8 /\ out' \in Seq(Bits)
        BY <1>6, <2>2
    <2>4. pos' \in Nat \ {0} /\ ones' \in Nat /\ resync' \in 0..2
        BY <1>6
    <2>5. store' \in BOOLEAN /\ skip' \in BOOLEAN
        BY <1>6, Zenon
    <2> QED
        BY <2>1, <2>3, <2>4, <2>5 DEF Scanned
<1>8. InNoise(N)' \/ InFlags(N, P)'
    <2>1. Len(<<>>) = 0
        OBVIOUS
    <2>2. Found' = 0 /\ pos' = 3 /\ resync' = 0
        BY <1>6, <2>1 DEF Found
    <2>3. Found' + 3 <= pos' /\ ~(resync' > 0)
        BY <2>2
    <2>4. CASE N >= 3
        <3>1. pos' \in 3..N
            BY <1>5, <2>2, <2>4
        <3> QED
            BY <2>3, <3>1 DEF InNoise
    <2>5. CASE N < 3
        <3>1. N = 1 \/ N = 2
            BY <1>5, <2>5
        <3>2. pos' \in (N + 1)..P /\ ~(pos' > N + 16)
            <4>1. P >= N + 8
                BY <1>5
            <4> QED
                BY <1>5, <2>2, <3>1, <4>1
        <3>3. CASE N = 1
            <4>1. FlagBit(N)' = 1
                BY <2>2, <3>3 DEF FlagBit
            <4>2. this' = 0
                <5>1. 2 \in (N + 1)..P /\ 2 <= Len(hdlc') /\ ((2 - N - 1) % 8) + 1 = 1
                    BY <1>4, <1>5, <3>3
                <5> QED
                    BY <1>1, <1>5, <5>1, FlagIs
            <4>3. resync' < 2 /\ resync' # 1 /\ 1 # 0 /\ 1 # 2 /\ ~(1 > 2)
                BY <2>2
            <4>4. AtFlagBit(1, pos = N + 1)'
                BY <4>2, <4>3, Zenon DEF AtFlagBit
            <4> QED
                BY <2>3, <3>2, <4>1, <4>4 DEF InFlags
        <3>4. CASE N = 2
            <4>1. FlagBit(N)' = 0
                BY <2>2, <3>4 DEF FlagBit
            <4>2. pos' = N + 1 /\ 0 # 1 /\ 0 # 2 /\ ~(0 > 2)
                BY <2>2, <3>4
            <4>3. AtFlagBit(0, pos = N + 1)'
                BY <2>3, <4>2, Zenon DEF AtFlagBit
            <4> QED
                BY <2>3, <3>2, <4>1, <4>3 DEF InFlags
        <3> QED
            BY <3>1, <3>3, <3>4
    <2> QED
        BY <1>5, <2>4, <2>5
<1>10. P % 8 = 0 \/ Len(hdlc') < P + at[n + 5] + 3
    <2>1. P % 8 = 0 \/ sent.damage = "cut"
        BY <1>3 DEF Framed
    <2>2. sent.damage = "cut" => Len(hdlc') < P + at[n + 5] + 3
        BY <1>3 DEF Framed
    <2> QED
        BY <2>1, <2>2
<1>9. Unstuffing(N, P, v, run, at, n + 5)'
    BY <1>4, <1>7, <1>8, <1>10 DEF Unstuffing
<1> QED
    BY <1>1, <1>3, <1>9 DEF InLine

\* The invariant is inductive: the packet whole, on the line or judged.
LEMMA FramingNext ==
    ASSUME FramingInv, [Next]_vars PROVE FramingInv'
<1>9. CrcFails(sent.crc, sent.frame) <=> sent.turned
    BY DEF FramingInv
<1>10. sent' = sent
    BY DEF Next, Unframed, Nrz, Skip, Bit, StuffedZero, SevenOnes, OpeningFlag, ClosingFlag, LineEnds, Check, vars
<1>11. CASE ~Covered
    BY <1>9, <1>10, <1>11 DEF FramingInv, Covered
<1>12. SUFFICES ASSUME Covered PROVE FramingInv'
    BY <1>11
<1>1. /\ CrcFails(sent.crc, sent.frame) <=> sent.turned
      /\ stage = "received" => Arrived
      /\ stage = "unstuff" => InLine
      /\ stage = "check" => Checked(sent.crc, sent.frame, sent.damage, data)
      /\ stage = "done" => Judged
    BY <1>9, <1>12 DEF FramingInv
<1>2. CASE Unframed
    <2>1. /\ stage = "received" /\ sent.framing \in {0, 2} /\ stage' = "check" /\ sent' = sent
          /\ data' = Unframe(sent.framing, data)
        BY <1>2 DEF Unframed, Unframe
    <2>2. Checked(sent.crc, sent.frame, sent.damage, data)'
        BY <1>1, <2>1 DEF Arrived
    <2> QED
        BY <1>1, <2>1, <2>2 DEF FramingInv
<1>3. CASE Nrz
    <2>1. stage = "received" /\ stage' = "unstuff" /\ sent' = sent
        BY <1>3 DEF Nrz
    <2>2. InLine'
        BY <1>1, <1>3, <2>1, NrzBegins
    <2> QED
        BY <1>1, <2>1, <2>2 DEF FramingInv
<1>4. CASE Pass
    <2>1. stage = "unstuff"
        BY <1>4 DEF Pass, Skip, Bit, StuffedZero, SevenOnes, OpeningFlag, FlagSeen, FifthOne, Reading
    <2>2. PICK N, P, v, run, at, n :
            Framed(hdlc, sent.frame, sent.damage, N, P, v, run, at, n) /\ Unstuffing(N, P, v, run, at, n + 5)
        BY <1>1, <2>1 DEF InLine
    <2>3. Unstuffing(N, P, v, run, at, n + 5)' /\ hdlc' = hdlc /\ sent' = sent /\ stage' = "unstuff"
        BY <1>4, <2>2, UnstuffKept
    <2>4. InLine'
        BY <2>2, <2>3 DEF InLine
    <2> QED
        BY <1>1, <2>3, <2>4 DEF FramingInv
<1>5. CASE ClosingFlag
    <2>1. stage = "unstuff" /\ stage' = "check" /\ sent' = sent
        BY <1>5 DEF ClosingFlag, FlagSeen, FifthOne, Reading
    <2>2. Checked(sent.crc, sent.frame, sent.damage, data)'
        BY <1>1, <1>5, <2>1, FrameFound
    <2> QED
        BY <1>1, <2>1, <2>2 DEF FramingInv
<1>6. CASE LineEnds
    <2>1. stage = "unstuff" /\ stage' = "done" /\ sent' = sent /\ verdict' = "frame_error"
        BY <1>6 DEF LineEnds
    <2>2. sent.damage # "none" /\ sent.damage # "burst"
        BY <1>1, <1>6, <2>1, LineWasCut
    <2>3. Judged'
        BY <2>1, <2>2 DEF Judged
    <2> QED
        BY <1>1, <2>1, <2>3 DEF FramingInv
<1>7. CASE Check
    <2>1. /\ stage = "check" /\ stage' = "done" /\ sent' = sent /\ data' = data
          /\ verdict' = IF CrcFails(sent.crc, data) THEN "sw_crc_fail" ELSE "ok"
        BY <1>7 DEF Check
    <2>2. Judged'
        BY <1>1, <2>1 DEF Judged, Checked
    <2> QED
        BY <1>1, <2>1, <2>2 DEF FramingInv
<1>8. CASE UNCHANGED vars
    <2>1. /\ sent' = sent /\ data' = data /\ hdlc' = hdlc /\ stage' = stage /\ verdict' = verdict
          /\ pos' = pos /\ last' = last /\ this' = this /\ ones' = ones /\ part' = part
          /\ out' = out /\ store' = store /\ resync' = resync /\ skip' = skip
        BY <1>8 DEF vars, scan
    <2>2. Arrived' = Arrived /\ InLine' = InLine /\ Judged' = Judged
        BY <2>1 DEF Arrived, InLine, Judged, Unstuffing, Scanned, InNoise, InFlags, AtFlagBit, FlagBit, InsideFlag,
                    Settled, Opened, InFrame, AtBit, Found
    <2> QED
        BY <1>1, <2>1, <2>2 DEF FramingInv
<1> QED
    BY <1>2, <1>3, <1>4, <1>5, <1>6, <1>7, <1>8 DEF Next, Pass

(* For every packet, polynomial and burst: a packet that has arrived is what *)
(* its damage left of what was sent, the unstuffer is in the noise, among    *)
(* the flags, that far in the frame or, out of step, where it sees no flag,  *)
(* and what has been judged was judged right.                                *)
THEOREM FramingInvariant == Spec => []FramingInv
<1>1. Init => FramingInv
    BY FramingInit
<1>2. FramingInv /\ [Next]_vars => FramingInv'
    BY FramingNext
<1> QED
    BY <1>1, <1>2, PTL DEF Spec

(* Whatever framing, CRC, noise and scrambler content a satellite uses and *)
(* whatever whole bytes it sends, an undamaged packet whose flags end with *)
(* a byte is decoded as it was sent (bitcode.h:22-45), and the software    *)
(* CRC takes it if and only if refout does not turn its CRC round.         *)
THEOREM SentReceived == Spec => []SentIsReceived
<1>1. FramingInv => SentIsReceived
    BY DEF FramingInv, Covered, Judged, SentIsReceived
<1> QED
    BY <1>1, FramingInvariant, PTL

(* A frame of which at least the last byte is missing is never published,  *)
(* wherever it is cut and wherever in a byte its flags begin, so that bits *)
(* behind a flag are dropped (bitcode.h:33, bitcode.c:150).                *)
THEOREM CutRejected == Spec => []CutIsFrameError
<1>1. FramingInv => CutIsFrameError
    BY DEF FramingInv, Covered, Judged, CutIsFrameError
<1> QED
    BY <1>1, FramingInvariant, PTL

(* In a raw or PN9 packet no burst as short as the CRC passes it, for any  *)
(* polynomial that ends in 1, any initial register, final xor and order of *)
(* the bits of a byte, but for refout (main.cpp:3525-3584).                *)
THEOREM BurstCaught == Spec => []BurstIsCaught
<1>1. FramingInv => BurstIsCaught
    BY DEF FramingInv, Covered, Judged, BurstIsCaught
<1> QED
    BY <1>1, FramingInvariant, PTL
=============================================================================
