------------------------------- MODULE Framing -------------------------------
(***************************************************************************)
(* What a received FSK packet goes through before it is published: the     *)
(* framing a plan asks for is undone (src/bitcode.c: NRZ-S, the x^17+x^12  *)
(* scrambler, HDLC flags and bit stuffing, PN9) and the software CRC is    *)
(* compared (src/main.cpp:3465-3584).                                      *)
(*                                                                         *)
(* A packet is the sequence of its bits, each byte's highest bit first.    *)
(* The satellite is the reference: it codes a payload as the standards     *)
(* define the codes, with arithmetic of its own, and the packet may be cut *)
(* off or hit by a burst on its way.  The unstuffer is the loop of         *)
(* remove_bit_stuffing, one step per bit; the rest of the decoding is done *)
(* in one step.  The chip gives no packet that the decoder's buffers, of   *)
(* 512 bytes with the sync word in front, could not hold: their checks are *)
(* left out.                                                               *)
(***************************************************************************)
EXTENDS Naturals, Sequences, FiniteSets, FiniteSetsExt, SequencesExt

CONSTANTS
    Packets,    \* what satellites send, as records (IsPacket) of
                \*   fr        framing: 0 raw, 1 NRZ-S, 2 PN9, 3 scrambled NRZ-S
                \*   crc       the software CRC: width in bytes, polynomial, ...
                \*   payload   whole bytes
                \*   preamble  what precedes the frame: noise, then flags
                \*   content   of the satellite's scrambler at the start
    Bursts,     \* errors on the air: the bits they flip, as distances from the last
    Cuts        \* how many bytes are missing of a packet that is cut off

MinFrame == 16      \* bytes of the shortest AX.25 frame
MaxFrame == 256     \* sizeof(ax25), of lora_check_rx

VARIABLES
    sent,           \* framing, CRC, frame and damage of the packet, whether its
                    \* flags are in step and whether its CRC is turned round
    data,           \* the packet in lora_check_rx
    hdlc,           \* the line remove_bit_stuffing reads
    stage,          \* "received", "unstuff", "check", "done"
    pos,            \* the bit it reads next (i and j)
    last, this,     \* bit2 and bit3: the two bits read before
    ones, part,     \* ones; the bits of byte_out, 8 - k of them
    out, store,     \* the bytes stored, as bits; whether it stores
    resync, skip,
    verdict         \* "none", "ok", "frame_error", "sw_crc_fail"

scan == <<pos, last, this, ones, part, out, store, resync, skip>>
vars == <<sent, data, hdlc, stage, scan, verdict>>

Bits == {0, 1}
Word(n) == [1..n -> Bits]
Whole(s) == s \in Seq(Bits) /\ Len(s) % 8 = 0

Xor(a, b) == (a + b) % 2
Plus(s, t) == [i \in DOMAIN s |-> Xor(s[i], t[i])]
Zeros(n) == [i \in 1..n |-> 0]
Ones(n) == [i \in 1..n |-> 1]

\* n passes of a loop; g[k] is what the k-th of them computes.
Iterated(g, start, n) ==
    LET p[k \in 0..n] == IF k = 0 THEN start ELSE g[k][p[k - 1]]
    IN  p[n]

-----------------------------------------------------------------------------
(* The receiver's codes.                                                   *)

\* bitcode_reverse_byte on every byte: where a bit comes from.
Mirror(i) == 8 * ((i - 1) \div 8) + 8 - ((i - 1) % 8)
ReverseBytes(s) == [i \in DOMAIN s |-> s[Mirror(i)]]

\* nrz2nrzi: a bit is 1 where the level does not change; the first level is 0.
Nrzi(s) == [i \in DOMAIN s |-> IF s[i] = (IF i = 1 THEN 0 ELSE s[i - 1]) THEN 1 ELSE 0]

\* descram1712: bit n of lfsr is the input n bits ago, 0 before the first.
Descrambled(s) ==
    LET Ago(i, n) == IF i > n THEN s[i - n] ELSE 0
    IN  [i \in DOMAIN s |-> Xor(s[i], Xor(Ago(i, 12), Ago(i, 17)))]

\* bitcode_pn9: the register, bit 1 of it first, is shifted eight times a byte.
Pn9Shift(r) == Append(Tail(r), Xor(r[1], r[6]))
Pn9Key(b) == Iterated([k \in 1..(8 * b) |-> [r \in Word(9) |-> Pn9Shift(r)]], Ones(9), 8 * b)
Pn9(s) ==
    LET key == [b \in 0..(Len(s) \div 8 - 1) |-> Pn9Key(b)]
    IN  [i \in DOMAIN s |-> Xor(s[i], key[(i - 1) \div 8][8 - ((i - 1) % 8)])]

\* One of the eight shifts of the software CRC.
CrcShift(poly, reg) ==
    LET moved == Append(Tail(reg), 0)
    IN  IF reg[1] = 1 THEN Plus(moved, poly) ELSE moved

CrcByte(crc, reg, byte) ==
    Iterated([k \in 1..8 |-> [r \in Word(8 * crc.bytes) |-> CrcShift(crc.poly, r)]],
             Plus(reg, byte \o Zeros(8 * crc.bytes - 8)), 8)

\* The order in which a CRC takes bits; refin: the lowest of a byte comes first.
Ordered(crc, s) == IF crc.refin THEN ReverseBytes(s) ELSE s

\* The software CRC of the bytes before it, in a register of its width.
CrcOf(crc, s) ==
    LET bits == Ordered(crc, s)
        pass == [b \in 1..(Len(s) \div 8) |-> [r \in Word(8 * crc.bytes) |->
                   CrcByte(crc, r, SubSeq(bits, 8 * b - 7, 8 * b))]]
        xored == Plus(Iterated(pass, crc.init, Len(s) \div 8), crc.xor)
    IN  IF crc.refout THEN Reverse(xored) ELSE xored

\* Mutant: of two bytes only the last is compared.
CrcFails_LastByte(crc, s) ==
    LET cut == Len(s) - 8 * crc.bytes
        calc == CrcOf(crc, SubSeq(s, 1, cut))
        tail == SubSeq(s, cut + 1, Len(s))
    IN  /\ crc.bytes > 0 /\ cut > 0
        /\ SubSeq(calc, Len(calc) - 7, Len(calc)) #
           SubSeq(Ordered(crc, tail), Len(tail) - 7, Len(tail))

\* The tail of the packet is compared with it, its bytes reversed for refin.
CrcFails(crc, s) ==
    LET cut == Len(s) - 8 * crc.bytes
        tail == SubSeq(s, cut + 1, Len(s))
    IN  /\ crc.bytes > 0 /\ cut > 0
        /\ CrcOf(crc, SubSeq(s, 1, cut)) # Ordered(crc, tail)

-----------------------------------------------------------------------------
(* The satellite, as the standards have it.  A frame begins with a 0 bit,  *)
(* as AX.25 addresses do: the decoder's `ones` is 5 after a flag, so it    *)
(* would take a stuffed 0 after five leading 1s for data.                  *)

\* Long division: the divisor is taken off where bit i of the dividend is 1.
Subtracted(poly, d, i) ==
    [j \in DOMAIN d |->
       IF d[i] = 1 /\ j \in i..(i + Len(poly))
       THEN Xor(d[j], IF j = i THEN 1 ELSE poly[j - i]) ELSE d[j]]

\* The message, followed by zeros, is divided; the register's first content
\* flips the leading bits.
Remainder(crc, message) ==
    LET w == 8 * crc.bytes
        n == Len(message)
        pass == [i \in 1..n |-> [d \in Word(n + w) |-> Subtracted(crc.poly, d, i)]]
    IN  SubSeq(Iterated(pass, Plus(message \o Zeros(w), crc.init \o Zeros(n)), n), n + 1, n + w)

\* The payload and its CRC.  That goes out as it stands in the register, which makes
\* it the low byte first where both are reflected (X.25).  refout is the way its
\* value is written down, which the final xor of the catalogues is applied to.
WithCrc(crc, payload) ==
    IF crc.bytes = 0 THEN payload
    ELSE LET field == Plus(Remainder(crc, Ordered(crc, payload)),
                           IF crc.refout THEN Reverse(crc.xor) ELSE crc.xor)
         IN  payload \o Ordered(crc, field)

\* refout turns the register round in the receiver, which does not turn the tail.
IsTurned(crc, payload) ==
    /\ crc.bytes > 0 /\ crc.refout
    /\ LET rem == Remainder(crc, Ordered(crc, payload)) IN rem # Reverse(rem)

\* The PN9 sequence: x^9 + x^5 + 1 from all ones, lowest bit of a byte first.
Pn9Sequence(length) ==
    Iterated([n \in 1..length |-> [c \in Word(n - 1) |->
                Append(c, IF n <= 9 THEN 1 ELSE Xor(c[n - 9], c[n - 4]))]],
             <<>>, length)
Whitened(s) ==
    LET c == Pn9Sequence(Len(s)) IN [i \in DOMAIN s |-> Xor(s[i], c[Mirror(i)])]

Flag == <<0, 1, 1, 1, 1, 1, 1, 0>>

\* A 0 after every five 1s of a run of them.
Run(s, i) == i - Max({0} \cup {j \in 1..i : s[j] = 0})
Fifth(s, i) == s[i] = 1 /\ Run(s, i) % 5 = 0
Stuffed(s) ==
    Iterated([i \in 1..Len(s) |-> [t \in Seq(Bits) |->
                t \o (IF Fifth(s, i) THEN <<1, 0>> ELSE <<s[i]>>)]],
             <<>>, Len(s))

\* Preamble, frame and closing flag, padded to whole bytes.
Line(preamble, frame) ==
    LET bits == preamble \o Stuffed(ReverseBytes(frame)) \o Flag
    IN  bits \o Zeros((8 - (Len(bits) % 8)) % 8)

\* NRZ-S: a 0 changes the level.
Levels(s, level) ==
    [i \in DOMAIN s |-> (level + Cardinality({j \in 1..i : s[j] = 0})) % 2]

\* x^17 + x^12: what was sent 12 and 17 bits ago is added.
Scrambled(s, content) ==
    SubSeq(Iterated([i \in 1..Len(s) |-> [c \in Word(i + 16) |->
                       Append(c, Xor(s[i], Xor(c[i + 5], c[i])))]],
                    content, Len(s)),
           18, Len(s) + 17)

OnAir(fr, preamble, frame, content) ==
    CASE fr = 0 -> frame
      [] fr = 2 -> Whitened(frame)
      [] fr = 1 -> Levels(Line(preamble, frame), content[1])
      [] fr = 3 -> Scrambled(Levels(Line(preamble, frame), content[1]), content)

\* A burst flips bits that lie, in the order in which the CRC takes them, no
\* farther apart than it is wide.
Place(crc, i) == IF crc.refin THEN Mirror(i) ELSE i
IsBurst(crc, n, hit) ==
    /\ hit # {}
    /\ \E from \in 1..n : \A i \in hit : Place(crc, i) \in from..(from + 8 * crc.bytes - 1)

Flipped(s, hit) == [i \in DOMAIN s |-> IF i \in hit THEN 1 - s[i] ELSE s[i]]

\* The closing flag ends in the last byte: without it the frame is not closed.
Undamaged(air) == data = air
CutOff(air) ==
    \E c \in Cuts : c < Len(air) \div 8 /\ data = SubSeq(air, 1, Len(air) - 8 * c)
Burst(crc, air) ==
    \E b \in Bursts :
       LET hit == {i \in DOMAIN air : Len(air) - i \in b}
       IN  IsBurst(crc, Len(air), hit) /\ data = Flipped(air, hit)

-----------------------------------------------------------------------------
(* What satellites send.  Flags follow noise that, with two of them, is     *)
(* shorter than a frame.  The first level of the line and the descrambler,  *)
(* which needs 17 bits to settle, spoil no more than noise.                 *)
IsCrc(crc) ==
    /\ {crc.poly, crc.init, crc.xor} \subseteq Word(8 * crc.bytes)
    /\ crc.poly[8 * crc.bytes] = 1
    /\ {crc.refin, crc.refout} \subseteq BOOLEAN

IsPreamble(pre, spoilt) ==
    /\ pre \in Seq(Bits)
    /\ \E noise \in spoilt..(8 * (MinFrame - 2)) :
         /\ noise < Len(pre) /\ (Len(pre) - noise) % 8 = 0
         /\ \A i \in (noise + 1)..Len(pre) : pre[i] = Flag[((i - noise - 1) % 8) + 1]

\* The frame begins with a byte of the packet: its flags end with one.  At a flag
\* the unstuffer goes on with the next byte (j = 0) and drops what it has not read.
InStep(p) == p.fr \in {1, 3} => Len(p.preamble) % 8 = 0

IsPacket(p) ==
    /\ p.fr \in 0..3 /\ p.content \in Word(17)
    /\ Whole(p.payload) /\ Len(p.payload) > 0
    /\ p.crc.bytes \in 0..2 /\ (p.crc.bytes > 0 => IsCrc(p.crc))
    /\ p.fr \in {1, 3} =>
         /\ Len(p.payload) \div 8 + p.crc.bytes \in MinFrame..MaxFrame
         /\ p.payload[8] = 0
         /\ IsPreamble(p.preamble, IF p.fr = 1 THEN 1 ELSE 18)

ASSUME FramingAssumption == (\A p \in Packets : IsPacket(p)) /\ Cuts \subseteq Nat \ {0}

-----------------------------------------------------------------------------
Init ==
    /\ \E p \in Packets :
         LET fr == p.fr
             crc == p.crc
             frame == WithCrc(crc, p.payload)
             air == OnAir(fr, p.preamble, frame, p.content)
         IN  \E damage \in {"none", "cut", "burst"} :
               /\ sent = [framing |-> fr, crc |-> crc, frame |-> frame, damage |-> damage,
                          inStep |-> InStep(p), turned |-> IsTurned(crc, p.payload)]
               /\ \/ damage = "none" /\ Undamaged(air)
                  \/ damage = "cut" /\ fr \in {1, 3} /\ CutOff(air)
                  \/ damage = "burst" /\ fr \in {0, 2} /\ crc.bytes > 0 /\ Burst(crc, air)
    /\ hdlc = <<>> /\ stage = "received" /\ verdict = "none"
    /\ pos = 3 /\ last = 0 /\ this = 0
    /\ ones = 0 /\ part = <<>> /\ out = <<>> /\ store = FALSE
    /\ resync = 0 /\ skip = FALSE

-----------------------------------------------------------------------------
Unframed ==
    /\ stage = "received" /\ sent.framing \in {0, 2}
    /\ data' = IF sent.framing = 2 THEN Pn9(data) ELSE data
    /\ stage' = "check"
    /\ UNCHANGED <<sent, hdlc, scan, verdict>>

\* bitcode_nrz2ax25 up to remove_bit_stuffing: the line code is undone.
\* Less than 16 bytes it refuses at once; they cannot hold a frame anyway.
Nrz ==
    /\ stage = "received" /\ sent.framing \in {1, 3}
    /\ LET line == Nrzi(IF sent.framing = 3 THEN Descrambled(data) ELSE data)
       IN  hdlc' = line /\ last' = line[1] /\ this' = line[2]
    /\ stage' = "unstuff"
    /\ UNCHANGED <<sent, data, pos, ones, part, out, store, resync, skip, verdict>>

Reading == stage = "unstuff" /\ pos <= Len(hdlc)

Read == last' = this /\ this' = hdlc[pos]
NextBit == pos' = pos + 1
NextByte == pos' = 8 * ((pos - 1) \div 8) + 9      \* j = 0

\* byte_out takes a bit and is stored when it is full.  The 512 bytes of inverted
\* are cut down to those of ax25 when they are copied.
Taken(bit) ==
    LET byte == Append(part, bit)
    IN  IF Len(byte) < 8 THEN [part |-> byte, out |-> out]
        ELSE [part |-> <<>>, out |-> IF store /\ Len(out) < 8 * MaxFrame THEN out \o byte ELSE out]

\* Mutant: the two bits of the flag that are left are not skipped.
Resync_None == 0
Resync == 2

Skip ==
    /\ Reading /\ (resync > 0 \/ skip)
    /\ resync' = IF resync > 0 THEN resync - 1 ELSE 0
    /\ skip' = FALSE
    /\ Read /\ NextBit
    /\ UNCHANGED <<sent, data, hdlc, stage, ones, part, out, store, verdict>>

Bit ==
    /\ Reading /\ resync = 0 /\ ~skip
    /\ last = 0 \/ ones # 4
    /\ part' = Taken(last).part /\ out' = Taken(last).out
    /\ ones' = IF last = 0 THEN 0 ELSE ones + 1
    /\ Read /\ NextBit
    /\ UNCHANGED <<sent, data, hdlc, stage, store, resync, skip, verdict>>

\* The fifth 1, and `this` the sixth bit: a stuffed 0, a flag, or seven 1s.
FifthOne == Reading /\ resync = 0 /\ ~skip /\ last = 1 /\ ones = 4

StuffedZero ==
    /\ FifthOne /\ this = 0
    /\ part' = Taken(1).part /\ out' = Taken(1).out
    /\ ones' = 0 /\ skip' = TRUE
    /\ Read /\ NextBit
    /\ UNCHANGED <<sent, data, hdlc, stage, store, resync, verdict>>

SevenOnes ==
    /\ FifthOne /\ this = 1 /\ hdlc[pos] = 1
    /\ part' = Taken(1).part /\ out' = Taken(1).out
    /\ ones' = 5
    /\ Read /\ NextByte
    /\ UNCHANGED <<sent, data, hdlc, stage, store, resync, skip, verdict>>

FlagSeen == FifthOne /\ this = 1 /\ hdlc[pos] = 0

\* k = 2: the flag's first six bits are all there is of a byte.
IsClosing == Len(Taken(1).out) >= 8 * MinFrame /\ Len(Taken(1).part) = 6

OpeningFlag ==
    /\ FlagSeen /\ ~IsClosing
    /\ store' = TRUE
    /\ out' = <<>> /\ part' = <<>>
    /\ ones' = 5 /\ resync' = Resync
    /\ Read /\ NextByte
    /\ UNCHANGED <<sent, data, hdlc, stage, skip, verdict>>

\* The frame replaces the packet, the bits of its bytes turned round.
ClosingFlag ==
    /\ FlagSeen /\ IsClosing
    /\ data' = ReverseBytes(Taken(1).out)
    /\ stage' = "check"
    /\ UNCHANGED <<sent, hdlc, scan, verdict>>

\* Mutant: the bytes found so far are taken for a frame.
LineEnds_Accepts ==
    /\ stage = "unstuff" /\ pos > Len(hdlc)
    /\ data' = ReverseBytes(out)
    /\ stage' = "check"
    /\ UNCHANGED <<sent, hdlc, scan, verdict>>

LineEnds ==
    /\ stage = "unstuff" /\ pos > Len(hdlc)
    /\ verdict' = "frame_error" /\ stage' = "done"
    /\ UNCHANGED <<sent, data, hdlc, scan>>

Check ==
    /\ stage = "check"
    /\ verdict' = IF CrcFails(sent.crc, data) THEN "sw_crc_fail" ELSE "ok"
    /\ stage' = "done"
    /\ UNCHANGED <<sent, data, hdlc, scan>>

Next ==
    \/ Unframed \/ Nrz
    \/ Skip \/ Bit \/ StuffedZero \/ SevenOnes \/ OpeningFlag \/ ClosingFlag \/ LineEnds
    \/ Check

Spec == Init /\ [][Next]_vars /\ WF_vars(Next)

-----------------------------------------------------------------------------
(* The two decoders of bitcode.h:22-45 and the CRC undo what the satellite *)
(* did: what it sent is published, whatever the scrambler and the line held *)
(* before it, if its flags end with a byte of the packet.  A plan with      *)
(* refout is the exception: a CRC that reads differently backwards fails,   *)
(* and "Error_CRC" is published of a packet that arrived as it was sent     *)
(* (main.cpp:3548-3575).                                                   *)
SentIsReceived ==
    stage = "done" /\ sent.damage = "none" /\ sent.inStep =>
        data = sent.frame /\ verdict = IF sent.turned THEN "sw_crc_fail" ELSE "ok"

(* bitcode.h:33, "1 on frame error": a frame without its closing flag is    *)
(* never published, however many of its bytes have come, in step or not.    *)
CutIsFrameError ==
    stage = "done" /\ sent.damage = "cut" => verdict = "frame_error"

(* main.cpp:3525-3584: in a raw or PN9 packet a burst no longer than the    *)
(* CRC, in the order of its bits, never gets through, not even one that     *)
(* hits the CRC itself; with refout nothing is compared that a CRC is for.  *)
(* A burst in an HDLC frame may move its flags and stuffing: not covered.   *)
BurstIsCaught ==
    stage = "done" /\ sent.damage = "burst" /\ ~sent.crc.refout => verdict = "sw_crc_fail"
=============================================================================
