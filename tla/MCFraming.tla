------------------------------ MODULE MCFraming ------------------------------
(* Satellites for TLC: bytes that need stuffing inside, across and at the   *)
(* end of them; CRC-16 in all bit orders, CRC-8 and none; flags in step with *)
(* the bytes of the packet and out of step.                                 *)
EXTENDS Framing

Byte(n) == [i \in 1..8 |-> (n \div 2^(8 - i)) % 2]
TwoBytes(n) == Byte(n \div 256) \o Byte(n % 256)

\* The first byte of an AX.25 address is even, so a frame begins with a 0 bit.
\* Reflected leaves 1111001111001111 of the payload that ends in 0 and 33.
Address == Byte(130) \o Byte(254) \o Byte(0) \o Byte(64) \o Byte(255) \o Byte(255) \o Byte(96)
           \o Byte(126) \o Byte(62) \o Byte(31) \o Byte(248) \o Byte(3) \o Byte(240)
Payloads == {Address \o Byte(31) \o Byte(a) \o Byte(b) : a \in {0, 252}, b \in {33, 126, 248, 254}}

Ccitt == [bytes |-> 2, poly |-> TwoBytes(4129), init |-> Ones(16), xor |-> Zeros(16), refin |-> FALSE, refout |-> FALSE]
\* SAMSAT's plan (docs/TINYGS_MQTT_PROTOCOL.md:349).
Reflected == [Ccitt EXCEPT !.refin = TRUE, !.refout = TRUE]
Crcs == {
    [Ccitt EXCEPT !.bytes = 0], Ccitt,
    [Ccitt EXCEPT !.xor = Ones(16), !.refin = TRUE],
    [Ccitt EXCEPT !.xor = TwoBytes(258), !.refout = TRUE],
    Reflected, [Reflected EXCEPT !.xor = Ones(16)],
    [bytes |-> 1, poly |-> Byte(7), init |-> Zeros(8), xor |-> Byte(85), refin |-> FALSE, refout |-> FALSE]}

\* Flags after flags, ones, half a frame and a 0 with six 1s, which makes a flag
\* with the 0 of the next; then flags that begin inside a byte, alone and in pairs.
Preambles == {
    Flag \o Flag \o Flag \o Flag,
    Ones(16) \o Flag \o Flag \o Flag \o Flag,
    Flag \o Flag \o Byte(129) \o Byte(248) \o Flag \o Flag \o Flag \o Flag,
    Flag \o Byte(129) \o Byte(63) \o Flag,
    Flag \o Byte(248) \o <<0, 1, 0>> \o Flag,
    Ones(22) \o Flag \o Flag,
    Flag \o Flag \o <<0, 1, 0, 1, 1, 1, 1, 1>> \o <<1>> \o Flag \o Flag}

Contents == {Zeros(17), Ones(17), [i \in 1..17 |-> IF i % 3 = 1 THEN 1 ELSE 0]}
Frames == [fr : {1, 3}, crc : {[Ccitt EXCEPT !.bytes = 0], Reflected}, payload : Payloads,
           preamble : Preambles, content : Contents]
Raws == [fr : {0, 2}, crc : Crcs, payload : Payloads, preamble : {<<>>}, content : {Zeros(17)}]
PacketsDef == Frames \cup Raws

\* One bit, two, or seven from end to end: at the front of packets of 17 and of
\* 18 bytes, where the payload meets the CRC, and in the CRC.
BurstsDef == {{from - d : d \in spread} :
                from \in {143, 138, 135, 130, 18, 14, 6}, spread \in {{0}, {0, 1}, {0, 3, 5, 6}}}
CutsDef == {1, 2, 9}
=============================================================================
