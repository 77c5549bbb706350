\* 16-byte addresses and more, as the decoder demands; see MCFraming.
CONSTANTS
    Packets <- PacketsDef
    Bursts <- BurstsDef
    Cuts <- CutsDef
SPECIFICATION Spec
INVARIANTS SentIsReceived CutIsFrameError BurstIsCaught
CHECK_DEADLOCK FALSE
