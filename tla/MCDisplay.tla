----------------------------- MODULE MCDisplay -----------------------------
EXTENDS Display
MCTimeouts == {3, 5}
=============================================================================
