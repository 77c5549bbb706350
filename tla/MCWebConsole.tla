---------------------------- MODULE MCWebConsole ----------------------------
EXTENDS WebConsole
MCLengths == {1, 3}
=============================================================================
