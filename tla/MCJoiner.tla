------------------------------ MODULE MCJoiner ------------------------------
EXTENDS Joiner
=============================================================================
