---------------------------- MODULE MCDnetProber ----------------------------
EXTENDS DnetProber
=============================================================================
