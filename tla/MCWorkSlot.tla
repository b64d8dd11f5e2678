----------------------------- MODULE MCWorkSlot -----------------------------
EXTENDS WorkSlot
=============================================================================
