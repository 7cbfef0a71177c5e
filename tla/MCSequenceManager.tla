------------------------- MODULE MCSequenceManager -------------------------
EXTENDS SequenceManager
=============================================================================
