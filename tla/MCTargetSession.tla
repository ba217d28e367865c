--------------------------- MODULE MCTargetSession ---------------------------
EXTENDS TargetSession
=============================================================================
