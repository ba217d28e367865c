--------------------------- MODULE MCTargetConfig ---------------------------
EXTENDS TargetConfig
=============================================================================
