------------------------- MODULE MCTargetEnrollment -------------------------
EXTENDS TargetEnrollment
=============================================================================
