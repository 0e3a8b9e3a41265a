----------------------------- MODULE MCSpotLess -----------------------------
EXTENDS SpotLessInv
=============================================================================
