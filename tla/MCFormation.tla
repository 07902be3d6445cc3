---------------------------- MODULE MCFormation ----------------------------
EXTENDS Formation
=============================================================================
