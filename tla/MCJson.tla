------------------------------- MODULE MCJson -------------------------------
EXTENDS Json
=============================================================================
