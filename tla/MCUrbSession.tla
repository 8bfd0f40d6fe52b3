---------------------------- MODULE MCUrbSession ----------------------------
\* Instances of UrbSession for TLC.  The endpoints are alike.
EXTENDS UrbSession, TLC

Endpoints == Permutations(Endpoint)
=============================================================================
