------------------------------ MODULE MCAsyncFs ------------------------------
(* Values of the constants of AsyncFs for TLC. *)
EXTENDS AsyncFs

CONSTANTS c1, c2, s1, s2, g1, g2

TwoClients == {c1, c2}
TwoThreads == {s1, s2}
TwoGroups == {g1, g2}
=============================================================================
