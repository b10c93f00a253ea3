------------------------------ MODULE MCShell ------------------------------
(* An instance of Shell for TLC.                                            *)
EXTENDS Shell

CONSTANTS b1, b2

TwoBackends == {b1, b2}
=============================================================================
