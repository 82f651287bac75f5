---------------------------- MODULE MCSimulator ----------------------------
(* Simulator with two key pairs and three starts of the process.            *)
EXTENDS Simulator

CONSTANTS k1, k2

MCKeys == {k1, k2}
=============================================================================
