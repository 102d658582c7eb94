---------------------------- MODULE MCHostPairing ----------------------------
(* HostPairing for model checking.                                          *)
EXTENDS HostPairing, TLC

\* Viewers are interchangeable in the safety run.
Viewers == Permutations(Clients)
=============================================================================
