--------------------------- MODULE MCHostLifetime ---------------------------
(* HostLifetime for TLC: two sessions and two processes, the service's and *)
(* one of the user's.                                                      *)
EXTENDS HostLifetime_proofs

CONSTANTS s1, s2, v1, v2
=============================================================================
