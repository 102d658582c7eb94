--------------------------- MODULE MCPresenceCache ---------------------------
(* PresenceCache for TLC, with the invariant of the proofs. *)
EXTENDS PresenceCache_proofs
=============================================================================
