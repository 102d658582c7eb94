--------------------------- MODULE MCViewerSession ---------------------------
(* ViewerSession for TLC. *)
EXTENDS ViewerSession_proofs, TLC

\* No operator singles a host out, so permuting them is sound for safety.
HostSymmetry == Permutations(Hosts)
=============================================================================
