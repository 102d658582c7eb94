---------------------------- MODULE MCHostStream ----------------------------
(* HostStream on small sets of sessions, launches and handler threads,      *)
(* which are all interchangeable.                                           *)
EXTENDS HostStream_proofs, TLC

Symmetry == Permutations(Session) \cup Permutations(Launch)
            \cup Permutations(Handler) \cup Permutations(Stream)
=============================================================================
