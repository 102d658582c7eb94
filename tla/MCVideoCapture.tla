--------------------------- MODULE MCVideoCapture ---------------------------
(* VideoCapture for TLC: two streams that share the capture thread, and as  *)
(* many identities of displays as can be held at one time.                  *)
EXTENDS VideoCapture_proofs

CONSTANTS s1, s2
=============================================================================
