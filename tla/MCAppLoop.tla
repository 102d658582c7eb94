------------------------------ MODULE MCAppLoop ------------------------------
(* AppLoop for model checking: one machine, and an address of spaces.       *)
EXTENDS AppLoop
=============================================================================
