------------------------------ MODULE MCSpine ------------------------------
(* Instances of the payment spine for TLC. *)
EXTENDS SpineRefinement
=============================================================================
