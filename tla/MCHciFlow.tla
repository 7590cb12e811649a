----------------------------- MODULE MCHciFlow -----------------------------
(* Instances of HciFlow for TLC. *)
EXTENDS HciFlow

=============================================================================
