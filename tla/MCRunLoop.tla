----------------------------- MODULE MCRunLoop -----------------------------
(* Instances of RunLoop for TLC. *)
EXTENDS RunLoop

MCDelays == {0, 1}

=============================================================================
