---------------------------- MODULE MCL2capErtm ----------------------------
(* The instance of L2capErtm for TLC.  The two devices run the same code   *)
(* and start in the same state, and no property tells them apart.          *)
EXTENDS L2capErtm

Symmetry == Permutations(Sides)

=============================================================================
