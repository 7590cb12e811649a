----------------------------- MODULE MCL2capCbm -----------------------------
(* The instance of L2capCbm for TLC: the initiator uses automatic credits, *)
(* the acceptor automatic credits or none to begin with.                   *)
EXTENDS L2capCbm

MCInitialCredits == [x \in Sides |-> IF x = A THEN {3} ELSE {0, 3}]

=============================================================================
