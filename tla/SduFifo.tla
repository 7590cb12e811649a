------------------------------ MODULE SduFifo ------------------------------
(***************************************************************************)
(* What an L2CAP channel that segments its data promises to the            *)
(* applications at its two ends: the SDUs of either side reach the other   *)
(* one whole, once and in order, and an open channel is closed only after  *)
(* somebody asked for it.                                                  *)
(***************************************************************************)
EXTENDS SequencesExt, Naturals

CONSTANTS Sides,    \* the two ends
          Sdu       \* data units, with different contents

VARIABLES
    phase,      \* of each end: "new", "open" or "closed"
    submitted,  \* SDUs each end has accepted from its application
    delivered,  \* those the other end has passed on
    asked       \* somebody asked for the channel to be closed

fifo == << phase, submitted, delivered, asked >>

\* A channel that is still to be opened, or that is open at both ends
FifoInit ==
    /\ \E p \in {"new", "open"} : phase = [x \in Sides |-> p]
    /\ submitted = [x \in Sides |-> << >>] /\ delivered = submitted
    /\ asked = FALSE

\* An end opens, or is refused.
Establish(x, p) ==
    /\ phase[x] = "new" /\ p \in {"open", "closed"}
    /\ phase' = [phase EXCEPT ![x] = p]
    /\ UNCHANGED << submitted, delivered, asked >>

Submit(x, d) ==
    /\ phase[x] = "open"
    /\ submitted' = [submitted EXCEPT ![x] = Append(@, d)]
    /\ UNCHANGED << phase, delivered, asked >>

\* One or more SDUs are passed on.
Deliver(x) ==
    /\ \E n \in Len(delivered[x])..Len(submitted[x]) :
        delivered' = [delivered EXCEPT ![x] = SubSeq(submitted[x], 1, n)]
    /\ IsPrefix(delivered[x], delivered'[x])
    /\ UNCHANGED << phase, submitted, asked >>

Ask ==
    /\ asked' = TRUE
    /\ UNCHANGED << phase, submitted, delivered >>

Close(x) ==
    /\ asked /\ phase[x] = "open"
    /\ phase' = [phase EXCEPT ![x] = "closed"]
    /\ UNCHANGED << submitted, delivered, asked >>

FifoNext ==
    \/ Ask
    \/ \E x \in Sides : Deliver(x) \/ Close(x) \/ \E d \in Sdu : Submit(x, d)
    \/ \E x \in Sides, p \in {"open", "closed"} : Establish(x, p)

FifoSpec == FifoInit /\ [][FifoNext]_fifo

=============================================================================
