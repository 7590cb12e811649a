--------------------------- MODULE MCTlvFlashBank ---------------------------
(* Instances of TlvFlashBank for TLC: values whose cells, read as entry     *)
(* headers, look like an entry or a deleted entry.                          *)
EXTENDS TlvFlashBank

LikeEntry == [tag |-> 1, len |-> 1]

MixedValues == {<< LikeEntry >>, << Zero, LikeEntry >>}

\* A link key (28 bytes) or a bonded device is longer than three cells.
LongValues == {<< LikeEntry, LikeEntry, LikeEntry, LikeEntry >>, << Zero >>}

\* With write once a delete needs space and may be lost: it is left out.
NoDeleteOnce == [m \in Modes |-> IF m = "once" THEN {} ELSE {1}]
DeleteNone == [m \in Modes |-> {}]
=============================================================================
