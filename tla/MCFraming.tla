----------------------------- MODULE MCFraming -----------------------------
(* A small instance of the reception of messages for TLC. *)
EXTENDS Framing, TLC

Symmetry == Permutations(Conns)
=============================================================================
