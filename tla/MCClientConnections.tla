------------------------ MODULE MCClientConnections ------------------------
(* Small instances of the client's connection table for TLC. *)
EXTENDS ClientConnections, TLC

Symmetry == Permutations(Threads)
=============================================================================
