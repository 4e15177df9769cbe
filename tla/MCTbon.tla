------------------------------- MODULE MCTbon -------------------------------
(* A small instance of the tree overlay for TLC, down and up: five vertices *)
(* of degree three make a tree of height two.                               *)
EXTENDS TbonWaits
=============================================================================
