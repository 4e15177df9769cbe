----------------------------- MODULE MCShmMode -----------------------------
(* Small instances of the malleability mode poll for TLC. *)
EXTENDS ShmMode
=============================================================================
