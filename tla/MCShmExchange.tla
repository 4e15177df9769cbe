--------------------------- MODULE MCShmExchange ---------------------------
(* Small instances of the payload exchange for TLC. *)
EXTENDS ShmExchange
=============================================================================
