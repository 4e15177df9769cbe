----------------------------- MODULE MCChannel -----------------------------
(* Model checking of Channel: two senders, and bytes that arrive in any     *)
(* pieces.                                                                  *)
EXTENDS Channel
============================================================================
