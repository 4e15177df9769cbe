---------------------------- MODULE MCWorkQueue ----------------------------
(* Small instances of the thread pool for TLC. *)
EXTENDS WorkQueue
=============================================================================
