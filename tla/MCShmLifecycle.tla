-------------------------- MODULE MCShmLifecycle --------------------------
(* Model checking of ShmLifecycle: MaxInits = 2 lets a manager restart over *)
(* what the first one left, MaxReplaced = 1 lets a pid come back.            *)
EXTENDS ShmLifecycle
===========================================================================
