------------------------ MODULE MCServerConnections ------------------------
(* Small instances of the server's connections for TLC. *)
EXTENDS ServerConnections
=============================================================================
