---------------------------- MODULE MessageSize ----------------------------
(* The fixed size of the messages on a connection, in bytes.                *)
EXTENDS Integers

CONSTANT
    Size       \* DYNPM_MAX_MESSAGE_SIZE

ASSUME SizeAssumption == Size \in Nat \ {0}
=============================================================================
