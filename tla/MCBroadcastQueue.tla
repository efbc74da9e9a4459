-------------------------- MODULE MCBroadcastQueue --------------------------
(* BroadcastQueue with the constants of its TLC runs. *)
EXTENDS BroadcastQueue

CONSTANTS n1, n2
=============================================================================
