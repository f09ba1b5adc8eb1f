----------------------------- MODULE MCRecovery -----------------------------
(* Values of the constants of Recovery for TLC. *)
EXTENDS Recovery, TLC

CONSTANTS c1, a, b

NoCopies == {}
Params == [c \in Client |-> {1}]
=============================================================================
