------------------------------ MODULE MCTimers ------------------------------
(* Values of the constants of Timers for TLC: sixths of a second, from the *)
(* middle of one on, so that half a second fills it exactly.               *)
EXTENDS Timers

HalfPast == [tv_sec |-> 0, tv_nsec |-> 3]
=============================================================================
