-------------------------- MODULE MCHealthChecker --------------------------
(* Values of the constants of HealthChecker for TLC. *)
EXTENDS HealthChecker

BrokerAndCopy == {BROKER, <<0, 1>>}
=============================================================================
