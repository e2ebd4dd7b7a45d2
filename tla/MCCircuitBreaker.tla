-------------------------- MODULE MCCircuitBreaker --------------------------
(* Three callers share a breaker that trips after two consecutive failures *)
(* and lets two probes through: the smallest instance in which a period    *)
(* can have some probes finished, some in flight and some lost, while a    *)
(* call from before the outage is still running.                           *)
EXTENDS CircuitBreaker

CONSTANTS c1, c2, c3

MCCallers == {c1, c2, c3}
=============================================================================
