-------------------------- MODULE MCCircuitBreaker --------------------------
(* Values for the constants of CircuitBreaker.                              *)
EXTENDS CircuitBreaker

MCPnls == {-2, -1, 1}

=============================================================================
