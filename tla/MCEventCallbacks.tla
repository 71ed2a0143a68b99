-------------------------- MODULE MCEventCallbacks --------------------------
(* Instances of EventCallbacks.                                            *)
EXTENDS EventCallbacks
CONSTANTS p1, p2, c1, c2, c3, w1
=============================================================================
