--------------------------- MODULE MCReasoningLog ---------------------------
(* Model checking of ReasoningLog: the connections are interchangeable.      *)
EXTENDS ReasoningLog, TLC

Connections == Permutations(Handler)
=============================================================================
