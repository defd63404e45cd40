------------------------- MODULE MCSessionLifecycle -------------------------
(* SessionLifecycle on a few sessions, loops and connections.               *)
EXTENDS SessionLifecycle, TLC

(* Sessions, loops and connections are interchangeable.                     *)
SessionsAndLoops == Permutations(Session) \cup Permutations(Loop)
LoopsAndConns == Permutations(Loop) \cup Permutations(Conn)
=============================================================================
