------------------------- MODULE MCSessionRegistry -------------------------
(* SessionRegistry on a few sessions and handlers.                          *)
EXTENDS SessionRegistry, TLC

(* Handlers are interchangeable: every one may run every call.              *)
HandlerSymmetry == Permutations(Handler)
=============================================================================
