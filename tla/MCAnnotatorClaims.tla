------------------------- MODULE MCAnnotatorClaims -------------------------
(* AnnotatorClaims with two annotators and the admin socket.                *)
EXTENDS AnnotatorClaims

CONSTANTS a1, a2, s1, s2, c1, c2, c3

(* Two connections of one annotator.                                        *)
TwoOfOne == [c \in {c1, c2} |-> a1]

(* One connection each.                                                     *)
OneEach == [c \in {c1, c2} |-> IF c = c1 THEN a1 ELSE a2]

(* One connection each, and the admin socket.                               *)
WithAdmin == [c \in {c1, c2, c3} |->
                IF c = c1 THEN a1 ELSE IF c = c2 THEN a2 ELSE Admin]

(* Annotator a1 may hold one claim, a2 any number.                          *)
OneClaim == [a \in {a1, a2} |-> IF a = a1 THEN 1 ELSE 0]

ByName == [s \in Session |-> IF s = s1 THEN 1 ELSE 2]
=============================================================================
