---------------------------- MODULE MCStepRecord ----------------------------
(* StepRecord with chords of up to two modifiers and drags of up to four    *)
(* points, one more than MAX_DRAG_POINTS.                                   *)
EXTENDS StepRecord

Lists == {<<>>, <<"^">>, <<"!">>, <<"#">>, <<"#", "+">>, <<"^", "!">>}
Vias == {<<>>, <<"w1">>, <<"w1", "w2">>, <<"w2", "w1">>}
=============================================================================
