----------------------------- MODULE MCControls ------------------------------
(* Ranges that the step of the slider does and does not divide.              *)
EXTENDS Controls

SliderRanges == {[min |-> 0, max |-> 10, step |-> 3], [min |-> 2, max |-> 12, step |-> 0],
                 [min |-> 1, max |-> 13, step |-> 2]}

CtSpec == CtInit /\ [][CtNext]_ct
=============================================================================
