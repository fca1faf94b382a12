------------------------------ MODULE MCChrome -------------------------------
(* A window above its least size, pointer steps of one pixel.                *)
EXTENDS Chrome

WindowBoxes == {<<6, 6>>, <<5, 5>>}
PointerSteps == {<<1, 1>>, <<-1, 0>>, <<0, -1>>}
OneShape == {"text"}

WcSpec == WcInit /\ [][WcNext]_wc
=============================================================================
