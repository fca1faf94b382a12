--------------------------- MODULE MCVirtualList ---------------------------
(* Wheel steps of both signs, one within a row and one past it.             *)
EXTENDS VirtualList, TLC

WheelSteps == {-4, -1, 1, 3}
KeySymmetry == Permutations(Keys)
=============================================================================
