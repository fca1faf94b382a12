------------------------------- MODULE MCInput -------------------------------
(***************************************************************************)
(* Input, two scenes of one window: over fixed widgets, and over a virtual *)
(* list between two widgets.  A scene has its widgets in the index, those  *)
(* of the other are never built.                                           *)
(***************************************************************************)
EXTENDS RowInput, TLC

CONSTANTS Scenes,
          label, button, menu1, menu2, inner, list, outer,  \* the fixed widgets
          above, below                                      \* those around the list

VARIABLE scene

-----------------------------------------------------------------------------
(* A label and a drop-down in an inner scroll container that bubbles at its *)
(* bounds, a button in a list that consumes every scroll and has no room to *)
(* move, and a second drop-down beside them in the outer container.         *)

Menus == {menu1, menu2}
Boxes == {inner, list, outer}
Fixed == {label, button} \cup Menus \cup Boxes
FixedOrder == <<menu1, button, menu2>>

\* The two nodes of rows are 1 and 2.
AllLeaves == {label, button} \cup Menus \cup {above, below, 1, 2}
AllFocusable == AllLeaves \ {label}
RowNodes == {1, 2}
AllInOrder == FixedOrder \o <<above, below>>

Parents == [w \in AllLeaves \cup Boxes |->
               CASE w \in {label, menu1, inner}        -> <<inner, outer>>
                 [] w \in {button, list}               -> <<list, outer>>
                 [] w \in {menu2, outer}               -> <<outer>>
                 [] w \in {above, below} \cup RowNodes -> <<>>]
Overflow == [c \in Boxes |-> IF c = list THEN 0 ELSE 1]
Consuming == {list}
WheelTurns == {-1, 1}

KeySymmetry == Permutations(Keys)

ASSUME InputAssumption == RoutingAssumption /\ RowAssumption /\ List!ConstantsAssumption

-----------------------------------------------------------------------------
MCInit ==
    /\ scene \in Scenes
    /\ \/ scene = "widgets" /\ RoutingInitOver(Fixed, FixedOrder) /\ List!Init /\ winH = 1
       \/ scene = "rows" /\ RowInit

MCNext ==
    \/ scene = "widgets" /\ RoutingNext /\ UNCHANGED <<scene, listVars>>
    \/ scene = "rows" /\ RowNext /\ UNCHANGED scene

MCSpec == MCInit /\ [][MCNext]_<<scene, rowVars>>
=============================================================================
