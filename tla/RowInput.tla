------------------------------ MODULE RowInput ------------------------------
(***************************************************************************)
(* Input over a virtualised list: InputRouting over the nodes that         *)
(* VirtualList materialises.                                               *)
(*                                                                         *)
(* The list stands between two focusable widgets.  Its rows are focusable  *)
(* leaves whose ids are those of the recycled nodes, so the two components *)
(* meet in build_snapshot: unbinding a row takes its node out of index_    *)
(* and focus_order_, binding puts a node in and appends it to the focus    *)
(* order, and neither touches the node's visual flags nor the ids the tree *)
(* believes hovered, focused and captured.  Every task of the logic thread *)
(* ends with a publish, so no event is routed while the list is dirty.     *)
(***************************************************************************)
EXTENDS InputRouting, Subsequence

CONSTANTS Before, After,           \* the widgets around the list
          RowButtons,              \* bound: the buttons used over it
          MaxNodes,                \* bound: node ids are 1..MaxNodes
          Keys, RowH, Overscan, Heights, MaxBatch, MaxErases

VARIABLES items, count, view, winH, dirty, failed, batch, late

listVars == <<items, count, view, winH, dirty, failed, batch, late>>
rowVars == <<routingVars, listVars>>

List == INSTANCE VirtualList

NodeIds == 1..MaxNodes

RowAssumption ==
    /\ MaxNodes \in Nat /\ Before # After
    /\ Recycled = NodeIds /\ NodeIds \subseteq Focusable
    /\ {Before, After} \subseteq Focusable \ Recycled
    /\ RowButtons \subseteq Buttons

RowIds(v) == [j \in DOMAIN v.rows |-> v.rows[j].id]

RowInit ==
    /\ List!Init
    /\ RoutingInitOver({Before, After}, <<Before, After>>)

-----------------------------------------------------------------------------
\* (mutated) The focus order keeps the nodes that were unbound.
RebindKeepsOrder(t, old, new) ==
    [t EXCEPT !.index = (@ \ Range(RowIds(old))) \cup Range(RowIds(new)),
              !.order = @ \o RowIds(new)]

\* unindex_node for each row, then binding the new ones.
Rebind(t, old, new) ==
    [t EXCEPT !.index = (@ \ Range(RowIds(old))) \cup Range(RowIds(new)),
              !.order = Without(@, Range(RowIds(old))) \o RowIds(new)]

\* Bound: there are MaxNodes nodes.
PublishRows ==
    /\ List!Publish
    /\ Len(view'.rows) <= MaxNodes
    /\ tree' = Rebind(tree, view, view')
    /\ UNCHANGED <<down, heard, chord>>

\* The application changes the list, or the window its height.
ChangeList ==
    /\ \/ \E k \in Keys : List!PushBack(k)
       \/ \E i \in DOMAIN items : List!Erase(i)
       \/ \E h \in Heights : List!Resize(h)
    /\ UNCHANGED routingVars

Pointer ==
    /\ ~dirty
    /\ \E w \in Shown :
          \/ RouteMouseMove(w)
          \/ \E b \in RowButtons : RoutePress(w, b) \/ RouteRelease(w, b)
    /\ UNCHANGED listVars

TabKey ==
    /\ ~dirty
    /\ \E k \in KeysUsed \cap {"tab", "shift_tab"} : RouteKeyPress(k)
    /\ UNCHANGED listVars

\* The wheel over a row, or a page key when a row has the focus.
ScrollRows ==
    /\ ~dirty
    /\ view.rows # <<>>
    /\ \E d \in Deltas : List!Scroll(d)
    /\ UNCHANGED routingVars

RowNext == PublishRows \/ ChangeList \/ Pointer \/ TabKey \/ ScrollRows

RowSpec == RowInit /\ [][RowNext]_rowVars

-----------------------------------------------------------------------------
\* Type invariant of the composition.
RowTypeOK ==
    /\ RoutingTypeOK
    /\ List!TypeOK

\* Whatever was bound and unbound since, the focus order holds each focusable
\* widget that is materialised once and no other: Tab can neither get lost on a recycled
\* node nor miss a row.  (bind_row, unindex_node)
OrderIsLive ==
    /\ Range(tree.order) = tree.index \cap Focusable
    /\ \A i, j \in DOMAIN tree.order : tree.order[i] = tree.order[j] => i = j
=============================================================================
