------------------------------ MODULE MCWidgets ------------------------------
(***************************************************************************)
(* All scenes of widgets: those of WidgetScenes, the layout, trees, texts, *)
(* tabs and the data of plots.                                             *)
(***************************************************************************)
EXTENDS Layout, WidgetScenes

VARIABLES tv, ed, wt, pd

-----------------------------------------------------------------------------
(* Layout: a column of a row with three panes and two handles, one pane    *)
(* being a column itself, and of a scroll container with two leaves.       *)

Screen == [root |-> <<"row", "scroll">>,
           row |-> <<"tree", "left", "inner", "right", "plot">>,
           inner |-> <<"name", "gap">>,
           scroll |-> <<"first", "second">>,
           tree |-> <<>>, left |-> <<>>, name |-> <<>>, gap |-> <<>>, right |-> <<>>,
           plot |-> <<>>, first |-> <<>>, second |-> <<>>]

Kinds == [root |-> "column", row |-> "row", inner |-> "column", scroll |-> "scroll",
          tree |-> "leaf", left |-> "handle", name |-> "leaf", gap |-> "spacer",
          right |-> "handle", plot |-> "canvas", first |-> "leaf", second |-> "leaf"]

Box == [w |-> 3, h |-> 2]
WindowBoxes == {[w |-> 11, h |-> 5], [w |-> 8, h |-> 6], [w |-> 2, h |-> 5]}
WheelTurns == {-2, 1}

-----------------------------------------------------------------------------
(* A tree of six nodes, and the same with a subtree taken out and another  *)
(* moved.                                                                  *)

Whole == [roots |-> <<"a", "b">>,
          kids |-> [a |-> <<"c", "d">>, b |-> <<"e">>, c |-> <<"f">>,
                    d |-> <<>>, e |-> <<>>, f |-> <<>>]]
Pruned == [Whole EXCEPT !.kids = [@ EXCEPT !.a = <<"d">>, !.d = <<"f">>, !.c = <<>>]]

TreeRows == INSTANCE TreeView WITH
    Ids <- {"a", "b", "c", "d", "e", "f"}, Shapes <- {Whole, Pruned}, Viewport <- 2,
    ScrollSteps <- {-1, 1}

-----------------------------------------------------------------------------
(* Text: one and two characters typed, a text cut and one with two lines.  *)

Text == INSTANCE TextEdit WITH
    Inputs <- {<<"c">>, <<"c", "c">>}, Replacements <- {<<>>, <<"c", "n", "c">>},
    Widths <- {1, 2}, TextRows <- 2, Limits <- {0, 3}, MaxText <- 5,
    Clicks <- {<<0, 0>>, <<3, 1>>}

-----------------------------------------------------------------------------
(* Tabs: a box with a Shared and a channel in one page of the outer bar,   *)
(* another tab bar in the other.                                           *)

TabSources == {"top", "load", "outer", "obar", "opage", "box", "a", "rate", "log",
               "inner", "ibar", "ipage", "x"}

TabKinds ==
    [top |-> "box", load |-> "shared", outer |-> "tabs", obar |-> "bar", opage |-> "page",
     box |-> "box", a |-> "leaf", rate |-> "shared", log |-> "channel",
     inner |-> "tabs", ibar |-> "bar", ipage |-> "page", x |-> "leaf"]

TabKids == [s \in TabSources |->
    CASE s = "top"   -> <<"load", "outer">>
      [] s = "outer" -> <<"obar", "opage">>
      [] s = "inner" -> <<"ibar", "ipage">>
      [] s = "box"   -> <<"a", "rate", "log">>
      [] OTHER       -> <<>>]

TabPages == [outer |-> << <<"box">>, <<"inner">> >>, inner |-> << <<"x">>, <<>> >>]

Tabs == INSTANCE WidgetTree WITH
    Sources <- TabSources, Kind <- TabKinds, Kids <- TabKids, Pages <- TabPages,
    Depends <- [s \in TabSources |-> IF s = "x" THEN {"a"} ELSE {}],
    Focusable <- {"obar", "ibar", "a", "x"}, Top <- "top", MaxSets <- 1, MaxIds <- 16

-----------------------------------------------------------------------------
(* Series dense enough for two samples in a column to be left out.         *)

Data == INSTANCE PlotData WITH
    Ys <- {0, 1}, NaN <- 2, Columns <- 1, Sizes <- {2, 5}, Throttle <- 3,
    MaxSeries <- 2, MaxSize <- 6, MaxEdits <- 3

-----------------------------------------------------------------------------
(* The scenes.                                                             *)

KeySymmetry == Permutations(Keys)

ASSUME WidgetsAssumption == TreeRows!TreeAssumption

vars == <<sceneVars, ui, tv, ed, wt, pd>>

MCInit ==
    /\ ScenesInit
    /\ IF scene = "layout" THEN LayoutInit ELSE ui = Absent
    /\ IF scene = "tree" THEN TreeRows!TreeInit ELSE tv = Absent
    /\ IF scene = "text" THEN Text!TextInit ELSE ed = Absent
    /\ IF scene = "tabs" THEN Tabs!TreeInit ELSE wt = Absent
    /\ IF scene = "data" THEN Data!PdaInit ELSE pd = Absent

MCNext ==
    \/ ScenesNext /\ UNCHANGED <<ui, tv, ed, wt, pd>>
    \/ /\ scene = "layout" /\ LayoutNext
       /\ UNCHANGED <<sceneVars, tv, ed, wt, pd>>
    \/ /\ scene = "tree" /\ TreeRows!TreeNext
       /\ UNCHANGED <<sceneVars, ui, ed, wt, pd>>
    \/ /\ scene = "text" /\ Text!TextNext
       /\ UNCHANGED <<sceneVars, ui, tv, wt, pd>>
    \/ /\ scene = "tabs" /\ Tabs!WtNext
       /\ UNCHANGED <<sceneVars, ui, tv, ed, pd>>
    \/ /\ scene = "data" /\ Data!PdaNext
       /\ UNCHANGED <<sceneVars, ui, tv, ed, wt>>

MCSpec == MCInit /\ [][MCNext]_vars

-----------------------------------------------------------------------------
\* What is on the screen is what a build that trusts neither the cache of
\* translated draw lists nor the sizes recorded earlier would show.
\* (WidgetTree::build_snapshot, layout_flatten)
ScreenIsCurrent == scene = "layout" => LayoutTypeOK /\ ScreenCurrent /\ SettlesInTwo

\* A dragged handle stays under the pointer and moves no other pane, and panes and
\* handles fill their container.  (update_split_drag, update_split_state)
SplitsHold == scene = "layout" => HandleFollows /\ PanesFill

\* The rows of the tree view are the nodes whose ancestors are expanded, each under
\* its parent, and a key leaves the selection in view.  (TreeController, tree_rows)
TreeShown ==
    scene = "tree" =>
        TreeRows!TreeTypeOK /\ TreeRows!RowsMatchTree /\ TreeRows!SelectionInView

\* The caret is drawn inside of the field or area after every event, each character
\* is in one row, and no observer that does not cut the text makes an edit throw.
\* (text_field_handle_input, text_area_handle_input, wrap_lines)
TextShown ==
    scene = "text" =>
        /\ Text!TextTypeOK /\ Text!CaretInView
        /\ Text!RowsHoldText /\ Text!ThrowsOnlyWhenCut

\* However tabs come and go, the index, the parents, the focus order and the
\* subscriptions are those of the tree, and the page is the selected one.
\* (materialize_tabs, unindex_subtree, build_index)
TabsHold ==
    scene = "tabs" => Tabs!WtTypeOK /\ Tabs!BooksMatchTree /\ Tabs!PageIsSelected

\* Every paint after a notification shows in each pixel column the lowest and the
\* highest sample, and the fitted range is recent.
\* (draw_series, decimated_series_points, resolve_auto_fit_ranges)
DataShown ==
    /\ [](scene = "data" => Data!PdaTypeOK /\ Data!FitRecent)
    /\ [][scene = "data" => Data!EnvelopeShown]_pd
=============================================================================
