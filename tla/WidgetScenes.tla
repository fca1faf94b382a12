---------------------------- MODULE WidgetScenes ----------------------------
(***************************************************************************)
(* Widgets, one scene each: a behaviour plays one of them, and what the    *)
(* others are made of is absent from it.  These are the scenes of tables,  *)
(* lists, plots, the dropdown and the slider, and the window's frame.      *)
(***************************************************************************)
EXTENDS Integers, Sequences, FiniteSets

CONSTANTS Scenes,
          RowH, Overscan,                            \* of the table and the list
          TableSizes, TableRows, TableErases, WheelStep, PageStep, TablePresses,
          Options, Tops, Rooms, Track, SliderRanges, Bits,
          Edge, TitleBar, Button, MinWidth, MinHeight, FrameSizes, Places,
          PointerSteps, Pixels, CursorShapes, ChromeActs,
          Panels, Bottom, Spots, Centers, LowZoom, MaxZoom, MaxPan, PlotActs,
          Keys, ListHeights, ListDeltas, MaxBatch, MaxErases

VARIABLES scene, tb, pv, ct, wc,
          items, count, view, winH, dirty, failed, batch, late

-----------------------------------------------------------------------------
(* A table of up to four rows in two windows: another width and another    *)
(* height; presses on the header, a row and beyond.                        *)

TwoSizes == {[h |-> 7, w |-> 3], [h |-> 6, w |-> 4]}

Table == INSTANCE TableView WITH
    Sizes <- TableSizes, MaxRows <- TableRows, MaxErase <- TableErases,
    Presses <- TablePresses

-----------------------------------------------------------------------------
(* Two panels with a shared x axis, pressed in the plot and on both axes.  *)

FourSpots == {<<8, 8>>, <<12, 4>>, <<-4, 8>>, <<8, 20>>}
TwiceTheRange == -1

Plot == INSTANCE PlotView WITH MaxActs <- PlotActs

-----------------------------------------------------------------------------
(* A dropdown of three options, below or above which the popup fits, and a *)
(* slider with ranges that its step does and does not divide.              *)

ThreeRanges == {[min |-> 0, max |-> 10, step |-> 3], [min |-> 2, max |-> 12, step |-> 0],
                [min |-> 1, max |-> 13, step |-> 2]}

Control == INSTANCE Controls WITH Heights <- Rooms, Sliders <- SliderRanges

-----------------------------------------------------------------------------
(* A window at its least size and one pixel above it.                      *)

ThreeSteps == {<<1, 1>>, <<-1, 0>>, <<0, -1>>}
LeastAndAbove == {<<6, 6>>, <<5, 5>>}

Frame == INSTANCE Chrome WITH
    WindowSizes <- FrameSizes, Steps <- PointerSteps, Shapes <- CursorShapes,
    MaxChromeActs <- ChromeActs

-----------------------------------------------------------------------------
(* A list of up to three items; the wheel within a row and past it.       *)

Turns == {-4, -1, 1, 3}

List == INSTANCE VirtualList WITH Heights <- ListHeights, Deltas <- ListDeltas

listVars == <<items, count, view, winH, dirty, failed, batch, late>>

ASSUME ScenesAssumption ==
    /\ Control!ControlsAssumption
    /\ List!ConstantsAssumption
    /\ Table!TableAssumption
    /\ Plot!PlotAssumption
    /\ Frame!ChromeAssumption

-----------------------------------------------------------------------------
(* The scenes.  What is not in the scene has the value Absent.             *)

Absent == "absent"

sceneVars == <<scene, tb, pv, ct, wc, listVars>>

ScenesInit ==
    /\ scene \in Scenes
    /\ IF scene = "table" THEN Table!TableInit ELSE tb = Absent
    /\ IF scene = "plot" THEN Plot!PvInit ELSE pv = Absent
    /\ IF scene = "controls" THEN Control!CtInit ELSE ct = Absent
    /\ IF scene = "frame" THEN Frame!WcInit ELSE wc = Absent
    /\ IF scene = "list" THEN List!Init
       ELSE /\ items = Absent /\ count = Absent /\ view = Absent /\ winH = Absent
            /\ dirty = Absent /\ failed = Absent /\ batch = Absent /\ late = Absent

ScenesNext ==
    \/ /\ scene = "table" /\ Table!TableNext
       /\ UNCHANGED <<scene, pv, ct, wc, listVars>>
    \/ /\ scene = "plot" /\ Plot!PvNext
       /\ UNCHANGED <<scene, tb, ct, wc, listVars>>
    \/ /\ scene = "controls" /\ Control!CtNext
       /\ UNCHANGED <<scene, tb, pv, wc, listVars>>
    \/ /\ scene = "frame" /\ Frame!WcNext
       /\ UNCHANGED <<scene, tb, pv, ct, listVars>>
    \/ /\ scene = "list" /\ List!Next
       /\ UNCHANGED <<scene, tb, pv, ct, wc>>

ScenesSpec == ScenesInit /\ [][ScenesNext]_sceneVars

-----------------------------------------------------------------------------
\* Every row of the source in view is painted with its item, a key brings the
\* selection into view, and a press takes the row that is painted under it.
\* (materialize_table, wire_table_input)
TableShown ==
    /\ [](scene = "table" =>
             Table!TableTypeOK /\ Table!RowsInViewCurrent /\ Table!SelectionFollows)
    /\ [][scene = "table" => Table!PressPicksPainted]_tb

\* The point that was grabbed, or zoomed at, stays under the pointer, and a reset
\* leaves every panel at its fitted range.  (route_plot_input, freeze_auto_fit,
\* reset_whole_group)
PlotHolds ==
    /\ [](scene = "plot" => Plot!PvTypeOK /\ Plot!PointHeld)
    /\ [][scene = "plot" => Plot!ResetIsWhole]_pv

\* A press on the popup of a dropdown that has the focus takes the option the frame
\* on the screen shows there, and the slider's value is within half a step of the
\* pointer.  (dropdown_handle_input, apply_position)
ControlsFollow ==
    /\ [](scene = "controls" => Control!CtTypeOK /\ Control!SliderFollows)
    /\ [][scene = "controls" => Control!PressPicksShown]_ct

\* A resize that the program does itself for a drag of the left button never moves the
\* window, and the edge follows the pointer.  (sdl_hit_test_callback, begin_resize, resize_from_drag)
ResizeStaysPut == [][scene = "frame" => Frame!WcTypeOK /\ Frame!ManualNeverMoves]_wc

\* A published list shows the items of the list now, each in view in a row of its
\* own; nodes are recycled; and no edit of a row replaces another item.
\* (materialize_virtual_list, vlist_handle_edit)
ListShown ==
    scene = "list" =>
        /\ List!TypeOK /\ List!RowsCurrent /\ List!VisibleBound
        /\ List!NodesRecycled /\ List!NoItemOverwritten
=============================================================================
