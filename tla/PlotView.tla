------------------------------ MODULE PlotView -------------------------------
(***************************************************************************)
(* Panning and zooming a group of stacked plots (widgets/plot.hpp,         *)
(* widgets/plot_render.hpp).  The panels share the x range and x view and  *)
(* each has its own y; a handler works on the two merged and splits the    *)
(* result back.  Ranges follow the data until an interaction freezes them. *)
(*                                                                         *)
(* A plot area is Side pixels each way, a fitted range is Base data units  *)
(* long, a zoom step halves or doubles: every position is an integer.      *)
(***************************************************************************)
EXTENDS Integers, FiniteSets

CONSTANTS
    Panels,          \* the panels
    Bottom,          \* the one that draws the x axis
    Spots,           \* pixels, relative to a panel's plot area, the pointer visits
    Centers,         \* centres of the fitted range of the data of a panel
    LowZoom, MaxZoom, \* bound: zoom levels
    MaxPan,          \* bound: offsets of the views
    MaxActs          \* bound: presses, scrolls, resets and growths

\* Below and above these zooms the positions are not integers.
PlotAssumption ==
    /\ Bottom \in Panels /\ Spots \subseteq Int \X Int
    /\ Centers # {} /\ Centers \subseteq Nat \ {0}
    /\ LowZoom \in -1 .. 0 /\ MaxZoom \in 0 .. 2
    /\ MaxPan \in Nat /\ MaxActs \in Nat

VARIABLE pv          \* [xr, yr: ranges; xv, yv: views; drag, fit; hold, acts: history]

Side == 16
Base == 64
Auto == 0            \* not a centre: the range follows the data
Identity == [off |-> 0, zoom |-> 0]

NoDrag == [on |-> FALSE, at |-> <<0, 0>>, view |-> [x |-> Identity, y |-> Identity]]
NoHold == [p |-> Bottom, pan |-> FALSE, axes |-> {}, at |-> <<0, 0>>, x |-> 0, y |-> 0]

PvInit ==
    pv = [xr |-> Auto, yr |-> [p \in Panels |-> Auto],
          xv |-> Identity, yv |-> [p \in Panels |-> Identity],
          drag |-> [p \in Panels |-> NoDrag],
          fit |-> [p \in Panels |-> CHOOSE c \in Centers : TRUE],
          hold |-> NoHold, acts |-> 0]

PvTypeOK ==
    /\ {pv.xr} \cup {pv.yr[p] : p \in Panels} \subseteq Centers \cup {Auto}
    /\ \A v \in {pv.xv} \cup {pv.yv[p] : p \in Panels} :
          v.zoom \in LowZoom .. MaxZoom /\ v.off \in -MaxPan .. MaxPan

-----------------------------------------------------------------------------
(* The mapping between pixels and data. *)

\* apply_view: the length of an axis at a zoom level.
Span(v) == IF v.zoom < 0 THEN Base * 2 ELSE Base \div 2 ^ v.zoom

\* The centre of a range, and to_data along one axis.
CenterOf(s, r, p) == IF r = Auto THEN s.fit[p] ELSE r
DataAt(center, v, px) == center + v.off - Span(v) \div 2 + (px * Span(v)) \div Side

XAt(s, p, px) == DataAt(CenterOf(s, s.xr, p), s.xv, px)
YAt(s, p, px) == DataAt(CenterOf(s, s.yr[p], p), s.yv[p], Side - px)

Inside(pt) == pt[1] \in 0 .. Side /\ pt[2] \in 0 .. Side
OnXAxis(p, pt) == p = Bottom /\ pt[1] \in 0 .. Side /\ pt[2] > Side
OnYAxis(pt) == pt[2] \in 0 .. Side /\ pt[1] < 0
Clamped(n) == IF n < 0 THEN 0 ELSE IF n > Side THEN Side ELSE n

-----------------------------------------------------------------------------
(* The handlers. *)

Merged(s, p) == [x |-> s.xv, y |-> s.yv[p]]
SplitBack(s, p, view) == [s EXCEPT !.xv = view.x, !.yv[p] = view.y]

\* Mutated Frozen: the ranges go on following the data.
NotFrozen(s, p) == s

\* freeze_auto_fit
Frozen(s, p) == [s EXCEPT !.xr = CenterOf(s, @, p), !.yr[p] = CenterOf(s, @, p)]

Act(s) == [s EXCEPT !.acts = @ + 1]

\* History: what is under the pointer when it is pressed or scrolled.
Held(s, p, pt, pan, axes) ==
    [s EXCEPT !.hold = [p |-> p, pan |-> pan, axes |-> axes, at |-> pt,
                        x |-> XAt(s, p, pt[1]), y |-> YAt(s, p, pt[2])]]

Press(p, pt) ==
    /\ \A q \in Panels : ~pv.drag[q].on
    /\ pv.acts < MaxActs
    /\ pv' = Held(Frozen([Act(pv) EXCEPT !.drag[p] = [on |-> TRUE, at |-> pt,
                                                 view |-> Merged(pv, p)]], p),
                  p, pt, TRUE, {"x", "y"})

\* The button is released: the group keeps its ranges frozen.
Release(p) ==
    /\ pv.drag[p].on
    /\ pv' = [pv EXCEPT !.drag[p] = NoDrag, !.hold = NoHold]

\* A pan: the view of the press, shifted by the distance to the press.
Panned(s, p, pt) ==
    LET d == s.drag[p]
        dx == ((pt[1] - d.at[1]) * Span(s.xv)) \div Side
        dy == ((pt[2] - d.at[2]) * Span(s.yv[p])) \div Side
    IN [x |-> [d.view.x EXCEPT !.off = @ - dx], y |-> [d.view.y EXCEPT !.off = @ + dy]]

Bounded(s) ==
    \A v \in {s.xv} \cup {s.yv[p] : p \in Panels} :
        v.off \in -MaxPan .. MaxPan /\ v.zoom \in LowZoom .. MaxZoom

\* The history follows the pointer; a scroll or a reset since the press ends it.
Move(p, pt) ==
    /\ \A q \in Panels \ {p} : ~pv.drag[q].on
    /\ LET view == IF pv.drag[p].on THEN Panned(pv, p, pt) ELSE Merged(pv, p)
           s == SplitBack(pv, p, view)
       IN pv' = (IF pv.hold.pan # pv.drag[p].on THEN [s EXCEPT !.hold = NoHold]
                 ELSE IF pv.hold.pan THEN [s EXCEPT !.hold.at = pt] ELSE s)
    /\ Bounded(pv')

\* zoom_axis: the anchor stays where it is.
Zoomed(v, center, anchor, by) ==
    LET d == center + v.off - anchor
    IN [off |-> anchor - center + (IF by > 0 THEN d \div 2 ELSE d * 2),
        zoom |-> v.zoom + by]

Scroll(p, pt, by) ==
    LET axes == (IF Inside(pt) \/ OnXAxis(p, pt) THEN {"x"} ELSE {})
                \cup (IF Inside(pt) \/ OnYAxis(pt) THEN {"y"} ELSE {})
        at == <<Clamped(pt[1]), Clamped(pt[2])>>
        s == Held(Frozen(pv, p), p, at, FALSE, axes)
        view == [x |-> IF "x" \in axes
                       THEN Zoomed(pv.xv, CenterOf(s, s.xr, p), XAt(pv, p, at[1]), by)
                       ELSE pv.xv,
                 y |-> IF "y" \in axes
                       THEN Zoomed(pv.yv[p], CenterOf(s, s.yr[p], p), YAt(pv, p, at[2]), by)
                       ELSE pv.yv[p]]
    IN /\ axes # {}
       /\ pv.acts < MaxActs
       /\ pv' = Act(SplitBack(s, p, view))
       /\ Bounded(pv')

\* PlotGroup::reset_view
Reset(s) ==
    [s EXCEPT !.xr = Auto, !.yr = [q \in Panels |-> Auto],
              !.xv = Identity, !.yv = [q \in Panels |-> Identity], !.hold = NoHold]

\* reset_whole_group leaves nothing of the old view to split back.
ResetView(s, p) == [x |-> Identity, y |-> Identity]

\* A right press in the plot, or 'm'.
ResetAt(p) ==
    /\ pv.acts < MaxActs
    /\ pv' = Act(SplitBack(Reset(pv), p, ResetView(pv, p)))

\* The application adds samples: the fit is computed anew at the next use.
Grow(p, c) ==
    /\ pv.acts < MaxActs
    /\ pv' = Act([pv EXCEPT !.fit[p] = c])

PvNext ==
    \E p \in Panels :
        \/ \E pt \in Spots : Press(p, pt) \/ Move(p, pt)
        \/ \E pt \in Spots, by \in {-1, 1} : Scroll(p, pt, by)
        \/ Release(p) \/ ResetAt(p)
        \/ \E c \in Centers : Grow(p, c)

-----------------------------------------------------------------------------
\* The data point that was grabbed, or zoomed at, stays under the pointer: while
\* panning, after a scroll, with the data growing and the other panels moving.
\* (route_plot_input, freeze_auto_fit, zoom_axis, handle_canvas_input)
PointHeld ==
    LET h == pv.hold IN
    /\ "x" \in h.axes => XAt(pv, h.p, h.at[1]) = h.x
    /\ "y" \in h.axes => YAt(pv, h.p, h.at[2]) = h.y

\* On every step, a reset from any panel leaves every panel at its fitted range, the shared axis
\* too, whatever drag is going on.  (reset_whole_group)
ResetIsWhole ==
    \A p \in Panels : ResetAt(p) =>
        /\ pv'.xv = Identity /\ pv'.xr = Auto
        /\ \A q \in Panels : pv'.yv[q] = Identity /\ pv'.yr[q] = Auto
=============================================================================
