------------------------------ MODULE Controls -------------------------------
(***************************************************************************)
(* A dropdown over a slider in a window (delegates/dropdown_delegates.hpp, *)
(* ui/delegate.hpp): the popup that overlays what is below it, flips above *)
(* when there is no room, and must be hit where it is drawn; and a slider  *)
(* whose position is rounded to a step in a machine integer.  Every event  *)
(* is followed by the frame it makes necessary (model_app), so the state   *)
(* holds the published frame too.                                          *)
(*                                                                         *)
(* A widget and an option are one unit high.                               *)
(***************************************************************************)
EXTENDS Integers, FiniteSetsExt

CONSTANTS
    Options,         \* number of options
    Tops,            \* where the content above may leave the dropdown
    Heights,         \* heights of the window
    Track,           \* length of the slider's track
    Sliders,         \* [min, max, step]
    Bits             \* the slider's type is unsigned, of that width

\* The type holds half a step more than the end of the range.
ControlsAssumption ==
    /\ Options \in Nat \ {0} /\ Track \in Nat \ {0} /\ 2 ^ Bits \in Nat \ {0}
    /\ Tops \subseteq Nat
    /\ \A sl \in Sliders :
        /\ sl.min \in Nat /\ sl.max \in Nat /\ sl.step \in Nat
        /\ sl.min < sl.max /\ sl.max + sl.step \div 2 < 2 ^ Bits

VARIABLE ct          \* [open, hi, sel, rect, focus: the dropdown's; drawn: its
                     \* overlay; top, win: the layout; seen: the last frame's;
                     \* frame; slider, value, pos; lost: the last press on the popup
                     \* did not take its option, or another one changed it]

NoPopup == Options + 1         \* not a place a popup may be at

CtInit ==
    \E t \in Tops, h \in Heights, sl \in Sliders :
        ct = [open |-> FALSE, hi |-> 0, sel |-> 0, rect |-> 0, focus |-> "none",
              drawn |-> NoPopup, top |-> t, win |-> h, seen |-> [top |-> t, win |-> h],
              frame |-> [top |-> t, popup |-> NoPopup],
              slider |-> sl, value |-> sl.min, pos |-> 0, lost |-> FALSE]

CtTypeOK ==
    /\ ct.hi \in 0 .. Options - 1 /\ ct.sel \in 0 .. Options - 1
    /\ ct.rect \in {0, 1, -Options} /\ ct.drawn \in {NoPopup, 1, -Options}

-----------------------------------------------------------------------------
(* A frame. *)

\* Mutated Recorded: the flip is drawn and not remembered.
RecordedLoose(s) ==
    LET at == IF s.seen.win > 0 /\ s.seen.top + 1 + Options > s.seen.win THEN -Options ELSE 1
    IN IF s.open THEN [s EXCEPT !.drawn = at] ELSE [s EXCEPT !.drawn = NoPopup]

\* dropdown_record: it knows where the previous frame put the widget.
Recorded(s) ==
    LET at == IF s.seen.win > 0 /\ s.seen.top + 1 + Options > s.seen.win THEN -Options ELSE 1
    IN IF s.open THEN [s EXCEPT !.drawn = at, !.rect = at] ELSE [s EXCEPT !.drawn = NoPopup]

\* build_snapshot; layout_flatten moves the overlay with the widget.
Framed(s, dirty) ==
    LET r == IF dirty THEN Recorded(s) ELSE s
    IN [r EXCEPT !.frame = [top |-> r.top, popup |-> r.drawn],
                 !.seen = [top |-> r.top, win |-> r.win], !.lost = FALSE]

\* The application changes what is above, or the window is resized.
Relayout(t, h) ==
    /\ <<t, h>> # <<ct.top, ct.win>>
    /\ ct' = Framed([ct EXCEPT !.top = t, !.win = h], FALSE)

-----------------------------------------------------------------------------
(* The dropdown. *)

Opened(s) == [s EXCEPT !.open = TRUE, !.hi = s.sel]

\* dropdown_handle_input, a press at y relative to the widget.
Clicked(s, y) ==
    IF ~s.open THEN [Opened(s) EXCEPT !.rect = 1]
    ELSE [s EXCEPT !.open = FALSE,
                   !.sel = IF y - s.rect \in 0 .. Options - 1 THEN y - s.rect ELSE @]

Keyed(s, k) ==
    CASE s.open /\ k = "down"   -> [s EXCEPT !.hi = (@ + 1) % Options]
      [] s.open /\ k = "up"     -> [s EXCEPT !.hi = (@ + Options - 1) % Options]
      [] s.open /\ k = "enter"  -> [s EXCEPT !.sel = s.hi, !.open = FALSE]
      [] s.open /\ k = "escape" -> [s EXCEPT !.open = FALSE]
      [] ~s.open /\ k \in {"space", "enter"} -> Opened(s)
      [] ~s.open /\ k = "down"  -> [s EXCEPT !.sel = (@ + 1) % Options]
      [] ~s.open /\ k = "up"    -> [s EXCEPT !.sel = (@ + Options - 1) % Options]
      [] OTHER -> s

\* close_overlays: what is drawn over goes, and the edit state with it.
Closed(s) ==
    IF s.drawn = NoPopup THEN s
    ELSE [s EXCEPT !.drawn = NoPopup, !.open = FALSE, !.hi = 0, !.rect = 0]

-----------------------------------------------------------------------------
(* The slider. *)

Wrapped(n) == n % 2 ^ Bits

Raw(sl, x) == sl.min + (x * (sl.max - sl.min)) \div Track

\* apply_position: rounded to a step, in the type, then clamped.
Position(sl, x) ==
    LET raw == Raw(sl, x)
        stepped == Wrapped(sl.min + Wrapped((raw - sl.min + sl.step \div 2) \div sl.step) * sl.step)
    IN IF sl.step = 0 THEN raw
       ELSE IF stepped < sl.min THEN sl.min ELSE IF stepped > sl.max THEN sl.max ELSE stepped

\* A press on the slider, or a move while it is pressed.
Slid(s, x) == [s EXCEPT !.value = Position(s.slider, x), !.pos = x]

-----------------------------------------------------------------------------
(* The events. *)

Over(f, y) == f.popup # NoPopup /\ y - f.top - f.popup \in 0 .. Options - 1
HitAt(f, y) == IF Over(f, y) \/ y = f.top THEN "dropdown"
               ELSE IF y = f.top + 1 THEN "slider" ELSE "none"

\* route_mouse_button: a press elsewhere closes what is open, unless the widget
\* pressed has the focus already.
Press(x, y) ==
    LET id == HitAt(ct.frame, y)
        s == IF id # ct.focus \/ id = "none" THEN Closed(ct) ELSE ct
        f == [s EXCEPT !.focus = id]
        next == CASE id = "dropdown" -> Clicked(f, y - ct.frame.top)
                  [] id = "slider" -> Slid(f, x)
                  [] OTHER -> f
        lost == IF Over(ct.frame, y)
                THEN next.open \/ next.sel # y - ct.frame.top - ct.frame.popup
                ELSE next.sel # ct.sel
        dirty == "dropdown" \in {id, ct.focus} \/ next.drawn # ct.drawn
    IN y < ct.win /\ ct' = [Framed(next, dirty) EXCEPT !.lost = lost]

Key(k) ==
    /\ ct.focus = "dropdown"
    /\ ct' = Framed(Keyed(ct, k), Keyed(ct, k) # ct)

\* Tab: the popup stays.
Tab ==
    LET next == IF ct.focus = "dropdown" THEN "slider" ELSE "dropdown"
    IN ct' = Framed([ct EXCEPT !.focus = next], TRUE)

CtNext ==
    \/ \E x \in 0 .. Track, y \in 0 .. 2 * Options + 2 : Press(x, y)
    \/ \E k \in {"up", "down", "enter", "space", "escape"} : Key(k)
    \/ Tab
    \/ \E t \in Tops, h \in Heights : Relayout(t, h)

-----------------------------------------------------------------------------
\* A press on the popup takes the option that the published frame shows under the
\* pointer and closes it, wherever the popup is after flips and relayouts; any
\* other press leaves the selection alone.  It takes a dropdown that has the focus.
\* (dropdown_record, dropdown_handle_input, hit_test)
PressPicksShown == ct.focus = "dropdown" => ~ct'.lost

\* Overlays are closed, and the edit state reset, "on click-outside"
\* (doc/design/widgets-and-sentinels.md): a press on the popup is never lost.
PopupTakesPress == ~ct.lost

\* The value is within half a step of where the pointer is on the track, in the type's
\* arithmetic and at the ends of the range too.  It takes a range that leaves the type
\* room for half a step more.  (apply_position)
SliderFollows ==
    LET d == ct.value - Raw(ct.slider, ct.pos) IN 2 * Max({d, -d}) <= ct.slider.step
=============================================================================
