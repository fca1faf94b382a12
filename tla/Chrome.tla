------------------------------- MODULE Chrome --------------------------------
(***************************************************************************)
(* A window that draws its own frame (ui/window_chrome.hpp,                *)
(* backends/sdl_window.cpp, the pump of software_backend.cpp): its zones,  *)
(* the resize the program does itself, and the cursor that the pump and    *)
(* the logic thread both set.                                              *)
(*                                                                         *)
(* SDL asks for the zone of a press of the left button when the press      *)
(* happens and keeps for the window manager those that move the window.    *)
(* The pump asks again when it gets to the event, and the window may have  *)
(* another size by then; and it resizes for any button, and once more for  *)
(* one that is pressed during a drag.                                      *)
(***************************************************************************)
EXTENDS Integers, FiniteSets

CONSTANTS
    Edge, TitleBar, Button, MinWidth, MinHeight,   \* sizes of WindowChrome
    WindowSizes,     \* <<width, height>>
    Places,          \* positions of a window
    Steps,           \* moves of the pointer
    Pixels,          \* bound: where the pointer may be, on either axis
    Shapes,          \* cursors of widgets
    MaxChromeActs    \* bound: presses and changes of the window

\* The sizes of WindowChrome and of windows, and moves, in pixels.
ChromeAssumption ==
    /\ {Edge, TitleBar, Button, MinWidth, MinHeight} \subseteq Nat
    /\ WindowSizes \subseteq Nat \X Nat /\ Places \subseteq Int /\ Steps \subseteq Int \X Int

VARIABLE wc          \* [w, h, x, y: the window; ptr: the pointer, on the screen;
                     \* press: an event on its way, <<x, y, of the left button>>;
                     \* zone, start: the drag; left: it is of the left button (history);
                     \* held: the mouse is captured; last: the cursor it remembers;
                     \* os: the cursor shown; push: calls of set_cursor halfway;
                     \* forward: the logic thread has events; acts]

Threads == {"pump", "logic"}
NoPush == "none"
Client == <<"client">>
Title == <<"title">>

\* SDL_GetWindowPosition, SDL_GetGlobalMouseState when a drag begins.
NoDrag == [w |-> 0, h |-> 0, x |-> 0, y |-> 0, ptr |-> <<0, 0>>]

WcInit ==
    \E size \in WindowSizes, at \in Places :
        wc = [w |-> size[1], h |-> size[2], x |-> at, y |-> at, ptr |-> <<at, at>>,
              press |-> <<>>, zone |-> Client, start |-> NoDrag, left |-> FALSE, held |-> FALSE,
              last |-> "default", os |-> "default", push |-> [t \in Threads |-> NoPush],
              forward |-> FALSE, acts |-> 0]

WcTypeOK ==
    /\ wc.w >= MinWidth /\ wc.h >= MinHeight
    /\ wc.push \in [Threads -> Shapes \cup {"default", "ns", "ew", "nwse", "nesw", NoPush}]

-----------------------------------------------------------------------------
(* The zones. *)

\* hit_test
Zone(px, py, w, h) ==
    LET vertical == IF py < Edge THEN "n" ELSE IF py >= h - Edge THEN "s" ELSE ""
        across == IF px < Edge THEN "w" ELSE IF px >= w - Edge THEN "e" ELSE ""
    IN IF vertical # "" \/ across # "" THEN <<vertical, across>>
       ELSE IF py >= TitleBar THEN Client
       ELSE IF px >= w - Button THEN <<"close">>
       ELSE IF px >= w - 2 * Button THEN <<"maximize">>
       ELSE IF px >= w - 3 * Button THEN <<"minimize">>
       ELSE Title

Edges == ({"n", "s", ""} \X {"w", "e", ""}) \ {<<"", "">>}

CursorFor(zone) ==
    CASE zone \in {<<"n", "">>, <<"s", "">>} -> "ns"
      [] zone \in {<<"", "e">>, <<"", "w">>} -> "ew"
      [] zone \in {<<"n", "w">>, <<"s", "e">>} -> "nwse"
      [] zone \in {<<"n", "e">>, <<"s", "w">>} -> "nesw"
      [] OTHER -> "default"

\* Mutated NeedsNativeResize: the corners are forgotten.
NeedsNativeResizeSides(zone) == zone \in {<<"", "w">>, <<"n", "">>, <<"n", "w">>}

NeedsNativeResize(zone) ==
    zone \in {<<"", "w">>, <<"n", "">>, <<"n", "w">>, <<"n", "e">>, <<"s", "w">>}

\* resize_from_drag
Resized(zone, s, dx, dy) ==
    LET most(a, b) == IF a > b THEN a ELSE b
        w == most(MinWidth, s.w + (IF zone[2] = "e" THEN dx ELSE IF zone[2] = "w" THEN -dx ELSE 0))
        h == most(MinHeight, s.h + (IF zone[1] = "s" THEN dy ELSE IF zone[1] = "n" THEN -dy ELSE 0))
    IN [w |-> w, h |-> h,
        x |-> IF zone[2] = "w" THEN s.x + s.w - w ELSE s.x,
        y |-> IF zone[1] = "n" THEN s.y + s.h - h ELSE s.y]

-----------------------------------------------------------------------------
(* The cursor: an exchange of what is remembered, then the call of SDL. *)

Pushed(s, t, shape) ==
    IF s.last = shape THEN s ELSE [s EXCEPT !.last = shape, !.push[t] = shape]

ApplyCursor(t) ==
    /\ wc.push[t] # NoPush
    /\ wc' = [wc EXCEPT !.os = wc.push[t], !.push[t] = NoPush]

\* An event of the client area is dispatched: the cursor of a widget.
Dispatch(shape) ==
    /\ wc.forward /\ wc.push["logic"] = NoPush
    /\ wc' = Pushed([wc EXCEPT !.forward = FALSE], "logic", shape)

-----------------------------------------------------------------------------
(* The pump. *)

Act == [wc EXCEPT !.acts = @ + 1]
Idle == wc.push["pump"] = NoPush
Inside == wc.ptr[1] - wc.x \in 0 .. wc.w - 1 /\ wc.ptr[2] - wc.y \in 0 .. wc.h - 1

\* sdl_hit_test_callback, which SDL asks for the left button: what the window manager
\* does not take becomes an event.  A captured mouse is pressed outside as well.
Press(left) ==
    /\ wc.press = <<>> /\ (Inside \/ wc.held) /\ wc.acts < MaxChromeActs
    /\ LET x == wc.ptr[1] - wc.x
           y == wc.ptr[2] - wc.y
           zone == Zone(x, y, wc.w, wc.h)
       IN /\ left => zone # Title /\ ~NeedsNativeResize(zone)
          /\ wc' = [Act EXCEPT !.press = <<x, y, left>>]

\* begin_resize, whatever is dragged already; a button of the frame, its title, or the
\* client area, begins none.
HandlePress ==
    /\ Idle /\ wc.press # <<>>
    /\ LET zone == Zone(wc.press[1], wc.press[2], wc.w, wc.h)
           s == [wc EXCEPT !.press = <<>>, !.held = TRUE, !.forward = @ \/ zone = Client]
       IN wc' = IF zone \in Edges
                THEN [s EXCEPT !.zone = zone, !.left = wc.press[3],
                               !.start = [w |-> wc.w, h |-> wc.h, x |-> wc.x, y |-> wc.y,
                                          ptr |-> wc.ptr]]
                ELSE s

\* update_resize, while there is a drag.
UpdateResize(d) ==
    /\ Idle /\ wc.press = <<>> /\ wc.zone \in Edges
    /\ LET ptr == <<wc.ptr[1] + d[1], wc.ptr[2] + d[2]>>
           g == Resized(wc.zone, wc.start, ptr[1] - wc.start.ptr[1], ptr[2] - wc.start.ptr[2])
       IN wc' = [wc EXCEPT !.ptr = ptr, !.w = g.w, !.h = g.h, !.x = g.x, !.y = g.y]

\* Over the frame the pump sets the cursor, over the client area it forwards.
Hover(d) ==
    /\ Idle /\ wc.zone = Client /\ wc.press = <<>>
    /\ LET ptr == <<wc.ptr[1] + d[1], wc.ptr[2] + d[2]>>
           zone == Zone(ptr[1] - wc.x, ptr[2] - wc.y, wc.w, wc.h)
           s == [wc EXCEPT !.ptr = ptr]
       IN wc' = IF zone = Client THEN [s EXCEPT !.forward = TRUE]
                ELSE Pushed(s, "pump", CursorFor(zone))

\* The first release of any button ends the drag, or is forwarded; what end_resize
\* leaves of the drag is never read.
HandleRelease ==
    /\ Idle /\ wc.press = <<>> /\ wc.held
    /\ wc' = [wc EXCEPT !.zone = Client, !.start = NoDrag, !.left = FALSE, !.held = FALSE,
                        !.forward = @ \/ wc.zone = Client]

\* The window manager moves or resizes the window, the program calls set_size.
Reshape(size, at) ==
    /\ wc.acts < MaxChromeActs
    /\ wc' = [Act EXCEPT !.w = size[1], !.h = size[2], !.x = at, !.y = at]

Near(d) == \A i \in {1, 2} : wc.ptr[i] + d[i] \in Pixels

WcNext ==
    \/ \E t \in Threads : ApplyCursor(t)
    \/ \E shape \in Shapes : Dispatch(shape)
    \/ \E left \in BOOLEAN : Press(left)
    \/ HandlePress \/ HandleRelease
    \/ \E d \in Steps : Near(d) /\ (UpdateResize(d) \/ Hover(d))
    \/ \E size \in WindowSizes, at \in Places : Reshape(size, at)

-----------------------------------------------------------------------------
\* A resize that the program does itself for a drag of the left button, in every step,
\* never moves the window from where it was when the drag began, which Wayland forbids,
\* whatever became of the window since SDL asked for its zone, and whatever is pressed
\* or dragged besides; the edge dragged follows the pointer, down to the least size.
\* (needs_native_resize, sdl_hit_test_callback, begin_resize, resize_from_drag)
ManualNeverMoves ==
    wc.zone \in Edges /\ wc.left /\ wc'.ptr # wc.ptr =>
        /\ wc'.x = wc.start.x /\ wc'.y = wc.start.y
        /\ wc'.w = MinWidth \/ wc'.w = wc.start.w
             \/ (wc'.x + wc'.w) - wc'.ptr[1] = (wc.start.x + wc.start.w) - wc.start.ptr[1]
        /\ wc'.h = MinHeight \/ wc'.h = wc.start.h
             \/ (wc'.y + wc'.h) - wc'.ptr[2] = (wc.start.y + wc.start.h) - wc.start.ptr[2]

\* set_cursor is "the one place that knows the real OS cursor state"
\* (src/backends/sdl_window.cpp): with no call halfway, what it remembers is what
\* is shown.
CursorKnown == (\A t \in Threads : wc.push[t] = NoPush) => wc.last = wc.os
=============================================================================
