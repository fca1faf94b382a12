---------------------------- MODULE InputRouting ----------------------------
(***************************************************************************)
(* How one window routes input: route_event and the WidgetTree operations  *)
(* it calls, which keep the hovered, focused and captured widget, the      *)
(* visual flags of each node, the scrollbar drag and the open popups.      *)
(*                                                                         *)
(* The tree's input state is one record, and each operation of WidgetTree  *)
(* is an operator from such a record to the next, because a route calls    *)
(* several in a row.  A route is one step: it runs to its end on the logic *)
(* thread, and the publish that follows records every popup it opened.     *)
(* A position is what hit testing finds there: a widget, the thumb of a    *)
(* scroll container, or nothing; a popup belongs to its drop-down.         *)
(***************************************************************************)
EXTENDS Integers, Sequences, FiniteSets, SequencesExt

CONSTANTS
    Leaves,        \* widgets that hit testing can find
    Recycled,      \* those of them that are nodes of list rows, see RowInput
    Focusable,     \* those with a focus policy
    Dropdowns,     \* those of them that open a popup
    Containers,    \* scroll containers whose content overflows
    Consumers,     \* containers with ScrollEventPolicy::ConsumeAlways
    Chain,         \* [Leaves \cup Containers -> Seq(Containers)], inside out
    TreeOrder,     \* the focusable widgets in tree order, without recycled ones
    MaxOffsetOf,   \* [Containers -> Nat], content less viewport
    Track,         \* how far a thumb can move
    Ys,            \* pointer positions along a track
    Deltas,        \* scroll distances of the wheel and of the page keys
    Buttons,       \* mouse buttons in use
    KeysUsed,      \* keys in use
    None

Widgets == Leaves \cup Containers
Standing == Widgets \ Recycled    \* build_index finds them once and for all

RoutingAssumption ==
    /\ Recycled \subseteq Leaves \ Dropdowns
    /\ Focusable \subseteq Leaves
    /\ Dropdowns \subseteq Focusable
    /\ Consumers \subseteq Containers
    /\ None \notin Widgets
    /\ Chain \in [Widgets -> Seq(Containers)]
    /\ \A w \in Widgets : \A i, j \in DOMAIN Chain[w] : Chain[w][i] = Chain[w][j] => i = j
    /\ TreeOrder \in Seq(Focusable)
    /\ Range(TreeOrder) = Focusable \ Recycled
    /\ MaxOffsetOf \in [Containers -> Nat]
    /\ Track \in Nat \ {0}
    /\ Ys \subseteq Nat
    /\ Deltas \subseteq Int
    /\ KeysUsed \subseteq {"tab", "shift_tab", "page_up", "page_down", "enter", "escape"}
    /\ "page_up" \in KeysUsed => \E d \in Deltas : d < 0
    /\ "page_down" \in KeysUsed => \E d \in Deltas : d >= 0

VARIABLES
    tree,          \* the input state of the WidgetTree
    down,          \* the buttons the user holds
    heard,         \* per widget, the presses delivered and not yet released
    chord          \* history: two buttons were down at once

routingVars == <<tree, down, heard, chord>>

Flags == {"hovered", "pressed", "focused"}
NoDrag == [scroll |-> None, y |-> 0, offset |-> 0]

Tree == [index: SUBSET Widgets,                    \* index_
         order: Seq(Focusable),                    \* focus_order_
         hovered: Widgets \cup {None},             \* hovered_id_, 0 is None
         focused: Widgets \cup {None},
         captured: Widgets \cup {None},
         look: [Widgets -> SUBSET Flags],          \* visual_state of each node
         open: SUBSET Dropdowns,                   \* nodes with a popup
         offset: [Containers -> Nat],
         drag: [scroll: Containers \cup {None}, y: Nat, offset: Nat]]

\* A tree nobody has touched, with these widgets, and these to be focused in order.
FreshTree(index, order) ==
    [index |-> index, order |-> order,
     hovered |-> None, focused |-> None, captured |-> None,
     look |-> [w \in Widgets |-> {}], open |-> {},
     offset |-> [c \in Containers |-> 0], drag |-> NoDrag]

RoutingInitOver(index, order) ==
    /\ tree = FreshTree(index, order)
    /\ down = {}
    /\ heard = [w \in Widgets |-> {}]
    /\ chord = FALSE

RoutingInit == RoutingInitOver(Standing, TreeOrder)

Bounded(x, hi) == IF x < 0 THEN 0 ELSE IF x > hi THEN hi ELSE x

-----------------------------------------------------------------------------
(* Operations of WidgetTree. *)

\* A widget that is not indexed, None included, is left alone.
FlipFlag(t, w, flag, on) ==
    IF w \notin t.index THEN t
    ELSE [t EXCEPT !.look[w] = IF on THEN @ \cup {flag} ELSE @ \ {flag}]

UpdateHover(t, w) ==
    IF w = t.hovered THEN t
    ELSE FlipFlag([FlipFlag(t, t.hovered, "hovered", FALSE) EXCEPT !.hovered = w],
                  w, "hovered", TRUE)

SetPressed(t, w, on) ==
    [FlipFlag(t, w, "pressed", on) EXCEPT !.captured = IF on THEN w ELSE None]

SetFocused(t, w) ==
    IF w = t.focused \/ w \notin Range(t.order) THEN t
    ELSE FlipFlag([FlipFlag(t, t.focused, "focused", FALSE) EXCEPT !.focused = w],
                  w, "focused", TRUE)

\* (mutated) The focus goes without the ring.
ClearFocusKeepsRing(t) == [t EXCEPT !.focused = None]

ClearFocus(t) == [FlipFlag(t, t.focused, "focused", FALSE) EXCEPT !.focused = None]

\* Where the focused widget stands in the focus order, 0 when it does not.
FocusPlace(t) ==
    IF t.focused \in Range(t.order)
    THEN CHOOSE i \in DOMAIN t.order : t.order[i] = t.focused
    ELSE 0

FocusNext(t) ==
    IF t.order = <<>> THEN t
    ELSE IF FocusPlace(t) \in {0, Len(t.order)} THEN SetFocused(t, Head(t.order))
    ELSE SetFocused(t, t.order[FocusPlace(t) + 1])

FocusPrev(t) ==
    IF t.order = <<>> THEN t
    ELSE IF FocusPlace(t) \in {0, 1} THEN SetFocused(t, Last(t.order))
    ELSE SetFocused(t, t.order[FocusPlace(t) - 1])

CloseOverlays(t) == [t EXCEPT !.open = {}]

\* The innermost container that can still move, or that lets nothing through,
\* takes the scroll.
ScrollAt(t, w, d) ==
    LET chain == IF w \in t.index THEN Chain[w] ELSE <<>>
        Moved(c) == Bounded(t.offset[c] + d, MaxOffsetOf[c])
        Takes(i) == Moved(chain[i]) # t.offset[chain[i]] \/ chain[i] \in Consumers
        takers == {i \in DOMAIN chain : Takes(i)}
        first == CHOOSE i \in takers : \A j \in takers : i <= j
    IN  IF takers = {} THEN t
        ELSE [t EXCEPT !.offset[chain[first]] = Moved(chain[first])]

BeginDrag(t, c, y) ==
    [t EXCEPT !.drag = [scroll |-> c, y |-> y, offset |-> t.offset[c]], !.captured = c]

\* The thumb covers its track while the content covers its overflow.
UpdateDrag(t, y) ==
    LET c == t.drag.scroll
        new == t.drag.offset + ((y - t.drag.y) * MaxOffsetOf[c]) \div Track
    IN  [t EXCEPT !.offset[c] = Bounded(new, MaxOffsetOf[c])]

EndDrag(t) == [t EXCEPT !.drag = NoDrag]

Dragging(t) == t.drag.scroll # None

-----------------------------------------------------------------------------
(* What a widget's handler does with the event dispatched to it. *)

HandlePress(t, w) ==
    IF w \notin t.index \cap Dropdowns THEN t
    ELSE [t EXCEPT !.open = IF w \in @ THEN @ \ {w} ELSE @ \cup {w}]

HandleKey(t, w, k) ==
    IF w \notin t.index \cap Dropdowns THEN t
    ELSE [t EXCEPT !.open = CASE w \in @ -> @ \ {w}
                              [] w \notin @ /\ k = "enter" -> @ \cup {w}
                              [] OTHER -> @]

\* History; of no use after a chord.
HearPress(t, w, b) ==
    heard' = IF chord' THEN [v \in Widgets |-> {}]
             ELSE IF w \in t.index THEN [heard EXCEPT ![w] = @ \cup {b}] ELSE heard
HearRelease(t, w, b) ==
    heard' = IF w \in t.index THEN [heard EXCEPT ![w] = @ \ {b}] ELSE heard

-----------------------------------------------------------------------------
(* The routes; w is what hit testing found, None for nothing. *)

RouteMouseMove(w) ==
    LET t == UpdateHover(tree, w)
    IN  /\ IF Dragging(t) THEN \E y \in Ys : tree' = UpdateDrag(t, y) ELSE tree' = t
        /\ UNCHANGED <<down, heard, chord>>

\* (mutated) The pressed widget has the focus before the popups are looked at.
PressWidgetFocusFirst(t, w) ==
    LET focused == SetFocused(SetPressed(t, w, TRUE), w)
    IN  HandlePress(IF w = focused.focused THEN focused ELSE CloseOverlays(focused), w)

\* A press on a widget: capture, popups of the others, focus, dispatch.
PressWidget(t, w) ==
    LET pressed == SetPressed(t, w, TRUE)
        closed  == IF w = t.focused THEN pressed ELSE CloseOverlays(pressed)
    IN  HandlePress(SetFocused(closed, w), w)

\* Bound: a second button pressed while one is down is the last press.
RoutePress(w, b) ==
    /\ ~chord /\ b \notin down
    /\ down' = down \cup {b}
    /\ chord' = (chord \/ down # {})
    /\ \/ /\ w \in Containers
          /\ \E y \in Ys : tree' = BeginDrag(tree, w, y)
          /\ HearPress(tree, None, b)
       \/ /\ w \in Leaves
          /\ tree' = PressWidget(tree, w)
          /\ HearPress(tree, w, b)
       \/ /\ w = None
          /\ tree' = ClearFocus(CloseOverlays(tree))
          /\ HearPress(tree, None, b)

\* (mutated) The release goes to the widget under the pointer.
RouteReleaseHere(w, b) ==
    /\ b \in down
    /\ down' = down \ {b}
    /\ tree' = SetPressed(EndDrag(tree), IF Dragging(tree) THEN tree.captured ELSE w, FALSE)
    /\ IF w # None THEN HearRelease(tree, w, b) ELSE UNCHANGED heard
    /\ UNCHANGED chord

\* (mutated) The capture is looked at before the drag.
RouteReleaseCaptureFirst(w, b) ==
    /\ b \in down
    /\ down' = down \ {b}
    /\ UNCHANGED chord
    /\ IF tree.captured # None
       THEN /\ tree' = SetPressed(tree, tree.captured, FALSE)
            /\ HearRelease(tree, tree.captured, b)
       ELSE tree' = EndDrag(tree) /\ UNCHANGED heard

RouteRelease(w, b) ==
    /\ b \in down
    /\ down' = down \ {b}
    /\ UNCHANGED chord
    /\ \/ /\ Dragging(tree)
          /\ tree' = SetPressed(EndDrag(tree), tree.captured, FALSE)
          /\ UNCHANGED heard
       \/ /\ ~Dragging(tree)
          /\ tree.captured # None
          /\ tree' = SetPressed(tree, tree.captured, FALSE)
          /\ HearRelease(tree, tree.captured, b)
       \/ /\ ~Dragging(tree)
          /\ tree.captured = None
          /\ w # None
          /\ tree' = SetPressed(tree, w, FALSE)
          /\ HearRelease(tree, w, b)
       \/ /\ ~Dragging(tree)
          /\ tree.captured = None
          /\ w = None
          /\ UNCHANGED <<tree, heard>>

RouteMouseScroll(w, d) ==
    /\ w # None
    /\ tree' = ScrollAt(tree, w, d)
    /\ UNCHANGED <<down, heard, chord>>

RouteKeyPress(k) ==
    /\ tree' = CASE k = "tab"       -> FocusNext(tree)
                 [] k = "shift_tab" -> FocusPrev(tree)
                 [] k \in {"page_up", "page_down"} /\ tree.focused # None ->
                      \* the page distance has the key's sign
                      LET d == CHOOSE x \in Deltas : (x < 0) = (k = "page_up")
                      IN  ScrollAt(tree, tree.focused, d)
                 [] OTHER -> HandleKey(tree, tree.focused, k)
    /\ UNCHANGED <<down, heard, chord>>

\* Hit testing finds what the last snapshot shows.
Shown == tree.index \cup {None}

RoutingNext ==
    \/ \E w \in Shown : RouteMouseMove(w)
    \/ \E w \in Shown, b \in Buttons : RoutePress(w, b)
    \/ \E w \in Shown, b \in Buttons : RouteRelease(w, b)
    \/ \E w \in Shown, d \in Deltas : RouteMouseScroll(w, d)
    \/ \E k \in KeysUsed : RouteKeyPress(k)

RoutingSpec == RoutingInit /\ [][RoutingNext]_routingVars

-----------------------------------------------------------------------------
(* Type invariant: the tree's record and the ghosts have their types. *)
RoutingTypeOK ==
    /\ tree \in Tree
    /\ down \subseteq Buttons
    /\ heard \in [Widgets -> SUBSET Buttons]
    /\ chord \in BOOLEAN

\* What the widgets show is what the tree believes: exactly the hovered widget
\* looks hovered, the focused one focused, and the captured one pressed unless
\* it was captured by dragging its thumb.  A second button pressed while one is
\* down moves the capture and strands the first one's look; the row of a list may
\* have been given the node of another.  (update_hover, set_focused, set_pressed)
LooksMatch ==
    \A w \in tree.index \ Recycled :
        /\ "hovered" \in tree.look[w] <=> tree.hovered = w
        /\ "focused" \in tree.look[w] <=> tree.focused = w
        /\ chord \/ ("pressed" \in tree.look[w] <=> tree.captured = w /\ ~Dragging(tree))

\* A widget that heard a press keeps the capture until it hears the release,
\* wherever the pointer is by then.  (route_event, the capture)
ReleaseReachesPressed ==
    ~chord => \A w \in Standing : heard[w] # {} => tree.captured = w

PopupOfFocused == \A w \in tree.open : tree.focused = w
TabPressed == \E k \in KeysUsed \cap {"tab", "shift_tab"} : RouteKeyPress(k)

\* An open popup is the popup of the focused widget, whatever is pressed where;
\* only Tab and Shift+Tab move the focus away from under it.  (set_focused, clear_focus,
\* close_overlays)
PopupKept == [][PopupOfFocused => PopupOfFocused' \/ TabPressed]_routingVars

\* A thumb is held no longer than a button is, and whatever is hovered, scrolled, typed
\* or closed meanwhile, it has the capture and no widget waits for the release that will
\* end the drag.  A second button may take the capture away.  (begin_scrollbar_drag,
\* end_scrollbar_drag, route_event)
DragHeld ==
    Dragging(tree) =>
        /\ down # {}
        /\ chord \/ /\ tree.captured = tree.drag.scroll
                    /\ \A w \in Standing : heard[w] = {}
=============================================================================
