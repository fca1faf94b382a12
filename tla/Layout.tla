------------------------------- MODULE Layout -------------------------------
(***************************************************************************)
(* build_snapshot over a fixed tree: measure, arrange, learn viewports,    *)
(* rescale split panes, re-record what changed size, flatten with the      *)
(* per-widget cache.  Between two builds the user drags a split handle,    *)
(* turns the wheel or resizes the window, and the application changes what *)
(* a widget draws.  Every event is one task of the logic thread, which     *)
(* publishes at its end if anything is dirty.                              *)
(*                                                                         *)
(* Lengths are floats in the code and integers here: a share of what is    *)
(* left is rounded down, and rescaled panes are rounded at their           *)
(* boundaries, so that their sum is exact.  What a widget draws is a       *)
(* version and the size it was drawn for.                                  *)
(***************************************************************************)
EXTENDS Integers, Sequences, FiniteSets, SequencesExt, FiniteSetsExt, TLC

CONSTANTS
    Tree,          \* node |-> sequence of its children
    Kind,          \* node |-> LayoutKind
    Changing,      \* the widgets whose content changes
    Expands,       \* the leaves that expand along their parent's axis
    Root,
    Thickness,     \* splitter::thickness_px
    MinPane,       \* splitter::min_pane_size_px
    LeafBox,       \* what a leaf draws before it knows its size
    Windows,       \* the window sizes used
    Pointers,      \* positions of the mouse along a split
    Wheels,        \* scroll steps
    MaxTouches,    \* bound: changes of what a widget draws
    MaxResizes     \* bound: resizes

VARIABLE ui

Nodes == DOMAIN Tree
Containers == {n \in Nodes : Kind[n] \in {"row", "column", "scroll"}}
Drawn == {n \in Nodes : Kind[n] \in {"leaf", "canvas", "handle"}}
Handles == {n \in Nodes : Kind[n] = "handle"}
Scrolls == {n \in Nodes : Kind[n] = "scroll"}

\* The tree's shape, per node.
Parent == [n \in Nodes \ {Root} |-> CHOOSE p \in Nodes : n \in Range(Tree[p])]
Preorder[n \in Nodes] ==
    <<n>> \o FlattenSeq([i \in DOMAIN Tree[n] |-> Preorder[Tree[n][i]]])
TopDown == Preorder[Root]

IsPane(n) == Kind[n] # "handle"
Panes == [n \in Nodes |-> SelectSeq(Tree[n], IsPane)]
Earlier == [n \in Nodes \ {Root} |->
               LET i == CHOOSE j \in DOMAIN Tree[Parent[n]] : Tree[Parent[n]][j] = n
               IN  SubSeq(Tree[Parent[n]], 1, i - 1)]

\* How many panes stand before a node.  A handle's pair begins with the last of
\* them: panes are counted, as several may stand between two handles.
PanesBefore == [n \in Nodes \ {Root} |-> Len(SelectSeq(Earlier[n], IsPane))]

\* The containers wire_split_handles gives drag handles to.
Splits == {n \in Nodes : Kind[n] \in {"row", "column"} /\ Range(Tree[n]) \cap Handles # {}}

Horizontal(n) == Kind[n] = "row"
MainOf(n, rect) == IF Horizontal(n) THEN rect.w ELSE rect.h
StartOf(n, rect) == IF Horizontal(n) THEN rect.x ELSE rect.y

TotalOf(s) == LET sum[i \in 0..Len(s)] == IF i = 0 THEN 0 ELSE sum[i - 1] + s[i]
              IN  sum[Len(s)]
HighOf(a, b) == IF a >= b THEN a ELSE b
LowOf(a, b) == IF a <= b THEN a ELSE b
Clamp(x, lo, hi) == HighOf(lo, LowOf(x, hi))

ASSUME LayoutAssumption ==
    /\ Root \in Nodes
    /\ \A n \in Nodes \ {Root} : \E p \in Containers : n \in Range(Tree[p])
    \* A handle stands between two panes of a row or column.
    /\ \A h \in Handles : /\ Parent[h] \in Splits
                          /\ PanesBefore[h] \in 1..Len(Panes[Parent[h]]) - 1
    /\ Thickness \in Nat \ {0} /\ MinPane \in Nat
    /\ Changing \subseteq Drawn
    /\ MaxTouches \in Nat /\ MaxResizes \in Nat

-----------------------------------------------------------------------------
(* Measuring. *)

Hint(pref, cross, expand) == [pref |-> pref, cross |-> cross, expand |-> expand]

\* The pane sizes of an engaged split stand for what its panes ask for.
Overridden(st, n) ==
    /\ n # Root
    /\ IsPane(n)
    /\ Parent[n] \in Splits
    /\ st.sizes[Parent[n]] # <<>>

\* What a child asks for along p's axis.
Asks(st, c, wish) ==
    IF Overridden(st, c) THEN st.sizes[Parent[c]][PanesBefore[c] + 1] ELSE wish[c].pref

\* A container asks for all of its children one after the other and for the
\* largest across; measured along the other axis it is the other way round.
ContainerHint(aligned, main, cross, expand) ==
    IF aligned THEN Hint(main, cross, expand) ELSE Hint(cross, main, expand)

\* What a node asks for along its parent's axis (pref) and across it; a
\* pane's wish to expand counts for its container even when it is overridden.
Wish(st, n, wish) ==
    LET across == n # Root /\ Horizontal(Parent[n])   \* measured along a row
        box == st.drawn[n].box
        cross == Max({0} \cup {wish[c].cross : c \in Range(Tree[n])})
    IN  CASE Kind[n] \in {"spacer", "canvas"} -> Hint(0, 0, TRUE)
          [] Kind[n] = "handle" -> Hint(Thickness, 0, FALSE)
          [] Kind[n] = "scroll" -> Hint(0, cross, TRUE)
          [] Kind[n] = "leaf" -> IF across THEN Hint(box.w, box.h, n \in Expands)
                                 ELSE Hint(box.h, box.w, n \in Expands)
          [] OTHER -> ContainerHint(across <=> Horizontal(n),
                          TotalOf([i \in DOMAIN Tree[n] |-> Asks(st, Tree[n][i], wish)]),
                          cross, \E c \in Range(Tree[n]) : wish[c].expand)

\* layout_measure, children before parents.
WishAdded(st, n, wish) == (n :> Wish(st, n, wish)) @@ wish
Wishes(st) ==
    LET from[i \in 1..Len(TopDown) + 1] ==
            IF i > Len(TopDown) THEN <<>> ELSE WishAdded(st, TopDown[i], from[i + 1])
    IN  from[1]

(* Arranging: the rectangle of each node, from its parent's. *)

Rect(x, y, w, h) == [x |-> x, y |-> y, w |-> w, h |-> h]

\* The expanders of a row or column share what the others leave.
Grows(st, c, wish) == wish[c].expand /\ ~Overridden(st, c)
Share(st, p, area, wish) ==
    HighOf(0, MainOf(p, area)
                - TotalOf([i \in DOMAIN Tree[p] |->
                              IF Grows(st, Tree[p][i], wish) THEN 0
                              ELSE Asks(st, Tree[p][i], wish)]))
        \div Cardinality({c \in Range(Tree[p]) : Grows(st, c, wish)})

\* What a child of p gets along p; share is that of an expander.
ExtentOf(st, p, c, area, wish, share) ==
    CASE Kind[p] = "scroll" -> IF wish[c].expand THEN HighOf(wish[c].pref, area.h)
                               ELSE wish[c].pref
      [] Kind[p] # "scroll" /\ Grows(st, c, wish) -> share
      [] OTHER -> Asks(st, c, wish)

Extents(st, p, area, wish) ==
    LET share == Share(st, p, area, wish)
    IN  [i \in DOMAIN Tree[p] |-> ExtentOf(st, p, Tree[p][i], area, wish, share)]

\* The children of p, one after the other, with the extents given.
Lined(p, area, extents) ==
    LET rect(start, extent) ==
            IF Horizontal(p) THEN Rect(area.x + start, area.y, extent, area.h)
            ELSE Rect(area.x, area.y + start, area.w, extent)
    IN  [c \in Range(Tree[p]) |-> rect(TotalOf(SubSeq(extents, 1, Len(Earlier[c]))),
                                       extents[Len(Earlier[c]) + 1])]

PlacedIn(st, p, at, wish) ==
    IF p \in Containers THEN at @@ Lined(p, at[p], Extents(st, p, at[p], wish)) ELSE at

\* layout_arrange, parents before children.
ArrangedFor(st, wish) ==
    LET upTo[i \in 0..Len(TopDown)] ==
            IF i = 0 THEN Root :> Rect(0, 0, st.win.w, st.win.h)
            ELSE PlacedIn(st, TopDown[i], upTo[i - 1], wish)
    IN  upTo[Len(TopDown)]

Arranged(st) == ArrangedFor(st, Wishes(st))

-----------------------------------------------------------------------------
(* build_snapshot, in its order. *)

\* A widget without a size draws the default one.
BoxFor(bounds) == [w |-> IF bounds.w > 0 THEN bounds.w ELSE LeafBox.w,
                   h |-> IF bounds.h > 0 THEN bounds.h ELSE LeafBox.h]

\* record(): a widget draws what it holds, for the size it was last given.
Recorded(st, ns) ==
    [st EXCEPT !.drawn = [n \in Nodes |->
        IF n \in ns \cap Drawn
        THEN [version |-> st.content[n],
              box |-> IF Kind[n] = "leaf" THEN BoxFor(st.bounds[n]) ELSE st.bounds[n]]
        ELSE @[n]]]

ContentHeight(n, at) == TotalOf([i \in DOMAIN Tree[n] |-> at[Tree[n][i]].h])
ScrollLimit(n, at) == HighOf(0, ContentHeight(n, at) - at[n].h)

\* update_scroll_state: viewports are learnt, offsets clamped.
ScrollsLearn(st) ==
    [st EXCEPT !.limit = [n \in Scrolls |-> ScrollLimit(n, st.at)],
               !.offset = [n \in Scrolls |-> Clamp(@[n], 0, ScrollLimit(n, st.at))]]

Room(n, at) == MainOf(n, at[n]) - Thickness * Cardinality(Range(Tree[n]) \cap Handles)

\* sizes * room / total, rounded where one pane meets the next.
Rescaled(s, room) ==
    LET total == TotalOf(s)
        edge(i) == (TotalOf(SubSeq(s, 1, i)) * room) \div total
    IN  [i \in DOMAIN s |-> edge(i) - edge(i - 1)]

\* A container without room, or with panes that no longer have a total,
\* keeps what it has.
NeedsRescale(st, n) ==
    /\ st.sizes[n] # <<>>
    /\ TotalOf(st.sizes[n]) > 0
    /\ TotalOf(st.sizes[n]) # Room(n, st.at)

\* (mutated) The handles' thickness is forgotten.
SplitsRescaleWhole(st) ==
    LET off == {n \in Splits : NeedsRescale(st, n)}
    IN  [st EXCEPT !.sizes = [n \in Splits |->
                       IF n \in off THEN Rescaled(@[n], MainOf(n, st.at[n])) ELSE @[n]],
                   !.lag = off # {}]

\* update_split_state comes after the panes were placed: this build shows the
\* sizes from before, and lag remembers that it does.
SplitsRescale(st) ==
    LET off == {n \in Splits : NeedsRescale(st, n)}
    IN  [st EXCEPT !.sizes = [n \in Splits |->
                       IF n \in off THEN Rescaled(@[n], Room(n, st.at)) ELSE @[n]],
                   !.lag = off # {}]

Extent(r) == [w |-> r.w, h |-> r.h]

\* update_canvas_bounds: what was given another size is recorded again.
Resized(st) ==
    LET ns == {n \in Drawn : st.bounds[n] # Extent(st.at[n])}
    IN  Recorded([st EXCEPT !.bounds = [n \in Nodes |->
                                IF n \in ns THEN Extent(st.at[n]) ELSE @[n]]], ns)

Clipped(n) == n # Root /\ Kind[Parent[n]] = "scroll"
OnScreen(st, n) ==
    LET r == st.at[n]
    IN  IF Clipped(n) THEN [r EXCEPT !.y = @ - st.offset[Parent[n]]] ELSE r

InView(st, n) ==
    Clipped(n) => LET r == OnScreen(st, n)
                      vp == st.at[Parent[n]]
                  IN  r.y + r.h > vp.y /\ r.y < vp.y + vp.h

Entry(rect, drawn) == [rect |-> rect, drawn |-> drawn]

\* (mutated) A clean widget is taken to be where it was.
CacheHitAnywhere(st, n) == ~Clipped(n) /\ n \notin st.dirty /\ st.cache[n] # {}

\* The entry of the last frame is used again when the widget is clean and at
\* the same place.
CacheHit(st, n) ==
    /\ ~Clipped(n)
    /\ n \notin st.dirty
    /\ \E e \in st.cache[n] : e.rect = st.at[n]

Flattened(st) ==
    LET entry(n) == IF CacheHit(st, n) THEN st.cache[n]
                    ELSE IF InView(st, n) THEN {Entry(OnScreen(st, n), st.drawn[n])}
                    ELSE {}
    IN  [st EXCEPT !.screen = [n \in Drawn |-> entry(n)],
                   !.cache = [n \in Drawn |-> IF Clipped(n) THEN @[n] ELSE entry(n)]]

Placed(st) == [st EXCEPT !.at = Arranged(st)]

\* Publishing, and clear_dirty after it.
Published(st) ==
    [Flattened(Resized(SplitsRescale(ScrollsLearn(Placed(Recorded(st, st.dirty))))))
        EXCEPT !.dirty = {}]

-----------------------------------------------------------------------------
(* Events: what each handler does, and the publish at the end of its task. *)

\* The sizes a split starts from are those its panes were last given.
Engaged(st, n) ==
    IF st.sizes[n] # <<>> THEN st.sizes[n]
    ELSE [i \in DOMAIN Panes[n] |-> MainOf(n, st.at[Panes[n][i]])]

\* begin_split_drag.  (history: where the handle was, and whether what is on
\* the screen fills the container)
BeginDrag(st, h, p) ==
    LET n == Parent[h]
        sizes == Engaged(st, n)
        i == PanesBefore[h]
    IN  [st EXCEPT !.sizes[n] = sizes,
                   !.drag = {[handle |-> h, anchor |-> p,
                              before |-> sizes[i], after |-> sizes[i + 1],
                              others |-> RemoveAt(RemoveAt(sizes, i), i),
                              start |-> StartOf(n, st.at[h]),
                              sure |-> TotalOf(sizes) = Room(n, st.at) /\ ~st.lag]}]

\* What the two panes become: first the near one is kept at the minimum, at the
\* cost of the far one, then the far one at the cost of the near one.
DragPanes(before, after, delta) ==
    LET b1 == HighOf(before + delta, MinPane)
        a1 == after - delta - (b1 - (before + delta))
        a2 == HighOf(a1, MinPane)
    IN  <<b1 - (a2 - a1), a2>>

\* update_split_drag, from the sizes remembered when the drag began.
MoveDrag(st, d, p) ==
    LET n == Parent[d.handle]
        pair == DragPanes(d.before, d.after, p - d.anchor)
    IN  [st EXCEPT !.sizes[n] = [@ EXCEPT ![PanesBefore[d.handle]] = pair[1],
                                          ![PanesBefore[d.handle] + 1] = pair[2]],
                   !.pointer = p,
                   !.dirty = @ \cup {n}]

Press(h, p) ==
    LET n == Parent[h]
        start == StartOf(n, ui.at[h])
    IN  /\ ui.drag = {}
        /\ p >= start /\ p < start + MainOf(n, ui.at[h])
        /\ ui' = Published([BeginDrag(ui, h, p) EXCEPT !.pointer = p, !.dirty = @ \cup {h}])

Move(p) ==
    \E d \in ui.drag : ui' = Published(MoveDrag(ui, d, p))

Release ==
    \E d \in ui.drag : ui' = Published([ui EXCEPT !.drag = {}, !.dirty = @ \cup {d.handle}])

\* scroll_at: the wheel over what a scroll container shows.
Wheel(n, delta) ==
    LET new == Clamp(ui.offset[n] + delta, 0, ui.limit[n])
    IN  /\ new # ui.offset[n]
        /\ ui' = Published([ui EXCEPT !.offset[n] = new, !.dirty = @ \cup {n}])

\* A field, or the hover and focus flags, change what a widget draws.
Touch(n) ==
    /\ ui.touches < MaxTouches
    /\ ui' = Published([ui EXCEPT !.content[n] = 1 - @, !.touches = @ + 1,
                                  !.dirty = @ \cup {n}])

\* WindowResize publishes whatever is dirty.
Resize(win) ==
    /\ ui.resizes < MaxResizes
    /\ win # ui.win
    /\ ui' = Published([ui EXCEPT !.win = win, !.resizes = @ + 1,
                                  !.drag = {[d EXCEPT !.sure = FALSE] : d \in @}])

Zero == [w |-> 0, h |-> 0]

\* The state before the first build: every widget dirty, none drawn for a size.
Fresh(win) ==
    [win |-> win,
     content |-> [n \in Drawn |-> 0],
     dirty |-> Nodes,
     bounds |-> [n \in Nodes |-> Zero],
     drawn |-> [n \in Nodes |-> [version |-> 0, box |-> Zero]],
     at |-> [n \in Nodes |-> Rect(0, 0, 0, 0)],
     sizes |-> [n \in Splits |-> <<>>],
     offset |-> [n \in Scrolls |-> 0],
     limit |-> [n \in Scrolls |-> 0],
     cache |-> [n \in Drawn |-> {}],
     screen |-> [n \in Drawn |-> {}],
     drag |-> {}, pointer |-> 0,
     lag |-> FALSE, touches |-> 0, resizes |-> 0]

LayoutInit == \E win \in Windows : ui = Published(Fresh(win))

LayoutNext ==
    \/ \E h \in Handles, p \in Pointers : Press(h, p)
    \/ \E p \in Pointers : Move(p)
    \/ Release
    \/ \E n \in Scrolls, d \in Wheels : Wheel(n, d)
    \/ \E n \in Changing : Touch(n)
    \/ \E win \in Windows : Resize(win)

LayoutSpec == LayoutInit /\ [][LayoutNext]_ui

-----------------------------------------------------------------------------
\* Type invariant.
LayoutTypeOK ==
    /\ ui.win \in Windows
    /\ ui.dirty \subseteq Nodes
    /\ \A n \in Splits : ui.sizes[n] = <<>> \/ Len(ui.sizes[n]) = Len(Panes[n])
    /\ Cardinality(ui.drag) <= 1
    /\ \A n \in Scrolls : ui.offset[n] \in Nat

\* What is on the screen is what a build that trusts neither the cache of
\* translated draw lists nor the sizes recorded earlier would show: each widget
\* in view where layout places it now, drawn with what it holds now and for
\* the size it has now.
ScreenCurrent ==
    /\ ui.dirty = {}
    /\ \A n \in Drawn :
          LET drawn == [version |-> ui.content[n],
                        box |-> IF Kind[n] = "leaf" THEN BoxFor(Extent(ui.at[n]))
                                ELSE Extent(ui.at[n])]
          IN  ui.screen[n] = IF InView(ui, n) THEN {Entry(OnScreen(ui, n), drawn)} ELSE {}

\* Were every flag dirty and the caches empty, one more build would change
\* nothing on the screen, unless the last one rescaled a split; then it takes
\* one more, and no third.  Layout measures what was drawn for the last layout,
\* so this says that the two do not chase each other.
SettlesInTwo ==
    LET again(st) == Published([st EXCEPT !.dirty = Nodes,
                                          !.cache = [n \in Drawn |-> {}]])
        settled(st) == again(st).screen = st.screen
    IN  settled(IF ui.lag THEN again(ui) ELSE ui)

\* Once a split was engaged, the sizes kept for its panes add up to the room its
\* container has now, and its panes and handles fill the container on the screen,
\* after a resize from the second build on; unless it was squeezed so that no
\* pane had any room.
PanesFill ==
    \A n \in Splits :
        (ui.sizes[n] # <<>> /\ TotalOf(ui.sizes[n]) > 0) =>
            /\ TotalOf(ui.sizes[n]) = Room(n, ui.at)
            /\ ~ui.lag => TotalOf([i \in DOMAIN Tree[n] |-> MainOf(n, ui.at[Tree[n][i]])])
                            = MainOf(n, ui.at[n])

\* While a handle is dragged and the window keeps its size, the handle stays
\* under the pointer, as far as the two panes next to it can give, and no
\* other pane moves; provided that the panes on the screen filled the
\* container when the drag began and that neither neighbour was below the
\* minimum.
HandleFollows ==
    \A d \in ui.drag :
        LET n == Parent[d.handle]
            i == PanesBefore[d.handle]
        IN  (d.sure /\ d.before >= MinPane /\ d.after >= MinPane) =>
               /\ StartOf(n, ui.at[d.handle]) =
                     d.start + Clamp(ui.pointer - d.anchor, MinPane - d.before,
                                     d.after - MinPane)
               /\ RemoveAt(RemoveAt(ui.sizes[n], i), i) = d.others
=============================================================================
