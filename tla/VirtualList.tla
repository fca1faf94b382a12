---------------------------- MODULE VirtualList ----------------------------
(***************************************************************************)
(* A virtualised list: ViewBuilder::list() over a List<T>, the nodes that  *)
(* WidgetTree materialises for the rows in view, and the pool the other    *)
(* nodes wait in.                                                          *)
(*                                                                         *)
(* The list and its view are two states kept in step by signals.  A        *)
(* mutation only adjusts a counter and marks the container dirty; the next *)
(* build_snapshot unbinds every row, computes the range in view from the   *)
(* scroll offset, binds it anew, lays out (which is where the viewport     *)
(* height is learnt and the offset clamped), and repeats the binding only  *)
(* if the viewport height changed.                                         *)
(*                                                                         *)
(* Heights and offsets are floats in the code and naturals here: a row is  *)
(* RowH units high, so offsets fall between rows as they do in pixels.     *)
(***************************************************************************)
EXTENDS Integers, Sequences, SequencesExt

CONSTANTS
    Keys,          \* what tells one item from another
    RowH,          \* the height the probe measures
    Overscan,      \* VirtualListState::overscan
    Heights,       \* the heights the window may give the container
    Deltas,        \* wheel steps
    MaxBatch,      \* bound: mutations between two publishes
    MaxErases      \* bound: erasures between two publishes

ConstantsAssumption ==
    /\ RowH \in Nat \ {0}
    /\ Overscan \in Nat
    /\ Heights \subseteq Nat \ {0}
    /\ Deltas \subseteq Int
    /\ MaxBatch \in Nat
    /\ MaxErases \in Nat

VARIABLES
    items,         \* List<T>::items_
    count,         \* VirtualListState::item_count, kept by the signals
    view,          \* the container: measured height, offset, viewport, rows, pool
    winH,          \* the height the window's layout gives the container
    dirty,         \* the container's dirty flag
    failed,        \* did the last build throw?
    batch,         \* mutations and erasures since the last publish
    late           \* history: a row was edited after an erasure, before the publish

vars == <<items, count, view, winH, dirty, failed, batch, late>>

Item == [key: Keys, val: 0..1]
Row  == [id: Nat, index: Nat, item: Item]
View == [itemH: Nat, offset: Nat, vp: Nat, rows: Seq(Row), pool: Seq(Nat),
         nextId: Nat, from: Nat, to: Nat]

LowOf(a, b)  == IF a <= b THEN a ELSE b
HighOf(a, b) == IF a >= b THEN a ELSE b

Clamp(x, lo, hi) == HighOf(lo, LowOf(x, hi))
CeilDiv(a, b) == (a + b - 1) \div b

Init ==
    /\ items = <<>>
    /\ count = 0
    /\ view = [itemH |-> 0, offset |-> 0, vp |-> 0, rows |-> <<>>, pool |-> <<>>,
               nextId |-> 0, from |-> 0, to |-> 0]
    /\ winH \in Heights
    /\ dirty = TRUE
    /\ failed = FALSE
    /\ batch = [mutations |-> 0, erases |-> 0]
    /\ late = FALSE

-----------------------------------------------------------------------------
(* What build_snapshot does to the container. *)

MaxOffset(v) == HighOf(0, count * v.itemH - v.vp)

\* (mutated) The end of the range is rounded down.
VisibleRangeFloor(v) ==
    IF count = 0 \/ v.itemH = 0
    THEN [from |-> 0, to |-> 0]
    ELSE [from |-> HighOf(0, (v.offset \div v.itemH) - Overscan),
          to   |-> LowOf((v.offset + v.vp) \div v.itemH, count)]

\* The range as computed: the start is not clamped to the count, so it can
\* lie past the end.
VisibleRange(v) ==
    IF count = 0 \/ v.itemH = 0
    THEN [from |-> 0, to |-> 0]
    ELSE [from |-> HighOf(0, (v.offset \div v.itemH) - Overscan),
          to   |-> LowOf(CeilDiv(v.offset + v.vp, v.itemH) + Overscan, count)]

\* Binding a probe to item 0 tells the row height; the probe takes an id.
Measure(v) ==
    IF v.itemH = 0 /\ count > 0
    THEN [v EXCEPT !.itemH = RowH, !.nextId = @ + 1]
    ELSE v

\* Rows go to the pool last row first, so that the top of the pool is row one.
Unbind(v) ==
    [v EXCEPT !.rows = <<>>,
              !.pool = @ \o Reverse([j \in 1..Len(v.rows) |-> v.rows[j].id])]

\* Each row takes the node on top of the pool, or a new one.
Bind(v, range) ==
    LET size == range.to - range.from
        kept == Len(v.pool)
        NodeOf(j) == IF j <= kept THEN v.pool[kept - j + 1] ELSE v.nextId + j - kept - 1
        RowOf(j)  == [id |-> NodeOf(j), index |-> range.from + j - 1,
                      item |-> items[range.from + j]]
    IN  [v EXCEPT !.rows = [j \in 1..size |-> RowOf(j)],
                  !.pool = SubSeq(@, 1, kept - LowOf(kept, size)),
                  !.nextId = @ + HighOf(0, size - kept),
                  !.from = range.from,
                  !.to = range.to]

\* new_end - new_start is unsigned: a range that starts past its end asks the
\* vector for room it cannot have, and the build throws with the rows unbound.
Throws(v) == LET range == VisibleRange(Measure(v)) IN range.from > range.to

Materialize(v) ==
    LET m == Measure(v)
    IN  IF Throws(v) THEN Unbind(m) ELSE Bind(Unbind(m), VisibleRange(m))

Arrange(v) ==
    LET w == [v EXCEPT !.vp = winH]
    IN  [w EXCEPT !.offset = Clamp(@, 0, MaxOffset(w))]

\* One build_snapshot, and clear_dirty when it returns.
Publish ==
    LET bound == Materialize(view)
        laid  == Arrange(bound)
        again == laid.vp # bound.vp
        throws == Throws(view) \/ (again /\ Throws(laid))
    IN  /\ view' = IF Throws(view) THEN bound
                   ELSE IF again THEN Arrange(Materialize(laid))
                   ELSE laid
        /\ failed' = throws
        /\ dirty' = throws
        /\ batch' = [mutations |-> 0, erases |-> 0]
        /\ UNCHANGED <<items, count, winH, late>>

-----------------------------------------------------------------------------
(* What the application, the user and the window do in between. *)

\* Bound: a list with a late edit is not changed again.
Mutate(erases) ==
    /\ ~late
    /\ batch.mutations < MaxBatch
    /\ batch.erases + erases <= MaxErases
    /\ batch' = [mutations |-> batch.mutations + 1, erases |-> batch.erases + erases]
    /\ dirty' = TRUE

PushBack(k) ==
    /\ \A i \in DOMAIN items : items[i].key # k
    /\ Mutate(0)
    /\ items' = Append(items, [key |-> k, val |-> 0])
    /\ count' = count + 1
    /\ UNCHANGED <<view, winH, failed, late>>

Erase(i) ==
    /\ i \in DOMAIN items
    /\ Mutate(1)
    /\ items' = RemoveAt(items, i)
    /\ count' = IF count > 0 THEN count - 1 ELSE count
    /\ UNCHANGED <<view, winH, failed, late>>

SetItem(i) ==
    /\ i \in DOMAIN items
    /\ Mutate(0)
    /\ items' = [items EXCEPT ![i].val = 1 - @]
    /\ UNCHANGED <<count, view, winH, failed, late>>

\* A row's widget changes its copy of the item, and the copy is written back
\* at the index the row was bound to.  Rows take edits while the container is
\* dirty as well: a global key handler, which may change the list, runs first.
EditRow(j) ==
    LET row == view.rows[j]
        new == [row.item EXCEPT !.val = 1 - @]
    IN  /\ j \in DOMAIN view.rows
        /\ Mutate(0)
        /\ late' = (late \/ batch.erases > 0)
        /\ view' = [view EXCEPT !.rows[j].item = new]
        /\ items' = IF row.index < Len(items)
                    THEN [items EXCEPT ![row.index + 1] = new] ELSE items
        /\ UNCHANGED <<count, winH, failed>>

ScrollTo(offset) ==
    /\ view' = [view EXCEPT !.offset = offset]
    /\ dirty' = TRUE
    /\ UNCHANGED <<items, count, winH, failed, batch, late>>

\* scroll_at: the wheel over a row, or a page key.
Scroll(d) ==
    LET new == Clamp(view.offset + d, 0, MaxOffset(view))
    IN  /\ view.vp > 0
        /\ new # view.offset
        /\ ScrollTo(new)

\* scroll_row_into_view: just far enough for row i (from 0) to be in view.
RevealRow(i) ==
    LET top == i * view.itemH
        bottom == top + view.itemH
    IN  /\ view.vp > 0
        /\ i < count
        /\ \/ /\ bottom > view.offset + view.vp
              /\ Clamp(bottom - view.vp, 0, MaxOffset(view)) # view.offset
              /\ ScrollTo(Clamp(bottom - view.vp, 0, MaxOffset(view)))
           \/ /\ bottom <= view.offset + view.vp
              /\ top < view.offset
              /\ ScrollTo(Clamp(top, 0, MaxOffset(view)))

\* WindowResize forces a publish whatever is dirty.
Resize(h) ==
    /\ h # winH
    /\ winH' = h
    /\ dirty' = TRUE
    /\ UNCHANGED <<items, count, view, failed, batch, late>>

Next ==
    \/ Publish
    \/ \E k \in Keys : PushBack(k)
    \/ \E i \in DOMAIN items : Erase(i) \/ SetItem(i) \/ RevealRow(i - 1)
    \/ \E j \in DOMAIN view.rows : EditRow(j)
    \/ \E d \in Deltas : Scroll(d)
    \/ \E h \in Heights : Resize(h)

Spec == Init /\ [][Next]_vars

-----------------------------------------------------------------------------
(* Type invariant: every part of the state has its type. *)
TypeOK ==
    /\ items \in Seq(Item)
    /\ count \in Nat
    /\ view \in View
    /\ winH \in Heights
    /\ dirty \in BOOLEAN
    /\ failed \in BOOLEAN /\ late \in BOOLEAN
    /\ batch \in [mutations: 0..MaxBatch, erases: 0..MaxErases]

\* After a publish and until the next change, the rows are consecutive items of
\* the list as it is now: a mutation that moved items under the bound indices
\* always reached the container (the counter kept by the signals agrees with
\* the list, and what a row shows is what the list holds).
RowsCurrent ==
    ~dirty => /\ count = Len(items)
              /\ \A j \in DOMAIN view.rows :
                    LET row == view.rows[j]
                    IN  /\ row.index = view.from + j - 1
                        /\ row.index < Len(items)
                        /\ row.item = items[row.index + 1]

\* A published list has a row for every item that intersects the viewport.
\* Layout clamps the offset only after the rows are bound, so this rests on
\* the overscan: it covers as many erasures as it has rows.
VisibleBound ==
    ~dirty => \A i \in DOMAIN items :
                 (i * view.itemH > view.offset /\ (i - 1) * view.itemH < view.offset + view.vp)
                 => \E j \in DOMAIN view.rows : view.rows[j].index = i - 1

\* However the list is scrolled, resized or mutated, rows and pool together are
\* the same nodes, each once and in the same order (node 0 is the probe's): no
\* node serves two rows, a row position keeps its node, and no more are ever made
\* than the rows of the tallest window, partial ones and overscan included.
NodesRecycled ==
    LET order == [j \in 1..Len(view.rows) |-> view.rows[j].id] \o Reverse(view.pool)
        tallest == CHOOSE h \in Heights : \A g \in Heights : g <= h
    IN  /\ order = [j \in 1..Len(order) |-> j]
        /\ Len(order) <= CeilDiv(tallest, RowH) + 1 + 2 * Overscan

\* Items are told apart by their keys, and no edit of a row ever replaces
\* another item by a copy of the one the row shows, through mutations, scrolls
\* and recycling, unless an item was erased since the rows were bound.
NoItemOverwritten ==
    late \/ \A i, j \in DOMAIN items : items[i].key = items[j].key => i = j

\* Building the list does not throw: the range in view lies within the list.
NeverThrows == ~failed
=============================================================================
