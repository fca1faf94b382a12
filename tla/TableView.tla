------------------------------ MODULE TableView -----------------------------
(* A table (table.hpp, widget_tree.hpp): a header, and under it the rows of   *)
(* the source that are in view, painted anew by every build.  The table itself *)
(* takes the input: rows are transparent.  Each event and each batch of        *)
(* changes is a task that publishes at its end what is dirty.                  *)
EXTENDS Integers, Sequences, SequencesExt, FiniteSets, Subsequence

CONSTANTS RowH,        \* TableState::row_height, also the header's
          Overscan,    \* TableState::overscan, in rows
          Sizes,       \* allocated [h, w] of the table; h >= RowH
          MaxRows,     \* bound on the source's rows
          MaxErase,    \* bound on the rows one task erases
          WheelStep,   \* route_mouse_scroll: what scroll_at adds to one notch
          PageStep,    \* route_key_press: what a page key scrolls
          Presses      \* where the mouse is pressed, from the table's top

\* Rows have a height, and the header fits.  (TableState, table.hpp)
TableAssumption ==
    /\ RowH \in Nat \ {0} /\ Overscan \in Nat
    /\ \A s \in Sizes : s.h \in Nat /\ s.h >= RowH
    /\ MaxRows \in Nat /\ MaxErase \in Nat
    /\ WheelStep \in Nat /\ PageStep \in Nat /\ Presses \subseteq Nat

VARIABLE tb  \* history fields: last (what the last event was), refit (only the width
             \* changed in the last build), unseen (the application set the selection
             \* since), slid (a key that moved nothing moved the offset since)

Count(e) == Len(e.items)
None == -1
High(a, b) == IF a >= b THEN a ELSE b
Low(a, b) == IF a <= b THEN a ELSE b
Within(x, a, b) == High(a, Low(x, b))
CeilDiv(a, b) == (a + b - 1) \div b

MaxScroll(e) == High(0, RowH * Count(e) - e.vh)

\* reveal_row_offset.  A mutant looks at the top of the row only.
RevealedTop(e, row) ==
    LET top == row * RowH
    IN IF top > e.off + e.vh THEN Within(top + RowH - e.vh, 0, MaxScroll(e))
       ELSE IF top < e.off THEN Within(top, 0, MaxScroll(e)) ELSE e.off

Revealed(e, row) ==
    LET top == row * RowH
    IN IF top + RowH > e.off + e.vh THEN Within(top + RowH - e.vh, 0, MaxScroll(e))
       ELSE IF top < e.off THEN Within(top, 0, MaxScroll(e)) ELSE e.off

-----------------------------------------------------------------------------
(* materialize_table, and what the layout teaches the table.                  *)

VisibleStart(e) == High(0, e.off \div RowH - Overscan)
VisibleEnd(e) == Low(CeilDiv(e.off + e.vh, RowH) + Overscan, Count(e))

Painted(e, row) == [item |-> e.items[row + 1], selected |-> e.sel = row, width |-> e.vw]

Materialized(e) ==
    IF VisibleStart(e) > VisibleEnd(e) /\ Count(e) > 0 THEN [e EXCEPT !.threw = TRUE]
    ELSE LET start == IF Count(e) = 0 THEN 0 ELSE VisibleStart(e)
             end == IF Count(e) = 0 THEN 0 ELSE VisibleEnd(e)
         IN [e EXCEPT !.start = start,
                      !.rows = [i \in 1..(end - start) |-> Painted(e, start + i - 1)]]

Learned(e) ==
    LET f == [e EXCEPT !.vh = e.size.h - RowH, !.vw = e.size.w]
    IN [f EXCEPT !.off = Within(f.off, 0, MaxScroll(f))]

\* build_snapshot: a second pass when the viewport's height has changed.
Snapshot(e) ==
    LET once == Learned(Materialized(e))
        done == IF once.vh = e.vh \/ once.threw THEN once ELSE Learned(Materialized(once))
    IN [done EXCEPT !.shown = [start |-> done.start, rows |-> done.rows, off |-> done.off],
                    !.dirty = FALSE, !.slid = FALSE, !.unseen = FALSE,
                    !.refit = done.vw # e.vw /\ once.vh = e.vh]

\* The end of a task.
Ends(e) == IF e.dirty THEN Snapshot(e) ELSE e

-----------------------------------------------------------------------------
(* The handler wire_table_input connects, and scroll_at behind it.            *)

\* selected_row.set tells observers, and one of them may erase the last row.
Selections(e, row) ==
    LET set == [e EXCEPT !.sel = row, !.dirty = TRUE]
    IN {set} \union (IF Count(e) > 1 /\ MaxErase > 0
                     THEN {[set EXCEPT !.items = Front(@)]} ELSE {})

ScrollAt(e, delta) ==
    LET new == Within(e.off + delta, 0, MaxScroll(e))
    IN IF new = e.off THEN e ELSE [e EXCEPT !.off = new, !.dirty = TRUE]

\* A press anywhere marks the table pressed and focused, so it is dirty.
PressAt(y) ==
    LET row == (y - RowH + tb.off) \div RowH
        hit == y >= RowH /\ row < Count(tb)
    IN \E e \in IF hit THEN Selections(tb, IF tb.sel = row THEN None ELSE row)
                ELSE {[tb EXCEPT !.dirty = TRUE]} :
          tb' = [Ends(e) EXCEPT !.last = "none"]

PressTable == ~tb.threw /\ \E y \in Presses : y < tb.size.h /\ PressAt(y)

\* The wheel is handled by the table, and then once more by scroll_at.
TurnWheel ==
    \E notch \in {-1, 1} :
        LET own == [tb EXCEPT !.off = Within(@ + notch * RowH * 3, 0, MaxScroll(tb)), !.dirty = TRUE]
        IN ~tb.threw /\ tb' = [Ends(ScrollAt(own, notch * WheelStep)) EXCEPT !.last = "none"]

PressPage ==
    \E dir \in {-1, 1} : ~tb.threw /\ tb' = [Ends(ScrollAt(tb, dir * PageStep)) EXCEPT !.last = "none"]

Reveals(e) == IF e.sel = None THEN e ELSE [e EXCEPT !.off = Revealed(e, e.sel)]

MovesTo(row) == \E e \in Selections(tb, row) :
                    tb' = [Ends(Reveals(e)) EXCEPT !.last = "key"]

\* A key that does not move the selection brings it into view, and marks nothing.
Looks == LET e == Reveals(tb)
         IN tb' = [e EXCEPT !.last = "none", !.slid = @ \/ e.off # tb.off]

PressDown ==
    LET next == IF tb.sel = None THEN 0 ELSE tb.sel + 1
    IN /\ ~tb.threw
       /\ IF next < Count(tb) THEN MovesTo(next) ELSE Looks

PressUp ==
    /\ ~tb.threw
    /\ IF tb.sel > 0 THEN MovesTo(tb.sel - 1) ELSE Looks

\* The application's task: rows erased and appended.  The selection is an index,
\* and stays what it was.
ChangeRows ==
    /\ ~tb.threw
    /\ \E gone \in SUBSET DOMAIN tb.items, more \in 0..1 :
        /\ Cardinality(gone) <= MaxErase /\ (gone # {} \/ more = 1)
        /\ LET kept == Picked(tb.items, DOMAIN tb.items \ gone)
               fresh == CHOOSE x \in 1..(MaxRows + 1) : x \notin ToSet(kept)
               items == IF more = 1 THEN Append(kept, fresh) ELSE kept
           IN /\ Len(items) <= MaxRows
              /\ tb' = [Ends([tb EXCEPT !.items = items, !.dirty = TRUE]) EXCEPT !.last = "none"]

\* The application sets selected_row, which nothing connects to the table: the rows
\* stay painted as they are until the next build.
SelectRow ==
    /\ ~tb.threw
    /\ \E row \in None..(Count(tb) - 1) :
        row # tb.sel /\ tb' = [tb EXCEPT !.sel = row, !.unseen = TRUE, !.last = "none"]

ResizeTable ==
    /\ ~tb.threw
    /\ \E s \in Sizes : s # tb.size /\ tb' = [Snapshot([tb EXCEPT !.size = s]) EXCEPT !.last = "none"]

TableInit ==
    \E s \in Sizes, n \in 0..MaxRows :
        tb = Snapshot([items |-> [i \in 1..n |-> i], off |-> 0, vh |-> 0, vw |-> 0, sel |-> None,
                       rows |-> <<>>, start |-> 0, size |-> s, dirty |-> TRUE, threw |-> FALSE,
                       slid |-> FALSE, unseen |-> FALSE, refit |-> FALSE, last |-> "none",
                       shown |-> [start |-> 0, rows |-> <<>>, off |-> 0]])

TableNext == PressTable \/ TurnWheel \/ PressPage \/ PressDown \/ PressUp
             \/ ChangeRows \/ SelectRow \/ ResizeTable

TableSpec == TableInit /\ [][TableNext]_tb

-----------------------------------------------------------------------------
TableTypeOK == /\ tb.off \in Nat /\ tb.sel \in Nat \union {None}
               /\ tb.dirty = FALSE /\ tb.threw \in BOOLEAN

\* Every row of the source that overlaps the viewport on the screen is painted
\* there, with its item, selected or not as it is unless the application has set
\* the selection since, and in columns of the table's width unless nothing but the
\* width has just changed; and no row is painted that the source does not have.
\* Provided no task erases more rows than the overscan holds (materialize_table
\* before update_scroll_state).
RowsInViewCurrent ==
    /\ ~tb.threw
    /\ tb.shown.start + Len(tb.shown.rows) <= Count(tb)
    /\ \A row \in 0..(Count(tb) - 1) :
        (row * RowH < tb.shown.off + tb.vh /\ (row + 1) * RowH > tb.shown.off) =>
            /\ row - tb.shown.start + 1 \in DOMAIN tb.shown.rows
            /\ LET p == tb.shown.rows[row - tb.shown.start + 1]
               IN /\ p.item = tb.items[row + 1]
                  /\ tb.unseen \/ p.selected = (tb.sel = row)
                  /\ tb.refit \/ p.width = tb.vw

\* A key that moves the selection brings it into view.
SelectionFollows ==
    (tb.last = "key" /\ tb.sel < Count(tb) /\ tb.vh >= RowH) =>
        tb.sel * RowH >= tb.shown.off /\ (tb.sel + 1) * RowH <= tb.shown.off + tb.vh

\* The row painted y below the table's top, or None.
PaintedAt(y) ==
    LET row == (y - RowH + tb.shown.off) \div RowH
    IN IF y >= RowH /\ row - tb.shown.start + 1 \in DOMAIN tb.shown.rows THEN row ELSE None

\* A press selects the row that is painted under the pointer, with the item that is
\* painted there, or takes the selection off it; where none is painted it changes
\* nothing.  But for a table whose offset a key has moved without marking it dirty
\* (widget_tree.hpp:1127), before the next build.
PressPicksPainted ==
    \A y \in Presses :
        (y < tb.size.h /\ PressAt(y) /\ ~tb.slid) =>
            LET row == PaintedAt(y)
            IN IF row = None THEN tb'.sel = tb.sel
               ELSE /\ tb'.sel = IF tb.sel = row THEN None ELSE row
                    /\ tb.shown.rows[row - tb.shown.start + 1].item = tb.items[row + 1]
=============================================================================
