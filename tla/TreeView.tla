------------------------------ MODULE TreeView ------------------------------
(***************************************************************************)
(* TreeController: a tree shown as the list of its visible rows, with a    *)
(* selection, expanded nodes and a detail panel, in a scrolled container.  *)
(*                                                                         *)
(* Whatever happens, the rows are flattened again from the source; rows    *)
(* are found by the selected node's id, parents by looking back for a      *)
(* smaller depth.  The source is the application's: it may change shape,   *)
(* and the application then calls refresh().  Labels, icons and attributes *)
(* are the node itself here; a row is one unit high.                       *)
(***************************************************************************)
EXTENDS Integers, Sequences, FiniteSets, SequencesExt

CONSTANTS
    Ids,           \* tree nodes
    Shapes,        \* the sources: [roots: Seq(Ids), kids: [Ids -> Seq(Ids)]]
    Viewport,      \* rows in view
    ScrollSteps    \* wheel steps, in rows

VARIABLE tv

TreeAssumption ==
    /\ Viewport \in Nat \ {0}
    /\ ScrollSteps \subseteq Int
    \* A node is the child of one node, or a root, or not in the tree.
    /\ \A shape \in Shapes : \A n \in Ids :
          Cardinality({p \in Ids : n \in Range(shape.kids[p])})
             + (IF n \in Range(shape.roots) THEN 1 ELSE 0) <= 1

KeysHandled == {"down", "up", "left", "right", "enter"}

HighOf(a, b) == IF a >= b THEN a ELSE b
LowOf(a, b) == IF a <= b THEN a ELSE b
Clamp(x, lo, hi) == HighOf(lo, LowOf(x, hi))

-----------------------------------------------------------------------------
(* visible_rows *)

RowOf(st, n, depth) ==
    [id |-> n, depth |-> depth, parent |-> st.source.kids[n] # <<>>,
     expanded |-> n \in st.expanded, selected |-> n \in st.selected]

\* (mutated) The rows of a collapsed node's children are shown.
FlattenedOpen(st) ==
    LET under[n \in Ids, depth \in 0..Cardinality(Ids)] ==
            <<RowOf(st, n, depth)>> \o
            FlattenSeq([i \in DOMAIN st.source.kids[n] |->
                           under[st.source.kids[n][i], depth + 1]])
    IN  FlattenSeq([i \in DOMAIN st.source.roots |-> under[st.source.roots[i], 0]])

\* flatten_node: a node's row, then those of its children if it is expanded.
Flattened(st) ==
    LET under[n \in Ids, depth \in 0..Cardinality(Ids)] ==
            <<RowOf(st, n, depth)>> \o
            (IF n \in st.expanded
             THEN FlattenSeq([i \in DOMAIN st.source.kids[n] |->
                                 under[st.source.kids[n][i], depth + 1]])
             ELSE <<>>)
    IN  FlattenSeq([i \in DOMAIN st.source.roots |-> under[st.source.roots[i], 0]])

\* refresh(): the list is emptied and filled, the container told each time.
Refreshed(st) == [st EXCEPT !.rows = Flattened(st)]

\* select_row
Selecting(st, n) == Refreshed([st EXCEPT !.selected = {n}, !.detail = {n}])

Toggled(st, n) ==
    [st EXCEPT !.expanded = IF n \in @ THEN @ \ {n} ELSE @ \cup {n}]

\* on_row_clicked: select, toggle what has children, show the detail, refresh.
Clicking(st, row) ==
    LET chosen == [st EXCEPT !.selected = {row.id}, !.detail = {row.id}]
    IN  Refreshed(IF row.parent THEN Toggled(chosen, row.id) ELSE chosen)

\* The row of the selected node; 0 when there is none, or it is hidden.
Current(st) ==
    LET at == {i \in DOMAIN st.rows : st.rows[i].id \in st.selected}
    IN  IF at = {} THEN 0 ELSE CHOOSE i \in at : \A j \in at : i <= j

\* left on a row that is not expanded: the nearest row above with less depth.
ParentRow(rows, i) ==
    LET above == {j \in 1..i - 1 : rows[j].depth < rows[i].depth}
    IN  IF above = {} THEN 0 ELSE CHOOSE j \in above : \A k \in above : k <= j

\* on_key: the new state and the row to scroll to (0 for none); without rows there
\* is no current one.
Keyed(st, key) ==
    LET cur == Current(st)
        row == st.rows[cur]
        to(i) == [st |-> Selecting(st, st.rows[i].id), row |-> i]
        toggle == [st |-> Refreshed(Toggled(st, row.id)), row |-> cur]
        ignored == [st |-> st, row |-> 0]
    IN  CASE key = "down" -> IF cur < Len(st.rows) THEN to(cur + 1) ELSE ignored
          [] key = "up" -> IF cur > 1 THEN to(cur - 1) ELSE ignored
          [] cur = 0 /\ key \notin {"down", "up"} -> ignored
          [] cur # 0 /\ key = "right" ->
                IF row.parent /\ ~row.expanded THEN toggle
                ELSE IF row.expanded /\ cur < Len(st.rows) THEN to(cur + 1) ELSE ignored
          [] cur # 0 /\ key = "left" ->
                IF row.expanded THEN toggle
                ELSE IF ParentRow(st.rows, cur) # 0 THEN to(ParentRow(st.rows, cur)) ELSE ignored
          [] cur # 0 /\ key = "enter" -> [st |-> Clicking(st, row), row |-> cur]

-----------------------------------------------------------------------------
MaxOffset(st) == HighOf(0, Len(st.rows) - Viewport)

\* scroll_row_into_view, by the extent the list has after the key.
Revealed(st, i) ==
    [st EXCEPT !.offset = IF i > @ + Viewport THEN Clamp(i - Viewport, 0, MaxOffset(st))
                          ELSE IF i - 1 < @ THEN Clamp(i - 1, 0, MaxOffset(st))
                          ELSE @]

\* The publish at the end of a task clamps the offset.
Published(st) == [st EXCEPT !.offset = Clamp(@, 0, MaxOffset(st))]

TreeInit ==
    \E shape \in Shapes :
        tv = Refreshed([source |-> shape, expanded |-> {}, selected |-> {}, detail |-> {},
                        rows |-> <<>>, offset |-> 0, revealed |-> FALSE])

Done(st, shown) == tv' = Published([st EXCEPT !.revealed = shown])

\* A press on a row in view; the index was bound when the row was.
Click(i) ==
    /\ i \in DOMAIN tv.rows
    /\ i > tv.offset /\ i <= tv.offset + Viewport
    /\ Done(Clicking(tv, tv.rows[i]), FALSE)

\* A key while the container has the focus.  (history: was a row revealed?)
Key(key) ==
    LET new == Keyed(tv, key)
    IN  /\ new # [st |-> tv, row |-> 0]
        /\ Done(IF new.row = 0 THEN new.st ELSE Revealed(new.st, new.row), new.row # 0)

Scroll(d) ==
    LET new == Clamp(tv.offset + d, 0, MaxOffset(tv))
    IN  /\ new # tv.offset
        /\ Done([tv EXCEPT !.offset = new], FALSE)

\* The application changes the tree and calls refresh().
ChangeSource(shape) ==
    /\ shape # tv.source
    /\ Done(Refreshed([tv EXCEPT !.source = shape]), FALSE)

TreeNext ==
    \/ \E i \in DOMAIN tv.rows : Click(i)
    \/ \E key \in KeysHandled : Key(key)
    \/ \E d \in ScrollSteps : Scroll(d)
    \/ \E shape \in Shapes : ChangeSource(shape)

TreeSpec == TreeInit /\ [][TreeNext]_tv

-----------------------------------------------------------------------------
\* Type invariant.
TreeTypeOK ==
    /\ tv.source \in Shapes
    /\ tv.expanded \subseteq Ids
    /\ Cardinality(tv.selected) <= 1 /\ tv.detail = tv.selected
    /\ tv.offset \in Nat

\* The path from a root to a node, by the source alone.
ParentIn(shape, n) == {p \in Ids : n \in Range(shape.kids[p])}
AncestorsIn(shape, n) ==
    LET up[k \in 0..Cardinality(Ids)] ==
            IF k = 0 THEN ParentIn(shape, n)
            ELSE up[k - 1] \cup UNION {ParentIn(shape, p) : p \in up[k - 1]}
    IN  up[Cardinality(Ids)]
InTree(shape, n) ==
    n \in Range(shape.roots) \/ AncestorsIn(shape, n) \cap Range(shape.roots) # {}

\* The rows are the nodes whose ancestors are all expanded, each once and under
\* its own parent with its siblings in order, whatever was expanded, collapsed,
\* selected or taken out of the tree before; and going left finds the parent.
RowsMatchTree ==
    LET rows == tv.rows
        At(n) == CHOOSE i \in DOMAIN rows : rows[i].id = n
    IN  /\ \A n \in Ids :
              LET shown == {i \in DOMAIN rows : rows[i].id = n}
              IN  Cardinality(shown) =
                     (IF InTree(tv.source, n) /\ AncestorsIn(tv.source, n) \subseteq tv.expanded
                      THEN 1 ELSE 0)
        /\ \A i \in DOMAIN rows :
              LET up == ParentIn(tv.source, rows[i].id)
                  by == ParentRow(rows, i)
              IN  /\ rows[i].selected <=> rows[i].id \in tv.selected
                  /\ IF up = {} THEN by = 0 ELSE by # 0 /\ rows[by].id \in up
        /\ \A p \in Ids : \A i, j \in DOMAIN tv.source.kids[p] :
              (i < j /\ \E r \in DOMAIN rows : rows[r].id = tv.source.kids[p][i])
                  => At(tv.source.kids[p][i]) < At(tv.source.kids[p][j])

\* After a key that moved the selection or toggled it, its row is in view, the
\* list having been rebuilt to another length under the scroll offset.
SelectionInView ==
    tv.revealed => /\ Current(tv) > tv.offset
                   /\ Current(tv) <= tv.offset + Viewport
=============================================================================
