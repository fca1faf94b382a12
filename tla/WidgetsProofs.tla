---------------------------- MODULE WidgetsProofs ----------------------------
(***************************************************************************)
(* Theorems about the scenes of WidgetScenes, for any sizes, rows, panels  *)
(* and pointer moves that ScenesAssumption admits.                         *)
(*                                                                         *)
(* Table.  Between the build that follows a change of the rows and the     *)
(* change, the offset may lie past the end by the rows erased; TableRests  *)
(* bounds by how much.                                                     *)
(*                                                                         *)
(* Plots.  While a pan lasts, the point of its press is where the pointer  *)
(* is at the view the press found, shifted by the pointer's way since.     *)
(*                                                                         *)
(* Chrome.  A press of the left button that waits for the pump is not on   *)
(* an edge that moves the window, and neither is what it drags.            *)
(*                                                                         *)
(* Controls.  A popup is drawn while it is open, and it is hit where it    *)
(* was drawn; a slider counts in steps from its least value.               *)
(*                                                                         *)
(* List.  A scene plays the steps of VirtualList, so that the theorems of  *)
(* VirtualListProofs hold of it.                                           *)
(***************************************************************************)
EXTENDS WidgetScenes, SequencesExt, FiniteSetTheorems, TLAPS

-----------------------------------------------------------------------------
(* Division, as in VirtualListProofs. *)

LEMMA DivBounds ==
    ASSUME NEW a \in Nat, NEW b \in Nat \ {0}
    PROVE  /\ a \div b \in Nat
           /\ (a \div b) * b <= a
           /\ a < ((a \div b) + 1) * b
OBVIOUS

LEMMA Cancel ==
    ASSUME NEW x \in Int, NEW y \in Int, NEW h \in Nat \ {0}, x * h < y * h
    PROVE  x < y
OBVIOUS

LEMMA Times ==
    ASSUME NEW x \in Int, NEW y \in Int, NEW h \in Nat
    PROVE  /\ x * h \in Int
           /\ (x + y) * h = x * h + y * h
           /\ x <= y => x * h <= y * h
OBVIOUS

LEMMA CeilBounds ==
    ASSUME NEW a \in Nat, NEW b \in Nat \ {0}
    PROVE  LET c == Table!CeilDiv(a, b)
           IN  c \in Nat /\ a <= c * b /\ c * b < a + b
<1> DEFINE n == a + b - 1
           c == n \div b
<1>1. n \in Nat
  OBVIOUS
<1>2. c \in Nat /\ c * b <= n /\ n < (c + 1) * b
  BY <1>1, DivBounds
<1> HIDE DEF c
<1>3. c * b \in Int /\ (c + 1) * b = c * b + 1 * b
  BY <1>2, Times
<1> DEFINE cb == c * b
<1>4. cb \in Int /\ cb <= n /\ n < cb + b
  BY <1>2, <1>3
<1> HIDE DEF cb
<1>5. a <= cb /\ cb < a + b
  BY <1>4
<1>6. Table!CeilDiv(a, b) = c
  BY DEF Table!CeilDiv, c
<1>7. QED
  BY <1>2, <1>5, <1>6 DEF cb

LEMMA QuotientBelow ==
    ASSUME NEW h \in Nat \ {0}, NEW a \in Nat, NEW x \in Int, a < x * h
    PROVE  a \div h \in Nat /\ a \div h < x
<1>1. a \div h \in Nat /\ (a \div h) * h <= a
  BY DivBounds
<1> DEFINE q == a \div h
<1> HIDE DEF q
<1>2. q * h \in Int /\ x * h \in Int /\ q \in Nat /\ q * h <= a
  BY <1>1, Times DEF q
<1>3. q * h < x * h
  BY <1>2
<1>4. q < x
  BY <1>2, <1>3, Cancel
<1>5. QED
  BY <1>1, <1>4 DEF q

-----------------------------------------------------------------------------
(* The table: what a build makes of it. *)

TableFields == {"items", "off", "vh", "vw", "sel", "rows", "start", "size", "dirty", "threw",
                "slid", "unseen", "refit", "last", "shown"}

\* A table that has not thrown.
Formed(e) ==
    /\ DOMAIN e = TableFields
    /\ e.items \in Seq(ToSet(e.items))
    /\ e.off \in Nat /\ e.vh \in Nat /\ e.sel \in Nat \cup {Table!None}
    /\ e.size \in TableSizes
    /\ e.threw = FALSE

\* The largest offset with k rows more.
TableReach(e, k) == Table!High(0, RowH * (Table!Count(e) + k) - e.vh)

\* Rows painted from start are rows of a source of n.
RowsFit(start, rows, n) ==
    start \in Nat /\ rows \in Seq(ToSet(rows)) /\ start + Len(rows) <= n

\* Every row of e in view, as shown, is painted.
RowsShown(e) ==
    /\ RowsFit(e.shown.start, e.shown.rows, Table!Count(e))
    /\ \A row \in 0..(Table!Count(e) - 1) :
        (row * RowH < e.shown.off + e.vh /\ (row + 1) * RowH > e.shown.off) =>
            /\ row - e.shown.start + 1 \in DOMAIN e.shown.rows
            /\ LET p == e.shown.rows[row - e.shown.start + 1]
               IN /\ p.item = e.items[row + 1]
                  /\ e.unseen \/ p.selected = (e.sel = row)
                  /\ e.refit \/ p.width = e.vw

\* The table between two events.
TableRests(e) ==
    /\ Formed(e) /\ e.dirty = FALSE
    /\ e.vh = e.size.h - RowH
    /\ e.off <= Table!MaxScroll(e)
    /\ RowsShown(e)
    /\ ~e.slid => e.off = e.shown.off

TableSuffices == Table!TableAssumption /\ TableErases <= Overscan

LEMMA RangeIsEnough ==
    ASSUME NEW n \in Nat, NEW s, DOMAIN s = 1..n, s = [i \in 1..n |-> s[i]]
    PROVE  s \in Seq(ToSet(s)) /\ Len(s) = n
<1>1. \A i \in 1..n : s[i] \in ToSet(s)
  BY DEF ToSet
<1>2. s \in [1..n -> ToSet(s)]
  BY <1>1
<1> QED
  BY <1>2

LEMMA WithinBounds ==
    \A x \in Int, b \in Nat :
       /\ Table!Within(x, 0, b) \in 0..b
       /\ x \in 0..b => Table!Within(x, 0, b) = x
       /\ x < 0 => Table!Within(x, 0, b) = 0
       /\ x > b => Table!Within(x, 0, b) = b
BY DEF Table!Within, Table!High, Table!Low

LEMMA FormedCount ==
    ASSUME NEW e, Formed(e)
    PROVE  Table!Count(e) \in Nat /\ DOMAIN e.items = 1..Table!Count(e)
BY DEF Formed, Table!Count

\* The end of a table, k rows further on.
LEMMA ReachIs ==
    ASSUME TableSuffices, NEW e, Formed(e), NEW k \in Nat
    PROVE  LET n == Table!Count(e)
           IN  /\ RowH * n \in Nat /\ RowH * (n + k) \in Nat
               /\ RowH * (n + k) = RowH * n + RowH * k
               /\ RowH * n <= RowH * (n + k)
               /\ TableReach(e, k) \in Nat /\ Table!MaxScroll(e) \in Nat
               /\ Table!MaxScroll(e) <= TableReach(e, k)
<1> DEFINE n == Table!Count(e)
<1>1. n \in Nat /\ RowH \in Nat /\ e.vh \in Nat
  BY FormedCount DEF TableSuffices, Table!TableAssumption, Formed
<1> HIDE DEF n
<1>2. RowH * n \in Nat /\ RowH * k \in Nat /\ RowH * (n + k) = RowH * n + RowH * k
  BY <1>1
<1> DEFINE x == RowH * n
           y == RowH * k
           z == RowH * (n + k)
<1>3. x \in Nat /\ y \in Nat /\ z = x + y
  BY <1>2
<1> HIDE DEF x, y, z
<1>4. /\ Table!High(0, z - e.vh) \in Nat /\ Table!High(0, x - e.vh) \in Nat
      /\ Table!High(0, x - e.vh) <= Table!High(0, z - e.vh)
  BY <1>1, <1>3 DEF Table!High
<1> QED
  BY <1>3, <1>4 DEF TableReach, Table!MaxScroll, n, x, y, z

\* The rows of a build: those in view, and as many more as the erasures it covers.
LEMMA MaterializedDoes ==
    ASSUME TableSuffices, NEW e, Formed(e), e.off <= TableReach(e, TableErases)
    PROVE  LET m == Table!Materialized(e)
           IN  /\ DOMAIN m = TableFields
               /\ m.items = e.items /\ m.off = e.off /\ m.vh = e.vh /\ m.vw = e.vw
               /\ m.sel = e.sel /\ m.size = e.size /\ m.threw = FALSE
               /\ RowsFit(m.start, m.rows, Table!Count(e))
               /\ \A row \in 0..(Table!Count(e) - 1) :
                     (row * RowH < e.off + e.vh /\ (row + 1 + TableErases) * RowH > e.off) =>
                        /\ row - m.start + 1 \in DOMAIN m.rows
                        /\ m.rows[row - m.start + 1] = Table!Painted(e, row)
<1> DEFINE m == Table!Materialized(e)
           n == Table!Count(e)
           q == e.off \div RowH
           c == Table!CeilDiv(e.off + e.vh, RowH)
           k == TableErases
<1>1. /\ n \in Nat /\ RowH \in Nat \ {0} /\ k \in Nat /\ Overscan \in Nat /\ k <= Overscan
      /\ e.off \in Nat /\ e.vh \in Nat /\ DOMAIN e = TableFields
  BY FormedCount DEF TableSuffices, Table!TableAssumption, Formed
<1>2. q \in Nat /\ c \in Nat /\ e.off + e.vh <= c * RowH
  <2>2. e.off + e.vh \in Nat
    BY <1>1
  <2> HIDE DEF c, q
  <2>3. c \in Nat /\ e.off + e.vh <= c * RowH
    BY <1>1, <2>2, CeilBounds DEF c
  <2>4. q \in Nat
    BY <1>1, DivBounds DEF q
  <2> QED
    BY <2>3, <2>4
<1>3. q <= n + k
  <2>1. e.off < (n + k + 1) * RowH
    <3> DEFINE z == RowH * (n + k)
    <3>1. z \in Nat /\ (n + k + 1) * RowH = z + RowH
      BY <1>1
    <3>2. e.off <= Table!High(0, z - e.vh)
      BY DEF TableReach
    <3> HIDE DEF z
    <3> QED
      BY <1>1, <3>1, <3>2 DEF Table!High
  <2>2. n + k + 1 \in Int
    BY <1>1
  <2>3. q < n + k + 1
    BY <1>1, <2>1, <2>2, QuotientBelow
  <2> HIDE DEF q
  <2> QED
    BY <1>1, <1>2, <2>3
<1>4. q <= c
  <2> HIDE DEF c
  <2>1. c * RowH \in Int /\ (c + 1) * RowH = c * RowH + RowH
    BY <1>1, <1>2
  <2>2. e.off < (c + 1) * RowH
    <3> DEFINE z == c * RowH
    <3>1. z \in Int /\ e.off + e.vh <= z /\ (c + 1) * RowH = z + RowH
      BY <1>2, <2>1
    <3> HIDE DEF z
    <3> QED
      BY <1>1, <3>1
  <2>3. q < c + 1
    <3>1. c + 1 \in Int
      BY <1>2
    <3> QED
      BY <1>1, <2>2, <3>1, QuotientBelow
  <2> HIDE DEF q
  <2> QED
    BY <1>1, <1>2, <2>3
<1>5. Table!VisibleStart(e) = Table!High(0, q - Overscan)
  BY DEF Table!VisibleStart
<1>6. Table!VisibleEnd(e) = Table!Low(c + Overscan, n)
  BY DEF Table!VisibleEnd
<1> DEFINE start == IF n = 0 THEN 0 ELSE Table!High(0, q - Overscan)
           end == IF n = 0 THEN 0 ELSE Table!Low(c + Overscan, n)
<1>7. ~(Table!VisibleStart(e) > Table!VisibleEnd(e) /\ n > 0)
  <2> HIDE DEF q, c, n
  <2> QED
    BY <1>1, <1>2, <1>3, <1>4, <1>5, <1>6 DEF Table!High, Table!Low
<1>8. m = [e EXCEPT !.start = start,
                    !.rows = [i \in 1..(end - start) |-> Table!Painted(e, start + i - 1)]]
  BY <1>5, <1>6, <1>7 DEF Table!Materialized
<1>9. start \in Nat /\ end \in Nat
  <2> HIDE DEF q, c, n
  <2> QED
    BY <1>1, <1>2 DEF Table!High, Table!Low
<1>10. ASSUME NEW row \in 0..(n - 1), row * RowH < e.off + e.vh, (row + 1 + k) * RowH > e.off
       PROVE  start <= row /\ row < end
  <2>1. row \in Nat /\ row < n /\ row + 1 + k \in Int
    BY <1>1
  <2>2. q < row + 1 + k
    BY <1>1, <1>10, <2>1, QuotientBelow
  <2>3. row < c
    <3> HIDE DEF c
    <3> DEFINE x == row * RowH
               y == c * RowH
    <3>1. x \in Int /\ y \in Int /\ x < e.off + e.vh /\ e.off + e.vh <= y
      BY <1>1, <1>2, <1>10, <2>1
    <3> HIDE DEF x, y
    <3>2. x < y
      BY <1>1, <3>1
    <3> QED
      BY <1>1, <1>2, <2>1, <3>2, Cancel DEF x, y
  <2> HIDE DEF q, c, n
  <2> QED
    BY <1>1, <1>2, <2>1, <2>2, <2>3 DEF Table!High, Table!Low
<1> HIDE DEF start, end, q, c, n
<1>11. /\ DOMAIN m = TableFields
       /\ m.items = e.items /\ m.off = e.off /\ m.vh = e.vh /\ m.vw = e.vw
       /\ m.sel = e.sel /\ m.size = e.size /\ m.threw = FALSE
       /\ m.start = start
       /\ m.rows = [i \in 1..(end - start) |-> Table!Painted(e, start + i - 1)]
  BY <1>1, <1>8 DEF TableFields, Formed
<1> HIDE DEF m
<1>13. end - start \in Nat /\ end <= n
  <2> USE DEF start, end
  <2> HIDE DEF q, c, n
  <2> QED
    BY <1>1, <1>2, <1>3, <1>4 DEF Table!High, Table!Low
<1>14. RowsFit(m.start, m.rows, n)
  <2> DEFINE rows == m.rows
             k1 == end - start
  <2>1. DOMAIN rows = 1..k1 /\ rows = [i \in 1..k1 |-> rows[i]]
    BY <1>11
  <2> HIDE DEF rows
  <2>2. k1 \in Nat
    BY <1>13
  <2> HIDE DEF k1
  <2>3. rows \in Seq(ToSet(rows)) /\ Len(rows) = k1
    BY <2>1, <2>2, RangeIsEnough
  <2>4. start + k1 <= n
    BY <1>1, <1>9, <1>13 DEF k1
  <2> QED
    BY <1>9, <1>11, <2>3, <2>4 DEF RowsFit, rows
<1>12. ASSUME NEW row \in 0..(n - 1), row * RowH < e.off + e.vh, (row + 1 + k) * RowH > e.off
       PROVE  /\ row - m.start + 1 \in DOMAIN m.rows
              /\ m.rows[row - m.start + 1] = Table!Painted(e, row)
  <2>1. start <= row /\ row < end /\ row \in Nat
    BY <1>1, <1>10, <1>12
  <2>2. row - start + 1 \in 1..(end - start) /\ start + (row - start + 1) - 1 = row
    BY <1>9, <2>1
  <2> QED
    BY <1>11, <2>2
<1> QED
  BY <1>11, <1>12, <1>14 DEF m, n

\* What the layout teaches a table: its viewport, and how far it scrolls.
LEMMA LearnedDoes ==
    ASSUME TableSuffices, NEW e, DOMAIN e = TableFields, e.items \in Seq(ToSet(e.items)),
           e.off \in Nat, e.size \in TableSizes
    PROVE  LET f == Table!Learned(e)
               vh == e.size.h - RowH
               most == Table!High(0, RowH * Table!Count(e) - vh)
           IN  /\ DOMAIN f = TableFields
               /\ f.items = e.items /\ f.sel = e.sel /\ f.size = e.size /\ f.threw = e.threw
               /\ f.start = e.start /\ f.rows = e.rows
               /\ f.vh = vh /\ vh \in Nat /\ f.vw = e.size.w
               /\ most \in Nat /\ f.off = Table!Within(e.off, 0, most)
               /\ f.off \in Nat /\ f.off <= most
<1> DEFINE f == Table!Learned(e)
           vh == e.size.h - RowH
           n == Table!Count(e)
           most == Table!High(0, RowH * n - vh)
           g == [e EXCEPT !.vh = e.size.h - RowH, !.vw = e.size.w]
<1>1. /\ DOMAIN g = TableFields /\ g.items = e.items /\ g.sel = e.sel /\ g.size = e.size
      /\ g.threw = e.threw /\ g.start = e.start /\ g.rows = e.rows /\ g.off = e.off
      /\ g.vh = vh /\ g.vw = e.size.w
  BY DEF TableFields
<1>2. Table!MaxScroll(g) = most
  BY <1>1 DEF Table!MaxScroll, Table!Count
<1>3. f = [g EXCEPT !.off = Table!Within(g.off, 0, Table!MaxScroll(g))]
  BY DEF Table!Learned
<1> HIDE DEF g
<1>4. /\ DOMAIN f = TableFields /\ f.items = e.items /\ f.sel = e.sel /\ f.size = e.size
      /\ f.threw = e.threw /\ f.start = e.start /\ f.rows = e.rows
      /\ f.vh = vh /\ f.vw = e.size.w /\ f.off = Table!Within(e.off, 0, most)
  BY <1>1, <1>2, <1>3 DEF TableFields
<1>5. vh \in Nat /\ RowH \in Nat /\ n \in Nat
  BY DEF TableSuffices, Table!TableAssumption, Table!Count
<1> HIDE DEF vh, n, f
<1>6. most \in Nat
  <2> DEFINE x == RowH * n
  <2>1. x \in Int
    BY <1>5
  <2> HIDE DEF x
  <2>2. Table!High(0, x - vh) \in Nat
    BY <1>5, <2>1 DEF Table!High
  <2> QED
    BY <2>2 DEF x
<1> HIDE DEF most
<1>7. f.off \in Nat /\ f.off <= most
  <2>1. Table!Within(e.off, 0, most) \in 0..most
    <3> DEFINE x == e.off
    <3>1. x \in Int
      OBVIOUS
    <3> HIDE DEF x
    <3>2. Table!Within(x, 0, most) \in 0..most
      BY <1>6, <3>1, WithinBounds
    <3> QED
      BY <3>2 DEF x
  <2> QED
    BY <1>4, <1>6, <2>1
<1> QED
  BY <1>4, <1>5, <1>6, <1>7 DEF f, vh, most, n

\* One pass over a table shows what is in view, in the width it had.
OnePass(e, f) ==
    /\ DOMAIN f = TableFields
    /\ f.items = e.items /\ f.sel = e.sel /\ f.size = e.size /\ f.threw = FALSE
    /\ f.vh = e.size.h - RowH /\ f.vh \in Nat /\ f.vw = e.size.w
    /\ f.off \in Nat /\ Table!MaxScroll(f) \in Nat
    /\ f.off = Table!Within(e.off, 0, Table!MaxScroll(f)) /\ f.off <= Table!MaxScroll(f)
    /\ RowsFit(f.start, f.rows, Table!Count(e))
    /\ f.vh = e.vh =>
          \A row \in 0..(Table!Count(e) - 1) :
             (row * RowH < f.off + f.vh /\ (row + 1) * RowH > f.off) =>
                /\ row - f.start + 1 \in DOMAIN f.rows
                /\ f.rows[row - f.start + 1] = Table!Painted(e, row)

LEMMA OnePassDoes ==
    ASSUME TableSuffices, NEW e, Formed(e), e.off <= TableReach(e, TableErases)
    PROVE  OnePass(e, Table!Learned(Table!Materialized(e)))
<1> DEFINE m == Table!Materialized(e)
           f == Table!Learned(m)
           n == Table!Count(e)
           k == TableErases
<1>1. /\ DOMAIN m = TableFields
      /\ m.items = e.items /\ m.off = e.off /\ m.vh = e.vh /\ m.vw = e.vw
      /\ m.sel = e.sel /\ m.size = e.size /\ m.threw = FALSE
      /\ RowsFit(m.start, m.rows, n)
      /\ \A row \in 0..(n - 1) :
            (row * RowH < e.off + e.vh /\ (row + 1 + k) * RowH > e.off) =>
               /\ row - m.start + 1 \in DOMAIN m.rows
               /\ m.rows[row - m.start + 1] = Table!Painted(e, row)
  BY MaterializedDoes
<1>2. /\ e.items \in Seq(ToSet(e.items)) /\ e.off \in Nat /\ e.size \in TableSizes /\ e.vh \in Nat
  BY DEF Formed
<1> HIDE DEF m
<1>3. /\ DOMAIN f = TableFields
      /\ f.items = e.items /\ f.sel = e.sel /\ f.size = e.size /\ f.threw = FALSE
      /\ f.start = m.start /\ f.rows = m.rows
      /\ f.vh = e.size.h - RowH /\ f.vh \in Nat /\ f.vw = e.size.w
      /\ Table!High(0, RowH * Table!Count(m) - f.vh) \in Nat
      /\ f.off = Table!Within(e.off, 0, Table!High(0, RowH * Table!Count(m) - f.vh))
      /\ f.off \in Nat /\ f.off <= Table!High(0, RowH * Table!Count(m) - f.vh)
  BY <1>1, <1>2, LearnedDoes
<1>4. Table!MaxScroll(f) = Table!High(0, RowH * Table!Count(m) - f.vh) /\ Table!Count(m) = n
  BY <1>1, <1>3 DEF Table!MaxScroll, Table!Count
<1> HIDE DEF f
<1>5. ASSUME f.vh = e.vh, NEW row \in 0..(n - 1),
             row * RowH < f.off + f.vh, (row + 1) * RowH > f.off
      PROVE  row * RowH < e.off + e.vh /\ (row + 1 + k) * RowH > e.off
  <2>1. n \in Nat /\ RowH \in Nat \ {0} /\ k \in Nat /\ row \in Nat /\ row < n
    BY FormedCount DEF TableSuffices, Table!TableAssumption
  <2> DEFINE x == row * RowH
             y == (row + 1) * RowH
             z == RowH * n
             w == RowH * k
  <2>2. /\ x \in Nat /\ y \in Nat /\ z \in Nat /\ w \in Nat
        /\ (row + 1 + k) * RowH = y + w /\ RowH * (n + k) = z + w
    BY <2>1
  <2>3. e.off <= Table!High(0, z + w - e.vh)
    <3>1. TableReach(e, k) = Table!High(0, RowH * (n + k) - e.vh)
      BY DEF TableReach
    <3>2. RowH * (n + k) - e.vh = z + w - e.vh
      BY <1>2, <2>2
    <3> HIDE DEF n, z, w
    <3> QED
      BY <3>1, <3>2
  <2> DEFINE a == Table!High(0, z - e.vh)
  <2>4. a \in Nat /\ f.off = Table!Within(e.off, 0, a)
    BY <1>3, <1>4, <1>5
  <2>7. f.off \in 0..a /\ (e.off \in 0..a => f.off = e.off) /\ (e.off > a => f.off = a)
    <3> DEFINE d == e.off
    <3>1. d \in Int
      BY <1>2
    <3> HIDE DEF a, d
    <3>2. /\ Table!Within(d, 0, a) \in 0..a
          /\ d \in 0..a => Table!Within(d, 0, a) = d
          /\ d > a => Table!Within(d, 0, a) = a
      BY <2>4, <3>1, WithinBounds
    <3> QED
      BY <2>4, <3>2 DEF d
  <2>5. x < f.off + e.vh /\ y > f.off
    BY <1>5
  <2> HIDE DEF x, y, z, w
  <2>6. x < e.off + e.vh /\ y + w > e.off
    <3> DEFINE d == e.off
               v == e.vh
               g == f.off
    <3>1. d \in Nat /\ v \in Nat /\ g \in 0..a /\ x < g + v /\ y > g
      BY <1>2, <1>5, <2>5, <2>7
    <3>2. (d \in 0..a => g = d) /\ (d > a => g = a)
      BY <2>7
    <3>3. d <= Table!High(0, z + w - v) /\ a = Table!High(0, z - v)
      BY <2>3
    <3>5. x \in Nat /\ y \in Nat /\ z \in Nat /\ w \in Nat /\ a \in Nat
      BY <2>2, <2>4
    <3> HIDE DEF a, d, g, v
    <3>4. CASE d <= a
      BY <3>1, <3>2, <3>4, <3>5 DEF d, v
    <3>6. CASE d > a
      <4>1. g = a /\ d <= z + w - v
        BY <3>1, <3>2, <3>3, <3>5, <3>6 DEF Table!High
      <4>2. z - v <= a
        BY <3>1, <3>3, <3>5 DEF Table!High
      <4> QED
        BY <3>1, <3>5, <3>6, <4>1, <4>2 DEF d, v
    <3> QED
      BY <3>1, <3>4, <3>5, <3>6 DEF d, v
  <2> QED
    BY <2>2, <2>6 DEF x
<1>6. ASSUME f.vh = e.vh, NEW row \in 0..(n - 1),
             row * RowH < f.off + f.vh, (row + 1) * RowH > f.off
      PROVE  /\ row - f.start + 1 \in DOMAIN f.rows
             /\ f.rows[row - f.start + 1] = Table!Painted(e, row)
  BY <1>1, <1>3, <1>5, <1>6
<1>8. RowsFit(f.start, f.rows, n)
  BY <1>1, <1>3
<1>7. OnePass(e, f)
  BY <1>3, <1>4, <1>6, <1>8 DEF OnePass
<1> QED
  BY <1>7 DEF f, m

\* A build: what it makes rests, with the same rows and selection.
Built(e, f) ==
    /\ TableRests(f)
    /\ f.items = e.items /\ f.sel = e.sel /\ f.size = e.size
    /\ f.shown.off = f.off
    /\ f.vh = e.vh => f.off = Table!Within(e.off, 0, Table!MaxScroll(f))

LEMMA SnapshotDoes ==
    ASSUME TableSuffices, NEW e, Formed(e), e.off <= TableReach(e, TableErases)
    PROVE  Built(e, Table!Snapshot(e))
<1> DEFINE once == Table!Learned(Table!Materialized(e))
           twice == Table!Learned(Table!Materialized(once))
           f == Table!Snapshot(e)
<1>1. OnePass(e, once)
  BY OnePassDoes
<1> HIDE DEF once
<1>2. /\ DOMAIN once = TableFields
      /\ once.items = e.items /\ once.sel = e.sel /\ once.size = e.size /\ once.threw = FALSE
      /\ once.vh = e.size.h - RowH /\ once.vh \in Nat /\ once.vw = e.size.w
      /\ once.off \in Nat /\ once.off <= Table!MaxScroll(once) /\ Table!MaxScroll(once) \in Nat
  BY <1>1 DEF OnePass
<1>3. Formed(once)
  BY <1>2 DEF Formed
<1> DEFINE Shows(d) == [d EXCEPT
                 !.shown = [start |-> d.start, rows |-> d.rows, off |-> d.off],
                 !.dirty = FALSE, !.slid = FALSE, !.unseen = FALSE,
                 !.refit = d.vw # e.vw /\ once.vh = e.vh]
<1>4. ASSUME NEW d, OnePass(once, d) \/ (OnePass(e, d) /\ d.vh = e.vh /\ d = once),
             \A row \in 0..(Table!Count(e) - 1) :
                (row * RowH < d.off + d.vh /\ (row + 1) * RowH > d.off) =>
                   /\ row - d.start + 1 \in DOMAIN d.rows
                   /\ LET p == d.rows[row - d.start + 1]
                      IN /\ p.item = e.items[row + 1] /\ p.selected = (e.sel = row)
                         /\ (d.vw # e.vw /\ once.vh = e.vh) \/ p.width = d.vw
      PROVE  Built(e, Shows(d)) \/ (Shows(d).vh = e.vh /\ d # once)
  <2>1. /\ DOMAIN d = TableFields
        /\ d.items = e.items /\ d.sel = e.sel /\ d.size = e.size /\ d.threw = FALSE
        /\ d.vh = e.size.h - RowH /\ d.vh \in Nat /\ d.vw = e.size.w
        /\ d.off \in Nat /\ d.off <= Table!MaxScroll(d)
    BY <1>2, <1>4 DEF OnePass
  <2> DEFINE g == Shows(d)
  <2>2. /\ DOMAIN g = TableFields
        /\ g.items = e.items /\ g.sel = e.sel /\ g.size = e.size /\ g.threw = FALSE
        /\ g.vh = d.vh /\ g.vw = d.vw /\ g.off = d.off
        /\ g.dirty = FALSE /\ g.slid = FALSE /\ g.unseen = FALSE
        /\ g.refit = (d.vw # e.vw /\ once.vh = e.vh)
        /\ g.shown = [start |-> d.start, rows |-> d.rows, off |-> d.off]
    BY <2>1 DEF TableFields
  <2> HIDE DEF g
  <2>3. Formed(g)
    BY <2>1, <2>2 DEF Formed
  <2>4. Table!MaxScroll(g) = Table!MaxScroll(d) /\ Table!Count(g) = Table!Count(e)
    BY <2>1, <2>2 DEF Table!MaxScroll, Table!Count
  <2>5. /\ g.shown.start = d.start /\ g.shown.rows = d.rows /\ g.shown.off = d.off
    BY <2>2
  <2>9. RowsFit(g.shown.start, g.shown.rows, Table!Count(g))
    <3>1. Table!Count(once) = Table!Count(e)
      BY <1>2 DEF Table!Count
    <3>2. RowsFit(d.start, d.rows, Table!Count(e))
      BY <1>4, <3>1 DEF OnePass
    <3> QED
      BY <2>4, <2>5, <3>2
  <2>6. RowsShown(g)
    <3> SUFFICES ASSUME NEW row \in 0..(Table!Count(g) - 1),
                        row * RowH < g.shown.off + g.vh, (row + 1) * RowH > g.shown.off
                 PROVE  /\ row - g.shown.start + 1 \in DOMAIN g.shown.rows
                        /\ LET p == g.shown.rows[row - g.shown.start + 1]
                           IN /\ p.item = g.items[row + 1]
                              /\ g.unseen \/ p.selected = (g.sel = row)
                              /\ g.refit \/ p.width = g.vw
      BY <2>9 DEF RowsShown
    <3>1. /\ row \in 0..(Table!Count(e) - 1)
          /\ row * RowH < d.off + d.vh /\ (row + 1) * RowH > d.off
      BY <2>2, <2>4, <2>5
    <3>2. /\ row - d.start + 1 \in DOMAIN d.rows
          /\ LET p == d.rows[row - d.start + 1]
             IN /\ p.item = e.items[row + 1] /\ p.selected = (e.sel = row)
                /\ (d.vw # e.vw /\ once.vh = e.vh) \/ p.width = d.vw
      BY <1>4, <3>1
    <3> QED
      BY <2>2, <2>5, <3>2
  <2>7. TableRests(g)
    BY <2>1, <2>2, <2>3, <2>4, <2>5, <2>6 DEF TableRests
  <2>8. d = once /\ g.vh = e.vh => g.off = Table!Within(e.off, 0, Table!MaxScroll(g))
    BY <1>1, <2>2, <2>4 DEF OnePass
  <2> QED
    BY <2>2, <2>5, <2>7, <2>8 DEF Built, g
<1>5. CASE once.vh = e.vh
  <2>1. f = Shows(once)
    BY <1>5 DEF Table!Snapshot, once
  <2>2. ASSUME NEW row \in 0..(Table!Count(e) - 1),
               row * RowH < once.off + once.vh, (row + 1) * RowH > once.off
        PROVE  /\ row - once.start + 1 \in DOMAIN once.rows
               /\ LET p == once.rows[row - once.start + 1]
                  IN /\ p.item = e.items[row + 1] /\ p.selected = (e.sel = row)
                     /\ (once.vw # e.vw /\ once.vh = e.vh) \/ p.width = once.vw
    <3>1. /\ row - once.start + 1 \in DOMAIN once.rows
          /\ once.rows[row - once.start + 1] = Table!Painted(e, row)
      BY <1>1, <1>5, <2>2 DEF OnePass
    <3> QED
      BY <1>5, <3>1 DEF Table!Painted
  <2> HIDE DEF f
  <2>3. Built(e, Shows(once)) \/ (Shows(once).vh = e.vh /\ once # once)
    <3> HIDE DEF Shows
    <3> QED
      BY <1>1, <1>4, <1>5, <2>2
  <2> QED
    BY <2>1, <2>3 DEF f
<1>6. CASE once.vh # e.vh
  <2>1. once.off <= TableReach(once, TableErases)
    <3>1. TableErases \in Nat
      BY DEF TableSuffices, Table!TableAssumption
    <3>2. Table!MaxScroll(once) <= TableReach(once, TableErases) /\ TableReach(once, TableErases) \in Nat
      BY <1>3, <3>1, ReachIs
    <3> QED
      BY <1>2, <3>2
  <2>2. OnePass(once, twice)
    BY <1>3, <2>1, OnePassDoes
  <2>3. f = Shows(twice)
    BY <1>2, <1>6 DEF Table!Snapshot, once
  <2> HIDE DEF f, twice
  <2>4. /\ twice.vh = once.vh /\ Table!Count(once) = Table!Count(e) /\ twice.vw = once.vw
    BY <1>2, <2>2 DEF OnePass, Table!Count
  <2>5. ASSUME NEW row \in 0..(Table!Count(e) - 1),
               row * RowH < twice.off + twice.vh, (row + 1) * RowH > twice.off
        PROVE  /\ row - twice.start + 1 \in DOMAIN twice.rows
               /\ LET p == twice.rows[row - twice.start + 1]
                  IN /\ p.item = e.items[row + 1] /\ p.selected = (e.sel = row)
                     /\ (twice.vw # e.vw /\ once.vh = e.vh) \/ p.width = twice.vw
    <3>1. /\ row - twice.start + 1 \in DOMAIN twice.rows
          /\ twice.rows[row - twice.start + 1] = Table!Painted(once, row)
      BY <2>2, <2>4, <2>5 DEF OnePass
    <3> QED
      BY <1>2, <2>4, <3>1 DEF Table!Painted
  <2>6. Built(e, Shows(twice)) \/ (Shows(twice).vh = e.vh /\ twice # once)
    <3> HIDE DEF Shows
    <3> QED
      BY <1>4, <2>2, <2>5
  <2>7. Shows(twice).vh # e.vh
    <3>1. DOMAIN twice = TableFields
      BY <2>2 DEF OnePass
    <3>2. Shows(twice).vh = twice.vh
      BY <3>1 DEF TableFields
    <3> QED
      BY <1>6, <2>4, <3>2
  <2> QED
    BY <2>3, <2>6, <2>7 DEF f
<1> QED
  BY <1>5, <1>6

-----------------------------------------------------------------------------
(* The table: its steps. *)

\* g differs from e in what is not on the screen: the offset, what is dirty.
Alike(e, g) ==
    /\ DOMAIN g = TableFields
    /\ g.items = e.items /\ g.sel = e.sel /\ g.vh = e.vh /\ g.vw = e.vw /\ g.size = e.size
    /\ g.threw = e.threw /\ g.shown = e.shown /\ g.refit = e.refit /\ g.unseen = e.unseen

LEMMA AlikeKeeps ==
    ASSUME NEW e, NEW g, Formed(e), Alike(e, g), g.off \in Nat
    PROVE  /\ Formed(g) /\ Table!Count(g) = Table!Count(e)
           /\ Table!MaxScroll(g) = Table!MaxScroll(e)
           /\ TableReach(g, TableErases) = TableReach(e, TableErases)
           /\ RowsShown(e) => RowsShown(g)
<1>1. Formed(g)
  BY DEF Formed, Alike
<1>2. Table!Count(g) = Table!Count(e) /\ g.vh = e.vh
  BY DEF Alike, Table!Count
<1>3. RowsShown(e) => RowsShown(g)
  BY <1>2 DEF RowsShown, Alike
<1> QED
  BY <1>1, <1>2, <1>3 DEF Table!MaxScroll, TableReach

\* Nothing waits for a build, and the offset is one the list has.
TableStill(e) ==
    /\ e.dirty = FALSE /\ e.vh = e.size.h - RowH
    /\ e.off <= Table!MaxScroll(e) /\ RowsShown(e)
    /\ ~e.slid => e.off = e.shown.off

LEMMA EndsDoes ==
    ASSUME TableSuffices, NEW e, Formed(e), e.off <= TableReach(e, TableErases),
           e.dirty = TRUE \/ TableStill(e)
    PROVE  /\ TableRests(Table!Ends(e))
           /\ Table!Ends(e).items = e.items /\ Table!Ends(e).sel = e.sel
           /\ e.dirty = TRUE => Built(e, Table!Ends(e))
<1>1. CASE e.dirty = TRUE
  <2>1. Table!Ends(e) = Table!Snapshot(e)
    BY <1>1 DEF Table!Ends
  <2>2. Built(e, Table!Snapshot(e))
    BY SnapshotDoes
  <2> QED
    BY <2>1, <2>2 DEF Built
<1>2. CASE e.dirty # TRUE /\ TableStill(e)
  <2>1. Table!Ends(e) = e
    BY <1>2 DEF Table!Ends, TableStill
  <2> QED
    BY <1>2, <2>1 DEF TableRests, TableStill
<1> QED
  BY <1>1, <1>2

\* What the last event was does not matter to the screen.
LEMMA MarkRests ==
    ASSUME NEW f, TableRests(f), NEW x
    PROVE  /\ TableRests([f EXCEPT !.last = x]) /\ [f EXCEPT !.last = x].last = x
           /\ [f EXCEPT !.last = x].sel = f.sel
<1> DEFINE g == [f EXCEPT !.last = x]
<1>1. Formed(f) /\ DOMAIN f = TableFields /\ f.off \in Nat
  BY DEF TableRests, Formed
<1>2. Alike(f, g) /\ g.off = f.off /\ g.dirty = f.dirty /\ g.slid = f.slid /\ g.last = x
  BY <1>1 DEF TableFields, Alike
<1> HIDE DEF g
<1>3. Formed(g) /\ Table!MaxScroll(g) = Table!MaxScroll(f) /\ (RowsShown(f) => RowsShown(g))
  BY <1>1, <1>2, AlikeKeeps
<1>4. TableRests(g)
  BY <1>2, <1>3 DEF TableRests, Alike
<1> QED
  BY <1>2, <1>4 DEF g, Alike

\* A table at rest is within its reach, whatever is set in it but the rows.
LEMMA RestsStill ==
    ASSUME TableSuffices, NEW e, TableRests(e)
    PROVE  /\ Formed(e) /\ TableStill(e) /\ DOMAIN e = TableFields
           /\ e.off \in Nat /\ e.vh \in Nat /\ Table!MaxScroll(e) \in Nat
           /\ e.off <= TableReach(e, TableErases)
<1>1. Formed(e) /\ TableErases \in Nat
  BY DEF TableRests, TableSuffices, Table!TableAssumption
<1>2. Table!MaxScroll(e) \in Nat /\ TableReach(e, TableErases) \in Nat
      /\ Table!MaxScroll(e) <= TableReach(e, TableErases)
  BY <1>1, ReachIs
<1>3. e.off \in Nat /\ e.vh \in Nat /\ DOMAIN e = TableFields /\ e.off <= Table!MaxScroll(e)
  BY DEF TableRests, Formed
<1> QED
  BY <1>1, <1>2, <1>3 DEF TableRests, TableStill

\* g waits for a build, or has not moved.
Waits(e, g) == g.dirty = TRUE \/ (g.dirty = FALSE /\ g.off = e.off /\ g.slid = e.slid)

\* A table moved, or set to be built.
LEMMA MovedEnds ==
    ASSUME TableSuffices, NEW e, TableRests(e), NEW g, Alike(e, g),
           g.off \in Nat, g.off <= Table!MaxScroll(e), Waits(e, g)
    PROVE  TableRests(Table!Ends(g))
<1>1. /\ Formed(e) /\ TableStill(e) /\ Table!MaxScroll(e) \in Nat
      /\ TableErases \in Nat
  BY RestsStill DEF TableSuffices, Table!TableAssumption
<1>2. /\ Formed(g) /\ Table!MaxScroll(g) = Table!MaxScroll(e)
      /\ TableReach(g, TableErases) = TableReach(e, TableErases) /\ RowsShown(g)
  BY <1>1, AlikeKeeps DEF TableStill
<1>3. Table!MaxScroll(e) <= TableReach(e, TableErases) /\ TableReach(e, TableErases) \in Nat
  BY <1>1, ReachIs
<1>4. g.off <= TableReach(g, TableErases)
  BY <1>1, <1>2, <1>3
<1>5. g.dirty = TRUE \/ TableStill(g)
  BY <1>1, <1>2 DEF TableStill, Alike, Waits
<1> QED
  BY <1>2, <1>4, <1>5, EndsDoes

LEMMA ScrollAtDoes ==
    ASSUME TableSuffices, NEW e, TableRests(e), NEW g, Alike(e, g),
           g.off \in Nat, g.off <= Table!MaxScroll(e), Waits(e, g), NEW d \in Int
    PROVE  TableRests(Table!Ends(Table!ScrollAt(g, d)))
<1>1. Formed(e) /\ Table!MaxScroll(e) \in Nat
  BY RestsStill
<1>2. Table!MaxScroll(g) = Table!MaxScroll(e)
  BY <1>1, AlikeKeeps
<1> DEFINE new == Table!Within(g.off + d, 0, Table!MaxScroll(g))
           h == Table!ScrollAt(g, d)
<1>3. new \in Nat /\ new <= Table!MaxScroll(e)
  <2> DEFINE x == g.off + d
  <2>1. x \in Int
    OBVIOUS
  <2> HIDE DEF x
  <2>2. Table!Within(x, 0, Table!MaxScroll(g)) \in 0..Table!MaxScroll(g)
    BY <1>1, <1>2, <2>1, WithinBounds
  <2> QED
    BY <1>1, <1>2, <2>2 DEF x
<1> HIDE DEF new
<1>4. h = IF new = g.off THEN g ELSE [g EXCEPT !.off = new, !.dirty = TRUE]
  BY DEF Table!ScrollAt, new
<1>5. Alike(e, h) /\ h.off \in Nat /\ h.off <= Table!MaxScroll(e) /\ Waits(e, h)
  <2>1. CASE new = g.off
    BY <1>4, <2>1
  <2>2. CASE new # g.off
    BY <1>3, <1>4, <2>2 DEF Alike, TableFields, Waits
  <2> QED
    BY <2>1, <2>2
<1> HIDE DEF h
<1>6. TableRests(Table!Ends(h))
  BY <1>5, MovedEnds
<1> QED
  BY <1>6 DEF h

\* Rows erased: what the offset may still be, and what a build can make of it.
LEMMA ErasedReach ==
    ASSUME TableSuffices, NEW t, TableRests(t), NEW e, Formed(e), e.off = t.off, e.vh = t.vh,
           Table!Count(t) <= Table!Count(e) + TableErases
    PROVE  e.off <= TableReach(e, TableErases)
<1> DEFINE n == Table!Count(t)
           c == Table!Count(e) + TableErases
<1>1. /\ n \in Nat /\ c \in Nat /\ n <= c /\ RowH \in Nat /\ t.vh \in Nat /\ t.off \in Nat
      /\ t.off <= Table!High(0, RowH * n - t.vh)
  <2>1. Formed(t) /\ t.vh \in Nat /\ t.off \in Nat /\ t.off <= Table!MaxScroll(t)
    BY RestsStill DEF TableStill
  <2>2. n \in Nat /\ Table!Count(e) \in Nat
    BY <2>1, FormedCount
  <2>3. RowH \in Nat /\ TableErases \in Nat
    BY DEF TableSuffices, Table!TableAssumption
  <2>4. Table!MaxScroll(t) = Table!High(0, RowH * n - t.vh)
    BY DEF Table!MaxScroll
  <2> HIDE DEF n
  <2> QED
    BY <2>1, <2>2, <2>3, <2>4 DEF n
<1>2. TableReach(e, TableErases) = Table!High(0, RowH * c - t.vh)
  BY DEF TableReach
<1> HIDE DEF n, c
<1>3. PICK d \in Nat : c = n + d
  <2>1. c - n \in Nat /\ c = n + (c - n)
    BY <1>1
  <2> QED
    BY <2>1
<1> DEFINE x == RowH * n
           y == RowH * d
<1>4. x \in Nat /\ y \in Nat /\ RowH * c = x + y
  BY <1>1, <1>3
<1> DEFINE v == t.vh
<1>5. v \in Nat /\ t.off <= Table!High(0, x - v)
  BY <1>1
<1> HIDE DEF x, y, v
<1>6. t.off <= Table!High(0, x + y - v)
  BY <1>1, <1>4, <1>5 DEF Table!High
<1>7. TableReach(e, TableErases) = Table!High(0, x + y - v)
  <2> DEFINE w == RowH * c
  <2>1. TableReach(e, TableErases) = Table!High(0, w - v)
    BY <1>2 DEF v
  <2>2. w = x + y /\ x \in Nat /\ y \in Nat /\ v \in Nat
    BY <1>4, <1>5
  <2> HIDE DEF w
  <2>3. w - v = x + y - v
    BY <2>2
  <2> QED
    BY <2>1, <2>3
<1> QED
  BY <1>6, <1>7

\* The rows a task leaves: no more than TableErases fewer.
LEMMA ErasedForms ==
    ASSUME TableSuffices, NEW t, TableRests(t), NEW s, s \in Seq(ToSet(s)),
           Table!Count(t) <= Len(s) + TableErases, NEW sel \in Nat \cup {Table!None}, NEW e,
           DOMAIN e = TableFields, e.items = s, e.sel = sel, e.off = t.off, e.vh = t.vh,
           e.size = t.size, e.threw = t.threw
    PROVE  Formed(e) /\ e.off <= TableReach(e, TableErases) /\ e.vh = e.size.h - RowH
<1>1. Formed(e)
  BY DEF TableRests, Formed
<1>2. Table!Count(e) = Len(s)
  BY DEF Table!Count
<1>3. e.off <= TableReach(e, TableErases)
  BY <1>1, <1>2, ErasedReach
<1> QED
  BY <1>1, <1>3 DEF TableRests

LEMMA FrontDoes ==
    ASSUME NEW S, NEW s \in Seq(S), Len(s) > 0
    PROVE  Front(s) \in Seq(ToSet(Front(s))) /\ Len(Front(s)) = Len(s) - 1
<1> DEFINE n == Len(s) - 1
           f == Front(s)
<1>1. n \in Nat
  OBVIOUS
<1>2. f = [i \in 1..n |-> s[i]]
  BY DEF Front
<1> HIDE DEF n, f
<1>3. DOMAIN f = 1..n /\ f = [i \in 1..n |-> f[i]]
  BY <1>2
<1>4. f \in Seq(ToSet(f)) /\ Len(f) = n
  BY <1>1, <1>3, RangeIsEnough
<1> QED
  BY <1>4 DEF f, n

LEMMA SelectionDoes ==
    ASSUME TableSuffices, NEW t, TableRests(t), NEW row \in Nat \cup {Table!None},
           NEW e \in Table!Selections(t, row)
    PROVE  /\ Formed(e) /\ e.off <= TableReach(e, TableErases) /\ e.vh = e.size.h - RowH
           /\ e.dirty = TRUE /\ e.sel = row /\ e.off = t.off /\ e.vh = t.vh
<1> DEFINE n == Table!Count(t)
           set == [t EXCEPT !.sel = row, !.dirty = TRUE]
           less == [set EXCEPT !.items = Front(set.items)]
<1>1. /\ DOMAIN t = TableFields /\ t.items \in Seq(ToSet(t.items)) /\ n \in Nat /\ n = Len(t.items)
      /\ TableErases \in Nat
  BY FormedCount DEF TableRests, Formed, TableSuffices, Table!TableAssumption, Table!Count
<1>2. /\ DOMAIN set = TableFields /\ set.items = t.items /\ set.sel = row /\ set.dirty = TRUE
      /\ set.off = t.off /\ set.vh = t.vh /\ set.size = t.size /\ set.threw = t.threw
  BY <1>1 DEF TableFields
<1> HIDE DEF set
<1>3. /\ DOMAIN less = TableFields /\ less.items = Front(t.items) /\ less.sel = row
      /\ less.dirty = TRUE /\ less.off = t.off /\ less.vh = t.vh /\ less.size = t.size
      /\ less.threw = t.threw
  BY <1>2 DEF TableFields
<1>4. e = set \/ (n > 1 /\ TableErases > 0 /\ e = less)
  <2>1. Table!Selections(t, row) = {set} \cup (IF n > 1 /\ TableErases > 0 THEN {less} ELSE {})
    BY DEF Table!Selections, set, Front, Table!Front
  <2> HIDE DEF n, less
  <2> QED
    BY <2>1
<1> HIDE DEF less
<1>5. CASE e = set
  <2>1. n <= Len(t.items) + TableErases
    BY <1>1
  <2> HIDE DEF n
  <2> QED
    BY <1>1, <1>2, <1>5, <2>1, ErasedForms DEF n
<1>6. CASE n > 1 /\ TableErases > 0 /\ e = less
  <2>1. Front(t.items) \in Seq(ToSet(Front(t.items))) /\ Len(Front(t.items)) = n - 1
    BY <1>1, <1>6, FrontDoes
  <2>2. n <= Len(Front(t.items)) + TableErases
    BY <1>1, <1>6, <2>1
  <2> DEFINE s == Front(t.items)
  <2>3. /\ DOMAIN e = TableFields /\ e.items = s /\ e.sel = row /\ e.dirty = TRUE
        /\ e.off = t.off /\ e.vh = t.vh /\ e.size = t.size /\ e.threw = t.threw
    BY <1>3, <1>6
  <2>4. s \in Seq(ToSet(s)) /\ Table!Count(t) <= Len(s) + TableErases
    BY <2>1, <2>2
  <2> HIDE DEF n, s
  <2>5. Formed(e) /\ e.off <= TableReach(e, TableErases) /\ e.vh = e.size.h - RowH
    BY <2>3, <2>4, ErasedForms
  <2> QED
    BY <2>3, <2>5
<1> QED
  BY <1>4, <1>5, <1>6

\* The selection, as a key leaves it.
KeyShows(t) ==
    (t.last = "key" /\ t.sel < Table!Count(t) /\ t.vh >= RowH) =>
        t.sel * RowH >= t.shown.off /\ (t.sel + 1) * RowH <= t.shown.off + t.vh

TableInv == TableRests(tb) /\ KeyShows(tb)

\* Where the row is brought into view, a build keeps it.
LEMMA RevealedDoes ==
    ASSUME TableSuffices, NEW e, Formed(e), e.off <= TableReach(e, TableErases), NEW row \in Nat
    PROVE  LET g == Table!Revealed(e, row)
               o == Table!Within(g, 0, Table!MaxScroll(e))
           IN  /\ g \in Nat /\ g <= TableReach(e, TableErases)
               /\ e.off <= Table!MaxScroll(e) => g <= Table!MaxScroll(e)
               /\ (row < Table!Count(e) /\ e.vh >= RowH) =>
                     row * RowH >= o /\ (row + 1) * RowH <= o + e.vh
<1> DEFINE g == Table!Revealed(e, row)
           M == Table!MaxScroll(e)
           n == Table!Count(e)
           top == row * RowH
           d == e.off
           v == e.vh
           r == TableReach(e, TableErases)
           z == RowH * n
<1>1. n \in Nat /\ RowH \in Nat \ {0} /\ TableErases \in Nat /\ d \in Nat /\ v \in Nat
  BY FormedCount DEF TableSuffices, Table!TableAssumption, Formed
<1>2. M \in Nat /\ r \in Nat /\ M <= r /\ z \in Nat /\ M = Table!High(0, z - v) /\ d <= r
  BY <1>1, ReachIs DEF Table!MaxScroll
<1>3. top \in Nat /\ (row + 1) * RowH = top + RowH
  BY <1>1
<1>4. row < n => top + RowH <= z
  <2> SUFFICES ASSUME row < n PROVE top + RowH <= z
    OBVIOUS
  <2>1. PICK k \in Nat : n = row + 1 + k
    <3>1. n - row - 1 \in Nat /\ n = row + 1 + (n - row - 1)
      BY <1>1
    <3> QED
      BY <3>1
  <2>2. RowH * n = (row + 1) * RowH + RowH * k /\ RowH * k \in Nat
    BY <1>1, <2>1
  <2> QED
    BY <1>1, <1>3, <2>2
<1>5. g = IF top + RowH > d + v THEN Table!Within(top + RowH - v, 0, M)
          ELSE IF top < d THEN Table!Within(top, 0, M) ELSE d
  BY DEF Table!Revealed
<1> HIDE DEF g, M, n, top, d, v, r, z
<1> DEFINE o == Table!Within(g, 0, M)
<1>6. g \in Nat /\ g <= r /\ (d <= M => g <= M)
  BY <1>1, <1>2, <1>3, <1>5 DEF Table!Within, Table!High, Table!Low
<1>7. ASSUME row < n, v >= RowH
      PROVE  top >= o /\ top + RowH <= o + v
  <2>1. top + RowH <= z /\ top + RowH - v <= M
    BY <1>1, <1>2, <1>3, <1>4, <1>7 DEF Table!High
  <2>2. CASE top + RowH > d + v
    <3>1. top + RowH - v \in 0..M /\ top + RowH - v \in Int
      BY <1>1, <1>2, <1>3, <2>1, <2>2
    <3>2. g = top + RowH - v
      BY <1>2, <1>5, <2>2, <3>1, WithinBounds
    <3>3. o = top + RowH - v
      BY <1>2, <3>1, <3>2, WithinBounds
    <3> HIDE DEF o
    <3> QED
      BY <1>1, <1>3, <1>7, <3>3
  <2>3. CASE ~(top + RowH > d + v) /\ top < d
    <3>1. g = Table!Low(top, M) /\ o = Table!Low(top, M)
      BY <1>1, <1>2, <1>3, <1>5, <2>3 DEF Table!Within, Table!High, Table!Low
    <3> HIDE DEF o
    <3> QED
      BY <1>1, <1>2, <1>3, <1>7, <2>1, <2>3, <3>1 DEF Table!Low
  <2>4. CASE ~(top + RowH > d + v) /\ ~(top < d)
    <3>1. g = d /\ o = Table!Low(d, M)
      BY <1>1, <1>2, <1>3, <1>5, <2>4 DEF Table!Within, Table!High, Table!Low
    <3> HIDE DEF o
    <3> QED
      BY <1>1, <1>2, <1>3, <1>7, <2>1, <2>4, <3>1 DEF Table!Low
  <2> QED
    BY <2>2, <2>3, <2>4
<1> QED
  BY <1>3, <1>6, <1>7 DEF g, M, n, top, d, v, r

\* A step leaves the table at rest, and says what the event was.
LEMMA DoneRests ==
    ASSUME NEW e, TableRests(e), NEW x, x # "key", tb' = [e EXCEPT !.last = x]
    PROVE  TableInv'
<1>1. TableRests(tb') /\ tb'.last = x
  BY MarkRests, ZenonT(30)
<1> QED
  BY <1>1 DEF TableInv, KeyShows

\* A move of the selection.
LEMMA MoveDoes ==
    ASSUME TableSuffices, TableRests(tb), NEW row \in Nat, Table!MovesTo(row)
    PROVE  TableInv'
<1>1. PICK e \in Table!Selections(tb, row) : tb' = [Table!Ends(Table!Reveals(e)) EXCEPT !.last = "key"]
  BY DEF Table!MovesTo
<1>2. /\ Formed(e) /\ e.off <= TableReach(e, TableErases) /\ e.vh = e.size.h - RowH
      /\ e.dirty = TRUE /\ e.sel = row
  BY SelectionDoes
<1> DEFINE g == Table!Reveals(e)
           o == Table!Revealed(e, row)
           f == Table!Ends(g)
<1>3. g = [e EXCEPT !.off = o]
  BY <1>2 DEF Table!Reveals, Table!None
<1>4. /\ o \in Nat /\ o <= TableReach(e, TableErases)
      /\ (row < Table!Count(e) /\ e.vh >= RowH) =>
            LET p == Table!Within(o, 0, Table!MaxScroll(e))
            IN  row * RowH >= p /\ (row + 1) * RowH <= p + e.vh
  BY <1>2, RevealedDoes
<1> HIDE DEF o
<1>5. Alike(e, g) /\ g.off = o /\ g.dirty = TRUE
  BY <1>2, <1>3 DEF Alike, TableFields, Formed
<1> HIDE DEF g
<1>6. /\ Formed(g) /\ Table!Count(g) = Table!Count(e) /\ Table!MaxScroll(g) = Table!MaxScroll(e)
      /\ TableReach(g, TableErases) = TableReach(e, TableErases)
  BY <1>2, <1>4, <1>5, AlikeKeeps
<1>7. TableRests(f) /\ Built(g, f)
  BY <1>4, <1>5, <1>6, EndsDoes
<1> HIDE DEF f
<1>8. /\ f.items = e.items /\ f.sel = row /\ f.size = e.size /\ f.vh = e.vh /\ f.shown.off = f.off
      /\ f.off = Table!Within(o, 0, Table!MaxScroll(f))
  BY <1>2, <1>5, <1>7 DEF Built, TableRests, Alike
<1>9. Table!MaxScroll(f) = Table!MaxScroll(e) /\ Table!Count(f) = Table!Count(e)
  BY <1>8 DEF Table!MaxScroll, Table!Count
<1>10. tb' = [f EXCEPT !.last = "key"] /\ DOMAIN f = TableFields
  BY <1>1, <1>7 DEF f, g, TableRests, Formed
<1>11. /\ tb'.items = f.items /\ tb'.sel = f.sel /\ tb'.vh = f.vh /\ tb'.shown = f.shown
  BY <1>10 DEF TableFields
<1>12. KeyShows(tb')
  <2>1. Table!Count(tb') = Table!Count(f)
    BY <1>11 DEF Table!Count
  <2> QED
    BY <1>4, <1>8, <1>9, <1>11, <2>1 DEF KeyShows
<1>13. TableRests(tb')
  BY <1>7, <1>10, MarkRests, ZenonT(30)
<1> QED
  BY <1>12, <1>13 DEF TableInv

\* A key that moves nothing looks for the selection again.
LEMMA LookDoes ==
    ASSUME TableSuffices, TableRests(tb), Table!Looks
    PROVE  TableInv'
<1>1. /\ Formed(tb) /\ TableStill(tb) /\ DOMAIN tb = TableFields
      /\ tb.off \in Nat /\ tb.vh \in Nat /\ tb.off <= TableReach(tb, TableErases)
      /\ tb.off <= Table!MaxScroll(tb) /\ tb.dirty = FALSE /\ tb.sel \in Nat \cup {Table!None}
  BY RestsStill DEF TableStill, Formed
<1> DEFINE g == Table!Reveals(tb)
<1>2. /\ Alike(tb, g) /\ g.off \in Nat /\ g.off <= Table!MaxScroll(tb)
      /\ g.dirty = FALSE /\ g.slid = tb.slid
  <2>1. CASE tb.sel = Table!None
    <3>1. g = tb
      BY <2>1 DEF Table!Reveals
    <3> HIDE DEF g
    <3> QED
      BY <1>1, <3>1 DEF Alike
  <2>2. CASE tb.sel # Table!None
    <3> DEFINE o == Table!Revealed(tb, tb.sel)
    <3>1. tb.sel \in Nat
      BY <1>1, <2>2
    <3>2. o \in Nat /\ o <= Table!MaxScroll(tb)
      BY <1>1, <3>1, RevealedDoes
    <3> HIDE DEF o
    <3>3. g = [tb EXCEPT !.off = o]
      BY <2>2 DEF Table!Reveals, o
    <3> HIDE DEF g
    <3> QED
      BY <1>1, <3>2, <3>3 DEF Alike, TableFields
  <2> QED
    BY <2>1, <2>2
<1>3. tb' = [g EXCEPT !.last = "none", !.slid = g.slid \/ g.off # tb.off]
  BY DEF Table!Looks
<1> HIDE DEF g
<1>4. /\ Alike(tb, tb') /\ tb'.off = g.off /\ tb'.dirty = FALSE /\ tb'.last = "none"
      /\ tb'.slid = (tb.slid \/ g.off # tb.off)
  BY <1>1, <1>2, <1>3 DEF Alike, TableFields
<1>5. Formed(tb') /\ Table!MaxScroll(tb') = Table!MaxScroll(tb) /\ RowsShown(tb')
  BY <1>1, <1>2, <1>4, AlikeKeeps DEF TableStill
<1>6. TableRests(tb')
  BY <1>1, <1>2, <1>4, <1>5 DEF TableRests, TableStill, Alike
<1> QED
  BY <1>4, <1>6 DEF TableInv, KeyShows

\* The row a press takes: the one under the pointer, if the source has it.
PressedRow(y) == (y - RowH + tb.off) \div RowH
PressHits(y) == y >= RowH /\ PressedRow(y) < Table!Count(tb)
PressSets(y) == IF tb.sel = PressedRow(y) THEN Table!None ELSE PressedRow(y)

LEMMA PressDoes ==
    ASSUME TableSuffices, TableRests(tb), NEW y \in TablePresses, Table!PressAt(y)
    PROVE  /\ TableInv'
           /\ PressHits(y) => PressedRow(y) \in Nat /\ tb'.sel = PressSets(y)
           /\ ~PressHits(y) => tb'.sel = tb.sel
<1> DEFINE marked == [tb EXCEPT !.dirty = TRUE]
<1>1. PICK e \in IF PressHits(y) THEN Table!Selections(tb, PressSets(y)) ELSE {marked} :
         tb' = [Table!Ends(e) EXCEPT !.last = "none"]
  BY ZenonT(30) DEF Table!PressAt, PressHits, PressSets, PressedRow
<1>2. /\ Formed(tb) /\ TableStill(tb) /\ DOMAIN tb = TableFields
      /\ tb.off \in Nat /\ tb.off <= Table!MaxScroll(tb)
      /\ RowH \in Nat \ {0} /\ y \in Nat
  BY RestsStill DEF TableStill, TableSuffices, Table!TableAssumption
<1>3. /\ TableRests(Table!Ends(e))
      /\ PressHits(y) => PressedRow(y) \in Nat /\ Table!Ends(e).sel = PressSets(y)
      /\ ~PressHits(y) => Table!Ends(e).sel = tb.sel
  <2>1. CASE PressHits(y)
    <3>1. PressedRow(y) \in Nat
      <4> DEFINE z == y - RowH + tb.off
      <4>1. z \in Nat /\ PressedRow(y) = z \div RowH
        BY <1>2, <2>1 DEF PressHits, PressedRow
      <4> HIDE DEF z
      <4>2. z \div RowH \in Nat
        BY <1>2, <4>1, DivBounds
      <4> QED
        BY <4>1, <4>2
    <3>2. PressSets(y) \in Nat \cup {Table!None} /\ e \in Table!Selections(tb, PressSets(y))
      BY <1>1, <2>1, <3>1 DEF PressSets
    <3>3. Formed(e) /\ e.off <= TableReach(e, TableErases) /\ e.dirty = TRUE /\ e.sel = PressSets(y)
      BY <3>2, SelectionDoes
    <3>4. TableRests(Table!Ends(e)) /\ Table!Ends(e).sel = e.sel
      BY <3>3, EndsDoes
    <3> QED
      BY <2>1, <3>1, <3>3, <3>4
  <2>2. CASE ~PressHits(y)
    <3>1. e = marked
      BY <1>1, <2>2
    <3>2. Alike(tb, e) /\ e.off = tb.off /\ e.dirty = TRUE
      BY <1>2, <3>1 DEF Alike, TableFields
    <3> HIDE DEF marked
    <3>3. Formed(e) /\ TableReach(e, TableErases) = TableReach(tb, TableErases)
      BY <1>2, <3>2, AlikeKeeps
    <3>4. e.off <= TableReach(e, TableErases)
      BY <3>2, <3>3, RestsStill
    <3>5. TableRests(Table!Ends(e)) /\ Table!Ends(e).sel = e.sel
      BY <3>2, <3>3, <3>4, EndsDoes
    <3> QED
      BY <2>2, <3>2, <3>5 DEF Alike
  <2> QED
    BY <2>1, <2>2
<1>4. TableInv'
  BY <1>1, <1>3, DoneRests
<1>5. tb'.sel = Table!Ends(e).sel
  BY <1>1, <1>3, MarkRests, ZenonT(30)
<1> QED
  BY <1>3, <1>4, <1>5

LEMMA PressTableKeeps ==
    ASSUME TableSuffices, TableRests(tb), Table!PressTable
    PROVE  TableInv'
<1>1. PICK y \in TablePresses : Table!PressAt(y)
  BY DEF Table!PressTable
<1> QED
  BY <1>1, PressDoes

\* The row under a press within the table is painted, and nothing else is.
LEMMA PaintedIsPressed ==
    ASSUME TableSuffices, TableRests(tb), ~tb.slid, NEW y \in TablePresses, y < tb.size.h
    PROVE  /\ Table!PaintedAt(y) = IF PressHits(y) THEN PressedRow(y) ELSE Table!None
           /\ PressHits(y) =>
                 /\ PressedRow(y) \in Nat
                 /\ tb.shown.rows[PressedRow(y) - tb.shown.start + 1].item = tb.items[PressedRow(y) + 1]
<1> DEFINE n == Table!Count(tb)
           row == PressedRow(y)
           start == tb.shown.start
           rows == tb.shown.rows
           z == y - RowH + tb.off
<1>1. /\ tb.off \in Nat /\ tb.vh \in Nat /\ tb.off = tb.shown.off /\ tb.vh = tb.size.h - RowH
      /\ RowH \in Nat \ {0} /\ y \in Nat /\ tb.size.h \in Nat /\ n \in Nat
  BY FormedCount DEF TableRests, Formed, TableSuffices, Table!TableAssumption
<1>2. start \in Nat /\ rows \in Seq(ToSet(rows)) /\ start + Len(rows) <= n
  BY DEF TableRests, RowsShown, RowsFit
<1>3. row = z \div RowH /\ Table!PaintedAt(y) = IF y >= RowH /\ row - start + 1 \in DOMAIN rows
                                              THEN row ELSE Table!None
  BY <1>1 DEF PressedRow, Table!PaintedAt
<1>4. CASE y >= RowH
  <2>1. z \in Nat /\ z < tb.shown.off + tb.vh /\ z >= tb.shown.off
    BY <1>1, <1>4
  <2> HIDE DEF z
  <2>2. row \in Nat /\ row * RowH <= z /\ z < (row + 1) * RowH
    BY <1>1, <1>3, <2>1, DivBounds
  <2> HIDE DEF row, n
  <2>3. row * RowH \in Int /\ (row + 1) * RowH \in Int
    BY <1>1, <2>2, Times
  <2>4. row * RowH < tb.shown.off + tb.vh /\ (row + 1) * RowH > tb.shown.off
    <3> DEFINE a == row * RowH
               b == (row + 1) * RowH
    <3>1. a \in Int /\ b \in Int /\ a <= z /\ z < b
      BY <2>2, <2>3
    <3> HIDE DEF a, b
    <3>2. a < tb.shown.off + tb.vh /\ b > tb.shown.off
      BY <1>1, <2>1, <3>1
    <3> QED
      BY <3>2 DEF a, b
  <2>5. CASE row < n
    <3>1. row \in 0..(n - 1)
      BY <1>1, <2>2, <2>5
    <3>2. row - start + 1 \in DOMAIN rows /\ rows[row - start + 1].item = tb.items[row + 1]
      BY <2>4, <3>1 DEF TableRests, RowsShown, n
    <3>3. PressHits(y)
      BY <1>4, <2>5 DEF PressHits, row, n
    <3> QED
      BY <1>3, <1>4, <2>2, <3>2, <3>3 DEF row
  <2>6. CASE ~(row < n)
    <3> HIDE DEF start, rows
    <3>4. start \in Nat /\ Len(rows) \in Nat /\ DOMAIN rows = 1..Len(rows)
      BY <1>2
    <3> DEFINE k == Len(rows)
    <3>1. k \in Nat /\ start + k <= n /\ DOMAIN rows = 1..k
      BY <1>2, <3>4
    <3> HIDE DEF k
    <3>2. row - start + 1 \notin DOMAIN rows
      BY <1>1, <2>2, <2>6, <3>1, <3>4
    <3>3. ~PressHits(y)
      BY <2>6 DEF PressHits, row, n
    <3> QED
      BY <1>3, <3>2, <3>3
  <2> QED
    BY <2>5, <2>6
<1>5. CASE ~(y >= RowH)
  BY <1>3, <1>5 DEF PressHits
<1> QED
  BY <1>1, <1>4, <1>5

LEMMA PressTakesPainted ==
    ASSUME TableSuffices, TableRests(tb)
    PROVE  Table!PressPicksPainted
<1> SUFFICES ASSUME NEW y \in TablePresses, y < tb.size.h, Table!PressAt(y), ~tb.slid
             PROVE  LET row == Table!PaintedAt(y)
                    IN IF row = Table!None THEN tb'.sel = tb.sel
                       ELSE /\ tb'.sel = IF tb.sel = row THEN Table!None ELSE row
                            /\ tb.shown.rows[row - tb.shown.start + 1].item = tb.items[row + 1]
  BY DEF Table!PressPicksPainted
<1>1. /\ PressHits(y) => PressedRow(y) \in Nat /\ tb'.sel = PressSets(y)
      /\ ~PressHits(y) => tb'.sel = tb.sel
  BY PressDoes
<1>2. /\ Table!PaintedAt(y) = IF PressHits(y) THEN PressedRow(y) ELSE Table!None
      /\ PressHits(y) =>
            tb.shown.rows[PressedRow(y) - tb.shown.start + 1].item = tb.items[PressedRow(y) + 1]
  BY PaintedIsPressed
<1> QED
  BY <1>1, <1>2 DEF PressSets, Table!None

LEMMA ScrollsKeep ==
    ASSUME TableSuffices, TableRests(tb), Table!TurnWheel \/ Table!PressPage
    PROVE  TableInv'
<1>1. /\ Formed(tb) /\ DOMAIN tb = TableFields /\ tb.off \in Nat /\ Table!MaxScroll(tb) \in Nat
      /\ tb.off <= Table!MaxScroll(tb) /\ tb.dirty = FALSE
      /\ RowH \in Nat /\ WheelStep \in Nat /\ PageStep \in Nat
  BY RestsStill DEF TableStill, TableSuffices, Table!TableAssumption
<1>2. CASE Table!TurnWheel
  <2> DEFINE New(notch) == Table!Within(tb.off + notch * RowH * 3, 0, Table!MaxScroll(tb))
             Own(notch) == [tb EXCEPT !.off = New(notch), !.dirty = TRUE]
  <2>1. PICK notch \in {-1, 1} :
           tb' = [Table!Ends(Table!ScrollAt(Own(notch), notch * WheelStep)) EXCEPT !.last = "none"]
    BY <1>2 DEF Table!TurnWheel
  <2>2. New(notch) \in Nat /\ New(notch) <= Table!MaxScroll(tb)
    <3> DEFINE z == tb.off + notch * RowH * 3
    <3>1. z \in Int
      BY <1>1
    <3> HIDE DEF z
    <3>2. Table!Within(z, 0, Table!MaxScroll(tb)) \in 0..Table!MaxScroll(tb)
      BY <1>1, <3>1, WithinBounds
    <3> QED
      BY <1>1, <3>2 DEF z
  <2> HIDE DEF New
  <2> DEFINE own == Own(notch)
  <2>3. Alike(tb, own) /\ own.off = New(notch) /\ own.dirty = TRUE
    BY <1>1 DEF Alike, TableFields
  <2>7. Waits(tb, own)
    BY <2>3 DEF Waits
  <2>4. notch * WheelStep \in Int
    BY <1>1
  <2> HIDE DEF own
  <2>5. TableRests(Table!Ends(Table!ScrollAt(own, notch * WheelStep)))
    BY <2>2, <2>3, <2>4, <2>7, ScrollAtDoes
  <2>6. tb' = [Table!Ends(Table!ScrollAt(own, notch * WheelStep)) EXCEPT !.last = "none"]
    BY <2>1 DEF own
  <2> QED
    BY <2>5, <2>6, DoneRests
<1>3. CASE Table!PressPage
  <2>1. PICK dir \in {-1, 1} :
           tb' = [Table!Ends(Table!ScrollAt(tb, dir * PageStep)) EXCEPT !.last = "none"]
    BY <1>3 DEF Table!PressPage
  <2>2. Alike(tb, tb) /\ Waits(tb, tb) /\ dir * PageStep \in Int
    BY <1>1 DEF Alike, Waits
  <2>3. TableRests(Table!Ends(Table!ScrollAt(tb, dir * PageStep)))
    BY <1>1, <2>2, ScrollAtDoes
  <2> QED
    BY <2>1, <2>3, DoneRests
<1> QED
  BY <1>2, <1>3

LEMMA ArrowsKeep ==
    ASSUME TableSuffices, TableRests(tb), Table!PressDown \/ Table!PressUp
    PROVE  TableInv'
<1>1. tb.sel \in Nat \cup {Table!None}
  BY DEF TableRests, Formed
<1>2. CASE Table!PressDown
  <2> DEFINE next == IF tb.sel = Table!None THEN 0 ELSE tb.sel + 1
  <2>1. next \in Nat
    BY <1>1
  <2>2. CASE next < Table!Count(tb)
    <3>1. Table!MovesTo(next)
      BY <1>2, <2>2 DEF Table!PressDown
    <3> HIDE DEF next
    <3> QED
      BY <2>1, <3>1, MoveDoes
  <2>3. CASE ~(next < Table!Count(tb))
    BY <1>2, <2>3, LookDoes DEF Table!PressDown
  <2> QED
    BY <2>2, <2>3
<1>3. CASE Table!PressUp
  <2>1. CASE tb.sel > 0
    <3>1. Table!MovesTo(tb.sel - 1) /\ tb.sel - 1 \in Nat
      BY <1>1, <1>3, <2>1 DEF Table!PressUp, Table!None
    <3> QED
      BY <3>1, MoveDoes
  <2>2. CASE ~(tb.sel > 0)
    BY <1>3, <2>2, LookDoes DEF Table!PressUp
  <2> QED
    BY <2>1, <2>2
<1> QED
  BY <1>2, <1>3

\* The table counts with the operator of FiniteSets.
LEMMA SameCardinality == \A S : Table!Cardinality(S) = Cardinality(S)
BY DEF Cardinality, Table!Cardinality

LEMMA ChangeRowsKeeps ==
    ASSUME TableSuffices, TableRests(tb), Table!ChangeRows
    PROVE  TableInv'
<1>1. PICK gone \in SUBSET DOMAIN tb.items, more \in 0..1 :
         LET kept == Table!Picked(tb.items, DOMAIN tb.items \ gone)
             fresh == CHOOSE x \in 1..(TableRows + 1) : x \notin Table!ToSet(kept)
             rows == IF more = 1 THEN Append(kept, fresh) ELSE kept
         IN  /\ Cardinality(gone) <= TableErases
             /\ tb' = [Table!Ends([tb EXCEPT !.items = rows, !.dirty = TRUE]) EXCEPT !.last = "none"]
  BY SameCardinality, ZenonT(30) DEF Table!ChangeRows
<1> DEFINE n == Table!Count(tb)
           places == DOMAIN tb.items \ gone
           k == Cardinality(places)
           kept == Table!Picked(tb.items, places)
           fresh == CHOOSE x \in 1..(TableRows + 1) : x \notin Table!ToSet(kept)
           rows == IF more = 1 THEN Append(kept, fresh) ELSE kept
           e == [tb EXCEPT !.items = rows, !.dirty = TRUE]
<1>2. Cardinality(gone) <= TableErases /\ tb' = [Table!Ends(e) EXCEPT !.last = "none"]
  BY <1>1, ZenonT(30)
<1>3. /\ Formed(tb) /\ DOMAIN tb = TableFields /\ n \in Nat /\ DOMAIN tb.items = 1..n
      /\ TableErases \in Nat /\ tb.sel \in Nat \cup {Table!None}
  BY RestsStill, FormedCount DEF TableSuffices, Table!TableAssumption, Formed
<1>4. k \in Nat /\ n <= k + TableErases
  <2>1. IsFiniteSet(1..n) /\ Cardinality(1..n) = n
    BY <1>3, FS_Interval
  <2>2. places = (1..n) \ gone /\ gone \subseteq 1..n
    BY <1>3
  <2>3. IsFiniteSet(gone) /\ IsFiniteSet(places)
    BY <2>1, <2>2, FS_Subset
  <2>4. k = n - Cardinality((1..n) \cap gone)
    BY <2>1, <2>2, FS_Difference
  <2>5. (1..n) \cap gone = gone
    BY <2>2
  <2>6. Cardinality(gone) \in Nat /\ k \in Nat
    BY <2>3, FS_CardinalityType
  <2> DEFINE out == Cardinality(gone)
  <2>7. k = n - out /\ out \in Nat /\ out <= TableErases
    BY <1>2, <2>4, <2>5, <2>6, ZenonT(30)
  <2> HIDE DEF n, places, k, out
  <2> QED
    BY <1>3, <2>6, <2>7
<1> DEFINE At(i) == tb.items[CHOOSE j \in places : Table!Ahead(places, j) = i - 1]
<1>5. kept = [i \in 1..k |-> At(i)]
  BY SameCardinality DEF Table!Picked
<1> HIDE DEF n, places, k, kept, fresh, At
<1>6. kept \in Seq(ToSet(kept)) /\ Len(kept) = k
  <2>1. DOMAIN kept = 1..k /\ kept = [i \in 1..k |-> kept[i]]
    BY <1>5
  <2> QED
    BY <1>4, <2>1, RangeIsEnough
<1>7. rows \in Seq(ToSet(rows)) /\ n <= Len(rows) + TableErases
  <2>1. CASE more = 1
    <3> DEFINE S == ToSet(kept) \cup {fresh}
               longer == Append(kept, fresh)
    <3>1. kept \in Seq(S) /\ longer \in Seq(S) /\ Len(longer) = k + 1
      BY <1>6
    <3>3. rows = longer
      BY <2>1
    <3> HIDE DEF longer, S, rows
    <3>2. DOMAIN longer = 1..(k + 1) /\ longer = [i \in 1..(k + 1) |-> longer[i]] /\ k + 1 \in Nat
      BY <1>4, <3>1
    <3>4. longer \in Seq(ToSet(longer))
      BY <3>2, RangeIsEnough
    <3> QED
      BY <1>3, <1>4, <3>1, <3>3, <3>4
  <2>2. CASE more # 1
    <3>1. rows = kept
      BY <2>2
    <3> HIDE DEF rows
    <3> QED
      BY <1>4, <1>6, <3>1
  <2> QED
    BY <2>1, <2>2
<1> HIDE DEF rows
<1>8. /\ DOMAIN e = TableFields /\ e.items = rows /\ e.sel = tb.sel /\ e.off = tb.off
      /\ e.vh = tb.vh /\ e.size = tb.size /\ e.threw = tb.threw /\ e.dirty = TRUE
  BY <1>3 DEF TableFields
<1> HIDE DEF e
<1>9. Formed(e) /\ e.off <= TableReach(e, TableErases)
  BY <1>3, <1>7, <1>8, ErasedForms DEF n
<1>10. TableRests(Table!Ends(e))
  BY <1>8, <1>9, EndsDoes
<1>11. tb' = [Table!Ends(e) EXCEPT !.last = "none"]
  BY <1>2 DEF e
<1> QED
  BY <1>10, <1>11, DoneRests

LEMMA SelectRowKeeps ==
    ASSUME TableSuffices, TableRests(tb), Table!SelectRow
    PROVE  TableInv'
<1>1. PICK row \in Table!None..(Table!Count(tb) - 1) :
         tb' = [tb EXCEPT !.sel = row, !.unseen = TRUE, !.last = "none"]
  BY ZenonT(30) DEF Table!SelectRow
<1>2. /\ Formed(tb) /\ TableStill(tb) /\ DOMAIN tb = TableFields /\ Table!Count(tb) \in Nat
  BY RestsStill, FormedCount
<1>3. row \in Nat \cup {Table!None}
  BY <1>2 DEF Table!None
<1>4. /\ DOMAIN tb' = TableFields /\ tb'.items = tb.items /\ tb'.sel = row /\ tb'.off = tb.off
      /\ tb'.vh = tb.vh /\ tb'.vw = tb.vw /\ tb'.size = tb.size /\ tb'.threw = tb.threw
      /\ tb'.dirty = tb.dirty /\ tb'.slid = tb.slid /\ tb'.refit = tb.refit
      /\ tb'.shown = tb.shown /\ tb'.unseen = TRUE /\ tb'.last = "none"
  BY <1>1, <1>2 DEF TableFields
<1>5. Formed(tb') /\ Table!Count(tb') = Table!Count(tb) /\ Table!MaxScroll(tb') = Table!MaxScroll(tb)
  BY <1>2, <1>3, <1>4 DEF Formed, Table!Count, Table!MaxScroll
<1>6. RowsShown(tb')
  BY <1>2, <1>4, <1>5 DEF TableStill, RowsShown
<1>7. TableRests(tb')
  BY <1>2, <1>4, <1>5, <1>6 DEF TableRests, TableStill
<1> QED
  BY <1>4, <1>7 DEF TableInv, KeyShows

LEMMA ResizeTableKeeps ==
    ASSUME TableSuffices, TableRests(tb), Table!ResizeTable
    PROVE  TableInv'
<1>1. PICK s \in TableSizes : tb' = [Table!Snapshot([tb EXCEPT !.size = s]) EXCEPT !.last = "none"]
  BY DEF Table!ResizeTable
<1> DEFINE e == [tb EXCEPT !.size = s]
<1>2. /\ Formed(tb) /\ DOMAIN tb = TableFields /\ tb.off <= TableReach(tb, TableErases)
  BY RestsStill
<1>3. /\ DOMAIN e = TableFields /\ e.items = tb.items /\ e.sel = tb.sel /\ e.off = tb.off
      /\ e.vh = tb.vh /\ e.size = s /\ e.threw = tb.threw
  BY <1>2 DEF TableFields
<1>4. tb' = [Table!Snapshot(e) EXCEPT !.last = "none"]
  BY <1>1
<1> HIDE DEF e
<1>5. Formed(e) /\ e.off <= TableReach(e, TableErases)
  BY <1>2, <1>3 DEF Formed, TableReach, Table!Count
<1>6. TableRests(Table!Snapshot(e))
  BY <1>5, SnapshotDoes DEF Built
<1> QED
  BY <1>4, <1>6, DoneRests

\* A build leaves what the last event was.
LEMMA SnapshotLast ==
    ASSUME NEW e, DOMAIN e = TableFields
    PROVE  Table!Snapshot(e).last = e.last
<1>1. ASSUME NEW d, DOMAIN d = TableFields
      PROVE  DOMAIN Table!Materialized(d) = TableFields /\ Table!Materialized(d).last = d.last
  BY <1>1 DEF Table!Materialized, TableFields
<1>2. ASSUME NEW d, DOMAIN d = TableFields
      PROVE  DOMAIN Table!Learned(d) = TableFields /\ Table!Learned(d).last = d.last
  BY <1>2 DEF Table!Learned, TableFields
<1> DEFINE once == Table!Learned(Table!Materialized(e))
           twice == Table!Learned(Table!Materialized(once))
           done == IF once.vh = e.vh \/ once.threw THEN once ELSE twice
<1>3. DOMAIN once = TableFields /\ once.last = e.last
  BY <1>1, <1>2
<1> HIDE DEF once
<1>4. DOMAIN twice = TableFields /\ twice.last = once.last
  BY <1>1, <1>2, <1>3
<1> HIDE DEF twice
<1>5. DOMAIN done = TableFields /\ done.last = e.last
  BY <1>3, <1>4
<1>6. \E x, y, z : Table!Snapshot(e) =
         [done EXCEPT !.shown = x, !.dirty = FALSE, !.slid = FALSE, !.unseen = FALSE, !.refit = y]
  BY ZenonT(30) DEF Table!Snapshot, once, twice
<1> HIDE DEF done
<1> QED
  BY <1>5, <1>6 DEF TableFields

LEMMA TableStarts ==
    ASSUME TableSuffices, Table!TableInit
    PROVE  TableInv
<1>1. PICK s \in TableSizes, n \in 0..TableRows :
         tb = Table!Snapshot(
                [items |-> [i \in 1..n |-> i], off |-> 0, vh |-> 0, vw |-> 0, sel |-> Table!None,
                 rows |-> <<>>, start |-> 0, size |-> s, dirty |-> TRUE, threw |-> FALSE,
                 slid |-> FALSE, unseen |-> FALSE, refit |-> FALSE, last |-> "none",
                 shown |-> [start |-> 0, rows |-> <<>>, off |-> 0]])
  BY DEF Table!TableInit
<1> DEFINE e == [items |-> [i \in 1..n |-> i], off |-> 0, vh |-> 0, vw |-> 0, sel |-> Table!None,
                 rows |-> <<>>, start |-> 0, size |-> s, dirty |-> TRUE, threw |-> FALSE,
                 slid |-> FALSE, unseen |-> FALSE, refit |-> FALSE, last |-> "none",
                 shown |-> [start |-> 0, rows |-> <<>>, off |-> 0]]
           all == [i \in 1..n |-> i]
<1>2. n \in Nat /\ TableErases \in Nat
  BY DEF TableSuffices, Table!TableAssumption
<1>3. all \in Seq(ToSet(all))
  <2>1. DOMAIN all = 1..n /\ all = [i \in 1..n |-> all[i]]
    OBVIOUS
  <2> HIDE DEF all
  <2> QED
    BY <1>2, <2>1, RangeIsEnough
<1>4. /\ DOMAIN e = TableFields /\ e.items = all /\ e.off = 0 /\ e.vh = 0 /\ e.size = s
      /\ e.sel = Table!None /\ e.threw = FALSE /\ e.last = "none"
  BY DEF TableFields
<1>5. tb = Table!Snapshot(e)
  BY <1>1
<1> HIDE DEF e, all
<1>6. Formed(e)
  BY <1>3, <1>4 DEF Formed
<1>7. e.off <= TableReach(e, TableErases)
  <2>1. TableReach(e, TableErases) \in Nat
    BY <1>2, <1>6, ReachIs
  <2> QED
    BY <1>4, <2>1
<1>8. TableRests(tb) /\ tb.last = "none"
  BY <1>4, <1>5, <1>6, <1>7, SnapshotDoes, SnapshotLast DEF Built
<1> QED
  BY <1>8 DEF TableInv, KeyShows

LEMMA TableKeeps ==
    ASSUME TableSuffices, TableInv, Table!TableNext
    PROVE  TableInv'
BY PressTableKeeps, ScrollsKeep, ArrowsKeep, ChangeRowsKeeps, SelectRowKeeps, ResizeTableKeeps
   DEF TableInv, Table!TableNext

LEMMA TableInvShows == TableInv => Table!TableTypeOK /\ Table!RowsInViewCurrent /\ Table!SelectionFollows
BY DEF TableInv, TableRests, Formed, RowsShown, RowsFit, KeyShows, Table!TableTypeOK,
       Table!RowsInViewCurrent, Table!SelectionFollows

\* While no task erases more rows than the overscan holds, every row in view is on
\* the screen with its item, keys bring the selection into view, and a press takes
\* the row that is painted under it.
\* (materialize_table, update_scroll_state, wire_table_input)
THEOREM TableStaysShown ==
    ASSUME TableErases <= Overscan
    PROVE  ScenesSpec => TableShown
<1> DEFINE Inv == scene = "table" => TableInv
           Seen == scene = "table" =>
                       Table!TableTypeOK /\ Table!RowsInViewCurrent /\ Table!SelectionFollows
           Step == scene = "table" => Table!PressPicksPainted
<1>0. TableSuffices
  BY ScenesAssumption DEF ScenesAssumption, TableSuffices
<1>1. ScenesInit => Inv
  BY <1>0, TableStarts DEF ScenesInit
<1>2. Inv /\ [ScenesNext]_sceneVars => Inv'
  <2> SUFFICES ASSUME Inv, [ScenesNext]_sceneVars, scene' = "table" PROVE TableInv'
    OBVIOUS
  <2>1. CASE scene = "table" /\ Table!TableNext
    BY <1>0, <2>1, TableKeeps
  <2>2. CASE scene' = scene /\ tb' = tb
    BY <2>2 DEF TableInv, TableRests, Formed, RowsShown, KeyShows
  <2>3. \/ scene = "table" /\ Table!TableNext
        \/ scene' = scene /\ tb' = tb
    BY DEF ScenesNext, sceneVars
  <2> QED
    BY <2>1, <2>2, <2>3
<1>3. Inv => Seen
  BY TableInvShows
<1>4. Inv /\ [ScenesNext]_sceneVars => [Step]_tb
  BY <1>0, PressTakesPainted DEF TableInv
<1> HIDE DEF Inv
<1>5. ScenesSpec => []Inv
  BY <1>1, <1>2, PTL DEF ScenesSpec
<1>6. []Inv => []Seen
  BY <1>3, PTL
<1>7. []Inv /\ [][ScenesNext]_sceneVars => [][Step]_tb
  BY <1>4, PTL
<1> QED
  BY <1>5, <1>6, <1>7, PTL DEF ScenesSpec, TableShown

-----------------------------------------------------------------------------
(* The plots. *)

PlotViews == [off : Int, zoom : LowZoom .. MaxZoom]
PlotCenters == Centers \cup {Plot!Auto}
Pixels2 == Int \X Int

PlotStates ==
    [xr : PlotCenters, yr : [Panels -> PlotCenters],
     xv : PlotViews, yv : [Panels -> PlotViews],
     drag : [Panels -> [on : BOOLEAN, at : Pixels2, view : [x : PlotViews, y : PlotViews]]],
     fit : [Panels -> Centers],
     hold : [p : Panels, pan : BOOLEAN, axes : SUBSET {"x", "y"}, at : Pixels2, x : Int, y : Int],
     acts : Int]

\* What is held under the pointer was shown at frozen ranges.
HoldShown(s) ==
    LET h == s.hold IN
    /\ "x" \in h.axes => s.xr \in Centers /\ Plot!XAt(s, h.p, h.at[1]) = h.x
    /\ "y" \in h.axes => s.yr[h.p] \in Centers /\ Plot!YAt(s, h.p, h.at[2]) = h.y

\* A pan that nothing has interrupted zooms as at its press, and its press held the
\* point at the view it began with.
PanBegan(s) ==
    LET h == s.hold
        d == s.drag[h.p]
    IN  h.pan =>
        /\ d.on
        /\ d.view.x.zoom = s.xv.zoom /\ d.view.y.zoom = s.yv[h.p].zoom
        /\ s.xr \in Centers /\ s.yr[h.p] \in Centers
        /\ Plot!DataAt(s.xr, d.view.x, d.at[1]) = h.x
        /\ Plot!DataAt(s.yr[h.p], d.view.y, Plot!Side - d.at[2]) = h.y

PlotInv == pv \in PlotStates /\ Plot!Bounded(pv) /\ HoldShown(pv) /\ PanBegan(pv)

PlotConstants == Plot!PlotAssumption

-----------------------------------------------------------------------------
(* Pixels and data. *)

\* A pixel is a whole number of data units, at each of the zooms.
Grain(v) == IF v.zoom = -1 THEN 8 ELSE IF v.zoom = 0 THEN 4 ELSE IF v.zoom = 1 THEN 2 ELSE 1

LEMMA ZoomIn == ASSUME PlotConstants, NEW v \in PlotViews PROVE v.zoom \in -1 .. 2 /\ v.off \in Int
BY DEF PlotViews, PlotConstants, Plot!PlotAssumption

LEMMA SpanIs ==
    ASSUME NEW v, v.zoom \in -1 .. 2
    PROVE  /\ Grain(v) \in {1, 2, 4, 8} /\ Plot!Span(v) = 16 * Grain(v)
           /\ Plot!Span(v) \div 2 = 8 * Grain(v)
           /\ \A px \in Int : (px * Plot!Span(v)) \div Plot!Side = px * Grain(v)
<1>1. 2 ^ 0 = 1 /\ 2 ^ 1 = 2 /\ 2 ^ 2 = 4
  BY SMT
<1>2. CASE v.zoom = -1
  <2>1. Plot!Span(v) = 128 /\ Grain(v) = 8
    BY <1>2 DEF Plot!Span, Plot!Base, Grain
  <2>2. \A px \in Int : (px * 128) \div 16 = px * 8
    OBVIOUS
  <2> QED
    BY <2>1, <2>2 DEF Plot!Side
<1>3. CASE v.zoom = 0
  <2>1. Plot!Span(v) = 64 /\ Grain(v) = 4
    BY <1>1, <1>3 DEF Plot!Span, Plot!Base, Grain
  <2>2. \A px \in Int : (px * 64) \div 16 = px * 4
    OBVIOUS
  <2> QED
    BY <2>1, <2>2 DEF Plot!Side
<1>4. CASE v.zoom = 1
  <2>1. Plot!Span(v) = 32 /\ Grain(v) = 2
    BY <1>1, <1>4 DEF Plot!Span, Plot!Base, Grain
  <2>2. \A px \in Int : (px * 32) \div 16 = px * 2
    OBVIOUS
  <2> QED
    BY <2>1, <2>2 DEF Plot!Side
<1>5. CASE v.zoom = 2
  <2>1. Plot!Span(v) = 16 /\ Grain(v) = 1
    BY <1>1, <1>5 DEF Plot!Span, Plot!Base, Grain
  <2>2. \A px \in Int : (px * 16) \div 16 = px * 1
    OBVIOUS
  <2> QED
    BY <2>1, <2>2 DEF Plot!Side
<1> QED
  BY <1>2, <1>3, <1>4, <1>5

LEMMA DataIs ==
    ASSUME NEW v, v.zoom \in -1 .. 2, v.off \in Int, NEW c \in Int, NEW px \in Int
    PROVE  /\ Plot!DataAt(c, v, px) = c + v.off - 8 * Grain(v) + px * Grain(v)
           /\ Plot!DataAt(c, v, px) \in Int
<1>1. Grain(v) \in {1, 2, 4, 8}
  BY SpanIs
<1>2. Plot!DataAt(c, v, px) = c + v.off - 8 * Grain(v) + px * Grain(v)
  BY SpanIs DEF Plot!DataAt
<1>3. px * Grain(v) \in Int
  BY <1>1
<1> QED
  BY <1>1, <1>2, <1>3

\* Views of the same zoom, one shifted by as many pixels as the pointer, show the
\* same data there.
LEMMA ShiftedShows ==
    ASSUME NEW v, v.zoom \in -1 .. 2, v.off \in Int,
           NEW u, u.off \in Int, u.zoom = v.zoom,
           NEW c \in Int, NEW a \in Int, NEW b \in Int,
           u.off = v.off - ((b - a) * Plot!Span(u)) \div Plot!Side
    PROVE  Plot!DataAt(c, u, b) = Plot!DataAt(c, v, a)
<1>1. Grain(u) = Grain(v) /\ Grain(u) \in {1, 2, 4, 8}
  BY SpanIs DEF Grain
<1>2. Plot!DataAt(c, u, b) = c + u.off - 8 * Grain(u) + b * Grain(u)
  BY DataIs
<1>3. Plot!DataAt(c, v, a) = c + v.off - 8 * Grain(u) + a * Grain(u)
  BY <1>1, DataIs
<1>4. u.off = v.off - (b - a) * Grain(u)
  BY SpanIs
<1> HIDE DEF Grain
<1>5. \A g \in {1, 2, 4, 8} : (b - a) * g = b * g - a * g
  OBVIOUS
<1> QED
  BY <1>1, <1>2, <1>3, <1>4, <1>5

\* zoom_axis keeps the anchor.
LEMMA ZoomShows ==
    ASSUME NEW v, v.zoom \in -1 .. 2, v.off \in Int,
           NEW c \in Int, NEW px \in Int, NEW by \in {-1, 1}, v.zoom + by \in -1 .. 2
    PROVE  LET u == Plot!Zoomed(v, c, Plot!DataAt(c, v, px), by)
           IN  /\ DOMAIN u = {"off", "zoom"} /\ u.off \in Int /\ u.zoom = v.zoom + by
               /\ Plot!DataAt(c, u, px) = Plot!DataAt(c, v, px)
<1> DEFINE a == Plot!DataAt(c, v, px)
           u == Plot!Zoomed(v, c, a, by)
           g == Grain(v)
<1>1. a = c + v.off - 8 * g + px * g /\ a \in Int
  BY DataIs
<1>2. g \in {1, 2, 4, 8}
  BY SpanIs
<1> HIDE DEF a, g
<1>3. c + v.off - a = (8 - px) * g
  BY <1>1, <1>2
<1>4. u.zoom = v.zoom + by /\ DOMAIN u = {"off", "zoom"}
  BY DEF Plot!Zoomed
<1>5. u.off = a - c + (IF by > 0 THEN ((8 - px) * g) \div 2 ELSE ((8 - px) * g) * 2)
  BY <1>3 DEF Plot!Zoomed
<1> HIDE DEF u
<1>6. u.off = a - c + (8 - px) * Grain(u)
  <2>1. CASE by = 1
    <3>1. v.zoom \in {-1, 0, 1}
      BY <2>1
    <3>2. g = 2 * Grain(u) /\ Grain(u) \in {1, 2, 4}
      BY <2>1, <3>1, <1>4 DEF g, Grain
    <3>3. \A m \in {1, 2, 4} : ((8 - px) * (2 * m)) \div 2 = (8 - px) * m
      OBVIOUS
    <3> QED
      BY <2>1, <1>5, <3>2, <3>3
  <2>2. CASE by = -1
    <3>1. v.zoom \in {0, 1, 2}
      BY <2>2
    <3>2. Grain(u) = 2 * g /\ g \in {1, 2, 4}
      BY <2>2, <3>1, <1>4 DEF g, Grain
    <3>3. \A m \in {1, 2, 4} : ((8 - px) * m) * 2 = (8 - px) * (2 * m)
      OBVIOUS
    <3> QED
      BY <2>2, <1>5, <3>2, <3>3
  <2> QED
    BY <2>1, <2>2
<1>7. u.zoom \in -1 .. 2
  BY <1>4
<1>8. Grain(u) \in {1, 2, 4, 8}
  BY <1>7, SpanIs
<1>9. u.off \in Int
  BY <1>1, <1>6, <1>8
<1>10. Plot!DataAt(c, u, px) = c + u.off - 8 * Grain(u) + px * Grain(u)
  BY <1>7, <1>9, DataIs
<1>11. Plot!DataAt(c, u, px) = a
  BY <1>1, <1>6, <1>8, <1>10
<1> QED
  BY <1>4, <1>9, <1>11 DEF a, u

-----------------------------------------------------------------------------
(* The plots: what the operators of a handler do to a state. *)

LEMMA CenterIs ==
    ASSUME PlotConstants, NEW s \in PlotStates, NEW p \in Panels, NEW r \in PlotCenters
    PROVE  /\ Plot!CenterOf(s, r, p) \in Centers /\ Plot!CenterOf(s, r, p) \in Int
           /\ r \in Centers => Plot!CenterOf(s, r, p) = r
<1>1. 0 \notin Centers /\ Centers \subseteq Int
  BY DEF PlotConstants, Plot!PlotAssumption
<1>2. s.fit[p] \in Centers
  BY DEF PlotStates
<1> QED
  BY <1>1, <1>2 DEF Plot!CenterOf, PlotCenters, Plot!Auto

\* The views of a state.
LEMMA ViewsIn ==
    ASSUME PlotConstants, NEW s \in PlotStates, NEW p \in Panels
    PROVE  /\ s.xv \in PlotViews /\ s.yv[p] \in PlotViews
           /\ s.xv.zoom \in -1 .. 2 /\ s.xv.off \in Int
           /\ s.yv[p].zoom \in -1 .. 2 /\ s.yv[p].off \in Int
           /\ s.xr \in PlotCenters /\ s.yr[p] \in PlotCenters
<1>1. s.xv \in PlotViews /\ s.yv[p] \in PlotViews /\ s.xr \in PlotCenters /\ s.yr[p] \in PlotCenters
  BY DEF PlotStates
<1> QED
  BY <1>1, ZoomIn

\* The data under a pixel, of a state.
LEMMA AtIn ==
    ASSUME PlotConstants, NEW s \in PlotStates, NEW p \in Panels, NEW px \in Int
    PROVE  Plot!XAt(s, p, px) \in Int /\ Plot!YAt(s, p, px) \in Int
<1>1. Plot!CenterOf(s, s.xr, p) \in Int /\ Plot!CenterOf(s, s.yr[p], p) \in Int
  BY ViewsIn, CenterIs
<1>2. Plot!Side - px \in Int
  BY DEF Plot!Side
<1> QED
  BY <1>1, <1>2, ViewsIn, DataIs DEF Plot!XAt, Plot!YAt

LEMMA FrozenDoes ==
    ASSUME PlotConstants, NEW s \in PlotStates, NEW p \in Panels
    PROVE  LET f == Plot!Frozen(s, p)
           IN  /\ f \in PlotStates
               /\ f.xr \in Centers /\ f.xr = Plot!CenterOf(s, s.xr, p)
               /\ f.yr[p] \in Centers /\ f.yr[p] = Plot!CenterOf(s, s.yr[p], p)
               /\ f.xv = s.xv /\ f.yv = s.yv /\ f.drag = s.drag /\ f.fit = s.fit
               /\ f.hold = s.hold /\ f.acts = s.acts
<1> DEFINE cx == Plot!CenterOf(s, s.xr, p)
           cy == Plot!CenterOf(s, s.yr[p], p)
<1>1. cx \in Centers /\ cy \in Centers
  BY ViewsIn, CenterIs
<1>2. Plot!Frozen(s, p) = [s EXCEPT !.xr = cx, !.yr[p] = cy]
  BY DEF Plot!Frozen
<1> HIDE DEF cx, cy
<1>3. cx \in PlotCenters /\ cy \in PlotCenters
  BY <1>1 DEF PlotCenters
<1>4. [s EXCEPT !.xr = cx, !.yr[p] = cy] \in PlotStates
  BY <1>3 DEF PlotStates
<1>5. s.yr \in [Panels -> PlotCenters]
  BY DEF PlotStates
<1> QED
  BY <1>1, <1>2, <1>4, <1>5 DEF PlotStates, cx, cy

LEMMA HeldDoes ==
    ASSUME PlotConstants, NEW s \in PlotStates, NEW p \in Panels, NEW pt \in Pixels2,
           NEW pan \in BOOLEAN, NEW axes \in SUBSET {"x", "y"}
    PROVE  LET h == Plot!Held(s, p, pt, pan, axes)
           IN  /\ h \in PlotStates
               /\ h.hold = [p |-> p, pan |-> pan, axes |-> axes, at |-> pt,
                            x |-> Plot!XAt(s, p, pt[1]), y |-> Plot!YAt(s, p, pt[2])]
               /\ h.xr = s.xr /\ h.yr = s.yr /\ h.xv = s.xv /\ h.yv = s.yv
               /\ h.drag = s.drag /\ h.fit = s.fit /\ h.acts = s.acts
<1> DEFINE x == Plot!XAt(s, p, pt[1])
           y == Plot!YAt(s, p, pt[2])
           k == [p |-> p, pan |-> pan, axes |-> axes, at |-> pt, x |-> x, y |-> y]
<1>1. x \in Int /\ y \in Int
  BY AtIn DEF Pixels2
<1>2. Plot!Held(s, p, pt, pan, axes) = [s EXCEPT !.hold = k]
  BY DEF Plot!Held
<1> HIDE DEF x, y
<1>3. k \in [p : Panels, pan : BOOLEAN, axes : SUBSET {"x", "y"}, at : Pixels2, x : Int, y : Int]
  BY <1>1
<1> HIDE DEF k
<1>4. [s EXCEPT !.hold = k] \in PlotStates
  BY <1>3 DEF PlotStates
<1> QED
  BY <1>2, <1>4 DEF PlotStates, k, x, y

LEMMA SplitDoes ==
    ASSUME PlotConstants, NEW s \in PlotStates, NEW p \in Panels, NEW v,
           v.x \in PlotViews, v.y \in PlotViews
    PROVE  LET t == Plot!SplitBack(s, p, v)
           IN  /\ t \in PlotStates
               /\ t.xv = v.x /\ t.yv = [s.yv EXCEPT ![p] = v.y] /\ t.yv[p] = v.y
               /\ t.xr = s.xr /\ t.yr = s.yr /\ t.drag = s.drag /\ t.fit = s.fit
               /\ t.hold = s.hold /\ t.acts = s.acts
<1> DEFINE a == v.x
           b == v.y
<1>1. Plot!SplitBack(s, p, v) = [s EXCEPT !.xv = a, !.yv[p] = b]
  BY DEF Plot!SplitBack
<1>2. a \in PlotViews /\ b \in PlotViews
  OBVIOUS
<1> HIDE DEF a, b
<1>3. [s EXCEPT !.xv = a, !.yv[p] = b] \in PlotStates
  BY <1>2 DEF PlotStates
<1> QED
  BY <1>1, <1>2, <1>3 DEF PlotStates, a, b

\* A history without axes holds nothing.
LEMMA NothingHeld == ASSUME NEW s, s.hold = Plot!NoHold PROVE HoldShown(s) /\ PanBegan(s)
BY DEF HoldShown, PanBegan, Plot!NoHold

LEMMA NoHoldIn ==
    ASSUME PlotConstants
    PROVE  Plot!NoHold \in [p : Panels, pan : BOOLEAN, axes : SUBSET {"x", "y"},
                            at : Pixels2, x : Int, y : Int]
BY DEF Plot!NoHold, PlotConstants, Plot!PlotAssumption, Pixels2

LEMMA IdentityIn == ASSUME PlotConstants PROVE Plot!Identity \in PlotViews
BY DEF Plot!Identity, PlotViews, PlotConstants, Plot!PlotAssumption

\* Data that grow do not move what is held at frozen ranges.
LEMMA HoldKept ==
    ASSUME PlotConstants, NEW s \in PlotStates, NEW t \in PlotStates, HoldShown(s), PanBegan(s),
           t.hold = s.hold, t.xr = s.xr, t.yr = s.yr, t.xv = s.xv, t.yv = s.yv, t.drag = s.drag
    PROVE  HoldShown(t) /\ PanBegan(t)
<1>1. s.hold.p \in Panels
  BY DEF PlotStates
<1>2. s.xr \in Centers => Plot!CenterOf(s, s.xr, s.hold.p) = Plot!CenterOf(t, t.xr, s.hold.p)
  BY <1>1, ViewsIn, CenterIs
<1>3. s.yr[s.hold.p] \in Centers =>
         Plot!CenterOf(s, s.yr[s.hold.p], s.hold.p) = Plot!CenterOf(t, t.yr[s.hold.p], s.hold.p)
  BY <1>1, ViewsIn, CenterIs
<1>4. HoldShown(t)
  BY <1>2, <1>3 DEF HoldShown, Plot!XAt, Plot!YAt
<1>5. PanBegan(t)
  BY DEF PanBegan
<1> QED
  BY <1>4, <1>5

-----------------------------------------------------------------------------
(* The plots: their steps. *)

LEMMA PlotStarts == PlotConstants /\ Plot!PvInit => PlotInv
<1> SUFFICES ASSUME PlotConstants, Plot!PvInit PROVE PlotInv
  OBVIOUS
<1>1. (CHOOSE c \in Centers : TRUE) \in Centers
  BY DEF PlotConstants, Plot!PlotAssumption
<1>2. Plot!NoDrag \in [on : BOOLEAN, at : Pixels2, view : [x : PlotViews, y : PlotViews]]
  BY IdentityIn DEF Plot!NoDrag, Pixels2
<1>3. pv \in PlotStates
  <2> DEFINE c == CHOOSE k \in Centers : TRUE
             n == Plot!NoDrag
             h == Plot!NoHold
             i == Plot!Identity
  <2>1. pv = [xr |-> Plot!Auto, yr |-> [p \in Panels |-> Plot!Auto], xv |-> i,
              yv |-> [p \in Panels |-> i], drag |-> [p \in Panels |-> n],
              fit |-> [p \in Panels |-> c], hold |-> h, acts |-> 0]
    BY DEF Plot!PvInit
  <2>2. c \in Centers /\ i \in PlotViews
    BY <1>1, IdentityIn
  <2>3. h \in [p : Panels, pan : BOOLEAN, axes : SUBSET {"x", "y"}, at : Pixels2, x : Int, y : Int]
    BY NoHoldIn
  <2> HIDE DEF c, n, h, i
  <2> QED
    BY <1>2, <2>1, <2>2, <2>3 DEF PlotStates, PlotCenters, n
<1>4. Plot!Bounded(pv)
  BY DEF Plot!PvInit, Plot!Bounded, Plot!Identity, PlotConstants, Plot!PlotAssumption
<1>5. pv.hold = Plot!NoHold
  BY DEF Plot!PvInit
<1> QED
  BY <1>3, <1>4, <1>5, NothingHeld DEF PlotInv

LEMMA PlotPromised == PlotConstants /\ PlotInv => Plot!PvTypeOK /\ Plot!PointHeld
<1> SUFFICES ASSUME PlotConstants, PlotInv PROVE Plot!PvTypeOK /\ Plot!PointHeld
  OBVIOUS
<1>1. Plot!PvTypeOK
  BY DEF PlotInv, PlotStates, PlotCenters, Plot!PvTypeOK, Plot!Bounded
<1>2. Plot!PointHeld
  BY DEF PlotInv, HoldShown, Plot!PointHeld
<1> QED
  BY <1>1, <1>2

\* Where views stay, so do their bounds.
LEMMA BoundsKept ==
    ASSUME NEW s, NEW t, Plot!Bounded(s), t.xv = s.xv, t.yv = s.yv
    PROVE  Plot!Bounded(t)
BY DEF Plot!Bounded

\* One handler counts.
LEMMA ActDoes ==
    ASSUME NEW s \in PlotStates
    PROVE  LET t == Plot!Act(s)
           IN  /\ t \in PlotStates
               /\ t.xr = s.xr /\ t.yr = s.yr /\ t.xv = s.xv /\ t.yv = s.yv
               /\ t.drag = s.drag /\ t.fit = s.fit /\ t.hold = s.hold
<1>1. s.acts + 1 \in Int
  BY DEF PlotStates
<1>2. [s EXCEPT !.acts = s.acts + 1] \in PlotStates
  BY <1>1, SMTT(30) DEF PlotStates
<1>3. Plot!Act(s) = [s EXCEPT !.acts = s.acts + 1]
  BY DEF Plot!Act
<1>4. DOMAIN s = {"xr", "yr", "xv", "yv", "drag", "fit", "hold", "acts"}
  BY DEF PlotStates
<1> QED
  BY <1>2, <1>3, <1>4

\* The parts of the invariant, of the next state.
LEMMA PlotNext ==
    ASSUME pv' \in PlotStates, Plot!Bounded(pv'), HoldShown(pv'), PanBegan(pv')
    PROVE  PlotInv'
BY DEF PlotInv, HoldShown, PanBegan, Plot!Bounded, Plot!XAt, Plot!YAt, Plot!CenterOf

LEMMA PlotPressKeeps ==
    ASSUME PlotConstants, PlotInv, NEW p \in Panels, NEW pt \in Spots, Plot!Press(p, pt)
    PROVE  PlotInv'
<1> DEFINE d == [on |-> TRUE, at |-> pt, view |-> Plot!Merged(pv, p)]
           s == [Plot!Act(pv) EXCEPT !.drag[p] = d]
           f == Plot!Frozen(s, p)
<1>1. pt \in Pixels2
  BY DEF PlotConstants, Plot!PlotAssumption, Pixels2
<1>2. pv \in PlotStates /\ Plot!Bounded(pv)
  BY DEF PlotInv
<1>3. pv.xv \in PlotViews /\ pv.yv[p] \in PlotViews
  BY <1>2, ViewsIn
<1>4. d \in [on : BOOLEAN, at : Pixels2, view : [x : PlotViews, y : PlotViews]]
  BY <1>1, <1>3 DEF Plot!Merged
<1>5. d.on = TRUE /\ d.at = pt /\ d.view.x = pv.xv /\ d.view.y = pv.yv[p]
  BY DEF Plot!Merged
<1>6. pv' = Plot!Held(f, p, pt, TRUE, {"x", "y"})
  BY DEF Plot!Press
<1> HIDE DEF d
<1>7. s \in PlotStates /\ s.drag[p] = d /\ s.xv = pv.xv /\ s.yv = pv.yv
  <2> DEFINE a == Plot!Act(pv)
  <2>1. a \in PlotStates /\ a.xv = pv.xv /\ a.yv = pv.yv
    BY <1>2, ActDoes
  <2> HIDE DEF a
  <2>2. [a EXCEPT !.drag[p] = d] \in PlotStates
    BY <1>4, <2>1 DEF PlotStates
  <2>3. /\ [a EXCEPT !.drag[p] = d].drag[p] = d
        /\ [a EXCEPT !.drag[p] = d].xv = a.xv /\ [a EXCEPT !.drag[p] = d].yv = a.yv
    BY <2>1 DEF PlotStates
  <2> QED
    BY <2>1, <2>2, <2>3 DEF a
<1> HIDE DEF s
<1>8. /\ f \in PlotStates /\ f.xr \in Centers /\ f.yr[p] \in Centers
      /\ f.xv = pv.xv /\ f.yv = pv.yv /\ f.drag[p] = d
  BY <1>7, FrozenDoes
<1> HIDE DEF f
<1> DEFINE g == Plot!Held(f, p, pt, TRUE, {"x", "y"})
<1>17. /\ g \in PlotStates
       /\ g.hold = [p |-> p, pan |-> TRUE, axes |-> {"x", "y"}, at |-> pt,
                    x |-> Plot!XAt(f, p, pt[1]), y |-> Plot!YAt(f, p, pt[2])]
       /\ g.xr = f.xr /\ g.yr = f.yr /\ g.xv = f.xv /\ g.yv = f.yv /\ g.drag = f.drag
  <2>1. TRUE \in BOOLEAN /\ {"x", "y"} \in SUBSET {"x", "y"} /\ f \in PlotStates
    BY <1>8
  <2> QED
    BY ONLY <2>1, <1>1, HeldDoes, PlotConstants, ZenonT(30)
<1> HIDE DEF g
<1>9. /\ pv' \in PlotStates
      /\ pv'.hold = [p |-> p, pan |-> TRUE, axes |-> {"x", "y"}, at |-> pt,
                     x |-> Plot!XAt(f, p, pt[1]), y |-> Plot!YAt(f, p, pt[2])]
      /\ pv'.xr = f.xr /\ pv'.yr = f.yr /\ pv'.xv = pv.xv /\ pv'.yv = pv.yv
      /\ pv'.drag[p] = d
  BY <1>6, <1>8, <1>17 DEF g
<1>10. /\ pv'.hold.p = p /\ pv'.hold.at = pt
       /\ pv'.hold.x = Plot!XAt(f, p, pt[1]) /\ pv'.hold.y = Plot!YAt(f, p, pt[2])
  BY <1>9
<1>11. Plot!XAt(f, p, pt[1]) = Plot!DataAt(f.xr, pv.xv, pt[1])
  BY <1>8, ViewsIn, CenterIs DEF Plot!XAt
<1>12. Plot!YAt(f, p, pt[2]) = Plot!DataAt(f.yr[p], pv.yv[p], Plot!Side - pt[2])
  BY <1>8, ViewsIn, CenterIs DEF Plot!YAt
<1>13. Plot!CenterOf(pv', pv'.xr, p) = f.xr /\ Plot!CenterOf(pv', pv'.yr[p], p) = f.yr[p]
  BY <1>8, <1>9, ViewsIn, CenterIs
<1>14. HoldShown(pv')
  BY <1>8, <1>9, <1>10, <1>11, <1>12, <1>13 DEF HoldShown, Plot!XAt, Plot!YAt
<1>15. PanBegan(pv')
  BY <1>5, <1>8, <1>9, <1>10, <1>11, <1>12 DEF PanBegan
<1>16. Plot!Bounded(pv')
  BY <1>2, <1>9, BoundsKept
<1> QED
  BY <1>9, <1>14, <1>15, <1>16, PlotNext

LEMMA PlotReleaseKeeps ==
    ASSUME PlotConstants, PlotInv, NEW p \in Panels, Plot!Release(p)
    PROVE  PlotInv'
<1> DEFINE n == Plot!NoDrag
           h == Plot!NoHold
<1>1. pv \in PlotStates /\ Plot!Bounded(pv)
  BY DEF PlotInv
<1>2. n \in [on : BOOLEAN, at : Pixels2, view : [x : PlotViews, y : PlotViews]]
  BY IdentityIn DEF Plot!NoDrag, Pixels2
<1>3. h \in [p : Panels, pan : BOOLEAN, axes : SUBSET {"x", "y"}, at : Pixels2, x : Int, y : Int]
  BY NoHoldIn
<1>4. pv' = [pv EXCEPT !.drag[p] = n, !.hold = h]
  BY DEF Plot!Release
<1> HIDE DEF n, h
<1>5. pv' \in PlotStates /\ pv'.hold = h /\ pv'.xv = pv.xv /\ pv'.yv = pv.yv
  BY <1>1, <1>2, <1>3, <1>4 DEF PlotStates
<1> QED
  <2>1. HoldShown(pv') /\ PanBegan(pv')
    BY <1>5, NothingHeld DEF h
  <2>2. Plot!Bounded(pv')
    BY <1>1, <1>5, BoundsKept
  <2> QED
    BY <1>5, <2>1, <2>2, PlotNext

LEMMA PlotResetKeeps ==
    ASSUME PlotConstants, PlotInv, NEW p \in Panels, Plot!ResetAt(p)
    PROVE  /\ PlotInv'
           /\ pv'.xv = Plot!Identity /\ pv'.xr = Plot!Auto
           /\ \A q \in Panels : pv'.yv[q] = Plot!Identity /\ pv'.yr[q] = Plot!Auto
<1> DEFINE h == Plot!NoHold
           i == Plot!Identity
           r == Plot!Reset(pv)
           v == Plot!ResetView(pv, p)
           s == Plot!SplitBack(r, p, v)
<1>1. pv \in PlotStates
  BY DEF PlotInv
<1>2. h \in [p : Panels, pan : BOOLEAN, axes : SUBSET {"x", "y"}, at : Pixels2, x : Int, y : Int]
  BY NoHoldIn
<1>3. i \in PlotViews
  BY IdentityIn
<1>4. r = [pv EXCEPT !.xr = Plot!Auto, !.yr = [q \in Panels |-> Plot!Auto],
                     !.xv = i, !.yv = [q \in Panels |-> i], !.hold = h]
  BY DEF Plot!Reset
<1>5. v.x = i /\ v.y = i
  BY DEF Plot!ResetView
<1>6. pv' = Plot!Act(s)
  BY DEF Plot!ResetAt
<1> HIDE DEF h, i, v
<1>7. /\ r \in PlotStates /\ r.hold = h /\ r.xv = i /\ r.yv = [q \in Panels |-> i]
      /\ r.xr = Plot!Auto /\ r.yr = [q \in Panels |-> Plot!Auto]
  <2> DEFINE a == [q \in Panels |-> Plot!Auto]
             b == [q \in Panels |-> i]
  <2>1. a \in [Panels -> PlotCenters] /\ Plot!Auto \in PlotCenters /\ b \in [Panels -> PlotViews]
    BY <1>3 DEF PlotCenters
  <2>2. r = [pv EXCEPT !.xr = Plot!Auto, !.yr = a, !.xv = i, !.yv = b, !.hold = h]
    BY <1>4
  <2> HIDE DEF a, b, r
  <2>3. /\ r \in PlotStates /\ r.hold = h /\ r.xv = i /\ r.yv = b
        /\ r.xr = Plot!Auto /\ r.yr = a
    BY <1>1, <1>2, <1>3, <2>1, <2>2 DEF PlotStates
  <2> QED
    BY <2>3 DEF a, b
<1> HIDE DEF r
<1>8. /\ s \in PlotStates /\ s.hold = h /\ s.xv = i /\ s.yv = [r.yv EXCEPT ![p] = i]
      /\ s.xr = Plot!Auto /\ s.yr = [q \in Panels |-> Plot!Auto]
  <2>1. v.x \in PlotViews /\ v.y \in PlotViews
    BY <1>3, <1>5
  <2>2. r \in PlotStates
    BY <1>7
  <2>3. /\ s \in PlotStates /\ s.xv = v.x /\ s.yv = [r.yv EXCEPT ![p] = v.y]
        /\ s.xr = r.xr /\ s.yr = r.yr /\ s.hold = r.hold
    BY ONLY <2>1, <2>2, SplitDoes, PlotConstants
  <2> HIDE DEF s
  <2> QED
    BY <1>5, <1>7, <2>3
<1> HIDE DEF s
<1>9. /\ pv' \in PlotStates /\ pv'.hold = h /\ pv'.xv = i /\ pv'.yv = [r.yv EXCEPT ![p] = i]
      /\ pv'.xr = Plot!Auto /\ pv'.yr = [q \in Panels |-> Plot!Auto]
  BY <1>6, <1>8, ActDoes
<1>10. \A q \in Panels : pv'.yv[q] = i /\ pv'.yr[q] = Plot!Auto
  BY <1>7, <1>9
<1>11. Plot!Bounded(pv')
  BY <1>9, <1>10 DEF i, Plot!Bounded, Plot!Identity, PlotConstants, Plot!PlotAssumption
<1> QED
  <2>1. HoldShown(pv') /\ PanBegan(pv')
    BY <1>9, NothingHeld DEF h
  <2>2. PlotInv'
    BY <1>9, <1>11, <2>1, PlotNext
  <2> QED
    BY <1>9, <1>10, <2>2 DEF i

LEMMA PlotGrowKeeps ==
    ASSUME PlotConstants, PlotInv, NEW p \in Panels, NEW c \in Centers, Plot!Grow(p, c)
    PROVE  PlotInv'
<1> DEFINE s == [pv EXCEPT !.fit[p] = c]
<1>1. pv \in PlotStates /\ Plot!Bounded(pv) /\ HoldShown(pv) /\ PanBegan(pv)
  BY DEF PlotInv
<1>2. /\ s \in PlotStates /\ s.xr = pv.xr /\ s.yr = pv.yr /\ s.xv = pv.xv /\ s.yv = pv.yv
      /\ s.drag = pv.drag /\ s.hold = pv.hold
  BY <1>1 DEF PlotStates
<1>3. pv' = Plot!Act(s)
  BY DEF Plot!Grow
<1> HIDE DEF s
<1>4. /\ pv' \in PlotStates /\ pv'.xr = pv.xr /\ pv'.yr = pv.yr /\ pv'.xv = pv.xv
      /\ pv'.yv = pv.yv /\ pv'.drag = pv.drag /\ pv'.hold = pv.hold
  BY <1>2, <1>3, ActDoes
<1>5. HoldShown(pv') /\ PanBegan(pv') /\ Plot!Bounded(pv')
  BY <1>1, <1>4, HoldKept, BoundsKept
<1> QED
  BY <1>4, <1>5, PlotNext

\* A pan shifts the view of the press by the distance to it.
LEMMA PlotMoveKeeps ==
    ASSUME PlotConstants, PlotInv, NEW p \in Panels, NEW pt \in Spots, Plot!Move(p, pt)
    PROVE  PlotInv'
<1> DEFINE d == pv.drag[p]
           v == IF d.on THEN Plot!Panned(pv, p, pt) ELSE Plot!Merged(pv, p)
           s == Plot!SplitBack(pv, p, v)
<1>1. pv \in PlotStates /\ Plot!Bounded(pv) /\ HoldShown(pv) /\ PanBegan(pv)
  BY DEF PlotInv
<1>2. pt \in Pixels2 /\ pt[1] \in Int /\ pt[2] \in Int
  BY DEF PlotConstants, Plot!PlotAssumption, Pixels2
<1>3. /\ d.on \in BOOLEAN /\ d.at[1] \in Int /\ d.at[2] \in Int
      /\ d.view.x \in PlotViews /\ d.view.y \in PlotViews
  BY <1>1 DEF PlotStates, Pixels2
<1>4. /\ pv' = IF pv.hold.pan # d.on THEN [s EXCEPT !.hold = Plot!NoHold]
               ELSE IF pv.hold.pan THEN [s EXCEPT !.hold.at = pt] ELSE s
      /\ Plot!Bounded(pv')
      /\ \A q \in Panels \ {p} : ~pv.drag[q].on
  BY DEF Plot!Move
<1> HIDE DEF d
<1>5. /\ d.on =>
            /\ v.x = [d.view.x EXCEPT
                  !.off = @ - ((pt[1] - d.at[1]) * Plot!Span(pv.xv)) \div Plot!Side]
            /\ v.y = [d.view.y EXCEPT
                  !.off = @ + ((pt[2] - d.at[2]) * Plot!Span(pv.yv[p])) \div Plot!Side]
      /\ ~d.on => v.x = pv.xv /\ v.y = pv.yv[p]
  BY DEF Plot!Panned, Plot!Merged, d
<1> HIDE DEF v
<1>6. PICK gx \in {1, 2, 4, 8}, gy \in {1, 2, 4, 8} :
         \A px \in Int : /\ (px * Plot!Span(pv.xv)) \div Plot!Side = px * gx
                         /\ (px * Plot!Span(pv.yv[p])) \div Plot!Side = px * gy
  <2>1. pv.xv.zoom \in -1 .. 2 /\ pv.yv[p].zoom \in -1 .. 2
    BY <1>1, ViewsIn
  <2> QED
    BY <2>1, SpanIs
<1>7. ((pt[1] - d.at[1]) * Plot!Span(pv.xv)) \div Plot!Side \in Int
      /\ ((pt[2] - d.at[2]) * Plot!Span(pv.yv[p])) \div Plot!Side \in Int
  <2>1. pt[1] - d.at[1] \in Int /\ pt[2] - d.at[2] \in Int
    BY <1>2, <1>3
  <2>2. (pt[1] - d.at[1]) * gx \in Int /\ (pt[2] - d.at[2]) * gy \in Int
    BY <2>1
  <2> QED
    BY <1>6, <2>1, <2>2
<1>8. v.x \in PlotViews /\ v.y \in PlotViews
  <2>1. CASE d.on
    BY <1>3, <1>5, <1>7, <2>1 DEF PlotViews
  <2>2. CASE ~d.on
    BY <1>1, <1>5, <2>2, ViewsIn
  <2> QED
    BY <2>1, <2>2
<1>9. /\ s \in PlotStates /\ s.xv = v.x /\ s.yv = [pv.yv EXCEPT ![p] = v.y]
      /\ s.yv[p] = v.y /\ s.xr = pv.xr /\ s.yr = pv.yr /\ s.drag = pv.drag
      /\ s.hold = pv.hold
  BY ONLY <1>1, <1>8, SplitDoes, PlotConstants
<1> HIDE DEF s
<1>10. CASE pv.hold.pan # d.on
  <2> DEFINE h == Plot!NoHold
  <2>1. h \in [p : Panels, pan : BOOLEAN, axes : SUBSET {"x", "y"}, at : Pixels2, x : Int, y : Int]
    BY NoHoldIn
  <2>2. pv' = [s EXCEPT !.hold = h]
    BY <1>4, <1>10
  <2> HIDE DEF h
  <2>3. pv' \in PlotStates /\ pv'.hold = h
    BY <1>9, <2>1, <2>2 DEF PlotStates
  <2>4. HoldShown(pv') /\ PanBegan(pv')
    BY <2>3, NothingHeld DEF h
  <2> QED
    BY <1>4, <2>3, <2>4, PlotNext
<1>11. CASE pv.hold.pan = d.on /\ ~d.on
  <2>1. pv' = s
    BY <1>3, <1>4, <1>11
  <2>2. s.xv = pv.xv /\ s.yv = pv.yv
    BY <1>1, <1>5, <1>9, <1>11 DEF PlotStates
  <2>3. HoldShown(pv') /\ PanBegan(pv')
    BY <1>1, <1>9, <2>1, <2>2, HoldKept
  <2> QED
    BY <1>4, <1>9, <2>1, <2>3, PlotNext
<1>12. CASE pv.hold.pan = d.on /\ d.on
  <2> DEFINE h == pv.hold
  <2>1. h.pan /\ h.p \in Panels
    BY <1>1, <1>12 DEF PlotStates
  <2>2. h.p = p
    BY <1>1, <1>4, <2>1 DEF PanBegan
  <2>3. /\ d.view.x.zoom = pv.xv.zoom /\ d.view.y.zoom = pv.yv[p].zoom
        /\ pv.xr \in Centers /\ pv.yr[p] \in Centers
        /\ Plot!DataAt(pv.xr, d.view.x, d.at[1]) = h.x
        /\ Plot!DataAt(pv.yr[p], d.view.y, Plot!Side - d.at[2]) = h.y
    BY <1>1, <2>1, <2>2 DEF PanBegan, d
  <2>4. pv' = [s EXCEPT !.hold.at = pt]
    BY <1>4, <1>12
  <2>5. /\ pv' \in PlotStates /\ pv'.hold.p = p /\ pv'.hold.pan = h.pan /\ pv'.hold.at = pt
        /\ pv'.hold.x = h.x /\ pv'.hold.y = h.y
        /\ pv'.xr = pv.xr /\ pv'.yr = pv.yr /\ pv'.drag = pv.drag
        /\ pv'.xv = v.x /\ pv'.yv[p] = v.y
    BY <1>2, <1>9, <2>2, <2>4 DEF PlotStates
  <2>6. /\ d.view.x.zoom \in -1 .. 2 /\ d.view.x.off \in Int
        /\ d.view.y.zoom \in -1 .. 2 /\ d.view.y.off \in Int
        /\ v.x.zoom = d.view.x.zoom /\ v.x.off \in Int
        /\ v.y.zoom = d.view.y.zoom /\ v.y.off \in Int
        /\ v.x.off = d.view.x.off - ((pt[1] - d.at[1]) * Plot!Span(pv.xv)) \div Plot!Side
        /\ v.y.off = d.view.y.off + ((pt[2] - d.at[2]) * Plot!Span(pv.yv[p])) \div Plot!Side
    <3>1. /\ d.view.x.zoom \in -1 .. 2 /\ d.view.x.off \in Int
          /\ d.view.y.zoom \in -1 .. 2 /\ d.view.y.off \in Int
          /\ v.x.off \in Int /\ v.y.off \in Int
      BY <1>3, <1>8, ZoomIn
    <3>2. /\ v.x.zoom = d.view.x.zoom /\ v.y.zoom = d.view.y.zoom
          /\ v.x.off = d.view.x.off - ((pt[1] - d.at[1]) * Plot!Span(pv.xv)) \div Plot!Side
          /\ v.y.off = d.view.y.off + ((pt[2] - d.at[2]) * Plot!Span(pv.yv[p])) \div Plot!Side
      BY <1>3, <1>5, <1>12 DEF PlotViews
    <3> QED
      BY <3>1, <3>2
  <2>7. pv.xr \in Int /\ pv.yr[p] \in Int
    <3>1. Centers \subseteq Int
      BY DEF PlotConstants, Plot!PlotAssumption
    <3> QED
      BY <2>3, <3>1
  <2>8. Plot!DataAt(pv.xr, v.x, pt[1]) = h.x
    <3>1. Plot!Span(v.x) = Plot!Span(pv.xv)
      BY <2>3, <2>6 DEF Plot!Span
    <3>2. Plot!DataAt(pv.xr, v.x, pt[1]) = Plot!DataAt(pv.xr, d.view.x, d.at[1])
      BY <1>2, <1>3, <2>6, <2>7, <3>1, ShiftedShows
    <3> QED
      BY <2>3, <3>2
  <2>9. Plot!DataAt(pv.yr[p], v.y, Plot!Side - pt[2]) = h.y
    <3> DEFINE a == Plot!Side - d.at[2]
               b == Plot!Side - pt[2]
    <3>1. Plot!Span(v.y) = Plot!Span(pv.yv[p])
      BY <2>3, <2>6 DEF Plot!Span
    <3>2. a \in Int /\ b \in Int /\ b - a = -(pt[2] - d.at[2]) /\ b - a \in Int
          /\ pt[2] - d.at[2] \in Int
      BY <1>2, <1>3 DEF Plot!Side
    <3>3. /\ ((b - a) * Plot!Span(pv.yv[p])) \div Plot!Side = (b - a) * gy
          /\ ((pt[2] - d.at[2]) * Plot!Span(pv.yv[p])) \div Plot!Side = (pt[2] - d.at[2]) * gy
      BY <1>6, <3>2
    <3> HIDE DEF a, b
    <3>4. (b - a) * gy = -((pt[2] - d.at[2]) * gy) /\ (pt[2] - d.at[2]) * gy \in Int
      BY <3>2
    <3>5. v.y.off = d.view.y.off - ((b - a) * Plot!Span(v.y)) \div Plot!Side
      BY <2>6, <3>1, <3>3, <3>4
    <3>6. Plot!DataAt(pv.yr[p], v.y, b) = Plot!DataAt(pv.yr[p], d.view.y, a)
      BY <2>6, <2>7, <3>2, <3>5, ShiftedShows
    <3> QED
      BY <2>3, <3>6 DEF a, b
  <2>10. Plot!CenterOf(pv', pv'.xr, p) = pv.xr /\ Plot!CenterOf(pv', pv'.yr[p], p) = pv.yr[p]
    BY <2>3, <2>5, ViewsIn, CenterIs
  <2>11. HoldShown(pv')
    BY <2>3, <2>5, <2>8, <2>9, <2>10 DEF HoldShown, Plot!XAt, Plot!YAt
  <2>12. PanBegan(pv')
    BY <1>12, <2>3, <2>5, <2>6 DEF PanBegan, d
  <2> QED
    BY <1>4, <2>5, <2>11, <2>12, PlotNext
<1> QED
  BY <1>10, <1>11, <1>12

\* A point clamped to the plot area.
LEMMA ClampedIn == ASSUME NEW n \in Int PROVE Plot!Clamped(n) \in Int
BY DEF Plot!Clamped, Plot!Side

LEMMA PlotScrollKeeps ==
    ASSUME PlotConstants, PlotInv, NEW p \in Panels, NEW pt \in Spots, NEW by \in {-1, 1},
           Plot!Scroll(p, pt, by)
    PROVE  PlotInv'
<1> DEFINE axes == (IF Plot!Inside(pt) \/ Plot!OnXAxis(p, pt) THEN {"x"} ELSE {})
                   \cup (IF Plot!Inside(pt) \/ Plot!OnYAxis(pt) THEN {"y"} ELSE {})
           at == <<Plot!Clamped(pt[1]), Plot!Clamped(pt[2])>>
           f == Plot!Frozen(pv, p)
           s == Plot!Held(f, p, at, FALSE, axes)
           ax == Plot!XAt(pv, p, at[1])
           ay == Plot!YAt(pv, p, at[2])
           vx == IF "x" \in axes THEN Plot!Zoomed(pv.xv, Plot!CenterOf(s, s.xr, p), ax, by)
                 ELSE pv.xv
           vy == IF "y" \in axes THEN Plot!Zoomed(pv.yv[p], Plot!CenterOf(s, s.yr[p], p), ay, by)
                 ELSE pv.yv[p]
           v == [x |-> vx, y |-> vy]
           t == Plot!SplitBack(s, p, v)
<1>1. pv \in PlotStates /\ Plot!Bounded(pv)
  BY DEF PlotInv
<1>2. at \in Pixels2 /\ at[1] \in Int /\ at[2] \in Int /\ Plot!Side - at[2] \in Int
  <2>1. pt[1] \in Int /\ pt[2] \in Int
    BY DEF PlotConstants, Plot!PlotAssumption
  <2>2. Plot!Clamped(pt[1]) \in Int /\ Plot!Clamped(pt[2]) \in Int
    BY <2>1, ClampedIn
  <2> QED
    BY <2>2 DEF Pixels2, Plot!Side
<1>3. axes \in SUBSET {"x", "y"}
  OBVIOUS
<1>4. pv' = Plot!Act(t) /\ Plot!Bounded(pv')
  BY DEF Plot!Scroll
<1> HIDE DEF axes, at
<1>5. /\ f \in PlotStates
      /\ f.xr \in Centers /\ f.xr = Plot!CenterOf(pv, pv.xr, p)
      /\ f.yr[p] \in Centers /\ f.yr[p] = Plot!CenterOf(pv, pv.yr[p], p)
      /\ f.xv = pv.xv /\ f.yv = pv.yv
  BY ONLY <1>1, FrozenDoes, PlotConstants
<1> HIDE DEF f
<1>6. /\ s \in PlotStates
      /\ s.hold = [p |-> p, pan |-> FALSE, axes |-> axes, at |-> at,
                   x |-> Plot!XAt(f, p, at[1]), y |-> Plot!YAt(f, p, at[2])]
      /\ s.xr = f.xr /\ s.yr = f.yr /\ s.xv = f.xv /\ s.yv = f.yv
  <2>1. FALSE \in BOOLEAN /\ f \in PlotStates
    BY <1>5
  <2>2. at \in Pixels2
    BY <1>2
  <2>3. /\ s \in PlotStates
        /\ s.hold = [p |-> p, pan |-> FALSE, axes |-> axes, at |-> at,
                     x |-> Plot!XAt(f, p, at[1]), y |-> Plot!YAt(f, p, at[2])]
        /\ s.xr = f.xr /\ s.yr = f.yr /\ s.xv = f.xv /\ s.yv = f.yv /\ s.drag = f.drag
    BY ONLY <1>3, <2>1, <2>2, HeldDoes, PlotConstants, ZenonT(30)
  <2> QED
    BY <2>3
<1> HIDE DEF s
<1>7. Plot!CenterOf(s, s.xr, p) = f.xr /\ Plot!CenterOf(s, s.yr[p], p) = f.yr[p]
  BY <1>5, <1>6, ViewsIn, CenterIs
<1>8. /\ Plot!CenterOf(f, f.xr, p) = f.xr /\ Plot!CenterOf(f, f.yr[p], p) = f.yr[p]
      /\ f.xr \in Int /\ f.yr[p] \in Int
  BY <1>5, ViewsIn, CenterIs
<1>9. /\ ax = Plot!DataAt(f.xr, pv.xv, at[1])
      /\ ay = Plot!DataAt(f.yr[p], pv.yv[p], Plot!Side - at[2])
  BY <1>5 DEF Plot!XAt, Plot!YAt
<1>10. Plot!XAt(f, p, at[1]) = ax /\ Plot!YAt(f, p, at[2]) = ay
  BY <1>5, <1>8, <1>9 DEF Plot!XAt, Plot!YAt
<1>11. s.hold.p = p /\ s.hold.pan = FALSE /\ s.hold.axes = axes /\ s.hold.at = at
       /\ s.hold.x = ax /\ s.hold.y = ay
  BY <1>6, <1>10
<1>12. /\ pv.xv.zoom \in -1 .. 2 /\ pv.xv.off \in Int
       /\ pv.yv[p].zoom \in -1 .. 2 /\ pv.yv[p].off \in Int
       /\ pv.xv \in PlotViews /\ pv.yv[p] \in PlotViews
  BY <1>1, ViewsIn
<1> HIDE DEF ax, ay
<1>13. /\ "x" \in axes => vx = Plot!Zoomed(pv.xv, f.xr, ax, by)
       /\ "x" \notin axes => vx = pv.xv
       /\ "y" \in axes => vy = Plot!Zoomed(pv.yv[p], f.yr[p], ay, by)
       /\ "y" \notin axes => vy = pv.yv[p]
  BY <1>7
<1> HIDE DEF vx, vy
<1>14. vx.zoom \in LowZoom .. MaxZoom /\ vy.zoom \in LowZoom .. MaxZoom
  <2>1. pv'.xv = vx /\ pv'.yv[p] = vy
    <3> DEFINE k == Plot!Act(t)
    <3>1. t = [s EXCEPT !.xv = vx, !.yv[p] = vy]
      BY DEF Plot!SplitBack
    <3>2. t.xv = vx /\ t.yv[p] = vy /\ DOMAIN t = DOMAIN s
      BY <1>6, <3>1 DEF PlotStates
    <3> HIDE DEF t
    <3>3. k.xv = t.xv /\ k.yv = t.yv
      BY <1>6, <3>1 DEF Plot!Act, PlotStates
    <3> QED
      BY <1>4, <3>2, <3>3
  <2> QED
    BY <1>4, <2>1 DEF Plot!Bounded
<1>15. LowZoom .. MaxZoom \subseteq -1 .. 2
  BY DEF PlotConstants, Plot!PlotAssumption
<1>16. /\ vx \in PlotViews
       /\ "x" \in axes => Plot!DataAt(f.xr, vx, at[1]) = ax
  <2>1. CASE "x" \in axes
    <3>1. vx = Plot!Zoomed(pv.xv, f.xr, Plot!DataAt(f.xr, pv.xv, at[1]), by)
      BY <1>9, <1>13, <2>1
    <3>2. vx.zoom = pv.xv.zoom + by
      BY <3>1 DEF Plot!Zoomed
    <3>3. pv.xv.zoom + by \in -1 .. 2
      BY <1>14, <1>15, <3>2
    <3>4. vx.off \in Int /\ Plot!DataAt(f.xr, vx, at[1]) = Plot!DataAt(f.xr, pv.xv, at[1])
      BY <1>2, <1>8, <1>12, <3>1, <3>3, ZoomShows
    <3>5. vx = [off |-> vx.off, zoom |-> vx.zoom]
      BY <3>1 DEF Plot!Zoomed
    <3> QED
      BY <1>9, <1>14, <3>4, <3>5 DEF PlotViews
  <2> QED
    BY <1>12, <1>13, <2>1
<1>17. /\ vy \in PlotViews
       /\ "y" \in axes => Plot!DataAt(f.yr[p], vy, Plot!Side - at[2]) = ay
  <2>1. CASE "y" \in axes
    <3> DEFINE b == Plot!Side - at[2]
    <3>1. vy = Plot!Zoomed(pv.yv[p], f.yr[p], Plot!DataAt(f.yr[p], pv.yv[p], b), by)
      BY <1>9, <1>13, <2>1
    <3>2. vy.zoom = pv.yv[p].zoom + by
      BY <3>1 DEF Plot!Zoomed
    <3>3. pv.yv[p].zoom + by \in -1 .. 2
      BY <1>14, <1>15, <3>2
    <3>4. vy.off \in Int /\ Plot!DataAt(f.yr[p], vy, b) = Plot!DataAt(f.yr[p], pv.yv[p], b)
      BY <1>2, <1>8, <1>12, <3>1, <3>3, ZoomShows
    <3>5. vy = [off |-> vy.off, zoom |-> vy.zoom]
      BY <3>1 DEF Plot!Zoomed
    <3> QED
      BY <1>9, <1>14, <3>4, <3>5 DEF PlotViews
  <2> QED
    BY <1>12, <1>13, <2>1
<1>18. /\ t \in PlotStates /\ t.xv = vx /\ t.yv[p] = vy /\ t.hold = s.hold
       /\ t.xr = s.xr /\ t.yr = s.yr
  <2>1. v.x = vx /\ v.y = vy
    OBVIOUS
  <2>2. v.x \in PlotViews /\ v.y \in PlotViews
    BY <1>16, <1>17, <2>1
  <2> HIDE DEF v
  <2>3. s \in PlotStates /\ p \in Panels
    BY <1>6
  <2>4. /\ t \in PlotStates /\ t.xv = v.x /\ t.yv = [s.yv EXCEPT ![p] = v.y]
        /\ t.yv[p] = v.y /\ t.xr = s.xr /\ t.yr = s.yr /\ t.drag = s.drag
        /\ t.hold = s.hold
    BY ONLY <2>2, <2>3, SplitDoes, PlotConstants
  <2> QED
    BY <2>1, <2>4
<1> HIDE DEF t
<1>19. /\ pv' \in PlotStates /\ pv'.xv = vx /\ pv'.yv[p] = vy /\ pv'.hold = s.hold
       /\ pv'.xr = f.xr /\ pv'.yr = f.yr
  BY <1>4, <1>6, <1>18, ActDoes
<1>20. Plot!CenterOf(pv', pv'.xr, p) = f.xr /\ Plot!CenterOf(pv', pv'.yr[p], p) = f.yr[p]
  BY <1>5, <1>19, ViewsIn, CenterIs
<1>21. HoldShown(pv')
  BY <1>5, <1>11, <1>16, <1>17, <1>19, <1>20 DEF HoldShown, Plot!XAt, Plot!YAt
<1>22. PanBegan(pv')
  BY <1>11, <1>19 DEF PanBegan
<1> QED
  BY <1>4, <1>19, <1>21, <1>22, PlotNext

LEMMA PlotStepKeeps == ASSUME PlotConstants, PlotInv, Plot!PvNext PROVE PlotInv' /\ Plot!ResetIsWhole
<1>1. PICK p \in Panels :
        \/ \E pt \in Spots : Plot!Press(p, pt) \/ Plot!Move(p, pt)
        \/ \E pt \in Spots, by \in {-1, 1} : Plot!Scroll(p, pt, by)
        \/ Plot!Release(p) \/ Plot!ResetAt(p)
        \/ \E c \in Centers : Plot!Grow(p, c)
  BY DEF Plot!PvNext
<1>2. PlotInv'
  <2>1. ASSUME NEW pt \in Spots, Plot!Press(p, pt) \/ Plot!Move(p, pt) PROVE PlotInv'
    BY <2>1, PlotPressKeeps, PlotMoveKeeps
  <2>2. ASSUME NEW pt \in Spots, NEW by \in {-1, 1}, Plot!Scroll(p, pt, by) PROVE PlotInv'
    BY <2>2, PlotScrollKeeps
  <2>3. ASSUME Plot!Release(p) \/ Plot!ResetAt(p) PROVE PlotInv'
    BY <2>3, PlotReleaseKeeps, PlotResetKeeps
  <2>4. ASSUME NEW c \in Centers, Plot!Grow(p, c) PROVE PlotInv'
    BY <2>4, PlotGrowKeeps
  <2> QED
    BY <1>1, <2>1, <2>2, <2>3, <2>4
<1>3. Plot!ResetIsWhole
  BY PlotResetKeeps DEF Plot!ResetIsWhole
<1> QED
  BY <1>2, <1>3

\* The data point that was grabbed, or zoomed at, stays under the pointer, whatever
\* data come and whichever panels move; and a reset leaves every panel at its fitted
\* range.  (route_plot_input, PlotPanel::handle_canvas_input)
THEOREM PlotsHold == ScenesSpec => PlotHolds
<1> DEFINE Inv == scene = "plot" => PlotInv
           Holds == scene = "plot" => Plot!PvTypeOK /\ Plot!PointHeld
           Resets == scene = "plot" => Plot!ResetIsWhole
<1>0. PlotConstants
  BY ScenesAssumption DEF ScenesAssumption, PlotConstants
<1>1. ScenesInit => Inv
  BY <1>0, PlotStarts DEF ScenesInit
<1>2. Inv /\ [ScenesNext]_sceneVars => Inv' /\ [Resets]_pv
  <2> SUFFICES ASSUME Inv, [ScenesNext]_sceneVars PROVE Inv' /\ [Resets]_pv
    OBVIOUS
  <2>1. CASE scene = "plot" /\ Plot!PvNext /\ UNCHANGED scene
    BY <1>0, <2>1, PlotStepKeeps
  <2>2. CASE UNCHANGED <<scene, pv>>
    BY <2>2 DEF PlotInv, HoldShown, PanBegan, Plot!Bounded, Plot!XAt, Plot!YAt, Plot!CenterOf
  <2> QED
    BY <2>1, <2>2 DEF ScenesNext, sceneVars
<1>3. Inv => Holds
  BY <1>0, PlotPromised
<1> QED
  BY <1>1, <1>2, <1>3, PTL DEF ScenesSpec, PlotHolds

-----------------------------------------------------------------------------
(* The frame of the window. *)

ChromeFields == {"w", "h", "x", "y", "ptr", "press", "zone", "start", "left", "held", "last",
                 "os", "push", "forward", "acts"}

\* The edges the program drags itself: those that leave the window where it is.
Fixed == {<<"", "e">>, <<"s", "">>, <<"s", "e">>}

Cursors == CursorShapes \cup {"default", "ns", "ew", "nwse", "nesw", Frame!NoPush}

\* A press of the left button on its way was off the edges that move the window, and
\* still is, whatever size the window has now; a drag of it is of an edge that does not.
ChromeInv ==
    /\ DOMAIN wc = ChromeFields
    /\ wc.w \in Int /\ wc.h \in Int /\ wc.x \in Int /\ wc.y \in Int
    /\ wc.w >= MinWidth /\ wc.h >= MinHeight
    /\ wc.ptr[1] \in Int /\ wc.ptr[2] \in Int
    /\ wc.push \in [Frame!Threads -> Cursors]
    /\ wc.last \in Cursors
    /\ wc.press # <<>> => /\ wc.press[1] \in Int /\ wc.press[2] \in Int
                          /\ wc.press[3] => wc.press[1] >= Edge /\ wc.press[2] >= Edge
    /\ wc.zone \in Frame!Edges =>
          /\ wc.left => wc.zone \in Fixed
          /\ wc.start.w \in Int /\ wc.start.h \in Int /\ wc.start.x \in Int /\ wc.start.y \in Int
          /\ wc.start.w >= MinWidth /\ wc.start.h >= MinHeight
          /\ wc.start.ptr[1] \in Int /\ wc.start.ptr[2] \in Int

\* The windows the application and the window manager make are never too small.
FrameSuffices ==
    /\ Frame!ChromeAssumption
    /\ \A size \in FrameSizes : size[1] >= MinWidth /\ size[2] >= MinHeight

LEMMA ChromeConstants ==
    ASSUME FrameSuffices
    PROVE  /\ Edge \in Nat /\ TitleBar \in Nat /\ Button \in Nat
           /\ MinWidth \in Nat /\ MinHeight \in Nat
           /\ \A size \in FrameSizes : size[1] \in Int /\ size[2] \in Int
                                       /\ size[1] >= MinWidth /\ size[2] >= MinHeight
           /\ \A at \in Places : at \in Int
           /\ \A d \in PointerSteps : d[1] \in Int /\ d[2] \in Int
BY DEF FrameSuffices, Frame!ChromeAssumption

LEMMA PairLength ==
    ASSUME NEW S, NEW T, NEW z \in S \X T
    PROVE  Len(z) = 2
OBVIOUS

\* Off the left and the upper edge, no zone is one that moves the window.
LEMMA ZoneIsFixed ==
    ASSUME FrameSuffices, NEW px \in Int, NEW py \in Int, px >= Edge, py >= Edge,
           NEW w, NEW h, Frame!Zone(px, py, w, h) \in Frame!Edges
    PROVE  Frame!Zone(px, py, w, h) \in Fixed
<1> DEFINE vertical == IF py < Edge THEN "n" ELSE IF py >= h - Edge THEN "s" ELSE ""
           across == IF px < Edge THEN "w" ELSE IF px >= w - Edge THEN "e" ELSE ""
           z == Frame!Zone(px, py, w, h)
<1>1. vertical \in {"s", ""} /\ across \in {"e", ""}
  BY ChromeConstants
<1>2. CASE vertical # "" \/ across # ""
  <2>1. z = <<vertical, across>>
    BY <1>2, ZenonT(30) DEF Frame!Zone
  <2> HIDE DEF vertical, across, z
  <2> QED
    BY <1>1, <1>2, <2>1, ZenonT(30) DEF Fixed, z
<1>3. CASE ~(vertical # "" \/ across # "")
  <2>1. z \in {Frame!Client, <<"close">>, <<"maximize">>, <<"minimize">>, Frame!Title}
    BY <1>3 DEF Frame!Zone
  <2>2. z \notin Frame!Edges
    <3> HIDE DEF z
    <3>1. Len(z) = 1
      BY <2>1 DEF Frame!Client, Frame!Title
    <3> DEFINE S == {"n", "s", ""}
               T == {"w", "e", ""}
    <3>2. z \in Frame!Edges => z \in S \X T
      BY ZenonT(30) DEF Frame!Edges
    <3> HIDE DEF S, T
    <3>3. z \in S \X T => Len(z) = 2
      BY PairLength
    <3> QED
      BY <3>1, <3>2, <3>3
  <2> QED
    BY <2>2
<1> QED
  BY <1>2, <1>3

\* SDL keeps for the window manager every press on an edge that moves the window.
LEMMA PressIsOff ==
    ASSUME FrameSuffices, NEW px \in Int, NEW py \in Int, NEW w, NEW h,
           ~Frame!NeedsNativeResize(Frame!Zone(px, py, w, h))
    PROVE  px >= Edge /\ py >= Edge
<1> DEFINE vertical == IF py < Edge THEN "n" ELSE IF py >= h - Edge THEN "s" ELSE ""
           across == IF px < Edge THEN "w" ELSE IF px >= w - Edge THEN "e" ELSE ""
           z == Frame!Zone(px, py, w, h)
<1>1. ASSUME py < Edge
      PROVE  FALSE
  <2>1. vertical = "n" /\ across \in {"w", "e", ""}
    BY <1>1
  <2>2. z = <<"n", across>>
    BY <2>1, ZenonT(30) DEF Frame!Zone
  <2> HIDE DEF across, z
  <2>3. z \in {<<"n", "w">>, <<"n", "e">>, <<"n", "">>}
    BY <2>1, <2>2, ZenonT(30)
  <2> QED
    BY <2>3, ZenonT(30) DEF Frame!NeedsNativeResize, z
<1>2. ASSUME px < Edge, ~(py < Edge)
      PROVE  FALSE
  <2>1. across = "w" /\ vertical \in {"s", ""}
    BY <1>2
  <2>2. z = <<vertical, "w">>
    BY <2>1, ZenonT(30) DEF Frame!Zone
  <2> HIDE DEF vertical, z
  <2>3. z \in {<<"s", "w">>, <<"", "w">>}
    BY <2>1, <2>2, ZenonT(30)
  <2> QED
    BY <2>3, ZenonT(30) DEF Frame!NeedsNativeResize, z
<1> QED
  BY <1>1, <1>2, ChromeConstants

LEMMA ClientIsNoEdge == Frame!Client \notin Frame!Edges
<1> DEFINE S == {"n", "s", ""}
           T == {"w", "e", ""}
<1>1. Frame!Client \in Frame!Edges => Frame!Client \in S \X T
  BY ZenonT(30) DEF Frame!Edges
<1>2. Len(Frame!Client) = 1
  BY DEF Frame!Client
<1> HIDE DEF S, T
<1> QED
  BY <1>1, <1>2, PairLength

LEMMA ChromeStarts ==
    ASSUME FrameSuffices, Frame!WcInit
    PROVE  ChromeInv
<1>1. PICK size \in FrameSizes, at \in Places :
         wc = [w |-> size[1], h |-> size[2], x |-> at, y |-> at, ptr |-> <<at, at>>,
               press |-> <<>>, zone |-> Frame!Client, start |-> Frame!NoDrag,
               left |-> FALSE, held |-> FALSE, last |-> "default", os |-> "default", push |-> [t \in Frame!Threads |-> Frame!NoPush],
               forward |-> FALSE, acts |-> 0]
  BY DEF Frame!WcInit
<1>2. DOMAIN wc = ChromeFields
  BY <1>1 DEF ChromeFields
<1>3. Frame!Client \notin Frame!Edges
  BY ClientIsNoEdge
<1> QED
  BY <1>1, <1>2, <1>3, ChromeConstants DEF ChromeInv, Cursors

\* The steps keep the invariant.
LEMMA CursorKeeps ==
    ASSUME ChromeInv, (\E t \in Frame!Threads : Frame!ApplyCursor(t))
                      \/ \E shape \in CursorShapes : Frame!Dispatch(shape)
    PROVE  ChromeInv'
<1>1. CASE \E t \in Frame!Threads : Frame!ApplyCursor(t)
  <2>1. PICK t \in Frame!Threads : wc' = [wc EXCEPT !.os = wc.push[t], !.push[t] = Frame!NoPush]
    BY <1>1, ZenonT(30) DEF Frame!ApplyCursor
  <2>2. /\ DOMAIN wc' = ChromeFields
        /\ wc'.w = wc.w /\ wc'.h = wc.h /\ wc'.x = wc.x /\ wc'.y = wc.y /\ wc'.ptr = wc.ptr
        /\ wc'.last = wc.last /\ wc'.press = wc.press /\ wc'.zone = wc.zone
        /\ wc'.start = wc.start /\ wc'.left = wc.left
        /\ wc'.push = [wc.push EXCEPT ![t] = Frame!NoPush]
    BY <2>1 DEF ChromeInv, ChromeFields
  <2>3. wc'.push \in [Frame!Threads -> Cursors]
    BY <2>2 DEF ChromeInv, Cursors
  <2> QED
    BY <2>2, <2>3 DEF ChromeInv
<1>2. CASE \E shape \in CursorShapes : Frame!Dispatch(shape)
  <2>1. PICK shape \in CursorShapes :
           wc' = Frame!Pushed([wc EXCEPT !.forward = FALSE], "logic", shape)
    BY <1>2 DEF Frame!Dispatch
  <2> DEFINE s == [wc EXCEPT !.forward = FALSE]
  <2>2. /\ DOMAIN s = ChromeFields
        /\ s.w = wc.w /\ s.h = wc.h /\ s.x = wc.x /\ s.y = wc.y /\ s.ptr = wc.ptr
        /\ s.last = wc.last /\ s.press = wc.press /\ s.zone = wc.zone
        /\ s.start = wc.start /\ s.left = wc.left /\ s.push = wc.push
    BY DEF ChromeInv, ChromeFields
  <2> HIDE DEF s
  <2>3. wc' = s \/ wc' = [s EXCEPT !.last = shape, !.push["logic"] = shape]
    BY <2>1 DEF Frame!Pushed, s
  <2>4. /\ DOMAIN wc' = ChromeFields
        /\ wc'.w = wc.w /\ wc'.h = wc.h /\ wc'.x = wc.x /\ wc'.y = wc.y /\ wc'.ptr = wc.ptr
        /\ wc'.last \in {wc.last, shape} /\ wc'.press = wc.press /\ wc'.zone = wc.zone
        /\ wc'.start = wc.start /\ wc'.left = wc.left
        /\ wc'.push = wc.push \/ wc'.push = [wc.push EXCEPT !["logic"] = shape]
    <3>1. CASE wc' = s
      BY <2>2, <3>1
    <3>2. CASE wc' = [s EXCEPT !.last = shape, !.push["logic"] = shape]
      <4>1. /\ DOMAIN wc' = ChromeFields
            /\ wc'.last = shape
            /\ wc'.push = [wc.push EXCEPT !["logic"] = shape]
        BY <2>2, <3>2 DEF ChromeFields
      <4>2. /\ wc'.w = wc.w /\ wc'.h = wc.h /\ wc'.x = wc.x /\ wc'.y = wc.y
            /\ wc'.ptr = wc.ptr /\ wc'.press = wc.press
        BY <2>2, <3>2 DEF ChromeFields
      <4>3. /\ wc'.zone = wc.zone /\ wc'.start = wc.start /\ wc'.left = wc.left
        BY <2>2, <3>2 DEF ChromeFields
      <4> QED
        BY <4>1, <4>2, <4>3
    <3> QED
      BY <2>3, <3>1, <3>2
  <2>5. wc'.push \in [Frame!Threads -> Cursors] /\ wc'.last \in Cursors
    BY <2>4 DEF ChromeInv, Cursors, Frame!Threads
  <2> QED
    BY <2>4, <2>5 DEF ChromeInv
<1> QED
  BY <1>1, <1>2

LEMMA PressKeeps ==
    ASSUME FrameSuffices, ChromeInv, NEW left \in BOOLEAN, Frame!Press(left)
    PROVE  ChromeInv'
<1> DEFINE px == wc.ptr[1] - wc.x
           py == wc.ptr[2] - wc.y
           at == <<px, py, left>>
<1>1. /\ left => ~Frame!NeedsNativeResize(Frame!Zone(px, py, wc.w, wc.h))
      /\ wc' = [[wc EXCEPT !.acts = @ + 1] EXCEPT !.press = at]
  BY DEF Frame!Press, Frame!Act
<1>2. px \in Int /\ py \in Int
  <2>1. wc.ptr[1] \in Int /\ wc.ptr[2] \in Int /\ wc.x \in Int /\ wc.y \in Int
    BY ZenonT(30) DEF ChromeInv
  <2> QED
    BY <2>1
<1> HIDE DEF px, py
<1>3. left => px >= Edge /\ py >= Edge
  BY <1>1, <1>2, PressIsOff
<1>5. at # <<>> /\ at[1] = px /\ at[2] = py
  OBVIOUS
<1>6. at[3] = left
  BY ZenonT(30)
<1> HIDE DEF at
<1>4. /\ DOMAIN wc' = ChromeFields
      /\ wc'.w = wc.w /\ wc'.h = wc.h /\ wc'.x = wc.x /\ wc'.y = wc.y /\ wc'.ptr = wc.ptr
      /\ wc'.last = wc.last /\ wc'.press = at /\ wc'.zone = wc.zone
      /\ wc'.start = wc.start /\ wc'.left = wc.left /\ wc'.push = wc.push
  BY <1>1 DEF ChromeInv, ChromeFields
<1> QED
  BY <1>2, <1>3, <1>4, <1>5, <1>6 DEF ChromeInv

LEMMA HandlePressKeeps ==
    ASSUME FrameSuffices, ChromeInv, Frame!HandlePress
    PROVE  ChromeInv'
<1> DEFINE zone == Frame!Zone(wc.press[1], wc.press[2], wc.w, wc.h)
           s == [wc EXCEPT !.press = <<>>, !.held = TRUE, !.forward = @ \/ zone = Frame!Client]
           begun == [w |-> wc.w, h |-> wc.h, x |-> wc.x, y |-> wc.y, ptr |-> wc.ptr]
<1>1. /\ wc.press # <<>>
      /\ wc' = IF zone \in Frame!Edges
               THEN [s EXCEPT !.zone = zone, !.left = wc.press[3], !.start = begun] ELSE s
  BY DEF Frame!HandlePress
<1>2. zone \in Frame!Edges /\ wc.press[3] => zone \in Fixed
  BY <1>1, ZoneIsFixed DEF ChromeInv
<1> HIDE DEF zone
<1>3. /\ DOMAIN s = ChromeFields
      /\ s.w = wc.w /\ s.h = wc.h /\ s.x = wc.x /\ s.y = wc.y /\ s.ptr = wc.ptr
      /\ s.last = wc.last /\ s.press = <<>> /\ s.zone = wc.zone
      /\ s.start = wc.start /\ s.left = wc.left /\ s.push = wc.push
  BY DEF ChromeInv, ChromeFields
<1> HIDE DEF s
<1>4. CASE zone \in Frame!Edges
  <2>1. wc' = [s EXCEPT !.zone = zone, !.left = wc.press[3], !.start = begun]
    BY <1>1, <1>4
  <2>2. /\ begun.w = wc.w /\ begun.h = wc.h /\ begun.x = wc.x /\ begun.y = wc.y
        /\ begun.ptr = wc.ptr
    OBVIOUS
  <2> HIDE DEF begun
  <2>3. /\ DOMAIN wc' = ChromeFields
        /\ wc'.w = wc.w /\ wc'.h = wc.h /\ wc'.x = wc.x /\ wc'.y = wc.y /\ wc'.ptr = wc.ptr
        /\ wc'.last = wc.last /\ wc'.press = <<>> /\ wc'.zone = zone
        /\ wc'.start = begun /\ wc'.left = wc.press[3] /\ wc'.push = wc.push
    BY <1>3, <2>1 DEF ChromeFields
  <2> QED
    BY <1>2, <1>4, <2>2, <2>3 DEF ChromeInv
<1>5. CASE ~(zone \in Frame!Edges)
  <2>1. wc' = s
    BY <1>1, <1>5
  <2> QED
    BY <1>3, <2>1 DEF ChromeInv
<1> QED
  BY <1>4, <1>5

\* Whatever is dragged, the window stays no smaller than the least.
LEMMA ResizedIsSized ==
    ASSUME FrameSuffices, NEW zone, NEW s, NEW dx \in Int, NEW dy \in Int,
           s.w \in Int, s.h \in Int, s.x \in Int, s.y \in Int
    PROVE  LET g == Frame!Resized(zone, s, dx, dy)
           IN  /\ g.x \in Int /\ g.y \in Int
               /\ g.w \in Int /\ g.h \in Int /\ g.w >= MinWidth /\ g.h >= MinHeight
<1> DEFINE g == Frame!Resized(zone, s, dx, dy)
           most(a, b) == IF a > b THEN a ELSE b
           a1 == IF zone[2] = "e" THEN dx ELSE IF zone[2] = "w" THEN -dx ELSE 0
           b1 == IF zone[1] = "s" THEN dy ELSE IF zone[1] = "n" THEN -dy ELSE 0
           u == most(MinWidth, s.w + a1)
           v == most(MinHeight, s.h + b1)
<1>1. a1 \in Int /\ b1 \in Int
  OBVIOUS
<1>2. /\ g.w = u /\ g.h = v
      /\ g.x = IF zone[2] = "w" THEN s.x + s.w - u ELSE s.x
      /\ g.y = IF zone[1] = "n" THEN s.y + s.h - v ELSE s.y
  BY DEF Frame!Resized
<1> HIDE DEF a1, b1, g
<1>3. u \in Int /\ v \in Int /\ u >= MinWidth /\ v >= MinHeight
  BY <1>1, ChromeConstants
<1> HIDE DEF u, v
<1> QED
  BY <1>2, <1>3 DEF g

\* A size is kept, or the least, or what the pointer's way makes of it.
LEMMA ResizedDoes ==
    ASSUME FrameSuffices, NEW zone \in Fixed, NEW s, NEW dx \in Int, NEW dy \in Int,
           s.w \in Int, s.h \in Int, s.w >= MinWidth, s.h >= MinHeight
    PROVE  LET g == Frame!Resized(zone, s, dx, dy)
           IN  /\ g.x = s.x /\ g.y = s.y
               /\ g.w = MinWidth \/ g.w = s.w \/ g.w = s.w + dx
               /\ g.h = MinHeight \/ g.h = s.h \/ g.h = s.h + dy
<1> DEFINE g == Frame!Resized(zone, s, dx, dy)
           most(a, b) == IF a > b THEN a ELSE b
           a1 == IF zone[2] = "e" THEN dx ELSE IF zone[2] = "w" THEN -dx ELSE 0
           b1 == IF zone[1] = "s" THEN dy ELSE IF zone[1] = "n" THEN -dy ELSE 0
<1>1. zone[2] # "w" /\ zone[1] # "n"
  <2>1. zone = <<"", "e">> \/ zone = <<"s", "">> \/ zone = <<"s", "e">>
    BY ZenonT(30) DEF Fixed
  <2>2. CASE zone = <<"", "e">>
    <3>1. zone[1] = "" /\ zone[2] = "e"
      BY <2>2, ZenonT(30)
    <3> QED
      BY <3>1, ZenonT(30)
  <2>3. CASE zone = <<"s", "">>
    <3>1. zone[1] = "s" /\ zone[2] = ""
      BY <2>3, ZenonT(30)
    <3> QED
      BY <3>1, ZenonT(30)
  <2>4. CASE zone = <<"s", "e">>
    <3>1. zone[1] = "s" /\ zone[2] = "e"
      BY <2>4
    <3> QED
      BY <3>1
  <2> QED
    BY <2>1, <2>2, <2>3, <2>4, ZenonT(30)
<1>2. a1 \in {dx, 0} /\ b1 \in {dy, 0}
  BY <1>1
<1>3. /\ g.w = most(MinWidth, s.w + a1) /\ g.h = most(MinHeight, s.h + b1)
      /\ g.x = s.x /\ g.y = s.y
  BY <1>1 DEF Frame!Resized
<1> HIDE DEF a1, b1, g
<1>4. MinWidth \in Nat /\ MinHeight \in Nat
  BY ChromeConstants
<1>5. g.w = MinWidth \/ g.w = s.w \/ g.w = s.w + dx
  BY <1>2, <1>3, <1>4
<1>6. g.h = MinHeight \/ g.h = s.h \/ g.h = s.h + dy
  BY <1>2, <1>3, <1>4
<1> QED
  BY <1>3, <1>5, <1>6 DEF g

LEMMA ChromeTyped == ChromeInv => Frame!WcTypeOK
BY DEF ChromeInv, Frame!WcTypeOK, Cursors, Frame!Threads

LEMMA UpdateResizeKeeps ==
    ASSUME FrameSuffices, ChromeInv, NEW d \in PointerSteps, Frame!UpdateResize(d)
    PROVE  ChromeInv' /\ Frame!ManualNeverMoves
<1> DEFINE p1 == wc.ptr[1] + d[1]
           p2 == wc.ptr[2] + d[2]
           s == wc.start
           dx == p1 - s.ptr[1]
           dy == p2 - s.ptr[2]
           g == Frame!Resized(wc.zone, s, dx, dy)
           ptr == <<p1, p2>>
<1>1. /\ wc.zone \in Frame!Edges
      /\ wc' = [wc EXCEPT !.ptr = ptr, !.w = g.w, !.h = g.h, !.x = g.x, !.y = g.y]
  BY DEF Frame!UpdateResize
<1>2. /\ wc.left => wc.zone \in Fixed
      /\ s.w \in Int /\ s.h \in Int /\ s.x \in Int /\ s.y \in Int
      /\ s.w >= MinWidth /\ s.h >= MinHeight /\ s.ptr[1] \in Int /\ s.ptr[2] \in Int
      /\ wc.ptr[1] \in Int /\ wc.ptr[2] \in Int
  BY <1>1 DEF ChromeInv
<1>3. d[1] \in Int /\ d[2] \in Int
  BY ChromeConstants
<1>4. p1 \in Int /\ p2 \in Int /\ dx \in Int /\ dy \in Int
  BY <1>2, <1>3
<1>5. ptr[1] = p1 /\ ptr[2] = p2 /\ p1 = dx + s.ptr[1] /\ p2 = dy + s.ptr[2]
  BY <1>2, <1>3
<1> HIDE DEF ptr, p1, p2, dx, dy
<1>6. /\ g.x \in Int /\ g.y \in Int
      /\ g.w \in Int /\ g.h \in Int /\ g.w >= MinWidth /\ g.h >= MinHeight
  BY <1>2, <1>4, ResizedIsSized
<1>10. wc.left => /\ g.x = s.x /\ g.y = s.y
                  /\ g.w = MinWidth \/ g.w = s.w \/ g.w = s.w + dx
                  /\ g.h = MinHeight \/ g.h = s.h \/ g.h = s.h + dy
  BY <1>2, <1>4, ResizedDoes
<1> HIDE DEF g, s
<1>7. /\ DOMAIN wc' = ChromeFields
      /\ wc'.w = g.w /\ wc'.h = g.h /\ wc'.x = g.x /\ wc'.y = g.y /\ wc'.ptr = ptr
      /\ wc'.last = wc.last /\ wc'.press = wc.press /\ wc'.zone = wc.zone
      /\ wc'.start = wc.start /\ wc'.left = wc.left /\ wc'.push = wc.push
  BY <1>1 DEF ChromeInv, ChromeFields
<1>8. ChromeInv'
  BY <1>2, <1>4, <1>5, <1>6, <1>7 DEF ChromeInv, s
<1>9. Frame!ManualNeverMoves
  <2> SUFFICES ASSUME wc.left PROVE Frame!ManualNeverMoves
    BY DEF Frame!ManualNeverMoves
  <2>1. g.w = MinWidth \/ g.w = s.w \/ (g.x + g.w) - ptr[1] = (s.x + s.w) - s.ptr[1]
    BY <1>2, <1>4, <1>5, <1>10
  <2>2. g.h = MinHeight \/ g.h = s.h \/ (g.y + g.h) - ptr[2] = (s.y + s.h) - s.ptr[2]
    BY <1>2, <1>4, <1>5, <1>10
  <2> QED
    BY <1>7, <1>10, <2>1, <2>2 DEF Frame!ManualNeverMoves, s
<1> QED
  BY <1>8, <1>9

\* Other steps move no pointer while an edge is dragged.
LEMMA HoverKeeps ==
    ASSUME FrameSuffices, ChromeInv, NEW d \in PointerSteps, Frame!Hover(d)
    PROVE  ChromeInv' /\ wc.zone \notin Frame!Edges
<1> DEFINE ptr == <<wc.ptr[1] + d[1], wc.ptr[2] + d[2]>>
           zone == Frame!Zone(ptr[1] - wc.x, ptr[2] - wc.y, wc.w, wc.h)
           shape == Frame!CursorFor(zone)
           s == [wc EXCEPT !.ptr = ptr]
<1>1. /\ wc.zone = Frame!Client
      /\ wc' = IF zone = Frame!Client THEN [s EXCEPT !.forward = TRUE]
               ELSE Frame!Pushed(s, "pump", shape)
  BY DEF Frame!Hover
<1>2. wc.zone \notin Frame!Edges
  BY <1>1, ClientIsNoEdge
<1>3. ptr[1] \in Int /\ ptr[2] \in Int
  <2>1. /\ d[1] \in Int /\ d[2] \in Int
        /\ wc.ptr[1] \in Int /\ wc.ptr[2] \in Int
    BY ChromeConstants DEF ChromeInv
  <2> QED
    BY <2>1
<1>4. shape \in Cursors
  BY DEF Frame!CursorFor, Cursors
<1> HIDE DEF ptr, zone, shape
<1>5. /\ DOMAIN s = ChromeFields
      /\ s.w = wc.w /\ s.h = wc.h /\ s.x = wc.x /\ s.y = wc.y /\ s.ptr = ptr
      /\ s.last = wc.last /\ s.press = wc.press /\ s.zone = wc.zone
      /\ s.start = wc.start /\ s.left = wc.left /\ s.push = wc.push
  BY DEF ChromeInv, ChromeFields
<1> HIDE DEF s
<1>6. \/ wc' = [s EXCEPT !.forward = TRUE] \/ wc' = s
      \/ wc' = [s EXCEPT !.last = shape, !.push["pump"] = shape]
  BY <1>1 DEF Frame!Pushed
<1>7. /\ DOMAIN wc' = ChromeFields
      /\ wc'.w = wc.w /\ wc'.h = wc.h /\ wc'.x = wc.x /\ wc'.y = wc.y /\ wc'.ptr = ptr
      /\ wc'.last \in {wc.last, shape} /\ wc'.press = wc.press /\ wc'.zone = wc.zone
      /\ wc'.start = wc.start /\ wc'.left = wc.left
      /\ wc'.push = wc.push \/ wc'.push = [wc.push EXCEPT !["pump"] = shape]
  BY <1>5, <1>6 DEF ChromeFields
<1>8. wc'.push \in [Frame!Threads -> Cursors] /\ wc'.last \in Cursors
  BY <1>4, <1>7 DEF ChromeInv, Frame!Threads
<1> QED
  BY <1>2, <1>3, <1>7, <1>8 DEF ChromeInv

LEMMA ReleaseKeeps ==
    ASSUME FrameSuffices, ChromeInv, Frame!HandleRelease
    PROVE  ChromeInv'
<1>1. wc' = [wc EXCEPT !.zone = Frame!Client, !.start = Frame!NoDrag, !.left = FALSE, !.held = FALSE,
                       !.forward = wc.forward \/ wc.zone = Frame!Client]
  BY DEF Frame!HandleRelease
<1>2. /\ DOMAIN wc' = ChromeFields
      /\ wc'.w = wc.w /\ wc'.h = wc.h /\ wc'.x = wc.x /\ wc'.y = wc.y /\ wc'.ptr = wc.ptr
      /\ wc'.last = wc.last /\ wc'.press = wc.press /\ wc'.zone = Frame!Client
      /\ wc'.push = wc.push
  BY <1>1 DEF ChromeInv, ChromeFields
<1> QED
  BY <1>2, ClientIsNoEdge DEF ChromeInv

LEMMA ReshapeKeeps ==
    ASSUME FrameSuffices, ChromeInv, NEW size \in FrameSizes, NEW at \in Places,
           Frame!Reshape(size, at)
    PROVE  ChromeInv'
<1>1. wc' = [[wc EXCEPT !.acts = @ + 1] EXCEPT !.w = size[1], !.h = size[2], !.x = at, !.y = at]
  BY DEF Frame!Reshape, Frame!Act
<1>2. /\ DOMAIN wc' = ChromeFields
      /\ wc'.w = size[1] /\ wc'.h = size[2] /\ wc'.x = at /\ wc'.y = at /\ wc'.ptr = wc.ptr
      /\ wc'.last = wc.last /\ wc'.press = wc.press /\ wc'.zone = wc.zone
      /\ wc'.start = wc.start /\ wc'.left = wc.left /\ wc'.push = wc.push
  BY <1>1 DEF ChromeInv, ChromeFields
<1> QED
  BY <1>2, ChromeConstants DEF ChromeInv

\* A step that leaves the pointer where it is says nothing of a drag.
LEMMA PointerStays ==
    ASSUME FrameSuffices, ChromeInv,
           \/ \E t \in Frame!Threads : Frame!ApplyCursor(t)
           \/ \E shape \in CursorShapes : Frame!Dispatch(shape)
           \/ \E left \in BOOLEAN : Frame!Press(left)
           \/ Frame!HandlePress \/ Frame!HandleRelease
           \/ \E size \in FrameSizes, at \in Places : Frame!Reshape(size, at)
    PROVE  wc'.ptr = wc.ptr
BY ZenonT(30) DEF ChromeInv, ChromeFields, Frame!ApplyCursor, Frame!Dispatch, Frame!Pushed, Frame!Press,
       Frame!Act, Frame!HandlePress, Frame!HandleRelease, Frame!Reshape

LEMMA ChromeKeeps ==
    ASSUME FrameSuffices, ChromeInv, Frame!WcNext
    PROVE  ChromeInv' /\ Frame!ManualNeverMoves
<1>1. CASE \E d \in PointerSteps : Frame!UpdateResize(d)
  BY <1>1, UpdateResizeKeeps
<1>2. CASE \E d \in PointerSteps : Frame!Hover(d)
  BY <1>2, HoverKeeps DEF Frame!ManualNeverMoves
<1>3. CASE \/ \E t \in Frame!Threads : Frame!ApplyCursor(t)
           \/ \E shape \in CursorShapes : Frame!Dispatch(shape)
           \/ \E left \in BOOLEAN : Frame!Press(left)
           \/ Frame!HandlePress \/ Frame!HandleRelease
           \/ \E size \in FrameSizes, at \in Places : Frame!Reshape(size, at)
  <2>1. ChromeInv'
    BY <1>3, CursorKeeps, PressKeeps, HandlePressKeeps, ReleaseKeeps, ReshapeKeeps
  <2>2. wc'.ptr = wc.ptr
    BY <1>3, PointerStays
  <2> QED
    BY <2>1, <2>2 DEF Frame!ManualNeverMoves
<1> QED
  BY <1>1, <1>2, <1>3 DEF Frame!WcNext

\* A resize by the program's own hand for a drag of the left button never moves a window,
\* whatever its size has become since SDL asked for the zone and whatever is pressed
\* besides, and the edge follows the pointer down to the least size.
\* (sdl_hit_test_callback, begin_resize, resize_from_drag)
THEOREM ResizesStayPut ==
    ASSUME \A size \in FrameSizes : size[1] >= MinWidth /\ size[2] >= MinHeight
    PROVE  ScenesSpec => ResizeStaysPut
<1> DEFINE Inv == scene = "frame" => ChromeInv
<1>0. FrameSuffices
  BY ScenesAssumption DEF ScenesAssumption, FrameSuffices
<1>1. ScenesInit => Inv
  BY <1>0, ChromeStarts DEF ScenesInit
<1>2. Inv /\ [ScenesNext]_sceneVars =>
         Inv' /\ [scene = "frame" => Frame!WcTypeOK /\ Frame!ManualNeverMoves]_wc
  <2> SUFFICES ASSUME Inv, [ScenesNext]_sceneVars
               PROVE  Inv' /\ [scene = "frame" => Frame!WcTypeOK /\ Frame!ManualNeverMoves]_wc
    OBVIOUS
  <2>1. CASE scene' = scene /\ scene = "frame" /\ Frame!WcNext
    BY <1>0, <2>1, ChromeKeeps, ChromeTyped
  <2>2. CASE scene' = scene /\ wc' = wc
    BY <2>2 DEF ChromeInv
  <2>3. \/ scene' = scene /\ scene = "frame" /\ Frame!WcNext
        \/ scene' = scene /\ wc' = wc
    BY DEF ScenesNext, sceneVars
  <2> QED
    BY <2>1, <2>2, <2>3
<1> QED
  BY <1>1, <1>2, PTL DEF ScenesSpec, ResizeStaysPut

-----------------------------------------------------------------------------
(* The dropdown and the slider. *)

ControlFields == {"open", "hi", "sel", "rect", "focus", "drawn", "top", "win", "seen", "frame",
                  "slider", "value", "pos", "lost"}

ControlSuffices == Control!ControlsAssumption

\* The value is the step nearest to the pointer.
Nearest(c) ==
    LET d == c.value - Control!Raw(c.slider, c.pos)
    IN  2 * Control!Max({d, -d}) <= c.slider.step

LEMMA Largest ==
    ASSUME NEW d \in Int, NEW b \in Int, 2 * d <= b, 2 * (-d) <= b
    PROVE  2 * Control!Max({d, -d}) <= b
<1>1. \E x \in {d, -d} : \A y \in {d, -d} : x >= y
  <2>1. CASE d >= -d
    BY <2>1
  <2>2. CASE ~(d >= -d)
    BY <2>2
  <2> QED
    BY <2>1, <2>2
<1>2. Control!Max({d, -d}) \in {d, -d}
  BY <1>1 DEF Control!Max
<1> QED
  BY <1>2

LEMMA Modulo ==
    ASSUME NEW a \in Nat, NEW n \in Nat \ {0}
    PROVE  /\ a % n \in 0..(n - 1)
           /\ a < n => a % n = a
OBVIOUS

\* A quotient, times its divisor, is the number but for a rest.
LEMMA Rest ==
    ASSUME NEW a \in Nat, NEW n \in Nat \ {0}
    PROVE  /\ a \div n \in Nat
           /\ (a \div n) * n <= a /\ a < (a \div n) * n + n
           /\ a \div n <= (a \div n) * n
OBVIOUS

LEMMA RawInRange ==
    ASSUME ControlSuffices, NEW sl \in SliderRanges, NEW x \in 0..Track
    PROVE  Control!Raw(sl, x) \in Nat /\ Control!Raw(sl, x) >= sl.min
           /\ Control!Raw(sl, x) <= sl.max
<1> DEFINE k == sl.max - sl.min
           n == Track
           a == x * k
<1>1. /\ n \in Nat \ {0} /\ k \in Nat /\ x \in Nat /\ x <= n
      /\ sl.min \in Nat /\ sl.max \in Nat /\ sl.max = sl.min + k
  BY DEF ControlSuffices, Control!ControlsAssumption
<1>2. a \in Nat /\ a <= n * k
  <2>1. PICK j \in Nat : n = x + j
    <3>1. n - x \in Nat /\ n = x + (n - x)
      BY <1>1
    <3> QED
      BY <3>1
  <2>2. n * k = x * k + j * k /\ x * k \in Nat /\ j * k \in Nat
    BY <1>1, <2>1
  <2> QED
    BY <2>2
<1>3. Control!Raw(sl, x) = sl.min + a \div n
  BY DEF Control!Raw
<1> HIDE DEF a, k, n
<1>4. a \div n \in Nat /\ (a \div n) * n <= a
  BY <1>1, <1>2, Rest
<1> DEFINE q == a \div n
<1>5. q <= k
  <2>1. q \in Nat /\ q * n <= n * k
    BY <1>1, <1>2, <1>4
  <2> HIDE DEF q
  <2>2. SUFFICES ASSUME q > k PROVE FALSE
    BY <1>1, <2>1
  <2>3. PICK j \in Nat : q = k + 1 + j
    <3>1. q - k - 1 \in Nat /\ q = k + 1 + (q - k - 1)
      BY <1>1, <2>1, <2>2
    <3> QED
      BY <3>1
  <2>4. q * n = n * k + n + j * n /\ j * n \in Nat /\ n * k \in Nat
    BY <1>1, <2>3
  <2> QED
    BY <1>1, <2>1, <2>4
<1> QED
  BY <1>1, <1>3, <1>4, <1>5

\* The step nearest to the pointer, in the type's arithmetic.
LEMMA PositionNearest ==
    ASSUME ControlSuffices, NEW sl \in SliderRanges, NEW x \in 0..Track
    PROVE  LET d == Control!Position(sl, x) - Control!Raw(sl, x)
           IN  2 * Control!Max({d, -d}) <= sl.step
<1> DEFINE raw == Control!Raw(sl, x)
           m == sl.min
           n == sl.max
           p == sl.step
           half == p \div 2
           W == 2 ^ Bits
           q == (raw - m + half) \div p
           stepped == Control!Wrapped(m + Control!Wrapped(q) * p)
           pos == Control!Position(sl, x)
           d == pos - raw
<1>1. /\ m \in Nat /\ n \in Nat /\ p \in Nat /\ m < n /\ n + half < W /\ W \in Nat \ {0}
  BY DEF ControlSuffices, Control!ControlsAssumption
<1>2. raw \in Nat /\ raw >= m /\ raw <= n
  BY RawInRange
<1>3. half \in Nat /\ 2 * half <= p /\ p <= 2 * half + 1
  BY <1>1
<1>4. \A y : Control!Wrapped(y) = y % W
  BY DEF Control!Wrapped
<1>5. pos = IF p = 0 THEN raw
            ELSE IF stepped < m THEN m ELSE IF stepped > n THEN n ELSE stepped
  BY DEF Control!Position
<1> HIDE DEF raw, m, n, half, W, pos
<1>6. CASE p = 0
  <2>1. d = 0
    BY <1>2, <1>5, <1>6
  <2>2. d \in Int /\ 2 * d <= p /\ 2 * (-d) <= p
    BY <1>1, <1>6, <2>1
  <2> HIDE DEF d, p
  <2>3. p \in Int
    BY <1>1
  <2> QED
    BY <2>2, <2>3, Largest DEF d, p, pos, raw
<1>7. CASE p # 0
  <2> DEFINE a == raw - m + half
             t == q * p
  <2>1. a \in Nat /\ a <= n - m + half /\ p \in Nat \ {0}
    BY <1>1, <1>2, <1>3, <1>7
  <2>2. q = a \div p
    OBVIOUS
  <2> HIDE DEF a, q, p
  <2>3. q \in Nat /\ t <= a /\ a < t + p /\ q <= t
    BY <2>1, <2>2, Rest
  <2>4. t \in Nat
    BY <2>1, <2>3
  <2> HIDE DEF t
  <2>5. q < W /\ m + t < W /\ m + t \in Nat
    BY <1>1, <1>3, <2>1, <2>3, <2>4
  <2>6. Control!Wrapped(q) = q
    BY <1>1, <1>4, <2>3, <2>5, Modulo
  <2>7. Control!Wrapped(m + t) = m + t
    BY <1>1, <1>4, <2>5, Modulo
  <2>8. stepped = m + t
    BY <2>6, <2>7 DEF t
  <2> HIDE DEF stepped
  <2>9. pos = IF m + t > n THEN n ELSE m + t
    BY <1>1, <1>5, <1>7, <2>4, <2>8
  <2>10. a = raw - m + half
    BY DEF a
  <2>11. d \in Int /\ 2 * d <= p /\ 2 * (-d) <= p
    <3>1. CASE m + t > n
      <4>1. d = n - raw
        BY <2>9, <3>1
      <4> HIDE DEF d
      <4> QED
        BY <1>1, <1>2, <1>3, <2>1, <2>3, <2>4, <2>10, <3>1, <4>1
    <3>2. CASE ~(m + t > n)
      <4>1. pos = m + t
        BY <2>9, <3>2
      <4>2. d = m + t - raw
        BY <1>1, <1>2, <2>4, <4>1
      <4> HIDE DEF d
      <4> QED
        BY <1>1, <1>2, <1>3, <2>1, <2>3, <2>4, <2>10, <3>2, <4>2
    <3> QED
      BY <3>1, <3>2
  <2> HIDE DEF d
  <2>12. 2 * Control!Max({d, -d}) <= p
    BY <2>1, <2>11, Largest
  <2> QED
    BY <2>12 DEF d, p, pos, raw
<1> QED
  BY <1>6, <1>7

\* The dropdown and the slider hold what they may.
Sound(s) ==
    /\ DOMAIN s = ControlFields /\ s.open \in BOOLEAN
    /\ s.hi \in 0..(Options - 1) /\ s.sel \in 0..(Options - 1)
    /\ s.rect \in {0, 1, -Options}
    /\ s.slider \in SliderRanges /\ Nearest(s)

\* A popup is drawn when it is open, and there it is hit.
Agrees(s) ==
    IF s.open THEN s.drawn \in {1, -Options} /\ s.rect = s.drawn
    ELSE s.drawn = Control!NoPopup

\* Between two events the last frame shows it, too.
ControlRests(s) ==
    Sound(s) /\ Agrees(s) /\ s.frame.popup = s.drawn /\ s.frame.top \in Int /\ s.top \in Int

\* t has the dropdown and the slider of s.
Resembles(s, t) ==
    /\ DOMAIN t = ControlFields
    /\ t.open = s.open /\ t.hi = s.hi /\ t.sel = s.sel /\ t.rect = s.rect /\ t.drawn = s.drawn
    /\ t.slider = s.slider /\ t.value = s.value /\ t.pos = s.pos

LEMMA ResemblesKeeps ==
    ASSUME NEW s, NEW t, Resembles(s, t)
    PROVE  (Sound(s) => Sound(t)) /\ (Agrees(s) => Agrees(t))
BY DEF Resembles, Sound, Agrees, Nearest

\* A frame: it records what is dirty, and shows what is drawn.
LEMMA FramedDoes ==
    ASSUME NEW s, Sound(s), s.top \in Int, NEW stale \in BOOLEAN, stale \/ Agrees(s)
    PROVE  LET f == Control!Framed(s, stale)
           IN  ControlRests(f) /\ f.sel = s.sel /\ f.open = s.open /\ f.lost = FALSE
<1> DEFINE at == IF s.seen.win > 0 /\ s.seen.top + 1 + Options > s.seen.win THEN -Options ELSE 1
           r == IF stale THEN Control!Recorded(s) ELSE s
           f == Control!Framed(s, stale)
<1>1. at \in {1, -Options} /\ DOMAIN s = ControlFields
  BY DEF Sound
<1>2. Control!Recorded(s) = IF s.open THEN [s EXCEPT !.drawn = at, !.rect = at]
                            ELSE [s EXCEPT !.drawn = Control!NoPopup]
  BY DEF Control!Recorded
<1> HIDE DEF at
<1>3. /\ DOMAIN r = ControlFields
      /\ r.open = s.open /\ r.hi = s.hi /\ r.sel = s.sel /\ r.top = s.top
      /\ r.slider = s.slider /\ r.value = s.value /\ r.pos = s.pos
      /\ r.rect \in {0, 1, -Options} /\ Agrees(r)
  <2>1. CASE ~stale
    BY <2>1 DEF Sound
  <2>2. CASE stale /\ s.open
    <3>1. r = [s EXCEPT !.drawn = at, !.rect = at]
      BY <1>2, <2>2
    <3> HIDE DEF r
    <3> QED
      BY <1>1, <2>2, <3>1 DEF ControlFields, Agrees
  <2>3. CASE stale /\ ~s.open
    <3>1. r = [s EXCEPT !.drawn = Control!NoPopup]
      BY <1>2, <2>3
    <3> HIDE DEF r
    <3> QED
      BY <1>1, <2>3, <3>1 DEF ControlFields, Agrees, Sound
  <2> QED
    BY <2>1, <2>2, <2>3
<1>4. f = [r EXCEPT !.frame = [top |-> r.top, popup |-> r.drawn],
                    !.seen = [top |-> r.top, win |-> r.win], !.lost = FALSE]
  BY DEF Control!Framed
<1> HIDE DEF r, f
<1>5. /\ Resembles(r, f) /\ f.frame.top = r.top /\ f.frame.popup = r.drawn /\ f.top = r.top
      /\ f.lost = FALSE
  BY <1>3, <1>4 DEF ControlFields, Resembles
<1>6. Sound(r)
  BY <1>3 DEF Sound, Nearest
<1>7. Sound(f) /\ Agrees(f)
  BY <1>3, <1>5, <1>6, ResemblesKeeps
<1>8. ControlRests(f)
  BY <1>3, <1>5, <1>7 DEF ControlRests, Resembles
<1> QED
  BY <1>3, <1>5, <1>8 DEF f, Resembles

LEMMA ClosedDoes ==
    ASSUME ControlSuffices, NEW s, Sound(s), Agrees(s)
    PROVE  LET c == Control!Closed(s)
           IN  Sound(c) /\ Agrees(c) /\ c.sel = s.sel /\ c.top = s.top /\ c.frame = s.frame
<1> DEFINE c == Control!Closed(s)
<1>1. CASE s.drawn = Control!NoPopup
  BY <1>1 DEF Control!Closed
<1>2. CASE s.drawn # Control!NoPopup
  <2>1. c = [s EXCEPT !.drawn = Control!NoPopup, !.open = FALSE, !.hi = 0, !.rect = 0]
    BY <1>2 DEF Control!Closed
  <2>2. DOMAIN s = ControlFields /\ Options \in Nat \ {0}
    BY DEF Sound, ControlSuffices, Control!ControlsAssumption
  <2> HIDE DEF c
  <2>3. /\ DOMAIN c = ControlFields /\ c.drawn = Control!NoPopup /\ c.open = FALSE /\ c.hi = 0
        /\ c.rect = 0 /\ c.sel = s.sel /\ c.slider = s.slider /\ c.value = s.value
        /\ c.pos = s.pos /\ c.top = s.top /\ c.frame = s.frame
    BY <2>1, <2>2 DEF ControlFields
  <2>4. Agrees(c) /\ Nearest(c)
    BY <2>3 DEF Sound, Agrees, Nearest
  <2>5. 0 \in 0..(Options - 1) /\ s.sel \in 0..(Options - 1) /\ s.slider \in SliderRanges
    BY <2>2 DEF Sound
  <2>6. Sound(c)
    BY <2>3, <2>4, <2>5 DEF Sound
  <2> QED
    BY <2>3, <2>4, <2>6 DEF c
<1> QED
  BY <1>1, <1>2

\* A click: where the popup is drawn, it takes the option there.
LEMMA ClickedDoes ==
    ASSUME ControlSuffices, NEW s, Sound(s), Agrees(s), NEW y \in Int
    PROVE  LET c == Control!Clicked(s, y)
           IN  /\ Sound(c) /\ c.top = s.top /\ c.drawn = s.drawn
               /\ (s.open /\ y - s.rect \in 0..(Options - 1)) => ~c.open /\ c.sel = y - s.rect
               /\ (~s.open \/ y - s.rect \notin 0..(Options - 1)) => c.sel = s.sel
<1> DEFINE c == Control!Clicked(s, y)
<1>1. DOMAIN s = ControlFields /\ Options \in Nat \ {0}
  BY DEF Sound, ControlSuffices, Control!ControlsAssumption
<1>2. CASE ~s.open
  <2>1. c = [[s EXCEPT !.open = TRUE, !.hi = s.sel] EXCEPT !.rect = 1]
    BY <1>2 DEF Control!Clicked, Control!Opened
  <2> HIDE DEF c
  <2>2. /\ DOMAIN c = ControlFields /\ c.drawn = s.drawn /\ c.open = TRUE /\ c.hi = s.sel
        /\ c.rect = 1 /\ c.sel = s.sel /\ c.slider = s.slider /\ c.value = s.value
        /\ c.pos = s.pos /\ c.top = s.top
    BY <1>1, <2>1 DEF ControlFields
  <2>3. Sound(c)
    BY <1>1, <2>2 DEF Sound, Nearest
  <2> QED
    BY <1>2, <2>2, <2>3 DEF c
<1>3. CASE s.open
  <2> DEFINE to == IF y - s.rect \in 0..(Options - 1) THEN y - s.rect ELSE s.sel
  <2>1. c = [s EXCEPT !.open = FALSE, !.sel = to]
    BY <1>3 DEF Control!Clicked
  <2>2. to \in 0..(Options - 1)
    BY DEF Sound
  <2> HIDE DEF c, to
  <2>3. /\ DOMAIN c = ControlFields /\ c.drawn = s.drawn /\ c.open = FALSE /\ c.hi = s.hi
        /\ c.rect = s.rect /\ c.sel = to /\ c.slider = s.slider /\ c.value = s.value
        /\ c.pos = s.pos /\ c.top = s.top
    BY <1>1, <2>1 DEF ControlFields
  <2>4. Sound(c)
    BY <2>2, <2>3 DEF Sound, Nearest
  <2> QED
    BY <1>3, <2>3, <2>4 DEF c, to
<1> QED
  BY <1>2, <1>3

LEMMA KeyedDoes ==
    ASSUME ControlSuffices, NEW s, Sound(s), NEW k
    PROVE  Sound(Control!Keyed(s, k)) /\ Control!Keyed(s, k).top = s.top
<1> DEFINE c == Control!Keyed(s, k)
           Chosen(hi, sel, open) == [s EXCEPT !.hi = hi, !.sel = sel, !.open = open]
<1>1. DOMAIN s = ControlFields /\ Options \in Nat \ {0}
      /\ s.hi \in 0..(Options - 1) /\ s.sel \in 0..(Options - 1) /\ s.open \in BOOLEAN
  BY DEF Sound, ControlSuffices, Control!ControlsAssumption
<1>2. ASSUME NEW i \in 0..(Options - 1)
      PROVE  (i + 1) % Options \in 0..(Options - 1) /\ (i + Options - 1) % Options \in 0..(Options - 1)
  <2>1. i + 1 \in Nat /\ i + Options - 1 \in Nat
    BY <1>1, <1>2
  <2> QED
    BY <1>1, <2>1, Modulo
<1>3. \E hi, sel \in 0..(Options - 1), open \in BOOLEAN :
         /\ DOMAIN c = ControlFields /\ c.hi = hi /\ c.sel = sel /\ c.open = open
         /\ c.rect = s.rect /\ c.slider = s.slider /\ c.value = s.value /\ c.pos = s.pos
         /\ c.top = s.top
  <2>1. CASE s.open
    <3>1. \/ c = [s EXCEPT !.hi = (s.hi + 1) % Options]
          \/ c = [s EXCEPT !.hi = (s.hi + Options - 1) % Options]
          \/ c = [s EXCEPT !.sel = s.hi, !.open = FALSE]
          \/ c = [s EXCEPT !.open = FALSE] \/ c = s
      BY <2>1 DEF Control!Keyed
    <3>2. (s.hi + 1) % Options \in 0..(Options - 1) /\ (s.hi + Options - 1) % Options \in 0..(Options - 1)
      BY <1>1, <1>2
    <3> HIDE DEF c
    <3>3. CASE c = [s EXCEPT !.hi = (s.hi + 1) % Options]
      BY <1>1, <3>2, <3>3 DEF ControlFields
    <3>4. CASE c = [s EXCEPT !.hi = (s.hi + Options - 1) % Options]
      BY <1>1, <3>2, <3>4 DEF ControlFields
    <3>5. CASE c = [s EXCEPT !.sel = s.hi, !.open = FALSE]
      BY <1>1, <3>5 DEF ControlFields
    <3>6. CASE c = [s EXCEPT !.open = FALSE] \/ c = s
      BY <1>1, <3>6 DEF ControlFields
    <3> QED
      BY <3>1, <3>3, <3>4, <3>5, <3>6
  <2>2. CASE ~s.open
    <3>1. \/ c = [s EXCEPT !.open = TRUE, !.hi = s.sel]
          \/ c = [s EXCEPT !.sel = (s.sel + 1) % Options]
          \/ c = [s EXCEPT !.sel = (s.sel + Options - 1) % Options]
          \/ c = s
      BY <2>2 DEF Control!Keyed, Control!Opened
    <3>2. (s.sel + 1) % Options \in 0..(Options - 1) /\ (s.sel + Options - 1) % Options \in 0..(Options - 1)
      BY <1>1, <1>2
    <3> HIDE DEF c
    <3>3. CASE c = [s EXCEPT !.sel = (s.sel + 1) % Options]
      BY <1>1, <3>2, <3>3 DEF ControlFields
    <3>4. CASE c = [s EXCEPT !.sel = (s.sel + Options - 1) % Options]
      BY <1>1, <3>2, <3>4 DEF ControlFields
    <3>5. CASE c = [s EXCEPT !.open = TRUE, !.hi = s.sel] \/ c = s
      BY <1>1, <3>5 DEF ControlFields
    <3> QED
      BY <3>1, <3>3, <3>4, <3>5
  <2> QED
    BY <2>1, <2>2
<1> HIDE DEF c
<1>4. Sound(c) /\ c.top = s.top
  BY <1>3 DEF Sound, Nearest
<1> QED
  BY <1>4 DEF c

LEMMA SlidDoes ==
    ASSUME ControlSuffices, NEW s, Sound(s), Agrees(s), NEW x \in 0..Track
    PROVE  LET c == Control!Slid(s, x)
           IN  Sound(c) /\ Agrees(c) /\ c.sel = s.sel /\ c.top = s.top
<1> DEFINE c == Control!Slid(s, x)
           v == Control!Position(s.slider, x)
<1>1. c = [s EXCEPT !.value = v, !.pos = x]
  BY DEF Control!Slid
<1>2. s.slider \in SliderRanges /\ DOMAIN s = ControlFields
  BY DEF Sound
<1>3. LET d == v - Control!Raw(s.slider, x) IN 2 * Control!Max({d, -d}) <= s.slider.step
  BY <1>2, PositionNearest
<1> HIDE DEF c, v
<1>4. /\ DOMAIN c = ControlFields /\ c.open = s.open /\ c.hi = s.hi /\ c.sel = s.sel
      /\ c.rect = s.rect /\ c.drawn = s.drawn /\ c.slider = s.slider /\ c.value = v
      /\ c.pos = x /\ c.top = s.top
  BY <1>1, <1>2 DEF ControlFields
<1>5. Nearest(c)
  BY <1>3, <1>4 DEF Nearest
<1>6. Sound(c) /\ Agrees(c)
  BY <1>4, <1>5 DEF Sound, Agrees
<1> QED
  BY <1>4, <1>6 DEF c

LEMMA MarkLost ==
    ASSUME NEW f, ControlRests(f), NEW b
    PROVE  ControlRests([f EXCEPT !.lost = b]) /\ [f EXCEPT !.lost = b].lost = b
<1> DEFINE g == [f EXCEPT !.lost = b]
<1>1. DOMAIN f = ControlFields
  BY DEF ControlRests, Sound
<1>2. Resembles(f, g) /\ g.frame = f.frame /\ g.top = f.top /\ g.lost = b
  BY <1>1 DEF ControlFields, Resembles
<1> HIDE DEF g
<1>3. Sound(g) /\ Agrees(g)
  BY <1>2, ResemblesKeeps DEF ControlRests
<1>4. ControlRests(g)
  BY <1>2, <1>3 DEF ControlRests, Resembles
<1> QED
  BY <1>2, <1>4 DEF g

\* A dropdown with the focus never loses a press.
PressTaken == ct.focus = "dropdown" => ct'.lost = FALSE

LEMMA ControlPress ==
    ASSUME ControlSuffices, ControlRests(ct), NEW x \in 0..Track, NEW y \in Int,
           Control!Press(x, y)
    PROVE  ControlRests(ct') /\ PressTaken
<1> DEFINE id == Control!HitAt(ct.frame, y)
           over == Control!Over(ct.frame, y)
           s == IF id # ct.focus \/ id = "none" THEN Control!Closed(ct) ELSE ct
           f == [s EXCEPT !.focus = id]
           next == CASE id = "dropdown" -> Control!Clicked(f, y - ct.frame.top)
                     [] id = "slider" -> Control!Slid(f, x)
                     [] OTHER -> f
           lost == IF over THEN next.open \/ next.sel # y - ct.frame.top - ct.frame.popup
                   ELSE next.sel # ct.sel
           stale == "dropdown" \in {id, ct.focus} \/ next.drawn # ct.drawn
<1>1. ct' = [Control!Framed(next, stale) EXCEPT !.lost = lost]
  BY DEF Control!Press
<1>2. /\ Sound(ct) /\ Agrees(ct) /\ ct.frame.popup = ct.drawn /\ ct.frame.top \in Int
      /\ ct.top \in Int /\ Options \in Nat \ {0}
  BY DEF ControlRests, ControlSuffices, Control!ControlsAssumption
<1>3. /\ over <=> (ct.frame.popup # Control!NoPopup
                    /\ y - ct.frame.top - ct.frame.popup \in 0..(Options - 1))
      /\ id = "dropdown" <=> (over \/ y = ct.frame.top)
      /\ id \in {"dropdown", "slider", "none"}
  BY DEF Control!Over, Control!HitAt
<1> HIDE DEF id, over
<1>4. /\ Sound(s) /\ Agrees(s) /\ s.top = ct.top /\ s.sel = ct.sel
      /\ (id = ct.focus /\ id # "none") => s = ct
  BY <1>2, ClosedDoes
<1> HIDE DEF s
<1>5. Resembles(s, f) /\ f.top = s.top
  BY <1>4 DEF ControlFields, Resembles, Sound
<1> HIDE DEF f
<1>6. Sound(f) /\ Agrees(f) /\ f.top = ct.top /\ f.sel = ct.sel
  BY <1>4, <1>5, ResemblesKeeps DEF Resembles
<1>7. CASE id = "dropdown"
  <2> DEFINE at == y - ct.frame.top
             c == Control!Clicked(f, at)
  <2>1. next = c /\ stale = TRUE
    BY <1>7
  <2>2. at \in Int
    BY <1>2
  <2> HIDE DEF at
  <2>3. /\ Sound(c) /\ c.top = f.top
        /\ (f.open /\ at - f.rect \in 0..(Options - 1)) => ~c.open /\ c.sel = at - f.rect
        /\ (~f.open \/ at - f.rect \notin 0..(Options - 1)) => c.sel = f.sel
    BY <1>6, <2>2, ClickedDoes
  <2> HIDE DEF c, next, stale
  <2>4. ControlRests(Control!Framed(next, stale))
    BY <1>2, <1>6, <2>1, <2>3, FramedDoes
  <2>5. ASSUME ct.focus = "dropdown"
        PROVE  lost = FALSE
    <3>1. f.open = ct.open /\ f.rect = ct.rect
      BY <1>4, <1>5, <1>7, <2>5 DEF Resembles
    <3>2. CASE over
      <4>1. ct.open /\ ct.rect = ct.frame.popup /\ at - ct.rect \in 0..(Options - 1)
        BY <1>2, <1>3, <3>2 DEF Agrees, at
      <4>2. ~c.open /\ c.sel = at - ct.frame.popup
        BY <2>3, <3>1, <4>1
      <4> QED
        BY <2>1, <3>2, <4>2 DEF at
    <3>3. CASE ~over
      <4>1. at = 0
        BY <1>2, <1>3, <1>7, <3>3 DEF at
      <4>2. ~f.open \/ at - f.rect \notin 0..(Options - 1)
        <5>1. CASE ct.open
          <6>1. f.rect = 1 \/ f.rect = -Options
            BY <1>2, <3>1, <5>1 DEF Agrees
          <6> DEFINE o == Options
                     r == f.rect
          <6>2. o \in Nat /\ o > 0 /\ (r = 1 \/ r = -o)
            BY <1>2, <6>1
          <6> HIDE DEF o, r
          <6>3. 0 - r \notin 0..(o - 1)
            BY <6>2
          <6> QED
            BY <4>1, <6>3 DEF o, r
        <5>2. CASE ~ct.open
          BY <3>1, <5>2
        <5> QED
          BY <5>1, <5>2
      <4>3. c.sel = ct.sel
        BY <1>6, <2>3, <4>2
      <4> QED
        BY <2>1, <3>3, <4>3
    <3> QED
      BY <3>2, <3>3
  <2> HIDE DEF lost
  <2>6. ControlRests(ct') /\ ct'.lost = lost
    BY <1>1, <2>4, MarkLost
  <2> QED
    BY <2>5, <2>6 DEF PressTaken
<1>8. CASE id # "dropdown"
  <2>1. next = IF id = "slider" THEN Control!Slid(f, x) ELSE f
    BY <1>8
  <2>2. Sound(next) /\ Agrees(next) /\ next.sel = ct.sel /\ next.top = ct.top
    <3>1. CASE id = "slider"
      BY <1>6, <2>1, <3>1, SlidDoes
    <3>2. CASE id # "slider"
      BY <1>6, <2>1, <3>2
    <3> QED
      BY <3>1, <3>2
  <2>3. ~over
    BY <1>3, <1>8
  <2> HIDE DEF next
  <2>4. lost = FALSE
    BY <2>2, <2>3
  <2>5. stale \in BOOLEAN
    OBVIOUS
  <2> HIDE DEF stale, lost
  <2>6. ControlRests(Control!Framed(next, stale))
    BY <1>2, <2>2, <2>5, FramedDoes
  <2>7. ControlRests(ct') /\ ct'.lost = lost
    BY <1>1, <2>6, MarkLost
  <2> QED
    BY <2>4, <2>7 DEF PressTaken
<1> QED
  BY <1>7, <1>8

\* The other events, and a change of the layout.
LEMMA ControlOthers ==
    ASSUME ControlSuffices, ControlRests(ct),
           \/ \E k \in {"up", "down", "enter", "space", "escape"} : Control!Key(k)
           \/ Control!Tab
           \/ \E t \in Tops, h \in Rooms : Control!Relayout(t, h)
    PROVE  ControlRests(ct') /\ ct'.lost = FALSE
<1>1. /\ Sound(ct) /\ Agrees(ct) /\ ct.top \in Int /\ DOMAIN ct = ControlFields
      /\ \A t \in Tops : t \in Int
  BY DEF ControlRests, Sound, ControlSuffices, Control!ControlsAssumption
<1>2. CASE \E k \in {"up", "down", "enter", "space", "escape"} : Control!Key(k)
  <2>1. PICK k : ct' = Control!Framed(Control!Keyed(ct, k), Control!Keyed(ct, k) # ct)
    BY <1>2 DEF Control!Key
  <2> DEFINE s == Control!Keyed(ct, k)
             stale == s # ct
  <2>2. Sound(s) /\ s.top \in Int
    BY <1>1, KeyedDoes
  <2> HIDE DEF s
  <2>3. stale \in BOOLEAN /\ (stale \/ Agrees(s))
    BY <1>1
  <2>4. ct' = Control!Framed(s, stale)
    BY <2>1 DEF s
  <2> HIDE DEF stale
  <2> QED
    BY <2>2, <2>3, <2>4, FramedDoes
<1>3. CASE Control!Tab
  <2>1. PICK to : ct' = Control!Framed([ct EXCEPT !.focus = to], TRUE)
    BY <1>3 DEF Control!Tab
  <2> DEFINE s == [ct EXCEPT !.focus = to]
  <2>2. Resembles(ct, s) /\ s.top = ct.top
    BY <1>1 DEF ControlFields, Resembles
  <2>3. ct' = Control!Framed(s, TRUE)
    BY <2>1
  <2> HIDE DEF s
  <2>4. Sound(s)
    BY <1>1, <2>2, ResemblesKeeps
  <2> QED
    BY <1>1, <2>2, <2>3, <2>4, FramedDoes
<1>4. CASE \E t \in Tops, h \in Rooms : Control!Relayout(t, h)
  <2>1. PICK t \in Tops, h \in Rooms : ct' = Control!Framed([ct EXCEPT !.top = t, !.win = h], FALSE)
    BY <1>4, ZenonT(30) DEF Control!Relayout
  <2> DEFINE s == [ct EXCEPT !.top = t, !.win = h]
  <2>2. Resembles(ct, s) /\ s.top = t
    BY <1>1 DEF ControlFields, Resembles
  <2>3. ct' = Control!Framed(s, FALSE)
    BY <2>1
  <2> HIDE DEF s
  <2>4. Sound(s) /\ Agrees(s)
    BY <1>1, <2>2, ResemblesKeeps
  <2> QED
    BY <1>1, <2>2, <2>3, <2>4, FramedDoes
<1> QED
  BY <1>2, <1>3, <1>4

LEMMA ControlStarts ==
    ASSUME ControlSuffices, Control!CtInit
    PROVE  ControlRests(ct)
<1>1. PICK t \in Tops, h \in Rooms, sl \in SliderRanges :
         ct = [open |-> FALSE, hi |-> 0, sel |-> 0, rect |-> 0, focus |-> "none",
               drawn |-> Control!NoPopup, top |-> t, win |-> h, seen |-> [top |-> t, win |-> h],
               frame |-> [top |-> t, popup |-> Control!NoPopup],
               slider |-> sl, value |-> sl.min, pos |-> 0, lost |-> FALSE]
  BY DEF Control!CtInit
<1>2. /\ Options \in Nat \ {0} /\ Track \in Nat \ {0} /\ t \in Int
      /\ sl.min \in Nat /\ sl.max \in Nat /\ sl.min < sl.max /\ sl.step \in Nat
  BY DEF ControlSuffices, Control!ControlsAssumption
<1>3. /\ DOMAIN ct = ControlFields /\ ct.open = FALSE /\ ct.hi = 0 /\ ct.sel = 0 /\ ct.rect = 0
      /\ ct.drawn = Control!NoPopup /\ ct.top = t /\ ct.frame.top = t
      /\ ct.frame.popup = Control!NoPopup /\ ct.slider = sl /\ ct.value = sl.min /\ ct.pos = 0
  BY <1>1 DEF ControlFields
<1>4. Nearest(ct)
  <2> DEFINE k == sl.max - sl.min
             d == sl.min - Control!Raw(sl, 0)
             p == sl.step
  <2>1. k \in Nat /\ 0 * k = 0
    BY <1>2
  <2>2. Control!Raw(sl, 0) = sl.min + 0 \div Track
    BY <2>1 DEF Control!Raw
  <2>3. 0 \div Track = 0
    <3>1. 0 \div Track \in Nat /\ (0 \div Track) <= (0 \div Track) * Track /\ (0 \div Track) * Track <= 0
      BY <1>2, Rest
    <3>2. (0 \div Track) * Track \in Nat
      BY <1>2, <3>1
    <3> QED
      BY <3>1, <3>2
  <2>4. d = 0
    BY <1>2, <2>2, <2>3
  <2>5. d \in Int /\ 2 * d <= p /\ 2 * (-d) <= p /\ p \in Int
    BY <1>2, <2>4
  <2> HIDE DEF d, p
  <2>6. 2 * Control!Max({d, -d}) <= p
    BY <2>5, Largest
  <2> QED
    BY <1>3, <2>6 DEF Nearest, d, p
<1>5. 0 \in 0..(Options - 1)
  BY <1>2
<1>6. Sound(ct) /\ Agrees(ct)
  BY <1>3, <1>4, <1>5 DEF Sound, Agrees
<1> QED
  BY <1>2, <1>3, <1>6 DEF ControlRests

LEMMA ControlKeeps ==
    ASSUME ControlSuffices, ControlRests(ct), Control!CtNext
    PROVE  ControlRests(ct') /\ Control!PressPicksShown
<1>1. CASE \E x \in 0..Track, y \in 0..(2 * Options + 2) : Control!Press(x, y)
  <2>1. PICK x \in 0..Track, y \in 0..(2 * Options + 2) : Control!Press(x, y)
    BY <1>1
  <2>2. y \in Int
    BY DEF ControlSuffices, Control!ControlsAssumption
  <2>3. ControlRests(ct') /\ PressTaken
    BY <2>1, <2>2, ControlPress
  <2> QED
    BY <2>3 DEF PressTaken, Control!PressPicksShown
<1>2. CASE \/ \E k \in {"up", "down", "enter", "space", "escape"} : Control!Key(k)
           \/ Control!Tab
           \/ \E t \in Tops, h \in Rooms : Control!Relayout(t, h)
  BY <1>2, ControlOthers DEF Control!PressPicksShown
<1> QED
  BY <1>1, <1>2 DEF Control!CtNext

LEMMA ControlTyped ==
    ASSUME ControlRests(ct)
    PROVE  Control!CtTypeOK /\ Control!SliderFollows
BY DEF ControlRests, Sound, Agrees, Nearest, Control!CtTypeOK, Control!SliderFollows

\* A press on the popup of a dropdown that has the focus takes the option shown there,
\* wherever frames have put the popup, and the slider's value is the step nearest to the
\* pointer, in the arithmetic of its type.
\* (dropdown_record, dropdown_handle_input, apply_position)
THEOREM ControlsStayTrue == ScenesSpec => ControlsFollow
<1> DEFINE Inv == scene = "controls" => ControlRests(ct)
           Holds == scene = "controls" => Control!CtTypeOK /\ Control!SliderFollows
<1>0. ControlSuffices
  BY ScenesAssumption DEF ScenesAssumption, ControlSuffices
<1>1. ScenesInit => Inv
  BY <1>0, ControlStarts DEF ScenesInit
<1>2. Inv /\ [ScenesNext]_sceneVars => Inv' /\ [scene = "controls" => Control!PressPicksShown]_ct
  <2> SUFFICES ASSUME Inv, [ScenesNext]_sceneVars
               PROVE  Inv' /\ [scene = "controls" => Control!PressPicksShown]_ct
    OBVIOUS
  <2>1. CASE scene' = scene /\ scene = "controls" /\ Control!CtNext
    BY <1>0, <2>1, ControlKeeps
  <2>2. CASE scene' = scene /\ ct' = ct
    BY <2>2
  <2>3. \/ scene' = scene /\ scene = "controls" /\ Control!CtNext
        \/ scene' = scene /\ ct' = ct
    BY DEF ScenesNext, sceneVars
  <2> QED
    BY <2>1, <2>2, <2>3
<1>3. Inv => Holds
  BY ControlTyped
<1> QED
  BY <1>1, <1>2, <1>3, PTL DEF ScenesSpec, ControlsFollow

-----------------------------------------------------------------------------
(* The list: a behaviour of its scene is one of VirtualList. *)

ListP == INSTANCE VirtualListProofs WITH Heights <- ListHeights, Deltas <- ListDeltas

\* The list of the scene is the one VirtualListProofs is about.
LEMMA ListSame ==
    /\ List!ConstantsAssumption <=> ListP!ConstantsAssumption
    /\ List!Init <=> ListP!Init
    /\ List!View = ListP!View
    /\ List!TypeOK <=> ListP!TypeOK
<1>1. List!View = ListP!View
  BY DEF List!View, ListP!View, List!Row, ListP!Row, List!Item, ListP!Item
<1>2. List!TypeOK <=> ListP!TypeOK
  BY <1>1 DEF List!TypeOK, ListP!TypeOK, List!Item, ListP!Item
<1>3. QED
  BY <1>1, <1>2 DEF List!ConstantsAssumption, ListP!ConstantsAssumption, List!Init, ListP!Init

LEMMA ListBuilds == List!Publish <=> ListP!Publish
<1>1. ASSUME NEW v PROVE List!Measure(v) = ListP!Measure(v)
  BY DEF List!Measure, ListP!Measure
<1>2. ASSUME NEW v PROVE List!VisibleRange(v) = ListP!VisibleRange(v)
  BY DEF List!VisibleRange, ListP!VisibleRange, List!HighOf, ListP!HighOf, List!LowOf,
         ListP!LowOf, List!CeilDiv, ListP!CeilDiv
<1>3. ASSUME NEW v PROVE List!Throws(v) <=> ListP!Throws(v)
  BY <1>1, <1>2 DEF List!Throws, ListP!Throws
<1>4. ASSUME NEW v PROVE List!Unbind(v) = ListP!Unbind(v)
  BY DEF List!Unbind, ListP!Unbind, List!Reverse, ListP!Reverse
<1>5. ASSUME NEW v, NEW r PROVE List!Bind(v, r) = ListP!Bind(v, r)
  BY DEF List!Bind, ListP!Bind, List!HighOf, ListP!HighOf, List!LowOf, ListP!LowOf
<1>6. ASSUME NEW v PROVE List!Materialize(v) = ListP!Materialize(v)
  BY <1>1, <1>2, <1>3, <1>4, <1>5 DEF List!Materialize, ListP!Materialize
<1>7. ASSUME NEW v PROVE List!Arrange(v) = ListP!Arrange(v)
  BY DEF List!Arrange, ListP!Arrange, List!MaxOffset, ListP!MaxOffset, List!Clamp, ListP!Clamp,
         List!HighOf, ListP!HighOf, List!LowOf, ListP!LowOf
<1>8. QED
  BY <1>3, <1>6, <1>7 DEF List!Publish, ListP!Publish

LEMMA ListSteps == List!Next => ListP!Next
<1>1. ASSUME NEW v PROVE List!MaxOffset(v) = ListP!MaxOffset(v)
  BY DEF List!MaxOffset, ListP!MaxOffset, List!HighOf, ListP!HighOf
<1>2. ASSUME NEW x, NEW a, NEW b PROVE List!Clamp(x, a, b) = ListP!Clamp(x, a, b)
  BY DEF List!Clamp, ListP!Clamp, List!HighOf, ListP!HighOf, List!LowOf, ListP!LowOf
<1>3. ASSUME NEW n PROVE List!Mutate(n) <=> ListP!Mutate(n)
  BY DEF List!Mutate, ListP!Mutate
<1>4. ASSUME NEW n PROVE List!ScrollTo(n) <=> ListP!ScrollTo(n)
  BY DEF List!ScrollTo, ListP!ScrollTo
<1>5. ASSUME NEW k PROVE List!PushBack(k) <=> ListP!PushBack(k)
  BY <1>3 DEF List!PushBack, ListP!PushBack
<1>6. ASSUME NEW i PROVE List!Erase(i) <=> ListP!Erase(i)
  BY <1>3 DEF List!Erase, ListP!Erase, List!RemoveAt, ListP!RemoveAt
<1>7. ASSUME NEW i PROVE List!SetItem(i) <=> ListP!SetItem(i)
  BY <1>3 DEF List!SetItem, ListP!SetItem
<1>8. ASSUME NEW j PROVE List!EditRow(j) <=> ListP!EditRow(j)
  BY <1>3 DEF List!EditRow, ListP!EditRow
<1>9. ASSUME NEW d PROVE List!Scroll(d) <=> ListP!Scroll(d)
  BY <1>1, <1>2, <1>4 DEF List!Scroll, ListP!Scroll
<1>10. ASSUME NEW i PROVE List!RevealRow(i) <=> ListP!RevealRow(i)
  BY <1>1, <1>2, <1>4 DEF List!RevealRow, ListP!RevealRow
<1>11. ASSUME NEW h PROVE List!Resize(h) <=> ListP!Resize(h)
  BY DEF List!Resize, ListP!Resize
<1>12. QED
  BY <1>5, <1>6, <1>7, <1>8, <1>9, <1>10, <1>11, ListBuilds DEF List!Next, ListP!Next
\* What is said of the list on the screen.
ListPromises == List!TypeOK /\ List!RowsCurrent /\ List!VisibleBound
                /\ List!NodesRecycled /\ List!NoItemOverwritten

LEMMA ListPromised ==
    /\ ListP!ListInv => ListP!TypeOK
    /\ (ListP!TypeOK /\ ListP!RowsCurrent /\ ListP!VisibleBound /\ ListP!NodesRecycled
          /\ ListP!NoItemOverwritten) => ListPromises
<1>1. ListP!ListInv => ListP!TypeOK
  BY DEF ListP!ListInv
<1>2. ListP!RowsCurrent => List!RowsCurrent
  BY DEF ListP!RowsCurrent, List!RowsCurrent
<1>3. ListP!VisibleBound => List!VisibleBound
  BY DEF ListP!VisibleBound, List!VisibleBound
<1>4. ListP!NodesRecycled => List!NodesRecycled
  BY DEF ListP!NodesRecycled, List!NodesRecycled, List!Reverse, ListP!Reverse,
         List!CeilDiv, ListP!CeilDiv
<1>5. ListP!NoItemOverwritten => List!NoItemOverwritten
  BY DEF ListP!NoItemOverwritten, List!NoItemOverwritten
<1> QED
  BY <1>1, <1>2, <1>3, <1>4, <1>5, ListSame DEF ListPromises

\* While no more items are erased between two builds than the overscan holds, a
\* published list shows the items in view as they are, in a bounded number of nodes.
\* (materialize_virtual_list, vlist_handle_edit)
THEOREM ListStaysShown ==
    ASSUME MaxErases <= Overscan,
           NEW tallest \in ListHeights, \A h \in ListHeights : h <= tallest
    PROVE  ScenesSpec => []ListShown
<1> DEFINE InList == scene = "list"
<1>0. ListP!ConstantsAssumption
  BY ScenesAssumption, ListSame DEF ScenesAssumption
<1>1. ScenesInit /\ InList => ListP!Init
  BY ListSame DEF ScenesInit
<1>2. [ScenesNext]_sceneVars => (InList' <=> InList) /\ (InList => [ListP!Next]_ListP!vars)
  BY ListSteps DEF ScenesNext, sceneVars, listVars, ListP!vars
<1>3. ListP!Init /\ [][ListP!Next]_ListP!vars => []ListP!TypeOK
  BY <1>0, ListP!ListInvariant, ListPromised, PTL DEF ListP!Spec
<1>4. ListP!Init /\ [][ListP!Next]_ListP!vars => []ListP!RowsCurrent
  BY <1>0, ListP!RowsStayCurrent, PTL DEF ListP!Spec
<1>5. ListP!Init /\ [][ListP!Next]_ListP!vars => []ListP!NodesRecycled
  <2>1. ListP!Spec => []ListP!NodesRecycled
    BY <1>0, ListP!NodesStayFew
  <2> QED
    BY <2>1, PTL DEF ListP!Spec
<1>6. ListP!Init /\ [][ListP!Next]_ListP!vars => []ListP!VisibleBound
  <2>1. ListP!Spec => [](ListP!VisibleBound /\ ListP!NeverThrows)
    BY <1>0, ListP!OverscanCovers
  <2> QED
    BY <2>1, PTL DEF ListP!Spec
<1>7. ListP!Init /\ [][ListP!Next]_ListP!vars => []ListP!NoItemOverwritten
  BY <1>0, ListP!ItemsKept, PTL DEF ListP!Spec
<1>8. (ListP!TypeOK /\ ListP!RowsCurrent /\ ListP!VisibleBound /\ ListP!NodesRecycled
        /\ ListP!NoItemOverwritten) => ListShown
  BY ListPromised DEF ListShown, ListPromises
<1>9. ~InList => ListShown
  BY DEF ListShown
<1> HIDE DEF InList
<1> QED
  BY <1>1, <1>2, <1>3, <1>4, <1>5, <1>6, <1>7, <1>8, <1>9, PTL DEF ScenesSpec

=============================================================================
