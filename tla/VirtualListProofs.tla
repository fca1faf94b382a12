-------------------------- MODULE VirtualListProofs --------------------------
(***************************************************************************)
(* Theorems about VirtualList, for any items, row height, overscan and     *)
(* windows.                                                                *)
(*                                                                         *)
(* They rest on InLine: rows and pool are always the nodes made so far, in *)
(* a line, so that binding and unbinding only move the point where the one *)
(* ends and the other begins.  ScrollInv adds how far an offset may lie    *)
(* past the end between two publishes.                                     *)
(***************************************************************************)
EXTENDS VirtualList, FiniteSetTheorems, TLAPS

-----------------------------------------------------------------------------
(* The list: what a build does to the container. *)

\* Rows and pool are the nodes made so far, in a line, after the probe's node 0.
InLine(v) ==
    /\ \A j \in DOMAIN v.rows : v.rows[j].id = j
    /\ \A i \in DOMAIN v.pool : v.pool[i] = Len(v.rows) + Len(v.pool) - i + 1
    /\ v.itemH \in {0, RowH}
    /\ IF v.itemH = 0 THEN v.nextId = 0 /\ v.rows = <<>> /\ v.pool = <<>>
       ELSE v.nextId = Len(v.rows) + Len(v.pool) + 1

\* The rows of v show consecutive items of the list as it is.
ShowsItems(v) ==
    \A j \in DOMAIN v.rows :
       /\ v.rows[j].index = v.from + j - 1
       /\ v.rows[j].index < Len(items)
       /\ v.rows[j].item = items[v.rows[j].index + 1]

Counted == items \in Seq(Item) /\ count = Len(items)

LEMMA ConcatTyped ==
    ASSUME NEW S, NEW s \in Seq(S), NEW t \in Seq(S)
    PROVE  s \o t \in Seq(S) /\ Len(s \o t) = Len(s) + Len(t)
OBVIOUS

LEMMA EmptySeq ==
    ASSUME NEW S, NEW s \in Seq(S), Len(s) = 0
    PROVE  s = <<>>
OBVIOUS

LEMMA Quotient ==
    ASSUME NEW a \in Nat, NEW b \in Nat \ {0}
    PROVE  a \div b \in Nat
OBVIOUS

LEMMA CeilNat ==
    ASSUME NEW a \in Nat, NEW b \in Nat \ {0}
    PROVE  CeilDiv(a, b) \in Nat
<1>1. a + b - 1 \in Nat
  OBVIOUS
<1>2. QED
  BY <1>1, Quotient DEF CeilDiv

LEMMA ClampNat ==
    ASSUME NEW x \in Int, NEW hi \in Int
    PROVE  Clamp(x, 0, hi) \in Nat
BY DEF Clamp, HighOf, LowOf

LEMMA MaxOffsetNat ==
    ASSUME NEW v \in View, count \in Nat
    PROVE  MaxOffset(v) \in Nat
<1>1. v.itemH \in Nat /\ v.vp \in Nat
  BY DEF View
<1>2. \A a, b \in Nat : a * b \in Nat
  OBVIOUS
<1>3. count * v.itemH \in Nat
  BY <1>1, <1>2
<1> DEFINE c == count * v.itemH
<1>4. c \in Nat
  BY <1>3
<1> HIDE DEF c
<1>5. HighOf(0, c - v.vp) \in Nat
  BY <1>1, <1>4 DEF HighOf
<1>6. QED
  BY <1>5 DEF MaxOffset, c

\* The range in view starts at a row of Nat and ends within the list.
LEMMA RangeBounds ==
    ASSUME ConstantsAssumption, NEW v \in View, count \in Nat
    PROVE  LET range == VisibleRange(v)
           IN  /\ range.from \in Nat /\ range.to \in Nat
               /\ range.to <= count
               /\ v.itemH = 0 => range.from = 0 /\ range.to = 0
<1>1. CASE count = 0 \/ v.itemH = 0
  BY <1>1 DEF VisibleRange
<1>2. CASE ~(count = 0 \/ v.itemH = 0)
  <2> DEFINE lo == v.offset \div v.itemH
             hi == CeilDiv(v.offset + v.vp, v.itemH)
  <2>1. v.offset \in Nat /\ v.vp \in Nat /\ v.itemH \in Nat \ {0} /\ Overscan \in Nat
    BY <1>2 DEF View, ConstantsAssumption
  <2>2. lo \in Nat
    BY <2>1, Quotient
  <2>3. hi \in Nat
    <3>1. v.offset + v.vp \in Nat
      BY <2>1
    <3>2. QED
      BY <2>1, <3>1, CeilNat
  <2>4. VisibleRange(v) = [from |-> HighOf(0, lo - Overscan),
                                to   |-> LowOf(hi + Overscan, count)]
    BY <1>2 DEF VisibleRange
  <2> HIDE DEF lo, hi
  <2>5. QED
    BY <1>2, <2>1, <2>2, <2>3, <2>4 DEF HighOf, LowOf
<1>3. QED
  BY <1>1, <1>2

LEMMA MeasureDoes ==
    ASSUME ConstantsAssumption, NEW v \in View, InLine(v), count \in Nat
    PROVE  LET m == Measure(v)
           IN  /\ m \in View /\ InLine(m)
               /\ m.rows = v.rows /\ m.pool = v.pool /\ m.vp = v.vp /\ m.offset = v.offset
<1> DEFINE m == Measure(v)
<1>1. CASE v.itemH = 0 /\ count > 0
  <2>1. v.nextId = 0 /\ v.rows = <<>> /\ v.pool = <<>>
    BY <1>1 DEF InLine
  <2>2. m = [v EXCEPT !.itemH = RowH, !.nextId = 1]
    <3>1. m = [v EXCEPT !.itemH = RowH, !.nextId = v.nextId + 1]
      BY <1>1 DEF Measure
    <3> HIDE DEF m
    <3>2. v.nextId + 1 = 1
      BY <2>1
    <3>3. QED
      BY <3>1, <3>2
  <2>3. /\ m \in View /\ m.itemH = RowH /\ m.nextId = 1
        /\ m.rows = v.rows /\ m.pool = v.pool /\ m.vp = v.vp /\ m.offset = v.offset
    <3> HIDE DEF m
    <3>1. RowH \in Nat /\ 1 \in Nat
      BY DEF ConstantsAssumption
    <3>2. QED
      BY <2>2, <3>1 DEF View
  <2> HIDE DEF m
  <2>4. InLine(m)
    BY <2>1, <2>3 DEF InLine, ConstantsAssumption
  <2>5. QED
    BY <2>3, <2>4 DEF m
<1>2. CASE ~(v.itemH = 0 /\ count > 0)
  BY <1>2 DEF Measure
<1>3. QED
  BY <1>1, <1>2

LEMMA UnbindDoes ==
    ASSUME NEW v \in View, InLine(v)
    PROVE  LET u == Unbind(v)
           IN  /\ u \in View /\ InLine(u)
               /\ u = [v EXCEPT !.rows = <<>>, !.pool = u.pool]
               /\ Len(u.pool) = Len(v.rows) + Len(v.pool)
<1> DEFINE ids == [j \in 1..Len(v.rows) |-> v.rows[j].id]
           u == Unbind(v)
<1>1. /\ v.rows \in Seq(Row) /\ v.pool \in Seq(Nat) /\ Len(v.rows) \in Nat
      /\ \A j \in DOMAIN v.rows : v.rows[j] \in Row
  BY DEF View
<1>2. ids \in Seq(Nat) /\ Len(ids) = Len(v.rows)
  BY <1>1 DEF Row
<1>3. /\ Reverse(ids) \in Seq(Nat) /\ Len(Reverse(ids)) = Len(v.rows)
      /\ \A i \in 1..Len(v.rows) : Reverse(ids)[i] = Len(v.rows) - i + 1
  <2> DEFINE r == [i \in 1..Len(ids) |-> ids[(Len(ids) - i) + 1]]
  <2>1. Reverse(ids) = r
    BY DEF Reverse
  <2>2. \A i \in 1..Len(v.rows) : ids[(Len(ids) - i) + 1] = Len(v.rows) - i + 1
    BY <1>1, <1>2 DEF InLine
  <2> DEFINE n == Len(v.rows)
  <2>3. n \in Nat /\ Len(ids) = n /\ \A i \in 1..n : r[i] = n - i + 1
    BY <1>1, <1>2, <2>2
  <2> HIDE DEF n, ids
  <2>4. r = [i \in 1..n |-> n - i + 1]
    BY <2>3
  <2> HIDE DEF r
  <2>5. r \in Seq(Nat) /\ Len(r) = n
    BY <2>3, <2>4
  <2>6. QED
    BY <2>1, <2>3, <2>5 DEF n
<1> HIDE DEF ids
<1>4. PICK pool \in Seq(Nat) :
         /\ pool = v.pool \o Reverse(ids)
         /\ Len(pool) = Len(v.rows) + Len(v.pool)
         /\ \A i \in 1..Len(pool) : pool[i] = Len(pool) - i + 1
  <2> DEFINE p == v.pool
             r == Reverse(ids)
             k == Len(p)
             n == Len(v.rows)
  <2>1. /\ p \in Seq(Nat) /\ r \in Seq(Nat) /\ Len(r) = n /\ k \in Nat /\ n \in Nat
        /\ \A i \in 1..n : r[i] = n - i + 1
        /\ \A i \in 1..k : p[i] = n + k - i + 1
    <3>1. p \in Seq(Nat) /\ k \in Nat /\ n \in Nat /\ DOMAIN p = 1..k
      BY <1>1
    <3>2. \A i \in DOMAIN p : p[i] = n + k - i + 1
      BY DEF InLine
    <3>3. r \in Seq(Nat) /\ Len(r) = n /\ \A i \in 1..n : r[i] = n - i + 1
      BY <1>3
    <3> HIDE DEF p, r, n
    <3>4. QED
      BY <3>1, <3>2, <3>3
  <2> HIDE DEF p, r, n
  <2>2. p \o r \in Seq(Nat) /\ Len(p \o r) = k + n
    BY <2>1, ConcatTyped
  <2>3. \A i \in 1..(k + n) : (p \o r)[i] = k + n - i + 1
    <3>1. ASSUME NEW i \in 1..(k + n) PROVE (p \o r)[i] = k + n - i + 1
      <4>1. CASE i <= k
        BY <2>1, <4>1
      <4>2. CASE i > k
        <5>1. i - k \in 1..n /\ (p \o r)[i] = r[i - k]
          BY <2>1, <4>2
        <5>2. QED
          BY <2>1, <5>1
      <4>3. QED
        BY <2>1, <4>1, <4>2
    <3>2. QED
      BY <3>1
  <2>4. p \o r = v.pool \o Reverse(ids) /\ n = Len(v.rows) /\ k = Len(v.pool)
    BY DEF p, r, n
  <2> HIDE DEF k
  <2>5. \A i \in 1..Len(p \o r) : (p \o r)[i] = Len(p \o r) - i + 1
    <3> DEFINE pr == p \o r
    <3>1. /\ k \in Nat /\ n \in Nat /\ Len(pr) = k + n
          /\ \A i \in 1..(k + n) : pr[i] = k + n - i + 1
      BY <2>1, <2>2, <2>3
    <3> HIDE DEF pr
    <3>2. \A i \in 1..Len(pr) : pr[i] = Len(pr) - i + 1
      BY <3>1
    <3>3. QED
      BY <3>2 DEF pr
  <2>6. Len(p \o r) = n + k
    BY <2>1, <2>2
  <2>7. QED
    BY <2>2, <2>4, <2>5, <2>6
<1>5. u = [v EXCEPT !.rows = <<>>, !.pool = pool]
  BY <1>4 DEF Unbind, ids
<1> HIDE DEF u, ids
<1>6. /\ u \in View /\ u.pool = pool /\ u.rows = <<>>
      /\ u.itemH = v.itemH /\ u.nextId = v.nextId
  <2>1. <<>> \in Seq(Row)
    OBVIOUS
  <2>2. QED
    BY <1>4, <1>5, <2>1 DEF View
<1>7. /\ Len(u.rows) = 0 /\ u.pool \in Seq(Nat) /\ u.rows \in Seq(Row)
      /\ Len(u.pool) = Len(v.rows) + Len(v.pool)
      /\ DOMAIN u.pool = 1..Len(u.pool) /\ DOMAIN u.rows = {}
  <2>1. DOMAIN pool = 1..Len(pool) /\ Len(u.rows) = 0 /\ DOMAIN u.rows = {}
    BY <1>6
  <2>2. Len(pool) = Len(v.rows) + Len(v.pool)
    BY <1>4
  <2>3. u.pool = pool
    BY <1>6
  <2>4. QED
    BY <1>1, <1>6, <2>1, <2>2, <2>3 DEF View
<1>8. InLine(u)
  <2>1. \A i \in DOMAIN u.pool : u.pool[i] = Len(u.rows) + Len(u.pool) - i + 1
    <3>1. \A i \in 1..Len(u.pool) : u.pool[i] = Len(u.pool) - i + 1
      BY <1>4, <1>6
    <3> DEFINE n == Len(u.pool)
    <3>2. n \in Nat /\ DOMAIN u.pool = 1..n
      <4>1. u.pool \in Seq(Nat)
        BY <1>7
      <4>2. QED
        BY <4>1
    <3>3. \A i \in 1..n : u.pool[i] = n - i + 1
      BY <3>1
    <3> HIDE DEF n
    <3>4. \A i \in DOMAIN u.pool : u.pool[i] = 0 + n - i + 1
      BY <3>2, <3>3
    <3>5. QED
      BY <1>7, <3>4 DEF n
  <2>2. CASE u.itemH = 0
    <3>1. Len(v.rows) = 0 /\ Len(v.pool) = 0 /\ v.nextId = 0
      BY <1>6, <2>2 DEF InLine
    <3>2. u.pool = <<>>
      BY <1>6, <1>7, <3>1, EmptySeq
    <3>3. QED
      BY <1>6, <1>7, <2>1, <2>2, <3>1, <3>2 DEF InLine
  <2>3. CASE u.itemH # 0
    <3>1. u.itemH = RowH /\ u.nextId = Len(v.rows) + Len(v.pool) + 1
      BY <1>6, <2>3 DEF InLine
    <3>2. u.nextId = Len(u.rows) + Len(u.pool) + 1
      BY <1>1, <1>7, <3>1
    <3>3. QED
      BY <1>7, <2>1, <2>3, <3>1, <3>2 DEF InLine
  <2>4. QED
    BY <2>2, <2>3
<1>9. QED
  BY <1>5, <1>6, <1>7, <1>8 DEF u

LEMMA PrefixDoes ==
    ASSUME NEW S, NEW s \in Seq(S), NEW n \in 0..Len(s)
    PROVE  /\ SubSeq(s, 1, n) \in Seq(S) /\ Len(SubSeq(s, 1, n)) = n
           /\ \A i \in 1..n : SubSeq(s, 1, n)[i] = s[i] /\ i \in 1..Len(s)
OBVIOUS

LEMMA BindDoes ==
    ASSUME NEW v \in View, InLine(v), v.rows = <<>>, Counted,
           NEW range, range.from \in Nat, range.to \in Nat,
           range.from <= range.to, range.to <= count,
           v.itemH = 0 => range.from = range.to
    PROVE  LET u == Bind(v, range)
           IN  /\ u \in View /\ InLine(u) /\ ShowsItems(u)
               /\ u.vp = v.vp /\ u.offset = v.offset /\ u.itemH = v.itemH
               /\ u.from = range.from /\ Len(u.rows) = range.to - range.from
               /\ \A n \in Nat : Len(v.pool) <= n /\ range.to - range.from <= n
                                 => Len(u.rows) + Len(u.pool) <= n
<1> DEFINE size == range.to - range.from
           kept == Len(v.pool)
           NodeOf(j) == IF j <= kept THEN v.pool[kept - j + 1] ELSE v.nextId + j - kept - 1
           RowOf(j) == [id |-> NodeOf(j), index |-> range.from + j - 1,
                        item |-> items[range.from + j]]
           rows == [j \in 1..size |-> RowOf(j)]
           pool == SubSeq(v.pool, 1, kept - LowOf(kept, size))
           next == v.nextId + HighOf(0, size - kept)
           u == Bind(v, range)
<1>1. /\ v.pool \in Seq(Nat) /\ kept \in Nat /\ size \in Nat /\ v.nextId \in Nat
      /\ \A i \in 1..kept : v.pool[i] = kept - i + 1
      /\ v.itemH = 0 => size = 0 /\ kept = 0 /\ v.nextId = 0
      /\ v.itemH # 0 => v.nextId = kept + 1
  <2>1. v.pool \in Seq(Nat) /\ kept \in Nat /\ v.nextId \in Nat /\ Len(v.rows) = 0
    BY DEF View
  <2>2. size \in Nat
    OBVIOUS
  <2> HIDE DEF size
  <2>3. \A i \in 1..kept : v.pool[i] = kept - i + 1
    BY <2>1 DEF InLine
  <2>4. /\ v.itemH = 0 => kept = 0 /\ v.nextId = 0
        /\ v.itemH # 0 => v.nextId = kept + 1
    BY <2>1 DEF InLine
  <2>5. v.itemH = 0 => size = 0
    BY DEF size
  <2>6. QED
    BY <2>1, <2>2, <2>3, <2>4, <2>5
<1>2. \A j \in 1..size : NodeOf(j) = j
  <2> HIDE DEF size, kept
  <2>1. ASSUME NEW j \in 1..size PROVE NodeOf(j) = j
    <3>1. CASE j <= kept
      <4>1. kept - j + 1 \in 1..kept
        BY <1>1, <3>1
      <4>2. QED
        BY <1>1, <3>1, <4>1
    <3>2. CASE j > kept
      <4>1. v.nextId = kept + 1
        BY <1>1, <3>2
      <4>2. QED
        BY <1>1, <3>2, <4>1
    <3>3. QED
      BY <1>1, <3>1, <3>2
  <2>2. QED
    BY <2>1
<1>3. \A j \in 1..size : range.from + j \in 1..Len(items) /\ items[range.from + j] \in Item
  BY DEF Counted
<1>4. u = [v EXCEPT !.rows = rows, !.pool = pool, !.nextId = next,
                    !.from = range.from, !.to = range.to]
  BY DEF Bind
<1>5. \A j \in 1..size : /\ rows[j] \in Row
                         /\ rows[j].id = j
                         /\ rows[j].index = range.from + j - 1
                         /\ rows[j].item = items[range.from + j]
  <2>1. ASSUME NEW j \in 1..size
        PROVE  /\ RowOf(j) \in Row /\ RowOf(j).id = j
               /\ RowOf(j).index = range.from + j - 1
               /\ RowOf(j).item = items[range.from + j]
    <3>1. NodeOf(j) = j
      BY <1>2
    <3> HIDE DEF NodeOf
    <3>2. j \in Nat /\ range.from + j - 1 \in Nat
      OBVIOUS
    <3>3. items[range.from + j] \in Item
      BY <1>3
    <3>4. QED
      BY <3>1, <3>2, <3>3 DEF Row
  <2>2. \A j \in 1..size : rows[j] = RowOf(j)
    OBVIOUS
  <2> HIDE DEF rows, RowOf
  <2>3. QED
    BY <2>1, <2>2
<1>6. rows \in Seq(Row) /\ Len(rows) = size
  <2> HIDE DEF RowOf
  <2>1. \A j \in 1..size : RowOf(j) \in Row
    BY <1>5
  <2> HIDE DEF size
  <2>2. size \in Nat
    BY <1>1
  <2>3. QED
    BY <2>1, <2>2
<1>7. /\ pool \in Seq(Nat)
      /\ Len(pool) = IF kept <= size THEN 0 ELSE kept - size
      /\ \A i \in 1..Len(pool) : pool[i] = kept - i + 1
  <2> DEFINE left == IF kept <= size THEN 0 ELSE kept - size
  <2>1. kept - LowOf(kept, size) = left
    BY <1>1 DEF LowOf
  <2> HIDE DEF size, kept
  <2>2. left \in 0..kept
    BY <1>1
  <2>3. pool = SubSeq(v.pool, 1, left)
    BY <2>1
  <2> HIDE DEF left, pool
  <2>4. /\ pool \in Seq(Nat) /\ Len(pool) = left
        /\ \A i \in 1..left : pool[i] = v.pool[i] /\ i \in 1..kept
    <3>1. v.pool \in Seq(Nat) /\ left \in 0..Len(v.pool)
      BY <1>1, <2>2 DEF kept
    <3>2. QED
      BY <2>3, <3>1, PrefixDoes DEF kept
  <2>5. QED
    BY <1>1, <2>4 DEF left
<1>8. next = IF kept <= size THEN v.nextId + size - kept ELSE v.nextId
  BY <1>1 DEF HighOf
<1> HIDE DEF rows, pool, next, u, kept, size
<1>9. /\ u \in View
      /\ u.rows = rows /\ u.pool = pool /\ u.nextId = next /\ u.from = range.from
      /\ u.itemH = v.itemH /\ u.vp = v.vp /\ u.offset = v.offset
  <2>1. next \in Nat
    BY <1>1, <1>8
  <2>2. QED
    BY <1>4, <1>6, <1>7, <2>1 DEF View
<1>10. InLine(u)
  <2>1. \A j \in DOMAIN u.rows : u.rows[j].id = j
    BY <1>5, <1>6, <1>9
  <2>2. \A i \in DOMAIN u.pool : u.pool[i] = Len(u.rows) + Len(u.pool) - i + 1
    BY <1>1, <1>6, <1>7, <1>9
  <2>3. u.itemH \in {0, RowH}
    BY <1>9 DEF InLine
  <2>4. u.itemH = 0 => u.nextId = 0 /\ u.rows = <<>> /\ u.pool = <<>>
    BY <1>1, <1>6, <1>7, <1>8, <1>9
  <2>5. u.itemH # 0 => u.nextId = Len(u.rows) + Len(u.pool) + 1
    <3>1. v.itemH # 0 => next = size + Len(pool) + 1
      BY <1>1, <1>7, <1>8
    <3>2. QED
      BY <1>6, <1>9, <3>1
  <2>6. QED
    BY <2>1, <2>2, <2>3, <2>4, <2>5 DEF InLine
<1>11. ShowsItems(u)
  BY <1>3, <1>5, <1>6, <1>9 DEF ShowsItems
<1>12. Len(u.rows) = size /\ \A n \in Nat : kept <= n /\ size <= n => Len(u.rows) + Len(u.pool) <= n
  BY <1>1, <1>6, <1>7, <1>9
<1>13. QED
  BY <1>9, <1>10, <1>11, <1>12 DEF u, size, kept

LEMMA MaterializeDoes ==
    ASSUME ConstantsAssumption, Counted, NEW v \in View, InLine(v)
    PROVE  LET u == Materialize(v)
               range == VisibleRange(u)
           IN  /\ u \in View /\ InLine(u) /\ ShowsItems(u)
               /\ u.vp = v.vp /\ u.offset = v.offset
               /\ u.itemH = IF v.itemH = 0 /\ count > 0 THEN RowH ELSE v.itemH
               /\ Throws(v) <=> range.from > range.to
               /\ ~Throws(v) => u.from = range.from /\ Len(u.rows) = range.to - range.from
               /\ \A n \in Nat : /\ Len(v.rows) + Len(v.pool) <= n
                                 /\ range.to - range.from <= n
                                 => Len(u.rows) + Len(u.pool) <= n
<1> DEFINE m == Measure(v)
           b == Unbind(m)
           range == VisibleRange(m)
           u == Materialize(v)
<1>1. count \in Nat
  BY DEF Counted
<1>2. /\ m \in View /\ InLine(m) /\ m.vp = v.vp /\ m.offset = v.offset
      /\ m.rows = v.rows /\ m.pool = v.pool
      /\ m.itemH = IF v.itemH = 0 /\ count > 0 THEN RowH ELSE v.itemH
  BY <1>1, MeasureDoes DEF Measure, View
<1>3. /\ range.from \in Nat /\ range.to \in Nat /\ range.to <= count
      /\ m.itemH = 0 => range.from = 0 /\ range.to = 0
  BY <1>1, <1>2, RangeBounds
<1>4. /\ Throws(v) <=> range.from > range.to
      /\ u = IF range.from > range.to THEN b ELSE Bind(b, range)
  BY DEF Materialize, Throws
<1> HIDE DEF m
<1>5. /\ b \in View /\ InLine(b) /\ b.rows = <<>> /\ b.itemH = m.itemH
      /\ b.vp = m.vp /\ b.offset = m.offset /\ Len(b.pool) = Len(v.rows) + Len(v.pool)
      /\ Len(b.rows) = 0 /\ DOMAIN b.rows = {}
  <2>1. /\ b \in View /\ InLine(b) /\ b = [m EXCEPT !.rows = <<>>, !.pool = b.pool]
        /\ Len(b.pool) = Len(m.rows) + Len(m.pool)
    BY <1>2, UnbindDoes
  <2> HIDE DEF b
  <2>2. /\ b.rows = <<>> /\ b.itemH = m.itemH /\ b.vp = m.vp /\ b.offset = m.offset
    BY <1>2, <2>1 DEF View
  <2>3. QED
    BY <1>2, <2>1, <2>2
<1>6. ASSUME NEW w \in View, w.itemH = m.itemH, w.offset = m.offset, w.vp = m.vp
      PROVE  VisibleRange(w) = range
  BY <1>6 DEF VisibleRange
<1> HIDE DEF b, range, u
<1>7. CASE range.from > range.to
  <2>1. u = b
    BY <1>4, <1>7
  <2>2. VisibleRange(u) = range
    BY <1>5, <1>6, <2>1
  <2>3. ShowsItems(b)
    BY <1>5 DEF ShowsItems
  <2>4. /\ b.rows \in Seq(Row) /\ b.pool \in Seq(Nat)
        /\ v.rows \in Seq(Row) /\ v.pool \in Seq(Nat)
    BY <1>5 DEF View
  <2>5. \A n \in Nat : Len(v.rows) + Len(v.pool) <= n => Len(u.rows) + Len(u.pool) <= n
    <3> DEFINE k == Len(b.pool)
    <3>1. k \in Nat /\ k = Len(v.rows) + Len(v.pool) /\ Len(b.rows) = 0
      <4>1. k \in Nat
        BY <2>4
      <4>2. QED
        BY <1>5, <4>1
    <3> HIDE DEF k
    <3>2. Len(b.rows) + k = k
      BY <3>1
    <3>3. Len(u.rows) + Len(u.pool) = Len(v.rows) + Len(v.pool)
      BY <2>1, <3>1, <3>2 DEF k
    <3>4. QED
      BY <3>3
  <2>6. QED
    BY <1>2, <1>4, <1>5, <1>7, <2>1, <2>2, <2>3, <2>5 DEF u
<1>8. CASE ~(range.from > range.to)
  <2>1. range.from <= range.to
    BY <1>3, <1>8
  <2>2. u = Bind(b, range)
    BY <1>4, <1>8
  <2>3. m.itemH = 0 => range.from = range.to
    BY <1>3
  <2>4. /\ u \in View /\ InLine(u) /\ ShowsItems(u)
        /\ u.vp = b.vp /\ u.offset = b.offset /\ u.itemH = b.itemH
        /\ u.from = range.from /\ Len(u.rows) = range.to - range.from
        /\ \A n \in Nat : Len(b.pool) <= n /\ range.to - range.from <= n
                          => Len(u.rows) + Len(u.pool) <= n
    BY <1>3, <1>5, <2>1, <2>2, <2>3, BindDoes
  <2>5. VisibleRange(u) = range
    BY <1>5, <1>6, <2>4
  <2>6. QED
    BY <1>2, <1>4, <1>5, <1>8, <2>4, <2>5 DEF u
<1>9. QED
  BY <1>7, <1>8

LEMMA ArrangeDoes ==
    ASSUME ConstantsAssumption, count \in Nat, winH \in Heights, NEW v \in View
    PROVE  LET u == Arrange(v)
           IN  /\ u \in View
               /\ u = [v EXCEPT !.vp = winH, !.offset = u.offset]
<1> DEFINE w == [v EXCEPT !.vp = winH]
           new == Clamp(w.offset, 0, MaxOffset(w))
           u == Arrange(v)
<1>1. w \in View
  BY DEF View, ConstantsAssumption
<1>2. new \in Nat
  <2>1. w.offset \in Int
    BY DEF View
  <2>2. MaxOffset(w) \in Nat
    BY <1>1, MaxOffsetNat
  <2>3. QED
    BY <2>1, <2>2, ClampNat
<1>3. u = [w EXCEPT !.offset = new]
  BY DEF Arrange
<1> HIDE DEF new, u
<1>4. u \in View /\ u.offset = new
  BY <1>1, <1>2, <1>3 DEF View
<1>5. QED
  BY <1>3, <1>4 DEF u

LEMMA ArrangeKeeps ==
    ASSUME ConstantsAssumption, count \in Nat, winH \in Heights, NEW v \in View,
           InLine(v), ShowsItems(v)
    PROVE  InLine(Arrange(v)) /\ ShowsItems(Arrange(v))
<1> DEFINE u == Arrange(v)
<1>1. u = [v EXCEPT !.vp = winH, !.offset = u.offset]
  BY ArrangeDoes
<1> HIDE DEF u
<1>2. /\ u.rows = v.rows /\ u.pool = v.pool /\ u.nextId = v.nextId /\ u.itemH = v.itemH
      /\ u.from = v.from
  BY <1>1 DEF View
<1>3. InLine(u)
  BY <1>2 DEF InLine
<1>4. ShowsItems(u)
  BY <1>2 DEF ShowsItems
<1>5. QED
  BY <1>3, <1>4 DEF u

\* A build leaves the nodes in a line, and rows that show the items of the list.
LEMMA PublishDoes ==
    ASSUME ConstantsAssumption, TypeOK, Counted, InLine(view), Publish
    PROVE  view' \in View /\ InLine(view') /\ ShowsItems(view')
<1> DEFINE bound == Materialize(view)
           laid  == Arrange(bound)
           again == laid.vp # bound.vp
<1>1. view \in View /\ winH \in Heights /\ count \in Nat
  BY DEF TypeOK
<1>2. view' = IF Throws(view) THEN bound
              ELSE IF again THEN Arrange(Materialize(laid))
              ELSE laid
  BY DEF Publish
<1>3. bound \in View /\ InLine(bound) /\ ShowsItems(bound)
  BY <1>1, MaterializeDoes
<1> HIDE DEF bound, again
<1>4. laid \in View /\ InLine(laid) /\ ShowsItems(laid)
  BY <1>1, <1>3, ArrangeDoes, ArrangeKeeps
<1> DEFINE more == Materialize(laid)
<1> HIDE DEF laid
<1>5. more \in View /\ InLine(more) /\ ShowsItems(more)
  BY <1>4, MaterializeDoes
<1>6. Arrange(more) \in View /\ InLine(Arrange(more)) /\ ShowsItems(Arrange(more))
  <2> HIDE DEF more
  <2>1. QED
    BY <1>1, <1>5, ArrangeDoes, ArrangeKeeps
<1>7. QED
  BY <1>2, <1>3, <1>4, <1>6

\* A row that was bound since the last erasure is bound to its item still.
RowsBound ==
    \A j \in DOMAIN view.rows :
       /\ view.rows[j].index < Len(items)
       /\ items[view.rows[j].index + 1].key = view.rows[j].item.key

ListInv ==
    /\ TypeOK
    /\ Counted
    /\ InLine(view)
    /\ ~dirty => ShowsItems(view)
    /\ ~late /\ batch.erases = 0 => RowsBound
    /\ NoItemOverwritten

LEMMA ListInit ==
    ASSUME ConstantsAssumption, Init
    PROVE  ListInv
<1>1. items = <<>> /\ count = 0 /\ Len(items) = 0 /\ items \in Seq(Item) /\ DOMAIN items = {}
  BY DEF Init
<1>2. view \in View /\ view.itemH = 0 /\ view.nextId = 0
  BY DEF Init, View
<1>3. view.rows = <<>> /\ view.pool = <<>> /\ DOMAIN view.rows = {} /\ DOMAIN view.pool = {}
  BY DEF Init
<1>4. TypeOK
  <2>1. batch = [mutations |-> 0, erases |-> 0] /\ MaxBatch \in Nat /\ MaxErases \in Nat
    BY DEF Init, ConstantsAssumption
  <2>2. batch \in [mutations: 0..MaxBatch, erases: 0..MaxErases]
    BY <2>1
  <2>3. winH \in Heights /\ dirty = TRUE /\ failed = FALSE /\ late = FALSE
    BY DEF Init
  <2>4. QED
    BY <1>1, <1>2, <2>2, <2>3 DEF TypeOK
<1>5. InLine(view)
  BY <1>2, <1>3 DEF InLine
<1>6. QED
  BY <1>1, <1>3, <1>4, <1>5
     DEF ListInv, Counted, ShowsItems, RowsBound, NoItemOverwritten

LEMMA ConcatFirst ==
    ASSUME NEW S, NEW s \in Seq(S), NEW t \in Seq(S), NEW i \in 1..Len(s)
    PROVE  (s \o t)[i] = s[i]
OBVIOUS

LEMMA ConcatSecond ==
    ASSUME NEW S, NEW s \in Seq(S), NEW t \in Seq(S), NEW i \in 1..(Len(s) + Len(t)), i > Len(s)
    PROVE  (s \o t)[i] = t[i - Len(s)]
OBVIOUS

LEMMA Removed ==
    ASSUME NEW S, NEW s \in Seq(S), NEW i \in DOMAIN s
    PROVE  LET r == RemoveAt(s, i)
           IN  /\ r \in Seq(S) /\ Len(r) = Len(s) - 1
               /\ \A j \in DOMAIN r : IF j < i THEN j \in DOMAIN s /\ r[j] = s[j]
                                      ELSE j + 1 \in DOMAIN s /\ r[j] = s[j + 1]
<1> DEFINE a == SubSeq(s, 1, i - 1)
           b == SubSeq(s, i + 1, Len(s))
           n == Len(s)
<1>1. n \in Nat /\ i \in 1..n
  OBVIOUS
<1>2. a \in Seq(S) /\ Len(a) = i - 1 /\ \A j \in 1..(i - 1) : a[j] = s[j]
  <2>1. i - 1 \in 0..n
    BY <1>1
  <2>2. QED
    BY <2>1
<1>3. b \in Seq(S) /\ Len(b) = n - i /\ \A j \in 1..(n - i) : b[j] = s[i + j]
  BY <1>1
<1>4. RemoveAt(s, i) = a \o b
  BY DEF RemoveAt
<1> HIDE DEF a, b
<1>5. a \o b \in Seq(S) /\ Len(a \o b) = n - 1
  BY <1>1, <1>2, <1>3
<1>6. ASSUME NEW j \in 1..(n - 1)
      PROVE  IF j < i THEN (a \o b)[j] = s[j] ELSE (a \o b)[j] = s[j + 1]
  <2>1. CASE j < i
    <3>1. j \in 1..Len(a) /\ j \in 1..(i - 1)
      BY <1>1, <1>2, <2>1
    <3>2. (a \o b)[j] = a[j]
      BY <1>2, <1>3, <3>1, ConcatFirst
    <3>3. QED
      BY <1>2, <2>1, <3>1, <3>2
  <2>2. CASE ~(j < i)
    <3>1. (a \o b)[j] = b[j - (i - 1)] /\ j - (i - 1) \in 1..(n - i)
      <4>1. j \in 1..(Len(a) + Len(b)) /\ j > Len(a)
        BY <1>1, <1>2, <1>3, <2>2
      <4>2. (a \o b)[j] = b[j - Len(a)]
        BY <1>2, <1>3, <4>1, ConcatSecond
      <4>3. QED
        BY <1>1, <1>2, <2>2, <4>2
    <3>2. b[j - (i - 1)] = s[i + (j - (i - 1))]
      BY <1>3, <3>1
    <3>3. i + (j - (i - 1)) = j + 1
      BY <1>1
    <3>4. QED
      BY <2>2, <3>1, <3>2, <3>3
  <2>3. QED
    BY <2>1, <2>2
<1>7. \A j \in DOMAIN (a \o b) :
         IF j < i THEN j \in DOMAIN s /\ (a \o b)[j] = s[j]
         ELSE j + 1 \in DOMAIN s /\ (a \o b)[j] = s[j + 1]
  <2>1. DOMAIN (a \o b) = 1..(n - 1) /\ DOMAIN s = 1..n
    BY <1>1, <1>5
  <2>2. ASSUME NEW j \in 1..(n - 1) PROVE j \in 1..n /\ j + 1 \in 1..n
    BY <1>1, <2>2
  <2> HIDE DEF n
  <2>3. QED
    BY <1>6, <2>1, <2>2
<1>8. QED
  BY <1>4, <1>5, <1>7

LEMMA PublishStep ==
    ASSUME ConstantsAssumption, ListInv, Publish
    PROVE  ListInv'
<1>1. /\ view' \in View /\ InLine(view') /\ ShowsItems(view')
      /\ UNCHANGED <<items, count, winH, late>>
      /\ batch' = [mutations |-> 0, erases |-> 0]
      /\ dirty' \in BOOLEAN /\ failed' \in BOOLEAN
  <2>1. view' \in View /\ InLine(view') /\ ShowsItems(view')
    BY PublishDoes DEF ListInv
  <2>2. /\ UNCHANGED <<items, count, winH, late>>
        /\ batch' = [mutations |-> 0, erases |-> 0]
    BY DEF Publish
  <2>3. dirty' \in BOOLEAN /\ failed' \in BOOLEAN
    BY DEF Publish, Throws
  <2>4. QED
    BY <2>1, <2>2, <2>3
<1>2. TypeOK'
  BY <1>1 DEF ListInv, TypeOK, ConstantsAssumption
<1>3. ShowsItems(view)'
  BY <1>1 DEF ShowsItems
<1>4. RowsBound'
  BY <1>3 DEF ShowsItems, RowsBound
<1>5. InLine(view)' /\ Counted' /\ NoItemOverwritten'
  BY <1>1 DEF ListInv, Counted, NoItemOverwritten
<1>6. QED
  BY <1>2, <1>3, <1>4, <1>5 DEF ListInv

LEMMA BatchGrows ==
    ASSUME ConstantsAssumption, ListInv, NEW n \in Nat, Mutate(n)
    PROVE  /\ batch' \in [mutations: 0..MaxBatch, erases: 0..MaxErases]
           /\ batch'.erases = batch.erases + n /\ batch.erases \in Nat
           /\ n = 0 => batch'.erases = batch.erases
           /\ n > 0 => batch'.erases # 0
           /\ dirty' = TRUE /\ ~late
<1>1. batch \in [mutations: 0..MaxBatch, erases: 0..MaxErases] /\ MaxBatch \in Nat /\ MaxErases \in Nat
  BY DEF ListInv, TypeOK, ConstantsAssumption
<1>2. /\ ~late /\ batch.mutations < MaxBatch /\ batch.erases + n <= MaxErases /\ dirty' = TRUE
      /\ batch' = [mutations |-> batch.mutations + 1, erases |-> batch.erases + n]
  BY DEF Mutate
<1>3. batch.mutations \in 0..MaxBatch /\ batch.erases \in 0..MaxErases
  BY <1>1
<1>4. batch.mutations + 1 \in 0..MaxBatch /\ batch.erases + n \in 0..MaxErases
  BY <1>1, <1>2, <1>3
<1>5. /\ batch' \in [mutations: 0..MaxBatch, erases: 0..MaxErases]
      /\ batch'.erases = batch.erases + n
  BY <1>2, <1>4
<1>6. QED
  BY <1>1, <1>2, <1>3, <1>5

LEMMA RowTyped ==
    ASSUME NEW v \in View, NEW j \in DOMAIN v.rows
    PROVE  v.rows \in Seq(Row) /\ v.rows[j] \in Row
<1>1. v.rows \in Seq(Row)
  BY DEF View
<1>2. QED
  BY <1>1

LEMMA IndexNat ==
    ASSUME NEW v \in View, NEW j \in DOMAIN v.rows
    PROVE  v.rows[j].index \in Nat
BY RowTyped DEF Row

LEMMA PushBackStep ==
    ASSUME ConstantsAssumption, ListInv, NEW k \in Keys, PushBack(k)
    PROVE  ListInv'
<1> DEFINE new == [key |-> k, val |-> 0]
           n == Len(items)
<1>1. /\ items \in Seq(Item) /\ count = n /\ n \in Nat /\ view \in View
      /\ \A i \in DOMAIN items : items[i].key # k
  BY DEF ListInv, Counted, PushBack, TypeOK
<1>2. /\ items' = Append(items, new) /\ new \in Item
      /\ count' = count + 1 /\ UNCHANGED <<view, winH, failed, late>>
  BY DEF PushBack, Item
<1>3. /\ items' \in Seq(Item) /\ Len(items') = n + 1 /\ items'[n + 1] = new
      /\ \A i \in 1..n : items'[i] = items[i]
      /\ DOMAIN items' = 1..(n + 1) /\ DOMAIN items = 1..n
  BY <1>1, <1>2
<1>4. /\ batch' \in [mutations: 0..MaxBatch, erases: 0..MaxErases]
      /\ batch'.erases = batch.erases /\ dirty' = TRUE /\ ~late
  <2>1. 0 \in Nat /\ Mutate(0)
    BY DEF PushBack
  <2>2. QED
    BY <2>1, BatchGrows
<1>5. TypeOK' /\ Counted' /\ InLine(view)'
  <2>1. count' = n + 1 /\ count' \in Nat
    BY <1>1, <1>2
  <2>2. QED
    BY <1>2, <1>3, <1>4, <2>1 DEF ListInv, TypeOK, Counted, InLine
<1>6. batch'.erases = 0 => RowsBound'
  <2>1. SUFFICES ASSUME RowsBound, NEW j \in DOMAIN view.rows
                 PROVE  /\ view.rows[j].index < n + 1
                        /\ items'[view.rows[j].index + 1].key = view.rows[j].item.key
    BY <1>2, <1>3, <1>4 DEF ListInv, RowsBound
  <2>2. view.rows[j].index \in Nat
    BY <1>1, IndexNat
  <2>3. /\ view.rows[j].index < n
        /\ items[view.rows[j].index + 1].key = view.rows[j].item.key
    BY <2>1 DEF RowsBound
  <2>4. QED
    BY <1>1, <1>3, <2>2, <2>3
<1>7. NoItemOverwritten'
  <2>1. \A i, j \in 1..n : items[i].key = items[j].key => i = j
    BY <1>3, <1>4 DEF ListInv, NoItemOverwritten
  <2>2. \A i \in 1..n : items'[i].key # k
    BY <1>1, <1>3
  <2>3. items'[n + 1].key = k
    BY <1>3
  <2>4. \A i, j \in 1..(n + 1) : items'[i].key = items'[j].key => i = j
    BY <1>1, <1>3, <2>1, <2>2, <2>3
  <2>5. QED
    BY <1>3, <2>4 DEF NoItemOverwritten
<1>8. QED
  BY <1>4, <1>5, <1>6, <1>7 DEF ListInv

LEMMA EraseStep ==
    ASSUME ConstantsAssumption, ListInv, NEW i \in DOMAIN items, Erase(i)
    PROVE  ListInv'
<1> DEFINE n == Len(items)
<1>1. /\ items \in Seq(Item) /\ count = n /\ n \in Nat /\ i \in 1..n
      /\ DOMAIN items = 1..n
  BY DEF ListInv, Counted
<1>2. /\ items' = RemoveAt(items, i)
      /\ count' = IF count > 0 THEN count - 1 ELSE count
      /\ UNCHANGED <<view, winH, failed, late>>
  BY DEF Erase
<1>3. /\ items' \in Seq(Item) /\ Len(items') = n - 1
      /\ \A j \in DOMAIN items' : IF j < i THEN j \in DOMAIN items /\ items'[j] = items[j]
                                  ELSE j + 1 \in DOMAIN items /\ items'[j] = items[j + 1]
  BY <1>1, <1>2, Removed
<1>4. /\ batch' \in [mutations: 0..MaxBatch, erases: 0..MaxErases]
      /\ batch'.erases # 0 /\ dirty' = TRUE /\ ~late
  <2>1. 1 \in Nat /\ 1 > 0 /\ Mutate(1)
    BY DEF Erase
  <2>2. QED
    BY <2>1, BatchGrows
<1>5. count' = n - 1 /\ count' \in Nat
  BY <1>1, <1>2
<1>6. TypeOK' /\ Counted' /\ InLine(view)'
  BY <1>2, <1>3, <1>4, <1>5 DEF ListInv, TypeOK, Counted, InLine
<1>7. NoItemOverwritten'
  <2>1. \A a, b \in DOMAIN items : items[a].key = items[b].key => a = b
    BY <1>4 DEF ListInv, NoItemOverwritten
  <2>2. DOMAIN items' \subseteq Nat
    BY <1>3
  <2>3. \A a, b \in DOMAIN items' : items'[a].key = items'[b].key => a = b
    BY <1>1, <1>3, <2>1, <2>2
  <2>4. QED
    BY <2>3 DEF NoItemOverwritten
<1>8. QED
  BY <1>4, <1>6, <1>7 DEF ListInv

\* The value of an item is changed, none moves and none changes its key.
LEMMA ValueStep ==
    ASSUME ListInv, ~late, NEW i \in DOMAIN items, NEW new \in Item,
           new.key = items[i].key, items' = [items EXCEPT ![i] = new]
    PROVE  /\ items' \in Seq(Item) /\ Len(items') = Len(items) /\ DOMAIN items' = DOMAIN items
           /\ \A j \in DOMAIN items : items'[j].key = items[j].key
           /\ NoItemOverwritten'
<1>1. items \in Seq(Item)
  BY DEF ListInv, Counted
<1>2. /\ items' \in Seq(Item) /\ Len(items') = Len(items) /\ DOMAIN items' = DOMAIN items
      /\ \A j \in DOMAIN items : items'[j] = IF j = i THEN new ELSE items[j]
  BY <1>1
<1>3. \A j \in DOMAIN items : items'[j].key = items[j].key
  BY <1>2
<1>4. \A a, b \in DOMAIN items : items[a].key = items[b].key => a = b
  BY DEF ListInv, NoItemOverwritten
<1>5. \A a, b \in DOMAIN items' : items'[a].key = items'[b].key => a = b
  BY <1>2, <1>3, <1>4
<1>6. QED
  BY <1>2, <1>3, <1>5 DEF NoItemOverwritten

LEMMA SetItemStep ==
    ASSUME ConstantsAssumption, ListInv, NEW i \in DOMAIN items, SetItem(i)
    PROVE  ListInv'
<1> DEFINE new == [items[i] EXCEPT !.val = 1 - @]
<1>1. /\ items \in Seq(Item) /\ items[i] \in Item /\ view \in View
  BY DEF ListInv, Counted, TypeOK
<1>2. new \in Item /\ new.key = items[i].key
  BY <1>1 DEF Item
<1>3. /\ items' = [items EXCEPT ![i] = new]
      /\ UNCHANGED <<count, view, winH, failed, late>>
  BY DEF SetItem
<1> HIDE DEF new
<1>4. /\ batch' \in [mutations: 0..MaxBatch, erases: 0..MaxErases]
      /\ batch'.erases = batch.erases /\ dirty' = TRUE /\ ~late
  <2>1. 0 \in Nat /\ Mutate(0)
    BY DEF SetItem
  <2>2. QED
    BY <2>1, BatchGrows
<1>5. /\ items' \in Seq(Item) /\ Len(items') = Len(items)
      /\ \A j \in DOMAIN items : items'[j].key = items[j].key
      /\ NoItemOverwritten'
  BY <1>2, <1>3, <1>4, ValueStep
<1>6. TypeOK' /\ Counted' /\ InLine(view)'
  BY <1>3, <1>4, <1>5 DEF ListInv, TypeOK, Counted, InLine
<1>7. batch'.erases = 0 => RowsBound'
  <2>1. SUFFICES ASSUME RowsBound, NEW j \in DOMAIN view.rows
                 PROVE  /\ view.rows[j].index < Len(items)
                        /\ items'[view.rows[j].index + 1].key = view.rows[j].item.key
    BY <1>3, <1>4, <1>5 DEF ListInv, RowsBound
  <2>2. view.rows[j].index \in Nat
    BY <1>1, IndexNat
  <2>3. /\ view.rows[j].index < Len(items)
        /\ items[view.rows[j].index + 1].key = view.rows[j].item.key
    BY <2>1 DEF RowsBound
  <2>4. view.rows[j].index + 1 \in DOMAIN items
    BY <1>1, <2>2, <2>3
  <2>5. QED
    BY <1>5, <2>3, <2>4
<1>8. QED
  BY <1>4, <1>5, <1>6, <1>7 DEF ListInv

LEMMA EditRowStep ==
    ASSUME ConstantsAssumption, ListInv, NEW j \in DOMAIN view.rows, EditRow(j)
    PROVE  ListInv'
<1> DEFINE row == view.rows[j]
           new == [row.item EXCEPT !.val = 1 - @]
           rows == [view.rows EXCEPT ![j] = [row EXCEPT !.item = new]]
<1>1. /\ items \in Seq(Item) /\ view \in View /\ row \in Row
      /\ row.index \in Nat /\ row.item \in Item
      /\ view.rows \in Seq(Row)
  <2>1. items \in Seq(Item) /\ view \in View
    BY DEF ListInv, Counted, TypeOK
  <2>2. view.rows \in Seq(Row) /\ row \in Row
    BY <2>1, RowTyped
  <2>3. QED
    BY <2>1, <2>2 DEF Row
<1>2. new \in Item /\ new.key = row.item.key
  BY <1>1 DEF Item
<1>3. /\ view' = [view EXCEPT !.rows = rows]
      /\ items' = IF row.index < Len(items)
                  THEN [items EXCEPT ![row.index + 1] = new] ELSE items
      /\ late' = (late \/ batch.erases > 0)
      /\ UNCHANGED <<count, winH, failed>>
  BY DEF EditRow
<1>4. /\ batch' \in [mutations: 0..MaxBatch, erases: 0..MaxErases]
      /\ batch'.erases = batch.erases /\ batch.erases \in Nat /\ dirty' = TRUE /\ ~late
  <2>1. 0 \in Nat /\ Mutate(0)
    BY DEF EditRow
  <2>2. QED
    BY <2>1, BatchGrows
<1> HIDE DEF new
<1>5. /\ rows \in Seq(Row) /\ Len(rows) = Len(view.rows) /\ DOMAIN rows = DOMAIN view.rows
      /\ \A i \in DOMAIN rows : /\ rows[i].id = view.rows[i].id
                                /\ rows[i].index = view.rows[i].index
                                /\ rows[i].item.key = view.rows[i].item.key
  <2>1. [row EXCEPT !.item = new] \in Row
    BY <1>1, <1>2 DEF Row
  <2>2. \A i \in DOMAIN view.rows : view.rows[i] \in Row
    BY <1>1
  <2>3. /\ rows \in Seq(Row) /\ Len(rows) = Len(view.rows) /\ DOMAIN rows = DOMAIN view.rows
        /\ \A i \in DOMAIN view.rows :
              rows[i] = IF i = j THEN [row EXCEPT !.item = new] ELSE view.rows[i]
    BY <1>1, <2>1
  <2> HIDE DEF rows
  <2>4. QED
    BY <1>1, <1>2, <2>2, <2>3 DEF Row
<1> HIDE DEF rows
<1>6. /\ view' \in View /\ view'.rows = rows /\ view'.pool = view.pool
      /\ view'.itemH = view.itemH /\ view'.nextId = view.nextId
  BY <1>1, <1>3, <1>5 DEF View
<1>7. InLine(view')
  <2>1. Len(view'.rows) = Len(view.rows) /\ (view.rows = <<>> => view'.rows = <<>>)
    BY <1>1, <1>5, <1>6
  <2>2. QED
    BY <1>5, <1>6, <2>1 DEF ListInv, InLine
<1>8. CASE batch.erases > 0
  <2>1. items' \in Seq(Item) /\ Len(items') = Len(items)
    BY <1>1, <1>2, <1>3
  <2>2. late' = TRUE
    BY <1>3, <1>8
  <2>3. TypeOK' /\ Counted' /\ InLine(view)'
    BY <1>3, <1>4, <1>6, <1>7, <2>1, <2>2 DEF ListInv, TypeOK, Counted
  <2>4. QED
    BY <1>4, <2>2, <2>3 DEF ListInv, NoItemOverwritten
<1>9. CASE batch.erases = 0
  <2>1. late' = FALSE /\ RowsBound
    BY <1>3, <1>4, <1>9 DEF ListInv, TypeOK
  <2>2. row.index < Len(items) /\ items[row.index + 1].key = row.item.key
    BY <2>1 DEF RowsBound
  <2>3. row.index + 1 \in DOMAIN items
    BY <1>1, <2>2
  <2>4. /\ items' \in Seq(Item) /\ Len(items') = Len(items) /\ DOMAIN items' = DOMAIN items
        /\ \A i \in DOMAIN items : items'[i].key = items[i].key
        /\ NoItemOverwritten'
    BY <1>2, <1>3, <1>4, <2>2, <2>3, ValueStep
  <2>5. TypeOK' /\ Counted' /\ InLine(view)'
    BY <1>3, <1>4, <1>6, <1>7, <2>1, <2>4 DEF ListInv, TypeOK, Counted
  <2>6. RowsBound'
    <3>1. SUFFICES ASSUME NEW i \in DOMAIN view.rows
                   PROVE  /\ view.rows[i].index < Len(items)
                          /\ items'[view.rows[i].index + 1].key = view.rows[i].item.key
      BY <1>5, <1>6, <2>4 DEF RowsBound
    <3>2. view.rows[i].index \in Nat
      BY <1>1, IndexNat
    <3>3. /\ view.rows[i].index < Len(items)
          /\ items[view.rows[i].index + 1].key = view.rows[i].item.key
      BY <2>1 DEF RowsBound
    <3>4. view.rows[i].index + 1 \in DOMAIN items
      BY <1>1, <3>2, <3>3
    <3>5. QED
      BY <2>4, <3>3, <3>4
  <2>7. QED
    BY <1>4, <2>4, <2>5, <2>6 DEF ListInv
<1>10. QED
  BY <1>4, <1>8, <1>9

\* Moving the offset leaves everything else.
LEMMA ScrollToStep ==
    ASSUME ListInv, NEW offset \in Nat, ScrollTo(offset)
    PROVE  ListInv'
<1>1. /\ view' = [view EXCEPT !.offset = offset] /\ dirty' = TRUE
      /\ UNCHANGED <<items, count, winH, failed, batch, late>> /\ view \in View
  BY DEF ScrollTo, ListInv, TypeOK
<1>2. /\ view' \in View /\ view'.rows = view.rows /\ view'.pool = view.pool
      /\ view'.itemH = view.itemH /\ view'.nextId = view.nextId
  BY <1>1 DEF View
<1>3. TypeOK' /\ Counted' /\ InLine(view)' /\ NoItemOverwritten'
  BY <1>1, <1>2 DEF ListInv, TypeOK, Counted, InLine, NoItemOverwritten
<1>4. RowsBound' <=> RowsBound
  BY <1>1, <1>2 DEF RowsBound
<1>5. QED
  BY <1>1, <1>3, <1>4 DEF ListInv

LEMMA ListScrollStep ==
    ASSUME ConstantsAssumption, ListInv, NEW d \in Deltas, Scroll(d)
    PROVE  ListInv'
<1> DEFINE new == Clamp(view.offset + d, 0, MaxOffset(view))
<1>1. view \in View /\ count \in Nat /\ d \in Int /\ view.offset \in Nat
  BY DEF ListInv, TypeOK, View, ConstantsAssumption
<1>2. new \in Nat
  <2> DEFINE x == view.offset + d
             most == MaxOffset(view)
  <2>1. x \in Int /\ most \in Int
    BY <1>1, MaxOffsetNat
  <2> HIDE DEF x, most
  <2>2. Clamp(x, 0, most) \in Nat
    BY <2>1, ClampNat
  <2>3. QED
    BY <2>2 DEF x, most
<1>3. ScrollTo(new)
  BY DEF Scroll
<1> HIDE DEF new
<1>4. QED
  BY <1>2, <1>3, ScrollToStep

LEMMA RevealStep ==
    ASSUME ConstantsAssumption, ListInv, NEW i \in Int, RevealRow(i)
    PROVE  ListInv'
<1> DEFINE top == i * view.itemH
           bottom == top + view.itemH
           up == Clamp(top, 0, MaxOffset(view))
           down1 == Clamp(bottom - view.vp, 0, MaxOffset(view))
<1>1. view \in View /\ count \in Nat /\ view.itemH \in Nat /\ view.vp \in Nat
  BY DEF ListInv, TypeOK, View
<1>2. top \in Int
  <2>1. \A a, b \in Int : a * b \in Int
    OBVIOUS
  <2>2. QED
    BY <1>1, <2>1
<1>3. ScrollTo(up) \/ ScrollTo(down1)
  BY DEF RevealRow
<1> HIDE DEF top
<1>4. up \in Nat /\ down1 \in Nat
  <2> DEFINE most == MaxOffset(view)
             y == bottom - view.vp
  <2>1. top \in Int /\ y \in Int /\ most \in Int
    BY <1>1, <1>2, MaxOffsetNat
  <2> HIDE DEF y, most, bottom
  <2>2. Clamp(top, 0, most) \in Nat /\ Clamp(y, 0, most) \in Nat
    BY <2>1, ClampNat
  <2>3. QED
    BY <2>2 DEF y, most
<1> HIDE DEF up, down1
<1>5. QED
  BY <1>3, <1>4, ScrollToStep

LEMMA ResizeStep ==
    ASSUME ListInv, NEW h \in Heights, Resize(h)
    PROVE  ListInv'
<1>1. /\ winH' = h /\ dirty' = TRUE
      /\ UNCHANGED <<items, count, view, failed, batch, late>>
  BY DEF Resize
<1>2. TypeOK' /\ Counted' /\ InLine(view)' /\ NoItemOverwritten'
  BY <1>1 DEF ListInv, TypeOK, Counted, InLine, NoItemOverwritten
<1>3. RowsBound' <=> RowsBound
  BY <1>1 DEF RowsBound
<1>4. QED
  BY <1>1, <1>2, <1>3 DEF ListInv

LEMMA ListIdle ==
    ASSUME ListInv, UNCHANGED vars
    PROVE  ListInv'
BY DEF ListInv, TypeOK, Counted, InLine, ShowsItems, RowsBound, NoItemOverwritten,
       vars

LEMMA ListStep ==
    ASSUME ConstantsAssumption, ListInv, [Next]_vars
    PROVE  ListInv'
<1>1. CASE Publish
  BY <1>1, PublishStep
<1>2. ASSUME NEW k \in Keys, PushBack(k) PROVE ListInv'
  BY <1>2, PushBackStep
<1>3. ASSUME NEW i \in DOMAIN items, Erase(i) \/ SetItem(i) \/ RevealRow(i - 1)
      PROVE  ListInv'
  <2>1. i - 1 \in Int
    BY DEF ListInv, Counted
  <2>2. QED
    BY <1>3, <2>1, EraseStep, SetItemStep, RevealStep
<1>4. ASSUME NEW j \in DOMAIN view.rows, EditRow(j) PROVE ListInv'
  BY <1>4, EditRowStep
<1>5. ASSUME NEW d \in Deltas, Scroll(d) PROVE ListInv'
  BY <1>5, ListScrollStep
<1>6. ASSUME NEW h \in Heights, Resize(h) PROVE ListInv'
  BY <1>6, ResizeStep
<1>7. CASE UNCHANGED vars
  BY <1>7, ListIdle DEF vars, vars
<1>8. QED
  BY <1>1, <1>2, <1>3, <1>4, <1>5, <1>6, <1>7 DEF Next

\* The strengthening of what the list promises.
THEOREM ListInvariant ==
    ASSUME ConstantsAssumption
    PROVE  Spec => []ListInv
<1>1. Init => ListInv
  BY ListInit
<1>2. ListInv /\ [Next]_vars => ListInv'
  BY ListStep
<1>3. QED
  BY <1>1, <1>2, PTL DEF Spec

\* The rows of a published list are its items now, in order.  (materialize_virtual_list)
THEOREM RowsStayCurrent ==
    ASSUME ConstantsAssumption
    PROVE  Spec => []RowsCurrent
<1>1. ListInv => RowsCurrent
  BY DEF ListInv, Counted, ShowsItems, RowsCurrent
<1>2. QED
  BY <1>1, ListInvariant, PTL

\* Until an edit follows an erasure, no edit of a row replaces another item.
\* (vlist_handle_edit)
THEOREM ItemsKept ==
    ASSUME ConstantsAssumption
    PROVE  Spec => []NoItemOverwritten
<1>1. ListInv => NoItemOverwritten
  BY DEF ListInv
<1>2. QED
  BY <1>1, ListInvariant, PTL

-----------------------------------------------------------------------------
(* How many nodes a list makes. *)

LEMMA DivBounds ==
    ASSUME NEW a \in Nat, NEW b \in Nat \ {0}
    PROVE  /\ a \div b \in Nat
           /\ (a \div b) * b <= a
           /\ a < ((a \div b) + 1) * b
OBVIOUS

LEMMA Cancel ==
    ASSUME NEW x \in Int, NEW y \in Int, NEW h \in Nat \ {0}, x * h < y * h
    PROVE  x < y
OBVIOUS

LEMMA Times ==
    ASSUME NEW x \in Int, NEW y \in Int, NEW h \in Nat
    PROVE  /\ x * h \in Int
           /\ (x + y) * h = x * h + y * h
           /\ x <= y => x * h <= y * h
OBVIOUS

LEMMA CeilBounds ==
    ASSUME NEW a \in Nat, NEW b \in Nat \ {0}
    PROVE  LET c == CeilDiv(a, b)
           IN  c \in Nat /\ a <= c * b /\ c * b < a + b
<1> DEFINE n == a + b - 1
           c == n \div b
<1>1. n \in Nat
  OBVIOUS
<1>2. c \in Nat /\ c * b <= n /\ n < (c + 1) * b
  BY <1>1, DivBounds
<1> HIDE DEF c
<1>3. c * b \in Int /\ (c + 1) * b = c * b + 1 * b
  BY <1>2, Times
<1> DEFINE cb == c * b
<1>4. cb \in Int /\ cb <= n /\ n < cb + b
  BY <1>2, <1>3
<1> HIDE DEF cb
<1>5. a <= cb /\ cb < a + b
  BY <1>4
<1>6. CeilDiv(a, b) = c
  BY DEF CeilDiv, c
<1>7. QED
  BY <1>2, <1>5, <1>6 DEF cb

\* A range is no longer than the viewport, a partial row at either end, and the overscan.
LEMMA RangeSize ==
    ASSUME ConstantsAssumption, NEW v \in View, count \in Nat,
           v.itemH \in {0, RowH}, NEW n \in Nat, v.vp <= n
    PROVE  LET range == VisibleRange(v)
           IN  range.to - range.from <= CeilDiv(n, RowH) + 1 + 2 * Overscan
<1> DEFINE k == CeilDiv(n, RowH)
<1>1. /\ RowH \in Nat \ {0} /\ Overscan \in Nat /\ v.offset \in Nat /\ v.vp \in Nat
      /\ k \in Nat /\ n <= k * RowH
  BY CeilBounds DEF ConstantsAssumption, View
<1>2. CASE count = 0 \/ v.itemH = 0
  <2>1. VisibleRange(v) = [from |-> 0, to |-> 0]
    BY <1>2 DEF VisibleRange
  <2> HIDE DEF k
  <2>2. 0 - 0 <= k + 1 + 2 * Overscan
    BY <1>1
  <2>3. QED
    BY <2>1, <2>2 DEF k
<1>3. CASE ~(count = 0 \/ v.itemH = 0)
  <2> DEFINE q == v.offset \div RowH
             c == CeilDiv(v.offset + v.vp, RowH)
             lo == HighOf(0, q - Overscan)
             hi == LowOf(c + Overscan, count)
  <2>1. VisibleRange(v) = [from |-> lo, to |-> hi]
    BY <1>3 DEF VisibleRange
  <2>2. q \in Nat /\ v.offset < (q + 1) * RowH
    BY <1>1, DivBounds
  <2>3. c \in Nat /\ c * RowH < v.offset + v.vp + RowH
    <3>1. v.offset + v.vp \in Nat
      BY <1>1
    <3>2. QED
      BY <1>1, <3>1, CeilBounds
  <2> HIDE DEF q, c, k
  <2>4. /\ c * RowH \in Int /\ (q + 1) * RowH \in Int /\ k * RowH \in Int
        /\ (q + 1) * RowH + k * RowH = (q + 1 + k) * RowH
        /\ (q + 1 + k) * RowH + 1 * RowH = (q + 1 + k + 1) * RowH
    <3>1. /\ c \in Int /\ q + 1 \in Int /\ k \in Int /\ q + 1 + k \in Int
          /\ 1 \in Int /\ RowH \in Nat
      BY <1>1, <2>2, <2>3
    <3>2. QED
      BY <3>1, Times
  <2>5. c * RowH < (q + 1 + k + 1) * RowH
    <3> DEFINE x == c * RowH
               y == (q + 1) * RowH
               z == k * RowH
               t == (q + 1 + k + 1) * RowH
    <3>1. /\ x \in Int /\ y \in Int /\ z \in Int /\ t = y + z + RowH
          /\ x < v.offset + v.vp + RowH /\ v.offset < y /\ v.vp <= n /\ n <= z
      BY <1>1, <2>2, <2>3, <2>4
    <3> HIDE DEF x, y, z, t
    <3>2. x < t
      BY <1>1, <3>1
    <3>3. QED
      BY <3>2 DEF x, t
  <2>6. c < q + 1 + k + 1
    <3>1. c \in Int /\ q + 1 + k + 1 \in Int
      BY <1>1, <2>2, <2>3
    <3>2. QED
      BY <1>1, <2>5, <3>1, Cancel
  <2>7. hi - lo <= k + 1 + 2 * Overscan
    BY <1>1, <2>2, <2>3, <2>6 DEF HighOf, LowOf
  <2>8. QED
    BY <2>1, <2>7 DEF k
<1>4. QED
  BY <1>2, <1>3

\* The nodes of a window n high.
NodeBound(n) == CeilDiv(n, RowH) + 1 + 2 * Overscan

\* The container was never higher than n, nor has it made more nodes than that takes.
Fits(v, n) == v.vp <= n /\ Len(v.rows) + Len(v.pool) <= NodeBound(n)

LEMMA MaterializeFits ==
    ASSUME ConstantsAssumption, Counted, NEW v \in View, InLine(v),
           NEW n \in Nat, Fits(v, n)
    PROVE  Fits(Materialize(v), n)
<1> DEFINE u == Materialize(v)
           range == VisibleRange(u)
<1>1. /\ u \in View /\ InLine(u) /\ u.vp = v.vp
      /\ \A m \in Nat : /\ Len(v.rows) + Len(v.pool) <= m
                        /\ range.to - range.from <= m
                        => Len(u.rows) + Len(u.pool) <= m
  BY MaterializeDoes
<1> HIDE DEF u
<1>2. range.to - range.from <= NodeBound(n)
  <2>1. u.itemH \in {0, RowH} /\ u.vp <= n /\ count \in Nat
    BY <1>1 DEF InLine, Fits, Counted
  <2>2. QED
    BY <1>1, <2>1, RangeSize DEF NodeBound
<1>3. NodeBound(n) \in Nat
  <2> DEFINE k == CeilDiv(n, RowH)
  <2>1. k \in Nat /\ Overscan \in Nat
    BY CeilNat DEF ConstantsAssumption
  <2> HIDE DEF k
  <2>2. k + 1 + 2 * Overscan \in Nat
    BY <2>1
  <2>3. QED
    BY <2>2 DEF k, NodeBound
<1>4. QED
  BY <1>1, <1>2, <1>3 DEF Fits, u

LEMMA ArrangeFits ==
    ASSUME ConstantsAssumption, count \in Nat, winH \in Heights, NEW v \in View,
           NEW n \in Nat, winH <= n, Fits(v, n)
    PROVE  Fits(Arrange(v), n)
<1> DEFINE u == Arrange(v)
<1>1. u = [v EXCEPT !.vp = winH, !.offset = u.offset]
  BY ArrangeDoes
<1> HIDE DEF u
<1>2. u.rows = v.rows /\ u.pool = v.pool /\ u.vp = winH
  BY <1>1 DEF View
<1>3. QED
  BY <1>2 DEF Fits, u

LEMMA PublishFits ==
    ASSUME ConstantsAssumption, TypeOK, Counted, InLine(view), Publish,
           NEW n \in Nat, winH <= n, Fits(view, n)
    PROVE  Fits(view', n)
<1> DEFINE bound == Materialize(view)
           laid  == Arrange(bound)
           more  == Materialize(laid)
           again == laid.vp # bound.vp
<1>1. view \in View /\ winH \in Heights /\ count \in Nat
  BY DEF TypeOK
<1>2. view' = IF Throws(view) THEN bound ELSE IF again THEN Arrange(more) ELSE laid
  BY DEF Publish
<1>3. bound \in View /\ InLine(bound) /\ ShowsItems(bound) /\ Fits(bound, n)
  BY <1>1, MaterializeDoes, MaterializeFits
<1> HIDE DEF bound, again
<1>4. laid \in View /\ InLine(laid) /\ Fits(laid, n)
  BY <1>1, <1>3, ArrangeDoes, ArrangeKeeps, ArrangeFits
<1> HIDE DEF laid
<1>5. more \in View /\ Fits(more, n)
  BY <1>4, MaterializeDoes, MaterializeFits
<1> HIDE DEF more
<1>6. Fits(Arrange(more), n)
  BY <1>1, <1>5, ArrangeFits
<1>7. QED
  BY <1>2, <1>3, <1>4, <1>6

\* What is not a publish makes no node and leaves the height of the viewport.
LEMMA OthersFit ==
    ASSUME ListInv, [Next]_vars, ~Publish
    PROVE  /\ view'.vp = view.vp /\ Len(view'.rows) = Len(view.rows) /\ view'.pool = view.pool
           /\ winH' = winH \/ winH' \in Heights
<1>1. view \in View
  BY DEF ListInv, TypeOK
<1>2. ASSUME NEW offset, ScrollTo(offset)
      PROVE  /\ view'.vp = view.vp /\ view'.rows = view.rows /\ view'.pool = view.pool
             /\ winH' = winH
  BY <1>1, <1>2 DEF ScrollTo, View
<1>3. ASSUME NEW j \in DOMAIN view.rows, EditRow(j)
      PROVE  /\ view'.vp = view.vp /\ Len(view'.rows) = Len(view.rows) /\ view'.pool = view.pool
             /\ winH' = winH
  <2> DEFINE new == [view.rows[j].item EXCEPT !.val = 1 - @]
             row == [view.rows[j] EXCEPT !.item = new]
             rows == [view.rows EXCEPT ![j] = row]
  <2>1. view' = [view EXCEPT !.rows = rows] /\ winH' = winH
    BY <1>3 DEF EditRow
  <2> HIDE DEF row
  <2>2. view.rows \in Seq(Row)
    BY <1>1, RowTyped, <1>3
  <2>3. Len(rows) = Len(view.rows)
    BY <2>2
  <2> HIDE DEF rows
  <2>4. view'.rows = rows /\ view'.vp = view.vp /\ view'.pool = view.pool
    BY <1>1, <2>1 DEF View
  <2>5. QED
    BY <2>1, <2>3, <2>4
<1>4. CASE UNCHANGED view
  BY <1>4 DEF Next, Resize, PushBack, Erase, SetItem, EditRow,
              Scroll, RevealRow, ScrollTo, vars
<1>5. QED
  BY <1>2, <1>3, <1>4 DEF Next, PushBack, Erase, SetItem, Scroll,
     RevealRow, Resize, vars

\* The nodes of a list are numbered as they are made, and are at most those of the
\* tallest window, when there is one.  (unbind_row, bind_row)
THEOREM NodesStayFew ==
    ASSUME ConstantsAssumption, NEW tallest \in Heights, \A g \in Heights : g <= tallest
    PROVE  Spec => []NodesRecycled
<1> DEFINE Inv == ListInv /\ Fits(view, tallest)
<1>1. tallest \in Nat /\ RowH \in Nat \ {0} /\ Overscan \in Nat /\ Heights \subseteq Nat
  BY DEF ConstantsAssumption
<1>2. Init => Inv
  <2> SUFFICES ASSUME Init PROVE Fits(view, tallest)
    BY ListInit
  <2> DEFINE k == CeilDiv(tallest, RowH)
  <2>1. k \in Nat
    BY <1>1, CeilNat
  <2> HIDE DEF k
  <2>2. Len(view.rows) + Len(view.pool) = 0 /\ view.vp = 0
    BY DEF Init
  <2>3. 0 <= k + 1 + 2 * Overscan /\ 0 <= tallest
    BY <1>1, <2>1
  <2>4. QED
    BY <2>2, <2>3 DEF k, Fits, NodeBound
<1>3. Inv /\ [Next]_vars => Inv'
  <2> SUFFICES ASSUME Inv, [Next]_vars PROVE Fits(view, tallest)'
    BY ListStep
  <2>1. CASE Publish
    <3>1. winH <= tallest
      BY DEF ListInv, TypeOK
    <3>2. Fits(view', tallest)
      BY <1>1, <2>1, <3>1, PublishFits DEF ListInv
    <3>3. QED
      BY <3>2 DEF Fits, NodeBound
  <2>2. CASE ~Publish
    <3>1. view'.vp = view.vp /\ Len(view'.rows) = Len(view.rows) /\ view'.pool = view.pool
      BY <2>2, OthersFit
    <3>2. QED
      BY <3>1 DEF Fits, NodeBound
  <2>3. QED
    BY <2>1, <2>2
<1>4. Inv => NodesRecycled
  <2> SUFFICES ASSUME Inv PROVE NodesRecycled
    OBVIOUS
  <2> DEFINE ids == [j \in 1..Len(view.rows) |-> view.rows[j].id]
             back == Reverse(view.pool)
             n == Len(view.rows)
             k == Len(view.pool)
  <2>1. /\ view.rows \in Seq(Row) /\ view.pool \in Seq(Nat) /\ InLine(view)
    BY DEF ListInv, TypeOK, View
  <2>2. n \in Nat /\ k \in Nat /\ DOMAIN view.rows = 1..n /\ DOMAIN view.pool = 1..k
    BY <2>1
  <2>3. \A j \in 1..n : view.rows[j].id = j
    BY <2>1, <2>2 DEF InLine
  <2>4. \A i \in 1..k : view.pool[i] = n + k - i + 1
    BY <2>1, <2>2 DEF InLine
  <2>5. back = [i \in 1..k |-> view.pool[(k - i) + 1]]
    BY DEF Reverse
  <2> HIDE DEF n, k, back
  <2>6. ids = [j \in 1..n |-> j]
    BY <2>3 DEF n
  <2>7. back = [i \in 1..k |-> n + i]
    <3>1. \A i \in 1..k : (k - i) + 1 \in 1..k /\ n + k - ((k - i) + 1) + 1 = n + i
      BY <2>2
    <3>2. \A i \in 1..k : view.pool[(k - i) + 1] = n + i
      BY <2>4, <3>1
    <3>3. QED
      BY <2>5, <3>2
  <2> HIDE DEF ids
  <2>8. ids \in Seq(Nat) /\ back \in Seq(Nat) /\ Len(ids) = n /\ Len(back) = k
    BY <2>2, <2>6, <2>7
  <2> DEFINE order == ids \o back
  <2>9. /\ Len(order) = n + k
        /\ \A j \in 1..(n + k) : order[j] = j
    <3>1. Len(order) = n + k
      BY <2>8
    <3>2. ASSUME NEW j \in 1..(n + k) PROVE order[j] = j
      <4>1. CASE j <= n
        BY <2>2, <2>6, <2>8, <4>1
      <4>2. CASE ~(j <= n)
        <5>1. j - n \in 1..k /\ n + (j - n) = j /\ j > n
          BY <2>2, <4>2
        <5>2. order[j] = back[j - n]
          BY <2>2, <2>8, <5>1, ConcatSecond
        <5>3. QED
          BY <2>2, <2>7, <5>1, <5>2
      <4>3. QED
        BY <4>1, <4>2
    <3>3. QED
      BY <3>1, <3>2
  <2>10. order = [j \in 1..Len(order) |-> j]
    <3>1. order \in Seq(Nat)
      BY <2>8
    <3>2. \A j \in 1..Len(order) : order[j] = j
      BY <2>9
    <3> HIDE DEF order
    <3>3. order = [j \in 1..Len(order) |-> order[j]]
      BY <3>1
    <3>4. QED
      BY <3>2, <3>3
  <2>11. (CHOOSE h \in Heights : \A g \in Heights : g <= h) = tallest
    <3> DEFINE t == CHOOSE h \in Heights : \A g \in Heights : g <= h
    <3>1. t \in Heights /\ \A g \in Heights : g <= t
      OBVIOUS
    <3> HIDE DEF t
    <3>2. t = tallest
      BY <1>1, <3>1
    <3>3. QED
      BY <3>2 DEF t
  <2>12. Len(order) <= CeilDiv(tallest, RowH) + 1 + 2 * Overscan
    BY <2>9 DEF Fits, NodeBound, n, k
  <2>13. QED
    BY <2>10, <2>11, <2>12 DEF NodesRecycled, ids, back
<1>5. QED
  BY <1>2, <1>3, <1>4, PTL DEF Spec

-----------------------------------------------------------------------------
(* What the overscan covers. *)

\* The largest offset of a list of n rows.
Reach(v, n) == HighOf(0, n * v.itemH - v.vp)

\* Each item that intersects the viewport has a row.
InView(v) ==
    \A i \in DOMAIN items :
       (i * v.itemH > v.offset /\ (i - 1) * v.itemH < v.offset + v.vp)
       => \E j \in DOMAIN v.rows : v.rows[j].index = i - 1

\* No offset is further past the end than the rows erased since the last publish.
ScrollInv ==
    /\ ListInv
    /\ view.offset <= Reach(view, count + batch.erases)
    /\ ~failed
    /\ ~dirty => InView(view)

\* Rows are numbered by quotients: the order of two of them is that of the offsets.
LEMMA QuotientBelow ==
    ASSUME NEW h \in Nat \ {0}, NEW a \in Nat, NEW x \in Int, a < x * h
    PROVE  a \div h \in Nat /\ a \div h < x
<1>1. a \div h \in Nat /\ (a \div h) * h <= a
  BY DivBounds
<1> DEFINE q == a \div h
<1> HIDE DEF q
<1>2. q * h \in Int /\ x * h \in Int /\ q \in Nat /\ q * h <= a
  BY <1>1, Times DEF q
<1>3. q * h < x * h
  BY <1>2
<1>4. q < x
  BY <1>2, <1>3, Cancel
<1>5. QED
  BY <1>1, <1>4 DEF q

\* An offset that erasures alone left past the end is covered by the overscan.
LEMMA NoThrow ==
    ASSUME ConstantsAssumption, NEW v \in View, InLine(v), count \in Nat,
           NEW e \in 0..Overscan, v.offset <= Reach(v, count + e)
    PROVE  ~Throws(v)
<1> DEFINE m == Measure(v)
           range == VisibleRange(m)
<1>1. /\ RowH \in Nat \ {0} /\ Overscan \in Nat /\ v.offset \in Nat /\ v.vp \in Nat
      /\ v.itemH \in {0, RowH}
  BY DEF ConstantsAssumption, View, InLine
<1>2. /\ m \in View /\ m.vp = v.vp /\ m.offset = v.offset
      /\ m.itemH = IF v.itemH = 0 /\ count > 0 THEN RowH ELSE v.itemH
  BY MeasureDoes DEF Measure, View
<1> HIDE DEF m
<1>3. CASE count = 0
  <2>1. range = [from |-> 0, to |-> 0]
    BY <1>3 DEF VisibleRange
  <2> HIDE DEF range
  <2>2. ~(range.from > range.to)
    BY <2>1
  <2>3. QED
    BY <2>2 DEF Throws, m, range
<1>4. CASE count # 0
  <2> DEFINE q == v.offset \div RowH
             c == CeilDiv(v.offset + v.vp, RowH)
             n == count + e
  <2>1. m.itemH = RowH
    BY <1>1, <1>2, <1>4
  <2>2. range = [from |-> HighOf(0, q - Overscan), to |-> LowOf(c + Overscan, count)]
    BY <1>1, <1>2, <1>4, <2>1 DEF VisibleRange
  <2>3. q \in Nat /\ q < n + 1
    <3>1. /\ n \in Nat /\ n + 1 \in Int /\ n * RowH \in Int /\ n * RowH >= 0
          /\ (n + 1) * RowH = n * RowH + 1 * RowH
      <4>1. n \in Int /\ 0 \in Int /\ 1 \in Int /\ 0 <= n
        BY <1>1
      <4>2. 0 * RowH = 0
        BY <1>1
      <4>3. n * RowH \in Int /\ 0 * RowH <= n * RowH /\ (n + 1) * RowH = n * RowH + 1 * RowH
        BY <1>1, <4>1, Times
      <4>4. QED
        BY <1>1, <4>2, <4>3
    <3> DEFINE nh == n * RowH
    <3>2. v.offset <= nh
      <4>1. CASE v.itemH = 0
        <5>1. n * v.itemH = 0
          BY <3>1, <4>1
        <5>2. v.offset <= 0
          BY <1>1, <5>1 DEF Reach, HighOf
        <5>3. QED
          BY <1>1, <3>1, <5>2
      <4>2. CASE v.itemH = RowH
        <5>1. v.offset <= HighOf(0, nh - v.vp)
          BY <4>2 DEF Reach
        <5>2. nh \in Int /\ nh >= 0
          BY <3>1
        <5> HIDE DEF nh
        <5>3. QED
          BY <1>1, <5>1, <5>2 DEF HighOf
      <4>3. QED
        BY <1>1, <4>1, <4>2
    <3>3. v.offset < (n + 1) * RowH
      <4>1. nh \in Int /\ (n + 1) * RowH = nh + RowH
        BY <1>1, <3>1
      <4> HIDE DEF nh
      <4>2. QED
        BY <1>1, <3>2, <4>1
    <3>4. QED
      BY <1>1, <3>1, <3>3, QuotientBelow
  <2>4. c \in Nat /\ q <= c
    <3>1. v.offset + v.vp \in Nat
      BY <1>1
    <3>2. c \in Nat /\ v.offset + v.vp <= c * RowH
      BY <1>1, <3>1, CeilBounds
    <3> HIDE DEF c
    <3>3. c * RowH \in Int /\ (c + 1) * RowH = c * RowH + 1 * RowH
      BY <1>1, <3>2, Times
    <3> DEFINE ch == c * RowH
    <3>4. ch \in Int /\ v.offset + v.vp <= ch /\ (c + 1) * RowH = ch + RowH
      BY <1>1, <3>2, <3>3
    <3> HIDE DEF ch
    <3>5. v.offset < (c + 1) * RowH
      BY <1>1, <3>4
    <3>6. q < c + 1
      <4>1. c + 1 \in Int
        BY <3>2
      <4>2. QED
        BY <1>1, <3>5, <4>1, QuotientBelow
    <3>7. QED
      BY <2>3, <3>2, <3>6
  <2> HIDE DEF q, c, range
  <2>5. range.from <= range.to
    BY <1>1, <2>2, <2>3, <2>4 DEF HighOf, LowOf
  <2>6. ~(range.from > range.to)
    BY <1>1, <2>2, <2>3, <2>4, <2>5 DEF HighOf, LowOf
  <2>7. QED
    BY <2>6 DEF Throws, m, range
<1>5. QED
  BY <1>3, <1>4

\* Laying out moves the offset back to the end, at most.
LEMMA ArrangeOffset ==
    ASSUME ConstantsAssumption, count \in Nat, winH \in Heights, NEW v \in View
    PROVE  LET u == Arrange(v)
           IN  /\ u.offset \in Nat /\ u.offset <= v.offset
               /\ u.offset <= Reach(u, count)
               /\ u.offset = v.offset \/ u.offset = Reach(u, count)
<1> DEFINE w == [v EXCEPT !.vp = winH]
           most == MaxOffset(w)
           u == Arrange(v)
<1>1. w \in View
  BY DEF View, ConstantsAssumption
<1>2. most \in Nat /\ w.offset \in Nat /\ w.offset = v.offset
  BY <1>1, MaxOffsetNat DEF View
<1>3. u = [w EXCEPT !.offset = Clamp(w.offset, 0, most)]
  BY DEF Arrange
<1>4. u.offset = Clamp(w.offset, 0, most) /\ u.itemH = w.itemH /\ u.vp = w.vp
  BY <1>1, <1>3 DEF View
<1>5. most = Reach(u, count)
  BY <1>4 DEF MaxOffset, Reach
<1> HIDE DEF most, u, w
<1>6. QED
  BY <1>2, <1>4, <1>5 DEF Clamp, HighOf, LowOf, u

\* Rows bound at an offset that the layout then moves back by e rows at most, e being
\* no more than the overscan, are those in view.
LEMMA BoundInView ==
    ASSUME ConstantsAssumption, Counted, NEW u \in View, ShowsItems(u),
           count > 0 => u.itemH = RowH,
           VisibleRange(u).from <= VisibleRange(u).to,
           u.from = VisibleRange(u).from,
           Len(u.rows) = VisibleRange(u).to - VisibleRange(u).from,
           NEW w \in View, w.rows = u.rows, w.itemH = u.itemH, w.vp = u.vp,
           NEW e \in 0..Overscan, w.offset <= u.offset, u.offset <= w.offset + e * RowH
    PROVE  InView(w)
<1> SUFFICES ASSUME NEW i \in DOMAIN items,
                    i * w.itemH > w.offset, (i - 1) * w.itemH < w.offset + w.vp
             PROVE  \E j \in DOMAIN w.rows : w.rows[j].index = i - 1
  BY DEF InView
<1> DEFINE q == u.offset \div RowH
           c == CeilDiv(u.offset + u.vp, RowH)
<1>1. /\ RowH \in Nat \ {0} /\ Overscan \in Nat /\ u.offset \in Nat /\ u.vp \in Nat
      /\ w.offset \in Nat /\ u.rows \in Seq(Row) /\ e \in Nat
  BY DEF ConstantsAssumption, View
<1>2. i \in 1..count /\ count \in Nat /\ count # 0 /\ u.itemH = RowH
  BY DEF Counted
<1>3. VisibleRange(u) = [from |-> HighOf(0, q - Overscan),
                              to   |-> LowOf(c + Overscan, count)]
  BY <1>1, <1>2 DEF VisibleRange
<1>4. q \in Nat /\ q < i + e
  <2>1. /\ i * RowH \in Int /\ e * RowH \in Int /\ (i + e) * RowH = i * RowH + e * RowH
    BY <1>1, <1>2, Times
  <2> DEFINE ih == i * RowH
             eh == e * RowH
             sum == (i + e) * RowH
  <2>2. ih \in Int /\ eh \in Int /\ w.offset < ih /\ u.offset <= w.offset + eh
    BY <1>1, <1>2, <2>1
  <2>3. sum = ih + eh
    BY <2>1
  <2>4. i + e \in Int
    BY <1>1, <1>2
  <2> HIDE DEF ih, eh, sum
  <2>5. u.offset < sum
    <3>1. u.offset \in Nat /\ w.offset \in Nat
      BY <1>1
    <3>2. QED
      BY <2>2, <2>3, <3>1
  <2>6. QED
    BY <1>1, <2>4, <2>5, QuotientBelow DEF sum
<1>5. c \in Nat /\ i - 1 < c
  <2>1. u.offset + u.vp \in Nat
    BY <1>1
  <2>2. c \in Nat /\ u.offset + u.vp <= c * RowH
    BY <1>1, <2>1, CeilBounds
  <2> HIDE DEF c
  <2>3. c * RowH \in Int /\ (i - 1) * RowH \in Int /\ i - 1 \in Int
    <3>1. c \in Int /\ i - 1 \in Int /\ RowH \in Nat
      BY <1>1, <1>2, <2>2
    <3>2. QED
      BY <3>1, Times
  <2> DEFINE ch == c * RowH
             ih == (i - 1) * RowH
  <2>4. ch \in Int /\ ih \in Int /\ u.offset + u.vp <= ch /\ ih < w.offset + u.vp
    BY <1>2, <2>2, <2>3
  <2> HIDE DEF ch, ih
  <2>5. ih < ch
    BY <1>1, <2>4
  <2>6. i - 1 < c
    BY <1>1, <2>2, <2>3, <2>5, Cancel DEF ih, ch
  <2>7. QED
    BY <2>2, <2>6
<1> HIDE DEF q, c
<1> DEFINE lo == HighOf(0, q - Overscan)
           hi == LowOf(c + Overscan, count)
<1>6. lo \in Nat /\ lo <= i - 1 /\ i - 1 < hi
  <2>1. q \in Nat /\ c \in Nat /\ Overscan \in Nat /\ count \in Nat /\ e \in Nat
    BY <1>1, <1>2, <1>4, <1>5
  <2>2. i \in Nat /\ 1 <= i /\ i <= count
    BY <1>2
  <2>3. q < i + e /\ i - 1 < c /\ e <= Overscan
    BY <1>4, <1>5
  <2>4. lo \in Nat /\ lo <= i - 1
    BY <2>1, <2>2, <2>3 DEF HighOf
  <2>5. i - 1 < hi
    BY <2>1, <2>2, <2>3 DEF LowOf
  <2>6. QED
    BY <2>4, <2>5
<1>7. u.from = lo /\ Len(u.rows) = hi - lo
  BY <1>3
<1> HIDE DEF lo, hi
<1>8. i - lo \in DOMAIN u.rows
  <2>1. Len(u.rows) \in Nat /\ DOMAIN u.rows = 1..Len(u.rows)
    BY <1>1
  <2>2. hi \in Int
    BY <1>1, <1>2, <1>5 DEF hi, LowOf
  <2>3. QED
    BY <1>2, <1>6, <1>7, <2>1, <2>2
<1>9. u.rows[i - lo].index = u.from + (i - lo) - 1
  BY <1>8 DEF ShowsItems
<1>10. u.rows[i - lo].index = i - 1
  BY <1>2, <1>6, <1>7, <1>9
<1>11. QED
  BY <1>8, <1>10

LEMMA PublishScrolls ==
    ASSUME ConstantsAssumption, MaxErases <= Overscan, ScrollInv, Publish
    PROVE  failed' = FALSE /\ view'.offset <= Reach(view', count) /\ InView(view')
<1> DEFINE bound == Materialize(view)
           laid  == Arrange(bound)
           more  == Materialize(laid)
           last  == Arrange(more)
           again == laid.vp # bound.vp
           e == batch.erases
<1>1. /\ view \in View /\ winH \in Heights /\ count \in Nat /\ Counted /\ InLine(view)
      /\ RowH \in Nat \ {0} /\ Overscan \in Nat /\ e \in 0..Overscan
  <2>1. MaxErases \in Nat /\ e \in 0..MaxErases /\ RowH \in Nat \ {0} /\ Overscan \in Nat
    BY DEF ScrollInv, ListInv, TypeOK, ConstantsAssumption
  <2> HIDE DEF e
  <2>2. e \in 0..Overscan
    BY <2>1
  <2>3. QED
    BY <2>1, <2>2 DEF ScrollInv, ListInv, TypeOK
<1>2. ~Throws(view)
  BY <1>1, NoThrow DEF ScrollInv
<1>3. /\ bound \in View /\ InLine(bound) /\ ShowsItems(bound)
      /\ bound.vp = view.vp /\ bound.offset = view.offset
      /\ bound.itemH = IF view.itemH = 0 /\ count > 0 THEN RowH ELSE view.itemH
      /\ ~(VisibleRange(bound).from > VisibleRange(bound).to)
      /\ bound.from = VisibleRange(bound).from
      /\ Len(bound.rows) = VisibleRange(bound).to - VisibleRange(bound).from
  BY <1>1, <1>2, MaterializeDoes
<1>4. /\ view' = IF again THEN last ELSE laid
      /\ failed' = (again /\ Throws(laid))
  BY <1>2 DEF Publish
<1> HIDE DEF bound, again, e
<1>5. /\ laid \in View /\ InLine(laid) /\ ShowsItems(laid)
      /\ laid = [bound EXCEPT !.vp = winH, !.offset = laid.offset]
      /\ laid.offset \in Nat /\ laid.offset <= bound.offset
      /\ laid.offset <= Reach(laid, count)
      /\ laid.offset = bound.offset \/ laid.offset = Reach(laid, count)
  BY <1>1, <1>3, ArrangeDoes, ArrangeKeeps, ArrangeOffset
<1> HIDE DEF laid
<1>6. laid.rows = bound.rows /\ laid.itemH = bound.itemH /\ laid.vp = winH
  BY <1>3, <1>5 DEF View
<1>7. count > 0 => bound.itemH = RowH
  BY <1>1, <1>3 DEF InLine
<1>8. CASE ~again
  <2>1. laid.vp = bound.vp
    BY <1>8 DEF again, laid
  <2>2. bound.offset <= laid.offset + e * RowH
    <3>1. e * RowH \in Nat
      <4>1. \A a, b \in Nat : a * b \in Nat
        OBVIOUS
      <4>2. QED
        BY <1>1, <4>1
    <3>2. bound.offset \in Nat
      BY <1>3 DEF View
    <3>3. CASE laid.offset = bound.offset
      BY <1>5, <3>1, <3>2, <3>3
    <3>4. CASE laid.offset = Reach(laid, count) /\ view.itemH = RowH
      <4> DEFINE eh == e * RowH
                 ch == count * RowH
      <4>1. (count + e) * RowH = ch + eh /\ ch \in Int /\ eh \in Nat
        BY <1>1, <3>1, Times
      <4>2. laid.offset = HighOf(0, ch - laid.vp)
        BY <1>3, <1>6, <3>4, <1>1 DEF Reach
      <4>3. bound.offset <= HighOf(0, (ch + eh) - laid.vp)
        BY <1>3, <2>1, <3>4, <4>1 DEF Reach, ScrollInv, e
      <4>4. laid.vp \in Nat
        BY <1>5 DEF View
      <4> HIDE DEF eh, ch
      <4>5. bound.offset <= laid.offset + eh
        BY <3>2, <4>1, <4>2, <4>3, <4>4 DEF HighOf
      <4>6. QED
        BY <4>5 DEF eh
    <3>5. CASE view.itemH = 0
      <4>1. (count + e) * view.itemH = 0 /\ view.vp \in Nat
        BY <1>1, <3>5 DEF View
      <4>2. bound.offset <= 0
        BY <1>3, <4>1 DEF Reach, ScrollInv, HighOf, e
      <4>3. QED
        BY <1>5, <3>1, <3>2, <4>2
    <3>6. QED
      BY <1>1, <1>5, <3>3, <3>4, <3>5 DEF InLine
  <2>3. InView(laid)
    <3>1. VisibleRange(bound).from <= VisibleRange(bound).to
      BY <1>1, <1>3, RangeBounds
    <3>2. QED
      BY <1>1, <1>3, <1>5, <1>6, <1>7, <2>1, <2>2, <3>1, BoundInView
  <2>4. QED
    BY <1>4, <1>5, <1>8, <2>3
<1>9. CASE again
  <2>1. 0 \in 0..Overscan /\ count + 0 = count
    BY <1>1
  <2>2. ~Throws(laid)
    BY <1>1, <1>5, <2>1, NoThrow
  <2>3. /\ more \in View /\ InLine(more) /\ ShowsItems(more)
        /\ more.vp = laid.vp /\ more.offset = laid.offset
        /\ more.itemH = IF laid.itemH = 0 /\ count > 0 THEN RowH ELSE laid.itemH
        /\ ~(VisibleRange(more).from > VisibleRange(more).to)
        /\ more.from = VisibleRange(more).from
        /\ Len(more.rows) = VisibleRange(more).to - VisibleRange(more).from
    BY <1>1, <1>5, <2>2, MaterializeDoes
  <2> HIDE DEF more
  <2>4. /\ last \in View
        /\ last = [more EXCEPT !.vp = winH, !.offset = last.offset]
        /\ last.offset \in Nat /\ last.offset <= more.offset
        /\ last.offset <= Reach(last, count)
        /\ last.offset = more.offset \/ last.offset = Reach(last, count)
    BY <1>1, <2>3, ArrangeDoes, ArrangeOffset
  <2> HIDE DEF last
  <2>5. last.rows = more.rows /\ last.itemH = more.itemH /\ last.vp = winH
    BY <2>3, <2>4 DEF View
  <2>6. more.itemH = laid.itemH /\ (count > 0 => more.itemH = RowH)
    BY <1>1, <1>6, <1>7, <2>3
  <2>7. Reach(last, count) = Reach(laid, count)
    BY <1>6, <2>5, <2>6 DEF Reach
  <2>8. last.offset = more.offset
    BY <1>5, <2>3, <2>4, <2>7
  <2>9. more.offset <= last.offset + 0 * RowH
    BY <1>1, <2>4, <2>8
  <2>10. InView(last)
    <3>1. VisibleRange(more).from <= VisibleRange(more).to
      BY <1>1, <2>3, RangeBounds
    <3>2. last.vp = more.vp
      BY <1>6, <2>3, <2>5
    <3>3. QED
      BY <1>1, <2>1, <2>3, <2>4, <2>5, <2>6, <2>9, <3>1, <3>2, BoundInView
  <2>11. QED
    BY <1>4, <1>9, <2>2, <2>4, <2>10
<1>10. QED
  BY <1>8, <1>9

LEMMA ReachGrows ==
    ASSUME NEW v \in View, NEW m \in Nat, NEW n \in Nat, m <= n
    PROVE  Reach(v, m) <= Reach(v, n) /\ Reach(v, m) \in Nat /\ Reach(v, n) \in Nat
<1>1. v.itemH \in Nat /\ v.vp \in Nat
  BY DEF View
<1> DEFINE mh == m * v.itemH
           nh == n * v.itemH
<1>2. mh \in Int /\ nh \in Int /\ mh <= nh
  BY <1>1, Times
<1> HIDE DEF mh, nh
<1>3. HighOf(0, mh - v.vp) <= HighOf(0, nh - v.vp)
  BY <1>1, <1>2 DEF HighOf
<1>4. HighOf(0, mh - v.vp) \in Nat /\ HighOf(0, nh - v.vp) \in Nat
  BY <1>1, <1>2 DEF HighOf
<1>5. QED
  BY <1>3, <1>4 DEF Reach, mh, nh

\* A scroll stays within the list as it is.
LEMMA ScrolledTo ==
    ASSUME ConstantsAssumption, ListInv, NEW x \in Int,
           ScrollTo(Clamp(x, 0, MaxOffset(view)))
    PROVE  /\ view'.offset <= Reach(view', count')
           /\ count' = count /\ batch' = batch /\ failed' = failed /\ dirty' = TRUE
<1> DEFINE most == MaxOffset(view)
           new == Clamp(x, 0, most)
<1>1. view \in View /\ count \in Nat
  BY DEF ListInv, TypeOK
<1>2. most \in Nat /\ most = Reach(view, count)
  BY <1>1, MaxOffsetNat DEF Reach, MaxOffset
<1> HIDE DEF most
<1>3. new <= most
  BY <1>2 DEF Clamp, HighOf, LowOf
<1>4. /\ view' = [view EXCEPT !.offset = new]
      /\ UNCHANGED <<items, count, winH, failed, batch, late>> /\ dirty' = TRUE
  BY DEF ScrollTo, most
<1> HIDE DEF new
<1>5. view'.offset = new /\ view'.itemH = view.itemH /\ view'.vp = view.vp
  BY <1>1, <1>4 DEF View
<1>6. QED
  BY <1>2, <1>3, <1>4, <1>5 DEF Reach

LEMMA ScrollInvStep ==
    ASSUME ConstantsAssumption, MaxErases <= Overscan, ScrollInv,
           [Next]_vars
    PROVE  ScrollInv'
<1>1. ListInv /\ ListInv'
  BY ListStep DEF ScrollInv
<1>2. /\ view \in View /\ count \in Nat /\ batch.erases \in Nat
      /\ view' \in View /\ count' \in Nat /\ batch'.erases \in Nat
  <2>1. /\ batch \in [mutations: 0..MaxBatch, erases: 0..MaxErases]
        /\ batch' \in [mutations: 0..MaxBatch, erases: 0..MaxErases]
        /\ MaxErases \in Nat
    BY <1>1 DEF ListInv, TypeOK, ConstantsAssumption
  <2>2. QED
    BY <1>1, <2>1 DEF ListInv, TypeOK
\* Every step but a publish leaves the container dirty.
<1>3. ASSUME dirty' = TRUE, failed' = failed,
             view'.offset <= Reach(view', count' + batch'.erases)
      PROVE  ScrollInv'
  BY <1>1, <1>3 DEF ScrollInv, Reach, HighOf
<1>4. ASSUME NEW n \in Nat, count + batch.erases <= n, n = count' + batch'.erases,
             view'.offset = view.offset, view'.itemH = view.itemH, view'.vp = view.vp,
             dirty' = TRUE, failed' = failed
      PROVE  ScrollInv'
  <2>1. Reach(view, count + batch.erases) <= Reach(view, n)
    <3>1. count + batch.erases \in Nat
      BY <1>2
    <3>2. QED
      BY <1>2, <1>4, <3>1, ReachGrows
  <2>2. view.offset <= Reach(view, n)
    <3>1. /\ Reach(view, n) \in Nat /\ Reach(view, count + batch.erases) \in Nat
          /\ view.offset \in Nat
      <4>1. count + batch.erases \in Nat
        BY <1>2
      <4>2. view.offset \in Nat
        BY <1>2 DEF View
      <4>3. QED
        BY <1>2, <1>4, <4>1, <4>2, ReachGrows
    <3>2. QED
      BY <2>1, <3>1 DEF ScrollInv
  <2>3. view'.offset <= Reach(view', n)
    BY <1>4, <2>2 DEF Reach
  <2>4. QED
    BY <1>3, <1>4, <2>3
<1>5. CASE Publish
  <2>1. failed' = FALSE /\ view'.offset <= Reach(view', count) /\ InView(view')
    BY <1>5, PublishScrolls
  <2>2. count' = count /\ batch'.erases = 0 /\ items' = items
    BY <1>5 DEF Publish
  <2>3. count' + batch'.erases = count
    BY <1>2, <2>2
  <2>4. view'.offset <= Reach(view, count + batch.erases)'
    BY <2>1, <2>3 DEF Reach
  <2>5. InView(view)'
    BY <2>1, <2>2 DEF InView
  <2>6. QED
    BY <1>1, <2>1, <2>4, <2>5 DEF ScrollInv
<1>6. ASSUME NEW k \in Keys, PushBack(k) PROVE ScrollInv'
  <2>1. /\ count' = count + 1 /\ batch'.erases = batch.erases + 0 /\ dirty' = TRUE
        /\ view' = view /\ failed' = failed
    BY <1>6 DEF PushBack, Mutate
  <2>2. count + batch.erases <= count' + batch'.erases /\ count' + batch'.erases \in Nat
    BY <1>2, <2>1
  <2>3. QED
    BY <1>4, <2>1, <2>2
<1>7. ASSUME NEW i \in DOMAIN items, Erase(i) PROVE ScrollInv'
  <2>1. /\ count' = IF count > 0 THEN count - 1 ELSE count
        /\ batch'.erases = batch.erases + 1 /\ dirty' = TRUE
        /\ view' = view /\ failed' = failed
    BY <1>7 DEF Erase, Mutate
  <2>2. count + batch.erases <= count' + batch'.erases /\ count' + batch'.erases \in Nat
    BY <1>2, <2>1
  <2>3. QED
    BY <1>4, <2>1, <2>2
<1>8. ASSUME NEW i \in DOMAIN items, SetItem(i) PROVE ScrollInv'
  <2>1. /\ count' = count /\ batch'.erases = batch.erases + 0 /\ dirty' = TRUE
        /\ view' = view /\ failed' = failed
    BY <1>8 DEF SetItem, Mutate
  <2>2. count + batch.erases <= count' + batch'.erases /\ count' + batch'.erases \in Nat
    BY <1>2, <2>1
  <2>3. QED
    BY <1>4, <2>1, <2>2
<1>9. ASSUME NEW j \in DOMAIN view.rows, EditRow(j) PROVE ScrollInv'
  <2> DEFINE rows == [view.rows EXCEPT ![j].item = [view.rows[j].item EXCEPT !.val = 1 - @]]
  <2>1. /\ count' = count /\ batch'.erases = batch.erases + 0 /\ dirty' = TRUE
        /\ view' = [view EXCEPT !.rows = rows] /\ failed' = failed
    BY <1>9 DEF EditRow, Mutate
  <2> HIDE DEF rows
  <2>2. view'.offset = view.offset /\ view'.itemH = view.itemH /\ view'.vp = view.vp
    BY <1>2, <2>1 DEF View
  <2>3. count + batch.erases <= count' + batch'.erases /\ count' + batch'.erases \in Nat
    BY <1>2, <2>1
  <2>4. QED
    BY <1>4, <2>1, <2>2, <2>3
<1>10. ASSUME NEW x \in Int, ScrollTo(Clamp(x, 0, MaxOffset(view)))
       PROVE  ScrollInv'
  <2>1. /\ view'.offset <= Reach(view', count')
        /\ count' = count /\ batch' = batch /\ failed' = failed /\ dirty' = TRUE
    BY <1>1, <1>10, ScrolledTo
  <2>2. /\ Reach(view', count') <= Reach(view', count' + batch'.erases)
        /\ Reach(view', count') \in Nat /\ Reach(view', count' + batch'.erases) \in Nat
        /\ view'.offset \in Nat
    <3>1. count' <= count' + batch'.erases /\ count' + batch'.erases \in Nat
      BY <1>2
    <3>2. view'.offset \in Nat
      BY <1>2 DEF View
    <3>3. QED
      BY <1>2, <3>1, <3>2, ReachGrows
  <2>3. view'.offset <= Reach(view', count' + batch'.erases)
    BY <2>1, <2>2
  <2>4. QED
    BY <1>3, <2>1, <2>3
<1>11. ASSUME NEW d \in Deltas, Scroll(d) PROVE ScrollInv'
  <2>1. view.offset + d \in Int
    <3>1. view.offset \in Nat
      BY <1>2 DEF View
    <3>2. d \in Int
      BY DEF ConstantsAssumption
    <3>3. QED
      BY <3>1, <3>2
  <2>2. ScrollTo(Clamp(view.offset + d, 0, MaxOffset(view)))
    BY <1>11 DEF Scroll
  <2>3. QED
    BY <1>10, <2>1, <2>2
<1>12. ASSUME NEW i \in Int, RevealRow(i) PROVE ScrollInv'
  <2> DEFINE top == i * view.itemH
             end == (top + view.itemH) - view.vp
  <2>1. view.itemH \in Nat /\ view.vp \in Nat
    BY <1>2 DEF View
  <2>2. top \in Int
    BY <2>1, Times
  <2>3. \/ ScrollTo(Clamp(top, 0, MaxOffset(view)))
        \/ ScrollTo(Clamp(end, 0, MaxOffset(view)))
    BY <1>12 DEF RevealRow
  <2> HIDE DEF top
  <2>4. end \in Int
    BY <2>1, <2>2
  <2>5. QED
    BY <1>10, <2>2, <2>3, <2>4
<1>13. ASSUME NEW h \in Heights, Resize(h) PROVE ScrollInv'
  <2>1. view' = view /\ count' = count /\ batch' = batch /\ dirty' = TRUE /\ failed' = failed
    BY <1>13 DEF Resize
  <2>2. count + batch.erases <= count' + batch'.erases /\ count' + batch'.erases \in Nat
    BY <1>2, <2>1
  <2>3. QED
    BY <1>4, <2>1, <2>2
<1>14. CASE UNCHANGED vars
  BY <1>1, <1>14 DEF ScrollInv, Reach, InView, vars
<1>15. ASSUME NEW i \in DOMAIN items PROVE i - 1 \in Int
  BY <1>1 DEF ListInv, Counted
<1>16. QED
  BY <1>5, <1>6, <1>7, <1>8, <1>9, <1>11, <1>12, <1>13, <1>14, <1>15 DEF Next

\* As long as no more items are erased between two publishes than the overscan has rows,
\* a published list leaves no item in view without a row, and building it never throws.
\* (materialize_virtual_list, compute_visible_range)
THEOREM OverscanCovers ==
    ASSUME ConstantsAssumption, MaxErases <= Overscan
    PROVE  Spec => [](VisibleBound /\ NeverThrows)
<1>1. Init => ScrollInv
  <2> SUFFICES ASSUME Init PROVE ScrollInv
    OBVIOUS
  <2>1. view.offset = 0 /\ failed = FALSE /\ dirty = TRUE
    BY DEF Init
  <2>2. 0 <= Reach(view, count + batch.erases)
    BY DEF Init, Reach, HighOf
  <2>3. QED
    BY <2>1, <2>2, ListInit DEF ScrollInv
<1>2. ScrollInv /\ [Next]_vars => ScrollInv'
  BY ScrollInvStep
<1>3. ScrollInv => VisibleBound /\ NeverThrows
  BY DEF ScrollInv, InView, VisibleBound, NeverThrows
<1>4. QED
  BY <1>1, <1>2, <1>3, PTL DEF Spec

=============================================================================
