------------------------- MODULE InputRoutingProofs -------------------------
(***************************************************************************)
(* Theorems about InputRouting, for any widgets, scroll chains, buttons    *)
(* and keys that RoutingAssumption admits; and about RowInput, which plays *)
(* it with a virtual list, whose own theorems are in VirtualListProofs.    *)
(*                                                                         *)
(* PopupKept needs little more than types.  The invariants rest on         *)
(* RoutingInv: as long as no second button was pressed while one was down, *)
(* a capture, of a widget or of a thumb, lasts exactly as long as the      *)
(* press that began it.                                                    *)
(*                                                                         *)
(* RowInv is what the tree's index and focus order hold of a list in line. *)
(***************************************************************************)
EXTENDS RowInput, FiniteSetTheorems, TLAPS

\* Nothing is bound or unbound when the widgets are fixed.
WidgetsFixed == tree.index = Standing /\ tree.order = TreeOrder

OffsetsBounded == \A c \in Containers : tree.offset[c] <= MaxOffsetOf[c]

\* Before a chord one button is down at most, presses are heard only while it
\* is, and with none down there is no capture.
CaptureLasts ==
    ~chord =>
        /\ \A a, b \in down : a = b
        /\ \A w \in Standing : heard[w] \subseteq down
        /\ down = {} => tree.captured = None

\* Who heard a press is still in the tree.
PressedIndexed == ~chord => \A w \in Standing : heard[w] # {} => w \in tree.index

RoutingInv ==
    /\ RoutingTypeOK
    /\ PressedIndexed
    /\ OffsetsBounded
    /\ CaptureLasts
    /\ ReleaseReachesPressed
    /\ DragHeld
    /\ LooksMatch

\* No route changes which widgets there are, or their order.
Kept == RoutingInv' /\ tree'.index = tree.index /\ tree'.order = tree.order

\* Exactly the widget id shows the flag, among those a list does not recycle.
Shows(t, flag, id) == \A w \in t.index \ Recycled : flag \in t.look[w] <=> id = w

\* From t to u, w gains the flag or loses it, when it is indexed.
Flips(t, u, w, flag, on) ==
    \A v \in Widgets, f \in Flags :
       IF v = w /\ w \in t.index /\ f = flag THEN f \in u.look[v] <=> on
       ELSE f \in u.look[v] <=> f \in t.look[v]

SameLooks(t, u, flag) == \A w \in Widgets : flag \in u.look[w] <=> flag \in t.look[w]

-----------------------------------------------------------------------------
(* Natural numbers and bounds. *)

LEMMA Least ==
    ASSUME NEW T \in SUBSET Nat, T # {}
    PROVE  \E m \in T : \A n \in T : m <= n
<1>1. PICK m \in T : \A n \in T : <<n, m>> \notin {ss \in Nat \X Nat : ss[1] < ss[2]}
  BY NatLessThanWellFounded, WFMin DEF OpToRel
<1>2. ASSUME NEW n \in T PROVE m <= n
  <2>1. <<n, m>> \notin {ss \in Nat \X Nat : ss[1] < ss[2]}
    BY <1>1
  <2>2. ~(n < m)
    BY <2>1
  <2>3. QED
    BY <2>2
<1>3. QED
  BY <1>2

LEMMA BoundedInRange ==
    ASSUME NEW x \in Int, NEW hi \in Nat
    PROVE  Bounded(x, hi) \in 0..hi
BY DEF Bounded

-----------------------------------------------------------------------------
(* The operations of the tree: what each changes, and of which type. *)

\* Flipping a flag changes that flag of that widget, when it is indexed.
LEMMA FlipFlagDoes ==
    ASSUME NEW t \in Tree, NEW w, NEW flag \in Flags, NEW on \in BOOLEAN
    PROVE  LET u == FlipFlag(t, w, flag, on)
           IN  /\ u \in Tree
               /\ u = [t EXCEPT !.look = u.look]
               /\ Flips(t, u, w, flag, on)
<1> DEFINE u == FlipFlag(t, w, flag, on)
<1>1. CASE w \notin t.index
  <2>1. u = t
    BY <1>1 DEF FlipFlag
  <2>2. t = [t EXCEPT !.look = t.look]
    BY DEF Tree
  <2>3. QED
    BY <1>1, <2>1, <2>2 DEF Flips
<1>2. CASE w \in t.index
  <2> DEFINE new == IF on THEN t.look[w] \cup {flag} ELSE t.look[w] \ {flag}
             looks == [t.look EXCEPT ![w] = new]
  <2>1. w \in Widgets /\ t.look \in [Widgets -> SUBSET Flags]
    BY <1>2 DEF Tree
  <2>2. looks \in [Widgets -> SUBSET Flags]
    BY <2>1
  <2>3. u = [t EXCEPT !.look = looks]
    BY <1>2 DEF FlipFlag
  <2>4. u \in Tree /\ u.look = looks
    BY <2>2, <2>3 DEF Tree
  <2>5. \A v \in Widgets, f \in Flags :
           f \in looks[v] <=> f \in IF v = w THEN new ELSE t.look[v]
    BY <2>1
  <2>6. QED
    BY <1>2, <2>3, <2>4, <2>5 DEF Flips
<1>3. QED
  BY <1>1, <1>2

LEMMA UpdateHoverDoes ==
    ASSUME NEW t \in Tree, NEW w \in Widgets \cup {None}
    PROVE  LET u == UpdateHover(t, w)
           IN  /\ u \in Tree
               /\ u = [t EXCEPT !.hovered = w, !.look = u.look]
               /\ SameLooks(t, u, "pressed") /\ SameLooks(t, u, "focused")
               /\ Shows(t, "hovered", t.hovered) => Shows(u, "hovered", w)
<1> DEFINE u == UpdateHover(t, w)
           t1 == FlipFlag(t, t.hovered, "hovered", FALSE)
           t2 == [t1 EXCEPT !.hovered = w]
<1>1. CASE w = t.hovered
  <2>1. u = t
    BY <1>1 DEF UpdateHover
  <2>2. t = [t EXCEPT !.hovered = w, !.look = t.look]
    BY <1>1 DEF Tree
  <2>3. QED
    BY <1>1, <2>1, <2>2 DEF SameLooks
<1>2. CASE w # t.hovered
  <2>1. /\ t1 \in Tree
        /\ t1 = [t EXCEPT !.look = t1.look]
        /\ Flips(t, t1, t.hovered, "hovered", FALSE)
    BY FlipFlagDoes DEF Flags
  <2>2. t2 \in Tree /\ t2.look = t1.look /\ t2.index = t.index
    BY <2>1 DEF Tree
  <2>3. u = FlipFlag(t2, w, "hovered", TRUE)
    BY <1>2 DEF UpdateHover
  <2>4. /\ u \in Tree
        /\ u = [t2 EXCEPT !.look = u.look]
        /\ Flips(t2, u, w, "hovered", TRUE)
    <3> HIDE DEF u, t2
    <3>1. "hovered" \in Flags /\ TRUE \in BOOLEAN
      BY DEF Flags
    <3>2. QED
      BY <2>2, <2>3, <3>1, FlipFlagDoes
  <2>5. u = [t EXCEPT !.hovered = w, !.look = u.look]
    BY <2>1, <2>4 DEF Tree
  <2>6. SameLooks(t, u, "pressed") /\ SameLooks(t, u, "focused")
    BY <2>1, <2>2, <2>4 DEF SameLooks, Flips, Flags
  <2>7. ASSUME Shows(t, "hovered", t.hovered) PROVE Shows(u, "hovered", w)
    <3> HIDE DEF u, t1, t2
    <3>1. u.index = t.index /\ t.index \subseteq Widgets
      BY <2>5 DEF Tree
    <3>2. QED
      BY <1>2, <2>1, <2>2, <2>4, <2>7, <3>1 DEF Shows, Flips, Flags
  <2>8. QED
    BY <2>4, <2>5, <2>6, <2>7
<1>3. QED
  BY <1>1, <1>2

LEMMA SetPressedDoes ==
    ASSUME NEW t \in Tree, NEW w \in Widgets \cup {None}, NEW on \in BOOLEAN
    PROVE  LET u == SetPressed(t, w, on)
           IN  /\ u \in Tree
               /\ u = [t EXCEPT !.captured = IF on THEN w ELSE None, !.look = u.look]
               /\ SameLooks(t, u, "hovered") /\ SameLooks(t, u, "focused")
               /\ \A v \in Widgets : "pressed" \in u.look[v] <=>
                                       IF v = w /\ w \in t.index THEN on
                                       ELSE "pressed" \in t.look[v]
<1> DEFINE u == SetPressed(t, w, on)
           t1 == FlipFlag(t, w, "pressed", on)
<1>1. /\ t1 \in Tree
      /\ t1 = [t EXCEPT !.look = t1.look]
      /\ Flips(t, t1, w, "pressed", on)
  BY FlipFlagDoes DEF Flags
<1>2. u = [t1 EXCEPT !.captured = IF on THEN w ELSE None]
  BY DEF SetPressed
<1>3. u \in Tree /\ u.look = t1.look
  BY <1>1, <1>2 DEF Tree
<1>4. u = [t EXCEPT !.captured = IF on THEN w ELSE None, !.look = u.look]
  BY <1>1, <1>2 DEF Tree
<1>5. QED
  BY <1>1, <1>3, <1>4 DEF SameLooks, Flips, Flags

\* A widget outside the focus order does not take the focus.
LEMMA SetFocusedDoes ==
    ASSUME NEW t \in Tree, NEW w \in Widgets \cup {None}
    PROVE  LET u == SetFocused(t, w)
               id == IF w \in Range(t.order) THEN w ELSE t.focused
           IN  /\ u \in Tree
               /\ u = [t EXCEPT !.focused = id, !.look = u.look]
               /\ SameLooks(t, u, "hovered") /\ SameLooks(t, u, "pressed")
               /\ Shows(t, "focused", t.focused) => Shows(u, "focused", id)
<1> DEFINE u == SetFocused(t, w)
           id == IF w \in Range(t.order) THEN w ELSE t.focused
           t1 == FlipFlag(t, t.focused, "focused", FALSE)
           t2 == [t1 EXCEPT !.focused = w]
<1>1. CASE w = t.focused \/ w \notin Range(t.order)
  <2>1. u = t /\ id = t.focused
    BY <1>1 DEF SetFocused
  <2>2. t = [t EXCEPT !.focused = id, !.look = t.look]
    BY <2>1 DEF Tree
  <2>3. QED
    BY <2>1, <2>2 DEF SameLooks
<1>2. CASE w # t.focused /\ w \in Range(t.order)
  <2>1. /\ t1 \in Tree
        /\ t1 = [t EXCEPT !.look = t1.look]
        /\ Flips(t, t1, t.focused, "focused", FALSE)
    BY FlipFlagDoes DEF Flags
  <2>2. t2 \in Tree /\ t2.look = t1.look /\ t2.index = t.index
    BY <2>1 DEF Tree
  <2>3. u = FlipFlag(t2, w, "focused", TRUE) /\ id = w
    BY <1>2 DEF SetFocused
  <2>4. /\ u \in Tree
        /\ u = [t2 EXCEPT !.look = u.look]
        /\ Flips(t2, u, w, "focused", TRUE)
    <3> HIDE DEF u, t2
    <3>1. "focused" \in Flags /\ TRUE \in BOOLEAN
      BY DEF Flags
    <3>2. QED
      BY <2>2, <2>3, <3>1, FlipFlagDoes
  <2>5. u = [t EXCEPT !.focused = id, !.look = u.look]
    BY <2>1, <2>3, <2>4 DEF Tree
  <2>6. SameLooks(t, u, "pressed") /\ SameLooks(t, u, "hovered")
    BY <2>1, <2>2, <2>4 DEF SameLooks, Flips, Flags
  <2>7. ASSUME Shows(t, "focused", t.focused) PROVE Shows(u, "focused", id)
    <3>1. id = w
      BY <2>3
    <3> HIDE DEF u, t1, t2, id
    <3>2. u.index = t.index /\ t.index \subseteq Widgets
      BY <2>5 DEF Tree
    <3>3. QED
      BY <1>2, <2>1, <2>2, <3>2, <2>4, <2>7, <3>1 DEF Shows, Flips, Flags
  <2>8. QED
    BY <2>4, <2>5, <2>6, <2>7
<1>3. QED
  BY <1>1, <1>2

LEMMA ClearFocusDoes ==
    ASSUME NEW t \in Tree, None \notin Widgets
    PROVE  LET u == ClearFocus(t)
           IN  /\ u \in Tree
               /\ u = [t EXCEPT !.focused = None, !.look = u.look]
               /\ SameLooks(t, u, "hovered") /\ SameLooks(t, u, "pressed")
               /\ Shows(t, "focused", t.focused) => Shows(u, "focused", None)
<1> DEFINE u == ClearFocus(t)
           t1 == FlipFlag(t, t.focused, "focused", FALSE)
<1>1. /\ t1 \in Tree
      /\ t1 = [t EXCEPT !.look = t1.look]
      /\ Flips(t, t1, t.focused, "focused", FALSE)
  BY FlipFlagDoes DEF Flags
<1>2. u = [t1 EXCEPT !.focused = None]
  BY DEF ClearFocus
<1>3. u \in Tree /\ u.look = t1.look
  BY <1>1, <1>2 DEF Tree
<1>4. u = [t EXCEPT !.focused = None, !.look = u.look]
  BY <1>1, <1>2 DEF Tree
<1>5. SameLooks(t, u, "hovered") /\ SameLooks(t, u, "pressed")
  BY <1>1, <1>3 DEF SameLooks, Flips, Flags
<1>6. ASSUME Shows(t, "focused", t.focused) PROVE Shows(u, "focused", None)
  <2>1. u.index = t.index /\ t.index \subseteq Widgets
    BY <1>4 DEF Tree
  <2>2. QED
    BY <1>1, <1>3, <1>6, <2>1 DEF Shows, Flips, Flags
<1>7. QED
  BY <1>3, <1>4, <1>5, <1>6

OffsetsIn(t) == \A c \in Containers : t.offset[c] <= MaxOffsetOf[c]

\* Moving one container to a place it can have.
LEMMA OffsetMoved ==
    ASSUME NEW t \in Tree, NEW c \in Containers, NEW x \in Int, OffsetsIn(t),
           MaxOffsetOf \in [Containers -> Nat]
    PROVE  LET u == [t EXCEPT !.offset[c] = Bounded(x, MaxOffsetOf[c])]
           IN  /\ u \in Tree
               /\ u = [t EXCEPT !.offset = u.offset]
               /\ u.offset = [t.offset EXCEPT ![c] = Bounded(x, MaxOffsetOf[c])]
               /\ OffsetsIn(u)
<1> DEFINE new == Bounded(x, MaxOffsetOf[c])
           offsets == [t.offset EXCEPT ![c] = new]
           u == [t EXCEPT !.offset = offsets]
<1>1. new \in Nat /\ new <= MaxOffsetOf[c]
  <2>1. MaxOffsetOf[c] \in Nat
    OBVIOUS
  <2>2. new \in 0..MaxOffsetOf[c]
    BY <2>1, BoundedInRange
  <2>3. QED
    BY <2>1, <2>2
<1> HIDE DEF new
<1>2. t.offset \in [Containers -> Nat]
  BY DEF Tree
<1>3. offsets \in [Containers -> Nat]
  BY <1>1, <1>2
<1>4. u \in Tree /\ u.offset = offsets
  BY <1>3 DEF Tree
<1>5. OffsetsIn(u)
  BY <1>1, <1>2, <1>4 DEF OffsetsIn
<1>6. u = [t EXCEPT !.offset[c] = new]
  OBVIOUS
<1>7. QED
  BY <1>4, <1>5, <1>6 DEF new

\* Where a scroll of d would move a container.
Moved(t, c, d) == Bounded(t.offset[c] + d, MaxOffsetOf[c])

\* From t to u, one container of w's chain is moved, past others that could not
\* move and let the scroll through.
Takes(t, u, w, d, i) ==
    /\ w \in t.index
    /\ u.offset = [t.offset EXCEPT ![Chain[w][i]] = Moved(t, Chain[w][i], d)]
    /\ \A j \in DOMAIN Chain[w] :
          j < i => /\ Moved(t, Chain[w][j], d) = t.offset[Chain[w][j]]
                   /\ Chain[w][j] \notin Consumers

\* A scroll stops at the first container of the chain that takes it.
LEMMA ScrollAtDoes ==
    ASSUME RoutingAssumption,
           NEW t \in Tree, OffsetsIn(t), NEW w \in Widgets \cup {None}, NEW d \in Int
    PROVE  LET u == ScrollAt(t, w, d)
           IN  /\ u \in Tree
               /\ u = [t EXCEPT !.offset = u.offset]
               /\ OffsetsIn(u)
               /\ u = t \/ \E i \in DOMAIN Chain[w] : Takes(t, u, w, d, i)
<1> DEFINE u == ScrollAt(t, w, d)
           chain == IF w \in t.index THEN Chain[w] ELSE <<>>
           moved(c) == Bounded(t.offset[c] + d, MaxOffsetOf[c])
           takes(i) == moved(chain[i]) # t.offset[chain[i]] \/ chain[i] \in Consumers
           takers == {i \in DOMAIN chain : takes(i)}
           first == CHOOSE i \in takers : \A j \in takers : i <= j
<1>1. u = IF takers = {} THEN t
          ELSE [t EXCEPT !.offset[chain[first]] = moved(chain[first])]
  BY DEF ScrollAt
<1>2. CASE takers = {}
  <2>1. u = t
    BY <1>1, <1>2
  <2>2. t = [t EXCEPT !.offset = t.offset]
    BY DEF Tree
  <2>3. QED
    BY <2>1, <2>2
<1>3. CASE takers # {}
  <2>1. w \in t.index /\ chain = Chain[w] /\ w \in Widgets
    BY <1>3 DEF Tree
  <2>2. chain \in Seq(Containers)
    BY <2>1 DEF RoutingAssumption
  <2> HIDE DEF u, chain, moved
  <2>3. takers \in SUBSET Nat
    BY <2>2
  <2>4. first \in takers /\ \A j \in takers : first <= j
    BY <1>3, <2>3, Least
  <2> HIDE DEF first
  <2>5. chain[first] \in Containers /\ first \in DOMAIN chain
    BY <2>2, <2>4
  <2>6. u = [t EXCEPT !.offset[chain[first]] = moved(chain[first])]
    BY <1>1, <1>3
  <2>7. t.offset[chain[first]] + d \in Int
    BY <2>5 DEF Tree
  <2>8. /\ u \in Tree
        /\ u = [t EXCEPT !.offset = u.offset]
        /\ u.offset = [t.offset EXCEPT ![chain[first]] = moved(chain[first])]
        /\ OffsetsIn(u)
    BY <2>5, <2>6, <2>7, OffsetMoved DEF moved, RoutingAssumption
  <2>9. ASSUME NEW j \in DOMAIN chain, j < first
        PROVE  moved(chain[j]) = t.offset[chain[j]] /\ chain[j] \notin Consumers
    <3>1. j \in Nat /\ first \in Nat
      BY <2>2, <2>5
    <3>2. j \notin takers
      BY <2>4, <2>9, <3>1
    <3>3. QED
      BY <3>2
  <2>10. Takes(t, u, w, d, first)
    BY <2>1, <2>8, <2>9 DEF moved, Takes, Moved
  <2>11. QED
    BY <2>1, <2>5, <2>8, <2>10 DEF u
<1>4. QED
  BY <1>2, <1>3

LEMMA BeginDragDoes ==
    ASSUME NEW t \in Tree, NEW c \in Containers, NEW y \in Nat
    PROVE  LET u == BeginDrag(t, c, y)
           IN  /\ u \in Tree
               /\ u = [t EXCEPT !.drag = u.drag, !.captured = c]
               /\ u.drag.scroll = c
<1> DEFINE u == BeginDrag(t, c, y)
           drag == [scroll |-> c, y |-> y, offset |-> t.offset[c]]
<1>1. drag \in [scroll: Containers \cup {None}, y: Nat, offset: Nat]
  BY DEF Tree
<1>2. u = [t EXCEPT !.drag = drag, !.captured = c]
  BY DEF BeginDrag
<1>3. u \in Tree /\ u.drag = drag
  BY <1>1, <1>2 DEF Tree, Widgets
<1>4. QED
  BY <1>2, <1>3

LEMMA UpdateDragDoes ==
    ASSUME RoutingAssumption, NEW t \in Tree, OffsetsIn(t), Dragging(t), NEW y \in Nat
    PROVE  LET u == UpdateDrag(t, y)
           IN  u \in Tree /\ u = [t EXCEPT !.offset = u.offset] /\ OffsetsIn(u)
<1> DEFINE c == t.drag.scroll
           turn == (y - t.drag.y) * MaxOffsetOf[c]
           new == t.drag.offset + turn \div Track
<1>1. c \in Containers /\ MaxOffsetOf \in [Containers -> Nat] /\ Track \in Nat \ {0}
  BY DEF Dragging, Tree, RoutingAssumption
<1>2. t.drag.y \in Nat /\ t.drag.offset \in Nat
  BY DEF Tree
<1>3. turn \in Int
  <2>1. y - t.drag.y \in Int /\ MaxOffsetOf[c] \in Int
    BY <1>1, <1>2
  <2>2. \A a, b \in Int : a * b \in Int
    OBVIOUS
  <2>3. QED
    BY <2>1, <2>2
<1> HIDE DEF turn
<1>4. new \in Int
  BY <1>1, <1>2, <1>3
<1>5. UpdateDrag(t, y) = [t EXCEPT !.offset[c] = Bounded(new, MaxOffsetOf[c])]
  BY DEF UpdateDrag, turn
<1> HIDE DEF new, c
<1>6. QED
  BY <1>1, <1>4, <1>5, OffsetMoved

LEMMA EndDragDoes ==
    ASSUME NEW t \in Tree
    PROVE  LET u == EndDrag(t)
           IN  u \in Tree /\ u = [t EXCEPT !.drag = NoDrag] /\ ~Dragging(u)
BY DEF EndDrag, Dragging, NoDrag, Tree

LEMMA CloseOverlaysDoes ==
    ASSUME NEW t \in Tree
    PROVE  LET u == CloseOverlays(t)
           IN  u \in Tree /\ u = [t EXCEPT !.open = {}]
BY DEF CloseOverlays, Tree

\* Only a drop-down opens a popup, its own.
LEMMA HandlePressDoes ==
    ASSUME NEW t \in Tree, NEW w \in Widgets \cup {None}
    PROVE  LET u == HandlePress(t, w)
           IN  /\ u \in Tree
               /\ u = [t EXCEPT !.open = u.open]
               /\ u.open \subseteq t.open \cup ({w} \cap Dropdowns)
<1> DEFINE u == HandlePress(t, w)
           opens == IF w \in t.open THEN t.open \ {w} ELSE t.open \cup {w}
<1>1. CASE w \notin t.index \cap Dropdowns
  <2>1. u = t /\ t = [t EXCEPT !.open = t.open]
    BY <1>1 DEF HandlePress, Tree
  <2>2. QED
    BY <2>1
<1>2. CASE w \in t.index \cap Dropdowns
  <2>1. u = [t EXCEPT !.open = opens]
    BY <1>2 DEF HandlePress
  <2>2. opens \in SUBSET Dropdowns
    BY <1>2 DEF Tree
  <2>3. u \in Tree /\ u.open = opens
    BY <2>1, <2>2 DEF Tree
  <2>4. QED
    BY <1>2, <2>1, <2>3
<1>3. QED
  BY <1>1, <1>2

LEMMA HandleKeyDoes ==
    ASSUME NEW t \in Tree, NEW w \in Widgets \cup {None}, NEW k
    PROVE  LET u == HandleKey(t, w, k)
           IN  /\ u \in Tree
               /\ u = [t EXCEPT !.open = u.open]
               /\ u.open \subseteq t.open \cup {w}
<1> DEFINE u == HandleKey(t, w, k)
           opens == CASE w \in t.open -> t.open \ {w}
                      [] w \notin t.open /\ k = "enter" -> t.open \cup {w}
                      [] OTHER -> t.open
<1>1. CASE w \notin t.index \cap Dropdowns
  <2>1. u = t /\ t = [t EXCEPT !.open = t.open]
    BY <1>1 DEF HandleKey, Tree
  <2>2. QED
    BY <2>1
<1>2. CASE w \in t.index \cap Dropdowns
  <2>1. u = [t EXCEPT !.open = opens]
    BY <1>2 DEF HandleKey
  <2>2. opens \in SUBSET Dropdowns /\ opens \subseteq t.open \cup {w}
    BY <1>2 DEF Tree
  <2> HIDE DEF opens
  <2>3. u \in Tree /\ u.open = opens
    BY <2>1, <2>2 DEF Tree
  <2>4. QED
    BY <1>2, <2>1, <2>2, <2>3
<1>3. QED
  BY <1>1, <1>2

-----------------------------------------------------------------------------
(* The routes keep the invariant. *)

PressedOne(t) == IF Dragging(t) THEN None ELSE t.captured

\* LooksMatch, one flag at a time.
LooksShow ==
    /\ Shows(tree, "hovered", tree.hovered)
    /\ Shows(tree, "focused", tree.focused)
    /\ chord \/ Shows(tree, "pressed", PressedOne(tree))

LEMMA LooksByFlag ==
    ASSUME None \notin Widgets, tree \in Tree
    PROVE  LooksMatch <=> LooksShow
<1>1. None \notin tree.index
  BY DEF Tree
<1>2. QED
  BY <1>1 DEF LooksMatch, LooksShow, Shows, PressedOne

\* A route that touches neither buttons, capture nor drag.
LEMMA QuietStep ==
    ASSUME RoutingAssumption, RoutingInv, UNCHANGED <<down, heard, chord>>,
           tree' \in Tree, OffsetsIn(tree'),
           tree' = [tree EXCEPT !.hovered = tree'.hovered, !.focused = tree'.focused,
                                !.look = tree'.look, !.open = tree'.open,
                                !.offset = tree'.offset],
           SameLooks(tree, tree', "pressed"),
           Shows(tree', "hovered", tree'.hovered), Shows(tree', "focused", tree'.focused)
    PROVE  Kept
<1>1. /\ tree'.index = tree.index /\ tree'.order = tree.order
      /\ tree'.captured = tree.captured /\ tree'.drag = tree.drag
  BY DEF RoutingInv, RoutingTypeOK, Tree
<1>2. RoutingTypeOK' /\ PressedIndexed' /\ OffsetsBounded'
  BY <1>1 DEF RoutingInv, RoutingTypeOK, PressedIndexed, OffsetsBounded, OffsetsIn
<1>3. CaptureLasts' /\ ReleaseReachesPressed' /\ DragHeld'
  BY <1>1 DEF RoutingInv, CaptureLasts, ReleaseReachesPressed, DragHeld, Dragging
<1>4. LooksMatch'
  <2>1. None \notin tree'.index /\ tree'.index \subseteq Widgets
    BY DEF RoutingAssumption, Tree
  <2>2. \A w \in tree.index : "pressed" \in tree'.look[w] <=> "pressed" \in tree.look[w]
    BY <1>1, <2>1 DEF SameLooks
  <2>3. QED
    BY <1>1, <2>1, <2>2 DEF RoutingInv, LooksMatch, Shows, Dragging
<1>5. QED
  BY <1>1, <1>2, <1>3, <1>4 DEF RoutingInv, Kept

LEMMA MouseMoveStep ==
    ASSUME RoutingAssumption, RoutingInv, NEW w \in Shown, RouteMouseMove(w)
    PROVE  Kept
<1> DEFINE t == UpdateHover(tree, w)
<1>1. tree \in Tree /\ w \in Widgets \cup {None} /\ None \notin Widgets
  BY DEF RoutingInv, RoutingTypeOK, Shown, Tree, RoutingAssumption
<1>2. LooksShow
  BY <1>1, LooksByFlag DEF RoutingInv
<1>3. /\ t \in Tree
      /\ t = [tree EXCEPT !.hovered = w, !.look = t.look]
      /\ SameLooks(tree, t, "pressed") /\ SameLooks(tree, t, "focused")
      /\ Shows(t, "hovered", w)
  BY <1>1, <1>2, UpdateHoverDoes DEF LooksShow
<1>4. IF Dragging(t) THEN \E y \in Ys : tree' = UpdateDrag(t, y) ELSE tree' = t
  BY DEF RouteMouseMove
<1> HIDE DEF t
<1>5. /\ t.hovered = w /\ t.focused = tree.focused
      /\ t.index = tree.index /\ t.offset = tree.offset
  BY <1>1, <1>3 DEF Tree
<1>6. Shows(t, "focused", t.focused) /\ OffsetsIn(t)
  <2>1. tree.index \subseteq Widgets
    BY <1>1 DEF Tree
  <2>2. QED
    BY <1>2, <1>3, <1>5, <2>1
       DEF LooksShow, Shows, SameLooks, OffsetsIn, RoutingInv, OffsetsBounded
<1>7. tree' \in Tree /\ OffsetsIn(tree') /\ tree' = [t EXCEPT !.offset = tree'.offset]
  <2>1. CASE Dragging(t)
    <3>1. PICK y \in Ys : tree' = UpdateDrag(t, y)
      BY <1>4, <2>1
    <3>2. y \in Nat
      BY DEF RoutingAssumption
    <3>3. QED
      BY <1>3, <1>6, <2>1, <3>1, <3>2, UpdateDragDoes
  <2>2. CASE ~Dragging(t)
    <3>1. tree' = t
      BY <1>4, <2>2
    <3>2. QED
      BY <1>3, <1>6, <3>1 DEF Tree
  <2>3. QED
    BY <2>1, <2>2
<1>8. /\ tree'.look = t.look /\ tree'.hovered = t.hovered
      /\ tree'.focused = t.focused /\ tree'.index = t.index
  BY <1>3, <1>7 DEF Tree
<1>9. tree' = [tree EXCEPT !.hovered = tree'.hovered, !.focused = tree'.focused,
                           !.look = tree'.look, !.open = tree'.open,
                           !.offset = tree'.offset]
  BY <1>1, <1>3, <1>7 DEF Tree
<1>10. /\ SameLooks(tree, tree', "pressed")
       /\ Shows(tree', "hovered", tree'.hovered) /\ Shows(tree', "focused", tree'.focused)
  BY <1>3, <1>5, <1>6, <1>8 DEF SameLooks, Shows
<1>11. UNCHANGED <<down, heard, chord>>
  BY DEF RouteMouseMove
<1>12. QED
  BY <1>7, <1>9, <1>10, <1>11, QuietStep

LEMMA ScrollStep ==
    ASSUME RoutingAssumption, RoutingInv, NEW w \in Shown, NEW d \in Deltas,
           RouteMouseScroll(w, d)
    PROVE  Kept
<1>1. /\ tree \in Tree /\ w \in Widgets \cup {None} /\ None \notin Widgets /\ d \in Int
      /\ OffsetsIn(tree)
  BY DEF RoutingInv, RoutingTypeOK, Shown, Tree, RoutingAssumption, OffsetsBounded, OffsetsIn
<1>2. LooksShow
  BY <1>1, LooksByFlag DEF RoutingInv
<1>3. tree' = ScrollAt(tree, w, d) /\ UNCHANGED <<down, heard, chord>>
  BY DEF RouteMouseScroll
<1>4. tree' \in Tree /\ tree' = [tree EXCEPT !.offset = tree'.offset] /\ OffsetsIn(tree')
  BY <1>1, <1>3, ScrollAtDoes
<1>5. /\ tree'.look = tree.look /\ tree'.hovered = tree.hovered
      /\ tree'.focused = tree.focused /\ tree'.index = tree.index
  BY <1>1, <1>4 DEF Tree
<1>6. tree' = [tree EXCEPT !.hovered = tree'.hovered, !.focused = tree'.focused,
                           !.look = tree'.look, !.open = tree'.open,
                           !.offset = tree'.offset]
  BY <1>1, <1>4 DEF Tree
<1>7. /\ SameLooks(tree, tree', "pressed")
      /\ Shows(tree', "hovered", tree'.hovered) /\ Shows(tree', "focused", tree'.focused)
  BY <1>2, <1>5 DEF SameLooks, Shows, LooksShow
<1>8. QED
  BY <1>3, <1>4, <1>6, <1>7, QuietStep

\* Tab and Shift+Tab move the focus to a widget, when there is one to move it to.
LEMMA FocusMoves ==
    ASSUME RoutingAssumption, NEW t \in Tree, NEW u \in {FocusNext(t), FocusPrev(t)}
    PROVE  u = t \/ \E w \in Widgets : u = SetFocused(t, w)
<1> DEFINE i == FocusPlace(t)
<1>1. t.order \in Seq(Widgets)
  <2>1. t.order \in Seq(Focusable) /\ Focusable \subseteq Widgets
    BY DEF Tree, RoutingAssumption, Widgets
  <2>2. QED
    BY <2>1
<1>2. i \in DOMAIN t.order \cup {0}
  BY DEF FocusPlace, Range
<1>3. CASE t.order = <<>>
  BY <1>3 DEF FocusNext, FocusPrev
<1>4. CASE t.order # <<>>
  <2>1. /\ Head(t.order) \in Widgets /\ Last(t.order) \in Widgets
        /\ \A j \in DOMAIN t.order : t.order[j] \in Widgets
    BY <1>1, <1>4 DEF Last
  <2> HIDE DEF i
  <2>2. CASE u = FocusNext(t)
    <3>1. CASE i \in {0, Len(t.order)}
      <4>1. u = SetFocused(t, Head(t.order))
        BY <1>4, <2>2, <3>1 DEF FocusNext, i
      <4>2. QED
        BY <2>1, <4>1
    <3>2. CASE i \notin {0, Len(t.order)}
      <4>1. u = SetFocused(t, t.order[i + 1])
        BY <1>4, <2>2, <3>2 DEF FocusNext, i
      <4>2. i + 1 \in DOMAIN t.order
        BY <1>1, <1>2, <3>2
      <4>3. QED
        BY <2>1, <4>1, <4>2
    <3>3. QED
      BY <3>1, <3>2
  <2>3. CASE u = FocusPrev(t)
    <3>1. CASE i \in {0, 1}
      <4>1. u = SetFocused(t, Last(t.order))
        BY <1>4, <2>3, <3>1 DEF FocusPrev, i
      <4>2. QED
        BY <2>1, <4>1
    <3>2. CASE i \notin {0, 1}
      <4>1. u = SetFocused(t, t.order[i - 1])
        BY <1>4, <2>3, <3>2 DEF FocusPrev, i
      <4>2. i - 1 \in DOMAIN t.order
        BY <1>1, <1>2, <3>2
      <4>3. QED
        BY <2>1, <4>1, <4>2
    <3>3. QED
      BY <3>1, <3>2
  <2>4. QED
    BY <2>2, <2>3
<1>5. QED
  BY <1>3, <1>4

\* A page key scrolls by a distance the user has.
LEMMA PageDistance ==
    ASSUME RoutingAssumption, NEW k \in KeysUsed \cap {"page_up", "page_down"}
    PROVE  (CHOOSE x \in Deltas : (x < 0) = (k = "page_up")) \in Int
<1>1. \E x \in Deltas : (x < 0) = (k = "page_up")
  BY DEF RoutingAssumption
<1>2. QED
  BY <1>1 DEF RoutingAssumption

\* What a key does: it moves the focus, scrolls, or opens and closes a popup.
LEMMA KeyDoes ==
    ASSUME RoutingAssumption, tree \in Tree, NEW k \in KeysUsed, RouteKeyPress(k)
    PROVE  \/ tree' = tree
           \/ k \in {"tab", "shift_tab"} /\ \E w \in Widgets : tree' = SetFocused(tree, w)
           \/ /\ tree.focused \in Widgets
              /\ \E d \in Int : tree' = ScrollAt(tree, tree.focused, d)
           \/ tree' = HandleKey(tree, tree.focused, k)
<1>1. tree' = CASE k = "tab"       -> FocusNext(tree)
                [] k = "shift_tab" -> FocusPrev(tree)
                [] k \in {"page_up", "page_down"} /\ tree.focused # None ->
                     LET d == CHOOSE x \in Deltas : (x < 0) = (k = "page_up")
                     IN  ScrollAt(tree, tree.focused, d)
                [] OTHER -> HandleKey(tree, tree.focused, k)
  BY DEF RouteKeyPress
<1>2. CASE k \in {"tab", "shift_tab"}
  <2>1. tree' \in {FocusNext(tree), FocusPrev(tree)}
    BY <1>1, <1>2
  <2>2. QED
    BY <1>2, <2>1, FocusMoves
<1>3. CASE k \in {"page_up", "page_down"} /\ tree.focused # None
  <2> DEFINE d == CHOOSE x \in Deltas : (x < 0) = (k = "page_up")
  <2>1. d \in Int
    BY <1>3, PageDistance
  <2>2. tree' = ScrollAt(tree, tree.focused, d)
    BY <1>1, <1>3
  <2>3. tree.focused \in Widgets
    BY <1>3 DEF Tree
  <2>4. QED
    BY <2>1, <2>2, <2>3
<1>4. CASE /\ k \notin {"tab", "shift_tab"}
           /\ ~(k \in {"page_up", "page_down"} /\ tree.focused # None)
  BY <1>1, <1>4
<1>5. QED
  BY <1>2, <1>3, <1>4

LEMMA KeyStep ==
    ASSUME RoutingAssumption, RoutingInv, NEW k \in KeysUsed, RouteKeyPress(k)
    PROVE  Kept
<1>1. /\ tree \in Tree /\ OffsetsIn(tree) /\ None \notin Widgets
      /\ tree.focused \in Widgets \cup {None} /\ tree.index \subseteq Widgets
  BY DEF RoutingInv, RoutingTypeOK, Tree, OffsetsBounded, OffsetsIn, RoutingAssumption
<1>2. LooksShow
  BY <1>1, LooksByFlag DEF RoutingInv
<1>3. UNCHANGED <<down, heard, chord>>
  BY DEF RouteKeyPress
<1>4. CASE tree' = tree
  <2>1. UNCHANGED routingVars
    BY <1>3, <1>4 DEF routingVars
  <2>2. tree' = [tree EXCEPT !.hovered = tree'.hovered, !.focused = tree'.focused,
                             !.look = tree'.look, !.open = tree'.open,
                             !.offset = tree'.offset]
    BY <1>1, <1>4 DEF Tree
  <2>3. QED
    BY <1>1, <1>2, <1>3, <1>4, <2>2, QuietStep DEF SameLooks, LooksShow
<1>5. ASSUME NEW w \in Widgets, tree' = SetFocused(tree, w) PROVE Kept
  <2> DEFINE id == IF w \in Range(tree.order) THEN w ELSE tree.focused
  <2>1. /\ tree' \in Tree
        /\ tree' = [tree EXCEPT !.focused = id, !.look = tree'.look]
        /\ SameLooks(tree, tree', "hovered") /\ SameLooks(tree, tree', "pressed")
        /\ Shows(tree', "focused", id)
    BY <1>1, <1>2, <1>5, SetFocusedDoes DEF LooksShow
  <2> HIDE DEF id
  <2>2. /\ tree'.hovered = tree.hovered /\ tree'.focused = id
        /\ tree'.index = tree.index /\ tree'.offset = tree.offset
    BY <1>1, <2>1 DEF Tree
  <2>3. tree' = [tree EXCEPT !.hovered = tree'.hovered, !.focused = tree'.focused,
                             !.look = tree'.look, !.open = tree'.open,
                             !.offset = tree'.offset]
    BY <1>1, <2>1 DEF Tree
  <2>4. Shows(tree', "hovered", tree'.hovered) /\ OffsetsIn(tree')
    BY <1>1, <1>2, <2>1, <2>2 DEF LooksShow, Shows, SameLooks, OffsetsIn
  <2>5. QED
    BY <1>3, <2>1, <2>2, <2>3, <2>4, QuietStep
<1>6. ASSUME NEW d \in Int, tree' = ScrollAt(tree, tree.focused, d) PROVE Kept
  <2>1. tree' \in Tree /\ tree' = [tree EXCEPT !.offset = tree'.offset] /\ OffsetsIn(tree')
    BY <1>1, <1>6, ScrollAtDoes
  <2>2. /\ tree'.look = tree.look /\ tree'.hovered = tree.hovered
        /\ tree'.focused = tree.focused /\ tree'.index = tree.index
    BY <1>1, <2>1 DEF Tree
  <2>3. tree' = [tree EXCEPT !.hovered = tree'.hovered, !.focused = tree'.focused,
                             !.look = tree'.look, !.open = tree'.open,
                             !.offset = tree'.offset]
    BY <1>1, <2>1 DEF Tree
  <2>4. QED
    BY <1>2, <1>3, <2>1, <2>2, <2>3, QuietStep DEF SameLooks, Shows, LooksShow
<1>7. ASSUME tree' = HandleKey(tree, tree.focused, k) PROVE Kept
  <2>1. tree' \in Tree /\ tree' = [tree EXCEPT !.open = tree'.open]
    BY <1>1, <1>7, HandleKeyDoes
  <2>2. /\ tree'.look = tree.look /\ tree'.hovered = tree.hovered
        /\ tree'.focused = tree.focused /\ tree'.index = tree.index
        /\ tree'.offset = tree.offset
    BY <1>1, <2>1 DEF Tree
  <2>3. tree' = [tree EXCEPT !.hovered = tree'.hovered, !.focused = tree'.focused,
                             !.look = tree'.look, !.open = tree'.open,
                             !.offset = tree'.offset]
    BY <1>1, <2>1 DEF Tree
  <2>4. QED
    BY <1>1, <1>2, <1>3, <2>1, <2>2, <2>3, QuietStep DEF SameLooks, Shows, LooksShow, OffsetsIn
<1>8. QED
  BY <1>1, <1>4, <1>5, <1>6, <1>7, KeyDoes

\* A press on a widget captures it, gives it the focus it can take, and leaves
\* open no popup but those of the focused widget and its own.
LEMMA PressWidgetDoes ==
    ASSUME NEW t \in Tree, NEW w \in Widgets, None \notin Widgets
    PROVE  LET u == PressWidget(t, w)
               id == IF w \in Range(t.order) THEN w ELSE t.focused
           IN  /\ u \in Tree
               /\ u = [t EXCEPT !.captured = w, !.focused = id,
                               !.look = u.look, !.open = u.open]
               /\ SameLooks(t, u, "hovered")
               /\ Shows(t, "focused", t.focused) => Shows(u, "focused", id)
               /\ Shows(t, "pressed", None) => Shows(u, "pressed", w)
               /\ u.open \subseteq (IF w = t.focused THEN t.open ELSE {}) \cup ({w} \cap Dropdowns)
<1> DEFINE u == PressWidget(t, w)
           id == IF w \in Range(t.order) THEN w ELSE t.focused
           t1 == SetPressed(t, w, TRUE)
           t2 == IF w = t.focused THEN t1 ELSE CloseOverlays(t1)
           t3 == SetFocused(t2, w)
<1>1. u = HandlePress(t3, w)
  BY DEF PressWidget
<1>2. /\ t1 \in Tree
      /\ t1 = [t EXCEPT !.captured = w, !.look = t1.look]
      /\ SameLooks(t, t1, "hovered") /\ SameLooks(t, t1, "focused")
      /\ \A v \in Widgets : "pressed" \in t1.look[v] <=>
                              IF v = w /\ w \in t.index THEN TRUE ELSE "pressed" \in t.look[v]
  <2>1. TRUE \in BOOLEAN
    OBVIOUS
  <2>2. QED
    BY <2>1, SetPressedDoes
<1> HIDE DEF u, t1
<1>3. /\ t2 \in Tree
      /\ t2 = [t EXCEPT !.captured = w, !.look = t1.look, !.open = t2.open]
      /\ t2.look = t1.look
      /\ t2.open = IF w = t.focused THEN t.open ELSE {}
  <2>1. CASE w = t.focused
    BY <1>2, <2>1 DEF Tree
  <2>2. CASE w # t.focused
    <3>1. t2 \in Tree /\ t2 = [t1 EXCEPT !.open = {}]
      BY <1>2, <2>2, CloseOverlaysDoes
    <3> HIDE DEF t2
    <3>2. QED
      BY <1>2, <2>2, <3>1 DEF Tree
  <2>3. QED
    BY <2>1, <2>2
<1> HIDE DEF t2
<1>4. t2.order = t.order /\ t2.focused = t.focused /\ t2.index = t.index
  BY <1>3 DEF Tree
<1>5. /\ t3 \in Tree
      /\ t3 = [t2 EXCEPT !.focused = id, !.look = t3.look]
      /\ SameLooks(t2, t3, "hovered") /\ SameLooks(t2, t3, "pressed")
      /\ Shows(t2, "focused", t2.focused) => Shows(t3, "focused", id)
  <2>1. id = IF w \in Range(t2.order) THEN w ELSE t2.focused
    BY <1>4
  <2> HIDE DEF id
  <2>2. QED
    BY <1>3, <2>1, SetFocusedDoes
<1> HIDE DEF t3, id
<1>6. /\ u \in Tree
      /\ u = [t3 EXCEPT !.open = u.open]
      /\ u.open \subseteq t3.open \cup ({w} \cap Dropdowns)
  BY <1>1, <1>5, HandlePressDoes
<1>7. /\ t3.open = t2.open /\ u.look = t3.look /\ t3.index = t.index
      /\ u.index = t.index /\ t.index \subseteq Widgets
  <2>1. t3.open = t2.open /\ t3.index = t2.index
    BY <1>3, <1>5 DEF Tree
  <2>2. u.look = t3.look /\ u.index = t3.index
    BY <1>5, <1>6 DEF Tree
  <2>3. QED
    BY <1>4, <2>1, <2>2 DEF Tree
<1>8. u = [t EXCEPT !.captured = w, !.focused = id, !.look = u.look, !.open = u.open]
  <2>1. t3 = [t EXCEPT !.captured = w, !.focused = id, !.look = t3.look, !.open = t3.open]
    BY <1>3, <1>5, ZenonT(30) DEF Tree
  <2>2. QED
    BY <1>5, <1>6, <2>1, ZenonT(30) DEF Tree
<1>9. SameLooks(t, u, "hovered")
  BY <1>2, <1>3, <1>5, <1>7 DEF SameLooks
<1>10. ASSUME Shows(t, "focused", t.focused) PROVE Shows(u, "focused", id)
  <2>1. Shows(t2, "focused", t2.focused)
    BY <1>2, <1>3, <1>4, <1>7, <1>10 DEF Shows, SameLooks
  <2>2. QED
    BY <1>5, <1>7, <2>1 DEF Shows
<1>11. ASSUME Shows(t, "pressed", None) PROVE Shows(u, "pressed", w)
  <2>1. \A v \in t.index \ Recycled : "pressed" \in t1.look[v] <=> w = v
    BY <1>2, <1>7, <1>11 DEF Shows
  <2>2. \A v \in t.index : "pressed" \in u.look[v] <=> "pressed" \in t1.look[v]
    BY <1>3, <1>5, <1>7 DEF SameLooks
  <2>3. QED
    BY <1>7, <2>1, <2>2 DEF Shows
<1>12. QED
  BY <1>3, <1>6, <1>7, <1>8, <1>9, <1>10, <1>11 DEF u, id

\* What every press has in common: the buttons, and what was heard.
LEMMA PressHeard ==
    ASSUME RoutingInv, NEW w \in Shown, NEW b \in Buttons,
           down' = down \cup {b}, chord' = (chord \/ down # {}), ~chord,
           NEW v \in Widgets \cup {None}, None \notin Widgets, HearPress(tree, v, b)
    PROVE  /\ down' \subseteq Buttons /\ chord' \in BOOLEAN
           /\ heard' \in [Widgets -> SUBSET Buttons]
           /\ ~chord' => /\ down = {} /\ down' = {b}
                         /\ tree.captured = None /\ ~Dragging(tree)
                         /\ \A x \in Standing : heard'[x] \subseteq {b}
                         /\ \A x \in Standing : heard'[x] # {} => x = v /\ v \in tree.index
<1>1. /\ tree.index \subseteq Widgets /\ down \subseteq Buttons
      /\ heard \in [Widgets -> SUBSET Buttons] /\ Standing \subseteq Widgets
  BY DEF RoutingInv, RoutingTypeOK, Tree, Standing
<1>2. CASE chord'
  BY <1>1, <1>2 DEF HearPress
<1>3. CASE ~chord'
  <2>1. down = {} /\ down' = {b} /\ chord' = FALSE
    BY <1>3
  <2>2. /\ tree.captured = None /\ ~Dragging(tree)
        /\ \A x \in Standing : heard[x] = {}
    BY <2>1 DEF RoutingInv, CaptureLasts, DragHeld
  <2>3. heard' = IF v \in tree.index THEN [heard EXCEPT ![v] = @ \cup {b}] ELSE heard
    BY <1>3 DEF HearPress
  <2>4. heard' \in [Widgets -> SUBSET Buttons]
    BY <1>1, <2>3
  <2>5. \A x \in Standing : heard'[x] = IF x = v /\ v \in tree.index THEN {b} ELSE {}
    BY <1>1, <2>2, <2>3
  <2>6. QED
    BY <1>1, <2>1, <2>2, <2>4, <2>5
<1>4. QED
  BY <1>2, <1>3

\* From what a press leaves in the tree to the invariant.
LEMMA PressEnds ==
    ASSUME RoutingInv, None \notin Widgets, NEW v \in Widgets \cup {None},
           tree' \in Tree, OffsetsIn(tree'),
           tree'.index = tree.index, tree'.order = tree.order,
           Shows(tree', "hovered", tree'.hovered), Shows(tree', "focused", tree'.focused),
           down' \subseteq Buttons, chord' \in BOOLEAN,
           heard' \in [Widgets -> SUBSET Buttons], NEW b \in down',
           ~chord' => /\ down' = {b}
                      /\ \A x \in Standing : heard'[x] \subseteq {b}
                      /\ \A x \in Standing :
                            heard'[x] # {} => x = v /\ v = tree'.captured /\ v \in tree.index
                      /\ Shows(tree', "pressed", PressedOne(tree'))
                      /\ Dragging(tree') => v = None /\ tree'.captured = tree'.drag.scroll
    PROVE  Kept
<1>1. RoutingTypeOK' /\ PressedIndexed' /\ OffsetsBounded'
  BY DEF RoutingInv, RoutingTypeOK, PressedIndexed, OffsetsBounded, OffsetsIn
<1>2. None \notin Standing
  BY DEF Standing
<1>3. CaptureLasts' /\ ReleaseReachesPressed' /\ DragHeld'
  BY <1>2 DEF CaptureLasts, ReleaseReachesPressed, DragHeld, Dragging
<1>4. LooksMatch'
  <2>1. None \notin tree'.index
    BY DEF Tree
  <2>2. QED
    BY <2>1 DEF LooksMatch, Shows, PressedOne, Dragging
<1>5. QED
  BY <1>1, <1>3, <1>4 DEF RoutingInv, Kept

LEMMA PressStep ==
    ASSUME RoutingAssumption, RoutingInv, NEW w \in Shown, NEW b \in Buttons,
           RoutePress(w, b)
    PROVE  Kept
<1>1. /\ tree \in Tree /\ OffsetsIn(tree) /\ None \notin Widgets
      /\ tree.focused \in Widgets \cup {None} /\ tree.index \subseteq Widgets
  BY DEF RoutingInv, RoutingTypeOK, Tree, OffsetsBounded, OffsetsIn, RoutingAssumption
<1>2. LooksShow
  BY <1>1, LooksByFlag DEF RoutingInv
<1>3. ~chord /\ down' = down \cup {b} /\ chord' = (chord \/ down # {}) /\ b \in down'
  BY DEF RoutePress
<1>4. ~chord' => Shows(tree, "pressed", None)
  BY <1>2, <1>3 DEF LooksShow, PressedOne, RoutingInv, CaptureLasts, DragHeld
<1>5. CASE w \in Containers /\ (\E y \in Ys : tree' = BeginDrag(tree, w, y)) /\ HearPress(tree, None, b)
  <2>1. PICK y \in Ys : tree' = BeginDrag(tree, w, y)
    BY <1>5
  <2>2. y \in Nat /\ w \in Containers
    BY <1>5 DEF RoutingAssumption
  <2>3. /\ tree' \in Tree
        /\ tree' = [tree EXCEPT !.drag = tree'.drag, !.captured = w]
        /\ tree'.drag.scroll = w
    <3> DEFINE u == BeginDrag(tree, w, y)
    <3>1. tree \in Tree
      BY <1>1
    <3>2. u \in Tree /\ u.drag.scroll = w
      BY <2>2, <3>1, BeginDragDoes, ZenonT(30)
    <3>3. u = [tree EXCEPT !.drag = u.drag, !.captured = w]
      BY <2>2, <3>1, BeginDragDoes
    <3>4. QED
      BY <2>1, <3>2, <3>3
  <2>4. /\ tree'.index = tree.index /\ tree'.order = tree.order /\ tree'.look = tree.look
        /\ tree'.hovered = tree.hovered /\ tree'.focused = tree.focused
        /\ tree'.offset = tree.offset /\ Dragging(tree') /\ tree'.captured = tree'.drag.scroll
    BY <1>1, <1>5, <2>3 DEF Tree, Dragging, Widgets
  <2>5. /\ OffsetsIn(tree')
        /\ Shows(tree', "hovered", tree'.hovered) /\ Shows(tree', "focused", tree'.focused)
        /\ ~chord' => Shows(tree', "pressed", PressedOne(tree'))
    BY <1>1, <1>2, <1>4, <2>4 DEF OffsetsIn, LooksShow, Shows, PressedOne
  <2>6. /\ down' \subseteq Buttons /\ chord' \in BOOLEAN
        /\ heard' \in [Widgets -> SUBSET Buttons]
        /\ ~chord' => /\ down' = {b}
                      /\ \A x \in Standing : heard'[x] \subseteq {b}
                      /\ \A x \in Standing : heard'[x] # {} => x = None
    BY <1>1, <1>3, <1>5, PressHeard
  <2>7. None \notin Standing
    BY <1>1 DEF Standing
  <2>8. QED
    BY <1>1, <1>3, <2>3, <2>4, <2>5, <2>6, <2>7, PressEnds
<1>6. CASE w \in Leaves /\ tree' = PressWidget(tree, w) /\ HearPress(tree, w, b)
  <2> DEFINE id == IF w \in Range(tree.order) THEN w ELSE tree.focused
  <2>1. w \in Widgets
    BY <1>6 DEF Widgets
  <2>2. /\ tree' \in Tree
        /\ tree' = [tree EXCEPT !.captured = w, !.focused = id,
                                !.look = tree'.look, !.open = tree'.open]
        /\ SameLooks(tree, tree', "hovered")
        /\ Shows(tree', "focused", id)
        /\ ~chord' => Shows(tree', "pressed", w)
    BY <1>1, <1>2, <1>4, <1>6, <2>1, PressWidgetDoes DEF LooksShow
  <2> HIDE DEF id
  <2>3. /\ tree'.index = tree.index /\ tree'.order = tree.order /\ tree'.captured = w
        /\ tree'.hovered = tree.hovered /\ tree'.focused = id
        /\ tree'.offset = tree.offset /\ tree'.drag = tree.drag
    BY <1>1, <2>2 DEF Tree
  <2>4. OffsetsIn(tree') /\ Shows(tree', "hovered", tree'.hovered)
    BY <1>1, <1>2, <2>2, <2>3 DEF OffsetsIn, LooksShow, Shows, SameLooks
  <2>5. /\ down' \subseteq Buttons /\ chord' \in BOOLEAN
        /\ heard' \in [Widgets -> SUBSET Buttons]
        /\ ~chord' => /\ down' = {b} /\ ~Dragging(tree)
                      /\ \A x \in Standing : heard'[x] \subseteq {b}
                      /\ \A x \in Standing : heard'[x] # {} => x = w /\ w \in tree.index
    BY <1>1, <1>3, <1>6, <2>1, PressHeard
  <2>6. ~chord' => ~Dragging(tree') /\ Shows(tree', "pressed", PressedOne(tree'))
    BY <2>2, <2>3, <2>5 DEF Dragging, PressedOne
  <2>7. QED
    BY <1>1, <1>3, <2>1, <2>2, <2>3, <2>4, <2>5, <2>6, PressEnds
<1>7. CASE w = None /\ tree' = ClearFocus(CloseOverlays(tree)) /\ HearPress(tree, None, b)
  <2> DEFINE t == CloseOverlays(tree)
  <2>1. t \in Tree /\ t = [tree EXCEPT !.open = {}]
    BY <1>1, CloseOverlaysDoes
  <2> HIDE DEF t
  <2>2. t.index = tree.index /\ t.look = tree.look /\ t.focused = tree.focused
    BY <1>1, <2>1 DEF Tree
  <2>3. /\ tree' \in Tree
        /\ tree' = [t EXCEPT !.focused = None, !.look = tree'.look]
        /\ SameLooks(t, tree', "hovered") /\ SameLooks(t, tree', "pressed")
        /\ Shows(tree', "focused", None)
    <3>1. tree' = ClearFocus(t) /\ Shows(t, "focused", t.focused)
      BY <1>2, <1>7, <2>2 DEF t, LooksShow, Shows
    <3>2. QED
      BY <1>1, <2>1, <3>1, ClearFocusDoes
  <2>4. /\ tree'.index = tree.index /\ tree'.order = tree.order
        /\ tree'.hovered = tree.hovered /\ tree'.focused = None
        /\ tree'.offset = tree.offset /\ tree'.drag = tree.drag
        /\ tree'.captured = tree.captured
    BY <1>1, <2>1, <2>3 DEF Tree
  <2>5. /\ down' \subseteq Buttons /\ chord' \in BOOLEAN
        /\ heard' \in [Widgets -> SUBSET Buttons]
        /\ ~chord' => /\ down' = {b} /\ ~Dragging(tree) /\ tree.captured = None
                      /\ \A x \in Standing : heard'[x] \subseteq {b}
                      /\ \A x \in Standing : heard'[x] # {} => x = None
    BY <1>1, <1>3, <1>7, PressHeard
  <2>6. OffsetsIn(tree') /\ Shows(tree', "hovered", tree'.hovered)
    BY <1>1, <1>2, <2>2, <2>3, <2>4 DEF OffsetsIn, LooksShow, Shows, SameLooks
  <2>7. ~chord' => ~Dragging(tree') /\ Shows(tree', "pressed", PressedOne(tree'))
    BY <1>1, <1>4, <2>2, <2>3, <2>4, <2>5 DEF Dragging, PressedOne, Shows, SameLooks
  <2>8. None \notin Standing
    BY <1>1 DEF Standing
  <2>9. QED
    BY <1>1, <1>3, <2>3, <2>4, <2>5, <2>6, <2>7, <2>8, PressEnds
<1>8. QED
  BY <1>5, <1>6, <1>7 DEF RoutePress

\* Letting go of a widget ends the capture, and the widget's pressed look.
LEMMA LetGo ==
    ASSUME NEW t \in Tree, None \notin Widgets, NEW v \in Widgets \cup {None}, OffsetsIn(t),
           Shows(t, "hovered", t.hovered), Shows(t, "focused", t.focused), ~Dragging(t)
    PROVE  LET u == SetPressed(t, v, FALSE)
           IN  /\ u \in Tree /\ OffsetsIn(u)
               /\ u.index = t.index /\ u.order = t.order
               /\ Shows(u, "hovered", u.hovered) /\ Shows(u, "focused", u.focused)
               /\ u.captured = None /\ ~Dragging(u)
               /\ Shows(t, "pressed", None) \/ Shows(t, "pressed", v) => Shows(u, "pressed", None)
<1> DEFINE u == SetPressed(t, v, FALSE)
<1>1. /\ u \in Tree
      /\ u = [t EXCEPT !.captured = None, !.look = u.look]
      /\ SameLooks(t, u, "hovered") /\ SameLooks(t, u, "focused")
      /\ \A x \in Widgets : "pressed" \in u.look[x] <=>
                              IF x = v /\ v \in t.index THEN FALSE ELSE "pressed" \in t.look[x]
  <2>1. FALSE \in BOOLEAN
    OBVIOUS
  <2>2. QED
    BY <2>1, SetPressedDoes
<1> HIDE DEF u
<1>2. /\ u.index = t.index /\ u.order = t.order /\ u.drag = t.drag /\ u.offset = t.offset
      /\ u.hovered = t.hovered /\ u.focused = t.focused /\ u.captured = None
      /\ t.index \subseteq Widgets
  BY <1>1 DEF Tree
<1>3. OffsetsIn(u) /\ ~Dragging(u)
  BY <1>2 DEF OffsetsIn, Dragging
<1>4. Shows(u, "hovered", u.hovered) /\ Shows(u, "focused", u.focused)
  BY <1>1, <1>2 DEF Shows, SameLooks
<1>5. Shows(t, "pressed", None) \/ Shows(t, "pressed", v) => Shows(u, "pressed", None)
  BY <1>1, <1>2 DEF Shows
<1>6. QED
  BY <1>1, <1>2, <1>3, <1>4, <1>5 DEF u

\* From what a release leaves to the invariant.
LEMMA ReleaseEnds ==
    ASSUME RoutingInv, None \notin Widgets, NEW b \in down, down' = down \ {b}, chord' = chord,
           tree' \in Tree, OffsetsIn(tree'),
           tree'.index = tree.index, tree'.order = tree.order,
           Shows(tree', "hovered", tree'.hovered), Shows(tree', "focused", tree'.focused),
           ~chord => Shows(tree', "pressed", None),
           tree'.captured = None, ~Dragging(tree'),
           heard' \in [Widgets -> SUBSET Buttons],
           ~chord => \A x \in Standing : heard'[x] = {}
    PROVE  Kept
<1>1. RoutingTypeOK' /\ PressedIndexed' /\ OffsetsBounded'
  BY DEF RoutingInv, RoutingTypeOK, PressedIndexed, OffsetsBounded, OffsetsIn
<1>2. CaptureLasts' /\ ReleaseReachesPressed' /\ DragHeld'
  BY DEF CaptureLasts, ReleaseReachesPressed, DragHeld, RoutingInv, Dragging
<1>3. LooksMatch'
  <2>1. None \notin tree'.index
    BY DEF Tree
  <2>2. QED
    BY <2>1 DEF LooksMatch, Shows, PressedOne, Dragging
<1>4. QED
  BY <1>1, <1>2, <1>3 DEF RoutingInv, Kept

LEMMA ReleaseStep ==
    ASSUME RoutingAssumption, RoutingInv, NEW w \in Shown, NEW b \in Buttons,
           RouteRelease(w, b)
    PROVE  Kept
<1>1. /\ tree \in Tree /\ OffsetsIn(tree) /\ None \notin Widgets
      /\ tree.captured \in Widgets \cup {None} /\ tree.index \subseteq Widgets
      /\ w \in Widgets \cup {None} /\ heard \in [Widgets -> SUBSET Buttons]
      /\ Standing \subseteq Widgets
  BY DEF RoutingInv, RoutingTypeOK, Tree, OffsetsBounded, OffsetsIn, RoutingAssumption,
         Shown, Standing
<1>2. /\ Shows(tree, "hovered", tree.hovered) /\ Shows(tree, "focused", tree.focused)
      /\ chord \/ Shows(tree, "pressed", PressedOne(tree))
  BY <1>1, LooksByFlag DEF RoutingInv, LooksShow
<1>3. b \in down /\ down' = down \ {b} /\ chord' = chord
  BY DEF RouteRelease
<1>4. ~chord => /\ down = {b}
                /\ \A x \in Standing : heard[x] \subseteq {b}
                /\ \A x \in Standing :
                      heard[x] # {} => tree.captured = x /\ x \in tree.index
  BY <1>3 DEF RoutingInv, CaptureLasts, ReleaseReachesPressed, PressedIndexed
\* The thumb is let go.
<1>5. CASE Dragging(tree) /\ tree' = SetPressed(EndDrag(tree), tree.captured, FALSE) /\ UNCHANGED heard
  <2> DEFINE t == EndDrag(tree)
  <2>1. t \in Tree /\ t = [tree EXCEPT !.drag = NoDrag] /\ ~Dragging(t)
    BY <1>1, EndDragDoes
  <2>2. tree' = SetPressed(t, tree.captured, FALSE)
    BY <1>5
  <2> HIDE DEF t
  <2>3. /\ t.index = tree.index /\ t.order = tree.order /\ t.look = tree.look
        /\ t.hovered = tree.hovered /\ t.focused = tree.focused /\ t.offset = tree.offset
    BY <1>1, <2>1 DEF Tree
  <2>4. /\ OffsetsIn(t)
        /\ Shows(t, "hovered", t.hovered) /\ Shows(t, "focused", t.focused)
        /\ chord \/ Shows(t, "pressed", None)
    BY <1>1, <1>2, <1>5, <2>3 DEF OffsetsIn, Shows, PressedOne
  <2>5. ~chord => \A x \in Standing : heard'[x] = {}
    BY <1>5 DEF RoutingInv, DragHeld
  <2>6. /\ tree' \in Tree /\ OffsetsIn(tree')
        /\ tree'.index = t.index /\ tree'.order = t.order
        /\ Shows(tree', "hovered", tree'.hovered) /\ Shows(tree', "focused", tree'.focused)
        /\ tree'.captured = None /\ ~Dragging(tree')
        /\ ~chord => Shows(tree', "pressed", None)
    BY <1>1, <2>1, <2>2, <2>4, LetGo
  <2>7. QED
    BY <1>1, <1>3, <1>5, <2>3, <2>5, <2>6, ReleaseEnds
\* The captured widget hears the release.
<1>6. CASE /\ ~Dragging(tree) /\ tree.captured # None
           /\ tree' = SetPressed(tree, tree.captured, FALSE)
           /\ HearRelease(tree, tree.captured, b)
  <2>1. chord \/ Shows(tree, "pressed", tree.captured)
    BY <1>2, <1>6 DEF PressedOne
  <2>2. heard' \in [Widgets -> SUBSET Buttons]
    BY <1>1, <1>6 DEF HearRelease
  <2>3. ~chord => \A x \in Standing : heard'[x] = {}
    BY <1>1, <1>4, <1>6 DEF HearRelease
  <2>4. QED
    BY <1>1, <1>2, <1>3, <1>6, <2>1, <2>2, <2>3, LetGo, ReleaseEnds
\* Nothing is captured: the widget under the pointer hears it.
<1>7. CASE /\ ~Dragging(tree) /\ tree.captured = None /\ w # None
           /\ tree' = SetPressed(tree, w, FALSE)
           /\ HearRelease(tree, w, b)
  <2>1. chord \/ Shows(tree, "pressed", None)
    BY <1>2, <1>7 DEF PressedOne
  <2>2. heard' \in [Widgets -> SUBSET Buttons]
    BY <1>1, <1>7 DEF HearRelease
  <2>3. None \notin Standing
    BY <1>1
  <2>4. ~chord => \A x \in Standing : heard'[x] = {}
    BY <1>1, <1>4, <1>7, <2>3 DEF HearRelease
  <2>5. QED
    BY <1>1, <1>2, <1>3, <1>7, <2>1, <2>2, <2>4, LetGo, ReleaseEnds
<1>8. CASE ~Dragging(tree) /\ tree.captured = None /\ w = None /\ UNCHANGED <<tree, heard>>
  <2>1. None \notin Standing
    BY <1>1
  <2>2. ~chord => \A x \in Standing : heard'[x] = {}
    BY <1>4, <1>8, <2>1
  <2>3. ~chord => Shows(tree, "pressed", None)
    BY <1>2, <1>8 DEF PressedOne
  <2>4. QED
    BY <1>1, <1>2, <1>3, <1>8, <2>2, <2>3, ReleaseEnds
<1>9. QED
  BY <1>5, <1>6, <1>7, <1>8 DEF RouteRelease

LEMMA RoutingInvInit ==
    ASSUME RoutingAssumption, NEW index \in SUBSET Widgets, NEW order \in Seq(Focusable),
           RoutingInitOver(index, order)
    PROVE  RoutingInv
<1> DEFINE t == FreshTree(index, order)
<1>1. tree = t /\ down = {} /\ heard = [w \in Widgets |-> {}] /\ chord = FALSE
  BY DEF RoutingInitOver
<1>2. t \in Tree
  BY DEF FreshTree, Tree, NoDrag
<1>3. RoutingTypeOK /\ PressedIndexed
  BY <1>1, <1>2 DEF RoutingTypeOK, PressedIndexed, Standing
<1>4. OffsetsBounded
  BY <1>1 DEF OffsetsBounded, FreshTree, RoutingAssumption
<1>5. CaptureLasts /\ ReleaseReachesPressed /\ DragHeld
  BY <1>1 DEF CaptureLasts, ReleaseReachesPressed, DragHeld, FreshTree, Dragging, NoDrag, Standing
<1>6. LooksMatch
  <2>1. None \notin index
    BY DEF RoutingAssumption
  <2>2. QED
    BY <1>1, <2>1 DEF LooksMatch, FreshTree
<1>7. QED
  BY <1>3, <1>4, <1>5, <1>6 DEF RoutingInv

LEMMA RoutingInvStep ==
    ASSUME RoutingAssumption, RoutingInv, [RoutingNext]_routingVars
    PROVE  Kept
<1>1. ASSUME NEW w \in Shown, RouteMouseMove(w) PROVE Kept
  BY <1>1, MouseMoveStep
<1>2. ASSUME NEW w \in Shown, NEW b \in Buttons, RoutePress(w, b) PROVE Kept
  BY <1>2, PressStep
<1>3. ASSUME NEW w \in Shown, NEW b \in Buttons, RouteRelease(w, b) PROVE Kept
  BY <1>3, ReleaseStep
<1>4. ASSUME NEW w \in Shown, NEW d \in Deltas, RouteMouseScroll(w, d) PROVE Kept
  BY <1>4, ScrollStep
<1>5. ASSUME NEW k \in KeysUsed, RouteKeyPress(k) PROVE Kept
  BY <1>5, KeyStep
<1>6. CASE UNCHANGED routingVars
  BY <1>6 DEF Kept, RoutingInv, RoutingTypeOK, PressedIndexed, OffsetsBounded, CaptureLasts,
              ReleaseReachesPressed, DragHeld, LooksMatch, Dragging, routingVars
<1>7. QED
  BY <1>1, <1>2, <1>3, <1>4, <1>5, <1>6 DEF RoutingNext

\* The strengthening of all the invariants below.
THEOREM RoutingInvariant ==
    ASSUME RoutingAssumption
    PROVE  RoutingSpec => [](RoutingInv /\ WidgetsFixed)
<1>1. RoutingInit => RoutingInv /\ WidgetsFixed
  <2>1. Standing \in SUBSET Widgets
    BY DEF Standing
  <2>2. TreeOrder \in Seq(Focusable)
    BY DEF RoutingAssumption
  <2>3. ASSUME RoutingInit PROVE RoutingInv
    <3>1. RoutingInitOver(Standing, TreeOrder)
      BY <2>3 DEF RoutingInit
    <3>2. QED
      BY <2>1, <2>2, <3>1, RoutingInvInit
  <2>4. ASSUME RoutingInit PROVE WidgetsFixed
    BY <2>4 DEF RoutingInit, RoutingInitOver, FreshTree, WidgetsFixed
  <2>5. QED
    BY <2>3, <2>4
<1>2. RoutingInv /\ WidgetsFixed /\ [RoutingNext]_routingVars => (RoutingInv /\ WidgetsFixed)'
  BY RoutingInvStep DEF Kept, WidgetsFixed
<1>3. QED
  BY <1>1, <1>2, PTL DEF RoutingSpec

\* The tree's record and the histories keep their types.  (WidgetTree)
THEOREM RoutingTypeCorrect ==
    ASSUME RoutingAssumption
    PROVE  RoutingSpec => []RoutingTypeOK
<1>1. RoutingInv => RoutingTypeOK
  BY DEF RoutingInv
<1>2. QED
  BY <1>1, RoutingInvariant, PTL

\* What a widget looks like is what the tree believes of it.  (update_hover, set_focused,
\* set_pressed)
THEOREM LooksCorrect ==
    ASSUME RoutingAssumption
    PROVE  RoutingSpec => []LooksMatch
<1>1. RoutingInv => LooksMatch
  BY DEF RoutingInv
<1>2. QED
  BY <1>1, RoutingInvariant, PTL

\* A widget that heard a press holds the capture until it hears the release.
\* (route_event)
THEOREM CaptureCorrect ==
    ASSUME RoutingAssumption
    PROVE  RoutingSpec => []ReleaseReachesPressed
<1>1. RoutingInv => ReleaseReachesPressed
  BY DEF RoutingInv
<1>2. QED
  BY <1>1, RoutingInvariant, PTL

\* The drag of a thumb ends with the press, and keeps the capture until then.
\* (begin_scrollbar_drag, end_scrollbar_drag, route_event)
THEOREM DragCorrect ==
    ASSUME RoutingAssumption
    PROVE  RoutingSpec => []DragHeld
<1>1. RoutingInv => DragHeld
  BY DEF RoutingInv
<1>2. QED
  BY <1>1, RoutingInvariant, PTL

-----------------------------------------------------------------------------
(* Popups. *)

LEMMA PopupStep ==
    ASSUME RoutingAssumption, RoutingInv, WidgetsFixed, [RoutingNext]_routingVars,
           PopupOfFocused
    PROVE  PopupOfFocused' \/ TabPressed
<1>1. /\ tree \in Tree /\ None \notin Widgets /\ OffsetsIn(tree)
      /\ tree.focused \in Widgets \cup {None}
      /\ Dropdowns \subseteq Range(tree.order) /\ tree.open \subseteq Dropdowns
  BY DEF RoutingInv, RoutingTypeOK, WidgetsFixed, OffsetsBounded, OffsetsIn, Tree,
         RoutingAssumption
<1>2. ASSUME tree'.open = tree.open, tree'.focused = tree.focused PROVE PopupOfFocused'
  BY <1>2 DEF PopupOfFocused
<1>3. ASSUME NEW w \in Shown, RouteMouseMove(w) PROVE PopupOfFocused'
  <2> DEFINE t == UpdateHover(tree, w)
  <2>1. w \in Widgets \cup {None}
    BY <1>1 DEF Shown, Tree
  <2>2. t \in Tree /\ t = [tree EXCEPT !.hovered = w, !.look = t.look]
    BY <1>1, <2>1, UpdateHoverDoes
  <2>3. tree' = t \/ (Dragging(t) /\ \E y \in Ys : tree' = UpdateDrag(t, y))
    BY <1>3 DEF RouteMouseMove
  <2> HIDE DEF t
  <2>4. t.open = tree.open /\ t.focused = tree.focused
    BY <1>1, <2>2 DEF Tree
  <2>5. tree'.open = t.open /\ tree'.focused = t.focused
    <3>1. CASE tree' = t
      BY <3>1
    <3>2. ASSUME Dragging(t), NEW y \in Ys, tree' = UpdateDrag(t, y)
          PROVE  tree'.open = t.open /\ tree'.focused = t.focused
      <4>1. y \in Nat /\ OffsetsIn(t)
        BY <1>1, <2>2 DEF RoutingAssumption, OffsetsIn, Tree
      <4>2. tree' = [t EXCEPT !.offset = tree'.offset]
        BY <2>2, <3>2, <4>1, UpdateDragDoes
      <4>3. QED
        BY <2>2, <4>2 DEF Tree
    <3>3. QED
      BY <2>3, <3>1, <3>2
  <2>6. QED
    BY <1>2, <2>4, <2>5
<1>4. ASSUME NEW w \in Shown, NEW b \in Buttons, RoutePress(w, b) PROVE PopupOfFocused'
  <2>1. CASE w \in Containers /\ \E y \in Ys : tree' = BeginDrag(tree, w, y)
    <3>1. tree'.open = tree.open /\ tree'.focused = tree.focused
      BY <1>1, <2>1 DEF BeginDrag, Tree
    <3>2. QED
      BY <1>2, <3>1
  <2>2. CASE w \in Leaves /\ tree' = PressWidget(tree, w)
    <3> DEFINE id == IF w \in Range(tree.order) THEN w ELSE tree.focused
    <3>1. w \in Widgets
      BY <2>2 DEF Widgets
    <3>2. /\ tree' = [tree EXCEPT !.captured = w, !.focused = id,
                                  !.look = tree'.look, !.open = tree'.open]
          /\ tree'.open \subseteq (IF w = tree.focused THEN tree.open ELSE {}) \cup ({w} \cap Dropdowns)
      BY <1>1, <2>2, <3>1, PressWidgetDoes
    <3>3. tree'.focused = id
      BY <1>1, <3>2 DEF Tree
    <3>4. ASSUME NEW x \in tree'.open PROVE id = x
      <4>1. CASE x \in {w} \cap Dropdowns
        BY <1>1, <4>1
      <4>2. CASE w = tree.focused /\ x \in tree.open
        BY <4>2 DEF PopupOfFocused
      <4>3. QED
        BY <3>2, <3>4, <4>1, <4>2
    <3>5. QED
      BY <3>3, <3>4 DEF PopupOfFocused
  <2>3. CASE w = None /\ tree' = ClearFocus(CloseOverlays(tree))
    <3> DEFINE t == CloseOverlays(tree)
    <3>1. t \in Tree /\ t.open = {}
      BY <1>1, CloseOverlaysDoes DEF Tree
    <3>2. tree' = [t EXCEPT !.focused = None, !.look = tree'.look]
      BY <1>1, <2>3, <3>1, ClearFocusDoes
    <3> HIDE DEF t
    <3>3. tree'.open = {}
      BY <3>1, <3>2 DEF Tree
    <3>4. QED
      BY <3>3 DEF PopupOfFocused
  <2>4. QED
    BY <1>4, <2>1, <2>2, <2>3 DEF RoutePress
<1>5. ASSUME NEW w \in Shown, NEW b \in Buttons, RouteRelease(w, b) PROVE PopupOfFocused'
  <2>1. /\ w \in Widgets \cup {None} /\ tree.captured \in Widgets \cup {None}
        /\ FALSE \in BOOLEAN
    BY <1>1 DEF Shown, Tree
  <2>2. CASE tree' = SetPressed(EndDrag(tree), tree.captured, FALSE)
    <3> DEFINE t == EndDrag(tree)
    <3>1. t \in Tree /\ t.open = tree.open /\ t.focused = tree.focused
      BY <1>1, EndDragDoes DEF Tree
    <3>2. tree' = [t EXCEPT !.captured = None, !.look = tree'.look]
      BY <2>1, <2>2, <3>1, SetPressedDoes
    <3> HIDE DEF t
    <3>3. tree'.open = tree.open /\ tree'.focused = tree.focused
      BY <3>1, <3>2 DEF Tree
    <3>4. QED
      BY <1>2, <3>3
  <2>3. ASSUME NEW v \in Widgets \cup {None}, tree' = SetPressed(tree, v, FALSE)
        PROVE  PopupOfFocused'
    <3>1. tree' = [tree EXCEPT !.captured = None, !.look = tree'.look]
      BY <1>1, <2>1, <2>3, SetPressedDoes
    <3>2. tree'.open = tree.open /\ tree'.focused = tree.focused
      BY <1>1, <3>1 DEF Tree
    <3>3. QED
      BY <1>2, <3>2
  <2>4. CASE UNCHANGED tree
    BY <1>2, <2>4
  <2>5. QED
    BY <1>5, <2>1, <2>2, <2>3, <2>4 DEF RouteRelease
<1>6. ASSUME NEW w \in Shown, NEW d \in Deltas, RouteMouseScroll(w, d) PROVE PopupOfFocused'
  <2>1. w \in Widgets \cup {None} /\ d \in Int
    BY <1>1 DEF Shown, Tree, RoutingAssumption
  <2>2. tree' = [tree EXCEPT !.offset = tree'.offset]
    BY <1>1, <1>6, <2>1, ScrollAtDoes DEF RouteMouseScroll
  <2>3. tree'.open = tree.open /\ tree'.focused = tree.focused
    BY <1>1, <2>2 DEF Tree
  <2>4. QED
    BY <1>2, <2>3
<1>7. ASSUME NEW k \in KeysUsed, RouteKeyPress(k) PROVE PopupOfFocused' \/ TabPressed
  <2>1. CASE k \in {"tab", "shift_tab"}
    BY <1>7, <2>1 DEF TabPressed
  <2>2. CASE tree' = tree
    BY <1>2, <2>2
  <2>3. ASSUME NEW d \in Int, tree' = ScrollAt(tree, tree.focused, d) PROVE PopupOfFocused'
    <3>1. tree' = [tree EXCEPT !.offset = tree'.offset]
      BY <1>1, <2>3, ScrollAtDoes
    <3>2. tree'.open = tree.open /\ tree'.focused = tree.focused
      BY <1>1, <3>1 DEF Tree
    <3>3. QED
      BY <1>2, <3>2
  <2>4. CASE tree' = HandleKey(tree, tree.focused, k)
    <3>1. /\ tree' = [tree EXCEPT !.open = tree'.open]
          /\ tree'.open \subseteq tree.open \cup {tree.focused}
      BY <1>1, <2>4, HandleKeyDoes
    <3>2. tree'.focused = tree.focused
      BY <1>1, <3>1 DEF Tree
    <3>3. QED
      BY <3>1, <3>2 DEF PopupOfFocused
  <2>5. QED
    BY <1>1, <1>7, <2>1, <2>2, <2>3, <2>4, KeyDoes
<1>8. CASE UNCHANGED routingVars
  BY <1>2, <1>8 DEF routingVars
<1>9. QED
  BY <1>3, <1>4, <1>5, <1>6, <1>7, <1>8 DEF RoutingNext

\* An open popup stays that of the focused widget until Tab is pressed.  (set_focused,
\* clear_focus, close_overlays)
THEOREM PopupCorrect ==
    ASSUME RoutingAssumption
    PROVE  RoutingSpec => PopupKept
<1>1. RoutingInv /\ WidgetsFixed /\ [RoutingNext]_routingVars
         => [PopupOfFocused => PopupOfFocused' \/ TabPressed]_routingVars
  BY PopupStep
<1>2. QED
  BY <1>1, RoutingInvariant, PTL DEF RoutingSpec, PopupKept

-----------------------------------------------------------------------------
(* The list: what VirtualListProofs proves of it. *)

ListP == INSTANCE VirtualListProofs

ListInv == ListP!ListInv
InLine(v) == ListP!InLine(v)

\* The list under the input is the one the theorems are about.
LEMMA ListSame ==
    /\ List!ConstantsAssumption <=> ListP!ConstantsAssumption
    /\ List!Init <=> ListP!Init
    /\ List!View = ListP!View
    /\ List!TypeOK <=> ListP!TypeOK
<1>1. List!View = ListP!View
  BY DEF List!View, ListP!View, List!Row, ListP!Row, List!Item, ListP!Item
<1>2. List!TypeOK <=> ListP!TypeOK
  BY <1>1 DEF List!TypeOK, ListP!TypeOK, List!Item, ListP!Item
<1>3. QED
  BY <1>1, <1>2 DEF List!ConstantsAssumption, ListP!ConstantsAssumption, List!Init, ListP!Init

LEMMA ListBuilds == List!Publish <=> ListP!Publish
<1>1. ASSUME NEW v PROVE List!Measure(v) = ListP!Measure(v)
  BY DEF List!Measure, ListP!Measure
<1>2. ASSUME NEW v PROVE List!VisibleRange(v) = ListP!VisibleRange(v)
  BY DEF List!VisibleRange, ListP!VisibleRange, List!HighOf, ListP!HighOf, List!LowOf,
         ListP!LowOf, List!CeilDiv, ListP!CeilDiv
<1>3. ASSUME NEW v PROVE List!Throws(v) <=> ListP!Throws(v)
  BY <1>1, <1>2 DEF List!Throws, ListP!Throws
<1>4. ASSUME NEW v PROVE List!Unbind(v) = ListP!Unbind(v)
  BY DEF List!Unbind, ListP!Unbind, List!Reverse, ListP!Reverse
<1>5. ASSUME NEW v, NEW r PROVE List!Bind(v, r) = ListP!Bind(v, r)
  BY DEF List!Bind, ListP!Bind, List!HighOf, ListP!HighOf, List!LowOf, ListP!LowOf
<1>6. ASSUME NEW v PROVE List!Materialize(v) = ListP!Materialize(v)
  BY <1>1, <1>2, <1>3, <1>4, <1>5 DEF List!Materialize, ListP!Materialize
<1>7. ASSUME NEW v PROVE List!Arrange(v) = ListP!Arrange(v)
  BY DEF List!Arrange, ListP!Arrange, List!MaxOffset, ListP!MaxOffset, List!Clamp, ListP!Clamp,
         List!HighOf, ListP!HighOf, List!LowOf, ListP!LowOf
<1>8. QED
  BY <1>3, <1>6, <1>7 DEF List!Publish, ListP!Publish

LEMMA ListSteps == List!Next => ListP!Next
<1>1. ASSUME NEW v PROVE List!MaxOffset(v) = ListP!MaxOffset(v)
  BY DEF List!MaxOffset, ListP!MaxOffset, List!HighOf, ListP!HighOf
<1>2. ASSUME NEW x, NEW a, NEW b PROVE List!Clamp(x, a, b) = ListP!Clamp(x, a, b)
  BY DEF List!Clamp, ListP!Clamp, List!HighOf, ListP!HighOf, List!LowOf, ListP!LowOf
<1>3. ASSUME NEW n PROVE List!Mutate(n) <=> ListP!Mutate(n)
  BY DEF List!Mutate, ListP!Mutate
<1>4. ASSUME NEW n PROVE List!ScrollTo(n) <=> ListP!ScrollTo(n)
  BY DEF List!ScrollTo, ListP!ScrollTo
<1>5. ASSUME NEW k PROVE List!PushBack(k) <=> ListP!PushBack(k)
  BY <1>3 DEF List!PushBack, ListP!PushBack
<1>6. ASSUME NEW i PROVE List!Erase(i) <=> ListP!Erase(i)
  BY <1>3 DEF List!Erase, ListP!Erase, List!RemoveAt, ListP!RemoveAt
<1>7. ASSUME NEW i PROVE List!SetItem(i) <=> ListP!SetItem(i)
  BY <1>3 DEF List!SetItem, ListP!SetItem
<1>8. ASSUME NEW j PROVE List!EditRow(j) <=> ListP!EditRow(j)
  BY <1>3 DEF List!EditRow, ListP!EditRow
<1>9. ASSUME NEW d PROVE List!Scroll(d) <=> ListP!Scroll(d)
  BY <1>1, <1>2, <1>4 DEF List!Scroll, ListP!Scroll
<1>10. ASSUME NEW i PROVE List!RevealRow(i) <=> ListP!RevealRow(i)
  BY <1>1, <1>2, <1>4 DEF List!RevealRow, ListP!RevealRow
<1>11. ASSUME NEW h PROVE List!Resize(h) <=> ListP!Resize(h)
  BY DEF List!Resize, ListP!Resize
<1>12. QED
  BY <1>5, <1>6, <1>7, <1>8, <1>9, <1>10, <1>11, ListBuilds DEF List!Next, ListP!Next

LEMMA ListInit ==
    ASSUME List!ConstantsAssumption, List!Init
    PROVE  ListInv
BY ListSame, ListP!ListInit DEF ListInv

LEMMA PublishStep ==
    ASSUME List!ConstantsAssumption, ListInv, List!Publish
    PROVE  ListInv'
BY ListSame, ListBuilds, ListP!PublishStep DEF ListInv

LEMMA ListStep ==
    ASSUME List!ConstantsAssumption, ListInv, List!Next
    PROVE  ListInv'
BY ListSame, ListSteps, ListP!ListStep DEF ListInv

LEMMA ListIdle ==
    ASSUME ListInv, UNCHANGED listVars
    PROVE  ListInv'
BY ListP!ListIdle DEF ListInv, ListP!vars, listVars

LEMMA ListShape ==
    ASSUME ListInv
    PROVE  List!TypeOK /\ view \in List!View /\ InLine(view)
BY ListSame DEF ListInv, ListP!ListInv, InLine, List!TypeOK

-----------------------------------------------------------------------------
(* The rows of a list under the input. *)

\* What is in the tree: the two widgets around the list, then its rows in order.
RowInv ==
    /\ RoutingInv
    /\ ListInv
    /\ Len(view.rows) <= MaxNodes
    /\ tree.index = {Before, After} \cup Range(RowIds(view))
    /\ tree.order = <<Before, After>> \o RowIds(view)

LEMMA RowIdsLine ==
    ASSUME NEW v \in List!View, InLine(v)
    PROVE  RowIds(v) = [j \in 1..Len(v.rows) |-> j] /\ Len(v.rows) \in Nat
<1>1. v.rows \in Seq(List!Row)
  BY DEF List!View
<1>2. DOMAIN v.rows = 1..Len(v.rows) /\ Len(v.rows) \in Nat
  BY <1>1
<1>3. QED
  BY <1>2 DEF RowIds, InLine, ListP!InLine

\* The rows of a list that fits have some of the node ids.
LEMMA RowIdsFit ==
    ASSUME RowAssumption, NEW v \in List!View, InLine(v), Len(v.rows) <= MaxNodes
    PROVE  RowIds(v) \in Seq(NodeIds) /\ Range(RowIds(v)) \subseteq Recycled
<1> DEFINE n == Len(v.rows)
<1>1. n \in Nat /\ MaxNodes \in Nat /\ n <= MaxNodes /\ NodeIds = 1..MaxNodes /\ Recycled = NodeIds
  BY RowIdsLine DEF RowAssumption, NodeIds
<1>2. RowIds(v) = [j \in 1..n |-> j]
  BY RowIdsLine
<1> HIDE DEF n
<1>3. \A j \in 1..n : j \in NodeIds
  BY <1>1
<1>4. RowIds(v) \in Seq(NodeIds)
  BY <1>1, <1>2, <1>3
<1>5. Range(RowIds(v)) \subseteq Recycled
  BY <1>1, <1>2, <1>3 DEF Range
<1>6. QED
  BY <1>4, <1>5

LEMMA FirstTwo ==
    /\ Cardinality({1, 2}) = 2
    /\ Cardinality({j \in {1, 2} : j < 1}) = 0
    /\ Cardinality({j \in {1, 2} : j < 2}) = 1
<1>1. Cardinality({1} \cup {2}) = 2
  <2>1. IsFiniteSet({1}) /\ Cardinality({1}) = 1 /\ 2 \notin {1}
    BY FS_Singleton
  <2>2. Cardinality({1} \cup {2}) = Cardinality({1}) + 1
    BY <2>1, FS_AddElement
  <2>3. QED
    BY <2>1, <2>2
<1>2. {1} \cup {2} = {1, 2} /\ {j \in {1, 2} : j < 1} = {} /\ {j \in {1, 2} : j < 2} = {1}
  OBVIOUS
<1>3. QED
  BY <1>1, <1>2, FS_EmptySet, FS_Singleton

\* What is left of the order when the rows are unindexed is what precedes them.
LEMMA WithoutRows ==
    ASSUME NEW W, NEW ids \in Seq(W), NEW a, NEW b, a \notin W, b \notin W
    PROVE  Without(<<a, b>> \o ids, Range(ids)) = <<a, b>>
<1> DEFINE s == <<a, b>> \o ids
           kept == {i \in DOMAIN s : s[i] \notin Range(ids)}
           S == W \cup {a, b}
<1>1. Range(ids) \subseteq W
  BY DEF Range
<1>2. ids \in Seq(S) /\ <<a, b>> \in Seq(S) /\ Len(<<a, b>>) = 2
  OBVIOUS
<1>3. /\ s \in Seq(S) /\ Len(s) = 2 + Len(ids) /\ Len(ids) \in Nat /\ s[1] = a /\ s[2] = b
      /\ \A i \in 3..(2 + Len(ids)) : s[i] = ids[i - 2]
  BY <1>2
<1>4. kept = {1, 2}
  <2>1. DOMAIN s = 1..(2 + Len(ids)) /\ DOMAIN ids = 1..Len(ids)
    BY <1>2, <1>3
  <2>2. 1 \in kept /\ 2 \in kept
    BY <1>1, <1>3, <2>1
  <2>3. ASSUME NEW i \in kept PROVE i \in {1, 2}
    <3>1. SUFFICES ASSUME i \in 3..(2 + Len(ids)) PROVE FALSE
      BY <1>3, <2>1
    <3>2. s[i] = ids[i - 2] /\ i - 2 \in DOMAIN ids
      BY <1>3, <2>1, <3>1
    <3>3. QED
      BY <3>2 DEF Range
  <2>4. QED
    BY <2>2, <2>3
<1> HIDE DEF kept, s
<1>5. Cardinality(kept) = 2 /\ Ahead(kept, 1) = 0 /\ Ahead(kept, 2) = 1
  BY <1>4, FirstTwo DEF Ahead
<1> DEFINE NthKept(n) == CHOOSE i \in kept : Ahead(kept, i) = n - 1
<1>6. NthKept(1) = 1 /\ NthKept(2) = 2
  BY <1>4, <1>5
<1>7. Without(s, Range(ids)) = [n \in 1..Cardinality(kept) |-> s[NthKept(n)]]
  BY DEF Without, Picked, kept
<1> HIDE DEF NthKept
<1>8. \A n \in 1..2 : s[NthKept(n)] = <<a, b>>[n]
  <2>1. s[NthKept(1)] = <<a, b>>[1] /\ s[NthKept(2)] = <<a, b>>[2]
    BY <1>3, <1>6
  <2>2. 1..2 = {1, 2}
    OBVIOUS
  <2>3. QED
    BY <2>1, <2>2
<1>9. Without(s, Range(ids)) = <<a, b>>
  <2>1. [n \in 1..2 |-> s[NthKept(n)]] = [n \in 1..2 |-> <<a, b>>[n]]
    BY <1>8
  <2>2. [n \in 1..2 |-> <<a, b>>[n]] = <<a, b>>
    OBVIOUS
  <2>3. QED
    BY <1>5, <1>7, <2>1, <2>2
<1>10. QED
  BY <1>9 DEF s

LEMMA RowRange ==
    ASSUME NEW S, NEW ids \in Seq(S), NEW a \in S, NEW b \in S
    PROVE  /\ <<a, b>> \o ids \in Seq(S)
           /\ DOMAIN (<<a, b>> \o ids) = 1..(2 + Len(ids))
           /\ Range(<<a, b>> \o ids) = {a, b} \cup Range(ids)
<1> DEFINE s == <<a, b>> \o ids
<1>1. <<a, b>> \in Seq(S) /\ Len(<<a, b>>) = 2
  OBVIOUS
<1>2. /\ s \in Seq(S) /\ Len(s) = 2 + Len(ids) /\ Len(ids) \in Nat /\ s[1] = a /\ s[2] = b
      /\ \A i \in 3..(2 + Len(ids)) : s[i] = ids[i - 2]
  BY <1>1
<1>3. DOMAIN s = 1..(2 + Len(ids)) /\ DOMAIN ids = 1..Len(ids)
  BY <1>2
<1> HIDE DEF s
<1>4. a \in Range(s) /\ b \in Range(s)
  BY <1>2, <1>3 DEF Range
<1>5. ASSUME NEW x \in Range(ids) PROVE x \in Range(s)
  <2>1. PICK i \in 1..Len(ids) : x = ids[i]
    BY <1>3 DEF Range
  <2>2. i + 2 \in 3..(2 + Len(ids)) /\ (i + 2) - 2 = i /\ i + 2 \in DOMAIN s
    BY <1>2, <1>3
  <2>3. s[i + 2] = x
    BY <1>2, <2>1, <2>2
  <2>4. QED
    BY <2>2, <2>3 DEF Range
<1>6. ASSUME NEW x \in Range(s) PROVE x \in {a, b} \cup Range(ids)
  <2>1. PICK i \in 1..(2 + Len(ids)) : x = s[i]
    BY <1>3 DEF Range
  <2>2. CASE i \in {1, 2}
    BY <1>2, <2>1, <2>2
  <2>3. CASE i \in 3..(2 + Len(ids))
    <3>1. x = ids[i - 2] /\ i - 2 \in DOMAIN ids
      BY <1>2, <1>3, <2>1, <2>3
    <3>2. QED
      BY <3>1 DEF Range
  <2>4. QED
    BY <1>2, <2>2, <2>3
<1>7. QED
  BY <1>2, <1>3, <1>4, <1>5, <1>6 DEF s

\* Recycled nodes come and go without the routing noticing.
LEMMA RebindDoes ==
    ASSUME RoutingAssumption, RoutingInv, NEW index \in SUBSET Widgets, NEW order \in Seq(Focusable),
           index \ Recycled = tree.index \ Recycled,
           tree' = [tree EXCEPT !.index = index, !.order = order],
           UNCHANGED <<down, heard, chord>>
    PROVE  RoutingInv' /\ tree'.index = index /\ tree'.order = order
<1>1. tree \in Tree
  BY DEF RoutingInv, RoutingTypeOK
<1>2. /\ tree' \in Tree /\ tree'.index = index /\ tree'.order = order
      /\ tree'.hovered = tree.hovered /\ tree'.focused = tree.focused
      /\ tree'.captured = tree.captured /\ tree'.look = tree.look
      /\ tree'.offset = tree.offset /\ tree'.drag = tree.drag
  BY <1>1 DEF Tree
<1>3. /\ RoutingTypeOK' /\ OffsetsBounded'
      /\ CaptureLasts' /\ ReleaseReachesPressed' /\ DragHeld'
  BY <1>2 DEF RoutingInv, RoutingTypeOK, OffsetsBounded, CaptureLasts, ReleaseReachesPressed,
              DragHeld, Dragging
<1>4. PressedIndexed'
  BY <1>2 DEF RoutingInv, PressedIndexed, Standing
<1>5. LooksMatch'
  BY <1>2 DEF RoutingInv, LooksMatch, Dragging
<1>6. QED
  BY <1>2, <1>3, <1>4, <1>5 DEF RoutingInv

LEMMA RowInvInit ==
    ASSUME RoutingAssumption, RowAssumption, List!ConstantsAssumption, RowInit
    PROVE  RowInv
<1>1. ListInv /\ view.rows = <<>>
  <2>1. List!Init
    BY DEF RowInit
  <2>2. QED
    BY <2>1, ListInit DEF List!Init
<1>2. /\ tree.index = {Before, After} /\ tree.order = <<Before, After>>
      /\ RoutingInitOver({Before, After}, <<Before, After>>)
  BY DEF RowInit, RoutingInitOver, FreshTree
<1>3. RoutingInv
  <2>1. {Before, After} \in SUBSET Widgets /\ <<Before, After>> \in Seq(Focusable)
    BY DEF RowAssumption, RoutingAssumption, Widgets
  <2>2. QED
    BY <1>2, <2>1, RoutingInvInit
<1>4. RowIds(view) = <<>>
  BY <1>1 DEF RowIds
<1>5. Range(RowIds(view)) = {} /\ <<Before, After>> \o RowIds(view) = <<Before, After>>
  <2>1. <<Before, After>> \in Seq({Before, After})
    OBVIOUS
  <2>2. QED
    BY <1>4, <2>1 DEF Range
<1>6. Len(view.rows) <= MaxNodes
  BY <1>1 DEF RowAssumption
<1>7. QED
  BY <1>1, <1>2, <1>3, <1>5, <1>6 DEF RowInv

LEMMA PublishRowsStep ==
    ASSUME RoutingAssumption, RowAssumption, List!ConstantsAssumption, RowInv, PublishRows
    PROVE  RowInv'
<1> DEFINE old == RowIds(view)
           new == RowIds(view')
<1>1. view \in List!View /\ InLine(view) /\ Len(view.rows) <= MaxNodes
  BY ListShape DEF RowInv
<1>2. ListInv' /\ view' \in List!View /\ InLine(view') /\ Len(view'.rows) <= MaxNodes
  <2>1. ListInv'
    BY PublishStep DEF PublishRows, RowInv
  <2>2. view' \in List!View /\ InLine(view')
    BY <2>1, ListSame DEF ListInv, ListP!ListInv, ListP!TypeOK, InLine
  <2>3. QED
    BY <2>1, <2>2 DEF PublishRows
<1>3. old \in Seq(NodeIds) /\ Range(old) \subseteq Recycled
  BY <1>1, RowIdsFit
<1>4. new \in Seq(NodeIds) /\ Range(new) \subseteq Recycled
  BY <1>2, RowIdsFit
<1> HIDE DEF old, new
<1>5. /\ Before \in Focusable \ Recycled /\ After \in Focusable \ Recycled
      /\ Recycled = NodeIds /\ NodeIds \subseteq Focusable /\ Focusable \subseteq Widgets
  BY DEF RowAssumption, RoutingAssumption, Widgets
<1>6. tree.index = {Before, After} \cup Range(old) /\ tree.order = <<Before, After>> \o old
  BY DEF RowInv, old
<1> DEFINE index == {Before, After} \cup Range(new)
           order == <<Before, After>> \o new
<1>7. (tree.index \ Range(old)) \cup Range(new) = index
  BY <1>3, <1>5, <1>6
<1>8. Without(tree.order, Range(old)) = <<Before, After>>
  BY <1>3, <1>5, <1>6, WithoutRows
<1>9. tree' = [tree EXCEPT !.index = index, !.order = order]
  BY <1>7, <1>8 DEF PublishRows, Rebind, old, new
<1>10. index \in SUBSET Widgets /\ index \ Recycled = tree.index \ Recycled
  BY <1>3, <1>4, <1>5, <1>6
<1>11. order \in Seq(Focusable)
  <2>1. new \in Seq(Focusable)
    BY <1>4, <1>5
  <2>2. QED
    BY <1>5, <2>1, RowRange
<1> HIDE DEF index, order
<1>12. RoutingInv' /\ tree'.index = index /\ tree'.order = order
  BY <1>9, <1>10, <1>11, RebindDoes DEF RowInv, PublishRows
<1>13. QED
  BY <1>2, <1>12 DEF RowInv, index, order, new

LEMMA RowInvStep ==
    ASSUME RoutingAssumption, RowAssumption, List!ConstantsAssumption, RowInv, [RowNext]_rowVars
    PROVE  RowInv'
\* The list changes, and the rows and the tree wait for the publish.
<1>1. ASSUME List!Next, view'.rows = view.rows, UNCHANGED routingVars
      PROVE  RowInv'
  <2>1. ListInv'
    BY <1>1, ListStep DEF RowInv
  <2>2. RoutingInv' /\ tree' = tree
    BY <1>1, RoutingInvStep DEF RowInv, Kept, routingVars
  <2>3. QED
    BY <1>1, <2>1, <2>2 DEF RowInv, RowIds
\* An event is routed, and the list stays.
<1>2. ASSUME RoutingNext \/ UNCHANGED routingVars, UNCHANGED listVars
      PROVE  RowInv'
  <2>1. Kept
    BY <1>2, RoutingInvStep DEF RowInv
  <2>2. ListInv' /\ view' = view
    BY <1>2, ListIdle DEF RowInv, listVars
  <2>3. QED
    BY <2>1, <2>2 DEF RowInv, Kept, RowIds
<1>3. CASE PublishRows
  BY <1>3, PublishRowsStep
<1>4. CASE ChangeList
  <2>1. List!Next
    BY <1>4 DEF ChangeList, List!Next
  <2>2. view' = view
    BY <1>4 DEF ChangeList, List!PushBack, List!Erase, List!Resize
  <2>3. QED
    BY <1>1, <1>4, <2>1, <2>2 DEF ChangeList
<1>5. CASE Pointer
  <2>1. RoutingNext /\ UNCHANGED listVars
    BY <1>5 DEF Pointer, RoutingNext, RowAssumption
  <2>2. QED
    BY <1>2, <2>1
<1>6. CASE TabKey
  <2>1. RoutingNext /\ UNCHANGED listVars
    BY <1>6 DEF TabKey, RoutingNext
  <2>2. QED
    BY <1>2, <2>1
<1>7. CASE ScrollRows
  <2>1. List!Next
    BY <1>7 DEF ScrollRows, List!Next
  <2>2. view'.rows = view.rows
    BY <1>7, ListShape DEF ScrollRows, List!Scroll, List!ScrollTo, RowInv, List!View
  <2>3. QED
    BY <1>1, <1>7, <2>1, <2>2 DEF ScrollRows
<1>8. CASE UNCHANGED rowVars
  BY <1>2, <1>8 DEF rowVars
<1>9. QED
  BY <1>3, <1>4, <1>5, <1>6, <1>7, <1>8 DEF RowNext

\* The strengthening of the invariants over rows.
THEOREM RowInvariant ==
    ASSUME RoutingAssumption, RowAssumption, List!ConstantsAssumption
    PROVE  RowSpec => []RowInv
<1>1. RowInit => RowInv
  BY RowInvInit
<1>2. RowInv /\ [RowNext]_rowVars => RowInv'
  BY RowInvStep
<1>3. QED
  BY <1>1, <1>2, PTL DEF RowSpec

\* A list under input is still a list: what is proved of VirtualList holds of its rows
\* whatever is pressed over them.
THEOREM RowsAreAList == RowSpec => List!Spec
<1>1. RowInit => List!Init
  BY DEF RowInit
<1>2. [RowNext]_rowVars => [List!Next]_List!vars
  BY DEF RowNext, PublishRows, ChangeList, Pointer, TabKey, ScrollRows, List!Next, List!vars,
         rowVars, listVars
<1>3. QED
  BY <1>1, <1>2, PTL DEF RowSpec, List!Spec

\* The focus order holds each materialised focusable widget once and no other.
\* (bind_row, unindex_node)
THEOREM OrderStaysLive ==
    ASSUME RoutingAssumption, RowAssumption, List!ConstantsAssumption
    PROVE  RowSpec => []OrderIsLive
<1>1. ASSUME RowInv PROVE OrderIsLive
  <2> DEFINE ids == RowIds(view)
             n == Len(view.rows)
  <2>1. view \in List!View /\ InLine(view) /\ Len(view.rows) <= MaxNodes
    BY <1>1, ListShape DEF RowInv
  <2>2. ids \in Seq(NodeIds) /\ Range(ids) \subseteq Recycled
    BY <2>1, RowIdsFit
  <2>3. ids = [j \in 1..n |-> j] /\ n \in Nat
    BY <2>1, RowIdsLine
  <2>4. tree.index = {Before, After} \cup Range(ids) /\ tree.order = <<Before, After>> \o ids
    BY <1>1 DEF RowInv
  <2> HIDE DEF ids, n
  <2>5. /\ Before \in Focusable \ Recycled /\ After \in Focusable \ Recycled /\ Before # After
        /\ Recycled = NodeIds /\ NodeIds \subseteq Focusable
    BY DEF RowAssumption
  <2>6. ids \in Seq(Focusable) /\ Len(ids) = n
    BY <2>2, <2>3, <2>5
  <2>7. /\ DOMAIN tree.order = 1..(2 + n)
        /\ Range(tree.order) = {Before, After} \cup Range(ids)
    BY <2>4, <2>5, <2>6, RowRange
  <2>8. Range(tree.order) = tree.index \cap Focusable
    BY <2>2, <2>4, <2>5, <2>7
  <2>9. /\ tree.order[1] = Before /\ tree.order[2] = After
        /\ \A i \in 3..(2 + n) : tree.order[i] = i - 2 /\ tree.order[i] \in Recycled
    <3>1. <<Before, After>> \in Seq(Focusable) /\ Len(<<Before, After>>) = 2
      BY <2>5
    <3>2. /\ tree.order[1] = Before /\ tree.order[2] = After
          /\ \A i \in 3..(2 + n) : tree.order[i] = ids[i - 2]
      BY <2>3, <2>4, <2>6, <3>1
    <3>3. \A i \in 3..(2 + n) : i - 2 \in 1..n /\ ids[i - 2] = i - 2 /\ ids[i - 2] \in Recycled
      BY <2>2, <2>3, <2>5, <2>6
    <3>4. QED
      BY <3>2, <3>3
  <2>10. ASSUME NEW i \in 1..(2 + n), NEW j \in 1..(2 + n), tree.order[i] = tree.order[j]
         PROVE  i = j
    <3>1. (i = 1 \/ i = 2 \/ i \in 3..(2 + n)) /\ (j = 1 \/ j = 2 \/ j \in 3..(2 + n))
      BY <2>3
    <3>2. QED
      BY <2>5, <2>9, <2>10, <3>1
  <2>11. QED
    BY <2>7, <2>8, <2>10 DEF OrderIsLive
<1>2. QED
  BY <1>1, RowInvariant, PTL

\* Rows come and go under a press or a hover, and the widgets around them look what the
\* tree believes, hear their releases, and let no drag outlive its press.
\* (update_hover, set_pressed, route_event)
THEOREM RoutingOverRows ==
    ASSUME RoutingAssumption, RowAssumption, List!ConstantsAssumption
    PROVE  RowSpec => [](RowTypeOK /\ LooksMatch /\ ReleaseReachesPressed /\ DragHeld)
<1>1. RowInv => RowTypeOK /\ LooksMatch /\ ReleaseReachesPressed /\ DragHeld
  BY ListShape DEF RowInv, RoutingInv, RowTypeOK
<1>2. QED
  BY <1>1, RowInvariant, PTL
=============================================================================
