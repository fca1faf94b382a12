----------------------------- MODULE WidgetTree -----------------------------
(* The tree of widgets behind one window (widget_tree.hpp): built once from   *)
(* the model, then partly rebuilt whenever a tab bar's selection has changed. *)
(* A source is what the application placed (a field, a container, a tab bar); *)
(* a widget id stands for one building of it.  The tree keeps, beside the     *)
(* widgets, an index, the parents, a focus order, subscriptions to what marks *)
(* a widget dirty, and the callbacks that drain Shared and Channel.           *)
EXTENDS Integers, Sequences, FiniteSets, SequencesExt, Functions

CONSTANTS Sources,     \* what the application places
          Kind,        \* [Sources -> {"box", "leaf", "shared", "channel", "tabs", "bar", "page"}]
          Kids,        \* [Sources -> Seq(Sources)]: placed under it; a tab bar's are bar and page
          Pages,       \* [tab bars -> Seq(Seq(Sources))]: what each tab's builder places
          Depends,     \* [Sources -> SUBSET Sources]: depends_on
          Focusable,   \* sources whose widget has a focus policy
          Top,         \* the root
          MaxSets,     \* bound on changes of a value
          MaxIds       \* bound on widget ids

VARIABLE wt

NoTab == 0
TabBars == {s \in Sources : Kind[s] = "tabs"}
Bar(t) == Kids[t][1]
Page(t) == Kids[t][2]
Leaves == {s \in Sources : Kind[s] \in {"leaf", "shared", "bar"}}

\* Placed by a source, it first: the order of building, which gives out the ids.
Placed[s \in Sources] == <<s>> \o FlattenSeq([i \in DOMAIN Kids[s] |-> Placed[Kids[s][i]]])

BuildOrder(tops) ==
    SelectSeq(FlattenSeq([i \in DOMAIN tops |-> Placed[tops[i]]]),
              LAMBDA s : Kind[s] # "channel")

\* Tab bars, the outer before those in its pages.
Below[s \in Sources] ==
    LET own == IF s \in TabBars THEN UNION {ToSet(Pages[s][i]) : i \in DOMAIN Pages[s]} ELSE {}
    IN {s} \union UNION {Below[k] : k \in ToSet(Kids[s]) \union own}

Outward == SetToSortSeq(TabBars, LAMBDA s, t : t \in Below[s] /\ s # t)

-----------------------------------------------------------------------------
(* Building: ids, index, parents, focus order, subscriptions.                 *)

\* connect_dirty: a widget is marked by its own observable and what it depends
\* on; a tab bar also by the field of its bar.
Marks(s) == Depends[s] \union (IF s \in Leaves THEN {s} ELSE {})
                       \union (IF s \in TabBars THEN {Bar(s)} ELSE {})

\* build_node_tree, build_widget_node, connect_dirty, build_index for `tops`
\* placed under `under`; every leaf is recorded as it is built.
Built(e, tops, under, first) ==
    LET seq == BuildOrder(tops)
        id == [s \in ToSet(seq) |-> first + (CHOOSE i \in DOMAIN seq : seq[i] = s) - 1]
        owner(s) == IF s \in ToSet(tops) THEN under
                    ELSE id[CHOOSE p \in ToSet(seq) : s \in ToSet(Kids[p])]
        news == {id[s] : s \in ToSet(seq)}
    IN [e EXCEPT !.live = [s \in DOMAIN @ \union ToSet(seq) |-> IF s \in DOMAIN id THEN id[s] ELSE @[s]],
                 !.index = @ \union news,
                 !.parent = [i \in DOMAIN @ \union news |->
                                IF i \in news THEN owner(CHOOSE s \in ToSet(seq) : id[s] = i) ELSE @[i]],
                 !.order = @ \o [i \in 1..Len(SelectSeq(seq, LAMBDA s : s \in Focusable)) |->
                                    id[SelectSeq(seq, LAMBDA s : s \in Focusable)[i]]],
                 !.subs = @ \union UNION {{<<o, id[s]>> : o \in Marks(s)} : s \in ToSet(seq)},
                 !.rec = [i \in DOMAIN @ \union news |->
                            IF i \in news THEN e.val[CHOOSE s \in ToSet(seq) : id[s] = i] ELSE @[i]],
                 !.active = [t \in TabBars |-> IF t \in ToSet(seq) THEN NoTab ELSE @[t]],
                 !.next = first + Len(seq)]

\* The callbacks drain_shared calls: those of Shared are collected once, from the
\* tree the constructor builds; a Channel's is added whenever its owner is built.
Drained(tops, kinds) ==
    SelectSeq(FlattenSeq([i \in DOMAIN tops |-> Placed[tops[i]]]), LAMBDA s : Kind[s] \in kinds)

\* unindex_subtree for what is below the page, before its children are cleared.
\* A mutant: the subtree's own subscriptions survive.
UnmountedKeepingSubs(e, t) ==
    LET gone == (Below[t] \ {t, Bar(t), Page(t)}) \intersect DOMAIN e.live
        ids == {e.live[s] : s \in gone}
    IN [e EXCEPT !.live = Restrict(@, DOMAIN @ \ gone),
                 !.index = @ \ ids, !.dirty = @ \ ids,
                 !.parent = Restrict(@, DOMAIN @ \ ids),
                 !.rec = Restrict(@, DOMAIN @ \ ids),
                 !.order = SelectSeq(@, LAMBDA i : i \notin ids)]

Unmounted(e, t) ==
    LET gone == (Below[t] \ {t, Bar(t), Page(t)}) \intersect DOMAIN e.live
        ids == {e.live[s] : s \in gone}
    IN [e EXCEPT !.live = Restrict(@, DOMAIN @ \ gone),
                 !.index = @ \ ids, !.dirty = @ \ ids,
                 !.parent = Restrict(@, DOMAIN @ \ ids),
                 !.rec = Restrict(@, DOMAIN @ \ ids),
                 !.order = SelectSeq(@, LAMBDA i : i \notin ids),
                 !.subs = {c \in @ : c[2] \notin ids}]

MaterializeTabs(e, t) ==
    IF t \notin DOMAIN e.live \/ e.val[Bar(t)] = e.active[t] THEN e
    ELSE LET sel == e.val[Bar(t)]
             out == [Unmounted(e, t) EXCEPT !.active[t] = sel]
             tops == IF sel \in DOMAIN Pages[t] THEN Pages[t][sel] ELSE <<>>
             full == Built(out, tops, e.live[Page(t)], e.next + 1)
         IN [(IF tops = <<>> THEN out ELSE full)
                EXCEPT !.drains = @ \o Drained(tops, {"channel"}),
                       !.dirty = @ \union {e.live[Page(t)]}]

\* refresh_dirty, then materialize; clear_dirty by the caller.
\* A mutant: tabs are materialised from the inner to the outer.
SnapshotInsideOut(e) ==
    LET fresh == [e EXCEPT !.rec = [i \in DOMAIN @ |->
                    IF i \in e.dirty THEN e.val[CHOOSE s \in DOMAIN e.live : e.live[s] = i] ELSE @[i]]]
        done == FoldSeq(LAMBDA t, acc : MaterializeTabs(acc, t), fresh, Outward)
    IN [done EXCEPT !.shown = [s \in Leaves \intersect DOMAIN done.live |-> done.rec[done.live[s]]],
                    !.dirty = {}]

Snapshot(e) ==
    LET fresh == [e EXCEPT !.rec = [i \in DOMAIN @ |->
                    IF i \in e.dirty THEN e.val[CHOOSE s \in DOMAIN e.live : e.live[s] = i] ELSE @[i]]]
        done == FoldLeft(LAMBDA acc, t : MaterializeTabs(acc, t), fresh, Outward)
    IN [done EXCEPT !.shown = [s \in Leaves \intersect DOMAIN done.live |-> done.rec[done.live[s]]],
                    !.dirty = {}]

-----------------------------------------------------------------------------
Empty == [live |-> <<>>, index |-> {}, parent |-> <<>>, order |-> <<>>, subs |-> {},
          rec |-> <<>>, dirty |-> {}, shown |-> <<>>, next |-> 1,
          active |-> [t \in TabBars |-> NoTab],
          val |-> [s \in Sources |-> IF Kind[s] = "bar" THEN 1 ELSE 0],
          pend |-> {}, drains |-> Drained(<<Top>>, {"channel"}) \o Drained(<<Top>>, {"shared"}),
          settled |-> FALSE]

TreeInit == wt = Built(Empty, <<Top>>, 0, 1)

\* set_dirty of every widget subscribed to s; index_ no longer knows a removed one.
Emit(e, s) == [e EXCEPT !.dirty = @ \union {c[2] : c \in {d \in e.subs : d[1] = s /\ d[2] \in e.index}},
                        !.settled = FALSE]

SetField == \E s \in Sources :
    /\ Kind[s] = "leaf" /\ wt.val[s] < MaxSets
    /\ wt' = Emit([wt EXCEPT !.val[s] = @ + 1], s)

\* Shared::set raises its flag; the drain of the window's tree clears it and emits.
SetShared == \E s \in Sources :
    /\ Kind[s] = "shared" /\ wt.val[s] < MaxSets
    /\ wt' = [wt EXCEPT !.val[s] = @ + 1, !.pend = @ \union {s}, !.settled = FALSE]

DrainShared ==
    LET called == ToSet(wt.drains) \intersect wt.pend
        emitted == FoldSet(LAMBDA s, acc : Emit(acc, s), wt, called)
    IN wt' = [emitted EXCEPT !.pend = @ \ called]

\* tabs_handle_input: a press on another header, or the keys left and right.
SelectTab == \E t \in TabBars \intersect DOMAIN wt.live :
    LET count == Len(Pages[t])
        now == wt.val[Bar(t)]
    IN \E sel \in (1..count \ {now}) \union {(now % count) + 1, ((now + count - 2) % count) + 1} :
            /\ sel # now
            /\ wt' = Emit([wt EXCEPT !.val[Bar(t)] = sel], Bar(t))

\* The application sets the bar's field, to a tab or to none of them.
SetSelected == \E t \in TabBars :
    \E sel \in 1..(Len(Pages[t]) + 1) :
        /\ sel # wt.val[Bar(t)]
        /\ wt' = Emit([wt EXCEPT !.val[Bar(t)] = sel], Bar(t))

\* A drain task ends with a publish, if anything is dirty (the first always is).
PublishTree ==
    /\ wt.next < MaxIds
    /\ wt.dirty # {} \/ wt.shown = <<>>
    /\ wt' = [Snapshot(wt) EXCEPT !.settled = wt.pend \intersect ToSet(wt.drains) = {}]

WtNext == SetField \/ SetShared \/ DrainShared \/ SelectTab \/ SetSelected \/ PublishTree

WtSpec == TreeInit /\ [][WtNext]_wt

-----------------------------------------------------------------------------
\* The tree as it hangs together: static children and the page built last.
Mounted ==
    LET pages(t) == IF wt.active[t] \in DOMAIN Pages[t] THEN Pages[t][wt.active[t]] ELSE <<>>
        under(s, p) == \/ s \in ToSet(Kids[p])
                       \/ \E t \in TabBars : p = Page(t) /\ s \in ToSet(pages(t))
    IN {e \in (DOMAIN wt.live) \X (DOMAIN wt.live) : under(e[1], e[2])}

WtTypeOK == /\ wt.index \subseteq 1..wt.next /\ wt.dirty \subseteq wt.index
            /\ wt.pend \subseteq Sources

\* However tabs, nested ones among them, come and go: the index holds the widgets
\* of the tree and no other, each has the parent it hangs under, each that takes
\* the focus is in the focus order once, and each observable marks exactly the
\* widgets that show it (unindex_subtree, materialize_tabs, build_index).
BooksMatchTree ==
    LET ids == {wt.live[s] : s \in DOMAIN wt.live}
    IN /\ wt.index = ids /\ DOMAIN wt.parent = ids
       /\ \A s \in DOMAIN wt.live \ {Top} :
            \E p \in DOMAIN wt.live : <<s, p>> \in Mounted /\ wt.parent[wt.live[s]] = wt.live[p]
       /\ IsInjective(wt.live) /\ IsInjective(wt.order)
       /\ ToSet(wt.order) = {wt.live[s] : s \in DOMAIN wt.live \intersect Focusable}
       /\ wt.subs = UNION {{<<o, wt.live[s]>> : o \in Marks(s)} : s \in DOMAIN wt.live}

\* A Shared that is only placed in a tab: nothing drains it.
Orphans == {s \in Sources : Kind[s] = "shared" /\ s \notin ToSet(wt.drains)}

\* What a snapshot leaves is the selected page of every tab bar, nested ones too,
\* and in it the last value of every field (materialize_tabs against get_selected).
PageIsSelected ==
    wt.settled =>
        /\ \A t \in TabBars \intersect DOMAIN wt.live : wt.active[t] = wt.val[Bar(t)]
        /\ DOMAIN wt.shown = Leaves \intersect DOMAIN wt.live
        /\ \A s \in DOMAIN wt.shown \ Orphans : wt.shown[s] = wt.val[s]
=============================================================================
