---------------------------- MODULE PythonHandles ----------------------------
(***************************************************************************)
(* The objects of the Python bindings and who keeps whom alive             *)
(* (python/src/prism_ext.cpp, python/prism/__init__.py): a model, the      *)
(* handles bound to its slots, a derived handle, standalone handles, and   *)
(* observers.  A callback is held by the handle it observes and only       *)
(* weakly by the signal; a standalone handle is drained, by whatever       *)
(* application runs, while it is alive.                                    *)
(*                                                                         *)
(* Every handle but the derived one is a Shared, whose set and drain the   *)
(* module Shared splits into their steps.  What an observer does is one of *)
(* the program's actions, between two drains of a sweep.                   *)
(***************************************************************************)
EXTENDS Integers, Sequences, FiniteSets, FiniteSetsExt, SequencesExt

CONSTANTS
    Model, Derived,  \* a model and its derived handle
    Bound,           \* its other handles
    Standalone,      \* handles of no model
    Deps,            \* what the derived value depends on
    Callbacks,       \* observers
    Named,           \* bound handles the program may come to refer to by themselves
    CaptureSets,     \* what a callback may refer to
    MaxSets          \* bound: calls of set in all

HandlesAssumption ==
    /\ Bound \cap Standalone = {} /\ Deps \subseteq Bound \cup Standalone
    /\ IsFiniteSet(Bound) /\ IsFiniteSet(Standalone)
    /\ Derived \notin Bound \cup Standalone
    /\ Model \notin Bound \cup Standalone \cup {Derived}
    /\ Callbacks \cap (Bound \cup Standalone \cup {Derived, Model}) = {}
    /\ Named \subseteq Bound \cup {Derived}

VARIABLE ph          \* [held: references of the program; live: objects; keep: the
                     \* callbacks of a handle; conn: connected ones; caps: what they
                     \* refer to; val, pend: of each Shared; out: of the derived;
                     \* seen: by each callback; run, wake, sweep, swept;
                     \* early: pending since no application ran]

Shareds == Bound \cup Standalone
Handles == Shareds \cup {Derived}
Objects == Handles \cup {Model} \cup Callbacks

\* A value that any set of a dependency changes.
Computed(s) == [h \in Deps |-> s.val[h]]

\* What an observer of h is called with, as a function whichever h it is.
Value(s, h) == IF h = Derived THEN s.out ELSE [x \in {h} |-> s.val[x]]

PhInit ==
    ph = [held |-> {Model} \cup Standalone, live |-> {Model} \cup Handles,
          keep |-> [h \in Handles |-> {}], conn |-> {}, caps |-> [c \in Callbacks |-> {}],
          val |-> [h \in Shareds |-> 0], pend |-> {}, out |-> [h \in Deps |-> 0],
          seen |-> [c \in Callbacks |-> <<>>], run |-> FALSE, wake |-> FALSE,
          sweep |-> <<>>, swept |-> TRUE, early |-> {}]

-----------------------------------------------------------------------------
(* Who keeps whom alive. *)

\* Mutated Kept: the derived slot forgets the handles it depends on.
KeptWithoutDeps(s, o) ==
    CASE o = Model     -> Bound \cup {Derived}
      [] o = Derived   -> s.keep[Derived]
      [] o \in Shareds -> s.keep[o]
      [] OTHER         -> s.caps[o]

\* _prism_fields, dep_keepalive_, _prism_callbacks, a closure.
Kept(s, o) ==
    CASE o = Model     -> Bound \cup {Derived} \cup Deps
      [] o = Derived   -> Deps \cup s.keep[Derived]
      [] o \in Shareds -> s.keep[o]
      [] OTHER         -> s.caps[o]

Closed(s, among) == \A o \in among : Kept(s, o) \cap s.live \subseteq among

\* The least set of live objects that has those of from and whom they keep.
Reach(s, from) ==
    LET sets == {among \in SUBSET s.live : from \cap s.live \subseteq among /\ Closed(s, among)}
    IN {o \in s.live : \A among \in sets : o \in among}

\* run() refers to the model.
Roots(s) == s.held \cup (IF s.run THEN {Model} ELSE {})

Referred(s, o) == o \in s.held \/ \E c \in s.live \cap Callbacks : o \in s.caps[c]

\* References the collector cannot see: those of a slot whose model is gone
\* (pymodel_tp_traverse).
Pinned(s) == IF Model \notin s.live /\ Referred(s, Derived) THEN Deps ELSE {}

\* The garbage goes, by a count or by the collector, which may run in any allocation.
\* An object's end takes its lists, and so the connections in them.
Collect ==
    LET left == Reach(ph, Roots(ph) \cup Pinned(ph))
        cbs == UNION {ph.keep[h] : h \in Handles \cap left}
    IN /\ left # ph.live
       /\ ph' = [ph EXCEPT !.live = left, !.conn = @ \cap cbs,
                           !.keep = [h \in Handles |-> IF h \in left THEN @[h] ELSE {}]]

-----------------------------------------------------------------------------
(* The program, and its observers. *)

Reachable == Reach(ph, ph.held)

Drop(o) == o \in ph.held /\ ph' = [ph EXCEPT !.held = @ \ {o}]
Hold(o) == o \in Reachable \ ph.held /\ ph' = [ph EXCEPT !.held = @ \cup {o}]

\* observe, keep_connection.  What is captured is at hand.
Observe(h, c, refs) ==
    /\ c \notin ph.live /\ c \notin ph.conn
    /\ {h} \cup refs \subseteq Reachable
    /\ ph' = [ph EXCEPT !.live = @ \cup {c}, !.keep[h] = @ \cup {c}, !.conn = @ \cup {c},
                        !.caps[c] = refs,
                        !.seen[c] = Value(ph, h)]

\* The callback stays in the list of its handle.
Disconnect(c) == c \in ph.conn /\ ph' = [ph EXCEPT !.conn = @ \ {c}]

\* set, ensure_idle_wake
Set(h) ==
    /\ MapThenSumSet(LAMBDA x : ph.val[x], Shareds) < MaxSets
    /\ h \in Reachable
    /\ ph' = [ph EXCEPT !.val[h] = @ + 1, !.pend = @ \cup {h}, !.wake = @ \/ ph.run,
                        !.early = IF ph.run THEN @ \ {h} ELSE @ \cup {h}]

Start ==
    /\ ~ph.run /\ Model \in Reachable
    /\ ph' = [ph EXCEPT !.run = TRUE]

\* The run ends: posts are dropped, the model's observers disconnected.
Stop ==
    /\ ph.run /\ ph.sweep = <<>> /\ ph.swept
    /\ LET gone == UNION {ph.keep[h] : h \in Bound \cup {Derived}}
       IN ph' = [ph EXCEPT !.run = FALSE, !.wake = FALSE, !.early = ph.pend,
                           !.conn = @ \ gone,
                           !.keep = [h \in Handles |-> IF h \in Standalone THEN @[h] ELSE {}]]

-----------------------------------------------------------------------------
(* A sweep of the logic thread (PyModel::drain). *)

\* The slots of the model, copied.
BeginSweep ==
    /\ ph.run /\ ph.wake /\ ph.sweep = <<>> /\ ph.swept
    /\ ph' = [ph EXCEPT !.wake = FALSE, !.sweep = SetToSeq(Bound), !.swept = FALSE]

\* drain_standalone: the registry, copied.
BeginStandalone ==
    /\ ~ph.swept /\ ph.sweep = <<>>
    /\ ph' = [ph EXCEPT !.sweep = SetToSeq(Standalone \cap ph.live), !.swept = TRUE]

\* WeakCallback: a dead callback is not called.
Called(s, h) ==
    [s EXCEPT !.seen = [c \in Callbacks |->
        IF c \in s.keep[h] \cap s.conn \cap s.live THEN Value(s, h) ELSE @[c]]]

\* SlotDerived::recompute
Recomputed(s) ==
    IF Computed(s) = s.out THEN s
    ELSE Called([s EXCEPT !.out = Computed(s)], Derived)

Emitted(s, h) ==
    LET e == Called([s EXCEPT !.pend = @ \ {h}, !.early = @ \ {h}], h)
    IN IF h \in Deps THEN Recomputed(e) ELSE e

\* The copy holds weak references: what is gone since is skipped.
DrainNext ==
    /\ ph.sweep # <<>>
    /\ LET h == Head(ph.sweep)
           s == [ph EXCEPT !.sweep = Tail(@)]
       IN ph' = IF h \in ph.pend \cap ph.live THEN Emitted(s, h) ELSE s

PhNext ==
    \/ Collect
    \/ \E o \in {Model} \cup Standalone \cup Named : Drop(o)
    \/ \E o \in Named : Hold(o)
    \/ \E h \in Handles, c \in Callbacks, refs \in CaptureSets : Observe(h, c, refs)
    \/ \E c \in Callbacks : Disconnect(c)
    \/ \E h \in Shareds : Set(h)
    \/ Start \/ Stop
    \/ BeginSweep \/ BeginStandalone \/ DrainNext

-----------------------------------------------------------------------------
PhTypeOK ==
    /\ ph.live \subseteq Objects /\ ph.conn \subseteq Callbacks
    /\ \A h \in Handles : ph.keep[h] \subseteq Callbacks
    /\ ph.pend \subseteq Shareds /\ ph.early \subseteq ph.pend

Rest == ph.run /\ ~ph.wake /\ ph.sweep = <<>> /\ ph.swept

\* While an application runs and is idle, every connected observer of a handle that
\* is still alive has the last value, and the derived value is that of its
\* dependencies, a standalone one that nothing else refers to included; and nothing
\* is pending but what was set before the run.
\* (PyModel::drain, drain_standalone, derived_attach_dep)
HandlesServed ==
    Rest =>
        /\ \A h \in ph.pend \ ph.early : h \notin ph.live \cup Deps
        /\ ph.pend \cap Deps = {} => ph.out = Computed(ph)
        /\ \A h \in ph.live \cap Handles, c \in ph.conn :
              c \in ph.keep[h] => ph.seen[c] = Value(ph, h) \/ h \in ph.pend
=============================================================================
