------------------------------ MODULE Animation -------------------------------
(***************************************************************************)
(* ui/animation.hpp: the AnimationClock, TransitionGuards, which turn each *)
(* set of their field into an interpolation, and Animations, which drive a *)
(* field once.                                                             *)
(*                                                                         *)
(* All of it runs on the logic thread.  A tick calls the entries of a copy *)
(* of the clock one by one; each sets its field, whose observers run at    *)
(* once: they may set another field, or drop an Animation.  Time is the    *)
(* number of ticks since an interpolation began, up to Duration.           *)
(***************************************************************************)
EXTENDS Integers, Sequences, FiniteSets, SequencesExt, Subsequence

CONSTANTS
    Guarded,      \* fields with a TransitionGuard
    Follows,      \* Follows[f]: the fields an observer of f sets to its value
    Anims,        \* Animations, each drives the field of its own name
    Duration,     \* ticks an interpolation lasts
    MaxValue,     \* values are 0..MaxValue
    MaxSets       \* bound: sets and starts by the application

Driven == Guarded \cup Anims

ConstantsAssumption ==
    /\ Guarded \cap Anims = {}
    /\ IsFiniteSet(Guarded) /\ Follows \in [Guarded -> SUBSET Guarded]
    /\ Duration \in Nat \ {0} /\ MaxValue \in Nat \ {0} /\ MaxSets \in Nat

VARIABLES
    st,          \* fields and what drives them, see State
    ticking,     \* AnimationClock::tick is running
    snapshot,    \* ... and has these entries left
    droppedNow,  \* history: the Animations dropped in this tick
    want,        \* history: the target each Animation was last given, or Nowhere
    sets

vars == <<st, ticking, snapshot, droppedNow, want, sets>>

Values == 0..MaxValue
Nowhere == -1    \* dropped on its way
State == [field : [Driven -> Values],
          clock : Seq(Driven),                \* animations_, an entry is its driver
          active : [Driven -> BOOLEAN],       \* clock_id_ # 0; an Animation's: it lives
          from : [Driven -> Values],          \* from_
          to : [Driven -> Values],            \* target_ of a guard, to_
          at : [Driven -> Values],            \* current_animated_
          elapsed : [Driven -> 0..Duration]]  \* now - start_

TypeOK ==
    /\ st \in State
    /\ ticking \in BOOLEAN
    /\ snapshot \in Seq(Driven)
    /\ droppedNow \subseteq Anims
    /\ want \in [Anims -> Values \cup {Nowhere}]
    /\ sets \in 0..MaxSets

Init ==
    /\ st = [field |-> [f \in Driven |-> 0], clock |-> <<>>,
             active |-> [f \in Driven |-> FALSE],
             from |-> [f \in Driven |-> 0], to |-> [f \in Driven |-> 0],
             at |-> [f \in Driven |-> 0], elapsed |-> [f \in Driven |-> 0]]
    /\ ticking = FALSE /\ snapshot = <<>> /\ droppedNow = {}
    /\ want = [f \in Anims |-> 0]
    /\ sets = 0

\* lerp of two ints: the rounding of (b - a) * t + 0.5 is towards zero.
Lerp(a, b, t) ==
    LET twice(x) == 2 * x * t
    IN IF b >= a THEN a + (twice(b - a) + Duration) \div (2 * Duration)
       ELSE IF twice(a - b) < Duration THEN a
       ELSE a - (twice(a - b) - Duration) \div (2 * Duration)

-----------------------------------------------------------------------------
(* Functions on st. *)

\* AnimationClock::add and remove.
Registered(s, fs) ==
    LET new == {f \in fs : ~s.active[f]}
    IN [s EXCEPT !.clock = @ \o SetToSeq(new), !.active = [f \in Driven |-> @[f] \/ f \in fs]]
Removed(s, fs) ==
    [s EXCEPT !.clock = Without(@, fs), !.active = [f \in Driven |-> @[f] /\ f \notin fs]]

\* What is interpolated from now on: from where it is, to the value of the field.
Aimed(s, fs) ==
    [s EXCEPT !.from = [f \in Driven |-> IF f \in fs THEN s.at[f] ELSE @[f]],
              !.to = [f \in Driven |-> IF f \in fs THEN s.field[f] ELSE @[f]],
              !.elapsed = [f \in Driven |-> IF f \in fs THEN 0 ELSE @[f]]]

\* Mutated Retargeted: registers again a guard that is in the clock.
RetargetedTwice(s, fs) ==
    LET aimed == Aimed(s, fs)
    IN [aimed EXCEPT !.clock = @ \o SetToSeq(fs),
                     !.active = [f \in Driven |-> @[f] \/ f \in fs]]

\* on_field_changed of each of fs, which is in the clock already or is added to it.
Retargeted(s, fs) == Registered(Aimed(s, fs), fs)

\* The application's observers of f: the fields that follow f are set.  They have
\* no observers of the application of their own.
Followed(s, f) ==
    LET moved == {g \in Follows[f] : s.field[g] # s.field[f]}
        moving == [s EXCEPT !.field = [g \in Driven |-> IF g \in moved THEN s.field[f] ELSE @[g]]]
    IN IF f \in Guarded THEN Retargeted(moving, moved) ELSE s

\* Field::set outside of the guard's own tick.
Set(s, f, v) ==
    IF s.field[f] = v THEN s
    ELSE LET changed == [s EXCEPT !.field[f] = v]
         IN Followed(IF f \in Guarded THEN Retargeted(changed, {f}) ELSE changed, f)

\* Field::set with animating_ raised: the guard ignores it.
SetAnimating(s, f, v) ==
    IF s.field[f] = v THEN s ELSE Followed([s EXCEPT !.field[f] = v], f)

\* Mutated Ticked: the last step is one of the interpolation's.
TickedShort(s, f) ==
    LET v == Lerp(s.from[f], s.to[f], s.elapsed[f] - 1)
        moved == SetAnimating([s EXCEPT !.at[f] = v], f, v)
    IN IF s.elapsed[f] >= Duration THEN Removed(moved, {f}) ELSE moved

\* tick of a guard or an Animation: at the end of its time it takes the target
\* itself and leaves the clock.
Ticked(s, f) ==
    IF s.elapsed[f] >= Duration
    THEN Removed([SetAnimating(s, f, s.to[f]) EXCEPT !.at[f] = s.to[f]], {f})
    ELSE LET v == Lerp(s.from[f], s.to[f], s.elapsed[f])
         IN SetAnimating([s EXCEPT !.at[f] = v], f, v)

-----------------------------------------------------------------------------
(* Tasks of the application. *)

SetField(f, v) ==
    /\ ~ticking /\ sets < MaxSets
    /\ sets' = sets + 1
    /\ st' = Set(st, f, v)
    /\ UNCHANGED <<ticking, snapshot, droppedNow, want>>

\* animate(clock, field, target, config)
Animate(f, v) ==
    /\ ~ticking /\ sets < MaxSets /\ ~st.active[f]
    /\ sets' = sets + 1
    /\ st' = Registered([st EXCEPT !.from[f] = st.field[f], !.to[f] = v, !.elapsed[f] = 0], {f})
    /\ want' = [want EXCEPT ![f] = v]
    /\ UNCHANGED <<ticking, snapshot, droppedNow>>

\* ~Animation
Dropped(s, fs) == Removed(s, fs)

Drop(f) ==
    /\ ~ticking /\ st.active[f]
    /\ st' = Dropped(st, {f})
    /\ want' = [want EXCEPT ![f] = Nowhere]
    /\ UNCHANGED <<ticking, snapshot, droppedNow, sets>>

-----------------------------------------------------------------------------
(* AnimationClock::tick, and the time that goes by until it. *)

BeginTick ==
    /\ ~ticking /\ st.clock # <<>>
    /\ ticking' = TRUE
    /\ snapshot' = st.clock
    /\ st' = [st EXCEPT !.elapsed = [f \in Driven |-> IF @[f] < Duration THEN @[f] + 1 ELSE @[f]]]
    /\ UNCHANGED <<droppedNow, want, sets>>

\* The next entry of the copy; the application's observers of its field may drop
\* other Animations.
CallEntry ==
    LET f == Head(snapshot)
        others == {g \in Anims \ {f} : st.active[g]}
    IN /\ ticking /\ snapshot # <<>> /\ st.active[f]
       /\ \E gone \in SUBSET others :
              /\ gone # {} => Ticked(st, f).field[f] # st.field[f]
              /\ st' = Dropped(Ticked(st, f), gone)
              /\ want' = [g \in Anims |-> IF g \in gone THEN Nowhere ELSE want[g]]
              /\ droppedNow' = droppedNow \cup gone
       /\ snapshot' = Tail(snapshot)
       /\ UNCHANGED <<ticking, sets>>

\* The entry of an Animation dropped in this tick is called too.  The object is
\* gone: the call finds what it held in place, or does nothing.
CallDropped ==
    LET f == Head(snapshot)
    IN /\ ticking /\ snapshot # <<>> /\ ~st.active[f]
       /\ st' \in {st, [st EXCEPT !.field[f] = Lerp(st.from[f], st.to[f], st.elapsed[f])]}
       /\ snapshot' = Tail(snapshot)
       /\ UNCHANGED <<ticking, droppedNow, want, sets>>

EndTick ==
    /\ ticking /\ snapshot = <<>>
    /\ ticking' = FALSE
    /\ droppedNow' = {}
    /\ UNCHANGED <<st, snapshot, want, sets>>

Tick == BeginTick \/ CallEntry \/ CallDropped \/ EndTick

Next ==
    \/ Tick
    \/ \E f \in Guarded, v \in Values : SetField(f, v)
    \/ \E f \in Anims : Drop(f) \/ \E v \in Values : Animate(f, v)

\* schedule_tick keeps a tick scheduled while the clock is active.
Fairness == WF_vars(Tick)

Spec == Init /\ [][Next]_vars /\ Fairness
-----------------------------------------------------------------------------
(* Properties. *)

\* A guarded field comes to the value of its last change from outside, through
\* retargets and through fields that follow one another; an animated one to the
\* target of the last Animation that was not dropped on its way.
TargetReached ==
    /\ \A f \in Guarded : <>[](st.field[f] = st.to[f])
    /\ \A f \in Anims : <>[](want[f] \in {Nowhere, st.field[f]})

\* A driver is in the clock once if clock_id_ says so, and else not at all: none
\* runs twice as fast, none is forgotten, whatever retargets it and from where.
ClockMatches ==
    IsInjective(st.clock) /\ ToSet(st.clock) = {f \in Driven : st.active[f]}

\* "if the Animation goes out of scope, the animation stops" (same document): no
\* tick calls it, except the rest of the one it was dropped in, which has a copy.
DroppedStops ==
    \A i \in DOMAIN snapshot : st.active[snapshot[i]] \/ snapshot[i] \in droppedNow
=============================================================================
