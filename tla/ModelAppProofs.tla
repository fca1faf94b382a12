---------------------------- MODULE ModelAppProofs -----------------------------
(***************************************************************************)
(* What ModelApp's runs check of safety, for every set of programs, with   *)
(* any number of events, posts, exceptions and ticks of an animation.      *)
(*                                                                         *)
(* AppInv is the inductive invariant.  Neither property is inductive: that *)
(* a loop at rest has no active animation needs a tick to be queued in     *)
(* every state in which one is active, and that nothing shown is old at    *)
(* rest needs no window to be dirty between two tasks, and what is old to  *)
(* be dirty.                                                               *)
(***************************************************************************)
EXTENDS ModelApp, SequenceTheorems, TLAPS

\* What the screen does not show yet is marked dirty.
OldIsDirty(u) == \A w \in Windows : u.look[w] = "old" => u.dirty[w]

Clean(u) == \A w \in u.open : ~u.dirty[w]

\* The flag tells whether the queue holds a tick, and it holds one at most.
TickQueued(q, flag) ==
    /\ flag <=> \E i \in DOMAIN q : q[i] = Tick
    /\ \A i, j \in DOMAIN q : q[i] = Tick /\ q[j] = Tick => i = j

\* An active clock has its tick queued.
ActiveTicks == lpc = "idle" /\ ~closed /\ ~ui.cut /\ Active(ui) => tickScheduled

\* No task leaves a window dirty, where none of the three gaps is open.
TasksPublish == lpc = "idle" /\ ~closed /\ ~ui.cut /\ ~program.debugTools => Clean(ui)

\* Before the loop there is the primary window, and no inspector.
Starting == lpc = "start" => ui.open = {Primary} /\ ~Active(ui)

NoInspector == ~program.debugTools => ~ui.inspector

AppInv ==
    /\ TypeOK /\ OldIsDirty(ui) /\ TickQueued(tasks, tickScheduled)
    /\ ActiveTicks /\ TasksPublish /\ Starting /\ NoInspector

-----------------------------------------------------------------------------
(* The functions on ui: each keeps the types, and what is old dirty. *)

Good(u) == u \in UI /\ OldIsDirty(u)

\* Nothing of the clock, the inspector and the windows there are.
SameRest(u, v) ==
    /\ v.open = u.open /\ v.fade = u.fade /\ v.spin = u.spin
    /\ v.inspector = u.inspector /\ v.cut = u.cut

LEMMA TouchDoes ==
    ASSUME NEW u, Good(u), NEW ws
    PROVE  /\ Good(Touch(u, ws)) /\ SameRest(u, Touch(u, ws))
           /\ ws = {} /\ Clean(u) => Clean(Touch(u, ws))
<1> DEFINE d == [w \in Windows |-> u.dirty[w] \/ w \in ws \cap u.open]
           l == [w \in Windows |-> IF w \in ws \cap u.open /\ u.look[w] = "current"
                                   THEN "old" ELSE u.look[w]]
           t == [u EXCEPT !.dirty = d, !.look = l]
<1>1. Touch(u, ws) = t
  BY DEF Touch
<1>2. u \in UI /\ OldIsDirty(u)
  BY DEF Good
<1>3. d \in [Windows -> BOOLEAN] /\ l \in [Windows -> {"never", "old", "current"}]
  BY <1>2 DEF UI
<1>4. \A w \in Windows : l[w] = "old" => d[w]
  BY <1>2 DEF OldIsDirty
<1>5. ws = {} => \A w \in Windows : d[w] = u.dirty[w]
  BY <1>2 DEF UI
<1>6. u.open \subseteq Windows
  BY <1>2 DEF UI
<1> HIDE DEF d, l
<1>7. t \in UI /\ SameRest(u, t) /\ t.dirty = d /\ t.look = l
  BY <1>2, <1>3 DEF UI, SameRest
<1> HIDE DEF t
<1>8. OldIsDirty(t)
  BY <1>4, <1>7 DEF OldIsDirty
<1>9. ws = {} /\ Clean(u) => Clean(t)
  BY <1>5, <1>6, <1>7 DEF Clean, SameRest
<1>10. QED
  BY <1>1, <1>7, <1>8, <1>9 DEF Good

LEMMA AddDoes ==
    ASSUME NEW u, Good(u), NEW x \in Windows
    PROVE  /\ Good(Add(u, x)) /\ Add(u, x).fade = u.fade /\ Add(u, x).spin = u.spin
           /\ Add(u, x).cut = u.cut
           /\ Add(u, x).inspector = u.inspector /\ Add(u, x).open = u.open \cup {x}
           /\ Clean(u) => Clean(Add(u, x))
<1> DEFINE d == [u.dirty EXCEPT ![x] = FALSE]
           l == [u.look EXCEPT ![x] = "never"]
           t == [u EXCEPT !.open = u.open \cup {x}, !.other = TRUE, !.dirty = d, !.look = l]
<1>1. u \in UI /\ OldIsDirty(u)
  BY DEF Good
<1>2. Add(u, x) = t
  BY <1>1 DEF Add, UI
<1>3. d \in [Windows -> BOOLEAN] /\ l \in [Windows -> {"never", "old", "current"}]
  BY <1>1 DEF UI
<1>4. \A w \in Windows : l[w] = "old" => d[w]
  BY <1>1 DEF OldIsDirty, UI
<1>5. ~d[x] /\ \A w \in Windows : d[w] => u.dirty[w]
  BY <1>1 DEF UI
<1>6. u.open \subseteq Windows /\ u.open \cup {x} \in SUBSET Windows /\ TRUE \in BOOLEAN
  BY <1>1 DEF UI
<1> HIDE DEF d, l
<1>7. /\ t \in UI /\ t.dirty = d /\ t.look = l /\ t.open = u.open \cup {x}
      /\ t.fade = u.fade /\ t.spin = u.spin /\ t.inspector = u.inspector /\ t.cut = u.cut
  BY <1>1, <1>3, <1>6 DEF UI
<1> HIDE DEF t
<1>8. OldIsDirty(t)
  BY <1>4, <1>7 DEF OldIsDirty
<1>9. Clean(u) => Clean(t)
  BY <1>5, <1>6, <1>7 DEF Clean
<1>10. QED
  BY <1>2, <1>7, <1>8, <1>9 DEF Good

LEMMA ForgetDoes ==
    ASSUME NEW u, Good(u), NEW x
    PROVE  /\ Good(Forget(u, x)) /\ Forget(u, x).fade = u.fade /\ Forget(u, x).spin = u.spin
           /\ Forget(u, x).inspector = u.inspector /\ Forget(u, x).cut = u.cut
           /\ Clean(u) => Clean(Forget(u, x))
BY DEF Good, UI, Forget, OldIsDirty, Clean

\* What application code may do.
LEMMA EffectTypes ==
    ASSUME ConstantsAssumption, TypeOK, NEW e \in Effects
    PROVE  e.start \in {"none", "fade", "spin"} /\ e.open \in BOOLEAN
<1>1. program.anims \subseteq {"fade", "spin"}
  BY DEF ConstantsAssumption, TypeOK, Program
<1>2. QED
  BY <1>1 DEF Effects

LEMMA RunDoes ==
    ASSUME ConstantsAssumption, TypeOK, NEW u, Good(u), NEW e \in Effects
    PROVE  /\ Good(Run(u, e)) /\ Run(u, e).inspector = u.inspector
           /\ e.touch = {} /\ Clean(u) => Clean(Run(u, e))
<1> DEFINE o == IF e.open /\ ~u.other THEN Add(u, Second) ELSE u
           t == Touch(o, e.touch)
           f == IF e.start = "fade" THEN FadeTicks ELSE t.fade
           s == t.spin \/ e.start = "spin"
           v == [t EXCEPT !.fade = f, !.spin = s]
<1>1. Run(u, e) = v
  BY DEF Run
<1>2. Good(o) /\ o.inspector = u.inspector /\ (Clean(u) => Clean(o))
  <2>1. Second \in Windows
    BY DEF Windows
  <2>2. CASE e.open /\ ~u.other
    BY <2>1, <2>2, AddDoes
  <2>3. CASE ~(e.open /\ ~u.other)
    BY <2>3
  <2>4. QED
    BY <2>2, <2>3
<1> HIDE DEF o
<1>3. Good(t) /\ t.inspector = u.inspector
  BY <1>2, TouchDoes DEF SameRest
<1>4. e.touch = {} /\ Clean(u) => Clean(t)
  BY <1>2, TouchDoes
<1> HIDE DEF t
<1>5. f \in 0..FadeTicks /\ s \in BOOLEAN
  BY <1>3 DEF Good, UI, ConstantsAssumption
<1> HIDE DEF f, s
<1>6. v \in UI /\ v.dirty = t.dirty /\ v.look = t.look /\ v.open = t.open
      /\ v.inspector = t.inspector
  BY <1>3, <1>5 DEF Good, UI
<1> HIDE DEF v
<1>7. QED
  BY <1>1, <1>3, <1>4, <1>6 DEF Good, OldIsDirty, Clean

LEMMA PublishDoes ==
    ASSUME NEW u, Good(u), NEW ws
    PROVE  /\ Good(Publish(u, ws)) /\ SameRest(u, Publish(u, ws))
           /\ ~u.inspector => \A w \in Windows :
                                 Publish(u, ws).dirty[w] <=> u.dirty[w] /\ w \notin ws
<1> DEFINE d == [w \in Windows |-> u.dirty[w] /\ w \notin ws]
           l == [w \in Windows |-> IF w \in ws THEN "current" ELSE u.look[w]]
           h == IF Primary \in ws THEN u.hl ELSE u.hlShown
           t == [u EXCEPT !.dirty = d, !.look = l, !.hlShown = h]
<1>1. u \in UI /\ OldIsDirty(u)
  BY DEF Good
<1>2. Publish(u, ws) = IF Primary \in ws /\ u.inspector THEN Touch(t, {Debug}) ELSE t
  BY DEF Publish
<1>3. /\ d \in [Windows -> BOOLEAN] /\ l \in [Windows -> {"never", "old", "current"}]
      /\ h \in BOOLEAN
  BY <1>1 DEF UI
<1>4. \A w \in Windows : l[w] = "old" => d[w]
  BY <1>1 DEF OldIsDirty
<1>5. \A w \in Windows : d[w] <=> u.dirty[w] /\ w \notin ws
  OBVIOUS
<1> HIDE DEF d, l, h
<1>6. t \in UI /\ SameRest(u, t) /\ t.dirty = d /\ t.look = l
  BY <1>1, <1>3 DEF UI, SameRest
<1> HIDE DEF t
<1>7. Good(t)
  BY <1>4, <1>6 DEF OldIsDirty, Good
<1>8. Good(Touch(t, {Debug})) /\ SameRest(t, Touch(t, {Debug}))
  BY <1>7, TouchDoes
<1>9. QED
  BY <1>2, <1>5, <1>6, <1>7, <1>8 DEF SameRest

LEMMA PublishAllDoes ==
    ASSUME NEW u, Good(u), NEW order
    PROVE  /\ Good(PublishAll(u, order)) /\ SameRest(u, PublishAll(u, order))
           /\ ~u.inspector => Clean(PublishAll(u, order))
<1> DEFINE o == Publish(u, DirtyOf(u) \ {Debug})
           q == Publish(o, DirtyOf(o) \cap {Debug})
           p == Publish(u, DirtyOf(u))
<1>1. u.open \subseteq Windows
  BY DEF Good, UI
<1>2. Good(o) /\ SameRest(u, o) /\ Good(p) /\ SameRest(u, p)
  BY PublishDoes
<1>3. Good(q) /\ SameRest(o, q)
  BY <1>2, PublishDoes
<1>4. ASSUME ~u.inspector PROVE Clean(p) /\ Clean(q)
  <2>1. \A w \in Windows : p.dirty[w] <=> u.dirty[w] /\ w \notin DirtyOf(u)
    BY <1>4, PublishDoes
  <2>2. \A w \in Windows : o.dirty[w] <=> u.dirty[w] /\ w \notin DirtyOf(u) \ {Debug}
    BY <1>4, PublishDoes
  <2>3. \A w \in Windows : q.dirty[w] <=> o.dirty[w] /\ w \notin DirtyOf(o) \cap {Debug}
    <3>1. ~o.inspector
      BY <1>2, <1>4 DEF SameRest
    <3> HIDE DEF o
    <3>2. QED
      BY <1>2, <3>1, PublishDoes
  <2> HIDE DEF p, o, q
  <2>4. Clean(p)
    BY <1>1, <1>2, <2>1 DEF Clean, DirtyOf, SameRest
  <2>5. Clean(q)
    BY <1>1, <1>2, <1>3, <2>2, <2>3 DEF Clean, DirtyOf, SameRest
  <2>6. QED
    BY <2>4, <2>5
<1>5. PublishAll(u, order) = IF order = "debug last" THEN q ELSE p
  BY DEF PublishAll
<1> HIDE DEF p, o, q
<1>6. QED
  BY <1>2, <1>3, <1>4, <1>5 DEF SameRest

\* The submit pass keeps the clock and the inspector, and leaves nothing dirty.
LEMMA PublishDirtyDoes ==
    ASSUME NEW u, Good(u), NEW order
    PROVE  /\ Good(PublishDirty(u, order))
           /\ PublishDirty(u, order).inspector = u.inspector
           /\ ~u.inspector => Clean(PublishDirty(u, order))
<1> DEFINE p == PublishAll(u, order)
<1>1. Good(p) /\ p.inspector = u.inspector /\ (~u.inspector => Clean(p))
  BY PublishAllDoes DEF SameRest
<1>2. PublishDirty(u, order) = [p EXCEPT !.cut = FALSE] /\ FALSE \in BOOLEAN
  BY DEF PublishDirty
<1> HIDE DEF p
<1>3. QED
  BY <1>1, <1>2 DEF Good, UI, OldIsDirty, Clean

LEMMA ResetDoes ==
    ASSUME NEW u, Good(u)
    PROVE  /\ Good(ResetInspector(u)) /\ ResetInspector(u).fade = u.fade
           /\ ResetInspector(u).spin = u.spin /\ ~ResetInspector(u).inspector
           /\ ResetInspector(u).cut = u.cut
<1> DEFINE t == [u EXCEPT !.inspector = FALSE, !.hl = FALSE]
<1>1. ResetInspector(u) = Touch(t, {Primary})
  BY DEF ResetInspector
<1>2. Good(t) /\ t.fade = u.fade /\ t.spin = u.spin /\ t.inspector = FALSE /\ t.cut = u.cut
  BY DEF Good, UI, OldIsDirty
<1> HIDE DEF t
<1>3. QED
  BY <1>1, <1>2, TouchDoes DEF SameRest

-----------------------------------------------------------------------------
(* The run_loop's queue and the tick in it. *)

TaskKind == Event \cup {Tick, Drain}

LEMMA Tailed ==
    ASSUME NEW q \in Seq(TaskKind), q # <<>>
    PROVE  /\ Head(q) = q[1] /\ 1 \in DOMAIN q /\ Tail(q) \in Seq(TaskKind)
           /\ \A i \in DOMAIN Tail(q) : i \in Nat \ {0} /\ i + 1 \in DOMAIN q /\ Tail(q)[i] = q[i + 1]
           /\ \A i \in DOMAIN q : i \in Nat /\ (i = 1 \/ i - 1 \in DOMAIN Tail(q))
OBVIOUS

LEMMA Appended ==
    ASSUME NEW q \in Seq(TaskKind), NEW t \in TaskKind
    PROVE  /\ Append(q, t) \in Seq(TaskKind) /\ Len(q) + 1 \notin DOMAIN q
           /\ Len(q) + 1 \in DOMAIN Append(q, t) /\ Append(q, t)[Len(q) + 1] = t
           /\ \A i \in DOMAIN Append(q, t) : i = Len(q) + 1 \/ i \in DOMAIN q
           /\ \A i \in DOMAIN q : i \in DOMAIN Append(q, t) /\ Append(q, t)[i] = q[i]
OBVIOUS

\* The queue without a task that is not the tick, and without the tick.
LEMMA TickTailed ==
    ASSUME NEW q \in Seq(TaskKind), q # <<>>, NEW flag \in BOOLEAN, TickQueued(q, flag)
    PROVE  /\ Head(q) # Tick => TickQueued(Tail(q), flag)
           /\ Head(q) = Tick => TickQueued(Tail(q), FALSE)
<1>1. /\ Head(q) = q[1] /\ 1 \in DOMAIN q
      /\ \A i \in DOMAIN Tail(q) : i \in Nat \ {0} /\ i + 1 \in DOMAIN q /\ Tail(q)[i] = q[i + 1]
      /\ \A i \in DOMAIN q : i \in Nat /\ (i = 1 \/ i - 1 \in DOMAIN Tail(q))
  BY Tailed
<1>2. ASSUME NEW i \in DOMAIN Tail(q), NEW j \in DOMAIN Tail(q),
             Tail(q)[i] = Tick, Tail(q)[j] = Tick
      PROVE  i = j
  <2>1. i + 1 = j + 1
    BY <1>1, <1>2 DEF TickQueued
  <2>2. QED
    BY <1>1, <2>1
<1>3. ASSUME Head(q) = Tick, NEW i \in DOMAIN Tail(q) PROVE Tail(q)[i] # Tick
  <2>1. i \in Nat \ {0} /\ i + 1 # 1
    BY <1>1
  <2>2. QED
    BY <1>1, <1>3, <2>1 DEF TickQueued
<1>4. ASSUME Head(q) # Tick, NEW i \in DOMAIN q, q[i] = Tick
      PROVE  \E j \in DOMAIN Tail(q) : Tail(q)[j] = Tick
  <2>1. i # 1 /\ i \in Nat /\ i - 1 \in DOMAIN Tail(q)
    BY <1>1, <1>4
  <2>2. Tail(q)[i - 1] = q[(i - 1) + 1] /\ (i - 1) + 1 = i
    BY <1>1, <2>1
  <2>3. QED
    BY <1>4, <2>1, <2>2
<1>5. ASSUME NEW i \in DOMAIN Tail(q), Tail(q)[i] = Tick PROVE flag
  BY <1>1, <1>5 DEF TickQueued
<1>6. QED
  BY <1>2, <1>3, <1>4, <1>5 DEF TickQueued

LEMMA TickAppended ==
    ASSUME NEW q \in Seq(TaskKind), NEW flag \in BOOLEAN, TickQueued(q, flag),
           NEW t \in TaskKind
    PROVE  /\ t # Tick => TickQueued(Append(q, t), flag)
           /\ t = Tick /\ ~flag => TickQueued(Append(q, t), TRUE)
BY Appended DEF TickQueued

LEMMA Kinds == Tick \in TaskKind /\ Drain \in TaskKind /\ Drain # Tick
                 /\ \A e \in Event : e \in TaskKind /\ e # Tick
BY DEF TaskKind, Event, Tick, Drain

\* schedule_tick queues the tick of an active clock, once.
LEMMA ScheduleDoes ==
    ASSUME NEW u, NEW q \in Seq(TaskKind), NEW flag \in BOOLEAN, TickQueued(q, flag),
           ScheduleTick(u, q, flag)
    PROVE  /\ tasks' \in Seq(TaskKind) /\ tickScheduled' \in BOOLEAN
           /\ TickQueued(tasks', tickScheduled') /\ (Active(u) => tickScheduled')
<1>1. CASE Active(u) /\ ~flag
  <2>1. tasks' = Append(q, Tick) /\ tickScheduled' = TRUE
    BY <1>1 DEF ScheduleTick
  <2>2. QED
    BY <1>1, <2>1, TickAppended, Kinds, Appended, ZenonT(30)
<1>2. CASE ~(Active(u) /\ ~flag)
  BY <1>2 DEF ScheduleTick
<1>3. QED
  BY <1>1, <1>2

\* What is left of the queue when a task is taken.
LEMMA RestIs ==
    ASSUME TypeOK, TickQueued(tasks, tickScheduled), tasks # <<>>
    PROVE  /\ Rest \in Seq(TaskKind)
           /\ Head(tasks).k # "tick" => TickQueued(Rest, tickScheduled)
           /\ Head(tasks).k = "tick" => TickQueued(Rest, FALSE)
<1>1. tasks \in Seq(TaskKind) /\ tickScheduled \in BOOLEAN
  BY DEF TypeOK, TaskKind
<1>2. Head(tasks) \in TaskKind
  BY <1>1
<1>3. Head(tasks).k = "tick" <=> Head(tasks) = Tick
  BY <1>2 DEF TaskKind, Event, Tick, Drain
<1>4. QED
  BY <1>1, <1>3, Tailed, TickTailed DEF Rest
-----------------------------------------------------------------------------
(* The invariant is inductive. *)

\* The shared tail: drain, publish, schedule.  The same part of a dispatch.
LEMMA DrainPublishDoes ==
    ASSUME NEW u, Good(u), ~program.debugTools => ~u.inspector,
           NEW q \in Seq(TaskKind), NEW flag \in BOOLEAN, TickQueued(q, flag),
           NEW order, ui' = PublishDirty(u, order), ScheduleTick(ui', q, flag)
    PROVE  /\ tasks' \in Seq(TaskKind) /\ tickScheduled' \in BOOLEAN
           /\ TickQueued(tasks', tickScheduled') /\ (Active(ui') => tickScheduled')
           /\ Good(ui') /\ (~program.debugTools => ~ui'.inspector /\ Clean(ui'))
<1>1. Good(ui') /\ ui'.inspector = u.inspector /\ (~u.inspector => Clean(ui'))
  BY PublishDirtyDoes
<1>2. QED
  BY <1>1, ScheduleDoes

\* A step of the logic thread that keeps what the invariant says of the loop.
LEMMA AppKept ==
    ASSUME AppInv, Good(ui'),
           tasks' \in Seq(TaskKind), tickScheduled' \in BOOLEAN, closed' \in BOOLEAN,
           lpc' = "idle", pump' \in {"running", "quitting", "returned"},
           pend' \in [Windows -> Nat], UNCHANGED bounds,
           TickQueued(tasks', tickScheduled'),
           ~closed' /\ ~ui'.cut /\ Active(ui') => tickScheduled',
           ~closed' /\ ~ui'.cut /\ ~program.debugTools => Clean(ui'),
           ~program.debugTools => ~ui'.inspector
    PROVE  AppInv'
BY DEF AppInv, TypeOK, Good, TaskKind, bounds, ActiveTicks, TasksPublish, Starting,
       NoInspector

\* What every case below starts from.
LEMMA Basics ==
    ASSUME ConstantsAssumption, AppInv
    PROVE  /\ Good(ui) /\ tasks \in Seq(TaskKind) /\ tickScheduled \in BOOLEAN
           /\ closed \in BOOLEAN /\ pump \in {"running", "quitting", "returned"}
           /\ pend \in [Windows -> Nat] /\ TypeOK /\ program \in Program
           /\ TickQueued(tasks, tickScheduled) /\ (~program.debugTools => ~ui.inspector)
           /\ \A ws : Drained(ws) \in [Windows -> Nat]
BY DEF AppInv, TypeOK, Good, TaskKind, NoInspector, ConstantsAssumption, Drained

LEMMA StartupStep ==
    ASSUME ConstantsAssumption, AppInv, Startup
    PROVE  AppInv'
<1>1. PICK e \in Effects :
         /\ e.touch = {} /\ ui' = Run(Publish(ui, {Primary}), e)
         /\ ScheduleTick(ui', tasks, tickScheduled)
  BY DEF Startup
<1> DEFINE u == Publish(ui, {Primary})
<1>2. /\ Good(u) /\ u.inspector = ui.inspector /\ u.open = ui.open
      /\ ~ui.inspector => \A w \in Windows : u.dirty[w] <=> ui.dirty[w] /\ w \notin {Primary}
  BY Basics, PublishDoes DEF SameRest
<1>3. Primary \in Windows /\ ui.open = {Primary}
  BY DEF Windows, AppInv, Starting, Startup
<1> HIDE DEF u
<1>4. ~program.debugTools => Clean(u)
  BY <1>2, <1>3, Basics DEF Clean
<1>5. Good(ui') /\ ui'.inspector = ui.inspector /\ (Clean(u) => Clean(ui'))
  <2>1. ui' = Run(u, e)
    BY <1>1 DEF u
  <2>2. QED
    BY <1>1, <1>2, <2>1, Basics, RunDoes
<1>6. /\ tasks' \in Seq(TaskKind) /\ tickScheduled' \in BOOLEAN
      /\ TickQueued(tasks', tickScheduled') /\ (Active(ui') => tickScheduled')
  BY <1>1, Basics, ScheduleDoes
<1>7. lpc' = "idle" /\ UNCHANGED <<closed, pump, pend, bounds>>
  BY DEF Startup
<1>8. QED
  BY <1>4, <1>5, <1>6, <1>7, Basics, AppKept

LEMMA EventSteps ==
    ASSUME ConstantsAssumption, AppInv, DropEvent \/ ClosePrimary \/ CloseOther
    PROVE  AppInv'
<1>1. lpc = "idle" /\ tasks # <<>> /\ Head(tasks).k # "tick" /\ tasks' = Rest
  BY DEF DropEvent, ClosePrimary, CloseOther, Task
<1>2. tasks' \in Seq(TaskKind) /\ TickQueued(tasks', tickScheduled)
  BY <1>1, Basics, RestIs
<1>3. CASE DropEvent
  <2>1. UNCHANGED <<ui, tickScheduled, closed, lpc, pump, pend, bounds>>
    BY <1>3 DEF DropEvent
  <2>2. ~closed /\ ~ui.cut => (Active(ui) => tickScheduled)
                              /\ (~program.debugTools => Clean(ui))
    BY <1>1 DEF AppInv, ActiveTicks, TasksPublish
  <2>3. /\ closed' \in BOOLEAN /\ pump' \in {"running", "quitting", "returned"}
        /\ tickScheduled' \in BOOLEAN /\ TickQueued(tasks', tickScheduled')
        /\ pend' \in [Windows -> Nat] /\ lpc' = "idle" /\ UNCHANGED bounds
        /\ Good(ui') /\ (~program.debugTools => ~ui'.inspector)
    BY <1>1, <1>2, <2>1, Basics
  <2>4. ~closed' /\ ~ui'.cut /\ Active(ui') => tickScheduled'
    BY <2>1, <2>2
  <2>5. ~closed' /\ ~ui'.cut /\ ~program.debugTools => Clean(ui')
    BY <2>1, <2>2
  <2>6. QED
    BY <1>2, <2>3, <2>4, <2>5, AppKept
<1>4. CASE ClosePrimary
  <2>1. /\ closed' = TRUE /\ ui' = [ui EXCEPT !.fade = 0, !.spin = FALSE]
        /\ pump' = IF pump = "running" THEN "quitting" ELSE pump
        /\ UNCHANGED <<tickScheduled, lpc, pend, bounds>>
    BY <1>4 DEF ClosePrimary
  <2>2. Good(ui') /\ ui'.inspector = ui.inspector
    <3>1. 0 \in 0..FadeTicks /\ FALSE \in BOOLEAN
      BY DEF ConstantsAssumption
    <3>2. Good(ui)
      BY Basics
    <3>3. QED
      BY <2>1, <3>1, <3>2 DEF Good, UI, OldIsDirty
  <2>3. closed' \in BOOLEAN /\ pump' \in {"running", "quitting", "returned"}
    BY <2>1, Basics
  <2>4. tickScheduled' \in BOOLEAN /\ TickQueued(tasks', tickScheduled')
    BY <1>2, <2>1, Basics
  <2>5. pend' \in [Windows -> Nat] /\ lpc' = "idle" /\ UNCHANGED bounds
    BY <1>1, <2>1, Basics
  <2>6. closed' /\ (~program.debugTools => ~ui'.inspector)
    BY <2>1, <2>2, Basics
  <2>7. QED
    BY <1>2, <2>2, <2>3, <2>4, <2>5, <2>6, AppKept
<1>5. CASE CloseOther
  <2> DEFINE g == Forget(ui, W)
  <2>1. /\ ui' = IF ui.inspector /\ W = Debug THEN ResetInspector(g) ELSE g
        /\ UNCHANGED <<tickScheduled, closed, lpc, pump, pend, bounds>>
    BY <1>5 DEF CloseOther
  <2>2. /\ Good(g) /\ g.fade = ui.fade /\ g.spin = ui.spin /\ g.inspector = ui.inspector
        /\ g.cut = ui.cut /\ (Clean(ui) => Clean(g))
    BY Basics, ForgetDoes
  <2> HIDE DEF g
  <2>3. /\ Good(ui') /\ ui'.fade = ui.fade /\ ui'.spin = ui.spin /\ ui'.cut = ui.cut
        /\ (~ui.inspector => ~ui'.inspector /\ (Clean(ui) => Clean(ui')))
    BY <2>1, <2>2, ResetDoes
  <2>4. ~closed /\ ~ui.cut => (Active(ui) => tickScheduled)
                              /\ (~program.debugTools => Clean(ui))
    BY <1>1 DEF AppInv, ActiveTicks, TasksPublish
  <2>5. Active(ui') <=> Active(ui)
    BY <2>3 DEF Active
  <2>6. /\ closed' \in BOOLEAN /\ pump' \in {"running", "quitting", "returned"}
        /\ tickScheduled' \in BOOLEAN /\ TickQueued(tasks', tickScheduled')
        /\ pend' \in [Windows -> Nat] /\ lpc' = "idle" /\ UNCHANGED bounds
    BY <1>1, <1>2, <2>1, Basics
  <2>7. ~program.debugTools => ~ui.inspector
    BY Basics
  <2>8. ~closed' /\ ~ui'.cut /\ Active(ui') => tickScheduled'
    BY <2>1, <2>3, <2>4, <2>5
  <2>9. ~closed' /\ ~ui'.cut /\ ~program.debugTools => Clean(ui')
    BY <2>1, <2>3, <2>4, <2>7
  <2>10. ~program.debugTools => ~ui'.inspector
    BY <2>3, <2>7
  <2>11. QED
    BY <1>2, <2>3, <2>6, <2>8, <2>9, <2>10, AppKept
<1>6. QED
  BY <1>3, <1>4, <1>5

\* The parts of a dispatch before it publishes.
LEMMA KeyedIs ==
    ASSUME ConstantsAssumption, AppInv, NEW keyed \in Hotkey(ui)
    PROVE  Good(keyed) /\ keyed.fade = ui.fade /\ keyed.spin = ui.spin /\ keyed.cut = ui.cut
<1>1. Good(ui) /\ Debug \in Windows
  BY Basics DEF Windows
<1>2. CASE ui.inspector /\ keyed = ResetInspector(Forget(ui, Debug))
  <2> DEFINE g == Forget(ui, Debug)
  <2>1. Good(g) /\ g.fade = ui.fade /\ g.spin = ui.spin /\ g.cut = ui.cut
    BY <1>1, ForgetDoes
  <2>2. keyed = ResetInspector(g)
    BY <1>2
  <2> HIDE DEF g
  <2>3. QED
    BY <2>1, <2>2, ResetDoes
<1>3. CASE keyed = ui
  BY <1>1, <1>3
<1>4. CASE keyed = [Add(ui, Debug) EXCEPT !.inspector = TRUE]
  <2> DEFINE g == Add(ui, Debug)
  <2>1. Good(g) /\ g.fade = ui.fade /\ g.spin = ui.spin /\ g.cut = ui.cut
    BY <1>1, AddDoes
  <2>2. keyed = [g EXCEPT !.inspector = TRUE] /\ TRUE \in BOOLEAN
    BY <1>4
  <2> HIDE DEF g
  <2>3. QED
    BY <2>1, <2>2 DEF Good, UI, OldIsDirty
<1>5. QED
  BY <1>2, <1>3, <1>4 DEF Hotkey

LEMMA RoutedIs ==
    ASSUME ConstantsAssumption, TypeOK, NEW u, Good(u), NEW w, NEW h \in Highlight(u, w),
           NEW e \in Effects, NEW ws, NEW resized,
           LET hooked == Hook(DrainShared(Run(h, e), ws))
           IN resized = hooked \/ resized = Publish(hooked, ws)
    PROVE  Good(resized) /\ (~u.inspector => ~resized.inspector)
<1>1. Good(h) /\ h.inspector = u.inspector
  <2>1. CASE h = u
    BY <2>1
  <2>2. CASE h = Touch([u EXCEPT !.hl = TRUE], {Primary})
    <3> DEFINE g == [u EXCEPT !.hl = TRUE]
    <3>1. TRUE \in BOOLEAN
      OBVIOUS
    <3>2. Good(g) /\ g.inspector = u.inspector
      BY <3>1 DEF Good, UI, OldIsDirty
    <3> HIDE DEF g
    <3>3. h = Touch(g, {Primary})
      BY <2>2 DEF g
    <3>4. QED
      BY <3>2, <3>3, TouchDoes DEF SameRest
  <2>3. QED
    BY <2>1, <2>2 DEF Highlight
<1> DEFINE r == Run(h, e)
           d == DrainShared(r, ws)
           k == Hook(d)
<1>2. Good(r) /\ r.inspector = u.inspector
  BY <1>1, RunDoes
<1> HIDE DEF r
<1>3. Good(d) /\ d.inspector = u.inspector
  BY <1>2, TouchDoes DEF DrainShared, SameRest
<1> HIDE DEF d
<1>4. Good(k) /\ k.inspector = u.inspector
  BY <1>3, TouchDoes DEF Hook, SameRest
<1>5. resized = k \/ resized = Publish(k, ws)
  BY DEF k, d, r
<1> HIDE DEF k
<1>6. QED
  BY <1>4, <1>5, PublishDoes DEF SameRest

LEMMA DispatchStep ==
    ASSUME ConstantsAssumption, AppInv, DispatchEvent
    PROVE  AppInv'
<1>1. /\ lpc = "idle" /\ tasks # <<>> /\ Head(tasks).k # "tick" /\ ~closed /\ W \in ui.open
      /\ UNCHANGED <<closed, lpc, pump, bounds>>
  BY DEF DispatchEvent, Task
<1>2. Rest \in Seq(TaskKind) /\ TickQueued(Rest, tickScheduled)
  BY <1>1, Basics, RestIs
<1>3. PICK keyed \in IF Head(tasks).k = "hotkey" /\ program.debugTools THEN Hotkey(ui) ELSE {ui} :
         IF W \notin keyed.open
         THEN ui' = keyed /\ tasks' = Rest /\ UNCHANGED <<tickScheduled, pend>>
         ELSE \E e \in Effects, order \in Orders, h \in Highlight(keyed, W) :
                LET hooked == Hook(DrainShared(Run(h, e), {W}))
                    resized == IF Head(tasks).k = "resize" THEN Publish(hooked, {W}) ELSE hooked
                IN /\ ui' = PublishDirty(resized, order) /\ pend' = Drained({W})
                   /\ ScheduleTick(ui', Rest, tickScheduled)
  BY DEF DispatchEvent
<1>4. /\ Good(keyed) /\ keyed.fade = ui.fade /\ keyed.spin = ui.spin /\ keyed.cut = ui.cut
      /\ ~program.debugTools => keyed = ui
  BY Basics, KeyedIs
<1>5. CASE W \notin keyed.open
  <2>1. program.debugTools
    BY <1>1, <1>4, <1>5, Basics DEF Program
  <2>2. ~ui.cut /\ Active(ui) => tickScheduled
    BY <1>1 DEF AppInv, ActiveTicks
  <2>3. Active(keyed) = Active(ui)
    BY <1>4 DEF Active
  <2>4. ui' = keyed /\ tasks' = Rest /\ UNCHANGED <<tickScheduled, pend>>
    BY <1>3, <1>5
  <2>5. QED
    BY <1>1, <1>2, <1>4, <2>1, <2>2, <2>3, <2>4, Basics, AppKept
<1>6. CASE W \in keyed.open
  <2>1. PICK e \in Effects, order \in Orders, h \in Highlight(keyed, W) :
           LET hooked == Hook(DrainShared(Run(h, e), {W}))
               resized == IF Head(tasks).k = "resize" THEN Publish(hooked, {W}) ELSE hooked
           IN /\ ui' = PublishDirty(resized, order) /\ pend' = Drained({W})
              /\ ScheduleTick(ui', Rest, tickScheduled)
    BY <1>3, <1>6
  <2> DEFINE k == Hook(DrainShared(Run(h, e), {W}))
             r == IF Head(tasks).k = "resize" THEN Publish(k, {W}) ELSE k
  <2>2. r = k \/ r = Publish(k, {W})
    OBVIOUS
  <2>3. Good(r) /\ (~keyed.inspector => ~r.inspector)
    BY <1>4, <2>2, Basics, RoutedIs
  <2>4. ui' = PublishDirty(r, order) /\ pend' = Drained({W}) /\ ScheduleTick(ui', Rest, tickScheduled)
    BY <2>1
  <2> HIDE DEF r
  <2>5. ~program.debugTools => ~r.inspector
    BY <1>4, <2>3, Basics
  <2>6. /\ tasks' \in Seq(TaskKind) /\ tickScheduled' \in BOOLEAN
        /\ TickQueued(tasks', tickScheduled') /\ (Active(ui') => tickScheduled')
        /\ Good(ui') /\ (~program.debugTools => ~ui'.inspector /\ Clean(ui'))
    BY <1>2, <2>3, <2>4, <2>5, Basics, DrainPublishDoes
  <2>7. QED
    BY <1>1, <2>4, <2>6, Basics, AppKept
<1>7. QED
  BY <1>5, <1>6

\* A task that ends with the shared tail; flag is tick_scheduled before it.
LEMMA TailStep ==
    ASSUME ConstantsAssumption, AppInv, lpc = "idle", tasks # <<>>,
           UNCHANGED <<closed, lpc, pump, bounds>>,
           NEW u, Good(u), u.inspector = ui.inspector,
           NEW flag \in BOOLEAN, TickQueued(Rest, flag), DrainPublish(u, Rest, flag)
    PROVE  AppInv'
<1>1. PICK order \in Orders : /\ ui' = PublishDirty(DrainShared(u, u.open), order)
                              /\ pend' = Drained(u.open) /\ ScheduleTick(ui', Rest, flag)
  BY DEF DrainPublish
<1> DEFINE d == DrainShared(u, u.open)
<1>2. Good(d) /\ d.inspector = u.inspector
  BY TouchDoes DEF DrainShared, SameRest
<1>3. ui' = PublishDirty(d, order)
  BY <1>1
<1> HIDE DEF d
<1>4. ~program.debugTools => ~d.inspector
  BY <1>2, Basics
<1>5. Rest \in Seq(TaskKind)
  BY Basics, RestIs
<1>6. /\ tasks' \in Seq(TaskKind) /\ tickScheduled' \in BOOLEAN
      /\ TickQueued(tasks', tickScheduled') /\ (Active(ui') => tickScheduled')
      /\ Good(ui') /\ (~program.debugTools => ~ui'.inspector /\ Clean(ui'))
  BY <1>1, <1>2, <1>3, <1>4, <1>5, DrainPublishDoes
<1>7. QED
  BY <1>1, <1>6, Basics, AppKept

LEMMA DrainSteps ==
    ASSUME ConstantsAssumption, AppInv, RunDrain \/ RunTick
    PROVE  AppInv'
<1>1. lpc = "idle" /\ tasks # <<>> /\ UNCHANGED <<closed, lpc, pump, bounds>>
  BY DEF RunDrain, RunTick, Task
<1>2. CASE RunDrain
  <2>1. PICK e \in Effects : DrainPublish(Run(ui, e), Rest, tickScheduled)
    BY <1>2 DEF RunDrain
  <2>2. Good(Run(ui, e)) /\ Run(ui, e).inspector = ui.inspector
    BY Basics, RunDoes
  <2>3. TickQueued(Rest, tickScheduled) /\ tickScheduled \in BOOLEAN
    BY <1>1, <1>2, Basics, RestIs DEF RunDrain, Task
  <2>4. QED
    BY <1>1, <2>1, <2>2, <2>3, TailStep
<1>3. CASE RunTick
  <2> DEFINE v == TickClock(ui)
             t == Touch(ui, {Primary})
  <2>1. DrainPublish(v, Rest, FALSE)
    BY <1>3 DEF RunTick
  <2>2. Good(ui) /\ Good(t) /\ t.inspector = ui.inspector
    BY Basics, TouchDoes DEF SameRest
  <2>3. v = ui \/ v = [t EXCEPT !.fade = IF t.fade > 0 THEN t.fade - 1 ELSE 0]
    BY DEF TickClock
  <2> HIDE DEF t, v
  <2>4. Good(v) /\ v.inspector = ui.inspector
    <3>1. CASE v = ui
      BY <2>2, <3>1
    <3>2. CASE v = [t EXCEPT !.fade = IF t.fade > 0 THEN t.fade - 1 ELSE 0]
      <4>1. t.fade \in 0..FadeTicks /\ FadeTicks \in Nat
        BY <2>2 DEF Good, UI, ConstantsAssumption
      <4>2. (IF t.fade > 0 THEN t.fade - 1 ELSE 0) \in 0..FadeTicks
        BY <4>1
      <4>3. QED
        BY <2>2, <3>2, <4>2 DEF Good, UI, OldIsDirty
    <3>3. QED
      BY <2>3, <3>1, <3>2
  <2>5. TickQueued(Rest, FALSE) /\ FALSE \in BOOLEAN
    BY <1>1, <1>3, Basics, RestIs DEF RunTick, Task
  <2>6. QED
    BY <1>1, <2>1, <2>4, <2>5, TailStep
<1>4. QED
  BY <1>2, <1>3

\* An exception cuts a tail short, or ends the program.
LEMMA ThrowSteps ==
    ASSUME ConstantsAssumption, AppInv, RunDrainThrowing \/ CrashInTask
    PROVE  AppInv'
<1>1. /\ throws < program.maxThrows /\ throws' = throws + 1 /\ tasks # <<>>
      /\ UNCHANGED <<tickScheduled, closed, pump, events, posts, program>> /\ lpc = "idle"
  BY DEF RunDrainThrowing, CrashInTask, Task
<1>2. throws' \in 0..program.maxThrows /\ throws' # 0
  BY <1>1, Basics DEF TypeOK, Program
<1>3. CASE RunDrainThrowing
  <2> PICK e \in Effects, w \in {v \in ui.open : pend[v] > 0} :
         \E front \in SUBSET (ui.open \ {w}), touched \in SUBSET {w}, left \in 0..pend[w] - 1 :
            /\ ui' = [Touch(DrainShared(Run(ui, e), front), touched) EXCEPT !.cut = TRUE]
            /\ pend' = [Drained(front) EXCEPT ![w] = left]
    BY <1>3 DEF RunDrainThrowing
  <2>1. PICK front \in SUBSET (ui.open \ {w}), touched \in SUBSET {w}, left \in 0..pend[w] - 1 :
           /\ ui' = [Touch(DrainShared(Run(ui, e), front), touched) EXCEPT !.cut = TRUE]
           /\ pend' = [Drained(front) EXCEPT ![w] = left]
    OBVIOUS
  <2> DEFINE r == Run(ui, e)
             d == DrainShared(r, front)
             t == Touch(d, touched)
  <2>2. Good(r) /\ r.inspector = ui.inspector
    BY Basics, RunDoes
  <2> HIDE DEF r
  <2>3. Good(d) /\ d.inspector = ui.inspector
    BY <2>2, TouchDoes DEF DrainShared, SameRest
  <2> HIDE DEF d
  <2>4. Good(t) /\ t.inspector = ui.inspector
    BY <2>3, TouchDoes DEF SameRest
  <2>5. ui' = [t EXCEPT !.cut = TRUE] /\ TRUE \in BOOLEAN
    BY <2>1 DEF t, d, r
  <2> HIDE DEF t
  <2>6. Good(ui') /\ ui'.inspector = ui.inspector /\ ui'.cut
    BY <2>4, <2>5 DEF Good, UI, OldIsDirty
  <2>7. tasks' = Rest /\ lpc' = lpc /\ Head(tasks).k = "drain"
    BY <1>3 DEF RunDrainThrowing, Task
  <2>8. tasks' \in Seq(TaskKind) /\ TickQueued(tasks', tickScheduled')
    BY <1>1, <2>7, Basics, RestIs
  <2>9. pend' \in [Windows -> Nat]
    <3>1. left \in Nat /\ Drained(front) \in [Windows -> Nat]
      BY Basics
    <3>2. QED
      BY <2>1, <3>1
  <2>10. TypeOK
    BY Basics
  <2>11. QED
    BY <1>1, <1>2, <2>6, <2>7, <2>8, <2>9, <2>10
       DEF AppInv, TypeOK, Good, TaskKind, ActiveTicks, TasksPublish, Starting, NoInspector
<1>4. CASE CrashInTask
  <2>1. lpc' = "crashed" /\ UNCHANGED <<ui, tasks, pend>>
    BY <1>4 DEF CrashInTask
  <2>2. QED
    BY <1>1, <1>2, <2>1
       DEF AppInv, TypeOK, ActiveTicks, TasksPublish, Starting, NoInspector
<1>5. QED
  BY <1>3, <1>4

\* The other threads append to the queue, and leave ui to the logic thread.
LEMMA OtherKept ==
    ASSUME AppInv, UNCHANGED <<ui, tickScheduled, closed, throws, program>>,
           lpc' = lpc \/ lpc' = "exited", pump' \in {"running", "quitting", "returned"},
           pend' \in [Windows -> Nat], events' \in 0..program.maxEvents,
           posts' \in 0..program.maxPosts,
           tasks' = tasks \/ \E t \in TaskKind : t # Tick /\ tasks' = Append(tasks, t)
    PROVE  AppInv'
<1>1. tasks \in Seq(TaskKind) /\ TickQueued(tasks, tickScheduled) /\ tickScheduled \in BOOLEAN
  BY DEF AppInv, TypeOK, TaskKind
<1>2. tasks' \in Seq(TaskKind) /\ TickQueued(tasks', tickScheduled')
  <2>1. CASE tasks' = tasks
    BY <1>1, <2>1
  <2>2. ASSUME NEW t \in TaskKind, t # Tick, tasks' = Append(tasks, t)
        PROVE  tasks' \in Seq(TaskKind) /\ TickQueued(tasks', tickScheduled')
    <3>1. tasks' \in Seq(TaskKind)
      BY <1>1, <2>2, Appended
    <3>2. TickQueued(Append(tasks, t), tickScheduled)
      BY <1>1, <2>2, TickAppended
    <3>3. QED
      BY <2>2, <3>1, <3>2
  <2>3. QED
    BY <2>1, <2>2
<1>3. QED
  BY <1>2 DEF AppInv, TypeOK, TaskKind, ActiveTicks, TasksPublish, Starting, NoInspector

LEMMA OtherSteps ==
    ASSUME ConstantsAssumption, AppInv, Main \/ Producers \/ ExitLoop \/ UNCHANGED vars
    PROVE  AppInv'
<1>1. /\ events \in 0..program.maxEvents /\ posts \in 0..program.maxPosts
      /\ program.maxEvents \in Nat /\ program.maxPosts \in Nat /\ ui.open \subseteq Windows
      /\ pend \in [Windows -> Nat] /\ pump \in {"running", "quitting", "returned"}
  BY Basics DEF TypeOK, Program, UI
<1>2. ASSUME NEW k \in {"close", "resize", "input", "hotkey"}, NEW w \in Windows \cup {NoWindow}
      PROVE  [k |-> k, w |-> w] \in TaskKind /\ [k |-> k, w |-> w] # Tick
  <2>1. [k |-> k, w |-> w] \in Event
    BY <1>2 DEF Event
  <2>2. QED
    BY <2>1, Kinds
<1>3. ASSUME NEW k \in {"close", "resize", "input", "hotkey"}, NEW w \in ui.open, OsEvent(k, w)
      PROVE  AppInv'
  <2>1. /\ events < program.maxEvents /\ events' = events + 1
        /\ tasks' = Append(tasks, [k |-> k, w |-> w])
        /\ UNCHANGED <<ui, tickScheduled, closed, lpc, pump, pend, posts, throws, program>>
    BY <1>3 DEF OsEvent, Enqueue
  <2>2. events' \in 0..program.maxEvents
    BY <1>1, <2>1
  <2>3. [k |-> k, w |-> w] \in TaskKind /\ [k |-> k, w |-> w] # Tick
    BY <1>1, <1>2
  <2>4. QED
    BY <1>1, <2>1, <2>2, <2>3, OtherKept
<1>4. CASE OsQuit
  <2>1. PICK w \in QuitTargets : tasks' = Append(tasks, [k |-> "close", w |-> w])
    BY <1>4 DEF OsQuit, Enqueue
  <2>2. w \in Windows \cup {NoWindow}
    BY <1>1 DEF QuitTargets, Windows
  <2>3. /\ events < program.maxEvents /\ events' = events + 1 /\ pump' = "quitting"
        /\ UNCHANGED <<ui, tickScheduled, closed, lpc, pend, posts, throws, program>>
    BY <1>4 DEF OsQuit
  <2>4. events' \in 0..program.maxEvents
    BY <1>1, <2>3
  <2>5. QED
    BY <1>1, <1>2, <2>1, <2>2, <2>3, <2>4, OtherKept
<1>5. ASSUME NEW w \in Windows, SetAndPost(w) PROVE AppInv'
  <2>1. /\ posts < program.maxPosts /\ posts' = posts + 1
        /\ tasks' = tasks \/ tasks' = Append(tasks, Drain)
        /\ UNCHANGED <<ui, tickScheduled, closed, lpc, pump, events, throws, program>>
    BY <1>5 DEF SetAndPost
  <2>2. PICK n \in {pend[w], pend[w] + 1} \ {0} : pend' = [pend EXCEPT ![w] = n]
    BY <1>5 DEF SetAndPost
  <2>3. n \in Nat
    BY <1>1, <2>2
  <2>4. pend' \in [Windows -> Nat]
    BY <1>1, <2>2, <2>3
  <2>5. posts' \in 0..program.maxPosts
    BY <1>1, <2>1
  <2>6. QED
    BY <1>1, <2>1, <2>4, <2>5, Kinds, OtherKept
<1>6. CASE PumpReturns \/ ExitLoop \/ UNCHANGED vars
  <2>1. /\ UNCHANGED <<ui, tickScheduled, closed, throws, program, pend, events, posts, tasks>>
        /\ lpc' = lpc \/ lpc' = "exited"
        /\ pump' = pump \/ pump' = "returned"
    BY <1>6 DEF PumpReturns, ExitLoop, vars, bounds
  <2>2. QED
    BY <1>1, <2>1, OtherKept
<1>7. QED
  BY <1>3, <1>4, <1>5, <1>6 DEF Main, Producers, Windows

-----------------------------------------------------------------------------
(* The theorems. *)

LEMMA AppInvInit ==
    ASSUME ConstantsAssumption, Init
    PROVE  AppInv
<1> USE DEF Init
<1>1. program \in Program /\ FadeTicks \in Nat
  BY DEF ConstantsAssumption
<1>2. /\ Primary \in Windows /\ 0 \in 0..FadeTicks /\ 0 \in 0..program.maxEvents
      /\ 0 \in 0..program.maxPosts /\ 0 \in 0..program.maxThrows
  BY <1>1 DEF Windows, Program
<1>3. /\ [w \in Windows |-> FALSE] \in [Windows -> BOOLEAN]
      /\ [w \in Windows |-> 0] \in [Windows -> Nat]
      /\ [w \in Windows |-> "never"] \in [Windows -> {"never", "old", "current"}]
      /\ {Primary} \in SUBSET Windows /\ FALSE \in BOOLEAN
  BY <1>2
<1>4. ui \in UI
  BY <1>2, <1>3 DEF UI
<1>5. /\ OldIsDirty(ui) /\ ui.open = {Primary} /\ ~Active(ui) /\ ~ui.inspector
      /\ lpc = "start"
  BY DEF OldIsDirty, Active
<1>6. <<>> \in Seq(Event \cup {Tick, Drain}) /\ DOMAIN <<>> = {}
  BY EmptySeq
<1>7. TickQueued(tasks, tickScheduled)
  BY <1>6 DEF TickQueued
<1>8. TypeOK
  BY <1>2, <1>3, <1>4, <1>6 DEF TypeOK
<1>9. QED
  BY <1>5, <1>7, <1>8 DEF AppInv, ActiveTicks, TasksPublish, Starting, NoInspector

LEMMA AppInvStep ==
    ASSUME ConstantsAssumption, AppInv, [Next]_vars
    PROVE  AppInv'
BY StartupStep, EventSteps, DispatchStep, DrainSteps, ThrowSteps, OtherSteps
   DEF Next, Logic

\* The invariant is inductive.  (run_logic_thread and its tasks)
THEOREM AppInvariant == ASSUME ConstantsAssumption PROVE Spec => []AppInv
<1>1. Init => AppInv
  BY AppInvInit
<1>2. AppInv /\ [Next]_vars => AppInv'
  BY AppInvStep
<1>3. QED
  BY <1>1, <1>2, PTL DEF Spec

\* Every variable keeps its type.
THEOREM AppTypeCorrect == ASSUME ConstantsAssumption PROVE Spec => []TypeOK
<1>1. AppInv => TypeOK
  BY DEF AppInv
<1>2. QED
  BY <1>1, AppInvariant, PTL

\* An animation goes on by itself, at one pace, for any number of windows, ticks
\* and events.  (schedule_tick)
THEOREM AnimationsTick == ASSUME ConstantsAssumption PROVE Spec => []TickAlive
<1>1. ASSUME AppInv PROVE TickAlive
  <2>1. TickQueued(tasks, tickScheduled) /\ ActiveTicks /\ tickScheduled \in BOOLEAN
    BY <1>1 DEF AppInv, TypeOK
  <2>2. Tick \in ToSet(tasks) <=> \E i \in DOMAIN tasks : tasks[i] = Tick
    BY DEF ToSet
  <2>3. tasks = <<>> => ~tickScheduled
    BY <2>1 DEF TickQueued
  <2>4. QED
    BY <2>1, <2>2, <2>3 DEF TickAlive, TickQueued, ActiveTicks, AtRest
<1>2. QED
  BY <1>1, AppInvariant, PTL

\* At rest the screen is on its way to what was changed last.  (the submit pass
\* that ends each task)
THEOREM ChangesPublished == ASSUME ConstantsAssumption PROVE Spec => []PublishedAtRest
<1>1. ASSUME AppInv PROVE PublishedAtRest
  <2> SUFFICES ASSUME AtRest, ~closed, ~ui.cut, ~program.debugTools, NEW w \in ui.open
               PROVE  ui.look[w] # "old"
    BY DEF PublishedAtRest
  <2>1. Clean(ui) /\ OldIsDirty(ui) /\ ui.open \subseteq Windows
    BY <1>1 DEF AppInv, TasksPublish, AtRest, TypeOK, UI
  <2>2. QED
    BY <2>1 DEF Clean, OldIsDirty
<1>2. QED
  BY <1>1, AppInvariant, PTL
=============================================================================
