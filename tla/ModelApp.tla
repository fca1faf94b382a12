------------------------------ MODULE ModelApp --------------------------------
(***************************************************************************)
(* model_app() (app/model_app.hpp): the logic thread's run_loop and what   *)
(* its tasks do to the windows of the WindowRegistry.                      *)
(*                                                                         *)
(* The main thread sits in Backend::run and turns each OS event into a     *)
(* task; producers' posts become drain tasks (MutationQueue); an active    *)
(* AnimationClock keeps one tick task going.  A task runs to completion    *)
(* on the logic thread, so it is one action here, and the code of a task   *)
(* is a composition of functions on the state `ui` that only that thread   *)
(* touches: routing, draining Shared and Channel, publishing, ticking.     *)
(*                                                                         *)
(* The content of a window is reduced to how its last snapshot compares    *)
(* with what a build would show now: "never" published, "old", "current".  *)
(***************************************************************************)
EXTENDS Naturals, Sequences, SequencesExt

CONSTANTS
    Primary, Second, Debug,  \* the windows; Debug is the tree inspector's
    NoWindow,        \* WindowId 0
    FadeTicks,       \* ticks a "fade" lasts; a "spin" is perpetual
    Programs         \* the programs and bounds to consider, see Program

Program == [debugTools : BOOLEAN,                  \* PRISM_DEBUG_TOOLS_ENABLED
            opensSecond : BOOLEAN,                 \* it opens a second window
            anims : SUBSET {"fade", "spin"},       \* animations it starts
            maxEvents : Nat,                       \* bound: OS events
            maxPosts : Nat,                        \* bound: posts of other threads
            maxThrows : Nat]                       \* bound: exceptions of callbacks

ASSUME ConstantsAssumption ==
    /\ FadeTicks \in Nat \ {0}
    /\ \A p \in Programs : p \in Program

Windows == {Primary, Second, Debug}

VARIABLES
    program,         \* the program that runs
    ui,              \* what only the logic thread touches, see UI
    tasks,           \* the run_loop's queue
    tickScheduled,   \* tick_scheduled
    closed,          \* mutation_closed
    lpc,             \* logic thread: "start", "idle", "exited", or "crashed"
    pump,            \* main thread: Backend::run is "running", was told to quit
                     \* ("quitting"), has "returned" and loop.finish() was called
    pend,            \* notifications (items of a Channel, changed Shareds) shown in
                     \* each window that no drain has emitted
    events, posts, throws

bounds == <<events, posts, throws, program>>
vars == <<program, ui, tasks, tickScheduled, closed, lpc, pump, pend, events, posts, throws>>

UI == [open : SUBSET Windows,                       \* entries of the registry
       other : BOOLEAN,                             \* a second window was opened
       dirty : [Windows -> BOOLEAN],                \* any_dirty() of each tree
       look : [Windows -> {"never", "old", "current"}],
       inspector : BOOLEAN,                         \* debug_window_id has a value
       hl : BOOLEAN, hlShown : BOOLEAN,             \* highlight: set, on screen
       cut : BOOLEAN,                               \* history: an exception cut a tail short,
                                                    \* and no submit pass came since
       fade : 0..FadeTicks, spin : BOOLEAN]         \* the AnimationClock

Event == [k : {"close", "resize", "input", "hotkey"}, w : Windows \cup {NoWindow}]
Tick == [k |-> "tick", w |-> NoWindow]
Drain == [k |-> "drain", w |-> NoWindow]

TypeOK ==
    /\ ui \in UI
    /\ tasks \in Seq(Event \cup {Tick, Drain})
    /\ tickScheduled \in BOOLEAN
    /\ closed \in BOOLEAN
    /\ lpc \in {"start", "idle", "exited", "crashed"}
    /\ pump \in {"running", "quitting", "returned"}
    /\ pend \in [Windows -> Nat]
    /\ program \in Programs
    /\ events \in 0..program.maxEvents /\ posts \in 0..program.maxPosts
    /\ throws \in 0..program.maxThrows

Init ==
    /\ program \in Programs
    /\ ui = [open |-> {Primary}, other |-> FALSE,
             dirty |-> [w \in Windows |-> FALSE],
             look |-> [w \in Windows |-> "never"],
             inspector |-> FALSE, hl |-> FALSE, hlShown |-> FALSE, cut |-> FALSE,
             fade |-> 0, spin |-> FALSE]
    /\ tasks = <<>>
    /\ tickScheduled = FALSE
    /\ closed = FALSE
    /\ lpc = "start"
    /\ pump = "running"
    /\ pend = [w \in Windows |-> 0]
    /\ events = 0 /\ posts = 0 /\ throws = 0

-----------------------------------------------------------------------------
(* Functions on ui. *)

\* The trees of the windows ws are marked dirty.
Touch(u, ws) ==
    [u EXCEPT !.dirty = [w \in Windows |-> @[w] \/ w \in ws \cap u.open],
              !.look = [w \in Windows |->
                          IF w \in ws \cap u.open /\ @[w] = "current" THEN "old" ELSE @[w]]]

\* registry.add: a new tree is clean and has no snapshot.
Add(u, w) ==
    [u EXCEPT !.open = @ \cup {w}, !.other = TRUE,
              !.dirty[w] = FALSE, !.look[w] = "never"]

Forget(u, w) == [u EXCEPT !.open = @ \ {w}]

\* What application code on the logic thread may do: mark trees dirty, start
\* an animation, open the second window (once).
Effects == [touch : {{}, {Primary}}
                      \cup IF program.opensSecond THEN {{Primary, Second}} ELSE {},
            start : {"none"} \cup program.anims,
            open : IF program.opensSecond THEN BOOLEAN ELSE {FALSE}]

Run(u, e) ==
    LET opened == IF e.open /\ ~u.other THEN Add(u, Second) ELSE u
        touched == Touch(opened, e.touch)
    IN [touched EXCEPT !.fade = IF e.start = "fade" THEN FadeTicks ELSE @,
                       !.spin = @ \/ e.start = "spin"]

\* WidgetTree::drain_shared of the windows ws.
DrainShared(u, ws) == Touch(u, {w \in ws : pend[w] > 0})
Drained(ws) == [w \in Windows |-> IF w \in ws THEN 0 ELSE pend[w]]

\* publish_entry for each of the windows ws: build, submit, clear_dirty.  The
\* inspector shows statistics of the primary window's snapshot, which makes its
\* own tree dirty again.
Publish(u, ws) ==
    LET shown == [u EXCEPT !.dirty = [w \in Windows |-> @[w] /\ w \notin ws],
                           !.look = [w \in Windows |-> IF w \in ws THEN "current" ELSE @[w]],
                           !.hlShown = IF Primary \in ws THEN u.hl ELSE @]
    IN IF Primary \in ws /\ u.inspector THEN Touch(shown, {Debug}) ELSE shown

\* registry.for_each_dirty(publish_entry).  The map's order is unspecified; all
\* that depends on it is whether the inspector comes after the main window.
Orders == IF program.debugTools THEN {"debug first", "debug last"} ELSE {"any"}
DirtyOf(u) == {w \in u.open : u.dirty[w]}

PublishAll(u, order) ==
    IF order = "debug last"
    THEN LET others == Publish(u, DirtyOf(u) \ {Debug})
         IN Publish(others, DirtyOf(others) \cap {Debug})
    ELSE Publish(u, DirtyOf(u))

PublishDirty(u, order) == [PublishAll(u, order) EXCEPT !.cut = FALSE]

\* reset_debug_inspector, which takes the highlight off.
ResetInspector(u) ==
    LET off == [u EXCEPT !.inspector = FALSE, !.hl = FALSE]
    IN Touch(off, {Primary})

Active(u) == u.fade > 0 \/ u.spin

\* schedule_tick, with q the queue and flag the value of tick_scheduled.
ScheduleTick(u, q, flag) ==
    IF Active(u) /\ ~flag
    THEN tasks' = Append(q, Tick) /\ tickScheduled' = TRUE
    ELSE tasks' = q /\ tickScheduled' = flag

-----------------------------------------------------------------------------
(* The logic thread. *)

\* Before the loop: every window is published, then the application's setup runs.
Startup ==
    /\ lpc = "start"
    /\ lpc' = "idle"
    /\ \E e \in {f \in Effects : f.touch = {}} :
          /\ ui' = Run(Publish(ui, {Primary}), e)
          /\ ScheduleTick(ui', tasks, tickScheduled)
    /\ UNCHANGED <<closed, pump, pend, bounds>>

Rest == Tail(tasks)
Task(k) == lpc = "idle" /\ tasks # <<>> /\ Head(tasks).k = k
W == Head(tasks).w

\* An event that comes after the close, or for a window that is gone.
DropEvent ==
    /\ \E k \in {"close", "resize", "input", "hotkey"} : Task(k)
    /\ closed \/ (Head(tasks).k # "close" /\ W \notin ui.open)
    /\ tasks' = Rest
    /\ UNCHANGED <<ui, tickScheduled, closed, lpc, pump, pend, bounds>>

\* Mutated ClosePrimary: the animation clock is left alone.
ClosePrimaryKeepsClock ==
    /\ Task("close") /\ ~closed /\ W = Primary
    /\ closed' = TRUE
    /\ pump' = IF pump = "running" THEN "quitting" ELSE pump
    /\ tasks' = Rest
    /\ UNCHANGED <<ui, tickScheduled, lpc, pend, bounds>>

\* WindowClose of the primary window.
ClosePrimary ==
    /\ Task("close") /\ ~closed /\ W = Primary
    /\ closed' = TRUE
    /\ ui' = [ui EXCEPT !.fade = 0, !.spin = FALSE]
    /\ pump' = IF pump = "running" THEN "quitting" ELSE pump
    /\ tasks' = Rest
    /\ UNCHANGED <<tickScheduled, lpc, pend, bounds>>

\* WindowClose of any other window; nothing is published.
CloseOther ==
    /\ Task("close") /\ ~closed /\ W # Primary
    /\ ui' = LET gone == Forget(ui, W)
             IN IF ui.inspector /\ W = Debug THEN ResetInspector(gone) ELSE gone
    /\ tasks' = Rest
    /\ UNCHANGED <<tickScheduled, closed, lpc, pump, pend, bounds>>

\* The global key handler on Ctrl+Shift+I: opens the inspector, unless the
\* backend returns no window, or closes it.
Hotkey(u) ==
    IF u.inspector
    THEN {ResetInspector(Forget(u, Debug))}
    ELSE {u, [Add(u, Debug) EXCEPT !.inspector = TRUE]}

\* The post-dispatch hook: the inspector lists the main tree again.
Hook(u) == IF u.inspector THEN Touch(u, {Debug}) ELSE u

\* A click on a row of the inspector highlights a widget of the main window.
Highlight(u, w) ==
    IF w = Debug /\ u.inspector
    THEN {u, Touch([u EXCEPT !.hl = TRUE], {Primary})} ELSE {u}

\* The dispatch of an event to a window that is there.
DispatchEvent ==
    /\ \E k \in {"resize", "input", "hotkey"} : Task(k)
    /\ ~closed /\ W \in ui.open
    /\ UNCHANGED <<closed, lpc, pump, bounds>>
    /\ \E keyed \in IF Head(tasks).k = "hotkey" /\ program.debugTools THEN Hotkey(ui) ELSE {ui} :
          IF W \notin keyed.open
          THEN /\ ui' = keyed
               /\ tasks' = Rest
               /\ UNCHANGED <<tickScheduled, pend>>
          ELSE \E e \in Effects, order \in Orders, h \in Highlight(keyed, W) :
                 LET routed == Run(h, e)
                     hooked == Hook(DrainShared(routed, {W}))
                     resized == IF Head(tasks).k = "resize"
                                THEN Publish(hooked, {W}) ELSE hooked
                 IN /\ ui' = PublishDirty(resized, order)
                    /\ pend' = Drained({W})
                    /\ ScheduleTick(ui', Rest, tickScheduled)

\* Mutated DrainPublish: publishes before it drains.
DrainPublishSwapped(u, q, flag) ==
    \E order \in Orders :
        /\ ui' = DrainShared(PublishDirty(u, order), u.open)
        /\ pend' = Drained(u.open)
        /\ ScheduleTick(ui', q, flag)

\* drain_publish, the shared tail: u is ui before it, q the rest of the queue.
DrainPublish(u, q, flag) ==
    \E order \in Orders :
        /\ ui' = PublishDirty(DrainShared(u, u.open), order)
        /\ pend' = Drained(u.open)
        /\ ScheduleTick(ui', q, flag)

\* Mutated RunDrain: the tail publishes but does not schedule a tick.
RunDrainNoTick ==
    /\ Task("drain")
    /\ \E e \in Effects, order \in Orders :
          LET u == Run(ui, e)
          IN /\ ui' = PublishDirty(DrainShared(u, u.open), order)
             /\ pend' = Drained(u.open)
             /\ tasks' = Rest
    /\ UNCHANGED <<tickScheduled, closed, lpc, pump, bounds>>

\* A drain task: the posted closures, then the tail.
RunDrain ==
    /\ Task("drain")
    /\ UNCHANGED <<closed, lpc, pump, bounds>>
    /\ \E e \in Effects : DrainPublish(Run(ui, e), Rest, tickScheduled)

\* ... an observer of what is drained in the window w throws: drain_queue reports
\* it, and the rest of the tail does not happen.  The windows before w are drained;
\* in w the notification that threw is consumed, and what is behind it stays, later
\* items of its Channel included, with no drain due.
RunDrainThrowing ==
    /\ Task("drain") /\ throws < program.maxThrows
    /\ throws' = throws + 1
    /\ \E e \in Effects, w \in {v \in ui.open : pend[v] > 0} :
          \E front \in SUBSET (ui.open \ {w}), touched \in SUBSET {w}, left \in 0..pend[w] - 1 :
             /\ ui' = [Touch(DrainShared(Run(ui, e), front), touched) EXCEPT !.cut = TRUE]
             /\ pend' = [Drained(front) EXCEPT ![w] = left]
    /\ tasks' = Rest
    /\ UNCHANGED <<tickScheduled, closed, lpc, pump, events, posts, program>>

\* AnimationClock::tick: callbacks mark trees dirty, a fade comes to its end.
TickClock(u) ==
    IF Active(u)
    THEN [Touch(u, {Primary}) EXCEPT !.fade = IF @ > 0 THEN @ - 1 ELSE 0]
    ELSE u

\* A tick task.
RunTick ==
    /\ Task("tick")
    /\ DrainPublish(TickClock(ui), Rest, FALSE)
    /\ UNCHANGED <<closed, lpc, pump, bounds>>

\* Application code called by an event's dispatch, by a tick or by what the tick
\* drains throws: nothing catches it before the detached sender, which ends the
\* program.
CrashInTask ==
    /\ throws < program.maxThrows
    /\ throws' = throws + 1
    /\ \/ /\ \E k \in {"resize", "input", "hotkey"} : Task(k)
          /\ ~closed /\ W \in ui.open
       \/ Task("tick") /\ (Active(ui) \/ \E w \in ui.open : pend[w] > 0)
    /\ lpc' = "crashed"
    /\ UNCHANGED <<ui, tasks, tickScheduled, closed, pump, pend, events, posts, program>>

\* run() returns: told to finish, and no task left.
ExitLoop ==
    /\ lpc = "idle" /\ pump = "returned" /\ tasks = <<>>
    /\ lpc' = "exited"
    /\ UNCHANGED <<ui, tasks, tickScheduled, closed, pump, pend, bounds>>

-----------------------------------------------------------------------------
(* The main thread and the producers. *)

Enqueue(t) == tasks' = Append(tasks, t)

\* An OS event.  The pump still delivers what is queued after it was told to
\* quit; a window the logic thread just removed may still get events.
OsEvent(k, w) ==
    /\ pump # "returned" /\ events < program.maxEvents
    /\ events' = events + 1
    /\ Enqueue([k |-> k, w |-> w])
    /\ UNCHANGED <<ui, tickScheduled, closed, lpc, pump, pend, posts, throws, program>>

\* SDL_EVENT_QUIT names no window.  The backend takes the one a button was pressed
\* in and not yet released, or the only one there is; otherwise, a window whose
\* request to close is not yet served counted, it sends the close to window 0.
QuitTargets == IF ui.other THEN ui.open \cup {NoWindow} ELSE {Primary}

OsQuit ==
    /\ pump = "running" /\ events < program.maxEvents
    /\ events' = events + 1
    /\ \E w \in QuitTargets : Enqueue([k |-> "close", w |-> w])
    /\ pump' = "quitting"
    /\ UNCHANGED <<ui, tickScheduled, closed, lpc, pend, posts, throws, program>>

\* Backend::run returns and loop.finish() is called.
PumpReturns ==
    /\ pump = "quitting"
    /\ pump' = "returned"
    /\ UNCHANGED <<ui, tasks, tickScheduled, closed, lpc, pend, bounds>>

\* Another thread sends into a Channel shown in w or sets a Shared, which may be
\* changed already, and posts.  The drain task is there if an earlier post raised
\* the flag.
SetAndPost(w) ==
    /\ w \in ui.open /\ posts < program.maxPosts
    /\ posts' = posts + 1
    /\ \E n \in {pend[w], pend[w] + 1} \ {0} : pend' = [pend EXCEPT ![w] = n]
    /\ tasks' = IF closed \/ Drain \in ToSet(tasks) THEN tasks ELSE Append(tasks, Drain)
    /\ UNCHANGED <<ui, tickScheduled, closed, lpc, pump, events, throws, program>>

-----------------------------------------------------------------------------
Logic == Startup \/ DropEvent \/ ClosePrimary \/ CloseOther \/ DispatchEvent
           \/ RunDrain \/ RunDrainThrowing \/ RunTick \/ CrashInTask \/ ExitLoop

Main == OsQuit \/ PumpReturns
          \/ \E k \in {"close", "resize", "input", "hotkey"}, w \in ui.open : OsEvent(k, w)

Producers == \E w \in {Primary, Second} : SetAndPost(w)

Next == Logic \/ Main \/ Producers

\* The logic thread takes its tasks and Backend::run returns when told to.
Fairness == WF_vars(Logic) /\ WF_vars(PumpReturns)

Spec == Init /\ [][Next]_vars /\ Fairness
-----------------------------------------------------------------------------
(* Properties. *)

\* The loop sleeps (or has ended without its window being closed).
AtRest == lpc = "idle" /\ tasks = <<>>

\* "The submit pass at the end of each processed event": what a task changed is
\* on its way to the screen when the loop sleeps, for every published window.  An
\* exception in drain_publish skips that pass, and the next task that has one makes
\* up for it; the debug tools skip it when the inspector is closed, and for its own
\* statistics when it is published before the main window.
PublishedAtRest ==
    AtRest /\ ~closed /\ ~ui.cut /\ ~program.debugTools =>
        \A w \in ui.open : ui.look[w] # "old"

\* An animation goes on by itself, at one pace: tick_scheduled tells whether a
\* tick is queued, there is one at most, and while the clock is active the loop
\* does not sleep, but after an exception that no submit pass made up for yet.
TickAlive ==
    /\ tickScheduled <=> Tick \in ToSet(tasks)
    /\ \A i, j \in DOMAIN tasks : tasks[i] = Tick /\ tasks[j] = Tick => i = j
    /\ AtRest /\ ~closed /\ ~ui.cut => ~Active(ui)

\* Nothing is left to drain in any window, or no drain will come any more.
AllDrained ==
    closed \/ lpc \in {"exited", "crashed"} \/ \A w \in ui.open : pend[w] = 0

\* What other threads published reaches the tree of its window, unless an exception
\* left it behind; then the next post's drain brings it, if nothing throws again.
SharedDrained ==
    /\ (throws = 0 /\ ~AllDrained) ~> (AllDrained \/ throws > 0)
    /\ (throws = program.maxThrows /\ Drain \in ToSet(tasks)) ~> AllDrained

\* One window, nothing posted, nothing thrown.
Plain == ~ui.other /\ posts = 0 /\ throws = 0

\* "model_app shuts down cleanly with a perpetual animation still active"
\* (test_model_app.cpp): told to quit, by the primary window's close or by the OS,
\* a program of one window ends with animations active.  Any program ends, but
\* for a perpetual animation that outlived the close or that no close stopped.
ProgramEnds ==
    (pump = "quitting") ~> (lpc \in {"exited", "crashed"} \/ (ui.spin /\ ~Plain))

\* The loop serves what it was given for good: changes of other threads are drained,
\* and it ends when it is told to.  (drain_shared, loop.finish)
LoopProgresses == SharedDrained /\ ProgramEnds
=============================================================================
