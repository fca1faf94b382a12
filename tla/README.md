# PRISM verification

TLA+ models of PRISM (a reactive C++ GUI library: reflected models, a widget
tree, one logic thread, one renderer on the main thread, Python bindings), checked
with TLC and, for nine of its components, proved with TLAPS for every value of
the constants. Paths are those of the repository; `model_app.hpp` stands for
`include/prism/app/model_app.hpp`, and so on.

## 1. The system

Two threads matter, and any number of producers.

* The **main thread** runs `Backend::run`: SDL events in, frames out.
* The **logic thread** runs an `stdexec::run_loop`. Everything that touches the
  application's model or a widget tree is a task of that loop and runs to its end.
* **Producers** are other threads of the application. They may `post` closures,
  `Shared::set` and `Channel::send`. From Python, any thread may also read and
  write the model; the bindings forward the call, or make it on the spot while
  no application runs.

| component | state | operations | talks to |
|---|---|---|---|
| `mpsc_queue`, `AppContext::post`, `drain_queue` | linked list, `scheduled`, `closed` | push (two steps), pop, post, drain, rearm | producers to logic thread |
| `Channel<T>` | an `mpsc_queue`, a `SenderHub` | send, drain_notifications | producers, tree |
| `Shared<T>` over `atomic_cell` | cell, pending flag, `SenderHub` | set, drain_notifications | producers, tree |
| `Field`, `Derived`, `TransactionGuard`, `SenderHub` | values, depth, deferred emissions, slots | set, emit, defer, flush in waves | observers, the tree's dirty flags |
| `model_app` | `WindowRegistry`, tick flag, close flag, inspector attachment | do_dispatch, drain, publish, tick, hotkey, shutdown | all of the above, backend |
| `SoftwareBackend`, `FramePacer` | windows, snapshots, last presented, forced redraws, two request queues | run's loop, submit, wake, request_window, close_window, quit | SDL, logic thread |
| `AnimationClock`, `Animation`, `TransitionGuard` | entries, start, from, target | add, remove, tick, retarget | fields, model_app's tick |
| `WidgetTree` input state, `route_event` | hovered, focused, captured, focus order, drag, popups | press, release, move, wheel, keys | delegates |
| tree building, tabs | nodes, index, parents, focus order, connections, drain list | build, materialise, unmount | every widget |
| layout, split panes, scrolling | measured and arranged boxes, pane sizes, offsets, cached draw lists | build_snapshot, drag, wheel, resize | delegates, backend |
| virtual list, table | items, count, offset, viewport, rows, pool, selection | push_back, erase, set, bind, unbind, scroll, keys, write back | tree, layout |
| tree view | expanded set, rows, selection, offset | refresh, click, keys | its source |
| text field and area | text, caret, wrap, offsets | keys, input, press, set from outside | their field |
| plot | ranges, freeze flag, views, fit and polyline caches | pan, zoom, reset, notify, draw | linked panels |
| drop-down, slider | open flag, highlight, value | press, keys, drag | popup overlay |
| window chrome, `SdlWindow` | zones, resize in progress, remembered cursor | hit test, begin/continue resize, decoration mode | the window manager |
| Python bindings | the GIL, a handle to the running loop, a mutex for direct calls; handles, callbacks | add, set, read, batch, run, observe, drop | loop of the run |

### What makes each one correct, and where it is hard

* *Post queue*: every accepted closure runs, once, in its producer's order, with
  one wake per burst. Hard: a push is two writes, the flag and the queue are two
  locations, a closure may post again, the loop may be finishing.
* *Channel and Shared*: every item in order, or the latest value, reaches each
  observer. Hard: draining is re-entrant (an observer that posts drains again in
  the middle of an emission), observers throw, writers run on during the drain.
* *Reactive core*: after any change a `Derived` agrees with its sources, observers
  have seen the final values, and an observer fires once for a transaction. Hard:
  feedback, nesting, the cap on waves, exceptions through destructors.
* *model_app*: what a task changed gets to the screen, animations neither stall
  nor double their rate, a closed program ends. Hard: seven kinds of task in any
  order, a second window, an inspector window that observes the first.
* *Backend*: the latest frame of each window is shown, input keeps its order,
  calls that wait return. Hard: submit and wake are two steps, the frame pacer
  skips presents, windows come and go while both threads use them, SDL's queue is
  finite.
* *Animation*: each field comes to its last target and the clock stops. Hard: a
  tick calls a copy of the entries, and setting a field calls observers that
  retarget others.
* *Input*: what a press began ends at the widget it began at, and looks agree with
  what the tree believes. Hard: a route calls several operations in a row, popups
  close in the middle, rows are recycled under ids the tree remembers.
* *Widgets*: what is on the screen is what the state says. Hard: caches, sizes
  learned from the previous frame, counts kept by signals, offsets clamped after
  binding, state changed by the application between two frames.
* *Python*: a call is atomic and returns, whether or not an application runs. Hard:
  where a call runs is decided by a handle that the start and the end of a run
  change meanwhile, with three locks and with or without a GIL.

`PROJECT.json` lists the hazards, each at its line, with the properties that cover
it or the reason why none does.

## 2. Modules

| module | models | abstract specification or composition |
|---|---|---|
| `MutationQueue` | `mpsc_queue.hpp`, `post`, `drain_queue` | implements `PostMailbox` |
| `PostMailbox` | the promise of `post`: accepted, executed once, in order | |
| `Channel`, `Shared` | `channel.hpp` over the queue, `shared.hpp` | |
| `Reactive` | `field.hpp`, `derived.hpp`, `transaction.hpp`, `connection.hpp` | |
| `Animation` | `animation.hpp` | |
| `MCSignals` | | the four above, a scene each |
| `ModelApp`, `MCModelApp` | `model_app.hpp`, `window_registry.hpp`, `tree_inspector.hpp` | |
| `SoftwareBackend`, `MCSoftwareBackend` | `software_backend.cpp`, `frame_pacer.hpp` | implements `Frames` |
| `Frames` | the frame contract of the repository's README | |
| `InputRouting` | `event_routing.hpp`, input paths of `widget_tree.hpp` | |
| `RowInput` | input over recycled rows | composes `InputRouting` and `VirtualList` |
| `MCInput` | | `InputRouting` and `RowInput`, a scene each |
| `Layout` | `layout.hpp`, `widget_tree_layout.hpp`, `build_snapshot`, split panes, scroll containers | |
| `WidgetTree` | building and unmounting of subtrees, tabs, subscriptions, the drain list | |
| `VirtualList` | `list.hpp` and the list paths of `view_builder.hpp`, `widget_tree.hpp` | |
| `TableView` | the same for tables, with selection | |
| `TreeView` | `ui/tree.hpp` | |
| `TextEdit` | `text_delegates.hpp` | |
| `PlotView`, `PlotData` | `plot.hpp`, `plot_render.hpp`: interaction; fits, decimation, caches | |
| `Controls` | `dropdown_delegates.hpp`, the slider of `delegate.hpp` | |
| `Chrome` | `window_chrome.hpp`, `sdl_window.cpp` | |
| `WidgetScenes` | | `TableView`, `PlotView`, `Controls`, `Chrome` and `VirtualList`, a scene each |
| `MCWidgets` | | extends `WidgetScenes` by the layout, trees, texts, tabs and plot data: ten scenes |
| `MCVirtualList`, `MCControls`, `MCChrome` | | one component each, for the runs of section 6 |
| `PythonDispatch` | how calls of `prism_ext.cpp` reach the model around a run | |
| `PythonHandles` | lifetimes of models, handles and callbacks there | |
| `MCPython` | | both, a scene each |
| `Subsequence` | a sequence without some of its elements, as the removals of `RowInput` and `Animation` | |
| `MutationQueueProofs`, `ModelAppProofs`, `SoftwareBackendProofs`, `VirtualListProofs` | proofs about the module they are named after | |
| `InputRoutingProofs` | proofs about `InputRouting` and `RowInput` | |
| `SignalsProofs`, `PythonProofs` | proofs about the scenes of `MCSignals` and `MCPython` | |
| `WidgetsProofs` | proofs about the five scenes of `WidgetScenes` | |

A module with scenes composes components whose state is disjoint: a behaviour
plays one of them and the others stay in their first state. It saves a run, and
shows nothing of an interaction. The interactions modelled are those inside of a
module and `RowInput`'s.

### State and actions against the code

* **MutationQueue.** `queue` is the list after `head_`; a node's `linked` says that
  its predecessor's `next` is set, so `HeadVisible` is pop's test. `post` is
  `EnterPost`, `ExchangeTail`, `LinkNode`, `RaiseFlag`, `ScheduleDrain`: one action
  for each shared access. `drain_queue` is `StartDrain`, `PopNode`, `CallReturns`,
  `EndBatch`, `DrainPublish`, `LowerFlag`, `FlushStore`, `CheckEmpty`, `Rearm`. The
  release store of `scheduled` leaves in `LowerFlag` and reaches memory in
  `FlushStore`; with `StoreBuffer = TRUE` the load of `CheckEmpty` may pass it.
* **Channel**, **Shared.** `frames` is the stack of nested drains; a frame is where
  one `drain_notifications` is. `CallObserverPosting` is an observer that calls
  `post` outside of a batch, which runs `drain_publish` at once.
* **Reactive.** `stack` is the C++ call stack: emissions, observer bodies,
  transactions, flushes. One action is a return, the call of the next receiver, a
  step of a flush, or what application code does next. `unwinding` is an exception
  in flight. A wave runs a sequence of `Coalesced(deferred)`: each cell once, in
  the order of its last emission. `Compute(d, v)` is the lambda of a `Derived`; it
  is given the values of its sources and of nothing else.
* **ModelApp.** A task is one action, built from functions on the record `ui` that
  only the logic thread touches. `look` compares a window's last snapshot with what
  a build would show now. `pend` counts what `Shared`s and `Channel`s have to drain; an
  exception of an observer consumes the notification that threw and leaves what is
  behind it, in its channel and in the windows not yet drained. `cut` is true from then
  until a task gets to its submit pass.
* **SoftwareBackend.** One action per section under `windows_mutex_`, per queue
  operation and per SDL event. `taken` and `given` record input as it leaves SDL's
  queue and as it reaches `event_cb`. Frames are version numbers.
* **Animation.** Time is the number of ticks since an interpolation began; the
  functions on `st` are the methods of the guard, the animation and the clock.
* **InputRouting.** `tree` is the input state of one `WidgetTree`; each of its
  operations is an operator from record to record, and each route one action.
  `heard` and `chord` record the presses a widget was told of and a second button. Which
  container a scroll moves is `ScrollAt`, as `scroll_at` has it; no property restates it.
* **RowInput.** `Rebind` is what materialisation does to `index_` and `focus_order_`.
* **Layout.** `ui` holds the boxes, the pane sizes, the offsets, the dirty flags and
  the cached draw lists; each event ends in the build it makes necessary. Boxes
  are naturals, floats in the code: nothing said here depends on a fraction. The least
  sizes a canvas may ask for (layout.hpp:165) are left out of `Wish`.
* **WidgetTree.** `wt` holds the nodes by id, what each was built from, and the
  books the tree keeps of them. A key or press on a bar unmounts a page and builds
  another; a set of a field makes every connection to it that still exists fire.
* **VirtualList**, **TableView.** `view` is the container; `Publish` is one
  `build_snapshot`: unbind, range, bind, lay out, and bind once more if the viewport
  changed. A selection the application sets reaches no row until a build paints it
  (`unseen`), and a key that moves nothing moves the offset alone (`slid`).
* **TreeView**, **TextEdit**, **Controls.** One action per event, followed by the
  frame it makes necessary; a text is a sequence of letters and newlines.
* **PlotView**, **PlotData.** Positions are integers; a zoom step halves or doubles. A
  sample is one of few values or `NaN`; a column of pixels holds several samples.
* **Chrome.** The pump and the logic thread set the cursor in two steps each: the
  exchange of the remembered shape, and the call to SDL. SDL asks its hit test for the
  left button only, so `Press` of another one reaches the pump wherever it is, and
  `HandlePress` begins a resize for either, also during another.
* **PythonDispatch.** One action between two points where another thread may run:
  acquiring and releasing of the GIL, of the handle's mutex and of the mutex of
  direct calls, the load of the handle, each post, each closure and each field that a
  transaction writes, here or on the logic thread. `done` records what calls began, did
  and answered, and whether a direct add (`straddled`) or a direct transaction (`torn`)
  met the logic thread halfway.
* **PythonHandles.** `ph` is the graph of references; a collection removes what
  neither the program nor a run reaches, but for what the slot of a derived handle
  refers to once its model is gone: the collector does not see that (`Pinned`).

## 3. Runs

| run | question | bounds, and why they are enough |
|---|---|---|
| `mutation_queue` | is every post run once, in order, with one wake, and published? does the queue implement the mailbox? | 2 producers, 2 posts each, 1 inline post: two producers in a push, a third node behind, a drain re-armed during its tail |
| `mutation_queue_tso` | (violated) does a burst always wake the logic thread if the flag's store may be delayed? | the same |
| `signals` | do the last value of a `Shared` and every item of a `Channel` arrive, in order? does the graph converge, does a flush end, fire once and leave nothing? are targets reached and is the clock left empty? | 2 producers; 4 sets and 2 observers with 2 nested drains and 1 exception; 2 sends each with 1 of either; a diamond with two observers of one field and a second field, 3 sets, 2 transactions, 1 exception, the cap at 4 waves instead of 64 so that it is met; 2 transitions in a chain and 2 animations |
| `model_app` | is what changed published, is there one tick, does the program end? | four programs: two windows; posts into two windows with an exception; the inspector with an exception; one window with both kinds of animation. 1 to 3 events, up to 3 posts: two items in a channel, and a post after the exception |
| `backend` | are frames shown, is input in order, do calls return? | six configurations: an SDL queue of 1 paced and unpaced, chrome, two windows of input, quit, two requests; up to 3 OS events, 2 frames, 3 windows |
| `widgets` | is what is shown what the state says, for each kind of widget? | ten scenes: a row of three panes in three windows, one too narrow for it; a tree of six nodes with two shapes; texts of 5 characters in 2 rows; tabs within tabs; lists of 3 and tables of 4 rows, more than a window holds; two linked panels; series with two samples in a pixel column; sliders whose step does and does not divide the range; a window at its least size |
| `virtual_list_shrink` | (violated) is the range in view within the list? | `widgets`' list with 4 items and 3 erasures per publish |
| `input` | do looks match, does a release reach what was pressed, does the drag of a scroll bar end with its press? does input stay sound over recycled rows? | 4 leaves, 2 drop-downs, 3 nested scroll containers, 2 buttons, 6 keys; a list of 2 items in windows of 1 or 2 rows, a widget before and one after |
| `python` | are calls atomic, do they return, are live handles served? | 2 threads, 3 calls (2 where observers or a missing GIL add steps), 2 runs, so that calls straddle an end and a start; both threads commit transactions without a GIL, one does with it; a model, 3 handles, 1 callback that refers to nothing, the model, or the derived handle without it, 2 sets |
| `python_direct` | (violated) is there no circle of threads waiting for locks? | 2 threads, 2 calls, observers in Python |
| `popup_focus` | (violated) does a press on an option of an open drop-down choose it? | 3 options, two windows |
| `cursor_race` | (violated) is the cursor shown the one remembered? | one shape, 2 presses |

Every property of a passing run has a mutant in `PROJECT.json`: a version of a mapped
definition with a plausible mistake, which violates it under the run's own
configuration. The mutated definition stands before the original in its module.

Deadlock checking is off where the system really stops: bounds spent and nothing
left to do, or the program ended. It is on in `input`, where neither happens.

Some properties are conditional, on a history variable or on a bound variable: *no
exception so far* (in `ModelApp`: *none that no submit pass made up for yet*), *no nested
drain so far*, *no second button so far*, *no direct add or transaction met the logic
thread so far*, *no selection set by the application since the last build*, *not posted
after the loop's end*. The runs do contain those events. The condition says where the
promise ends, and section 6 says what happens beyond it.

## 4. Fairness

* Producers finish a `post`, `set` or `send` once begun (weak fairness of each step):
  they hold no lock and wait for nothing.
* The logic thread runs while it has something to do: `run_loop` blocks only on an
  empty queue.
* The main thread's loop runs, time passes (`FrameTick`, the two seconds of
  `request_window`), and the logic thread ends what it began. Nothing is assumed
  of the OS or of the application: no event need ever come, nothing need be
  submitted.
* In `Reactive`, callbacks and transaction bodies return; in `ModelApp`, application
  code in a task does too.
* In `Animation`, ticks come while the clock is active: `schedule_tick` is checked for
  that in `ModelApp` (`TickAlive`).
* In `PythonDispatch`, the logic thread, the steps of a run once its end was asked for
  and the steps of a call are weakly fair. A thread that polls for the start of a
  run or waits for an answer competes for locks others release and take again, so
  it is strongly fair: the operating system's and Python's locks starve nobody for
  ever. Nobody need call anything, nor ask a run to end.

`Channel` and `Shared` alone do not wake the logic thread: their callers post
afterwards, which is the step `PostWake`.

## 5. What is proved

For every value of the constants, with no bound on threads, events, windows,
widgets, cells, calls or nesting. The assumptions are those named in the modules
(`ConstantsAssumption`, `RoutingAssumption`, `RowAssumption`, `ScenesAssumption`), which
TLC evaluates in every run: that bounds are naturals, that sizes are those the code
lays out (a table holds its header), that names are distinct, that a graph or a tree
is one, that a plot's zoom lies between twice and a quarter of its range.
Actions are guarded by the bounds (`MaxPosts`, `MaxSets`, ...), about which the
proofs know only that they are numbers.

Each proof follows one pattern: an inductive invariant, a lemma for each action or
operator of the model that says what it does to the parts of the invariant, and a
temporal step. Fairness plays no part in any of them.

* **`MutationQueueProofs`** (for both memory models unless said otherwise)
  * `TypeCorrect`.
  * `OneDrain`: `OneDrainPerBurst`. The invariant `FlagInv` says who holds the flag:
    `FlagHeld`, a producer about to schedule, a task in the loop or a running drain,
    holds exactly when `scheduled` is up with an empty store buffer.
  * `NoWakeupLost`: `NoLostWakeup`, assuming `StoreBuffer = FALSE`. `NoLostWakeup` speaks
    of rest only; the inductive `WakeInv` says for every state that a non-empty
    queue has someone who will still look at it: the holder of the flag, a
    producer between its push and its compare-exchange, or the drain about to
    check. `LinkInv` ties an unlinked node to the producer that is linking it.
  * `OrderKept`: `ProducerOrder` and `NoPostLost`, from an invariant on the line-up, the
    closures run followed by those queued: each step either leaves it alone or
    appends what `ExchangeTail` pushes.
  * `PublishedFirst`: `PublishedBeforeRest`, inductive as it stands.
  * `MailboxImplemented`: `SafeSpec => Mailbox!SafeSpec`; `ExchangeTail` maps to
    `Accept`, `PopNode` to `Execute`, `ExitLoop` to `Stop`, the rest to stutters.
* **`SignalsProofs`**: of `Shared`,
  * `TypeCorrect`.
  * `FirstReached`: `FirstCatchesUp`, unconditionally. The strengthening adds what each
    frame of the stack of drains still owes.
  * `LatestReached`: `LatestDelivered`. While nothing was nested or thrown there is one
    frame at most (`LatestInv`), and each observer it has passed has the value it
    carries; `CountersGrow` carries the condition backwards.
  * `SeenForward`: `NeverBackwards`, from `ForwardInv`: what observers have seen is no
    newer than the value in hand, which is no newer than the cell.
* of `Channel` (`ChannelInvariant`: `ChannelInv`),
  * `ChannelTypeCorrect`.
  * `DeliveredExactlyOnce`: `DeliveredOnce`, half of `ChannelOrder`. The queue is the tail
    of what was sent (`Left`), so the rest was taken (`Popped`); what was taken is in
    the hand of exactly one nested drain or reached everyone (`Deliveries`,
    `NoneLost`), and a drain at observer *n* has delivered its item to those below
    *n* and to nobody else (`FrameOK`). That is what nesting cannot break: a nested
    drain takes other items.
  * `ObserversInOrder`: `ObserverFifo`, the other half. Without nesting, the one frame
    there is carries the item taken last (`LastTaken`), so appending it keeps the order.
  * `ChannelInOrder`: `ChannelOrder`, which is both.
* of `Reactive` (`ReactiveInvariant`: `ReactiveInv`),
  * `ReactiveTypeCorrect`.
  * `TransactionsLeaveNothing`: `NothingLeftBehind`. `Nested` says that the depth is the
    number of calls on the stack that raised it; it has to hold in the middle of an
    exception, while destructors flush.
  * `GraphConverges`: `Converged`. `NoneLost` says of every receiver of every cell that
    it agrees with the cell or is owed a call: by an emission on the stack that has
    not come to it, by a wave, or by the deferred cells. Derived cells read others,
    so a value may change after a receiver was called; then the change of that
    value owes the call. `Untroubled` says which exceptions and caps end the promise.
  * `GraphSettles`: `GraphConsistent`, which is both.
* and of `Animation`:
  * `DriversMatch`: `ClockMatches`. `ClockInv` says that the entries of the
    clock, without repetition, are those of the active fields, and that what a tick
    goes through is a copy of such a sequence, without repetition too. A tick steps
    the entries of the copy and removes the finished ones; each step may retarget
    other fields, which registers them behind, so the lemmas say what a step does to
    the fields behind it and what stays of a sequence once some of it is removed
    (`WithoutHolds`, `PlacesInOrder`).
* **`ModelAppProofs`** (`AppInvariant`: `AppInv`)
  * `AppTypeCorrect`.
  * `AnimationsTick`: `TickAlive`. `TickQueued` ties `tick_scheduled` to the queue, and
    `ActiveTicks` says that an active clock has its tick queued between any two
    tasks, but after an exception.
  * `ChangesPublished`: `PublishedAtRest`. What a window shows that is old is marked dirty
    (`OldIsDirty`, which every function on `ui` keeps), and no task leaves a window
    dirty (`TasksPublish`), unless an exception cuts it short. That is what `cut` says,
    and the next submit pass publishes what such a task left.
* **`SoftwareBackendProofs`** (`BackendInvariant`: `BackendInv`)
  * `BackendTypeCorrect`.
  * `FramesArrive`: `NoFrameLost`. `WakeDue` says for every point where the main thread may
    go to sleep without another look that a window with something new has an event
    in SDL's queue or a wake about to be pushed; it is the overflow of that queue
    that makes the first alternative enough.
  * `InputInOrder`: `InputOrder`. A buffered motion is the last input taken
    (`MotionLast`), and each input taken was given, is buffered, or was replaced by
    the next one (`AllAccounted`).
  * `OwnAnswers`: `AnswersOwnRequest`. The requests queued are the last ones asked
    (`RequestsInOrder`), so an answer belongs to the latest (`CallerWaits`); window
    numbers are used once, and what is to be closed was never answered (`WindowsOwned`).
  * `ContractKept`: the safety part of `Frames`. Initial states map to initial states;
    a submit, a present and the closing of a window map to a step, all others to stutters.
* **`InputRoutingProofs`** (`RoutingInvariant`: `RoutingInv`)
  * `RoutingTypeCorrect`.
  * `LooksCorrect`: `LooksMatch`, from a lemma for each operation of the tree that says
    which flags it turns on and off, composed along every route.
  * `CaptureCorrect`: `ReleaseReachesPressed`. `CaptureLasts`: as long as no second button
    was pressed with one down, presses were heard only of buttons that are down,
    and with none down nothing is captured or dragged.
  * `DragCorrect`: `DragHeld`. A drag takes the capture in a press that no widget hears,
    and until a second button is pressed only the release ends either; it is the drag
    that the release is given to, before the capture.
  * `PopupCorrect`: `PopupKept`, an action property.
  * Of `RowInput` (`RowInvariant`: `RowInv`): `RowsAreAList` is the refinement
    `RowSpec => List!Spec`, which brings the theorems above to rows under input.
    `OrderStaysLive`: `OrderIsLive`; `RowInv` says that the index and the focus order hold
    the two widgets around the list and then the line of its rows. `RoutingOverRows`:
    the invariants of `InputRouting` hold as well, since no route changes index or order
    (`Kept`) and a rebinding changes nothing but recycled ids in them (`RebindDoes`).
* **`VirtualListProofs`** (`ListInvariant`: `ListInv`)
  * `RowsStayCurrent`, `ItemsKept`,
    `NodesStayFew`. What carries them is `InLine`: rows and pool are the nodes made so
    far, in a line, rows first; unbinding moves all of them to the pool in reverse and
    binding takes them back from its top, so a build only moves the point between the
    two. An erasure makes rows and items disagree until the publish, which is why
    `RowsBound` (each row was bound to the item at its index) is claimed only without
    one, and `ItemsKept` up to a `late` edit. `NodesStayFew` assumes that there is a
    tallest window.
  * `OverscanCovers`: `VisibleBound` and `NeverThrows`, assuming `MaxErases <= Overscan`.
    Layout clamps the offset after the rows are bound, so `ScrollInv` says how far the
    offset may lie past the end meanwhile: by the rows erased since the last publish.
    Without the assumption it is false, see `virtual_list_shrink`.
* **`WidgetsProofs`**, of `ScenesSpec`. The run checks the properties of `MCSpec`, which is
  `ScenesSpec` with more scenes: `MCInit` has `ScenesInit` as a conjunct, and each
  disjunct of `MCNext` is `ScenesNext` or leaves `sceneVars` as they are. The split
  keeps the recursive modules of the other scenes out of the prover's sight.
  * `TableStaysShown`: `TableShown`, assuming that a task erases no more rows than the
    overscan. A build materialises rows before the layout clamps the offset, and once
    more when that changed the viewport; the lemmas follow it pass by pass (`OnePass`,
    `Built`). At rest `TableRests` holds: the
    offset is within range and the rows are those it shows. In between the offset
    lies past the end by the rows erased (`TableReach`), so that the passes never throw.
    `KeyShows` says what a key has brought into view stays there through the build
    that follows it, although that clamps again. A press takes what is painted under it
    (`PressPicksPainted`, an action property) because at rest the offset is the one painted
    with, unless a key that moved nothing moved it since.
  * `PlotsHold`: `PlotHolds`. What the pointer holds stays under it because the ranges
    it is measured against do not move: a press or a zoom freezes those that follow
    the data (`HoldShown`), and only a reset thaws them, which lets go of the point.
    A pan measures from its press; `PanBegan` says that one not interrupted still has
    the zoom of its press, and that what it held there is the point held now. The
    arithmetic (`Grain`, `ZoomShows`) is exact at the four zooms of `PlotAssumption`, at
    which a pixel is a whole number of units; beyond them positions would be rounded.
  * `ListStaysShown`: `ListShown`, under the conditions of `OverscanCovers` and
    `NodesStayFew`. The scene plays `VirtualList` on constants of its own: its steps
    are those of `List!Spec` or stutters, so `VirtualListProofs` applies (`ListPromises`).
  * `ResizesStayPut`: `ResizeStaysPut`, an action property: while the code resizes the
    window itself for a drag of the left button, its position does not change. Of that
    button only the edges `e`, `s` and the corner `se` are resized by the code; of the
    others the window system takes care. `ChromeInv` keeps a drag on one of these three
    (`Fixed`), and a press that waits for the pump away from the edges at the left and
    the top, whatever size the window takes meanwhile. It assumes windows of the least
    size or more. Of another button section 6 says what happens.
  * `ControlsStayTrue`: `ControlsFollow`. Between two events a popup is drawn exactly
    when it is open, where it is hit (`Agrees`), and the last frame shows it
    (`ControlRests`), above or below. The slider's half is arithmetic: a press at any
    pixel lands on a step in range, and drawing the value that it set finds the handle
    (`Nearest`), within half a step also at the ends of the range. Of the width of the
    value's type the proof needs only that the range and half a step are below `2 ^ Bits`, which is `ControlsAssumption`.
* **`PythonProofs`**: of `PythonDispatch` (`DispatchInvariant`: `DispatchInv`),
  * `LocksExclude`: `LocksHeld`, which is where atomicity comes from: who is inside of a
    direct call has its mutex, and with a GIL the logic thread runs closures, and a
    direct transaction is written, under it.
  * `AtomicCalls`: `CallsAreAtomic`. Nothing changes the counter between the halves of an
    add (`HalfAdds`). A batch is pairs of writes, whatever blocks nest (`BatchesWhole`),
    and is written one field at a time: between the two of a pair the first field has
    what the second is about to get (`HalfWritten`), so the fields agree whenever nobody
    is halfway (`FieldsWhole`). Two that are halfway would break that; the mutex keeps
    direct calls apart, and with a GIL no direct call is halfway while the logic thread
    runs closures. Without a GIL it may be, in the start of a run, which `torn` records.
    The adds a thread is owed were applied or stand in the queue, none behind a read of
    the same thread (`Owing`, with the number of them as a witness), and a read made
    without the logic thread keeps the handle away (`ReadsDirect`), so a read sees them
    all (`ReadsExact`).
  * Of `PythonHandles`, from `HandlesInv`: `HandlesAreServed` (`HandlesServed`). `OwnersKeep`:
    what the program, a run or a live object refers to is alive. `SweepComes`: a value
    set during the run is ahead in the sweep, or another sweep follows. `ValuesSeen`: who
    has not seen the value of a handle has it pending. `CallbacksOwned`: a callback is
    of one handle. `ReachHolds` characterises what a collection keeps: the least set
    that has the roots and is closed, so that nothing a live observer needs goes.

The properties of these theorems are checked on small instances first, by the run of the
module: `ChannelOrder` is `ObserverFifo` and `DeliveredOnce`, `GraphConsistent` is
`Converged` and `NothingLeftBehind`, of the instances `MCSignals` makes. In the modules
of scenes, a step of another scene is a stutter of the one a theorem is about
(`ChannelSteps`, `GraphSteps`).

Two faults of the model were found by proving: in `Chrome` (`Zone`) and in `TreeView`
(`Keyed`) arms of a CASE overlapped, where the code tests one condition after the other. TLC
takes the first that holds, as the code does, but TLA+ leaves the choice open. `Zone` is a chain of
IFs now, and the arms of `Keyed` exclude one another.

### What is left to TLC

* Every liveness property (`LoopProgresses`, `WakesServed`, `EverySignalReaches`,
  `ComesToRest`, `TargetReached`, `CallsReturn`) and the fairness of `PostMailbox` and
  `Frames`: the prover has neither fairness nor ENABLED.
* `FiresOncePerFlush`, a part of `ComesToRest`: that a flush fires an observer once is
  a fact about the lengths of paths in the graph, an induction over data.
* The five scenes that `MCWidgets` adds: `ScreenIsCurrent`, `SplitsHold`, `TreeShown`,
  `TextShown`, `TabsHold` and the plot data's `DataShown`. What these compare is computed
  by recursive functions over trees, rows, texts or samples (`Layout`, `TreeView`,
  `TextEdit`, `WidgetTree`, `PlotData`), or sums over panes, and what such a function
  returns for every input needs the same induction.
* That the queue under `Channel`, the post under `Shared` and the push under
  `PythonDispatch` are the one of `MutationQueue` is by construction, not by a refinement.

## 6. Known deviations

Met while modelling; each is reachable in the model, or lies just outside of a
stated condition.

* A delayed store of `scheduled` (model_app.hpp:145) loses a wake: run
  `mutation_queue_tso`. `python/src/prism_ext.cpp:111` repeats the pattern.
* A list that shrinks below its scroll offset between two publishes makes
  `materialize_virtual_list` throw `std::length_error` (widget_tree.hpp:966): run
  `virtual_list_shrink`. With fewer erasures, but more than the overscan, the top of
  the viewport has no rows (widget_tree.hpp:802).
* An observer that posts from `drain_publish` lets the observers behind it see
  channel items out of order (channel.hpp:25), and keep an older value of a `Shared`
  for good (shared.hpp:30).
* An exception in a channel observer leaves the rest of the items queued, and what the
  other callbacks would drain, with no drain due (channel.hpp:26, widget_tree.hpp:73),
  and skips the publish and the tick (model_app.hpp:139), until another task comes by; in
  the dispatch of an event, a tick, or the flush of a
  transaction it ends the program (model_app.hpp:370, transaction.hpp:48), where the
  README promises that exceptions of callbacks are reported.
* The cap of 64 waves cuts an acyclic chain of more than 64 `Derived`s, and paths of
  different lengths fire an observer more than once (transaction.hpp:67, 83).
* With two windows `SDL_EVENT_QUIT` is taken for the close of the one a button is held
  in, or else of window 0, which is none of them (software_backend.cpp:250), so the main
  window may stay open; and a closure that runs after the close may start a perpetual
  animation (model_app.hpp:130): either way a perpetual animation keeps the loop from
  ending.
* A window made for a `request_window` that timed out belongs to nobody
  (software_backend.cpp:89); a request pushed after the last drain times out
  (software_backend.cpp:441); a close request of an erased window goes to the only
  one left (software_backend.cpp:256).
* Closing the inspector leaves its highlight on the screen (model_app.hpp:352); its
  statistics lag when it is visited before the window it inspects
  (tree_inspector.hpp:275).
* An `Animation` destroyed during a tick is called once more (animation.hpp:121); a set
  to the interpolated value does not retarget (field.hpp:22); a retarget is on the
  screen at its target for a frame before the first tick (animation.hpp:344).
* A row edited after an erasure and before the publish overwrites another item
  (view_builder.hpp:366); a recycled row keeps its focus ring (view_builder.hpp:54); a
  press stays with the node, not the item (widget_tree.hpp:977); rows come last in the
  focus order (widget_tree.hpp:982).
* Tab leaves the popup of a drop-down open (widget_tree.hpp:308), and a press on one of
  its options then closes it and opens it again (event_routing.hpp:56): run
  `popup_focus`. A second button takes the capture and strands the first widget's
  pressed flag (widget_tree.hpp:165); a press on a widget without focus policy keeps
  the focus (event_routing.hpp:59). Another button pressed on the frame while a thumb is
  dragged takes the first release (software_backend.cpp:339), and the drag goes on until
  the next.
* A direct call from Python holds `g_direct_dispatch_mutex` while observers written in
  Python run (prism_ext.cpp:195, 219): another thread waits for it with the GIL or a
  handle's mutex that the observer needs, and nobody goes on: run `python_direct`.
* The pump and the logic thread exchange the remembered cursor and call
  `SDL_SetCursor` in two steps each (sdl_window.cpp:228): the cursor shown may be the
  other's, and the comparison keeps it so: run `cursor_race`. The memory of it is not
  reset when the window is created anew.
* *Around the start and the end of a Python run:* a direct add that began before the
  run meets the logic thread in the middle (history `straddled`), and without a GIL so
  does a direct transaction (`torn`), which writes field by field as the posted ones do
  (prism_ext.cpp:313, 320): the two may be left interleaved, or read half written. A read
  during the close waits with the GIL; one that is posted after the loop's end waits for
  ever, since the caller's own reference keeps the promise from being broken
  (prism_ext.cpp:243), so `CallsReturn` excepts it; a batch or a post that finds the run
  ending is dropped without a word, and one that races `loop.finish` never runs; a
  request to quit between the guard and the reset of the flag is lost; a start of more
  than a second makes callers dispatch directly.
* *Objects of Python:* a callback of a dependency that captures the derived handle but not
  its model leaks, with what it captures (prism_ext.cpp:1278): `Collect` has it, and no
  property of the collector is claimed; a `Shared` set before a run stays pending until something wakes
  the loop, and the slots of a model that does not run are never drained; the end of
  `run()` disconnects all observers of the model; `disconnect()` leaves the callback in
  `_prism_callbacks`; a derived handle that outlives its model stops updating.
* *Layout:* a resize shows the old pane sizes for one frame, and a container narrower
  than its handles gets panes of no or negative size and never recovers; two panes
  with less than twice the minimum between them, and a resize in the middle of a drag,
  leave the limits; a handle that comes first wraps its index
  (view_builder.hpp:245); the first drag of a row with slack rescales all its panes.
* *Tree view:* an observer of `selected` that calls `refresh()` leaves `row` dangling
  (tree.hpp:198).
* *Text:* the caret of a field is not clamped when the text is cut from outside, and the
  next edit throws `std::out_of_range` (text_delegates.hpp:86, 94); End on a wrapped row
  goes to the next one; Up goes past the end of a full row; a key that does not move
  the caret after a resize scrolls without a repaint; positions are bytes.
* *Tabs:* a `Shared` that is only in a tab page is not drained (`Orphans`), and a channel
  there gets one more drain callback at each selection (widget_tree.hpp:683); ids
  hovered, focused and captured are kept when their widget goes; the contents of a
  page come last in the focus order; a selection out of range shows an empty page.
* *Table:* the wheel scrolls twice, page keys do not arrive, a key that does not move
  changes the offset without a repaint (widget_tree.hpp:1127), so a press until the next
  build takes another row than the one painted; a selection set by the application is
  neither repainted nor scrolled to until then (widget_tree.hpp:538), and it is not
  adjusted when rows go, where docs/superpowers/specs/2026-03-31-table-widget-design.md:150
  and :184 say that it is; a
  resize in width paints the old width once; a table lower than its header casts a
  negative height; one that shrinks beyond the overscan throws, as a list does.
* *Plot:* a scroll or a reset during a pan is undone by the next move; freezing takes a
  fit newer than the one drawn, so the view jumps; data of NaN alone has an inverted
  range; another series of the same size keeps the old fit for up to 30 frames; a
  `NaN` hides that x is not monotonic; a deep zoom casts beyond `int`
  (plot_render.hpp:323).
* *Drop-down and slider:* the flip is decided with the position of the last frame
  (widget_tree.hpp:853, dropdown_delegates.hpp:46); the step of a slider wraps in narrow
  types (delegate.hpp:542).
* *Chrome:* SDL hit-tests the left button only, while any button begins a resize
  (software_backend.cpp:303): one of another button at the left or the top moves the
  window by hand, and one pressed during a drag replaces it, the first release ending
  both; `set_decoration_mode` makes a window that was not there yet, and a window made
  anew forgets its position; one moved by others during a drag jumps back; hover
  stays in the application while the pointer is over the frame, and drags begun in the
  application lose their moves there.


## 7. Not modelled, and the plan

* *Rendering* (drawing, SVG, the software renderer) is output of a snapshot that nothing
  changes any more; snapshots are version numbers here.
* *Headless backends* run a script for tests and submit nothing.
* *`App::run` and the immediate API*, *inspectors and field mirrors* are put together from
  what is modelled, and keep no state of their own.
* Of the *delegates*, buttons, checkboxes, labels and gauges handle one event over one
  value. Of *Python*, the binding of each widget type, of lists, trees and plots is
  conversion.
* Of modelled components: hazard pointers of `atomic_cell`, rounding of floats, modal
  overlays, connecting from inside an emission, springs and other easings, ticks and
  labels of a plot, UTF-8. `PROJECT.json` has it component by component.

Next, in this order:

1. `MutationQueue`'s `PostMailbox` under `Channel` and `PythonDispatch`: that their one-step
   push and post are the mailbox's.
