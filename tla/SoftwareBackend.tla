--------------------------- MODULE SoftwareBackend ----------------------------
(***************************************************************************)
(* SoftwareBackend (src/backends/software_backend.cpp): the main thread's  *)
(* event pump and renderer, and the operations the logic thread calls on   *)
(* it: submit and wake, request_window, close_window, quit.                *)
(*                                                                         *)
(* Everything crosses through three things: maps under windows_mutex_ (one *)
(* step per locked section), two mpsc queues, and SDL's event queue, whose *)
(* SDL_EVENT_USER is the wake-up.  A frame is its version number, 0 none.  *)
(***************************************************************************)
EXTENDS Naturals, Sequences, FiniteSets, SequencesExt

CONSTANTS
    MaxWindows,   \* bound: window identifiers
    MaxVersion,   \* bound: frames submitted
    Setups        \* the configurations and bounds to consider, see Setup

OsKinds == {"motion", "press", "release", "key", "close", "quit", "exposed"}

Setup == [paced : BOOLEAN,           \* RenderConfig::frame_pacing
          custom : SUBSET Nat,       \* windows with DecorationMode::Custom
          osKinds : SUBSET OsKinds,  \* the OS events there may be
          maxQueue : Nat \ {0},      \* events SDL's queue holds; SDL_PushEvent fails beyond
          maxOs : Nat,               \* bound: OS events
          maxFrames : 0..MaxVersion, \* bound: frames submitted
          maxRequests : Nat]         \* bound: calls of request_window

Ids == 1..MaxWindows
Primary == 1
NoWindow == 0

ASSUME ConstantsAssumption ==
    /\ MaxWindows \in Nat \ {0} /\ MaxVersion \in Nat
    /\ \A s \in Setups : s \in Setup

VARIABLES
    setup,        \* the configuration
    windows,      \* keys of windows_ and of snapshots_
    nextId,       \* next_id_
    snap,         \* snapshots_[w].snapshot
    last,         \* last_presented_[w]
    force,        \* force_redraw_
    screen,       \* what the window shows
    running,      \* running_
    mpc,          \* control of the main thread
    queue,        \* SDL's event queue
    pressed,      \* pressed_window_
    resizing,     \* the windows with in_resize()
    pending,      \* pending_motion: an index of taken, 0 when empty
    toRender,     \* to_render: the windows to render last[w] in
    due,          \* FramePacer::frame_due
    requests,     \* window_requests_, the request's number
    closes,       \* close_requests_
    app,          \* control of the logic thread
    owned,        \* windows the logic thread has a registry entry for
    current,      \* the request it waits for, 0 none
    done, result, \* of that request
    taken,        \* history: input taken from the queue for the application
    given,        \* history: what event_cb was called with, indices of taken
    wakeLost,     \* history: SDL_PushEvent failed for an SDL_EVENT_USER
    osEvents, version, asked

surface == <<windows, nextId, snap, last, force, screen>>
input == <<pressed, resizing, pending, taken, given>>
request == <<requests, closes, owned, current, done, result>>
bounds == <<osEvents, version, asked>>
noted == <<setup, wakeLost>>
vars == <<surface, running, mpc, queue, input, toRender, due, request, app, noted,
          bounds>>

Event == [k : OsKinds \cup {"user"}, w : Ids \cup {NoWindow}]
User == [k |-> "user", w |-> NoWindow]

TypeOK ==
    /\ windows \subseteq Ids /\ nextId \in Ids
    /\ snap \in [Ids -> 0..MaxVersion] /\ last \in [Ids -> 0..MaxVersion]
    /\ screen \in [Ids -> 0..MaxVersion]
    /\ force \subseteq Ids \cup {NoWindow}
    /\ running \in BOOLEAN /\ due \in BOOLEAN
    /\ mpc \in {"init", "top", "wait", "timed", "batch", "requests", "closes",
                "check", "render", "finalRequests", "finalCloses", "returned"}
    /\ queue \in Seq(Event) /\ Len(queue) <= setup.maxQueue
    /\ pressed \in Ids \cup {NoWindow} /\ resizing \subseteq windows
    /\ pending \in 0..Len(taken) /\ toRender \subseteq windows
    /\ requests \in Seq(1..setup.maxRequests) /\ closes \in Seq(Ids)
    /\ app \in {"boot", "idle", "wake", "wakeWait", "wait"}
    /\ owned \subseteq Ids /\ current \in 0..asked
    /\ done \in BOOLEAN /\ result \in Ids \cup {NoWindow}
    /\ taken \in Seq([k : OsKinds, w : Ids \cup {NoWindow}])
    /\ given \in Seq(DOMAIN taken)
    /\ setup \in Setups /\ wakeLost \in BOOLEAN /\ osEvents \in 0..setup.maxOs
    /\ version \in 0..setup.maxFrames /\ asked \in 0..setup.maxRequests

\* create_window made the primary window before run.
Init ==
    /\ windows = {Primary} /\ nextId = Primary
    /\ snap = [w \in Ids |-> 0] /\ last = [w \in Ids |-> 0]
    /\ screen = [w \in Ids |-> 0]
    /\ force = {} /\ running = TRUE /\ due = TRUE
    /\ mpc = "init" /\ queue = <<>>
    /\ pressed = NoWindow /\ resizing = {} /\ pending = 0 /\ toRender = {}
    /\ requests = <<>> /\ closes = <<>>
    /\ app = "boot" /\ owned = {Primary} /\ current = 0
    /\ done = FALSE /\ result = NoWindow
    /\ taken = <<>> /\ given = <<>>
    /\ setup \in Setups /\ wakeLost = FALSE
    /\ osEvents = 0 /\ version = 0 /\ asked = 0

\* SDL_PushEvent, its result ignored.
Push(e) == queue' = IF Len(queue) < setup.maxQueue THEN Append(queue, e) ELSE queue

-----------------------------------------------------------------------------
(* The main thread: the loop of run. *)

\* SDL is up; ready_ lets the logic thread go.
Ready ==
    /\ mpc = "init"
    /\ mpc' = IF running THEN "top" ELSE "finalRequests"
    /\ UNCHANGED <<noted, surface, running, queue, input, toRender, due, request, app,
                   bounds>>

Dirty(w) == w \in force \/ snap[w] # last[w]

\* setup.paced and any_dirty: wait for the frame deadline.  Otherwise for an event.
ChooseWait ==
    /\ mpc = "top"
    /\ mpc' = IF ~running THEN "finalRequests"
              ELSE IF setup.paced /\ \E w \in windows : Dirty(w) THEN "timed" ELSE "wait"
    /\ UNCHANGED <<noted, surface, running, queue, input, toRender, due, request, app,
                   bounds>>

TimesOut ==
    /\ mpc = "timed" /\ due /\ queue = <<>>
    /\ mpc' = "check"
    /\ UNCHANGED <<noted, surface, running, queue, input, toRender, due, request, app,
                   bounds>>

\* The window an event is for: its own, during a press that window, else the
\* only one there is.
Resolve(e) ==
    LET own == IF e.w \in windows THEN e.w ELSE NoWindow
        drag == IF own = NoWindow THEN pressed ELSE own
    IN IF drag = NoWindow /\ Cardinality(windows) = 1
       THEN CHOOSE w \in windows : TRUE ELSE drag

\* Mutated Flushed: a motion for another window replaces the buffered one.
FlushedOnOther(e, w) ==
    IF pending # 0 /\ e.k # "motion" THEN Append(given, pending) ELSE given

\* flush_pending_motion before event e of window w, unless it is one more motion of w.
Flushed(e, w) ==
    IF pending # 0 /\ (e.k # "motion" \/ taken[pending].w # w)
    THEN Append(given, pending) ELSE given

Take(k, w) == Append(taken, [k |-> k, w |-> w])

\* Event e of window w goes to the application as k, right away.
Deliver(k, w, e) ==
    /\ taken' = Take(k, w)
    /\ given' = Append(Flushed(e, w), Len(taken) + 1)
    /\ pending' = 0

\* ... or not at all.
Swallow(e, w) ==
    /\ given' = Flushed(e, w)
    /\ pending' = IF given' = given THEN pending ELSE 0
    /\ UNCHANGED taken

\* The next event of a batch: the one waited for, then those SDL_PollEvent has.
TakesOne == mpc \in {"wait", "timed", "batch"} /\ queue # <<>>
E == Head(queue)
Handling(k) == TakesOne /\ E.k = k /\ queue' = Tail(queue)

Zones(w) ==
    IF w \in setup.custom \cap windows
    THEN {"client", "close", "button", "edge"} ELSE {"client"}

HandleMotion ==
    /\ Handling("motion")
    /\ mpc' = "batch"
    /\ LET w == Resolve(E)
       IN \/ /\ w \notin resizing /\ "client" \in Zones(w)
             /\ taken' = Take("motion", w)
             /\ given' = Flushed(E, w)
             /\ pending' = Len(taken) + 1
          \/ /\ w \in resizing \/ Zones(w) # {"client"}
             /\ Swallow(E, w)
    /\ UNCHANGED <<noted, surface, running, pressed, resizing, toRender, due, request,
                   app, bounds>>

\* A press captures the mouse; the chrome takes it outside the client area.
HandlePress ==
    /\ Handling("press")
    /\ mpc' = "batch"
    /\ LET w == Resolve(E)
       IN /\ pressed' = w
          /\ \E zone \in Zones(w) :
                /\ CASE zone = "client" -> Deliver("press", w, E)
                     [] zone = "close" -> Deliver("close", w, E)
                     [] OTHER -> Swallow(E, w)
                /\ resizing' = IF zone = "edge" THEN resizing \cup {w} ELSE resizing
    /\ UNCHANGED <<noted, surface, running, toRender, due, request, app, bounds>>

HandleRelease ==
    /\ Handling("release")
    /\ mpc' = "batch"
    /\ pressed' = NoWindow
    /\ LET w == Resolve(E)
       IN /\ resizing' = resizing \ {w}
          /\ IF w \in resizing THEN Swallow(E, w) ELSE Deliver("release", w, E)
    /\ UNCHANGED <<noted, surface, running, toRender, due, request, app, bounds>>

\* Keys, text, wheel, resize and WindowClose are passed on.
HandlePlain ==
    /\ \E k \in {"key", "close"} : Handling(k)
    /\ mpc' = "batch"
    /\ Deliver(E.k, Resolve(E), E)
    /\ UNCHANGED <<noted, surface, running, pressed, resizing, toRender, due, request,
                   app, bounds>>

HandleQuit ==
    /\ Handling("quit")
    /\ mpc' = "batch"
    /\ Deliver("close", Resolve(E), E)
    /\ running' = FALSE
    /\ UNCHANGED <<noted, surface, pressed, resizing, toRender, due, request, app,
                   bounds>>

HandleExposed ==
    /\ Handling("exposed")
    /\ mpc' = "batch"
    /\ Swallow(E, Resolve(E))
    /\ force' = force \cup {Resolve(E)}
    /\ UNCHANGED <<noted, windows, nextId, snap, last, screen, running, pressed, resizing,
                   toRender, due, request, app, bounds>>

HandleUser ==
    /\ Handling("user")
    /\ mpc' = "requests"
    /\ Swallow(E, Resolve(E))
    /\ UNCHANGED <<noted, surface, running, pressed, resizing, toRender, due, request,
                   app, bounds>>

\* Mutated DrainRequest: the answer goes to whoever waits.
DrainRequestToWaiting ==
    /\ mpc \in {"requests", "finalRequests"} /\ requests # <<>>
    /\ requests' = Tail(requests)
    /\ IF running
       THEN nextId' = nextId + 1 /\ windows' = windows \cup {nextId'}
       ELSE UNCHANGED <<nextId, windows>>
    /\ IF current # 0
       THEN done' = TRUE /\ result' = IF running THEN nextId' ELSE NoWindow
       ELSE UNCHANGED <<done, result>>
    /\ UNCHANGED <<noted, snap, last, force, screen, running, mpc, queue, input, toRender,
                   due, closes, owned, current, app, bounds>>

\* One round of drain_window_requests.  The caller may have given up waiting.
DrainRequest ==
    /\ mpc \in {"requests", "finalRequests"} /\ requests # <<>>
    /\ requests' = Tail(requests)
    /\ IF running
       THEN nextId' = nextId + 1 /\ windows' = windows \cup {nextId'}
       ELSE UNCHANGED <<nextId, windows>>
    /\ IF Head(requests) = current
       THEN done' = TRUE /\ result' = IF running THEN nextId' ELSE NoWindow
       ELSE UNCHANGED <<done, result>>
    /\ UNCHANGED <<noted, snap, last, force, screen, running, mpc, queue, input, toRender,
                   due, closes, owned, current, app, bounds>>

RequestsDrained ==
    /\ mpc \in {"requests", "finalRequests"} /\ requests = <<>>
    /\ mpc' = IF mpc = "requests" THEN "closes" ELSE "finalCloses"
    /\ UNCHANGED <<noted, surface, running, queue, input, toRender, due, request, app,
                   bounds>>

\* One round of drain_close_requests: the window and all it had.
DrainClose ==
    /\ mpc \in {"closes", "finalCloses"} /\ closes # <<>>
    /\ closes' = Tail(closes)
    /\ LET w == Head(closes)
       IN /\ windows' = windows \ {w}
          /\ snap' = [snap EXCEPT ![w] = 0]
          /\ last' = [last EXCEPT ![w] = 0]
          /\ screen' = [screen EXCEPT ![w] = 0]
          /\ force' = force \ {w}
          /\ resizing' = resizing \ {w}
    /\ UNCHANGED <<noted, nextId, running, mpc, queue, pressed, pending, taken, given,
                   toRender, due, requests, owned, current, done, result, app, bounds>>

ClosesDrained ==
    /\ mpc \in {"closes", "finalCloses"} /\ closes = <<>>
    /\ mpc' = IF mpc = "closes" THEN "batch" ELSE "returned"
    /\ UNCHANGED <<noted, surface, running, queue, input, toRender, due, request, app,
                   bounds>>

\* The queue is empty: the last motion is passed on.
EndBatch ==
    /\ mpc = "batch" /\ queue = <<>>
    /\ mpc' = "check"
    /\ given' = IF pending # 0 THEN Append(given, pending) ELSE given
    /\ pending' = 0
    /\ UNCHANGED <<noted, surface, running, queue, pressed, resizing, taken, toRender,
                   due, request, app, bounds>>

\* Mutated Collect: force_redraw_ and last_presented_ are updated for a frame
\* that is not due.
CollectEarly ==
    /\ mpc = "check" /\ running
    /\ toRender' = IF setup.paced /\ ~due THEN {}
                   ELSE {w \in windows : snap[w] # 0 /\ Dirty(w)}
    /\ last' = [w \in Ids |-> IF w \in windows THEN snap[w] ELSE last[w]]
    /\ force' = {}
    /\ mpc' = "render"
    /\ UNCHANGED <<noted, windows, nextId, snap, screen, running, queue, input, due,
                   request, app, bounds>>

\* A frame is due: the dirty windows are collected under the lock.
Collect ==
    /\ mpc = "check" /\ running /\ (setup.paced => due)
    /\ toRender' = {w \in windows : snap[w] # 0 /\ Dirty(w)}
    /\ last' = [w \in Ids |-> IF w \in toRender' THEN snap[w] ELSE last[w]]
    /\ force' = {}
    /\ mpc' = "render"
    /\ UNCHANGED <<noted, windows, nextId, snap, screen, running, queue, input, due,
                   request, app, bounds>>

NotDue ==
    /\ mpc = "check" /\ (~running \/ (setup.paced /\ ~due))
    /\ mpc' = IF running THEN "top" ELSE "finalRequests"
    /\ UNCHANGED <<noted, surface, running, queue, input, toRender, due, request, app,
                   bounds>>

\* ... and rendered outside of it.
Render ==
    /\ mpc = "render"
    /\ screen' = [w \in Ids |-> IF w \in toRender THEN last[w] ELSE screen[w]]
    /\ due' = (due /\ toRender = {})
    /\ toRender' = {}
    /\ mpc' = "top"
    /\ UNCHANGED <<noted, windows, nextId, snap, last, force, running, queue, input,
                   request, app, bounds>>

-----------------------------------------------------------------------------
(* Time and the OS. *)

FrameTick ==
    /\ setup.paced /\ ~due
    /\ due' = TRUE
    /\ UNCHANGED <<noted, surface, running, mpc, queue, input, toRender, request, app,
                   bounds>>

\* The OS has an event for a window, or for none.
OsEvent(k, w) ==
    /\ mpc \notin {"init", "returned"} /\ osEvents < setup.maxOs
    /\ osEvents' = osEvents + 1
    /\ Push([k |-> k, w |-> w])
    /\ UNCHANGED <<noted, surface, running, mpc, input, toRender, due, request, app,
                   version, asked>>

-----------------------------------------------------------------------------
(* The logic thread. *)

WaitReady ==
    /\ app = "boot" /\ mpc # "init"
    /\ app' = "idle"
    /\ UNCHANGED <<noted, surface, running, mpc, queue, input, toRender, due, request,
                   bounds>>

\* submit, of a snapshot newer than all before; publish_entry wakes next.
Submit(w) ==
    /\ app = "idle" /\ version < setup.maxFrames /\ w \in owned
    /\ version' = version + 1
    /\ snap' = IF w \in windows THEN [snap EXCEPT ![w] = version'] ELSE snap
    /\ app' = "wake"
    /\ UNCHANGED <<noted, windows, nextId, last, force, screen, running, mpc, queue,
                   input, toRender, due, request, osEvents, asked>>

\* request_window pushes its request, wakes and waits.
RequestWindow ==
    /\ app = "idle" /\ asked < setup.maxRequests /\ nextId + Len(requests) < MaxWindows
    /\ asked' = asked + 1
    /\ requests' = Append(requests, asked')
    /\ current' = asked'
    /\ app' = "wakeWait"
    /\ UNCHANGED <<noted, surface, running, mpc, queue, input, toRender, due, closes,
                   owned, done, result, osEvents, version>>

Answered ==
    /\ app = "wait" /\ done
    /\ owned' = (owned \cup {result}) \ {NoWindow}
    /\ current' = 0 /\ done' = FALSE /\ result' = NoWindow
    /\ app' = "idle"
    /\ UNCHANGED <<noted, surface, running, mpc, queue, input, toRender, due, requests,
                   closes, bounds>>

\* Two seconds went by: request_window returns nullptr.
GivesUp ==
    /\ app = "wait" /\ ~done
    /\ current' = 0
    /\ app' = "idle"
    /\ UNCHANGED <<noted, surface, running, mpc, queue, input, toRender, due, requests,
                   closes, owned, done, result, bounds>>

\* registry.remove, then close_window.
CloseWindow(w) ==
    /\ app = "idle" /\ w \in owned \ {Primary}
    /\ owned' = owned \ {w}
    /\ closes' = Append(closes, w)
    /\ app' = "wake"
    /\ UNCHANGED <<noted, surface, running, mpc, queue, input, toRender, due, requests,
                   current, done, result, bounds>>

\* Mutated Quit: the main thread is not woken.
QuitSilently ==
    /\ app = "idle" /\ running
    /\ running' = FALSE
    /\ UNCHANGED <<noted, surface, mpc, queue, input, toRender, due, request, app,
                   bounds>>

Quit ==
    /\ app = "idle" /\ running
    /\ running' = FALSE
    /\ app' = "wake"
    /\ UNCHANGED <<noted, surface, mpc, queue, input, toRender, due, request, bounds>>

\* wake, the last step of each of these operations.
Wake ==
    /\ app \in {"wake", "wakeWait"}
    /\ Push(User)
    /\ wakeLost' = (wakeLost \/ queue' = queue)
    /\ app' = IF app = "wake" THEN "idle" ELSE "wait"
    /\ UNCHANGED <<setup, surface, running, mpc, input, toRender, due, request, bounds>>

-----------------------------------------------------------------------------
Main ==
    \/ Ready \/ ChooseWait \/ TimesOut
    \/ HandleMotion \/ HandlePress \/ HandleRelease \/ HandlePlain \/ HandleQuit
    \/ HandleExposed \/ HandleUser
    \/ DrainRequest \/ RequestsDrained \/ DrainClose \/ ClosesDrained
    \/ EndBatch \/ Collect \/ NotDue \/ Render

\* What the logic thread finishes once begun.
Carry == WaitReady \/ Answered \/ GivesUp \/ Wake

Begin == RequestWindow \/ Quit \/ \E w \in owned : Submit(w) \/ CloseWindow(w)

Os ==
    \E k \in setup.osKinds :
        \E w \in IF k = "quit" THEN {NoWindow} ELSE windows : OsEvent(k, w)

Next == Main \/ FrameTick \/ Os \/ Carry \/ Begin

\* The main thread runs, time passes, and the logic thread ends what it began.
Fairness == WF_vars(Main) /\ WF_vars(FrameTick) /\ WF_vars(Carry)

Spec == Init /\ [][Next]_vars /\ Fairness
-----------------------------------------------------------------------------
(* Properties. *)

\* The main thread sleeps until there is an event.
Asleep == mpc = "wait" /\ queue = <<>>

\* Whenever the main thread sleeps and no wake is on its way, every window shows
\* its latest snapshot and was redrawn if SDL asked for it: no submit is lost,
\* not by a failed SDL_PushEvent either.
NoFrameLost ==
    Asleep /\ app # "wake" =>
        \A w \in windows : screen[w] = snap[w] /\ w \notin force

\* "preserving relative event order": input reaches the application in the order
\* it came, and all of it, but for a motion another one of its window follows;
\* nothing is kept back when the main thread goes to sleep.
InputOrder ==
    /\ \A i, j \in DOMAIN given : i < j => given[i] < given[j]
    /\ mpc \in {"wait", "timed"} => pending = 0
    /\ \A i \in DOMAIN taken :
          \/ i \in ToSet(given) \cup {pending}
          \/ /\ i + 1 \in DOMAIN taken
             /\ taken[i].k = "motion" /\ taken[i+1].k = "motion"
             /\ taken[i].w = taken[i+1].w

\* request_window gives up after two seconds and leaves its request queued: the
\* answer to it, however late, never reaches the caller of a later one, who gets
\* the window made for its own call (windows get their numbers in the order of
\* the calls).  The window of a registry entry exists as long as the entry.
AnswersOwnRequest ==
    /\ done /\ result # NoWindow => result = Primary + current
    /\ owned \subseteq windows

FrameContract == INSTANCE Frames WITH
    Windows <- Ids, open <- windows, latest <- snap, shown <- screen

\* After quit, or the OS's, run returns.
RunReturns == ~running ~> (mpc = "returned")

\* A wake that SDL_PushEvent drops is made up for: the renderer keeps the frame contract
\* of README.md, and run returns.  (submit, wake, quit, wait_event)
WakesServed == FrameContract!Spec /\ RunReturns
=============================================================================
