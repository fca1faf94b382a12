------------------------- MODULE SoftwareBackendProofs -------------------------
(***************************************************************************)
(* What SoftwareBackend's runs check, for every set of configurations,     *)
(* number of windows and number of frames.                                 *)
(*                                                                         *)
(* BackendInv is the inductive invariant: one conjunct per thing that      *)
(* crosses between the threads, the requests for windows, the windows      *)
(* themselves, the frames, and the input.                                  *)
(***************************************************************************)
EXTENDS SoftwareBackend, FiniteSetTheorems, SequenceTheorems, TLAPS

\* Requests are numbered in the order of the calls, and while the backend runs
\* each one served has made one window.
RequestsInOrder ==
    /\ Len(requests) <= asked /\ nextId + Len(requests) <= MaxWindows
    /\ \A i \in DOMAIN requests : requests[i] = asked - Len(requests) + i
    /\ running => nextId = Primary + asked - Len(requests)

\* The caller of request_window waits for its latest request; once that is
\* answered no request is left, so the answer stays its own.
CallerWaits ==
    /\ current # 0 <=> app \in {"wakeWait", "wait"}
    /\ current # 0 => current = asked
    /\ done => current # 0 /\ requests = <<>>
    /\ ~done => result = NoWindow
    /\ done /\ result # NoWindow => result = Primary + current

\* No window number is used twice; a window on its way out is in no registry
\* entry, and an answer on its way to the caller names a window there is.
WindowsOwned ==
    /\ windows \subseteq 1..nextId /\ owned \subseteq windows
    /\ result # NoWindow => result \in windows
    /\ \A i \in DOMAIN closes :
          closes[i] <= nextId /\ closes[i] # result /\ closes[i] \notin owned

\* The screen follows last_presented_, which follows the snapshots.
FramesFollow ==
    /\ mpc # "render" => toRender = {}
    /\ \A w \in Ids : w \notin toRender => last[w] = screen[w]
    /\ \A w \in Ids : screen[w] <= last[w] /\ last[w] <= snap[w] /\ snap[w] <= version

\* A window that is not there, or no longer, has no frame.
ClosedBlank == \A w \in Ids \ windows : snap[w] = 0

\* Where the main thread may go to sleep without looking again, a dirty window
\* has an event in the queue or a wake on its way.
WakeDue ==
    mpc \in {"init", "wait"} \/ (~setup.paced /\ mpc \in {"top", "render"}) =>
        \A w \in windows : Dirty(w) => queue # <<>> \/ app = "wake"

\* The buffered motion is the last input there is, and only a batch has one.
MotionLast ==
    pending # 0 =>
        /\ mpc = "batch" /\ pending = Len(taken) /\ taken[pending].k = "motion"
        /\ \A i \in DOMAIN given : given[i] < pending

GivenInOrder == \A i, j \in DOMAIN given : i < j => given[i] < given[j]

Accounted(i) ==
    \/ i = pending \/ \E j \in DOMAIN given : given[j] = i
    \/ /\ i + 1 \in DOMAIN taken
       /\ taken[i].k = "motion" /\ taken[i+1].k = "motion" /\ taken[i].w = taken[i+1].w

AllAccounted == \A i \in DOMAIN taken : Accounted(i)

InputKept == MotionLast /\ GivenInOrder /\ AllAccounted

BackendInv ==
    /\ TypeOK /\ RequestsInOrder /\ CallerWaits /\ WindowsOwned
    /\ FramesFollow /\ ClosedBlank /\ WakeDue /\ InputKept
-----------------------------------------------------------------------------
(* Types. *)

LEMMA SeqGrows ==
    ASSUME NEW S, NEW T, S \subseteq T, NEW s \in Seq(S)
    PROVE  s \in Seq(T)
OBVIOUS

LEMMA Elements ==
    ASSUME NEW S, NEW s \in Seq(S)
    PROVE  Len(s) \in Nat /\ DOMAIN s = 1..Len(s) /\ \A i \in DOMAIN s : i \in Nat /\ s[i] \in S
OBVIOUS

LEMMA HeadTail ==
    ASSUME NEW S, NEW s \in Seq(S), s # <<>>
    PROVE  /\ Head(s) \in S /\ Head(s) = s[1] /\ 1 \in DOMAIN s /\ Len(s) \in Nat \ {0}
           /\ Tail(s) \in Seq(S) /\ Len(Tail(s)) = Len(s) - 1
           /\ \A i \in DOMAIN Tail(s) : i + 1 \in DOMAIN s /\ Tail(s)[i] = s[i + 1]
OBVIOUS

LEMMA Appended ==
    ASSUME NEW S, NEW s \in Seq(S), NEW e \in S
    PROVE  /\ Append(s, e) \in Seq(S) /\ Len(Append(s, e)) = Len(s) + 1
           /\ \A i \in DOMAIN Append(s, e) :
                 \/ i \in DOMAIN s /\ Append(s, e)[i] = s[i]
                 \/ i = Len(s) + 1 /\ Append(s, e)[i] = e
           /\ \A i \in DOMAIN s : i \in DOMAIN Append(s, e) /\ Append(s, e)[i] = s[i]
           /\ Append(s, e)[Len(s) + 1] = e /\ Len(s) + 1 \in DOMAIN Append(s, e)
OBVIOUS

LEMMA SetupTypes ==
    ASSUME ConstantsAssumption, TypeOK
    PROVE  /\ setup.paced \in BOOLEAN /\ setup.osKinds \subseteq OsKinds
           /\ setup.maxQueue \in Nat \ {0} /\ setup.maxOs \in Nat
           /\ setup.maxFrames \in 0..MaxVersion /\ setup.maxRequests \in Nat
           /\ MaxWindows \in Nat \ {0} /\ MaxVersion \in Nat
<1>1. setup \in Setup /\ MaxVersion \in Nat /\ MaxWindows \in Nat \ {0}
  BY DEF TypeOK, ConstantsAssumption
<1>2. QED
  BY <1>1 DEF Setup

LEMMA Numbers ==
    ASSUME ConstantsAssumption, TypeOK
    PROVE  /\ nextId \in Nat /\ asked \in Nat /\ current \in Nat /\ result \in Nat
           /\ version \in Nat /\ osEvents \in Nat
           /\ requests \in Seq(Nat) /\ closes \in Seq(Nat)
           /\ windows \subseteq Nat /\ owned \subseteq Nat
           /\ snap \in [Ids -> Nat] /\ last \in [Ids -> Nat] /\ screen \in [Ids -> Nat]
           /\ Ids \subseteq Nat /\ 0 \notin Ids
<1>1. /\ setup.maxRequests \in Nat /\ setup.maxOs \in Nat
      /\ MaxWindows \in Nat /\ MaxVersion \in Nat /\ setup.maxFrames \in 0..MaxVersion
  BY SetupTypes
<1>2. /\ 1..setup.maxRequests \subseteq Nat /\ Ids \subseteq Nat /\ 0 \notin Ids
      /\ 0..MaxVersion \subseteq Nat
  BY <1>1 DEF Ids
<1>3. asked \in 0..setup.maxRequests /\ current \in 0..asked
  BY DEF TypeOK
<1>4. asked \in Nat /\ current \in Nat
  BY <1>1, <1>3
<1>5. version \in Nat /\ osEvents \in Nat
  BY <1>1 DEF TypeOK
<1>6. requests \in Seq(Nat) /\ closes \in Seq(Nat)
  <2>1. requests \in Seq(1..setup.maxRequests) /\ closes \in Seq(Ids)
    BY DEF TypeOK
  <2>2. QED
    BY <1>2, <2>1, SeqGrows
<1>7. snap \in [Ids -> Nat] /\ last \in [Ids -> Nat] /\ screen \in [Ids -> Nat]
  BY <1>2 DEF TypeOK
<1>8. /\ windows \subseteq Nat /\ owned \subseteq Nat /\ nextId \in Nat
      /\ result \in Nat
  <2>1. /\ windows \subseteq Ids /\ owned \subseteq Ids /\ nextId \in Ids
        /\ result \in Ids \cup {0}
    BY DEF TypeOK, NoWindow
  <2>2. QED
    BY <1>2, <2>1
<1>9. QED
  BY <1>2, <1>4, <1>5, <1>6, <1>7, <1>8

-----------------------------------------------------------------------------
(* What the steps leave alone. *)

LEMMA RequestVars ==
    ASSUME [Next]_vars
    PROVE  \/ RequestWindow \/ DrainRequest
           \/ UNCHANGED <<requests, asked, nextId>> /\ (running' => running)
BY DEF Next, vars, Main, Os, Carry, Begin, surface, input, request, bounds, noted,
       Ready, ChooseWait, TimesOut, HandleMotion, HandlePress, HandleRelease,
       HandlePlain, HandleQuit, HandleExposed, HandleUser, RequestsDrained, DrainClose,
       ClosesDrained, EndBatch, Collect, NotDue, Render, FrameTick, OsEvent, WaitReady,
       Answered, GivesUp, Wake, Quit, Submit, CloseWindow

LEMMA CallerVars ==
    ASSUME [Next]_vars
    PROVE  \/ RequestWindow \/ DrainRequest \/ Answered \/ GivesUp
           \/ /\ UNCHANGED <<requests, asked, current, done, result>>
              /\ app' \in {"wakeWait", "wait"} <=> app \in {"wakeWait", "wait"}
BY DEF Next, vars, Main, Os, Carry, Begin, surface, input, request, bounds, noted,
       Ready, ChooseWait, TimesOut, HandleMotion, HandlePress, HandleRelease,
       HandlePlain, HandleQuit, HandleExposed, HandleUser, RequestsDrained, DrainClose,
       ClosesDrained, EndBatch, Collect, NotDue, Render, FrameTick, OsEvent, WaitReady,
       Wake, Quit, Submit, CloseWindow

LEMMA WindowVars ==
    ASSUME [Next]_vars
    PROVE  \/ DrainRequest \/ Answered \/ DrainClose \/ \E w \in owned : CloseWindow(w)
           \/ UNCHANGED <<windows, nextId, closes, owned, result>>
BY DEF Next, vars, Main, Os, Carry, Begin, surface, input, request, bounds, noted,
       Ready, ChooseWait, TimesOut, HandleMotion, HandlePress, HandleRelease,
       HandlePlain, HandleQuit, HandleExposed, HandleUser, RequestsDrained,
       ClosesDrained, EndBatch, Collect, NotDue, Render, FrameTick, OsEvent, WaitReady,
       GivesUp, Wake, Quit, Submit, RequestWindow

LEMMA FrameVars ==
    ASSUME [Next]_vars
    PROVE  \/ DrainClose \/ Collect \/ Render \/ \E w \in owned : Submit(w)
           \/ /\ UNCHANGED <<snap, last, screen, toRender, version>>
              /\ mpc' = "render" <=> mpc = "render"
BY DEF Next, vars, Main, Os, Carry, Begin, surface, input, request, bounds, noted,
       Ready, ChooseWait, TimesOut, HandleMotion, HandlePress, HandleRelease,
       HandlePlain, HandleQuit, HandleExposed, HandleUser, RequestsDrained,
       ClosesDrained, EndBatch, NotDue, FrameTick, OsEvent, WaitReady, CloseWindow,
       GivesUp, Wake, Quit, DrainRequest, Answered, RequestWindow, Handling, TakesOne

LEMMA InputVars ==
    ASSUME [Next]_vars
    PROVE  \/ HandleMotion \/ HandlePress \/ HandleRelease \/ HandlePlain \/ HandleQuit
           \/ HandleExposed \/ HandleUser \/ EndBatch
           \/ UNCHANGED <<taken, given, pending>> /\ (mpc = "batch" => mpc' = "batch")
BY DEF Next, vars, Main, Os, Carry, Begin, surface, input, request, bounds, noted,
       Ready, ChooseWait, TimesOut, DrainClose, Submit, Collect, Render, RequestsDrained,
       ClosesDrained, NotDue, FrameTick, OsEvent, WaitReady, CloseWindow,
       GivesUp, Wake, Quit, DrainRequest, Answered, RequestWindow

-----------------------------------------------------------------------------
(* Requests for windows and their answers. *)

LEMMA RequestStep ==
    ASSUME ConstantsAssumption, TypeOK, RequestsInOrder, [Next]_vars
    PROVE  RequestsInOrder'
<1> USE DEF RequestsInOrder, Primary
<1>1. /\ nextId \in Nat /\ asked \in Nat /\ MaxWindows \in Nat
      /\ requests \in Seq(Nat) /\ running \in BOOLEAN
  BY Numbers, SetupTypes DEF TypeOK
<1>2. CASE RequestWindow
  BY <1>1, <1>2 DEF RequestWindow, surface
<1>3. CASE DrainRequest
  <2>1. /\ requests # <<>> /\ requests' = Tail(requests) /\ asked' = asked
        /\ running' = running /\ nextId' = IF running THEN nextId + 1 ELSE nextId
    BY <1>3 DEF DrainRequest, bounds
  <2>2. /\ Len(requests) \in Nat \ {0} /\ Len(requests') = Len(requests) - 1
        /\ \A i \in DOMAIN requests' : /\ i \in Nat /\ i + 1 \in DOMAIN requests
                                       /\ requests'[i] = requests[i + 1]
    BY <1>1, <2>1, HeadTail, Elements
  <2>3. \A i \in DOMAIN requests' : requests'[i] = asked' - Len(requests') + i
    BY <1>1, <2>1, <2>2
  <2>4. Len(requests') <= asked' /\ nextId' + Len(requests') <= MaxWindows
    BY <1>1, <2>1, <2>2
  <2>5. ASSUME running' PROVE nextId' = 1 + asked' - Len(requests')
    <3>1. nextId' = nextId + 1 /\ nextId = 1 + asked - Len(requests)
      BY <2>1, <2>5
    <3>2. QED
      BY <1>1, <2>1, <2>2, <3>1
  <2>6. QED
    BY <2>3, <2>4, <2>5
<1>4. CASE UNCHANGED <<requests, asked, nextId>> /\ (running' => running)
  BY <1>4
<1>5. QED
  BY <1>2, <1>3, <1>4, RequestVars

LEMMA CallerStep ==
    ASSUME ConstantsAssumption, TypeOK, RequestsInOrder, CallerWaits, [Next]_vars
    PROVE  CallerWaits'
<1> USE DEF CallerWaits, RequestsInOrder, Primary, NoWindow
<1>1. /\ nextId \in Nat /\ asked \in Nat /\ MaxWindows \in Nat
      /\ requests \in Seq(Nat) /\ running \in BOOLEAN /\ current \in Nat
      /\ done \in BOOLEAN /\ result \in Nat
  BY Numbers, SetupTypes DEF TypeOK
<1>2. CASE RequestWindow
  BY <1>1, <1>2 DEF RequestWindow
<1>3. CASE DrainRequest
  <2>1. /\ requests # <<>> /\ requests' = Tail(requests) /\ asked' = asked
        /\ current' = current /\ app' = app
    BY <1>3 DEF DrainRequest, bounds
  <2>2. /\ Head(requests) = asked - Len(requests) + 1 /\ Len(requests) \in Nat \ {0}
        /\ Len(requests) = 1 => Tail(requests) = <<>>
    <3>1. /\ Head(requests) = requests[1] /\ 1 \in DOMAIN requests
          /\ Len(requests) \in Nat \ {0} /\ Tail(requests) \in Seq(Nat)
          /\ Len(Tail(requests)) = Len(requests) - 1
      BY <1>1, <2>1, HeadTail
    <3>2. Tail(requests) # <<>> => Len(Tail(requests)) \in Nat \ {0}
      BY <3>1, EmptySeq
    <3>3. QED
      BY <1>1, <3>1, <3>2
  <2>3. CASE Head(requests) = current
    <3>1. done' = TRUE /\ result' = IF running THEN nextId + 1 ELSE NoWindow
      BY <1>3, <2>3 DEF DrainRequest
    <3>2. Len(requests) = 1 /\ current # 0
      <4>1. Len(requests) <= asked /\ (current # 0 => current = asked)
        OBVIOUS
      <4>2. current # 0
        BY <1>1, <2>2, <2>3, <4>1
      <4>3. asked = asked - Len(requests) + 1
        BY <2>2, <2>3, <4>1, <4>2
      <4>4. \A a, n \in Nat : a = a - n + 1 => n = 1
        OBVIOUS
      <4>5. QED
        BY <1>1, <2>2, <4>2, <4>3, <4>4
    <3>3. QED
      BY <1>1, <2>1, <2>2, <3>1, <3>2
  <2>4. CASE Head(requests) # current
    BY <1>1, <1>3, <2>1, <2>4 DEF DrainRequest
  <2>5. QED
    BY <2>3, <2>4
<1>4. CASE Answered
  BY <1>1, <1>4 DEF Answered
<1>5. CASE GivesUp
  BY <1>1, <1>5 DEF GivesUp
<1>6. CASE /\ UNCHANGED <<requests, asked, current, done, result>>
           /\ app' \in {"wakeWait", "wait"} <=> app \in {"wakeWait", "wait"}
  BY <1>6
<1>7. QED
  BY <1>2, <1>3, <1>4, <1>5, <1>6, CallerVars

LEMMA WindowStep ==
    ASSUME ConstantsAssumption, TypeOK, RequestsInOrder, CallerWaits, WindowsOwned,
           [Next]_vars
    PROVE  WindowsOwned'
<1> USE DEF WindowsOwned, NoWindow
<1>1. /\ nextId \in Nat /\ closes \in Seq(Ids) /\ Ids \in SUBSET Nat /\ 0 \notin Ids
      /\ running \in BOOLEAN /\ owned \subseteq Ids /\ windows \subseteq Ids
      /\ requests \in Seq(Nat) /\ done \in BOOLEAN /\ current \in Nat
  BY Numbers DEF TypeOK
<1>2. CASE DrainRequest
  <2>1. /\ closes' = closes /\ owned' = owned /\ requests # <<>>
        /\ IF running THEN nextId' = nextId + 1 /\ windows' = windows \cup {nextId + 1}
           ELSE nextId' = nextId /\ windows' = windows
        /\ IF Head(requests) = current
           THEN result' = IF running THEN nextId + 1 ELSE 0 ELSE result' = result
    BY <1>2 DEF DrainRequest
  <2>2. \A i \in DOMAIN closes : closes[i] \in Nat \ {0}
    <3>1. \A i \in DOMAIN closes : closes[i] \in Ids
      BY <1>1, Elements
    <3>2. QED
      BY <1>1, <3>1
  <2>3. windows' \subseteq 1..nextId' /\ owned' \subseteq windows'
    <3>1. 1..nextId \subseteq 1..(nextId + 1) /\ nextId + 1 \in 1..(nextId + 1)
      BY <1>1
    <3>2. QED
      BY <1>1, <2>1, <3>1
  <2>4. result' # 0 => result' \in windows'
    BY <1>1, <2>1
  <2>5. \A i \in DOMAIN closes : closes[i] <= nextId' /\ closes[i] # result'
    BY <1>1, <2>1, <2>2
  <2>6. QED
    BY <2>1, <2>3, <2>4, <2>5
<1>3. CASE Answered
  <2>1. /\ owned' = (owned \cup {result}) \ {0} /\ result' = 0
        /\ UNCHANGED <<windows, nextId, closes>>
    BY <1>3 DEF Answered, surface
  <2>2. \A i \in DOMAIN closes : closes[i] \in Nat \ {0}
    <3>1. \A i \in DOMAIN closes : closes[i] \in Ids
      BY <1>1, Elements
    <3>2. QED
      BY <1>1, <3>1
  <2>3. QED
    BY <1>1, <2>1, <2>2
<1>4. CASE DrainClose
  <2>1. /\ closes # <<>> /\ closes' = Tail(closes) /\ windows' = windows \ {Head(closes)}
        /\ UNCHANGED <<nextId, owned, result>>
    BY <1>4 DEF DrainClose
  <2>2. /\ Head(closes) = closes[1] /\ 1 \in DOMAIN closes
        /\ \A i \in DOMAIN closes' : i + 1 \in DOMAIN closes /\ closes'[i] = closes[i + 1]
    BY <1>1, <2>1, HeadTail
  <2>3. closes[1] \notin owned /\ closes[1] # result
    BY <2>2
  <2>4. \A i \in DOMAIN closes' :
           closes'[i] <= nextId' /\ closes'[i] # result' /\ closes'[i] \notin owned'
    BY <2>1, <2>2
  <2>5. QED
    BY <2>1, <2>2, <2>3, <2>4
<1>5. ASSUME NEW w \in owned, CloseWindow(w) PROVE WindowsOwned'
  <2>1. /\ app = "idle" /\ owned' = owned \ {w} /\ closes' = Append(closes, w)
        /\ UNCHANGED <<windows, nextId, result>>
    BY <1>5 DEF CloseWindow, surface
  <2>2. result = 0
    BY <1>1, <2>1 DEF CallerWaits
  <2>3. w \in Ids /\ w <= nextId /\ w # 0
    BY <1>1
  <2>4. ASSUME NEW i \in DOMAIN closes'
        PROVE  closes'[i] <= nextId /\ closes'[i] # 0 /\ closes'[i] \notin owned'
    <3>1. CASE i \in DOMAIN closes /\ closes'[i] = closes[i]
      BY <1>1, <2>1, <2>2, <3>1
    <3>2. CASE closes'[i] = w
      BY <2>1, <2>3, <3>2
    <3>3. QED
      BY <1>1, <2>1, <2>3, <3>1, <3>2, Appended
  <2>5. QED
    BY <2>1, <2>2, <2>4
<1>6. CASE UNCHANGED <<windows, nextId, closes, owned, result>>
  BY <1>6
<1>7. QED
  BY <1>2, <1>3, <1>4, <1>5, <1>6, WindowVars

-----------------------------------------------------------------------------
(* Frames. *)

LEMMA FramesStep ==
    ASSUME ConstantsAssumption, TypeOK, FramesFollow, [Next]_vars
    PROVE  FramesFollow'
<1> USE DEF FramesFollow
<1>1. /\ snap \in [Ids -> Nat] /\ last \in [Ids -> Nat] /\ screen \in [Ids -> Nat]
      /\ version \in Nat /\ windows \subseteq Ids
  BY Numbers DEF TypeOK
<1>2. CASE DrainClose
  <2>1. PICK c : /\ snap' = [snap EXCEPT ![c] = 0] /\ last' = [last EXCEPT ![c] = 0]
                 /\ screen' = [screen EXCEPT ![c] = 0]
    BY <1>2 DEF DrainClose
  <2>2. UNCHANGED <<mpc, toRender, version>>
    BY <1>2 DEF DrainClose, bounds
  <2>3. QED
    BY <1>1, <2>1, <2>2
<1>3. CASE Collect
  <2>1. /\ last' = [w \in Ids |-> IF w \in toRender' THEN snap[w] ELSE last[w]]
        /\ UNCHANGED <<snap, screen, version>> /\ mpc = "check" /\ mpc' = "render"
    BY <1>3 DEF Collect, bounds
  <2>2. \A w \in Ids : last'[w] = IF w \in toRender' THEN snap[w] ELSE last[w]
    BY <2>1
  <2>3. QED
    BY <1>1, <2>1, <2>2
<1>4. CASE Render
  <2>1. /\ screen' = [w \in Ids |-> IF w \in toRender THEN last[w] ELSE screen[w]]
        /\ UNCHANGED <<snap, last, version>> /\ toRender' = {}
    BY <1>4 DEF Render, bounds
  <2>2. QED
    BY <1>1, <2>1
<1>5. ASSUME NEW w \in owned, Submit(w) PROVE FramesFollow'
  <2>1. /\ version' = version + 1 /\ UNCHANGED <<last, screen, mpc, toRender>>
        /\ snap' = snap \/ snap' = [snap EXCEPT ![w] = version + 1]
    BY <1>5 DEF Submit
  <2>2. QED
    BY <1>1, <2>1
<1>6. CASE /\ UNCHANGED <<snap, last, screen, toRender, version>>
           /\ mpc' = "render" <=> mpc = "render"
  BY <1>6
<1>7. QED
  BY <1>2, <1>3, <1>4, <1>5, <1>6, FrameVars

LEMMA BlankStep ==
    ASSUME ConstantsAssumption, TypeOK, ClosedBlank, [Next]_vars
    PROVE  ClosedBlank'
<1> USE DEF ClosedBlank
<1>1. snap \in [Ids -> Nat] /\ windows \subseteq Ids
  BY Numbers DEF TypeOK
<1>2. CASE DrainClose
  <2>1. PICK c : windows' = windows \ {c} /\ snap' = [snap EXCEPT ![c] = 0]
    BY <1>2 DEF DrainClose
  <2>2. QED
    BY <1>1, <2>1
<1>3. ASSUME NEW w \in owned, Submit(w) PROVE ClosedBlank'
  BY <1>1, <1>3 DEF Submit
<1>4. CASE DrainRequest
  BY <1>1, <1>4 DEF DrainRequest
<1>5. ASSUME ~DrainClose, ~DrainRequest, ~\E w \in owned : Submit(w)
      PROVE  ClosedBlank'
  <2>1. snap' = snap
    BY <1>5, FrameVars DEF Collect, Render
  <2>2. windows' = windows
    BY <1>5, WindowVars DEF Answered, CloseWindow, surface
  <2>3. QED
    BY <2>1, <2>2
<1>6. QED
  BY <1>2, <1>3, <1>4, <1>5

\* A push leaves SDL's queue with an event, also when it fails.
LEMMA PushFills ==
    ASSUME ConstantsAssumption, TypeOK, NEW e \in Event, Push(e)
    PROVE  /\ queue' \in Seq(Event) /\ queue' # <<>> /\ Len(queue') <= setup.maxQueue
           /\ queue' = queue \/ queue' = Append(queue, e)
<1>1. queue \in Seq(Event) /\ Len(queue) <= setup.maxQueue /\ setup.maxQueue \in Nat \ {0}
  BY SetupTypes DEF TypeOK
<1>2. QED
  BY <1>1 DEF Push

LEMMA OsEventPushes ==
    ASSUME ConstantsAssumption, TypeOK, Os
    PROVE  \E k \in OsKinds, w \in windows \cup {NoWindow} :
              OsEvent(k, w) /\ [k |-> k, w |-> w] \in Event
<1>1. setup.osKinds \subseteq OsKinds /\ windows \subseteq Ids
  BY SetupTypes DEF TypeOK
<1>2. QED
  BY <1>1 DEF Os, Event

\* A step that leaves the frames alone, does not put the main thread to sleep,
\* and neither empties the queue nor takes back a wake.
LEMMA WakeDueKept ==
    ASSUME WakeDue, UNCHANGED <<setup, windows, force, snap, last>>,
           mpc' \notin {"init", "wait", "top", "render"} \/ mpc' = mpc,
           queue # <<>> => queue' # <<>>,
           app = "wake" => app' = "wake" \/ queue' # <<>>
    PROVE  WakeDue'
BY DEF WakeDue, Dirty

LEMMA WakeDueStep ==
    ASSUME ConstantsAssumption, TypeOK, FramesFollow, WakeDue, [Next]_vars
    PROVE  WakeDue'
<1>1. /\ setup.paced \in BOOLEAN /\ running \in BOOLEAN /\ windows \subseteq Ids
      /\ snap \in [Ids -> Nat] /\ last \in [Ids -> Nat]
  BY SetupTypes, Numbers DEF TypeOK
<1>2. ASSUME mpc' \notin {"init", "wait", "top", "render"} PROVE WakeDue'
  BY <1>2 DEF WakeDue
<1>3. CASE Ready
  BY <1>3 DEF Ready, WakeDue, Dirty, noted, surface
<1>4. CASE ChooseWait
  <2>1. /\ UNCHANGED <<setup, windows, snap, last, force, queue, app>> /\ mpc = "top"
        /\ mpc' = "wait" => ~setup.paced \/ \A w \in windows : ~Dirty(w)
        /\ mpc' \in {"finalRequests", "timed", "wait"}
    BY <1>4 DEF ChooseWait, noted, surface
  <2>2. QED
    BY <2>1 DEF WakeDue, Dirty
<1>5. CASE Collect
  <2>1. /\ toRender' = {w \in windows : snap[w] # 0 /\ Dirty(w)} /\ force' = {}
        /\ last' = [w \in Ids |-> IF w \in toRender' THEN snap[w] ELSE last[w]]
        /\ UNCHANGED <<windows, snap>>
    BY <1>5 DEF Collect
  <2>2. ASSUME NEW w \in windows PROVE last'[w] = snap[w]
    <3>1. w \in Ids /\ last[w] \in Nat /\ snap[w] \in Nat /\ last[w] <= snap[w]
      BY <1>1 DEF FramesFollow
    <3>2. CASE w \in toRender'
      BY <2>1, <3>1, <3>2
    <3>3. CASE w \notin toRender'
      BY <2>1, <3>1, <3>3 DEF Dirty
    <3>4. QED
      BY <3>2, <3>3
  <2>3. QED
    BY <2>1, <2>2 DEF WakeDue, Dirty
<1>6. CASE Render
  BY <1>6 DEF Render, WakeDue, Dirty, noted
<1>7. CASE NotDue
  BY <1>1, <1>7 DEF NotDue, WakeDue, noted
<1>8. CASE Os
  <2>1. PICK k \in OsKinds, w \in windows \cup {NoWindow} :
           OsEvent(k, w) /\ [k |-> k, w |-> w] \in Event
    BY <1>8, OsEventPushes
  <2>2. queue' # <<>> /\ UNCHANGED <<setup, windows, force, snap, last, mpc, app>>
    BY <2>1, PushFills DEF OsEvent, noted, surface
  <2>3. QED
    BY <2>2, WakeDueKept
<1>9. CASE Wake
  <2>1. User \in Event
    BY DEF User, Event
  <2>2. queue' # <<>> /\ UNCHANGED <<setup, windows, force, snap, last, mpc>>
    BY <1>9, <2>1, PushFills DEF Wake, surface
  <2>3. QED
    BY <2>2, WakeDueKept
<1>10. ASSUME NEW w \in owned, Submit(w) PROVE WakeDue'
  BY <1>10 DEF Submit, WakeDue
<1>11. ASSUME \/ WaitReady \/ Answered \/ GivesUp \/ RequestWindow \/ Quit \/ FrameTick
              \/ UNCHANGED vars \/ \E w \in owned : CloseWindow(w)
       PROVE  WakeDue'
  <2>1. UNCHANGED <<setup, windows, force, snap, last, queue, mpc>>
    BY <1>11 DEF WaitReady, Answered, GivesUp, RequestWindow, Quit, FrameTick, vars,
                 CloseWindow, noted, surface
  <2>2. app = "wake" => app' = "wake"
    BY <1>11 DEF WaitReady, Answered, GivesUp, RequestWindow, Quit, FrameTick, vars,
                 CloseWindow
  <2>3. QED
    BY <2>1, <2>2, WakeDueKept
<1>12. ASSUME \/ TimesOut \/ HandleMotion \/ HandlePress \/ HandleRelease \/ HandlePlain
              \/ HandleQuit \/ HandleExposed \/ HandleUser \/ DrainRequest
              \/ RequestsDrained \/ DrainClose \/ ClosesDrained \/ EndBatch
       PROVE  WakeDue'
  <2>1. mpc' \notin {"init", "wait", "top", "render"}
    BY <1>12 DEF TimesOut, HandleMotion, HandlePress, HandleRelease, HandlePlain,
                 HandleQuit, HandleExposed, HandleUser, DrainRequest, RequestsDrained,
                 DrainClose, ClosesDrained, EndBatch
  <2>2. QED
    BY <1>2, <2>1
<1>13. QED
  BY <1>3, <1>4, <1>5, <1>6, <1>7, <1>8, <1>9, <1>10, <1>11, <1>12
     DEF Next, Main, Carry, Begin

-----------------------------------------------------------------------------
(* Input. *)

Taken == [k : OsKinds, w : Ids \cup {NoWindow}]

InputTyped == taken \in Seq(Taken) /\ given \in Seq(DOMAIN taken) /\ pending \in 0..Len(taken)

\* The places of a sequence and what it holds, as in the definitions above.
Holds(s, x) == \E i \in DOMAIN s : s[i] = x
Rising(s) == \A i, j \in DOMAIN s : i < j => s[i] < s[j]

\* Appending what is above all there is keeps a sequence rising.
LEMMA RisingAppended ==
    ASSUME NEW S \in SUBSET Nat, NEW s \in Seq(S), Rising(s), NEW x \in S,
           \A i \in DOMAIN s : s[i] < x
    PROVE  Rising(Append(s, x))
<1> SUFFICES ASSUME NEW i \in DOMAIN Append(s, x), NEW j \in DOMAIN Append(s, x), i < j
             PROVE  Append(s, x)[i] < Append(s, x)[j]
  BY DEF Rising
<1>1. /\ i \in 1..(Len(s) + 1) /\ j \in 1..(Len(s) + 1) /\ Len(s) \in Nat
      /\ Len(Append(s, x)) = Len(s) + 1 /\ DOMAIN s = 1..Len(s)
  BY Appended, Elements
<1>2. i \in DOMAIN s /\ Append(s, x)[i] = s[i]
  BY <1>1, Appended
<1>3. CASE j \in DOMAIN s
  BY <1>2, <1>3, Appended DEF Rising
<1>4. CASE j = Len(s) + 1
  BY <1>2, <1>4, Appended
<1>5. QED
  BY <1>1, <1>3, <1>4

LEMMA HoldsAppended ==
    ASSUME NEW S, NEW s \in Seq(S), NEW x \in S
    PROVE  Holds(Append(s, x), x) /\ \A y : Holds(s, y) => Holds(Append(s, x), y)
<1>1. Holds(Append(s, x), x)
  <2>1. Append(s, x)[Len(s) + 1] = x /\ Len(s) + 1 \in DOMAIN Append(s, x)
    BY Appended
  <2>2. QED
    BY <2>1 DEF Holds
<1>2. ASSUME NEW y, Holds(s, y) PROVE Holds(Append(s, x), y)
  <2>1. PICK i \in DOMAIN s : s[i] = y
    BY <1>2 DEF Holds
  <2>2. i \in DOMAIN Append(s, x) /\ Append(s, x)[i] = y
    BY <2>1, Appended
  <2>3. QED
    BY <2>2 DEF Holds
<1>3. QED
  BY <1>1, <1>2

\* What was given becomes f by a flush before event e of window w, or stays.
FlushOutcome(f, e, w) ==
    \/ f = given /\ (pending # 0 => e.k = "motion" /\ taken[pending].w = w)
    \/ f # given /\ Holds(f, pending)

\* A flush passes the buffered motion on, behind all that was passed on before.
LEMMA FlushedIs ==
    ASSUME InputTyped, InputKept, NEW e, NEW w
    PROVE  /\ Flushed(e, w) \in Seq(DOMAIN taken) /\ Rising(Flushed(e, w))
           /\ \A x : Holds(given, x) => Holds(Flushed(e, w), x)
           /\ FlushOutcome(Flushed(e, w), e, w)
<1>1. /\ taken \in Seq(Taken) /\ given \in Seq(DOMAIN taken) /\ pending \in 0..Len(taken)
      /\ DOMAIN taken = 1..Len(taken) /\ DOMAIN taken \subseteq Nat /\ Len(taken) \in Nat
  BY Elements DEF InputTyped
<1>2. Rising(given)
  BY DEF InputKept, GivenInOrder, Rising
<1>3. CASE pending # 0 /\ (e.k # "motion" \/ taken[pending].w # w)
  <2>1. Flushed(e, w) = Append(given, pending)
    BY <1>3 DEF Flushed
  <2>2. pending \in DOMAIN taken
    BY <1>1, <1>3
  <2>3. \A i \in DOMAIN given : given[i] < pending
    BY <1>3 DEF InputKept, MotionLast
  <2>4. Rising(Append(given, pending))
    BY <1>1, <1>2, <2>2, <2>3, RisingAppended
  <2>5. /\ Append(given, pending) \in Seq(DOMAIN taken)
        /\ Len(Append(given, pending)) = Len(given) + 1 /\ Len(given) \in Nat
    BY <1>1, <2>2, Appended, Elements
  <2>6. Append(given, pending) # given
    BY <2>5
  <2>7. /\ Holds(Append(given, pending), pending)
        /\ \A x : Holds(given, x) => Holds(Append(given, pending), x)
    BY <1>1, <2>2, HoldsAppended
  <2>8. QED
    BY <2>1, <2>4, <2>5, <2>6, <2>7 DEF FlushOutcome
<1>4. CASE ~(pending # 0 /\ (e.k # "motion" \/ taken[pending].w # w))
  <2>1. Flushed(e, w) = given
    BY <1>4 DEF Flushed
  <2>2. QED
    BY <1>1, <1>2, <1>4, <2>1 DEF FlushOutcome
<1>5. QED
  BY <1>3, <1>4

\* Taking one more input: what there was is where it was.
LEMMA TakeDoes ==
    ASSUME InputTyped, NEW k \in OsKinds, NEW w \in Ids \cup {NoWindow}
    PROVE  /\ Take(k, w) \in Seq(Taken) /\ DOMAIN Take(k, w) = 1..(Len(taken) + 1)
           /\ Len(Take(k, w)) = Len(taken) + 1 /\ Len(taken) \in Nat
           /\ DOMAIN taken = 1..Len(taken)
           /\ \A i \in 1..Len(taken) : Take(k, w)[i] = taken[i]
           /\ Take(k, w)[Len(taken) + 1].k = k /\ Take(k, w)[Len(taken) + 1].w = w
<1>1. taken \in Seq(Taken) /\ [k |-> k, w |-> w] \in Taken
  BY DEF InputTyped, Taken
<1>2. /\ Append(taken, [k |-> k, w |-> w]) \in Seq(Taken)
      /\ Len(Append(taken, [k |-> k, w |-> w])) = Len(taken) + 1
      /\ \A i \in DOMAIN taken : Append(taken, [k |-> k, w |-> w])[i] = taken[i]
      /\ Append(taken, [k |-> k, w |-> w])[Len(taken) + 1] = [k |-> k, w |-> w]
  BY <1>1, Appended
<1>3. Len(taken) \in Nat /\ DOMAIN taken = 1..Len(taken)
  BY <1>1, Elements
<1>4. QED
  BY <1>2, <1>3, Elements DEF Take

LEMMA DeliverKeeps ==
    ASSUME InputTyped, InputKept, NEW k \in OsKinds, NEW w \in Ids \cup {NoWindow},
           NEW e, e.k # "motion", Deliver(k, w, e)
    PROVE  InputTyped' /\ InputKept'
<1> DEFINE f == Flushed(e, w)
           n == Len(taken) + 1
<1>1. /\ taken' = Take(k, w) /\ given' = Append(f, n) /\ pending' = 0
  BY DEF Deliver
<1>2. /\ f \in Seq(DOMAIN taken) /\ Rising(f)
      /\ \A x : Holds(given, x) => Holds(f, x)
      /\ pending # 0 => Holds(f, pending)
  <2>1. f \in Seq(DOMAIN taken) /\ Rising(f) /\ \A x : Holds(given, x) => Holds(f, x)
    BY FlushedIs
  <2>2. FlushOutcome(f, e, w)
    BY FlushedIs
  <2>3. QED
    BY <2>1, <2>2 DEF FlushOutcome
<1>3. /\ taken' \in Seq(Taken) /\ DOMAIN taken' = 1..n /\ Len(taken') = n
      /\ Len(taken) \in Nat /\ DOMAIN taken = 1..Len(taken)
      /\ \A i \in 1..Len(taken) : taken'[i] = taken[i]
  BY <1>1, TakeDoes
<1> HIDE DEF f
<1>4. n \in Nat /\ n \in 1..n /\ 1..n \subseteq Nat /\ DOMAIN taken \subseteq 1..n /\ n \notin DOMAIN taken
  BY <1>3
<1>5. f \in Seq(1..n) /\ \A i \in DOMAIN f : f[i] < n
  <2>1. \A i \in DOMAIN f : f[i] \in DOMAIN taken
    BY <1>2, Elements
  <2>2. QED
    BY <1>2, <1>3, <1>4, <2>1, SeqGrows
<1> HIDE DEF n
<1>6. given' \in Seq(1..n) /\ Rising(given')
  BY <1>1, <1>2, <1>4, <1>5, Appended, RisingAppended
<1>7. InputTyped'
  BY <1>1, <1>3, <1>4, <1>6 DEF InputTyped
<1>8. Holds(given', n) /\ \A x : Holds(f, x) => Holds(given', x)
  BY <1>1, <1>4, <1>5, HoldsAppended
<1>9. ASSUME NEW i \in DOMAIN taken' PROVE Accounted(i)'
  <2>1. CASE i = n
    BY <1>8, <2>1 DEF Accounted, Holds
  <2>2. CASE i \in DOMAIN taken /\ i = pending
    <3>1. i # 0
      BY <1>3, <2>2
    <3>2. Holds(given', i)
      BY <1>2, <1>8, <2>2, <3>1
    <3>3. QED
      BY <3>2 DEF Accounted, Holds
  <2>3. CASE i \in DOMAIN taken /\ Holds(given, i)
    <3>1. Holds(given', i)
      BY <1>2, <1>8, <2>3
    <3>2. QED
      BY <3>1 DEF Accounted, Holds
  <2>4. ASSUME i \in DOMAIN taken, i + 1 \in DOMAIN taken,
               taken[i].k = "motion", taken[i+1].k = "motion", taken[i].w = taken[i+1].w
        PROVE  Accounted(i)'
    <3>1. taken'[i] = taken[i] /\ taken'[i + 1] = taken[i + 1] /\ i + 1 \in DOMAIN taken'
      BY <1>3, <1>4, <2>4
    <3>2. QED
      BY <2>4, <3>1 DEF Accounted
  <2>5. i = n \/ i \in DOMAIN taken
    BY <1>3 DEF n
  <2>6. QED
    BY <2>1, <2>2, <2>3, <2>4, <2>5 DEF InputKept, AllAccounted, Accounted, Holds
<1>10. QED
  BY <1>1, <1>6, <1>7, <1>9 DEF InputKept, MotionLast, GivenInOrder, Rising, AllAccounted

LEMMA SwallowKeeps ==
    ASSUME InputTyped, InputKept, NEW e, NEW w, Swallow(e, w),
           mpc' = "batch" \/ e.k # "motion"
    PROVE  InputTyped' /\ InputKept'
<1> DEFINE f == Flushed(e, w)
<1>1. /\ taken' = taken /\ given' = f /\ pending' = IF f = given THEN pending ELSE 0
  BY DEF Swallow
<1>2. f \in Seq(DOMAIN taken) /\ Rising(f) /\ \A x : Holds(given, x) => Holds(f, x)
  BY FlushedIs
<1>3. \/ f = given /\ (pending # 0 => e.k = "motion" /\ taken[pending].w = w)
      \/ f # given /\ Holds(f, pending)
  <2>1. FlushOutcome(f, e, w)
    BY FlushedIs
  <2>2. QED
    BY <2>1 DEF FlushOutcome
<1> HIDE DEF f
<1>4. InputTyped'
  <2>1. 0 \in 0..Len(taken) /\ pending \in 0..Len(taken)
    BY Elements DEF InputTyped
  <2>2. QED
    BY <1>1, <1>2, <2>1 DEF InputTyped
<1>5. MotionLast'
  BY <1>1, <1>3 DEF InputKept, MotionLast
<1>6. ASSUME NEW i \in DOMAIN taken' PROVE Accounted(i)'
  <2>1. Accounted(i)
    BY <1>1, <1>6 DEF InputKept, AllAccounted
  <2>2. CASE i = pending
    <3>1. i = pending' \/ Holds(given', i)
      BY <1>1, <1>3, <2>2
    <3>2. QED
      BY <3>1 DEF Accounted, Holds
  <2>3. CASE Holds(given, i)
    <3>1. Holds(given', i)
      BY <1>1, <1>2, <2>3
    <3>2. QED
      BY <3>1 DEF Accounted, Holds
  <2>4. QED
    BY <1>1, <2>1, <2>2, <2>3 DEF Accounted, Holds
<1>7. QED
  BY <1>1, <1>2, <1>4, <1>5, <1>6 DEF InputKept, GivenInOrder, Rising, AllAccounted

\* A motion for the application is buffered; one of its own window is dropped.
LEMMA MotionKeeps ==
    ASSUME InputTyped, InputKept, NEW w \in Ids \cup {NoWindow}, NEW e, e.k = "motion",
           taken' = Take("motion", w), given' = Flushed(e, w),
           pending' = Len(taken) + 1, mpc' = "batch"
    PROVE  InputTyped' /\ InputKept'
<1> DEFINE f == Flushed(e, w)
           n == Len(taken) + 1
<1>0. "motion" \in OsKinds
  BY DEF OsKinds
<1>1. /\ taken' \in Seq(Taken) /\ DOMAIN taken' = 1..n /\ Len(taken') = n
      /\ Len(taken) \in Nat /\ DOMAIN taken = 1..Len(taken)
      /\ \A i \in 1..Len(taken) : taken'[i] = taken[i]
      /\ taken'[n].k = "motion" /\ taken'[n].w = w
  BY <1>0, TakeDoes
<1>2. f \in Seq(DOMAIN taken) /\ Rising(f) /\ \A x : Holds(given, x) => Holds(f, x)
  BY FlushedIs
<1>3. \/ f = given /\ (pending # 0 => e.k = "motion" /\ taken[pending].w = w)
      \/ f # given /\ Holds(f, pending)
  <2>1. FlushOutcome(f, e, w)
    BY FlushedIs
  <2>2. QED
    BY <2>1 DEF FlushOutcome
<1>4. given' = f /\ pending' = n
  OBVIOUS
<1> HIDE DEF f
<1>5. /\ n \in Nat /\ n \in 1..n /\ DOMAIN taken \subseteq 1..n /\ n \in 0..n
      /\ \A i \in DOMAIN taken : i < n /\ i # 0
  BY <1>1
<1>6. f \in Seq(1..n) /\ \A i \in DOMAIN f : f[i] < n
  <2>1. \A i \in DOMAIN f : f[i] \in DOMAIN taken
    BY <1>2, Elements
  <2>2. f \in Seq(1..n)
    BY <1>2, <1>5, SeqGrows
  <2>3. QED
    BY <1>5, <2>1, <2>2
<1>7. pending # 0 => pending = Len(taken) /\ taken[pending].k = "motion"
  BY DEF InputKept, MotionLast
<1>12. \A i \in DOMAIN taken' : i = n \/ i \in DOMAIN taken
  BY <1>1
<1>13. n = Len(taken) + 1
  OBVIOUS
<1> HIDE DEF n
<1>8. InputTyped'
  BY <1>1, <1>4, <1>5, <1>6 DEF InputTyped
<1>9. MotionLast'
  BY <1>1, <1>4, <1>6 DEF MotionLast
<1>10. ASSUME NEW i \in DOMAIN taken' PROVE Accounted(i)'
  <2>1. CASE i = n
    BY <1>4, <2>1 DEF Accounted
  <2>2. CASE i \in DOMAIN taken /\ i = pending /\ Holds(f, i)
    BY <1>4, <2>2 DEF Accounted, Holds
  <2>3. CASE i \in DOMAIN taken /\ i = pending /\ f = given
    <3>1. i # 0 /\ i = Len(taken) /\ taken[i].k = "motion" /\ taken[i].w = w
      BY <1>3, <1>5, <1>7, <2>3
    <3>2. i + 1 = n /\ n \in DOMAIN taken' /\ taken'[i] = taken[i]
      BY <1>1, <1>5, <1>13, <2>3, <3>1
    <3>3. QED
      BY <1>1, <3>1, <3>2 DEF Accounted
  <2>4. CASE i \in DOMAIN taken /\ Holds(given, i)
    <3>1. Holds(given', i)
      BY <1>2, <1>4, <2>4
    <3>2. QED
      BY <3>1 DEF Accounted, Holds
  <2>5. ASSUME i \in DOMAIN taken, i + 1 \in DOMAIN taken,
               taken[i].k = "motion", taken[i+1].k = "motion", taken[i].w = taken[i+1].w
        PROVE  Accounted(i)'
    <3>1. taken'[i] = taken[i] /\ taken'[i + 1] = taken[i + 1] /\ i + 1 \in DOMAIN taken'
      BY <1>1, <1>5, <2>5
    <3>2. QED
      BY <2>5, <3>1 DEF Accounted
  <2>6. QED
    BY <1>3, <1>12, <2>1, <2>2, <2>3, <2>4, <2>5
       DEF InputKept, AllAccounted, Accounted, Holds
<1>11. QED
  BY <1>2, <1>4, <1>8, <1>9, <1>10 DEF InputKept, GivenInOrder, Rising, AllAccounted

LEMMA EndBatchKeeps ==
    ASSUME InputTyped, InputKept, EndBatch
    PROVE  InputTyped' /\ InputKept'
<1>1. /\ taken' = taken /\ pending' = 0
      /\ given' = IF pending # 0 THEN Append(given, pending) ELSE given
  BY DEF EndBatch
<1>2. /\ taken \in Seq(Taken) /\ given \in Seq(DOMAIN taken) /\ pending \in 0..Len(taken)
      /\ DOMAIN taken = 1..Len(taken) /\ DOMAIN taken \subseteq Nat /\ Len(taken) \in Nat
  BY Elements DEF InputTyped
<1>3. /\ given' \in Seq(DOMAIN taken) /\ Rising(given')
      /\ \A x : Holds(given, x) => Holds(given', x)
      /\ pending # 0 => Holds(given', pending)
  <2>1. CASE pending = 0
    BY <1>1, <1>2, <2>1 DEF InputKept, GivenInOrder, Rising
  <2>2. CASE pending # 0
    <3>1. pending \in DOMAIN taken /\ \A i \in DOMAIN given : given[i] < pending
      BY <1>2, <2>2 DEF InputKept, MotionLast
    <3>2. Rising(given)
      BY DEF InputKept, GivenInOrder, Rising
    <3>3. /\ Append(given, pending) \in Seq(DOMAIN taken)
          /\ Rising(Append(given, pending))
      BY <1>2, <3>1, <3>2, Appended, RisingAppended
    <3>4. /\ \A x : Holds(given, x) => Holds(Append(given, pending), x)
          /\ Holds(Append(given, pending), pending)
      BY <1>2, <3>1, HoldsAppended
    <3>5. QED
      BY <1>1, <2>2, <3>3, <3>4
  <2>3. QED
    BY <2>1, <2>2
<1>4. ASSUME NEW i \in DOMAIN taken PROVE Accounted(i)'
  <2>1. Accounted(i)
    BY DEF InputKept, AllAccounted
  <2>2. i # 0
    BY <1>2
  <2>3. CASE Holds(given, i) \/ i = pending
    <3>1. Holds(given', i)
      BY <1>3, <2>2, <2>3
    <3>2. QED
      BY <3>1 DEF Accounted, Holds
  <2>4. QED
    BY <1>1, <2>1, <2>3 DEF Accounted, Holds
<1>5. 0 \in 0..Len(taken)
  BY <1>2
<1>6. QED
  BY <1>1, <1>2, <1>3, <1>4, <1>5
     DEF InputTyped, InputKept, MotionLast, GivenInOrder, Rising, AllAccounted

\* The event at hand, and the window it is for.
LEMMA EventTypes ==
    ASSUME ConstantsAssumption, TypeOK, TakesOne
    PROVE  /\ E \in Event /\ Tail(queue) \in Seq(Event)
           /\ Len(Tail(queue)) <= setup.maxQueue
           /\ Resolve(E) \in windows \cup {pressed, NoWindow}
           /\ Resolve(E) \in Ids \cup {NoWindow}
<1>1. queue \in Seq(Event) /\ queue # <<>> /\ Len(queue) <= setup.maxQueue
  BY DEF TakesOne, TypeOK
<1>2. setup.maxQueue \in Nat
  BY SetupTypes
<1>3. E \in Event /\ Tail(queue) \in Seq(Event) /\ Len(Tail(queue)) <= setup.maxQueue
  BY <1>1, <1>2, HeadTail DEF E
<1>4. Resolve(E) \in windows \cup {pressed, NoWindow}
  <2>1. CASE Cardinality(windows) = 1
    <3>1. windows # {}
      BY <2>1, FS_EmptySet
    <3>2. (CHOOSE w \in windows : TRUE) \in windows
      BY <3>1
    <3>3. QED
      BY <3>2 DEF Resolve
  <2>2. CASE Cardinality(windows) # 1
    BY <2>2 DEF Resolve
  <2>3. QED
    BY <2>1, <2>2
<1>5. QED
  BY <1>3, <1>4 DEF TypeOK

LEMMA InputStep ==
    ASSUME ConstantsAssumption, TypeOK, InputKept, [Next]_vars
    PROVE  InputTyped' /\ InputKept'
<1>1. InputTyped
  BY DEF TypeOK, InputTyped, Taken
<1>2. CASE HandleMotion
  <2>1. E.k = "motion" /\ TakesOne /\ mpc' = "batch"
    BY <1>2 DEF HandleMotion, Handling
  <2>2. Resolve(E) \in Ids \cup {NoWindow}
    BY <2>1, EventTypes
  <2>3. CASE Swallow(E, Resolve(E))
    BY <1>1, <2>1, <2>3, SwallowKeeps
  <2>4. CASE /\ taken' = Take("motion", Resolve(E)) /\ given' = Flushed(E, Resolve(E))
             /\ pending' = Len(taken) + 1
    BY <1>1, <2>1, <2>2, <2>4, MotionKeeps
  <2>5. QED
    BY <1>2, <2>3, <2>4 DEF HandleMotion
<1>3. CASE HandlePress
  <2>1. E.k = "press" /\ TakesOne
    BY <1>3 DEF HandlePress, Handling
  <2>2. Resolve(E) \in Ids \cup {NoWindow} /\ "press" \in OsKinds /\ "close" \in OsKinds
    BY <2>1, EventTypes DEF OsKinds
  <2>3. \/ Deliver("press", Resolve(E), E) \/ Deliver("close", Resolve(E), E)
        \/ Swallow(E, Resolve(E))
    BY <1>3 DEF HandlePress
  <2>4. QED
    BY <1>1, <2>1, <2>2, <2>3, DeliverKeeps, SwallowKeeps
<1>4. CASE HandleRelease
  <2>1. E.k = "release" /\ TakesOne
    BY <1>4 DEF HandleRelease, Handling
  <2>2. Resolve(E) \in Ids \cup {NoWindow} /\ "release" \in OsKinds
    BY <2>1, EventTypes DEF OsKinds
  <2>3. Deliver("release", Resolve(E), E) \/ Swallow(E, Resolve(E))
    BY <1>4 DEF HandleRelease
  <2>4. QED
    BY <1>1, <2>1, <2>2, <2>3, DeliverKeeps, SwallowKeeps
<1>5. CASE HandlePlain
  <2>1. E.k \in {"key", "close"} /\ TakesOne /\ Deliver(E.k, Resolve(E), E)
    BY <1>5 DEF HandlePlain, Handling
  <2>2. Resolve(E) \in Ids \cup {NoWindow} /\ E.k \in OsKinds /\ E.k # "motion"
    BY <2>1, EventTypes DEF OsKinds
  <2>3. QED
    BY <1>1, <2>1, <2>2, DeliverKeeps
<1>6. CASE HandleQuit
  <2>1. E.k = "quit" /\ TakesOne /\ Deliver("close", Resolve(E), E)
    BY <1>6 DEF HandleQuit, Handling
  <2>2. Resolve(E) \in Ids \cup {NoWindow} /\ "close" \in OsKinds /\ E.k # "motion"
    BY <2>1, EventTypes DEF OsKinds
  <2>3. QED
    BY <1>1, <2>1, <2>2, DeliverKeeps
<1>7. CASE HandleExposed
  BY <1>1, <1>7, SwallowKeeps DEF HandleExposed, Handling
<1>8. CASE HandleUser
  BY <1>1, <1>8, SwallowKeeps DEF HandleUser, Handling
<1>9. CASE EndBatch
  BY <1>1, <1>9, EndBatchKeeps
<1>10. CASE UNCHANGED <<taken, given, pending>> /\ (mpc = "batch" => mpc' = "batch")
  BY <1>1, <1>10
     DEF InputTyped, InputKept, MotionLast, GivenInOrder, AllAccounted, Accounted
<1>11. QED
  BY <1>2, <1>3, <1>4, <1>5, <1>6, <1>7, <1>8, <1>9, <1>10, InputVars

-----------------------------------------------------------------------------
(* Type correctness. *)

LEMMA ControlTyped ==
    ASSUME ConstantsAssumption, TypeOK, [Next]_vars
    PROVE  /\ setup' = setup /\ setup' \in Setups
           /\ running' \in BOOLEAN /\ due' \in BOOLEAN /\ wakeLost' \in BOOLEAN
           /\ mpc' \in {"init", "top", "wait", "timed", "batch", "requests", "closes",
                        "check", "render", "finalRequests", "finalCloses", "returned"}
           /\ app' \in {"boot", "idle", "wake", "wakeWait", "wait"}
           /\ done' \in BOOLEAN
<1> USE DEF TypeOK
<1>1. setup' = setup
  BY DEF Next, vars, Main, Os, Carry, Begin, noted, HandleMotion, HandlePress,
         HandleRelease, HandlePlain, HandleQuit, HandleExposed, HandleUser,
         RequestsDrained, ClosesDrained, EndBatch, NotDue, FrameTick, OsEvent, WaitReady,
         CloseWindow, GivesUp, Wake, Quit, DrainRequest, Answered, RequestWindow, Ready,
         ChooseWait, TimesOut, DrainClose, Submit, Collect, Render
<1>2. running' \in BOOLEAN /\ due' \in BOOLEAN /\ wakeLost' \in BOOLEAN /\ done' \in BOOLEAN
  BY ZenonT(30) DEF Next, vars, Main, Os, Carry, Begin, noted, request, HandleMotion, HandlePress,
         HandleRelease, HandlePlain, HandleQuit, HandleExposed, HandleUser,
         RequestsDrained, ClosesDrained, EndBatch, NotDue, FrameTick, OsEvent, WaitReady,
         CloseWindow, GivesUp, Wake, Quit, DrainRequest, Answered, RequestWindow, Ready,
         ChooseWait, TimesOut, DrainClose, Submit, Collect, Render
<1>3. mpc' \in {"init", "top", "wait", "timed", "batch", "requests", "closes",
               "check", "render", "finalRequests", "finalCloses", "returned"}
  BY DEF Next, vars, Main, Os, Carry, Begin, HandleMotion, HandlePress,
         HandleRelease, HandlePlain, HandleQuit, HandleExposed, HandleUser,
         RequestsDrained, ClosesDrained, EndBatch, NotDue, FrameTick, OsEvent, WaitReady,
         CloseWindow, GivesUp, Wake, Quit, DrainRequest, Answered, RequestWindow, Ready,
         ChooseWait, TimesOut, DrainClose, Submit, Collect, Render
<1>4. app' \in {"boot", "idle", "wake", "wakeWait", "wait"}
  BY DEF Next, vars, Main, Os, Carry, Begin, HandleMotion, HandlePress,
         HandleRelease, HandlePlain, HandleQuit, HandleExposed, HandleUser,
         RequestsDrained, ClosesDrained, EndBatch, NotDue, FrameTick, OsEvent, WaitReady,
         CloseWindow, GivesUp, Wake, Quit, DrainRequest, Answered, RequestWindow, Ready,
         ChooseWait, TimesOut, DrainClose, Submit, Collect, Render
<1>5. QED
  BY <1>1, <1>2, <1>3, <1>4

LEMMA QueueTyped ==
    ASSUME ConstantsAssumption, TypeOK, [Next]_vars
    PROVE  queue' \in Seq(Event) /\ Len(queue') <= setup.maxQueue
<1>1. CASE Os
  <2>1. PICK k \in OsKinds, w \in windows \cup {NoWindow} :
           OsEvent(k, w) /\ [k |-> k, w |-> w] \in Event
    BY <1>1, OsEventPushes
  <2>2. QED
    BY <2>1, PushFills DEF OsEvent
<1>2. CASE Wake
  <2>1. User \in Event
    BY DEF User, Event
  <2>2. QED
    BY <1>2, <2>1, PushFills DEF Wake
<1>3. CASE /\ TakesOne /\ queue' = Tail(queue)
  BY <1>3, EventTypes
<1>4. CASE queue' = queue
  BY <1>4 DEF TypeOK
<1>5. Os \/ Wake \/ (TakesOne /\ queue' = Tail(queue)) \/ queue' = queue
  BY DEF Next, vars, Main, Carry, Begin, Handling, HandleMotion, HandlePress,
         HandleRelease, HandlePlain, HandleQuit, HandleExposed, HandleUser,
         RequestsDrained, ClosesDrained, EndBatch, NotDue, FrameTick, WaitReady,
         CloseWindow, GivesUp, Quit, DrainRequest, Answered, RequestWindow, Ready,
         ChooseWait, TimesOut, DrainClose, Submit, Collect, Render
<1>6. QED
  BY <1>1, <1>2, <1>3, <1>4, <1>5

LEMMA RequestsTyped ==
    ASSUME ConstantsAssumption, TypeOK, RequestsInOrder, [Next]_vars
    PROVE  /\ asked' \in 0..setup.maxRequests /\ current' \in 0..asked'
           /\ requests' \in Seq(1..setup.maxRequests)
<1>1. /\ setup.maxRequests \in Nat /\ asked \in 0..setup.maxRequests /\ current \in 0..asked
      /\ requests \in Seq(1..setup.maxRequests)
  BY SetupTypes DEF TypeOK
<1>2. CASE RequestWindow
  <2>1. /\ asked < setup.maxRequests /\ asked' = asked + 1 /\ current' = asked + 1
        /\ requests' = Append(requests, asked + 1)
    BY <1>2 DEF RequestWindow
  <2>2. asked + 1 \in 1..setup.maxRequests
    BY <1>1, <2>1
  <2>3. requests' \in Seq(1..setup.maxRequests)
    BY <1>1, <2>1, <2>2, Appended
  <2>4. QED
    BY <1>1, <2>1, <2>2, <2>3
<1>3. CASE ~RequestWindow
  <2>1. asked' = asked /\ (requests' = requests \/ (requests # <<>> /\ requests' = Tail(requests)))
    <3>1. CASE DrainRequest
      BY <3>1 DEF DrainRequest, bounds
    <3>2. CASE UNCHANGED <<requests, asked, nextId>>
      BY <3>2
    <3>3. QED
      BY <1>3, <3>1, <3>2, RequestVars
  <2>2. current' = current \/ current' = 0
    BY <1>3, CallerVars DEF DrainRequest, Answered, GivesUp
  <2>3. requests' \in Seq(1..setup.maxRequests)
    BY <1>1, <2>1, HeadTail
  <2>4. current' \in 0..asked
    BY <1>1, <2>2
  <2>5. QED
    BY <1>1, <2>1, <2>3, <2>4
<1>4. QED
  BY <1>2, <1>3

LEMMA WindowsTyped ==
    ASSUME ConstantsAssumption, TypeOK, RequestsInOrder, [Next]_vars
    PROVE  /\ windows' \subseteq Ids /\ nextId' \in Ids /\ owned' \subseteq Ids
           /\ result' \in Ids \cup {NoWindow} /\ closes' \in Seq(Ids)
<1>1. /\ windows \subseteq Ids /\ nextId \in Ids /\ owned \subseteq Ids
      /\ result \in Ids \cup {NoWindow} /\ closes \in Seq(Ids)
      /\ requests \in Seq(Nat)
  BY Numbers DEF TypeOK
<1>2. CASE DrainRequest
  <2>1. requests # <<>>
    BY <1>2 DEF DrainRequest
  <2>2. Len(requests) \in Nat \ {0}
    BY <1>1, <2>1, HeadTail
  <2>3. nextId + Len(requests) <= MaxWindows /\ nextId \in Nat \ {0} /\ MaxWindows \in Nat
    BY <1>1, SetupTypes DEF RequestsInOrder, Ids
  <2>4. nextId + 1 \in Ids
    BY <2>2, <2>3 DEF Ids
  <2>5. /\ nextId' = nextId \/ nextId' = nextId + 1
        /\ windows' \subseteq windows \cup {nextId'}
        /\ result' \in {result, nextId', NoWindow}
        /\ owned' = owned /\ closes' = closes
    BY <1>2 DEF DrainRequest
  <2>6. QED
    BY <1>1, <2>4, <2>5
<1>3. CASE Answered
  BY <1>1, <1>3 DEF Answered, surface
<1>4. CASE DrainClose
  <2>1. closes # <<>> /\ closes' = Tail(closes)
    BY <1>4 DEF DrainClose
  <2>2. closes' \in Seq(Ids)
    BY <1>1, <2>1, HeadTail
  <2>3. QED
    BY <1>1, <1>4, <2>2 DEF DrainClose
<1>5. ASSUME NEW w \in owned, CloseWindow(w)
      PROVE  /\ windows' \subseteq Ids /\ nextId' \in Ids /\ owned' \subseteq Ids
             /\ result' \in Ids \cup {NoWindow} /\ closes' \in Seq(Ids)
  <2>1. closes' \in Seq(Ids)
    BY <1>1, <1>5, Appended DEF CloseWindow
  <2>2. QED
    BY <1>1, <1>5, <2>1 DEF CloseWindow, surface
<1>6. CASE UNCHANGED <<windows, nextId, closes, owned, result>>
  BY <1>1, <1>6
<1>7. QED
  BY <1>2, <1>3, <1>4, <1>5, <1>6, WindowVars

LEMMA FramesTyped ==
    ASSUME ConstantsAssumption, TypeOK, [Next]_vars
    PROVE  /\ snap' \in [Ids -> 0..MaxVersion] /\ last' \in [Ids -> 0..MaxVersion]
           /\ screen' \in [Ids -> 0..MaxVersion] /\ version' \in 0..setup.maxFrames
<1>1. /\ snap \in [Ids -> 0..MaxVersion] /\ last \in [Ids -> 0..MaxVersion]
      /\ screen \in [Ids -> 0..MaxVersion] /\ version \in 0..setup.maxFrames
      /\ MaxVersion \in Nat /\ setup.maxFrames \in 0..MaxVersion /\ 0 \in 0..MaxVersion
  <2>1. MaxVersion \in Nat /\ setup.maxFrames \in 0..MaxVersion
    BY SetupTypes
  <2>2. 0 \in 0..MaxVersion
    BY <2>1
  <2>3. QED
    BY <2>1, <2>2 DEF TypeOK
<1>2. CASE DrainClose
  BY <1>1, <1>2 DEF DrainClose, bounds
<1>3. CASE Collect
  BY <1>1, <1>3 DEF Collect, bounds
<1>4. CASE Render
  BY <1>1, <1>4 DEF Render, bounds
<1>5. ASSUME NEW w \in owned, Submit(w)
      PROVE  /\ snap' \in [Ids -> 0..MaxVersion] /\ last' \in [Ids -> 0..MaxVersion]
             /\ screen' \in [Ids -> 0..MaxVersion] /\ version' \in 0..setup.maxFrames
  <2>1. /\ version < setup.maxFrames /\ version' = version + 1 /\ UNCHANGED <<last, screen>>
        /\ snap' = snap \/ snap' = [snap EXCEPT ![w] = version + 1]
    BY <1>5 DEF Submit
  <2>2. version + 1 \in 0..setup.maxFrames /\ version + 1 \in 0..MaxVersion
    BY <1>1, <2>1
  <2>3. QED
    BY <1>1, <2>1, <2>2
<1>6. CASE UNCHANGED <<snap, last, screen, toRender, version>>
  BY <1>1, <1>6
<1>7. QED
  BY <1>2, <1>3, <1>4, <1>5, <1>6, FrameVars

LEMMA WindowSetsTyped ==
    ASSUME ConstantsAssumption, TypeOK, FramesFollow, [Next]_vars
    PROVE  /\ toRender' \subseteq windows' /\ resizing' \subseteq windows'
           /\ force' \subseteq Ids \cup {NoWindow} /\ pressed' \in Ids \cup {NoWindow}
<1>1. /\ toRender \subseteq windows /\ resizing \subseteq windows /\ windows \subseteq Ids
      /\ force \subseteq Ids \cup {NoWindow} /\ pressed \in Ids \cup {NoWindow}
  BY DEF TypeOK
<1>2. CASE HandlePress
  <2>1. PICK zone \in Zones(Resolve(E)) :
           resizing' = IF zone = "edge" THEN resizing \cup {Resolve(E)} ELSE resizing
    BY <1>2 DEF HandlePress
  <2>2. zone = "edge" => Resolve(E) \in windows
    BY <2>1 DEF Zones
  <2>3. Resolve(E) \in Ids \cup {NoWindow} /\ pressed' = Resolve(E)
    BY <1>2, EventTypes DEF HandlePress, Handling
  <2>4. UNCHANGED <<toRender, windows, force>>
    BY <1>2 DEF HandlePress, surface
  <2>5. QED
    BY <1>1, <2>1, <2>2, <2>3, <2>4
<1>3. CASE HandleRelease
  BY <1>1, <1>3 DEF HandleRelease, surface, NoWindow
<1>4. CASE HandleExposed
  <2>1. Resolve(E) \in Ids \cup {NoWindow}
    BY <1>4, EventTypes DEF HandleExposed, Handling
  <2>2. QED
    BY <1>1, <1>4, <2>1 DEF HandleExposed
<1>5. CASE DrainRequest
  BY <1>1, <1>5 DEF DrainRequest, input
<1>6. CASE DrainClose
  <2>1. mpc # "render"
    BY <1>6 DEF DrainClose
  <2>2. toRender = {}
    BY <2>1 DEF FramesFollow
  <2>3. QED
    BY <1>1, <1>6, <2>2 DEF DrainClose
<1>7. CASE Collect
  BY <1>1, <1>7 DEF Collect, input
<1>8. CASE Render
  BY <1>1, <1>8 DEF Render, input
<1>9. CASE UNCHANGED <<toRender, resizing, windows, force, pressed>>
  BY <1>1, <1>9
<1>10. \/ HandlePress \/ HandleRelease \/ HandleExposed \/ DrainRequest \/ DrainClose
       \/ Collect \/ Render \/ UNCHANGED <<toRender, resizing, windows, force, pressed>>
  BY DEF Next, vars, Main, Os, Carry, Begin, surface, input, HandleMotion, HandlePlain,
         HandleQuit, HandleUser, RequestsDrained, ClosesDrained, EndBatch, NotDue,
         FrameTick, OsEvent, WaitReady, CloseWindow, GivesUp, Wake, Quit, Answered,
         RequestWindow, Ready, ChooseWait, TimesOut, Submit
<1>11. QED
  BY <1>2, <1>3, <1>4, <1>5, <1>6, <1>7, <1>8, <1>9, <1>10

LEMMA OsEventsTyped ==
    ASSUME ConstantsAssumption, TypeOK, [Next]_vars
    PROVE  osEvents' \in 0..setup.maxOs
<1>1. osEvents \in 0..setup.maxOs /\ setup.maxOs \in Nat
  BY SetupTypes DEF TypeOK
<1>2. osEvents' = osEvents \/ (osEvents < setup.maxOs /\ osEvents' = osEvents + 1)
  BY DEF Next, vars, Main, Os, Carry, Begin, bounds, HandleMotion, HandlePress,
         HandleRelease, HandlePlain, HandleQuit, HandleExposed, HandleUser,
         RequestsDrained, ClosesDrained, EndBatch, NotDue, FrameTick, OsEvent, WaitReady,
         CloseWindow, GivesUp, Wake, Quit, DrainRequest, Answered, RequestWindow, Ready,
         ChooseWait, TimesOut, DrainClose, Submit, Collect, Render
<1>3. QED
  BY <1>1, <1>2

LEMMA TypeStep ==
    ASSUME ConstantsAssumption, TypeOK, RequestsInOrder, FramesFollow, InputKept,
           [Next]_vars
    PROVE  TypeOK'
<1>1. InputTyped'
  BY InputStep
<1>2. setup' = setup
  BY ControlTyped
<1>3. QED
  BY <1>1, <1>2, ControlTyped, QueueTyped, RequestsTyped, WindowsTyped, FramesTyped,
     WindowSetsTyped, OsEventsTyped DEF TypeOK, InputTyped, Taken

-----------------------------------------------------------------------------
(* The theorems. *)

LEMMA BackendInvInit ==
    ASSUME ConstantsAssumption, Init
    PROVE  BackendInv
<1> USE DEF Init
<1>1. setup \in Setup /\ MaxVersion \in Nat /\ MaxWindows \in Nat \ {0}
  BY DEF ConstantsAssumption
<1>2. Primary \in Ids /\ 0 \in 0..MaxVersion /\ 0 \in 0..setup.maxFrames /\ 0 \in 0..setup.maxOs
  BY <1>1 DEF Primary, Ids, Setup
<1>3. /\ 0 \in 0..setup.maxRequests /\ setup.maxQueue \in Nat /\ Len(<<>>) = 0
  BY <1>1 DEF Setup
<1>4. /\ <<>> \in Seq(Event) /\ <<>> \in Seq(1..setup.maxRequests) /\ <<>> \in Seq(Ids)
      /\ <<>> \in Seq([k : OsKinds, w : Ids \cup {NoWindow}]) /\ <<>> \in Seq(DOMAIN taken)
  BY EmptySeq
<1>5. TypeOK
  <2>1. /\ windows \subseteq Ids /\ nextId \in Ids /\ owned \subseteq Ids
        /\ snap \in [Ids -> 0..MaxVersion] /\ last \in [Ids -> 0..MaxVersion]
        /\ screen \in [Ids -> 0..MaxVersion]
    BY <1>2
  <2>2. /\ pending \in 0..Len(taken) /\ current \in 0..asked
        /\ Len(queue) <= setup.maxQueue
    BY <1>3
  <2>3. QED
    BY <1>2, <1>3, <1>4, <2>1, <2>2 DEF TypeOK, NoWindow
<1>6. DOMAIN <<>> = {}
  OBVIOUS
<1>7. RequestsInOrder /\ CallerWaits /\ WindowsOwned
  BY <1>1, <1>3, <1>6 DEF RequestsInOrder, CallerWaits, WindowsOwned, Primary, NoWindow
<1>8. FramesFollow /\ ClosedBlank /\ WakeDue /\ InputKept
  BY <1>6 DEF FramesFollow, ClosedBlank, WakeDue, Dirty, InputKept, MotionLast, GivenInOrder, AllAccounted
<1>9. QED
  BY <1>5, <1>7, <1>8 DEF BackendInv

\* The invariant is inductive: no step of either thread, of the OS or of time
\* breaks what crosses between them.  (software_backend.cpp)
THEOREM BackendInvariant == ASSUME ConstantsAssumption PROVE Spec => []BackendInv
<1>1. Init => BackendInv
  BY BackendInvInit
<1>2. BackendInv /\ [Next]_vars => BackendInv'
  BY TypeStep, RequestStep, CallerStep, WindowStep, FramesStep, BlankStep, WakeDueStep, InputStep
     DEF BackendInv
<1>3. QED
  BY <1>1, <1>2, PTL DEF Spec

\* Every variable keeps its type, and no more events are queued than SDL holds.
THEOREM BackendTypeCorrect == ASSUME ConstantsAssumption PROVE Spec => []TypeOK
<1>1. BackendInv => TypeOK
  BY DEF BackendInv
<1>2. QED
  BY <1>1, BackendInvariant, PTL

\* Input reaches the application in its order, and none is kept back when the
\* main thread sleeps.  (flush_pending_motion in run)
THEOREM InputInOrder == ASSUME ConstantsAssumption PROVE Spec => []InputOrder
<1>1. ASSUME BackendInv PROVE InputOrder
  <2>1. GivenInOrder /\ MotionLast /\ AllAccounted
    BY <1>1 DEF BackendInv, InputKept
  <2>2. ASSUME NEW i \in DOMAIN taken
        PROVE  \/ i \in ToSet(given) \cup {pending}
               \/ /\ i + 1 \in DOMAIN taken
                  /\ taken[i].k = "motion" /\ taken[i+1].k = "motion"
                  /\ taken[i].w = taken[i+1].w
    <3>1. Accounted(i)
      BY <2>1 DEF AllAccounted
    <3>2. Holds(given, i) => i \in ToSet(given)
      BY DEF Holds, ToSet
    <3>3. QED
      BY <3>1, <3>2 DEF Accounted, Holds
  <2>3. QED
    BY <2>1, <2>2 DEF InputOrder, GivenInOrder, MotionLast
<1>2. QED
  BY <1>1, BackendInvariant, PTL

\* A caller of request_window gets the window of its own call or none, however
\* late an earlier answer comes.  (request_window, drain_window_requests)
THEOREM OwnAnswers == ASSUME ConstantsAssumption PROVE Spec => []AnswersOwnRequest
<1>1. BackendInv => AnswersOwnRequest
  BY DEF BackendInv, CallerWaits, WindowsOwned, AnswersOwnRequest
<1>2. QED
  BY <1>1, BackendInvariant, PTL

\* When the main thread sleeps, every window shows its latest snapshot.  (submit,
\* wake, and the collection of dirty windows in run)
THEOREM FramesArrive == ASSUME ConstantsAssumption PROVE Spec => []NoFrameLost
<1>1. ASSUME BackendInv PROVE NoFrameLost
  <2> SUFFICES ASSUME Asleep, app # "wake", NEW w \in windows
               PROVE  screen[w] = snap[w] /\ w \notin force
    BY DEF NoFrameLost
  <2>1. WakeDue /\ FramesFollow /\ w \in Ids /\ mpc = "wait" /\ queue = <<>>
    BY <1>1 DEF BackendInv, TypeOK, Asleep
  <2>2. ~Dirty(w)
    BY <2>1 DEF WakeDue
  <2>3. last[w] = screen[w]
    BY <2>1 DEF FramesFollow
  <2>4. QED
    BY <2>2, <2>3 DEF Dirty
<1>2. QED
  BY <1>1, BackendInvariant, PTL

-----------------------------------------------------------------------------
(* The frame contract. *)

\* What the contract speaks of changes in six kinds of step.
LEMMA ContractVars ==
    ASSUME [Next]_vars
    PROVE  \/ DrainRequest \/ DrainClose \/ Render \/ \E w \in owned : Submit(w)
           \/ UNCHANGED <<windows, snap, screen>> /\ (running' = running \/ running' = FALSE)
BY DEF Next, vars, Main, Os, Carry, Begin, surface, input, request, bounds, noted,
       Ready, ChooseWait, TimesOut, HandleMotion, HandlePress, HandleRelease,
       HandlePlain, HandleQuit, HandleExposed, HandleUser, RequestsDrained,
       ClosesDrained, EndBatch, NotDue, FrameTick, OsEvent, WaitReady, CloseWindow,
       GivesUp, Wake, Quit, Collect, Answered, RequestWindow

LEMMA ContractStep ==
    ASSUME ConstantsAssumption, BackendInv, [Next]_vars
    PROVE  [FrameContract!Next]_FrameContract!vars
<1>1. /\ TypeOK /\ FramesFollow /\ WindowsOwned /\ ClosedBlank
      /\ windows \subseteq Ids /\ toRender \subseteq windows /\ running \in BOOLEAN
      /\ closes \in Seq(Ids)
  BY DEF BackendInv, TypeOK
<1>2. /\ snap \in [Ids -> Nat] /\ last \in [Ids -> Nat] /\ screen \in [Ids -> Nat]
      /\ nextId \in Nat /\ version \in Nat
  BY <1>1, Numbers
<1>3. TypeOK'
  BY <1>1, TypeStep DEF BackendInv
<1>4. CASE DrainRequest
  <2>1. UNCHANGED <<snap, screen, running>>
    BY <1>4 DEF DrainRequest
  <2>2. CASE running
    <3>1. windows' = windows \cup {nextId + 1} /\ nextId' = nextId + 1
      BY <1>4, <2>2 DEF DrainRequest
    <3>2. nextId + 1 \notin windows
      BY <1>1, <1>2 DEF WindowsOwned
    <3>3. nextId + 1 \in Ids
      BY <1>3, <3>1 DEF TypeOK
    <3>4. FrameContract!Open(nextId + 1)
      BY <2>1, <3>1, <3>2 DEF FrameContract!Open
    <3>5. QED
      BY <3>3, <3>4 DEF FrameContract!Next
  <2>3. CASE ~running
    <3>1. windows' = windows
      BY <1>4, <2>3 DEF DrainRequest
    <3>2. QED
      BY <2>1, <3>1 DEF FrameContract!vars
  <2>4. QED
    BY <2>2, <2>3
<1>5. CASE DrainClose
  <2> DEFINE c == Head(closes)
  <2>1. /\ windows' = windows \ {c} /\ snap' = [snap EXCEPT ![c] = 0]
        /\ screen' = [screen EXCEPT ![c] = 0] /\ running' = running /\ closes # <<>>
    BY <1>5 DEF DrainClose
  <2>2. c \in Ids
    BY <1>1, <2>1, HeadTail
  <2> HIDE DEF c
  <2>3. CASE c \in windows
    <3>1. FrameContract!Close(c)
      BY <2>1, <2>3 DEF FrameContract!Close
    <3>2. QED
      BY <2>2, <3>1 DEF FrameContract!Next
  <2>4. CASE c \notin windows
    <3>1. snap[c] = 0 /\ screen[c] <= last[c] /\ last[c] <= snap[c]
      BY <1>1, <2>2, <2>4 DEF ClosedBlank, FramesFollow
    <3>2. last[c] \in Nat /\ screen[c] \in Nat
      BY <1>2, <2>2
    <3>3. screen[c] = 0
      BY <3>1, <3>2
    <3>4. snap' = snap /\ screen' = screen
      BY <1>2, <2>1, <3>1, <3>3
    <3>5. windows' = windows
      BY <2>1, <2>4
    <3>6. QED
      BY <2>1, <3>4, <3>5 DEF FrameContract!vars
  <2>5. QED
    BY <2>3, <2>4
<1>6. CASE Render
  <2>1. /\ screen' = [w \in Ids |-> IF w \in toRender THEN last[w] ELSE screen[w]]
        /\ UNCHANGED <<windows, snap, running>>
    BY <1>6 DEF Render
  <2> DEFINE ws == {w \in Ids : screen'[w] # screen[w]}
  <2>2. screen' \in [Ids -> 0..MaxVersion]
    BY <1>3 DEF TypeOK
  <2>3. ASSUME NEW w \in ws
        PROVE  w \in windows /\ screen[w] < screen'[w] /\ screen'[w] <= snap[w]
    <3>1. w \in toRender /\ screen'[w] = last[w] /\ last[w] # screen[w] /\ w \in Ids
      BY <2>1
    <3>2. screen[w] <= last[w] /\ last[w] <= snap[w] /\ screen[w] \in Nat /\ last[w] \in Nat
      BY <1>1, <1>2, <3>1 DEF FramesFollow
    <3>3. QED
      BY <1>1, <3>1, <3>2
  <2>4. \A w \in Ids : w \notin ws => screen'[w] = screen[w]
    OBVIOUS
  <2>5. ws \subseteq Ids
    OBVIOUS
  <2> HIDE DEF ws
  <2>6. CASE ws = {}
    <3>1. screen' = screen
      BY <1>2, <2>2, <2>4, <2>6
    <3>2. QED
      BY <2>1, <3>1 DEF FrameContract!vars
  <2>7. CASE ws # {}
    <3>1. ws \subseteq windows
      BY <2>3
    <3>2. \A w \in Ids : IF w \in ws THEN screen[w] < screen'[w] /\ screen'[w] <= snap[w]
                        ELSE screen'[w] = screen[w]
      BY <2>3, <2>4
    <3>3. FrameContract!Present(ws)
      BY <2>1, <2>2, <3>1, <3>2 DEF FrameContract!Present
    <3>4. ws \in (SUBSET Ids) \ {{}}
      BY <2>5, <2>7
    <3>5. \E vs \in (SUBSET Ids) \ {{}} : FrameContract!Present(vs)
      BY <3>3, <3>4
    <3>6. QED
      BY <3>5 DEF FrameContract!Next
  <2>8. QED
    BY <2>6, <2>7
<1>7. ASSUME NEW w \in owned, Submit(w) PROVE [FrameContract!Next]_FrameContract!vars
  <2>1. /\ version' = version + 1 /\ UNCHANGED <<windows, screen, running>>
        /\ snap' = IF w \in windows THEN [snap EXCEPT ![w] = version + 1] ELSE snap
    BY <1>7 DEF Submit
  <2>2. w \in windows /\ w \in Ids
    BY <1>1 DEF WindowsOwned
  <2>3. version + 1 \in 0..MaxVersion
    <3>1. version' \in 0..setup'.maxFrames /\ setup'.maxFrames \in 0..MaxVersion
      BY <1>3, SetupTypes, ControlTyped, <1>1 DEF TypeOK
    <3>2. MaxVersion \in Nat
      BY DEF ConstantsAssumption
    <3>3. QED
      BY <2>1, <3>1, <3>2
  <2>4. version + 1 \in (snap[w] + 1)..MaxVersion
    <3>1. snap[w] <= version /\ snap[w] \in Nat
      BY <1>1, <1>2, <2>2 DEF FramesFollow
    <3>2. MaxVersion \in Nat
      BY DEF ConstantsAssumption
    <3>3. QED
      BY <1>2, <2>3, <3>1, <3>2
  <2>5. FrameContract!Submit(w)
    BY <2>1, <2>2, <2>4 DEF FrameContract!Submit
  <2>6. QED
    BY <2>2, <2>5 DEF FrameContract!Next
<1>8. CASE UNCHANGED <<windows, snap, screen>> /\ (running' = running \/ running' = FALSE)
  <2>1. CASE running' = running
    BY <1>8, <2>1 DEF FrameContract!vars
  <2>2. CASE running /\ running' = FALSE
    BY <1>8, <2>2 DEF FrameContract!Next, FrameContract!Stop
  <2>3. QED
    BY <1>1, <1>8, <2>1, <2>2
<1>9. QED
  BY <1>4, <1>5, <1>6, <1>7, <1>8, ContractVars

\* The renderer keeps the safety part of the frame contract: what a window shows
\* only moves forward, to frames that were submitted to it.  (submit, close_window
\* and the rendering in run)
THEOREM ContractKept ==
    ASSUME ConstantsAssumption
    PROVE  Spec => FrameContract!Init /\ [][FrameContract!Next]_FrameContract!vars
<1>1. Init => FrameContract!Init
  <2> SUFFICES ASSUME Init PROVE FrameContract!Init
    OBVIOUS
  <2>1. Primary \in Ids
    BY DEF ConstantsAssumption, Primary, Ids
  <2>2. QED
    BY <2>1 DEF Init, FrameContract!Init
<1>2. BackendInv /\ [Next]_vars => [FrameContract!Next]_FrameContract!vars
  BY ContractStep
<1>3. QED
  BY <1>1, <1>2, BackendInvariant, PTL DEF Spec
=============================================================================
