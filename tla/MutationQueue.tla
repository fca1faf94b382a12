---------------------------- MODULE MutationQueue ----------------------------
(***************************************************************************)
(* AppContext::post and AppContext::drain_queue (app/model_app.hpp) over   *)
(* the lock-free queue of core/mpsc_queue.hpp.                             *)
(*                                                                         *)
(* Producer threads post closures.  push() is two separate atomic writes:  *)
(* it swings tail_ to the new node, then links the predecessor to it, and  *)
(* a node whose predecessor link is missing hides itself and everything    *)
(* behind it from pop().  After the push a producer tries to raise         *)
(* `scheduled`; whoever raises it schedules one drain task on the logic    *)
(* thread's run_loop.  The drain runs the closures, publishes, lowers      *)
(* `scheduled`, and looks once more at the queue before it leaves.         *)
(*                                                                         *)
(* StoreBuffer selects the memory model of the one pair of accesses the    *)
(* code leaves unordered, the release store of `scheduled` followed by the *)
(* acquire load of head_->next.  FALSE: the load waits for the store to    *)
(* reach memory, sequential consistency.  TRUE: the store may stay in the  *)
(* logic thread's store buffer past the load, as x86 and every weaker      *)
(* target allow; read-modify-write instructions and the run_loop's mutex   *)
(* wait for the buffer to empty.                                           *)
(***************************************************************************)
EXTENDS Naturals, Sequences, SequencesExt

CONSTANTS
    Producers,       \* threads that call post(), the logic thread excluded
    MaxPosts,        \* bound: calls to post() of each producer
    MaxInline,       \* bound: calls to post() made by the logic thread itself
    StoreBuffer      \* TRUE: a load may pass the store before it

ASSUME ConstantsAssumption ==
    /\ MaxPosts \in Nat
    /\ MaxInline \in Nat
    /\ StoreBuffer \in BOOLEAN

VARIABLES
    queue,           \* nodes after head_, oldest first: [fn, linked]
    scheduled,       \* the flag scheduled_, as memory holds it
    buffered,        \* a store of FALSE to scheduled_ sits in the store buffer
    closed,          \* closed_: the primary window was closed
    finished,        \* run_loop::finish was called
    loopTasks,       \* drain tasks waiting in the run_loop
    pc,              \* where each producer is inside post()
    posts,           \* number of calls to post() each producer has made
    lpc,             \* where the logic thread is
    inBatch,         \* detail_in_mutation_batch
    inlined,         \* number of closures the logic thread posted to itself
    ran,             \* closures run by the drain, in order
    dirty            \* a closure ran since drain_publish was last called

producerVars == <<pc, posts>>
flagVars == <<scheduled, buffered>>
lifeVars == <<closed, finished>>
logicVars == <<lpc, inBatch, inlined, ran, dirty>>
vars == <<queue, scheduled, buffered, closed, finished, loopTasks, pc, posts,
          lpc, inBatch, inlined, ran, dirty>>

Fn == [by : Producers, no : Nat]
Node == [fn : Fn, linked : BOOLEAN]

\* The logic thread's positions while it owns the flag `scheduled`.
Draining == {"pop", "call", "publish", "reset"}

TypeOK ==
    /\ queue \in Seq(Node)
    /\ scheduled \in BOOLEAN
    /\ buffered \in BOOLEAN
    /\ closed \in BOOLEAN
    /\ finished \in BOOLEAN
    /\ loopTasks \in Nat
    /\ pc \in [Producers -> {"out", "push", "link", "cas", "schedule"}]
    /\ posts \in [Producers -> Nat]
    /\ lpc \in Draining \cup {"idle", "check", "rearm", "exited"}
    /\ inBatch \in BOOLEAN
    /\ inlined \in Nat
    /\ ran \in Seq(Fn)
    /\ dirty \in BOOLEAN

Init ==
    /\ queue = <<>>
    /\ scheduled = FALSE
    /\ buffered = FALSE
    /\ closed = FALSE
    /\ finished = FALSE
    /\ loopTasks = 0
    /\ pc = [p \in Producers |-> "out"]
    /\ posts = [p \in Producers |-> 0]
    /\ lpc = "idle"
    /\ inBatch = FALSE
    /\ inlined = 0
    /\ ran = <<>>
    /\ dirty = FALSE

-----------------------------------------------------------------------------
(* post() on a producer thread. *)

\* The closure of p's call in progress.
Current(p) == [by |-> p, no |-> posts[p]]

\* The entry check: a post that finds the application closed returns without
\* effect.
EnterPost(p) ==
    /\ pc[p] = "out"
    /\ posts[p] < MaxPosts
    /\ ~closed
    /\ posts' = [posts EXCEPT ![p] = @ + 1]
    /\ pc' = [pc EXCEPT ![p] = "push"]
    /\ UNCHANGED <<queue, flagVars, lifeVars, loopTasks, logicVars>>

\* Mutated ExchangeTail: a stack, the new node goes in front.
ExchangeHead(p) ==
    /\ pc[p] = "push"
    /\ queue' = <<[fn |-> Current(p), linked |-> FALSE]>> \o queue
    /\ pc' = [pc EXCEPT ![p] = "link"]
    /\ UNCHANGED <<posts, flagVars, lifeVars, loopTasks, logicVars>>

\* push(): prev = tail_.exchange(n).  The node has its place in the order, but
\* nothing points at it yet.
ExchangeTail(p) ==
    /\ pc[p] = "push"
    /\ queue' = Append(queue, [fn |-> Current(p), linked |-> FALSE])
    /\ pc' = [pc EXCEPT ![p] = "link"]
    /\ UNCHANGED <<posts, flagVars, lifeVars, loopTasks, logicVars>>

\* push(): prev->next.store(n).
LinkNode(p) ==
    /\ pc[p] = "link"
    /\ queue' = [i \in DOMAIN queue |->
                   IF queue[i].fn = Current(p)
                   THEN [queue[i] EXCEPT !.linked = TRUE] ELSE queue[i]]
    /\ pc' = [pc EXCEPT ![p] = "cas"]
    /\ UNCHANGED <<posts, flagVars, lifeVars, loopTasks, logicVars>>

\* Mutated RaiseFlag: the outcome of the CAS is ignored.
RaiseFlagUnchecked(p) ==
    /\ pc[p] = "cas"
    /\ scheduled' = TRUE
    /\ pc' = [pc EXCEPT ![p] = "schedule"]
    /\ UNCHANGED <<queue, buffered, posts, lifeVars, loopTasks, logicVars>>

\* compare_exchange on scheduled_: the producer that raises the flag owes the
\* drain task; every other one returns.
RaiseFlag(p) ==
    /\ pc[p] = "cas"
    /\ scheduled' = TRUE
    /\ pc' = [pc EXCEPT ![p] = IF scheduled THEN "out" ELSE "schedule"]
    /\ UNCHANGED <<queue, buffered, posts, lifeVars, loopTasks, logicVars>>

\* start_detached(schedule(sched_) | then(drain_queue)).
ScheduleDrain(p) ==
    /\ pc[p] = "schedule"
    /\ loopTasks' = loopTasks + 1
    /\ pc' = [pc EXCEPT ![p] = "out"]
    /\ UNCHANGED <<queue, posts, flagVars, lifeVars, logicVars>>

-----------------------------------------------------------------------------
(* The logic thread. *)

\* The run_loop takes a drain task; taking it locks the loop's mutex, which
\* empties the store buffer.
StartDrain ==
    /\ lpc = "idle" /\ loopTasks > 0 /\ ~buffered
    /\ loopTasks' = loopTasks - 1
    /\ lpc' = "pop"
    /\ inBatch' = TRUE
    /\ UNCHANGED <<queue, flagVars, lifeVars, producerVars, inlined, ran, dirty>>

\* pop() sees a node only through its predecessor's link.
HeadVisible == queue # <<>> /\ queue[1].linked


PopNode ==
    /\ lpc = "pop" /\ HeadVisible
    /\ queue' = Tail(queue)
    /\ ran' = Append(ran, queue[1].fn)
    /\ dirty' = TRUE
    /\ lpc' = "call"
    /\ UNCHANGED <<flagVars, lifeVars, loopTasks, producerVars, inBatch, inlined>>

\* Mutated CallReturns: an exception leaves the drain with the flag raised.
CallEscapes ==
    /\ lpc = "call"
    /\ \/ lpc' = "pop" /\ UNCHANGED inBatch
       \/ lpc' = "idle" /\ inBatch' = FALSE
    /\ UNCHANGED <<queue, flagVars, lifeVars, loopTasks, producerVars,
                   inlined, ran, dirty>>

\* The closure returns, or throws: the exception is caught and reported, and
\* the loop goes on either way.
CallReturns ==
    /\ lpc = "call"
    /\ lpc' = "pop"
    /\ UNCHANGED <<queue, flagVars, lifeVars, loopTasks, producerVars,
                   inBatch, inlined, ran, dirty>>

\* pop() returned nothing: the batch is over.
EndBatch ==
    /\ lpc = "pop" /\ ~HeadVisible
    /\ inBatch' = FALSE
    /\ lpc' = "publish"
    /\ UNCHANGED <<queue, flagVars, lifeVars, loopTasks, producerVars,
                   inlined, ran, dirty>>

DrainPublish ==
    /\ lpc = "publish"
    /\ dirty' = FALSE
    /\ lpc' = "reset"
    /\ UNCHANGED <<queue, flagVars, lifeVars, loopTasks, producerVars,
                   inBatch, inlined, ran>>

\* scheduled_->store(false, release), which leaves the processor ...
LowerFlag ==
    /\ lpc = "reset"
    /\ buffered' = TRUE
    /\ lpc' = "check"
    /\ UNCHANGED <<queue, scheduled, lifeVars, loopTasks, producerVars,
                   inBatch, inlined, ran, dirty>>

\* ... and reaches memory.
FlushStore ==
    /\ buffered
    /\ scheduled' = FALSE
    /\ buffered' = FALSE
    /\ UNCHANGED <<queue, lifeVars, loopTasks, producerVars, logicVars>>

\* Mutated CheckEmpty: the drain leaves without a second look at the queue.
CheckEmptySkipped ==
    /\ lpc = "check"
    /\ buffered => StoreBuffer
    /\ lpc' = "idle"
    /\ UNCHANGED <<queue, flagVars, lifeVars, loopTasks, producerVars,
                   inBatch, inlined, ran, dirty>>

\* if (queue_->empty()) break;
CheckEmpty ==
    /\ lpc = "check"
    /\ buffered => StoreBuffer
    /\ lpc' = IF HeadVisible THEN "rearm" ELSE "idle"
    /\ UNCHANGED <<queue, flagVars, lifeVars, loopTasks, producerVars,
                   inBatch, inlined, ran, dirty>>

\* The drain takes the flag back, unless a producer did and owes a task.
Rearm ==
    /\ lpc = "rearm" /\ ~buffered
    /\ scheduled' = TRUE
    /\ IF scheduled
       THEN lpc' = "idle" /\ UNCHANGED inBatch
       ELSE lpc' = "pop" /\ inBatch' = TRUE
    /\ UNCHANGED <<queue, buffered, lifeVars, loopTasks, producerVars,
                   inlined, ran, dirty>>

\* post() on the logic thread itself runs the closure at once.  Inside a batch
\* (called by a posted closure) publishing is left to the batch's tail; outside
\* (called by an event handler, or by an observer drain_publish notifies) the
\* call publishes before it returns.
PostInline ==
    /\ inlined < MaxInline
    /\ ~closed
    /\ \/ lpc = "call" /\ inBatch /\ dirty' = TRUE
       \/ lpc \in {"idle", "publish"} /\ ~inBatch /\ dirty' = FALSE
    /\ inlined' = inlined + 1
    /\ UNCHANGED <<queue, flagVars, lifeVars, loopTasks, producerVars,
                   lpc, inBatch, ran>>

-----------------------------------------------------------------------------
(* Shutdown. *)

\* Dispatch of WindowClose on the primary window, a task of the run_loop.
CloseApp ==
    /\ lpc = "idle" /\ ~closed
    /\ closed' = TRUE
    /\ UNCHANGED <<queue, flagVars, finished, loopTasks, producerVars, logicVars>>

\* The main thread, back from Backend::run, calls loop.finish().
FinishLoop ==
    /\ closed /\ ~finished
    /\ finished' = TRUE
    /\ UNCHANGED <<queue, flagVars, closed, loopTasks, producerVars, logicVars>>

\* run() returns once it was told to finish and has no task left.
ExitLoop ==
    /\ lpc = "idle" /\ finished /\ loopTasks = 0
    /\ lpc' = "exited"
    /\ UNCHANGED <<queue, flagVars, lifeVars, loopTasks, producerVars,
                   inBatch, inlined, ran, dirty>>

-----------------------------------------------------------------------------
Post(p) == EnterPost(p) \/ ExchangeTail(p) \/ LinkNode(p) \/ RaiseFlag(p)
             \/ ScheduleDrain(p)

Logic == StartDrain \/ PopNode \/ CallReturns \/ EndBatch \/ DrainPublish
           \/ LowerFlag \/ FlushStore \/ CheckEmpty \/ Rearm

Shutdown == CloseApp \/ FinishLoop \/ ExitLoop

Next == (\E p \in Producers : Post(p)) \/ Logic \/ PostInline \/ Shutdown

\* A producer inside post() runs on, and so does the logic thread; nothing
\* makes a producer call post() or a user close the window.
InPost(p) == ExchangeTail(p) \/ LinkNode(p) \/ RaiseFlag(p) \/ ScheduleDrain(p)

Fairness ==
    /\ \A p \in Producers : WF_vars(InPost(p))
    /\ WF_vars(Logic)

SafeSpec == Init /\ [][Next]_vars

Spec == SafeSpec /\ Fairness
-----------------------------------------------------------------------------
(* Properties. *)

\* No call to post() is in progress.
AllOut == \A p \in Producers : pc[p] = "out"

\* The logic thread has nothing to do, or has left its run_loop.
AtRest == lpc \in {"idle", "exited"} /\ loopTasks = 0 /\ ~buffered

\* A posted closure wakes an idle logic thread: when every post() has returned
\* and the logic thread sleeps, or has left, with no drain task scheduled, the
\* queue is empty.  The protocol of drain_queue's tail against post()'s CAS is
\* there for this.
NoLostWakeup == AllOut /\ AtRest => queue = <<>>

\* ... exactly once per burst: between the producers that owe a drain task, the
\* run_loop's queue and the drain in progress there is at most one drain, so a
\* burst costs one task and pop() has one consumer.
OneDrainPerBurst ==
    /\ loopTasks <= 1
    /\ loopTasks = 1 => lpc \notin Draining /\ \A p \in Producers : pc[p] # "schedule"
    /\ \A p \in Producers : pc[p] = "schedule" =>
          /\ lpc \notin Draining
          /\ \A q \in Producers \ {p} : pc[q] # "schedule"

\* The closures run and those still queued, in the order the logic thread has
\* run them or will.
Closures(q) == [i \in DOMAIN q |-> q[i].fn]
Lineup == ran \o Closures(queue)

\* The number of closures p has pushed: all it posted but the one it holds.
Pushed(p) == IF pc[p] = "push" THEN posts[p] - 1 ELSE posts[p]

\* Per-producer FIFO without duplicates: two closures of one producer stand in
\* the line-up in the order it posted them.
ProducerOrder ==
    \A i, j \in DOMAIN Lineup :
        i < j /\ Lineup[i].by = Lineup[j].by => Lineup[i].no < Lineup[j].no

\* Lossless: the line-up holds what was pushed, all of it and nothing else.
NoPostLost ==
    \A p \in Producers :
        /\ \A n \in 1..Pushed(p) :
              \E i \in DOMAIN Lineup : Lineup[i] = [by |-> p, no |-> n]
        /\ \A i \in DOMAIN Lineup : Lineup[i].by = p => Lineup[i].no <= Pushed(p)

\* The publish tail runs after the last closure of a batch and before the drain
\* gives the flag up: whatever ran is published before the logic thread sleeps.
PublishedBeforeRest == dirty => lpc \in {"pop", "call", "publish"}

\* The queue, the flag and the tasks together implement the mailbox: a closure is
\* accepted when tail_ is exchanged and executed when it is popped.
Mailbox == INSTANCE PostMailbox WITH
    Fn <- [by : Producers, no : 1..MaxPosts],
    pending <- Closures(queue),
    executed <- ran,
    stopped <- (lpc = "exited")

ImplementsMailbox == Mailbox!Spec
=============================================================================
