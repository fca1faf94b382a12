------------------------------- MODULE Channel --------------------------------
(***************************************************************************)
(* core::Channel<T> (core/channel.hpp): an event stream any thread may     *)
(* send into and the logic thread drains.                                  *)
(*                                                                         *)
(* send() is mpsc_queue::push, two atomic writes.  drain_notifications()   *)
(* pops and emits until the queue looks empty; it runs in drain_publish,   *)
(* which a send alone does not cause: the producer posts, and the post     *)
(* makes the logic thread run drain_publish once more.  MutationQueue      *)
(* models that post; here it is the flag `wake`.                           *)
(*                                                                         *)
(* An observer is application code on the logic thread.  It may call       *)
(* AppContext::post, and since drain_publish runs outside a batch the      *)
(* closure runs at once and drain_publish is entered again, inside the     *)
(* emission that is still going on.  It may throw: the exception unwinds   *)
(* every nested drain_publish up to the handler in drain_queue.            *)
(***************************************************************************)
EXTENDS Naturals, Sequences, SequencesExt

CONSTANTS
    Producers,       \* threads that send
    Observers,       \* number of connected observers, called in order 1, 2, ...
    NoItem,          \* pop() returned nothing, or has not been called yet
    MaxSends,        \* bound: calls to send() of each producer
    MaxReenter,      \* bound: posts made by observers
    MaxThrows        \* bound: exceptions thrown by observers

ConstantsAssumption ==
    /\ Observers \in Nat \ {0}
    /\ MaxSends \in Nat
    /\ MaxReenter \in Nat
    /\ MaxThrows \in Nat
    /\ NoItem \notin [by : Producers, no : Nat]

VARIABLES
    queue,           \* nodes not yet popped, oldest first: [item, linked]
    pc,              \* where each producer is
    sends,           \* number of calls to send() of each producer
    wake,            \* a post is pending: drain_publish will run
    frames,          \* running calls of drain_notifications, innermost first:
                     \* [item: being emitted, next: observer to call next]
    reentered,       \* posts observers made so far
    thrown,          \* exceptions observers threw so far
    sent,            \* history: items in the order the queue took them
    received         \* history: items each observer was called with

producerVars == <<pc, sends>>
boundVars == <<reentered, thrown>>
vars == <<queue, pc, sends, wake, frames, reentered, thrown, sent, received>>

Item == [by : Producers, no : Nat]

TypeOK ==
    /\ queue \in Seq([item : Item, linked : BOOLEAN])
    /\ pc \in [Producers -> {"out", "link", "post"}]
    /\ sends \in [Producers -> 0..MaxSends]
    /\ wake \in BOOLEAN
    /\ frames \in Seq([item : Item \cup {NoItem}, next : 1..Observers + 1])
    /\ reentered \in 0..MaxReenter
    /\ thrown \in 0..MaxThrows
    /\ sent \in Seq(Item)
    /\ received \in [1..Observers -> Seq(Item)]

Init ==
    /\ queue = <<>>
    /\ pc = [p \in Producers |-> "out"]
    /\ sends = [p \in Producers |-> 0]
    /\ wake = FALSE
    /\ frames = <<>>
    /\ reentered = 0
    /\ thrown = 0
    /\ sent = <<>>
    /\ received = [o \in 1..Observers |-> <<>>]

-----------------------------------------------------------------------------
(* A producer: send(), then post(). *)

Current(p) == [by |-> p, no |-> sends[p]]

\* Mutated ExchangeTail: a stack.
ExchangeHead(p) ==
    /\ pc[p] = "out" /\ sends[p] < MaxSends
    /\ sends' = [sends EXCEPT ![p] = @ + 1]
    /\ pc' = [pc EXCEPT ![p] = "link"]
    /\ LET it == [by |-> p, no |-> sends[p] + 1]
       IN /\ queue' = <<[item |-> it, linked |-> FALSE]>> \o queue
          /\ sent' = Append(sent, it)
    /\ UNCHANGED <<wake, frames, boundVars, received>>

\* send(): the node takes its place in the queue.
ExchangeTail(p) ==
    /\ pc[p] = "out" /\ sends[p] < MaxSends
    /\ sends' = [sends EXCEPT ![p] = @ + 1]
    /\ pc' = [pc EXCEPT ![p] = "link"]
    /\ LET it == [by |-> p, no |-> sends[p] + 1]
       IN /\ queue' = Append(queue, [item |-> it, linked |-> FALSE])
          /\ sent' = Append(sent, it)
    /\ UNCHANGED <<wake, frames, boundVars, received>>

\* send(): the predecessor points to it.
LinkNode(p) ==
    /\ pc[p] = "link"
    /\ queue' = [i \in DOMAIN queue |->
                   IF queue[i].item = Current(p)
                   THEN [queue[i] EXCEPT !.linked = TRUE] ELSE queue[i]]
    /\ pc' = [pc EXCEPT ![p] = "post"]
    /\ UNCHANGED <<sends, wake, frames, boundVars, sent, received>>

\* Mutated PostWake: the producer does not post.
PostWakeForgotten(p) ==
    /\ pc[p] = "post"
    /\ pc' = [pc EXCEPT ![p] = "out"]
    /\ UNCHANGED <<wake, queue, sends, frames, boundVars, sent, received>>

\* The post that follows a send.
PostWake(p) ==
    /\ pc[p] = "post"
    /\ wake' = TRUE
    /\ pc' = [pc EXCEPT ![p] = "out"]
    /\ UNCHANGED <<queue, sends, frames, boundVars, sent, received>>

-----------------------------------------------------------------------------
(* drain_notifications() on the logic thread. *)

Running == frames # <<>>
Emitting == Running /\ Head(frames).item # NoItem
Item1 == Head(frames).item
Observer1 == Head(frames).next

NewDrain == [item |-> NoItem, next |-> 1]

\* drain_queue reaches drain_publish.
StartDrain ==
    /\ ~Running /\ wake
    /\ wake' = FALSE
    /\ frames' = <<NewDrain>>
    /\ UNCHANGED <<queue, producerVars, boundVars, sent, received>>

HeadVisible == queue # <<>> /\ queue[1].linked

\* queue_.pop() returns a value: emit starts with the first observer.
PopItem ==
    /\ Running /\ ~Emitting /\ HeadVisible
    /\ frames' = <<[item |-> queue[1].item, next |-> 1]>> \o Tail(frames)
    /\ queue' = Tail(queue)
    /\ UNCHANGED <<producerVars, wake, boundVars, sent, received>>

\* queue_.pop() returns nothing: this call of drain_notifications is over.
PopNothing ==
    /\ Running /\ ~Emitting /\ ~HeadVisible
    /\ frames' = Tail(frames)
    /\ UNCHANGED <<queue, producerVars, wake, boundVars, sent, received>>

\* The next observer is called with the item.
Deliver ==
    /\ Emitting /\ Observer1 <= Observers
    /\ received' = [received EXCEPT ![Observer1] = Append(@, Item1)]

Advanced == <<[item |-> Item1, next |-> Observer1 + 1]>> \o Tail(frames)

CallObserver ==
    /\ Deliver
    /\ frames' = Advanced
    /\ UNCHANGED <<queue, producerVars, wake, boundVars, sent>>

\* ... and posts a closure, which runs drain_publish inside the emission.
CallObserverPosting ==
    /\ Deliver
    /\ reentered < MaxReenter
    /\ reentered' = reentered + 1
    /\ frames' = <<NewDrain>> \o Advanced
    /\ UNCHANGED <<queue, producerVars, wake, thrown, sent>>

\* ... and throws.
CallObserverThrowing ==
    /\ Deliver
    /\ thrown < MaxThrows
    /\ thrown' = thrown + 1
    /\ frames' = <<>>
    /\ UNCHANGED <<queue, producerVars, wake, reentered, sent>>

\* Every observer was called: back to pop().
EmitDone ==
    /\ Emitting /\ Observer1 > Observers
    /\ frames' = <<NewDrain>> \o Tail(frames)
    /\ UNCHANGED <<queue, producerVars, wake, boundVars, sent, received>>

-----------------------------------------------------------------------------
InSend(p) == LinkNode(p) \/ PostWake(p)

Logic == StartDrain \/ PopItem \/ PopNothing \/ CallObserver
           \/ CallObserverPosting \/ CallObserverThrowing \/ EmitDone

Next == (\E p \in Producers : ExchangeTail(p) \/ InSend(p)) \/ Logic

\* A producer inside send() or post() runs on, and so does the logic thread.
Fairness == WF_vars(Logic) /\ \A p \in Producers : WF_vars(InSend(p))

SafeSpec == Init /\ [][Next]_vars

Spec == SafeSpec /\ Fairness
-----------------------------------------------------------------------------
(* Properties. *)

AtRest == ~Running /\ ~wake /\ \A p \in Producers : pc[p] = "out"

\* The items of s stand in s as they stand in the sequence t of distinct items.
OrderedAs(s, t) ==
    \A i, j \in DOMAIN s : i < j =>
        \A m, n \in DOMAIN t : t[m] = s[i] /\ t[n] = s[j] => m < n

\* "delivers every send() in FIFO order" (channel.hpp): each observer is called
\* with the items in the order the queue took them, and never twice with one,
\* as long as no observer's post nests a drain in the emission.
ObserverFifo ==
    reentered = 0 =>
        \A o \in 1..Observers :
            ToSet(received[o]) \subseteq ToSet(sent) /\ OrderedAs(received[o], sent)

\* Observers agree when the drain is over: nested drains may reorder the items,
\* and still each observer is called exactly once with each of them.  Only an
\* exception keeps an item from the observers behind the one that threw.
DeliveredOnce ==
    ~Running =>
        \A o \in 1..Observers :
            /\ IsInjective(received[o])
            /\ thrown = 0 => ToSet(received[o]) = ToSet(received[1])

\* Every item the queue took reaches every observer, unless an observer throws.
\* (Sends are bounded, so this is said of the end.)
EverySendDelivered ==
    <>[](\/ thrown > 0
         \/ \A o \in 1..Observers : ToSet(received[o]) = ToSet(sent))
=============================================================================
