------------------------------- MODULE Shared ---------------------------------
(***************************************************************************)
(* core::Shared<T> (core/shared.hpp): a value any thread may set and the   *)
(* logic thread publishes, intermediate values dropped.                    *)
(*                                                                         *)
(* set() is two atomic stores, the value and then the flag; the drain is   *)
(* an exchange of the flag and then a load of the value.  The protocol is  *)
(* right because the two sides touch the pair in opposite orders.  As in   *)
(* Channel, `wake` stands for the post that makes the logic thread drain,  *)
(* observers may post (which nests a drain) and may throw.                 *)
(*                                                                         *)
(* A value is known by the ordinal of the store that wrote it, so "newer"  *)
(* is "greater".                                                           *)
(***************************************************************************)
EXTENDS Naturals, Sequences

CONSTANTS
    Producers,       \* threads that set
    Observers,       \* number of connected observers, called in order 1, 2, ...
    MaxSets,         \* bound: calls to set() in all
    MaxReenter,      \* bound: posts made by observers
    MaxThrows        \* bound: exceptions thrown by observers

ASSUME ConstantsAssumption ==
    /\ Observers \in Nat \ {0}
    /\ MaxSets \in Nat
    /\ MaxReenter \in Nat
    /\ MaxThrows \in Nat

VARIABLES
    cell,            \* cell_: ordinal of the value, 0 the initial one
    pending,         \* pending_
    pc,              \* where each producer is
    wake,            \* a post is pending: drain_publish will run
    frames,          \* running drains, innermost first: [at, val, next]
    reentered,       \* posts observers made so far
    thrown,          \* exceptions observers threw so far
    seen             \* the value each observer was last called with

boundVars == <<reentered, thrown>>
vars == <<cell, pending, pc, wake, frames, reentered, thrown, seen>>

Frame == [at : {"test", "load", "emit"}, val : 0..MaxSets, next : 1..Observers + 1]

TypeOK ==
    /\ cell \in 0..MaxSets
    /\ pending \in BOOLEAN
    /\ pc \in [Producers -> {"out", "flag", "post"}]
    /\ wake \in BOOLEAN
    /\ frames \in Seq(Frame)
    /\ reentered \in 0..MaxReenter
    /\ thrown \in 0..MaxThrows
    /\ seen \in [1..Observers -> 0..MaxSets]

Init ==
    /\ cell = 0
    /\ pending = FALSE
    /\ pc = [p \in Producers |-> "out"]
    /\ wake = FALSE
    /\ frames = <<>>
    /\ reentered = 0
    /\ thrown = 0
    /\ seen = [o \in 1..Observers |-> 0]

-----------------------------------------------------------------------------
(* A producer: set(), then post(). *)

\* cell_.store(new_value).
StoreCell(p) ==
    /\ pc[p] = "out" /\ cell < MaxSets
    /\ cell' = cell + 1
    /\ pc' = [pc EXCEPT ![p] = "flag"]
    /\ UNCHANGED <<pending, wake, frames, boundVars, seen>>

\* Mutated RaisePending: a set that finds the flag up posts nothing.
RaisePendingQuiet(p) ==
    /\ pc[p] = "flag"
    /\ pending' = TRUE
    /\ pc' = [pc EXCEPT ![p] = IF pending THEN "post" ELSE "out"]
    /\ UNCHANGED <<cell, wake, frames, boundVars, seen>>

\* pending_.store(true).
RaisePending(p) ==
    /\ pc[p] = "flag"
    /\ pending' = TRUE
    /\ pc' = [pc EXCEPT ![p] = "post"]
    /\ UNCHANGED <<cell, wake, frames, boundVars, seen>>

\* The post that follows a set.
PostWake(p) ==
    /\ pc[p] = "post"
    /\ wake' = TRUE
    /\ pc' = [pc EXCEPT ![p] = "out"]
    /\ UNCHANGED <<cell, pending, frames, boundVars, seen>>

-----------------------------------------------------------------------------
(* drain_notifications() on the logic thread. *)

Running == frames # <<>>
Top == Head(frames)
NewDrain == [at |-> "test", val |-> 0, next |-> 1]

\* drain_queue reaches drain_publish.
StartDrain ==
    /\ ~Running /\ wake
    /\ wake' = FALSE
    /\ frames' = <<NewDrain>>
    /\ UNCHANGED <<cell, pending, pc, boundVars, seen>>

\* Mutated TestPending: a nested drain clears the flag and leaves.
TestPendingGuarded ==
    /\ Running /\ Top.at = "test"
    /\ pending' = FALSE
    /\ frames' = IF pending /\ Len(frames) = 1
                 THEN <<[Top EXCEPT !.at = "load"]>> ELSE Tail(frames)
    /\ UNCHANGED <<cell, pc, wake, boundVars, seen>>

\* pending_.exchange(false): nothing new ends the call.
TestPending ==
    /\ Running /\ Top.at = "test"
    /\ pending' = FALSE
    /\ frames' = IF pending THEN <<[Top EXCEPT !.at = "load"]>> \o Tail(frames)
                            ELSE Tail(frames)
    /\ UNCHANGED <<cell, pc, wake, boundVars, seen>>

\* Mutated LoadCell: the load may return any earlier value.
LoadCellStale ==
    /\ Running /\ Top.at = "load"
    /\ \E v \in 0..cell :
          frames' = <<[at |-> "emit", val |-> v, next |-> 1]>> \o Tail(frames)
    /\ UNCHANGED <<cell, pending, pc, wake, boundVars, seen>>

\* get(): the emission carries a copy of the value.
LoadCell ==
    /\ Running /\ Top.at = "load"
    /\ frames' = <<[at |-> "emit", val |-> cell, next |-> 1]>> \o Tail(frames)
    /\ UNCHANGED <<cell, pending, pc, wake, boundVars, seen>>

\* The next observer is called with the emission's value.
Notify ==
    /\ Running /\ Top.at = "emit" /\ Top.next <= Observers
    /\ seen' = [seen EXCEPT ![Top.next] = Top.val]

Advanced == <<[Top EXCEPT !.next = @ + 1]>> \o Tail(frames)

CallObserver ==
    /\ Notify
    /\ frames' = Advanced
    /\ UNCHANGED <<cell, pending, pc, wake, boundVars>>

\* ... and posts a closure, which runs drain_publish inside the emission.
CallObserverPosting ==
    /\ Notify
    /\ reentered < MaxReenter
    /\ reentered' = reentered + 1
    /\ frames' = <<NewDrain>> \o Advanced
    /\ UNCHANGED <<cell, pending, pc, wake, thrown>>

\* ... and throws: every drain in progress is unwound.
CallObserverThrowing ==
    /\ Notify
    /\ thrown < MaxThrows
    /\ thrown' = thrown + 1
    /\ frames' = <<>>
    /\ UNCHANGED <<cell, pending, pc, wake, reentered>>

\* Every observer was called.
EmitDone ==
    /\ Running /\ Top.at = "emit" /\ Top.next > Observers
    /\ frames' = Tail(frames)
    /\ UNCHANGED <<cell, pending, pc, wake, boundVars, seen>>

-----------------------------------------------------------------------------
InSet(p) == RaisePending(p) \/ PostWake(p)

Logic == StartDrain \/ TestPending \/ LoadCell \/ CallObserver
           \/ CallObserverPosting \/ CallObserverThrowing \/ EmitDone

Next == (\E p \in Producers : StoreCell(p) \/ InSet(p)) \/ Logic

\* A producer inside set() or post() runs on, and so does the logic thread.
Fairness == WF_vars(Logic) /\ \A p \in Producers : WF_vars(InSet(p))

SafeSpec == Init /\ [][Next]_vars

Spec == SafeSpec /\ Fairness
-----------------------------------------------------------------------------
(* Properties. *)

AtRest == ~Running /\ ~wake /\ \A p \in Producers : pc[p] = "out"

\* "publishes only the latest value" (README.md): once every set has been posted
\* and the logic thread sleeps, each observer has been called with the value of
\* the cell, no older one.  An observer that posts or throws spoils this for the
\* observers behind it.
LatestDelivered ==
    AtRest /\ reentered = 0 /\ thrown = 0 => \A o \in 1..Observers : seen[o] = cell

\* An observer is never taken back to a value older than one it has seen, until
\* an observer's post nests a drain in an emission.
NeverBackwards ==
    [][reentered = 0 => \A o \in 1..Observers : seen'[o] >= seen[o]]_vars

\* A value that is set reaches each observer, itself or a newer one, unless an
\* observer posts or throws; it reaches the first observer if none throws.  (Sets
\* are bounded, so this is said of the last one.)
EverySetReaches ==
    <>[](\A o \in 1..Observers :
            seen[o] = cell \/ thrown > 0 \/ (o > 1 /\ reentered > 0))

\* The drain does not lose a set whose flag it clears: the first observer, which
\* every emission calls first, is behind the cell only while some step of the
\* protocol that will bring it up to date is outstanding.
FirstCatchesUp ==
    \/ seen[1] = cell
    \/ pending
    \/ \E p \in Producers : pc[p] = "flag"
    \/ Running /\ Top.at = "load"
    \/ Running /\ Top.at = "emit" /\ Top.next = 1 /\ Top.val = cell
=============================================================================
