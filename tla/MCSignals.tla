------------------------------ MODULE MCSignals -------------------------------
(***************************************************************************)
(* Shared, Channel, the reactive graph and the animation clock, one scene  *)
(* each: a behaviour plays one of them and leaves the others in their      *)
(* first state, where none of their fair actions is enabled.               *)
(***************************************************************************)
EXTENDS Shared

CONSTANTS Scenes,
          NoItem, Sends, Posts, Throws,         \* of Channel
          Fields, Deriveds, Watchers, Subs, Compute(_, _), Value, Input, Initial,
          MaxWaves, FieldSets, MaxTxns,         \* of Reactive
          Guarded, Follows, Anims, Duration, MaxValue, ClockSets   \* of Animation

VARIABLES scene,
          queue, cpc, csends, cwake, cframes, creentered, cthrown, csent, creceived,
          val, rseen, depth, deferred, stack, unwinding, terminated, fired, acted,
          capped, rsets, txns, throws,
          st, ticking, snapshot, droppedNow, want, asets

channelVars == <<queue, cpc, csends, cwake, cframes, creentered, cthrown, csent, creceived>>
reactiveVars == <<val, rseen, depth, deferred, stack, unwinding, terminated, fired, acted,
                  capped, rsets, txns, throws>>
animationVars == <<st, ticking, snapshot, droppedNow, want, asets>>
allVars == <<scene, vars, channelVars, reactiveVars, animationVars>>

-----------------------------------------------------------------------------
(* The same producers send, and have as many observers.                    *)

Events == INSTANCE Channel WITH
    MaxSends <- Sends, MaxReenter <- Posts, MaxThrows <- Throws,
    pc <- cpc, sends <- csends, wake <- cwake, frames <- cframes,
    reentered <- creentered, thrown <- cthrown, sent <- csent, received <- creceived

Graph == INSTANCE Reactive WITH
    Observers <- Watchers, MaxSets <- FieldSets, MaxThrows <- Throws,
    seen <- rseen, sets <- rsets

Clock == INSTANCE Animation WITH MaxSets <- ClockSets, sets <- asets

ASSUME SignalsAssumption ==
    Events!ConstantsAssumption /\ Graph!ConstantsAssumption /\ Clock!ConstantsAssumption

-----------------------------------------------------------------------------
(* What the run gives the constants.  A diamond: a field A, B = A,          *)
(* C = A \div 2 (which often does not change), and D, which encodes         *)
(* <<B, C>>; a second field E alone.  Two observers of A, one of D and of E. *)
(* Three waves settle it, so that observers which go on setting exhaust     *)
(* four.  And a transition that another one follows.                        *)

DiamondSubs ==
    [c \in {"A", "B", "C", "D", "E"} |->
        CASE c = "A" -> <<"onA1", "B", "C", "onA2">>
          [] c = "B" -> <<"D">>
          [] c = "C" -> <<"D">>
          [] c = "D" -> <<"onD">>
          [] c = "E" -> <<"onE">>]
DiamondCompute(d, v) ==
    CASE d = "B" -> v["A"]
      [] d = "C" -> v["A"] \div 2
      [] d = "D" -> (3 * v["B"] + v["C"]) % 9
DiamondValues == 0..8
AllZero == [c \in Fields \cup Deriveds |-> 0]

FirstFollows == [f \in Guarded |-> IF f = "a" THEN {"b"} ELSE {}]

-----------------------------------------------------------------------------
MCInit == scene \in Scenes /\ Init /\ Events!Init /\ Graph!Init /\ Clock!Init

MCNext ==
    \/ /\ scene = "shared" /\ Next
       /\ UNCHANGED <<scene, channelVars, reactiveVars, animationVars>>
    \/ /\ scene = "channel" /\ Events!Next
       /\ UNCHANGED <<scene, vars, reactiveVars, animationVars>>
    \/ /\ scene = "graph" /\ Graph!Next
       /\ UNCHANGED <<scene, vars, channelVars, animationVars>>
    \/ /\ scene = "clock" /\ Clock!Next
       /\ UNCHANGED <<scene, vars, channelVars, reactiveVars>>

MCSpec ==
    /\ MCInit /\ [][MCNext]_allVars
    /\ Fairness /\ Events!Fairness /\ Graph!Fairness /\ Clock!Fairness

-----------------------------------------------------------------------------
\* The items of a channel reach each observer in the order the queue took them, as
\* long as no observer posts, and each observer once.  (Channel::drain_notifications)
ChannelOrder == Events!ObserverFifo /\ Events!DeliveredOnce

\* What is set or sent reaches every observer.  (Shared::set, Channel::send, post)
EverySignalReaches == EverySetReaches /\ Events!EverySendDelivered

\* The graph at rest: each Derived is what its lambda returns, each observer was last
\* called with the value of its cell; no transaction leaves an emission or a depth
\* behind.  (SenderHub::emit, Derived, TransactionGuard::flush)
GraphConsistent == Graph!Converged /\ Graph!NothingLeftBehind

\* Emissions end, and a flush calls an observer at most once.  (TransactionGuard::flush)
ComesToRest == [](Graph!FiresOncePerFlush /\ <>Graph!Ended)

\* A driver that runs is in the clock once, and a dropped one is not called, except by
\* the tick it was dropped in.  (AnimationClock, TransitionGuard, Animation)
ClockMatches == Clock!ClockMatches /\ Clock!DroppedStops

\* Fields come to the value they were last given.  (TransitionGuard, Animation::tick)
TargetReached == Clock!TargetReached
=============================================================================
