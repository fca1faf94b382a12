------------------------- MODULE MutationQueueProofs -------------------------
(***************************************************************************)
(* Theorems about MutationQueue, for any set of producers and any bounds.  *)
(*                                                                         *)
(* Type correctness, one drain per burst, order, losslessness and the      *)
(* publish tail hold under both memory models.  NoLostWakeup is proved     *)
(* under the assumption StoreBuffer = FALSE; without it the property       *)
(* is violated.                                                            *)
(***************************************************************************)
EXTENDS MutationQueue, SequenceTheorems, TLAPS

USE DEF Draining

-----------------------------------------------------------------------------
(* Type correctness. *)

\* TypeOK in two parts: the sequences, and everything else.
SeqTypes == queue \in Seq(Node) /\ ran \in Seq(Fn)
FlagTypes ==
    /\ scheduled \in BOOLEAN
    /\ buffered \in BOOLEAN
    /\ closed \in BOOLEAN
    /\ finished \in BOOLEAN
    /\ loopTasks \in Nat
    /\ pc \in [Producers -> {"out", "push", "link", "cas", "schedule"}]
    /\ posts \in [Producers -> Nat]
    /\ lpc \in Draining \cup {"idle", "check", "rearm", "exited"}
    /\ inBatch \in BOOLEAN
    /\ inlined \in Nat
    /\ dirty \in BOOLEAN

LEMMA TypeParts == TypeOK <=> SeqTypes /\ FlagTypes
BY DEF TypeOK, SeqTypes, FlagTypes

LEMMA TypeInit == Init => TypeOK
<1> SUFFICES ASSUME Init PROVE SeqTypes /\ FlagTypes
  BY TypeParts
<1>1. SeqTypes
  BY DEF Init, SeqTypes
<1>2. FlagTypes
  BY DEF Init, FlagTypes
<1>3. QED
  BY <1>1, <1>2

LEMMA SeqTypeStep == ASSUME TypeOK, [Next]_vars PROVE SeqTypes'
<1> USE DEF TypeOK, SeqTypes
<1>1. ASSUME NEW p \in Producers, Post(p) PROVE SeqTypes'
  <2>1. CASE ExchangeTail(p)
    <3>1. [fn |-> Current(p), linked |-> FALSE] \in Node
      BY DEF Current, Node, Fn
    <3>2. QED
      BY <2>1, <3>1 DEF ExchangeTail, logicVars
  <2>2. CASE LinkNode(p)
    <3>1. \A i \in DOMAIN queue :
            (IF queue[i].fn = Current(p)
             THEN [queue[i] EXCEPT !.linked = TRUE] ELSE queue[i]) \in Node
      <4>1. \A i \in DOMAIN queue : queue[i] \in Node
        OBVIOUS
      <4>2. \A n \in Node : [n EXCEPT !.linked = TRUE] \in Node
        BY DEF Node
      <4>3. QED
        BY <4>1, <4>2
    <3>2. queue' \in [1..Len(queue) -> Node] /\ Len(queue) \in Nat
      BY <2>2, <3>1 DEF LinkNode
    <3>3. queue' \in Seq(Node)
      BY <3>2, SeqDef
    <3>4. QED
      BY <2>2, <3>3 DEF LinkNode, logicVars
  <2>3. CASE EnterPost(p) \/ RaiseFlag(p) \/ ScheduleDrain(p)
    BY <2>3 DEF EnterPost, RaiseFlag, ScheduleDrain, logicVars
  <2>4. QED
    BY <1>1, <2>1, <2>2, <2>3 DEF Post
<1>2. CASE PopNode
  <2>1. queue # <<>> /\ queue[1].fn \in Fn
    <3>1. queue # <<>> /\ queue[1] \in Node
      BY <1>2 DEF PopNode, HeadVisible
    <3>2. QED
      BY <3>1 DEF Node
  <2>2. QED
    BY <1>2, <2>1 DEF PopNode
<1>3. CASE (Logic /\ ~PopNode) \/ PostInline \/ Shutdown \/ UNCHANGED vars
  <2>1. UNCHANGED <<queue, ran>>
    BY <1>3 DEF Logic, StartDrain, CallReturns, EndBatch, DrainPublish, LowerFlag,
       FlushStore, CheckEmpty, Rearm, PostInline, Shutdown, CloseApp, FinishLoop,
       ExitLoop, logicVars, vars
  <2>2. QED
    BY <2>1
<1>4. QED
  BY <1>1, <1>2, <1>3 DEF Next, Logic

LEMMA FlagTypeStep == ASSUME FlagTypes, [Next]_vars PROVE FlagTypes'
<1> USE DEF FlagTypes
<1>1. ASSUME NEW p \in Producers, EnterPost(p) PROVE FlagTypes'
  BY <1>1 DEF EnterPost, flagVars, lifeVars, logicVars
<1>2. ASSUME NEW p \in Producers, ExchangeTail(p) PROVE FlagTypes'
  BY <1>2 DEF ExchangeTail, flagVars, lifeVars, logicVars
<1>3. ASSUME NEW p \in Producers, LinkNode(p) PROVE FlagTypes'
  BY <1>3 DEF LinkNode, flagVars, lifeVars, logicVars
<1>4. ASSUME NEW p \in Producers, RaiseFlag(p) PROVE FlagTypes'
  BY <1>4 DEF RaiseFlag, flagVars, lifeVars, logicVars
<1>5. ASSUME NEW p \in Producers, ScheduleDrain(p) PROVE FlagTypes'
  BY <1>5 DEF ScheduleDrain, flagVars, lifeVars, logicVars
<1>6. ASSUME StartDrain PROVE FlagTypes'
  BY <1>6 DEF StartDrain, producerVars, flagVars, lifeVars, logicVars
<1>7. ASSUME PopNode PROVE FlagTypes'
  BY <1>7 DEF PopNode, producerVars, flagVars, lifeVars, logicVars
<1>8. ASSUME CallReturns PROVE FlagTypes'
  BY <1>8 DEF CallReturns, producerVars, flagVars, lifeVars, logicVars
<1>9. ASSUME EndBatch PROVE FlagTypes'
  BY <1>9 DEF EndBatch, producerVars, flagVars, lifeVars, logicVars
<1>10. ASSUME DrainPublish PROVE FlagTypes'
  BY <1>10 DEF DrainPublish, producerVars, flagVars, lifeVars, logicVars
<1>11. ASSUME LowerFlag PROVE FlagTypes'
  BY <1>11 DEF LowerFlag, producerVars, flagVars, lifeVars, logicVars
<1>12. ASSUME FlushStore PROVE FlagTypes'
  BY <1>12 DEF FlushStore, producerVars, flagVars, lifeVars, logicVars
<1>13. ASSUME CheckEmpty PROVE FlagTypes'
  BY <1>13 DEF CheckEmpty, producerVars, flagVars, lifeVars, logicVars
<1>14. ASSUME Rearm PROVE FlagTypes'
  BY <1>14 DEF Rearm, producerVars, flagVars, lifeVars, logicVars
<1>15. ASSUME PostInline PROVE FlagTypes'
  <2>1. dirty' \in BOOLEAN
    BY <1>15 DEF PostInline
  <2>2. inlined' \in Nat
    BY <1>15 DEF PostInline
  <2>3. UNCHANGED <<flagVars, lifeVars, loopTasks, producerVars, lpc, inBatch>>
    BY <1>15 DEF PostInline
  <2>4. QED
    BY <2>1, <2>2, <2>3 DEF producerVars, flagVars, lifeVars
<1>16. ASSUME CloseApp PROVE FlagTypes'
  BY <1>16 DEF CloseApp, producerVars, flagVars, lifeVars, logicVars
<1>17. ASSUME FinishLoop PROVE FlagTypes'
  BY <1>17 DEF FinishLoop, producerVars, flagVars, lifeVars, logicVars
<1>18. ASSUME ExitLoop PROVE FlagTypes'
  BY <1>18 DEF ExitLoop, producerVars, flagVars, lifeVars, logicVars
<1>19. CASE UNCHANGED vars
  BY <1>19 DEF vars
<1>20. QED
  BY <1>1, <1>2, <1>3, <1>4, <1>5, <1>6, <1>7, <1>8, <1>9, <1>10, <1>11, <1>12, <1>13, <1>14, <1>15, <1>16, <1>17, <1>18, <1>19
  DEF Next, Post, Logic, Shutdown

LEMMA TypeStep == ASSUME TypeOK, [Next]_vars PROVE TypeOK'
BY SeqTypeStep, FlagTypeStep, TypeParts, PTL

THEOREM TypeCorrect == SafeSpec => []TypeOK
BY TypeInit, TypeStep, PTL DEF SafeSpec

-----------------------------------------------------------------------------
(* One drain per burst. *)

\* Someone owes a drain, has it queued, or runs it.
FlagHeld ==
    \/ loopTasks > 0
    \/ lpc \in Draining
    \/ \E p \in Producers : pc[p] = "schedule"

\* The flag is up, with no store of FALSE on its way, exactly while it is held;
\* the store of FALSE can only be on its way over a raised flag.
FlagInv ==
    /\ OneDrainPerBurst
    /\ FlagHeld <=> scheduled = TRUE /\ buffered = FALSE
    /\ buffered = TRUE => scheduled = TRUE

LEMMA FlagInit == Init => FlagInv
BY DEF Init, FlagInv, OneDrainPerBurst, FlagHeld

\* Steps that touch neither the flag nor anything FlagHeld reads.
LEMMA FlagFrame ==
    ASSUME FlagInv, UNCHANGED <<scheduled, buffered, loopTasks>>,
           \A p \in Producers : pc'[p] = "schedule" <=> pc[p] = "schedule",
           lpc' \in Draining <=> lpc \in Draining
    PROVE  FlagInv'
BY DEF FlagInv, OneDrainPerBurst, FlagHeld

LEMMA FlagStep == ASSUME FlagTypes, FlagInv, [Next]_vars PROVE FlagInv'
<1>1. ASSUME NEW p \in Producers,
             EnterPost(p) \/ ExchangeTail(p) \/ LinkNode(p)
      PROVE FlagInv'
  BY <1>1, FlagFrame DEF EnterPost, ExchangeTail, LinkNode, FlagTypes,
     flagVars, logicVars
<1>2. ASSUME NEW p \in Producers, RaiseFlag(p) PROVE FlagInv'
  <2>1. CASE scheduled = TRUE
    BY <1>2, <2>1, FlagFrame DEF RaiseFlag, FlagTypes, logicVars
  <2>2. CASE scheduled = FALSE
    <3>1. ~FlagHeld /\ buffered = FALSE
      BY <2>2 DEF FlagInv, FlagTypes
    <3>2. pc' = [pc EXCEPT ![p] = "schedule"] /\ scheduled' = TRUE
          /\ UNCHANGED <<buffered, loopTasks, lpc>>
      BY <1>2, <2>2 DEF RaiseFlag, logicVars
    <3>3. pc'[p] = "schedule" /\ \A q \in Producers \ {p} : pc'[q] # "schedule"
      BY <3>1, <3>2 DEF FlagHeld, FlagTypes
    <3>4. QED
      BY <3>1, <3>2, <3>3 DEF FlagInv, FlagHeld, OneDrainPerBurst, FlagTypes
  <2>3. QED
    BY <2>1, <2>2 DEF FlagTypes
<1>3. ASSUME NEW p \in Producers, ScheduleDrain(p) PROVE FlagInv'
  <2>1. /\ lpc \notin Draining /\ loopTasks = 0
        /\ scheduled = TRUE /\ buffered = FALSE
        /\ \A q \in Producers \ {p} : pc[q] # "schedule"
    BY <1>3 DEF ScheduleDrain, FlagInv, FlagHeld, OneDrainPerBurst, FlagTypes
  <2>2. /\ loopTasks' = 1 /\ UNCHANGED <<scheduled, buffered, lpc>>
        /\ \A q \in Producers : pc'[q] # "schedule"
    BY <1>3, <2>1 DEF ScheduleDrain, FlagTypes, flagVars, logicVars
  <2>3. QED
    BY <2>1, <2>2 DEF FlagInv, FlagHeld, OneDrainPerBurst
<1>4. CASE StartDrain
  <2>1. /\ loopTasks = 1 /\ \A q \in Producers : pc[q] # "schedule"
        /\ scheduled = TRUE /\ buffered = FALSE
    BY <1>4 DEF StartDrain, FlagInv, FlagHeld, OneDrainPerBurst, FlagTypes
  <2>2. loopTasks' = 0 /\ lpc' = "pop" /\ UNCHANGED <<scheduled, buffered, pc>>
    BY <1>4, <2>1 DEF StartDrain, flagVars, producerVars
  <2>3. QED
    BY <2>1, <2>2 DEF FlagInv, FlagHeld, OneDrainPerBurst
<1>5. CASE PopNode \/ CallReturns \/ EndBatch \/ DrainPublish \/ CheckEmpty
           \/ PostInline
  BY <1>5, FlagFrame DEF PopNode, CallReturns, EndBatch, DrainPublish, CheckEmpty,
     PostInline, flagVars, producerVars
<1>6. CASE LowerFlag
  <2>1. /\ loopTasks = 0 /\ \A q \in Producers : pc[q] # "schedule"
        /\ scheduled = TRUE /\ buffered = FALSE
    BY <1>6 DEF LowerFlag, FlagInv, FlagHeld, OneDrainPerBurst, FlagTypes
  <2>2. /\ lpc' = "check" /\ UNCHANGED <<loopTasks, pc>>
        /\ buffered' = TRUE /\ scheduled' = scheduled
    BY <1>6 DEF LowerFlag, producerVars
  <2>3. ~FlagHeld' /\ OneDrainPerBurst'
    BY <2>1, <2>2 DEF FlagHeld, OneDrainPerBurst
  <2>4. QED
    BY <2>1, <2>2, <2>3 DEF FlagInv
<1>7. CASE FlushStore
  <2>1. ~FlagHeld
    <3>1. buffered = TRUE
      BY <1>7 DEF FlushStore, FlagTypes
    <3>2. QED
      BY <3>1 DEF FlagInv
  <2>2. scheduled' = FALSE /\ buffered' = FALSE /\ UNCHANGED <<loopTasks, pc, lpc>>
    BY <1>7 DEF FlushStore, producerVars, logicVars
  <2>3. QED
    BY <2>1, <2>2 DEF FlagInv, FlagHeld, OneDrainPerBurst
<1>8. CASE Rearm
  <2>1. CASE scheduled = TRUE
    BY <1>8, <2>1, FlagFrame DEF Rearm, producerVars
  <2>2. CASE scheduled = FALSE
    <3>1. ~FlagHeld /\ buffered = FALSE
      BY <2>2 DEF FlagInv, FlagTypes
    <3>2. /\ scheduled' = TRUE /\ lpc' = "pop"
          /\ UNCHANGED <<buffered, loopTasks, pc>>
      BY <1>8, <2>2 DEF Rearm, producerVars
    <3>3. QED
      BY <3>1, <3>2 DEF FlagInv, FlagHeld, OneDrainPerBurst, FlagTypes
  <2>3. QED
    BY <2>1, <2>2 DEF FlagTypes
<1>9. CASE Shutdown
  BY <1>9, FlagFrame DEF Shutdown, CloseApp, FinishLoop, ExitLoop,
     flagVars, producerVars, logicVars
<1>10. CASE UNCHANGED vars
  BY <1>10, FlagFrame DEF vars
<1>11. QED
  BY <1>1, <1>2, <1>3, <1>4, <1>5, <1>6, <1>7, <1>8, <1>9, <1>10
  DEF Next, Post, Logic

\* Under either memory model at most one drain is owed, queued or running.
THEOREM OneDrain == SafeSpec => []OneDrainPerBurst
<1>1. Init => TypeOK /\ FlagInv
  BY TypeInit, FlagInit
<1>2. TypeOK /\ FlagInv /\ [Next]_vars => (TypeOK /\ FlagInv)'
  BY TypeStep, FlagStep, TypeParts
<1>3. FlagInv => OneDrainPerBurst
  BY DEF FlagInv
<1>4. QED
  BY <1>1, <1>2, <1>3, PTL DEF SafeSpec

-----------------------------------------------------------------------------
(* No lost wakeup. *)

\* A node is hidden only while its producer is between the two writes of push.
LinkInv ==
    \A i \in DOMAIN queue : queue[i].linked = FALSE =>
        /\ pc[queue[i].fn.by] = "link"
        /\ queue[i].fn.no = posts[queue[i].fn.by]

LEMMA LinkInit == Init => LinkInv
BY DEF Init, LinkInv

LEMMA NodeTypes == ASSUME TypeOK, NEW i \in DOMAIN queue
                   PROVE /\ queue[i] \in Node
                         /\ queue[i].fn \in Fn
                         /\ queue[i].fn.by \in Producers
                         /\ queue[i].fn.no \in Nat
                         /\ queue[i].linked \in BOOLEAN
<1>1. queue[i] \in Node
  BY DEF TypeOK
<1>2. QED
  BY <1>1 DEF Node, Fn

LEMMA LinkStep == ASSUME TypeOK, LinkInv, [Next]_vars PROVE LinkInv'
<1> USE DEF LinkInv
<1>1. ASSUME NEW p \in Producers, EnterPost(p) \/ RaiseFlag(p) \/ ScheduleDrain(p)
      PROVE LinkInv'
  <2>1. /\ queue' = queue /\ pc[p] # "link"
        /\ \A q \in Producers \ {p} : pc'[q] = pc[q] /\ posts'[q] = posts[q]
    BY <1>1 DEF EnterPost, RaiseFlag, ScheduleDrain, TypeOK
  <2>2. QED
    BY <2>1, NodeTypes
<1>2. ASSUME NEW p \in Producers, ExchangeTail(p) PROVE LinkInv'
  <2>1. DEFINE n == [fn |-> Current(p), linked |-> FALSE]
  <2>2. n \in Node /\ n.fn.by = p /\ n.fn.no = posts[p]
    BY DEF Node, Fn, Current, TypeOK
  <2>3. /\ queue' = Append(queue, n) /\ pc[p] # "link" /\ pc'[p] = "link"
        /\ \A q \in Producers \ {p} : pc'[q] = pc[q]
        /\ posts' = posts
    BY <1>2 DEF ExchangeTail, TypeOK
  <2> HIDE DEF n
  <2>4. SUFFICES ASSUME NEW i \in DOMAIN queue', queue'[i].linked = FALSE
                 PROVE /\ pc'[queue'[i].fn.by] = "link"
                       /\ queue'[i].fn.no = posts'[queue'[i].fn.by]
    BY DEF LinkInv
  <2>5. CASE i \in DOMAIN queue
    <3>1. queue'[i] = queue[i]
      BY <2>2, <2>3, <2>5 DEF TypeOK
    <3>2. queue[i].fn.by \in Producers \ {p} /\ pc[queue[i].fn.by] = "link"
      BY <2>3, <2>4, <2>5, <3>1, NodeTypes
    <3>3. QED
      BY <2>3, <2>4, <2>5, <3>1, <3>2
  <2>6. CASE i \notin DOMAIN queue
    <3>1. queue'[i] = n
      BY <2>2, <2>3, <2>4, <2>6 DEF TypeOK
    <3>2. QED
      BY <2>2, <2>3, <3>1
  <2>7. QED
    BY <2>5, <2>6
<1>3. ASSUME NEW p \in Producers, LinkNode(p) PROVE LinkInv'
  <2>1. /\ DOMAIN queue' = DOMAIN queue /\ posts' = posts
        /\ \A q \in Producers \ {p} : pc'[q] = pc[q]
    BY <1>3 DEF LinkNode, TypeOK
  <2>2. ASSUME NEW i \in DOMAIN queue, queue'[i].linked = FALSE
        PROVE  queue'[i] = queue[i] /\ queue[i].fn.by # p
    <3>1. queue[i].fn # Current(p) /\ queue'[i] = queue[i]
      BY <1>3, <2>2, NodeTypes DEF LinkNode, Node
    <3>2. CASE queue[i].fn.by = p
      <4>1. queue[i].fn.no = posts[p]
        BY <2>2, <3>1, <3>2
      <4>2. queue[i].fn = Current(p)
        BY <3>2, <4>1, NodeTypes DEF Current, Fn
      <4>3. QED
        BY <3>1, <4>2
    <3>3. QED
      BY <3>1, <3>2
  <2>3. SUFFICES ASSUME NEW i \in DOMAIN queue', queue'[i].linked = FALSE
                 PROVE /\ pc'[queue'[i].fn.by] = "link"
                       /\ queue'[i].fn.no = posts'[queue'[i].fn.by]
    BY DEF LinkInv
  <2>4. queue'[i] = queue[i] /\ queue[i].fn.by \in Producers \ {p}
    BY <2>1, <2>2, <2>3, NodeTypes
  <2>5. QED
    BY <2>1, <2>3, <2>4
<1>4. CASE PopNode
  <2>1. queue # <<>> /\ queue' = Tail(queue) /\ UNCHANGED <<pc, posts>>
    BY <1>4 DEF PopNode, HeadVisible, producerVars
  <2>2. ASSUME NEW i \in DOMAIN queue'
        PROVE  i + 1 \in DOMAIN queue /\ queue'[i] = queue[i + 1]
    <3>1. queue \in Seq(Node)
      BY DEF TypeOK
    <3>2. Len(queue') = Len(queue) - 1 /\ i \in 1..Len(queue')
      BY <2>1, <2>2, <3>1, HeadTailProperties, LenProperties
    <3>3. QED
      BY <2>1, <3>1, <3>2, HeadTailProperties, LenProperties
  <2>3. QED
    BY <2>1, <2>2
<1>5. CASE (Logic /\ ~PopNode) \/ PostInline \/ Shutdown \/ UNCHANGED vars
  BY <1>5 DEF Logic, StartDrain, CallReturns, EndBatch, DrainPublish, LowerFlag,
     FlushStore, CheckEmpty, Rearm, PostInline, Shutdown, CloseApp, FinishLoop,
     ExitLoop, producerVars, vars
<1>6. QED
  BY <1>1, <1>2, <1>3, <1>4, <1>5 DEF Next, Post, Logic

\* When the flag is down over a queue that is not empty, someone is still to
\* look: a producer that has yet to try the flag, or the drain's second look.
WakeInv ==
    /\ buffered = TRUE => lpc = "check"
    /\ scheduled = FALSE /\ queue # <<>> =>
          \/ \E p \in Producers : pc[p] \in {"link", "cas"}
          \/ lpc \in {"check", "rearm"}

LEMMA WakeInit == Init => WakeInv
BY DEF Init, WakeInv

LEMMA WakeStep ==
    ASSUME StoreBuffer = FALSE, TypeOK, FlagInv, LinkInv, WakeInv, [Next]_vars
    PROVE  WakeInv'
<1> USE DEF WakeInv
<1>1. ASSUME NEW p \in Producers, EnterPost(p) PROVE WakeInv'
  <2>1. /\ UNCHANGED <<queue, scheduled, buffered, lpc>> /\ pc[p] = "out"
        /\ \A q \in Producers \ {p} : pc'[q] = pc[q]
    BY <1>1 DEF EnterPost, TypeOK, flagVars, logicVars
  <2>2. QED
    BY <2>1
<1>2. ASSUME NEW p \in Producers, ExchangeTail(p) \/ LinkNode(p) PROVE WakeInv'
  <2>1. pc'[p] \in {"link", "cas"} /\ buffered' = buffered /\ lpc' = lpc
    BY <1>2 DEF ExchangeTail, LinkNode, TypeOK, flagVars, logicVars
  <2>2. QED
    BY <2>1
<1>3. ASSUME NEW p \in Producers, RaiseFlag(p) PROVE WakeInv'
  BY <1>3 DEF RaiseFlag, logicVars
<1>4. ASSUME NEW p \in Producers, ScheduleDrain(p) PROVE WakeInv'
  <2>1. FlagHeld
    BY <1>4 DEF ScheduleDrain, FlagHeld
  <2>2. scheduled' = TRUE /\ buffered' = FALSE
    BY <1>4, <2>1 DEF ScheduleDrain, FlagInv, flagVars
  <2>3. QED
    BY <2>2
<1>5. CASE StartDrain \/ PopNode \/ CallReturns \/ EndBatch \/ DrainPublish
  <2>1. FlagHeld
    BY <1>5 DEF StartDrain, PopNode, CallReturns, EndBatch, DrainPublish, FlagHeld
  <2>2. scheduled' = TRUE /\ buffered' = FALSE
    BY <1>5, <2>1 DEF StartDrain, PopNode, CallReturns, EndBatch, DrainPublish,
       FlagInv, flagVars
  <2>3. QED
    BY <2>2
<1>6. CASE LowerFlag
  <2>1. FlagHeld
    BY <1>6 DEF LowerFlag, FlagHeld
  <2>2. scheduled' = TRUE /\ lpc' = "check"
    BY <1>6, <2>1 DEF LowerFlag, FlagInv
  <2>3. QED
    BY <2>2
<1>7. CASE FlushStore
  <2>1. buffered = TRUE /\ buffered' = FALSE /\ lpc' = lpc
    BY <1>7 DEF FlushStore, logicVars, TypeOK
  <2>2. QED
    BY <2>1
<1>8. CASE CheckEmpty
  <2>1. UNCHANGED <<queue, scheduled, buffered, pc>> /\ buffered = FALSE
    BY <1>8 DEF CheckEmpty, flagVars, producerVars, TypeOK
  <2>2. CASE HeadVisible
    BY <1>8, <2>1, <2>2 DEF CheckEmpty
  <2>3. CASE ~HeadVisible /\ queue # <<>>
    <3>1. 1 \in DOMAIN queue
      BY <2>3 DEF TypeOK
    <3>2. queue[1].linked = FALSE
      BY <2>3, <3>1, NodeTypes DEF HeadVisible
    <3>3. pc[queue[1].fn.by] = "link" /\ queue[1].fn.by \in Producers
      BY <3>1, <3>2, NodeTypes DEF LinkInv
    <3>4. QED
      BY <2>1, <3>3
  <2>4. CASE queue = <<>>
    BY <2>1, <2>4
  <2>5. QED
    BY <2>2, <2>3, <2>4
<1>9. CASE Rearm
  BY <1>9 DEF Rearm, TypeOK
<1>10. CASE PostInline \/ Shutdown \/ UNCHANGED vars
  <2>1. UNCHANGED <<queue, scheduled, buffered, pc>>
    BY <1>10 DEF PostInline, Shutdown, CloseApp, FinishLoop, ExitLoop,
       flagVars, producerVars, vars
  <2>2. lpc \in {"check", "rearm"} => lpc' \in {"check", "rearm"}
    BY <1>10 DEF PostInline, Shutdown, CloseApp, FinishLoop, ExitLoop,
       logicVars, vars
  <2>3. lpc = "check" => lpc' = "check"
    BY <1>10 DEF PostInline, Shutdown, CloseApp, FinishLoop, ExitLoop,
       logicVars, vars
  <2>4. QED
    BY <2>1, <2>2, <2>3
<1>11. QED
  BY <1>1, <1>2, <1>3, <1>4, <1>5, <1>6, <1>7, <1>8, <1>9, <1>10
  DEF Next, Post, Logic

LEMMA WakeEnough == ASSUME FlagTypes, FlagInv, WakeInv PROVE NoLostWakeup
<1>1. SUFFICES ASSUME AllOut, AtRest PROVE queue = <<>>
  BY DEF NoLostWakeup
<1>2. ~FlagHeld
  BY <1>1 DEF AllOut, AtRest, FlagHeld, FlagTypes
<1>3. scheduled = FALSE
  BY <1>1, <1>2 DEF AtRest, FlagInv, FlagTypes
<1>4. QED
  BY <1>1, <1>3 DEF WakeInv, AllOut, AtRest

\* With the drain's store and load in order, a posted closure always finds an
\* awake logic thread or wakes it.
THEOREM NoWakeupLost ==
    ASSUME StoreBuffer = FALSE PROVE SafeSpec => []NoLostWakeup
<1> DEFINE IInv == TypeOK /\ FlagInv /\ LinkInv /\ WakeInv
<1>1. Init => IInv
  BY TypeInit, FlagInit, LinkInit, WakeInit
<1>2. IInv /\ [Next]_vars => IInv'
  BY TypeStep, FlagStep, LinkStep, WakeStep, TypeParts
<1>3. IInv => NoLostWakeup
  BY WakeEnough, TypeParts
<1>4. QED
  BY <1>1, <1>2, <1>3, PTL DEF SafeSpec

-----------------------------------------------------------------------------
(* Order and losslessness. *)

LEMMA IntervalLen == ASSUME NEW m \in Nat, NEW n \in Nat, 1..m = 1..n PROVE m = n
<1>1. ~(m < n)
  <2>1. n \in 1..n => n \in 1..m
    OBVIOUS
  <2>2. QED
    BY <2>1
<1>2. ~(n < m)
  <2>1. m \in 1..m => m \in 1..n
    OBVIOUS
  <2>2. QED
    BY <2>1
<1>3. QED
  BY <1>1, <1>2

LEMMA ClosuresType == ASSUME NEW q \in Seq(Node)
                      PROVE /\ Closures(q) \in Seq(Fn)
                            /\ Len(Closures(q)) = Len(q)
                            /\ \A i \in 1..Len(q) : Closures(q)[i] = q[i].fn
<1>1. DOMAIN q = 1..Len(q) /\ Len(q) \in Nat /\ \A i \in 1..Len(q) : q[i] \in Node
  BY LenProperties
<1>2. Closures(q) \in [1..Len(q) -> Fn]
  BY <1>1 DEF Closures, Node
<1>3. Closures(q) \in Seq(Fn)
  BY <1>1, <1>2, SeqDef
<1>4. Len(Closures(q)) = Len(q)
  <2>1. DOMAIN Closures(q) = 1..Len(Closures(q)) /\ Len(Closures(q)) \in Nat
    BY <1>3, LenProperties
  <2>2. DOMAIN Closures(q) = 1..Len(q)
    BY <1>1 DEF Closures
  <2>3. QED
    BY <1>1, <2>1, <2>2, IntervalLen
<1>5. QED
  BY <1>1, <1>3, <1>4 DEF Closures

LEMMA ClosuresAppend == ASSUME NEW q \in Seq(Node), NEW n \in Node
                        PROVE Closures(Append(q, n)) = Append(Closures(q), n.fn)
<1>1. n.fn \in Fn
  BY DEF Node
<1> DEFINE a == Closures(Append(q, n))
           b == Append(Closures(q), n.fn)
<1>2. a \in Seq(Fn) /\ Len(a) = Len(q) + 1
      /\ \A i \in 1..(Len(q) + 1) : a[i] = Append(q, n)[i].fn
  <2>1. Append(q, n) \in Seq(Node) /\ Len(Append(q, n)) = Len(q) + 1
    BY AppendProperties
  <2>2. QED
    BY <2>1, ClosuresType
<1>3. b \in Seq(Fn) /\ Len(b) = Len(q) + 1 /\ b[Len(q) + 1] = n.fn
      /\ \A i \in 1..Len(q) : b[i] = q[i].fn
  BY <1>1, ClosuresType, AppendProperties
<1>4. \A i \in 1..(Len(q) + 1) : a[i] = b[i]
  BY <1>2, <1>3, AppendProperties, LenProperties
<1> HIDE DEF a, b
<1>5. a = b
  BY <1>2, <1>3, <1>4, SeqEqual
<1>6. QED
  BY <1>5 DEF a, b

LEMMA ClosuresPop == ASSUME NEW q \in Seq(Node), q # <<>>, NEW r \in Seq(Fn)
                     PROVE Append(r, q[1].fn) \o Closures(Tail(q)) = r \o Closures(q)
<1>1. /\ Tail(q) \in Seq(Node) /\ Len(Tail(q)) = Len(q) - 1
      /\ \A i \in 1..Len(Tail(q)) : Tail(q)[i] = q[i + 1]
      /\ Len(q) \in Nat \ {0}
  BY HeadTailProperties, EmptySeq
<1>2. q[1].fn \in Fn
  <2>1. q[1] \in Node
    BY <1>1, ElementOfSeq
  <2>2. QED
    BY <2>1 DEF Node
<1> DEFINE f == q[1].fn
           t == Closures(Tail(q))
           c == Closures(q)
           a == Append(r, f) \o t
           b == r \o c
<1>3. /\ t \in Seq(Fn) /\ Len(t) = Len(q) - 1
      /\ \A i \in 1..(Len(q) - 1) : t[i] = q[i + 1].fn
  BY <1>1, ClosuresType
<1>4. c \in Seq(Fn) /\ Len(c) = Len(q) /\ \A i \in 1..Len(q) : c[i] = q[i].fn
  BY ClosuresType
<1>5. /\ Append(r, f) \in Seq(Fn) /\ Len(Append(r, f)) = Len(r) + 1
      /\ \A i \in 1..Len(r) : Append(r, f)[i] = r[i]
      /\ Append(r, f)[Len(r) + 1] = f
      /\ Len(r) \in Nat
  BY <1>2, AppendProperties, LenProperties
<1> HIDE DEF t, c
<1>6. /\ a \in Seq(Fn) /\ Len(a) = Len(r) + Len(q)
      /\ \A i \in 1..(Len(r) + Len(q)) :
            a[i] = IF i <= Len(r) + 1 THEN Append(r, f)[i] ELSE t[i - (Len(r) + 1)]
  <2> DEFINE u == Append(r, f)
  <2>1. u \in Seq(Fn) /\ Len(u) = Len(r) + 1
    BY <1>5
  <2> HIDE DEF u
  <2>2. /\ u \o t \in Seq(Fn) /\ Len(u \o t) = Len(u) + Len(t)
        /\ \A i \in 1..(Len(u) + Len(t)) :
              (u \o t)[i] = IF i <= Len(u) THEN u[i] ELSE t[i - Len(u)]
    BY <1>3, <2>1, ConcatProperties
  <2>3. Len(u) + Len(t) = Len(r) + Len(q)
    BY <1>1, <1>3, <1>5, <2>1
  <2>4. /\ u \o t \in Seq(Fn) /\ Len(u \o t) = Len(r) + Len(q)
        /\ \A i \in 1..(Len(r) + Len(q)) :
              (u \o t)[i] = IF i <= Len(r) + 1 THEN u[i] ELSE t[i - (Len(r) + 1)]
    BY <2>1, <2>2, <2>3
  <2>5. QED
    BY <2>4 DEF u
<1>7. /\ b \in Seq(Fn) /\ Len(b) = Len(r) + Len(q)
      /\ \A i \in 1..(Len(r) + Len(q)) :
            b[i] = IF i <= Len(r) THEN r[i] ELSE c[i - Len(r)]
  <2>1. /\ r \o c \in Seq(Fn) /\ Len(r \o c) = Len(r) + Len(c)
        /\ \A i \in 1..(Len(r) + Len(c)) :
              (r \o c)[i] = IF i <= Len(r) THEN r[i] ELSE c[i - Len(r)]
    BY <1>4, ConcatProperties
  <2>2. QED
    BY <1>4, <2>1
<1> HIDE DEF a, b
<1>8. ASSUME NEW i \in 1..(Len(r) + Len(q)) PROVE a[i] = b[i]
  <2>1. CASE i <= Len(r)
    BY <1>1, <1>5, <1>6, <1>7, <2>1, SMTT(30)
  <2>2. CASE i = Len(r) + 1
    <3>1. a[i] = f
      BY <1>1, <1>5, <1>6, <2>2
    <3>2. b[i] = c[1]
      BY <1>1, <1>5, <1>7, <2>2
    <3>3. QED
      BY <1>1, <1>4, <3>1, <3>2
  <2>3. CASE i > Len(r) + 1
    <3>1. i - (Len(r) + 1) \in 1..(Len(q) - 1) /\ i - Len(r) \in 1..Len(q)
          /\ i - Len(r) = (i - (Len(r) + 1)) + 1
      BY <1>1, <1>5, <2>3
    <3>2. a[i] = t[i - (Len(r) + 1)] /\ b[i] = c[i - Len(r)]
      BY <1>1, <1>5, <1>6, <1>7, <2>3
    <3>3. QED
      BY <1>3, <1>4, <3>1, <3>2
  <2>4. QED
    BY <1>1, <1>5, <2>1, <2>2, <2>3
<1>9. a = b
  BY <1>6, <1>7, <1>8, SeqEqual
<1>10. QED
  BY <1>9 DEF a, b, t, c

LEMMA LineupType == ASSUME TypeOK PROVE Lineup \in Seq(Fn)
BY ClosuresType, ConcatProperties DEF Lineup, TypeOK

\* The only step that changes the line-up is tail_.exchange, which appends the
\* producer's closure.
LEMMA LineupStep ==
    ASSUME TypeOK, [Next]_vars
    PROVE  \/ /\ Lineup' = Lineup
              /\ \A p \in Producers : Pushed(p)' = Pushed(p)
           \/ \E p \in Producers :
                /\ Lineup' = Append(Lineup, Current(p))
                /\ Pushed(p) = posts[p] - 1 /\ Pushed(p)' = posts[p]
                /\ \A q \in Producers \ {p} : Pushed(q)' = Pushed(q)
<1>1. ASSUME NEW p \in Producers, EnterPost(p) \/ RaiseFlag(p) \/ ScheduleDrain(p)
      PROVE Lineup' = Lineup /\ \A q \in Producers : Pushed(q)' = Pushed(q)
  <2>1. UNCHANGED <<queue, ran>>
    BY <1>1 DEF EnterPost, RaiseFlag, ScheduleDrain, logicVars
  <2>2. CASE EnterPost(p)
    BY <2>1, <2>2 DEF EnterPost, Pushed, Lineup, TypeOK
  <2>3. CASE RaiseFlag(p) \/ ScheduleDrain(p)
    BY <2>1, <2>3 DEF RaiseFlag, ScheduleDrain, Pushed, Lineup, TypeOK
  <2>4. QED
    BY <1>1, <2>2, <2>3
<1>2. ASSUME NEW p \in Producers, ExchangeTail(p)
      PROVE /\ Lineup' = Append(Lineup, Current(p))
            /\ Pushed(p) = posts[p] - 1 /\ Pushed(p)' = posts[p]
            /\ \A q \in Producers \ {p} : Pushed(q)' = Pushed(q)
  <2> DEFINE n == [fn |-> Current(p), linked |-> FALSE]
  <2>1. n \in Node /\ n.fn = Current(p) /\ Current(p) \in Fn
    BY DEF Node, Fn, Current, TypeOK
  <2>2. queue' = Append(queue, n) /\ ran' = ran
    BY <1>2 DEF ExchangeTail, logicVars
  <2> HIDE DEF n
  <2>3. Closures(queue') = Append(Closures(queue), Current(p))
    BY <2>1, <2>2, ClosuresAppend DEF TypeOK
  <2>4. ran \in Seq(Fn) /\ Closures(queue) \in Seq(Fn) /\ <<Current(p)>> \in Seq(Fn)
    BY <2>1, ClosuresType DEF TypeOK
  <2>5. ran \o Append(Closures(queue), Current(p))
          = Append(ran \o Closures(queue), Current(p))
    <3>1. ran \o (Closures(queue) \o <<Current(p)>>)
            = (ran \o Closures(queue)) \o <<Current(p)>>
      BY <2>4, ConcatAssociative
    <3>2. ran \o Closures(queue) \in Seq(Fn)
      BY <2>4, ConcatProperties
    <3>3. QED
      BY <2>1, <2>4, <3>1, <3>2, AppendIsConcat
  <2>6. pc[p] = "push" /\ pc' = [pc EXCEPT ![p] = "link"] /\ posts' = posts
    BY <1>2 DEF ExchangeTail
  <2>7. QED
    BY <2>2, <2>3, <2>5, <2>6 DEF Lineup, Pushed, TypeOK
<1>3. ASSUME NEW p \in Producers, LinkNode(p)
      PROVE Lineup' = Lineup /\ \A q \in Producers : Pushed(q)' = Pushed(q)
  <2>1. /\ DOMAIN queue' = DOMAIN queue /\ ran' = ran
        /\ \A i \in DOMAIN queue : queue'[i].fn = queue[i].fn
    BY <1>3, NodeTypes DEF LinkNode, Node, logicVars
  <2>2. Closures(queue') = Closures(queue)
    BY <2>1 DEF Closures
  <2>3. \A q \in Producers : Pushed(q)' = Pushed(q)
    BY <1>3 DEF LinkNode, Pushed, TypeOK
  <2>4. QED
    BY <2>1, <2>2, <2>3 DEF Lineup
<1>4. CASE PopNode
  <2>1. queue # <<>> /\ queue' = Tail(queue) /\ ran' = Append(ran, queue[1].fn)
        /\ UNCHANGED <<pc, posts>>
    BY <1>4 DEF PopNode, HeadVisible, producerVars
  <2>2. QED
    BY <2>1, ClosuresPop DEF Lineup, Pushed, TypeOK
<1>5. CASE (Logic /\ ~PopNode) \/ PostInline \/ Shutdown \/ UNCHANGED vars
  <2>1. UNCHANGED <<queue, ran, pc, posts>>
    BY <1>5 DEF Logic, StartDrain, CallReturns, EndBatch, DrainPublish, LowerFlag,
       FlushStore, CheckEmpty, Rearm, PostInline, Shutdown, CloseApp, FinishLoop,
       ExitLoop, producerVars, logicVars, vars
  <2>2. QED
    BY <2>1 DEF Lineup, Pushed
<1>6. QED
  BY <1>1, <1>2, <1>3, <1>4, <1>5 DEF Next, Post, Logic

OrderInv == ProducerOrder /\ NoPostLost

LEMMA OrderInit == Init => OrderInv
<1> SUFFICES ASSUME Init PROVE OrderInv
  OBVIOUS
<1>1. Lineup = <<>>
  <2>1. <<>> \in Seq(Node) /\ <<>> \in Seq(Fn) /\ Len(<<>>) = 0
    BY EmptySeq
  <2>2. Closures(<<>>) \in Seq(Fn) /\ Len(Closures(<<>>)) = 0
    BY <2>1, ClosuresType
  <2>3. Closures(<<>>) = <<>>
    BY <2>2, EmptySeq
  <2>4. QED
    BY <2>1, <2>3, ConcatEmptySeq DEF Init, Lineup
<1>2. \A p \in Producers : Pushed(p) = 0
  BY DEF Init, Pushed
<1>3. QED
  BY <1>1, <1>2 DEF OrderInv, ProducerOrder, NoPostLost

LEMMA OrderStep == ASSUME TypeOK, OrderInv, [Next]_vars PROVE OrderInv'
<1> USE DEF OrderInv
<1>1. CASE Lineup' = Lineup /\ \A p \in Producers : Pushed(p)' = Pushed(p)
  <2>1. ProducerOrder'
    BY <1>1 DEF ProducerOrder
  <2>2. NoPostLost'
    BY <1>1 DEF NoPostLost
  <2>3. QED
    BY <2>1, <2>2
<1>2. ASSUME NEW p \in Producers,
             Lineup' = Append(Lineup, Current(p)),
             Pushed(p) = posts[p] - 1, Pushed(p)' = posts[p],
             \A q \in Producers \ {p} : Pushed(q)' = Pushed(q)
      PROVE  OrderInv'
  <2> DEFINE l == Lineup
             k == Lineup'
             m == Len(Lineup)
  <2>1. /\ Current(p) \in Fn /\ Current(p).by = p /\ Current(p).no = posts[p]
        /\ posts[p] \in Nat
    BY DEF Current, Fn, TypeOK
  <2>2. /\ l \in Seq(Fn) /\ m \in Nat /\ DOMAIN l = 1..m
        /\ \A i \in 1..m : l[i].by \in Producers /\ l[i].no \in Nat
    <3>1. l \in Seq(Fn)
      BY LineupType
    <3>2. m \in Nat /\ DOMAIN l = 1..m /\ \A i \in 1..m : l[i] \in Fn
      BY <3>1, LenProperties
    <3>3. QED
      BY <3>1, <3>2 DEF Fn
  <2>3. /\ DOMAIN k = 1..(m + 1) /\ k[m + 1] = Current(p)
        /\ \A i \in 1..m : k[i] = l[i]
    BY <1>2, <2>1, <2>2, AppendProperties, LenProperties
  <2>4. \A i \in 1..m : l[i].no <= Pushed(l[i].by)
    BY <2>2 DEF NoPostLost
  <2> HIDE DEF l, k, m
  <2>5. ASSUME NEW i \in DOMAIN k, NEW j \in DOMAIN k, i < j, k[i].by = k[j].by
        PROVE  k[i].no < k[j].no
    <3>1. CASE j = m + 1
      BY <1>2, <2>1, <2>2, <2>3, <2>4, <2>5, <3>1
    <3>2. CASE j # m + 1
      <4>1. i \in DOMAIN l /\ j \in DOMAIN l
        BY <2>2, <2>3, <2>5, <3>2
      <4>2. QED
        BY <2>2, <2>3, <2>5, <4>1 DEF ProducerOrder, l
    <3>3. QED
      BY <3>1, <3>2
  <2>6. ASSUME NEW q \in Producers, NEW n \in 1..Pushed(q)'
        PROVE  \E i \in DOMAIN k : k[i] = [by |-> q, no |-> n]
    <3>1. CASE q = p /\ n = posts[p]
      BY <2>2, <2>3, <3>1 DEF Current
    <3>2. CASE ~(q = p /\ n = posts[p])
      <4>1. n \in 1..Pushed(q)
        <5>1. CASE q = p
          BY <1>2, <2>1, <2>6, <3>2, <5>1
        <5>2. CASE q # p
          BY <1>2, <2>6, <5>2
        <5>3. QED
          BY <5>1, <5>2
      <4>2. PICK i \in DOMAIN l : l[i] = [by |-> q, no |-> n]
        BY <4>1 DEF NoPostLost, l
      <4>3. QED
        BY <2>2, <2>3, <4>2
    <3>3. QED
      BY <3>1, <3>2
  <2>7. ASSUME NEW q \in Producers, NEW i \in DOMAIN k, k[i].by = q
        PROVE  k[i].no <= Pushed(q)'
    <3>1. CASE i = m + 1
      BY <1>2, <2>1, <2>3, <2>7, <3>1
    <3>2. CASE i # m + 1
      <4>1. i \in 1..m /\ k[i] = l[i]
        BY <2>2, <2>3, <2>7, <3>2
      <4>2. l[i].no <= Pushed(q) /\ l[i].no \in Nat
        BY <2>2, <2>4, <2>7, <4>1
      <4>3. CASE q = p
        BY <1>2, <2>1, <4>1, <4>2, <4>3
      <4>4. CASE q # p
        BY <1>2, <4>1, <4>2, <4>4
      <4>5. QED
        BY <4>3, <4>4
    <3>3. QED
      BY <3>1, <3>2
  <2>8. ProducerOrder'
    BY <2>5 DEF ProducerOrder, k
  <2>9. NoPostLost'
    BY <2>6, <2>7 DEF NoPostLost, k
  <2>10. QED
    BY <2>8, <2>9
<1>3. QED
  BY <1>1, <1>2, LineupStep

\* Under either memory model the closures of one producer run in the order it
\* posted them, and none is lost or run twice.
THEOREM OrderKept == SafeSpec => [](ProducerOrder /\ NoPostLost)
<1>1. Init => TypeOK /\ OrderInv
  BY TypeInit, OrderInit
<1>2. TypeOK /\ OrderInv /\ [Next]_vars => (TypeOK /\ OrderInv)'
  BY TypeStep, OrderStep
<1>3. QED
  BY <1>1, <1>2, PTL DEF SafeSpec, OrderInv

-----------------------------------------------------------------------------
(* The publish tail. *)

\* Whatever a drain ran is published before the logic thread sleeps or leaves.
THEOREM PublishedFirst == SafeSpec => []PublishedBeforeRest
<1> USE DEF PublishedBeforeRest
<1>1. Init => PublishedBeforeRest
  BY DEF Init
<1>2. TypeOK /\ PublishedBeforeRest /\ [Next]_vars => PublishedBeforeRest'
  <2> SUFFICES ASSUME TypeOK, PublishedBeforeRest, [Next]_vars
               PROVE  PublishedBeforeRest'
    OBVIOUS
  <2>1. ASSUME NEW p \in Producers, Post(p) PROVE PublishedBeforeRest'
    BY <2>1 DEF Post, EnterPost, ExchangeTail, LinkNode, RaiseFlag, ScheduleDrain,
       logicVars
  <2>2. CASE StartDrain \/ PopNode \/ CallReturns \/ EndBatch \/ DrainPublish
    BY <2>2 DEF StartDrain, PopNode, CallReturns, EndBatch, DrainPublish
  <2>3. CASE LowerFlag \/ FlushStore \/ CheckEmpty \/ Rearm
    BY <2>3 DEF LowerFlag, FlushStore, CheckEmpty, Rearm, logicVars
  <2>4. CASE PostInline
    <3>1. CASE lpc = "call"
      BY <2>4, <3>1 DEF PostInline
    <3>2. CASE dirty' = FALSE
      BY <3>2
    <3>3. QED
      BY <2>4, <3>1, <3>2 DEF PostInline
  <2>5. CASE Shutdown
    BY <2>5 DEF Shutdown, CloseApp, FinishLoop, ExitLoop, logicVars
  <2>6. CASE UNCHANGED vars
    BY <2>6 DEF vars
  <2>7. QED
    BY <2>1, <2>2, <2>3, <2>4, <2>5, <2>6 DEF Next, Logic
<1>3. QED
  BY <1>1, <1>2, TypeCorrect, PTL DEF SafeSpec

-----------------------------------------------------------------------------
(* The mailbox. *)

\* The call in progress is within the bound.
BoundInv == \A p \in Producers : pc[p] # "out" => posts[p] \in 1..MaxPosts

LEMMA BoundStep == ASSUME TypeOK, BoundInv, [Next]_vars PROVE BoundInv'
<1>1. ASSUME NEW p \in Producers, EnterPost(p) PROVE BoundInv'
  <2>1. /\ posts'[p] = posts[p] + 1 /\ posts[p] < MaxPosts /\ posts[p] \in Nat
        /\ \A q \in Producers \ {p} : pc'[q] = pc[q] /\ posts'[q] = posts[q]
    BY <1>1 DEF EnterPost, TypeOK
  <2>2. posts'[p] \in 1..MaxPosts
    BY <2>1, ConstantsAssumption DEF ConstantsAssumption
  <2>3. QED
    BY <2>1, <2>2 DEF BoundInv
<1>2. ASSUME NEW p \in Producers,
             ExchangeTail(p) \/ LinkNode(p) \/ RaiseFlag(p) \/ ScheduleDrain(p)
      PROVE BoundInv'
  <2>1. /\ posts' = posts /\ pc[p] # "out"
        /\ \A q \in Producers \ {p} : pc'[q] = pc[q]
    BY <1>2 DEF ExchangeTail, LinkNode, RaiseFlag, ScheduleDrain, TypeOK
  <2>2. QED
    BY <2>1 DEF BoundInv
<1>3. CASE Logic \/ PostInline \/ Shutdown \/ UNCHANGED vars
  <2>1. UNCHANGED <<pc, posts>>
    BY <1>3 DEF Logic, StartDrain, PopNode, CallReturns, EndBatch, DrainPublish,
       LowerFlag, FlushStore, CheckEmpty, Rearm, PostInline, Shutdown, CloseApp,
       FinishLoop, ExitLoop, producerVars, vars
  <2>2. QED
    BY <2>1 DEF BoundInv
<1>4. QED
  BY <1>1, <1>2, <1>3 DEF Next, Post

LEMMA MailboxStep ==
    ASSUME TypeOK, OrderInv, BoundInv, [Next]_vars
    PROVE  [Mailbox!Next]_(Mailbox!vars)
<1> USE DEF Mailbox!Next, Mailbox!vars
<1>1. ASSUME NEW p \in Producers, ExchangeTail(p) PROVE Mailbox!Next
  <2>1. posts[p] \in 1..MaxPosts
    BY <1>1 DEF BoundInv, ExchangeTail
  <2>2. Current(p) \in [by : Producers, no : 1..MaxPosts]
    BY <2>1 DEF Current
  <2>3. Closures(queue') = Append(Closures(queue), Current(p))
    <3> DEFINE n == [fn |-> Current(p), linked |-> FALSE]
    <3>1. n \in Node /\ n.fn = Current(p)
      BY DEF Node, Fn, Current, TypeOK
    <3>2. queue' = Append(queue, n)
      BY <1>1 DEF ExchangeTail
    <3> HIDE DEF n
    <3>3. QED
      BY <3>1, <3>2, ClosuresAppend DEF TypeOK
  <2>4. \A i \in DOMAIN Lineup : Lineup[i] # Current(p)
    <3>1. Pushed(p) = posts[p] - 1 /\ posts[p] \in Nat
      BY <1>1 DEF ExchangeTail, Pushed, TypeOK
    <3>2. Current(p).by = p /\ Current(p).no = posts[p]
      BY DEF Current
    <3>3. QED
      BY <3>1, <3>2 DEF OrderInv, NoPostLost
  <2>5. Current(p) \notin ToSet(Closures(queue)) \cup ToSet(ran)
    <3>1. ran \in Seq(Fn) /\ Closures(queue) \in Seq(Fn)
      BY ClosuresType DEF TypeOK
    <3>2. ASSUME NEW i \in DOMAIN ran PROVE ran[i] # Current(p)
      <4>1. i \in DOMAIN Lineup /\ Lineup[i] = ran[i]
        BY <3>1, <3>2, ConcatProperties, LenProperties DEF Lineup
      <4>2. QED
        BY <2>4, <4>1
    <3>3. ASSUME NEW i \in DOMAIN Closures(queue)
          PROVE  Closures(queue)[i] # Current(p)
      <4> DEFINE c == Closures(queue)
                 j == i + Len(ran)
      <4>1. c \in Seq(Fn) /\ i \in 1..Len(c) /\ Len(c) \in Nat /\ Len(ran) \in Nat
        BY <3>1, <3>3, LenProperties
      <4> HIDE DEF c
      <4>2. /\ ran \o c \in Seq(Fn) /\ Len(ran \o c) = Len(ran) + Len(c)
            /\ \A k \in 1..(Len(ran) + Len(c)) :
                  (ran \o c)[k] = IF k <= Len(ran) THEN ran[k] ELSE c[k - Len(ran)]
        BY <3>1, <4>1, ConcatProperties
      <4>3. j \in 1..(Len(ran) + Len(c)) /\ ~(j <= Len(ran)) /\ j - Len(ran) = i
        BY <4>1
      <4>4. j \in DOMAIN (ran \o c) /\ (ran \o c)[j] = c[i]
        BY <4>1, <4>2, <4>3, LenProperties
      <4>5. QED
        BY <2>4, <4>4 DEF Lineup, c
    <3>4. QED
      BY <3>2, <3>3 DEF ToSet
  <2>6. ran' = ran /\ lpc' = lpc
    BY <1>1 DEF ExchangeTail, logicVars
  <2>7. Mailbox!Accept(Current(p))
    BY <2>3, <2>5, <2>6 DEF Mailbox!Accept, Mailbox!ToSet, ToSet
  <2>8. QED
    BY <2>2, <2>7
<1>2. ASSUME NEW p \in Producers,
             EnterPost(p) \/ LinkNode(p) \/ RaiseFlag(p) \/ ScheduleDrain(p)
      PROVE UNCHANGED Mailbox!vars
  <2>1. ran' = ran /\ lpc' = lpc
    BY <1>2 DEF EnterPost, LinkNode, RaiseFlag, ScheduleDrain, logicVars
  <2>2. CASE LinkNode(p)
    <3>1. /\ DOMAIN queue' = DOMAIN queue
          /\ \A i \in DOMAIN queue : queue'[i].fn = queue[i].fn
      BY <2>2, NodeTypes DEF LinkNode, Node
    <3>2. Closures(queue') = Closures(queue)
      BY <3>1 DEF Closures
    <3>3. QED
      BY <2>1, <3>2
  <2>3. CASE EnterPost(p) \/ RaiseFlag(p) \/ ScheduleDrain(p)
    <3>1. queue' = queue
      BY <2>3 DEF EnterPost, RaiseFlag, ScheduleDrain
    <3>2. QED
      BY <2>1, <3>1
  <2>4. QED
    BY <1>2, <2>2, <2>3
<1>3. CASE PopNode
  <2> DEFINE c == Closures(queue)
             d == Closures(queue')
  <2>1. /\ queue # <<>> /\ queue' = Tail(queue) /\ ran' = Append(ran, queue[1].fn)
        /\ lpc = "pop" /\ lpc' = "call" /\ queue \in Seq(Node)
    BY <1>3 DEF PopNode, HeadVisible, TypeOK
  <2>2. /\ queue' \in Seq(Node) /\ Len(queue') = Len(queue) - 1
        /\ Len(queue) \in Nat \ {0}
        /\ \A i \in 1..Len(queue') : queue'[i] = queue[i + 1]
    BY <2>1, HeadTailProperties, EmptySeq
  <2>3. c \in Seq(Fn) /\ Len(c) = Len(queue) /\ \A i \in 1..Len(queue) : c[i] = queue[i].fn
    BY <2>1, ClosuresType
  <2>4. d \in Seq(Fn) /\ Len(d) = Len(queue')
        /\ \A i \in 1..Len(queue') : d[i] = queue'[i].fn
    BY <2>2, ClosuresType
  <2> HIDE DEF c, d
  <2>5. c # <<>> /\ Head(c) = queue[1].fn
    <3>1. Len(c) # 0
      BY <2>2, <2>3
    <3>2. c # <<>>
      BY <3>1, EmptySeq
    <3>3. Head(c) = c[1]
      BY <2>3, <3>2
    <3>4. QED
      BY <2>2, <2>3, <3>2, <3>3
  <2>6. Tail(c) = d
    <3>1. /\ Tail(c) \in Seq(Fn) /\ Len(Tail(c)) = Len(c) - 1
          /\ \A i \in 1..Len(Tail(c)) : Tail(c)[i] = c[i + 1]
      BY <2>3, <2>5, HeadTailProperties
    <3>2. \A i \in 1..Len(Tail(c)) : Tail(c)[i] = d[i]
      BY <2>2, <2>3, <2>4, <3>1
    <3>3. QED
      BY <2>2, <2>3, <2>4, <3>1, <3>2, SeqEqual
  <2>7. Mailbox!Execute
    BY <2>1, <2>5, <2>6 DEF Mailbox!Execute, c, d
  <2>8. QED
    BY <2>7
<1>4. CASE ExitLoop
  <2>1. UNCHANGED <<queue, ran>> /\ lpc = "idle" /\ lpc' = "exited"
    BY <1>4 DEF ExitLoop
  <2>2. QED
    BY <2>1 DEF Mailbox!Stop
<1>5. CASE (Logic /\ ~PopNode) \/ PostInline \/ CloseApp \/ FinishLoop \/ UNCHANGED vars
  <2>1. UNCHANGED <<queue, ran>>
    BY <1>5 DEF Logic, StartDrain, CallReturns, EndBatch, DrainPublish, LowerFlag,
       FlushStore, CheckEmpty, Rearm, PostInline, CloseApp, FinishLoop,
       logicVars, vars
  <2>2. (lpc = "exited") = (lpc' = "exited")
    BY <1>5 DEF Logic, StartDrain, CallReturns, EndBatch, DrainPublish, LowerFlag,
       FlushStore, CheckEmpty, Rearm, PostInline, CloseApp, FinishLoop,
       logicVars, vars
  <2>3. QED
    BY <2>1, <2>2
<1>6. QED
  BY <1>1, <1>2, <1>3, <1>4, <1>5 DEF Next, Post, Logic, Shutdown

LEMMA MailboxInit == Init => Mailbox!Init
<1> SUFFICES ASSUME Init PROVE Mailbox!Init
  OBVIOUS
<1>1. Closures(<<>>) = <<>>
  <2>1. <<>> \in Seq(Node) /\ Len(<<>>) = 0
    BY EmptySeq
  <2>2. Closures(<<>>) \in Seq(Fn) /\ Len(Closures(<<>>)) = 0
    BY <2>1, ClosuresType
  <2>3. QED
    BY <2>2, EmptySeq
<1>2. QED
  BY <1>1 DEF Init, Mailbox!Init

\* Linked list, flag and run_loop task together behave as the mailbox: a closure
\* is accepted when tail_ is exchanged, and executed in order of acceptance.
THEOREM MailboxImplemented == SafeSpec => Mailbox!SafeSpec
<1>1. Init => TypeOK /\ OrderInv /\ BoundInv /\ Mailbox!Init
  BY TypeInit, OrderInit, MailboxInit DEF Init, BoundInv
<1>2. TypeOK /\ OrderInv /\ BoundInv /\ [Next]_vars
        => (TypeOK /\ OrderInv /\ BoundInv)' /\ [Mailbox!Next]_(Mailbox!vars)
  BY TypeStep, OrderStep, BoundStep, MailboxStep
<1>3. QED
  BY <1>1, <1>2, PTL DEF SafeSpec, Mailbox!SafeSpec
=============================================================================
