---------------------------- MODULE SignalsProofs ----------------------------
(***************************************************************************)
(* Theorems about the scenes of MCSignals, for any producers, observers,   *)
(* graph of cells, guards and Animations, and any bounds.                  *)
(*                                                                         *)
(* Shared.  Type correctness and FirstCatchesUp hold whatever observers    *)
(* do.  LatestDelivered speaks of the time before an observer first posts  *)
(* or throws and NeverBackwards of the time before one posts, so their     *)
(* invariants are implications from the counters of posts and throws.      *)
(*                                                                         *)
(* Channel.  What an observer is called with stands in the order the queue *)
(* took it, and a drain that is over has called every observer exactly     *)
(* once with every item it took, unless an observer threw.  The queue is   *)
(* what is left of the items sent; one that was taken is being emitted by  *)
(* one call of drain_notifications or was delivered to everyone, and an    *)
(* emission at observer n was delivered to those below n and no other.     *)
(*                                                                         *)
(* Reactive.  No transaction leaves an emission behind, by a count of the  *)
(* calls that hold the depth up; and the graph converges, by what is owed: *)
(* a receiver that does not agree with its cells is still to be called, by *)
(* an emission in progress, by a wave or by the one after it.              *)
(*                                                                         *)
(* Animation.  The clock is a sequence that grows at the end by drivers    *)
(* that are not in it and from which any may be taken; a tick goes through *)
(* a copy of it.  That it has each active driver once, and that the copy   *)
(* has no driver twice, is inductive.                                      *)
(***************************************************************************)
EXTENDS MCSignals, SequencesExt, Subsequence, FiniteSetTheorems, SequenceTheorems, TLAPS

-----------------------------------------------------------------------------
(* Shared. *)

\* A set whose flag is still to come.
Announced == pending \/ \E p \in Producers : pc[p] = "flag"

\* A drain that is not the innermost waits inside a call to an observer, so it
\* has called the first one already.
Buried == \A i \in 2..Len(frames) : frames[i].at = "emit" /\ frames[i].next >= 2

\* An emission about to call the first observer carries the newest value, or a
\* later drain is sure to.
EmitFresh ==
    Running /\ Top.at = "emit" /\ Top.next = 1 => Top.val = cell \/ Announced

CatchInv == Buried /\ EmitFresh /\ FirstCatchesUp

\* What observers that do not post keep: one drain at a time.
Alone == frames = <<>> \/ \E f \in Frame : frames = <<f>>

\* An emission carries the newest value, or a later drain is sure to.
EmitCurrent == Running /\ Top.at = "emit" => Top.val = cell \/ Announced

\* A flag that is up has a drain to come.
FlagServed ==
    pending => \/ wake
               \/ Running /\ Top.at = "test"
               \/ \E p \in Producers : pc[p] = "post"

\* Each observer is behind only while something will bring it up to date.
EachCatchesUp ==
    \A o \in 1..Observers :
        \/ seen[o] = cell
        \/ Announced
        \/ Running /\ Top.at = "load"
        \/ Running /\ Top.at = "emit" /\ Top.val = cell /\ Top.next <= o

LatestInv == Alone /\ FlagServed /\ EmitCurrent /\ EachCatchesUp

\* Nobody has seen the future, and an emission is no older than what the
\* observers it has yet to call have seen.
Monotone ==
    /\ \A o \in 1..Observers : seen[o] <= cell
    /\ Running /\ Top.at = "emit" =>
          /\ Top.val <= cell
          /\ \A o \in 1..Observers : o >= Top.next => seen[o] <= Top.val

ForwardInv == Alone /\ Monotone
-----------------------------------------------------------------------------
(* Stacks of drains. *)

LEMMA ReplaceTop ==
    ASSUME NEW S, NEW s \in Seq(S), s # <<>>, NEW f \in S
    PROVE  /\ <<f>> \o Tail(s) \in Seq(S)
           /\ Len(<<f>> \o Tail(s)) = Len(s)
           /\ (<<f>> \o Tail(s))[1] = f
           /\ \A i \in 2..Len(s) : (<<f>> \o Tail(s))[i] = s[i]
<1>1. /\ Tail(s) \in Seq(S)
      /\ Len(Tail(s)) = Len(s) - 1
      /\ \A i \in 1..Len(Tail(s)) : Tail(s)[i] = s[i + 1]
  BY HeadTailProperties
<1>2. <<f>> \in Seq(S) /\ Len(<<f>>) = 1 /\ <<f>>[1] = f
  OBVIOUS
<1>3. Len(s) \in Nat
  BY LenProperties
<1>4. QED
  BY <1>1, <1>2, <1>3, ConcatProperties

LEMMA PushTop ==
    ASSUME NEW S, NEW s \in Seq(S), NEW f \in S
    PROVE  /\ <<f>> \o s \in Seq(S)
           /\ Len(<<f>> \o s) = Len(s) + 1
           /\ (<<f>> \o s)[1] = f
           /\ \A i \in 2..Len(s) + 1 : (<<f>> \o s)[i] = s[i - 1]
<1>1. <<f>> \in Seq(S) /\ Len(<<f>>) = 1 /\ <<f>>[1] = f
  OBVIOUS
<1>2. Len(s) \in Nat
  BY LenProperties
<1>3. QED
  BY <1>1, <1>2, ConcatProperties

LEMMA PopTop ==
    ASSUME NEW S, NEW s \in Seq(S), s # <<>>
    PROVE  /\ Tail(s) \in Seq(S)
           /\ Len(Tail(s)) = Len(s) - 1
           /\ \A i \in 1..Len(s) - 1 : Tail(s)[i] = s[i + 1]
           /\ s[1] = Head(s) /\ s[1] \in S /\ Len(s) \in Nat \ {0}
BY HeadTailProperties, LenProperties, EmptySeq

\* The drain pushed by a post, and the emission whose next call is made.
LEMMA NewDrainFrame == NewDrain \in Frame
BY ConstantsAssumption DEF NewDrain, Frame

LEMMA AdvancedFrame ==
    ASSUME frames \in Seq(Frame), Running, Top.next <= Observers
    PROVE  [Top EXCEPT !.next = @ + 1] \in Frame
<1>1. Top \in Frame
  BY PopTop DEF Top, Running
<1>2. QED
  BY <1>1, ConstantsAssumption, SMTT(30) DEF Frame

-----------------------------------------------------------------------------
(* Type correctness. *)

\* TypeOK in two parts: the stack, and everything else.
FlatTypes ==
    /\ cell \in 0..MaxSets
    /\ pending \in BOOLEAN
    /\ pc \in [Producers -> {"out", "flag", "post"}]
    /\ wake \in BOOLEAN
    /\ reentered \in 0..MaxReenter
    /\ thrown \in 0..MaxThrows
    /\ seen \in [1..Observers -> 0..MaxSets]

LEMMA TypeParts == TypeOK <=> frames \in Seq(Frame) /\ FlatTypes
BY DEF TypeOK, FlatTypes

LEMMA TypeInit == Init => TypeOK
<1> SUFFICES ASSUME Init PROVE frames \in Seq(Frame) /\ FlatTypes
  BY TypeParts
<1>1. frames \in Seq(Frame)
  BY DEF Init
<1>2. FlatTypes
  <2>1. 0 \in 0..MaxSets /\ 0 \in 0..MaxReenter /\ 0 \in 0..MaxThrows
    BY ConstantsAssumption DEF ConstantsAssumption
  <2>2. pc \in [Producers -> {"out", "flag", "post"}]
    BY DEF Init
  <2>3. seen \in [1..Observers -> 0..MaxSets]
    BY <2>1 DEF Init
  <2>4. QED
    BY <2>1, <2>2, <2>3 DEF Init, FlatTypes
<1>3. QED
  BY <1>1, <1>2

\* What each step of the logic thread does to the stack.
LEMMA FramesTypeStep ==
    ASSUME frames \in Seq(Frame), cell \in 0..MaxSets, [Next]_vars
    PROVE  frames' \in Seq(Frame)
<1>1. CASE StartDrain
  BY <1>1, NewDrainFrame DEF StartDrain
<1>2. CASE TestPending
  <2>1. Top \in Frame /\ Tail(frames) \in Seq(Frame)
    BY <1>2, PopTop DEF TestPending, Running, Top
  <2>2. [Top EXCEPT !.at = "load"] \in Frame
    BY <2>1 DEF Frame
  <2>3. <<[Top EXCEPT !.at = "load"]>> \o Tail(frames) \in Seq(Frame)
    BY <1>2, <2>2, ReplaceTop DEF TestPending, Running
  <2>4. QED
    BY <1>2, <2>1, <2>3 DEF TestPending
<1>3. CASE LoadCell
  <2>1. [at |-> "emit", val |-> cell, next |-> 1] \in Frame
    BY ConstantsAssumption DEF Frame
  <2>2. QED
    BY <1>3, <2>1, ReplaceTop DEF LoadCell, Running
<1>4. CASE CallObserver
  BY <1>4, AdvancedFrame, ReplaceTop DEF CallObserver, Notify, Advanced, Running
<1>5. CASE CallObserverPosting
  <2>1. Advanced \in Seq(Frame)
    BY <1>5, AdvancedFrame, ReplaceTop DEF CallObserverPosting, Notify, Advanced, Running
  <2>2. QED
    BY <1>5, <2>1, NewDrainFrame, PushTop DEF CallObserverPosting
<1>6. CASE CallObserverThrowing
  BY <1>6 DEF CallObserverThrowing
<1>7. CASE EmitDone
  BY <1>7, PopTop DEF EmitDone, Running
<1>8. ASSUME NEW p \in Producers, StoreCell(p) \/ InSet(p) PROVE frames' = frames
  BY <1>8 DEF StoreCell, InSet, RaisePending, PostWake
<1>9. CASE UNCHANGED vars
  BY <1>9 DEF vars
<1>10. QED
  BY <1>1, <1>2, <1>3, <1>4, <1>5, <1>6, <1>7, <1>8, <1>9 DEF Next, Logic

LEMMA FlatTypeStep ==
    ASSUME frames \in Seq(Frame), FlatTypes, [Next]_vars PROVE FlatTypes'
<1> USE DEF FlatTypes
<1>1. ASSUME NEW p \in Producers, StoreCell(p) PROVE FlatTypes'
  BY <1>1, ConstantsAssumption DEF StoreCell, boundVars
<1>2. ASSUME NEW p \in Producers, InSet(p) PROVE FlatTypes'
  BY <1>2 DEF InSet, RaisePending, PostWake, boundVars
<1>3. CASE StartDrain \/ TestPending \/ LoadCell \/ EmitDone
  BY <1>3 DEF StartDrain, TestPending, LoadCell, EmitDone, boundVars
<1>4. ASSUME Notify PROVE seen' \in [1..Observers -> 0..MaxSets]
  <2>1. Top \in Frame
    BY <1>4, PopTop DEF Notify, Running, Top
  <2>2. QED
    BY <1>4, <2>1, ConstantsAssumption DEF Notify, Frame
<1>5. CASE CallObserver
  BY <1>4, <1>5 DEF CallObserver, boundVars
<1>6. CASE CallObserverPosting
  BY <1>4, <1>6, ConstantsAssumption DEF CallObserverPosting
<1>7. CASE CallObserverThrowing
  BY <1>4, <1>7, ConstantsAssumption DEF CallObserverThrowing
<1>8. CASE UNCHANGED vars
  BY <1>8 DEF vars, boundVars
<1>9. QED
  BY <1>1, <1>2, <1>3, <1>5, <1>6, <1>7, <1>8 DEF Next, Logic

LEMMA TypeStep == ASSUME TypeOK, [Next]_vars PROVE TypeOK'
<1>1. frames \in Seq(Frame) /\ FlatTypes /\ cell \in 0..MaxSets
  BY TypeParts DEF TypeOK
<1>2. frames' \in Seq(Frame) /\ FlatTypes'
  BY <1>1, FramesTypeStep, FlatTypeStep
<1>3. QED
  BY <1>2 DEF TypeOK, FlatTypes

\* Every reachable state of Shared is typed: the emission cursor of every drain in
\* progress stays within one past the observers, whatever posts and throws.
THEOREM TypeCorrect == SafeSpec => []TypeOK
BY TypeInit, TypeStep, PTL DEF SafeSpec
-----------------------------------------------------------------------------
(* The first observer catches up. *)

LEMMA CatchInit == Init => CatchInv
BY ConstantsAssumption DEF Init, CatchInv, Buried, EmitFresh, FirstCatchesUp, Running

\* A producer leaves the drains alone; a set in progress or a raised flag is
\* announced.
LEMMA CatchProducer ==
    ASSUME TypeOK, CatchInv, NEW p \in Producers, StoreCell(p) \/ InSet(p)
    PROVE  CatchInv'
<1> USE DEF TypeOK
<1>1. UNCHANGED <<frames, seen>>
  BY DEF StoreCell, InSet, RaisePending, PostWake
<1>2. Buried'
  BY <1>1 DEF CatchInv, Buried
<1>3. CASE StoreCell(p) \/ RaisePending(p)
  <2>1. Announced'
    <3>1. CASE StoreCell(p)
      <4>1. pc'[p] = "flag"
        BY <3>1 DEF StoreCell
      <4>2. QED
        BY <4>1 DEF Announced
    <3>2. CASE RaisePending(p)
      BY <3>2 DEF RaisePending, Announced
    <3>3. QED
      BY <1>3, <3>1, <3>2
  <2>2. QED
    BY <1>2, <2>1 DEF CatchInv, EmitFresh, FirstCatchesUp, Announced
<1>4. CASE PostWake(p)
  <2>1. UNCHANGED <<cell, pending, frames, seen>>
    BY <1>4 DEF PostWake
  <2>2. \A q \in Producers : pc[q] = "flag" => pc'[q] = "flag"
    BY <1>4 DEF PostWake
  <2>3. EmitFresh'
    BY <2>1, <2>2 DEF CatchInv, EmitFresh, Announced, Running, Top
  <2>4. FirstCatchesUp'
    BY <2>1, <2>2 DEF CatchInv, FirstCatchesUp, Running, Top
  <2>5. QED
    BY <1>2, <2>3, <2>4 DEF CatchInv
<1>5. QED
  BY <1>3, <1>4 DEF InSet

\* Popping the innermost drain exposes one that has called the first observer.
LEMMA CatchPop ==
    ASSUME TypeOK, CatchInv, Running, frames' = Tail(frames),
           UNCHANGED <<cell, pending, pc, seen>>,
           Top.at # "load", Top.at = "emit" => Top.next # 1
    PROVE  CatchInv'
<1>1. frames \in Seq(Frame) /\ frames # <<>>
  BY DEF TypeOK, Running
<1>2. /\ Tail(frames) \in Seq(Frame)
      /\ Len(Tail(frames)) = Len(frames) - 1
      /\ \A i \in 1..Len(frames) - 1 : Tail(frames)[i] = frames[i + 1]
      /\ Len(frames) \in Nat \ {0}
  BY <1>1, PopTop
<1>3. \A i \in 1..Len(frames') : frames'[i].at = "emit" /\ frames'[i].next >= 2
  BY <1>2 DEF CatchInv, Buried
<1>4. Buried'
  BY <1>2, <1>3 DEF Buried
<1>5. Running' => Top'.next >= 2
  <2>1. ASSUME Running' PROVE frames' # <<>> /\ frames' \in Seq(Frame)
    BY <1>2, <2>1 DEF Running
  <2>2. ASSUME Running' PROVE Top' = frames'[1] /\ 1 \in 1..Len(frames')
    BY <2>1, <2>2, PopTop DEF Top
  <2>3. QED
    BY <1>3, <2>2
<1>6. EmitFresh'
  BY <1>5 DEF EmitFresh
<1>7. FirstCatchesUp'
  BY DEF CatchInv, FirstCatchesUp
<1>8. QED
  BY <1>4, <1>6, <1>7 DEF CatchInv

\* The innermost drain moves on; the ones below it stay buried.
LEMMA BuriedReplace ==
    ASSUME TypeOK, Buried, Running, NEW f \in Frame, frames' = <<f>> \o Tail(frames)
    PROVE  Buried' /\ Running' /\ Top' = f
<1>1. frames \in Seq(Frame) /\ frames # <<>>
  BY DEF TypeOK, Running
<1>2. /\ frames' \in Seq(Frame)
      /\ Len(frames') = Len(frames)
      /\ frames'[1] = f
      /\ \A i \in 2..Len(frames) : frames'[i] = frames[i]
  BY <1>1, ReplaceTop
<1>3. frames' # <<>>
  BY <1>1, <1>2, PopTop
<1>4. Top' = f
  BY <1>2, <1>3, PopTop DEF Top
<1>5. QED
  BY <1>2, <1>3, <1>4 DEF Buried, Running

\* A called observer is brought to the emission's value; the first is then level
\* with the cell, or a later set is announced.
LEMMA CatchNotify ==
    ASSUME TypeOK, CatchInv, Notify, UNCHANGED <<cell, pending, pc>>
    PROVE  seen'[1] = cell' \/ Announced'
<1>1. Top \in Frame
  BY PopTop DEF TypeOK, Notify, Running, Top
<1>2. CASE Top.next = 1
  <2>1. seen'[1] = Top.val
    BY <1>2, ConstantsAssumption DEF TypeOK, Notify
  <2>2. QED
    BY <1>2, <2>1 DEF CatchInv, EmitFresh, Notify, Announced
<1>3. CASE Top.next # 1
  <2>1. seen'[1] = seen[1]
    BY <1>3, ConstantsAssumption DEF TypeOK, Notify
  <2>2. seen[1] = cell \/ Announced
    BY <1>3 DEF CatchInv, FirstCatchesUp, Notify, Announced
  <2>3. QED
    BY <2>1, <2>2 DEF Announced
<1>4. QED
  BY <1>2, <1>3

LEMMA CatchStep == ASSUME TypeOK, CatchInv, [Next]_vars PROVE CatchInv'
<1> USE DEF CatchInv
<1>1. CASE \E p \in Producers : StoreCell(p) \/ InSet(p)
  BY <1>1, CatchProducer
<1>2. CASE StartDrain
  <2>1. frames' = <<NewDrain>> /\ UNCHANGED <<cell, pending, pc, seen>>
    BY <1>2 DEF StartDrain
  <2>2. Buried' /\ Top' = NewDrain
    BY <2>1 DEF Buried, Top
  <2>3. EmitFresh'
    BY <2>2 DEF EmitFresh, NewDrain
  <2>4. FirstCatchesUp'
    BY <1>2, <2>1 DEF FirstCatchesUp, StartDrain
  <2>5. QED
    BY <2>2, <2>3, <2>4
<1>3. CASE TestPending
  <2>1. Top \in Frame
    BY <1>3, PopTop DEF TestPending, TypeOK, Running, Top
  <2>2. CASE pending = TRUE
    <3>1. [Top EXCEPT !.at = "load"] \in Frame /\ [Top EXCEPT !.at = "load"].at = "load"
      BY <2>1 DEF Frame
    <3>2. frames' = <<[Top EXCEPT !.at = "load"]>> \o Tail(frames)
      BY <1>3, <2>2 DEF TestPending
    <3>3. Buried' /\ Running' /\ Top' = [Top EXCEPT !.at = "load"]
      BY <1>3, <3>1, <3>2, BuriedReplace DEF TestPending
    <3>4. QED
      BY <3>1, <3>3 DEF EmitFresh, FirstCatchesUp
  <2>3. CASE pending = FALSE
    <3>1. frames' = Tail(frames) /\ UNCHANGED <<cell, pending, pc, seen>>
      BY <1>3, <2>3 DEF TestPending
    <3>2. QED
      BY <1>3, <3>1, CatchPop DEF TestPending
  <2>4. QED
    BY <2>2, <2>3 DEF TypeOK
<1>4. CASE LoadCell
  <2>1. [at |-> "emit", val |-> cell, next |-> 1] \in Frame
    BY ConstantsAssumption DEF Frame, TypeOK
  <2>2. Buried' /\ Running' /\ Top' = [at |-> "emit", val |-> cell, next |-> 1]
    BY <1>4, <2>1, BuriedReplace DEF LoadCell
  <2>3. cell' = cell
    BY <1>4 DEF LoadCell
  <2>4. QED
    BY <2>2, <2>3 DEF EmitFresh, FirstCatchesUp
<1>5. ASSUME Notify, UNCHANGED <<cell, pending, pc>> PROVE FirstCatchesUp'
  BY <1>5, CatchNotify DEF Announced, FirstCatchesUp
<1>6. ASSUME Notify
      PROVE  /\ [Top EXCEPT !.next = @ + 1] \in Frame
             /\ [Top EXCEPT !.next = @ + 1].next >= 2
             /\ [Top EXCEPT !.next = @ + 1].at = "emit"
  <2>1. Top \in Frame /\ [Top EXCEPT !.next = @ + 1] \in Frame
    BY <1>6, AdvancedFrame, PopTop DEF Notify, TypeOK, Running, Top
  <2>2. QED
    BY <1>6, <2>1 DEF Notify, Frame
<1>7. CASE CallObserver
  <2>1. Buried' /\ Top' = [Top EXCEPT !.next = @ + 1]
    BY <1>6, <1>7, BuriedReplace DEF CallObserver, Notify, Advanced
  <2>2. FirstCatchesUp'
    BY <1>5, <1>7 DEF CallObserver
  <2>3. EmitFresh'
    BY <1>6, <1>7, <2>1 DEF EmitFresh, CallObserver
  <2>4. QED
    BY <2>1, <2>2, <2>3
<1>8. CASE CallObserverPosting
  <2>1. /\ Advanced \in Seq(Frame)
        /\ Len(Advanced) = Len(frames)
        /\ Advanced[1] = [Top EXCEPT !.next = @ + 1]
        /\ \A i \in 2..Len(frames) : Advanced[i] = frames[i]
    BY <1>6, <1>8, ReplaceTop, SMTT(30) DEF CallObserverPosting, Notify, Advanced, TypeOK, Running
  <2>2. /\ frames' \in Seq(Frame)
        /\ Len(frames') = Len(frames) + 1
        /\ frames'[1] = NewDrain
        /\ \A i \in 2..Len(frames) + 1 : frames'[i] = Advanced[i - 1]
    BY <1>8, <2>1, NewDrainFrame, PushTop DEF CallObserverPosting
  <2>3. Len(frames) \in Nat \ {0}
    BY <1>8, PopTop DEF CallObserverPosting, Notify, TypeOK, Running
  <2>4. \A j \in 1..Len(frames) : Advanced[j].at = "emit" /\ Advanced[j].next >= 2
    <3>1. Advanced[1].at = "emit" /\ Advanced[1].next >= 2
      BY <1>6, <1>8, <2>1 DEF CallObserverPosting
    <3>2. \A j \in 2..Len(frames) : Advanced[j].at = "emit" /\ Advanced[j].next >= 2
      BY <2>1 DEF Buried
    <3>3. \A j \in 1..Len(frames) : j = 1 \/ j \in 2..Len(frames)
      BY <2>3
    <3>4. QED
      BY <3>1, <3>2, <3>3
  <2>5. Buried'
    BY <2>2, <2>3, <2>4 DEF Buried
  <2>6. Top' = NewDrain
    BY <2>2, <2>3, PopTop DEF Top
  <2>7. EmitFresh'
    BY <2>6 DEF EmitFresh, NewDrain
  <2>8. FirstCatchesUp'
    BY <1>5, <1>8 DEF CallObserverPosting
  <2>9. QED
    BY <2>5, <2>7, <2>8
<1>9. CASE CallObserverThrowing
  <2>1. frames' = <<>>
    BY <1>9 DEF CallObserverThrowing
  <2>2. Buried' /\ EmitFresh'
    BY <2>1 DEF Buried, EmitFresh, Running
  <2>3. QED
    BY <1>5, <1>9, <2>2 DEF CallObserverThrowing
<1>10. CASE EmitDone
  BY <1>10, CatchPop, ConstantsAssumption DEF EmitDone
<1>11. CASE UNCHANGED vars
  BY <1>11 DEF vars, Buried, EmitFresh, FirstCatchesUp, Announced, Running, Top
<1>12. QED
  BY <1>1, <1>2, <1>3, <1>4, <1>7, <1>8, <1>9, <1>10, <1>11 DEF Next, Logic

\* However producers interleave with the drain, and whatever observers post or
\* throw, the exchange of the flag never loses a set: the first observer is level
\* with the cell or a step that will bring it level is outstanding.
THEOREM FirstReached == SafeSpec => []FirstCatchesUp
<1>1. Init => TypeOK /\ CatchInv
  BY TypeInit, CatchInit
<1>2. TypeOK /\ CatchInv /\ [Next]_vars => (TypeOK /\ CatchInv)'
  BY TypeStep, CatchStep
<1>3. CatchInv => FirstCatchesUp
  BY DEF CatchInv
<1>4. QED
  BY <1>1, <1>2, <1>3, PTL DEF SafeSpec
-----------------------------------------------------------------------------
(* Observers that do not post: one drain at a time. *)

\* What each step of such a drain does to the stack.
LEMMA AloneTop ==
    ASSUME Alone, Running PROVE Top \in Frame /\ frames = <<Top>> /\ Tail(frames) = <<>>
<1>1. PICK f \in Frame : frames = <<f>>
  BY DEF Alone, Running
<1>2. frames \in Seq(Frame) /\ Len(frames) = 1 /\ frames # <<>> /\ Head(frames) = f
  BY <1>1
<1>3. Tail(frames) \in Seq(Frame) /\ Len(Tail(frames)) = 0
  BY <1>2, HeadTailProperties
<1>4. Tail(frames) = <<>>
  BY <1>3, EmptySeq
<1>5. QED
  BY <1>1, <1>2, <1>4 DEF Top

LEMMA AloneReplace ==
    ASSUME Alone, Running, NEW f \in Frame, frames' = <<f>> \o Tail(frames)
    PROVE  Alone' /\ Running' /\ Top' = f
<1>1. frames' = <<f>> \o <<>>
  BY AloneTop
<1>2. <<f>> \in Seq(Frame) /\ <<f>> # <<>> /\ Head(<<f>>) = f
  OBVIOUS
<1>3. frames' = <<f>>
  BY <1>1, <1>2, ConcatEmptySeq
<1>4. QED
  BY <1>2, <1>3 DEF Alone, Running, Top

LEMMA AlonePop ==
    ASSUME Alone, Running, frames' = Tail(frames) PROVE Alone' /\ ~Running'
BY AloneTop DEF Alone, Running

\* Without posts a call to an observer only moves the emission on.
LEMMA AloneCall ==
    ASSUME TypeOK, Alone, CallObserver
    PROVE  /\ Alone' /\ Running'
           /\ Top'.at = "emit" /\ Top'.val = Top.val /\ Top'.next = Top.next + 1
           /\ Top.next \in 1..Observers /\ Top.at = "emit"
           /\ seen' = [seen EXCEPT ![Top.next] = Top.val]
           /\ UNCHANGED <<cell, pending, pc, wake>>
<1>1. Running /\ Top.at = "emit" /\ Top.next <= Observers
  BY DEF CallObserver, Notify
<1>2. Top \in Frame
  BY <1>1, AloneTop
<1>3. [Top EXCEPT !.next = @ + 1] \in Frame
  BY <1>1, AdvancedFrame DEF TypeOK
<1>4. Alone' /\ Running' /\ Top' = [Top EXCEPT !.next = @ + 1]
  BY <1>1, <1>3, AloneReplace DEF CallObserver, Advanced
<1>5. Top.next \in 1..Observers
  BY <1>1, <1>2, ConstantsAssumption DEF Frame
<1>6. QED
  BY <1>1, <1>2, <1>4, <1>5 DEF CallObserver, Notify, Frame

-----------------------------------------------------------------------------
(* Every observer catches up, when none of them posts or throws. *)

LEMMA LatestInit == Init => LatestInv
BY DEF Init, LatestInv, Alone, FlagServed, EmitCurrent, EachCatchesUp, Running

LEMMA LatestStep ==
    ASSUME reentered' = 0, thrown' = 0, TypeOK, LatestInv, [Next]_vars
    PROVE  LatestInv'
<1> USE DEF LatestInv
<1>1. ASSUME NEW p \in Producers, StoreCell(p) \/ RaisePending(p) PROVE LatestInv'
  <2>1. UNCHANGED <<frames, seen, wake>>
    BY <1>1 DEF StoreCell, RaisePending
  <2>2. Announced'
    <3>1. CASE StoreCell(p)
      BY <3>1, pc'[p] = "flag" DEF StoreCell, Announced, TypeOK
    <3>2. CASE RaisePending(p)
      BY <3>2 DEF RaisePending, Announced
    <3>3. QED
      BY <1>1, <3>1, <3>2
  <2>3. FlagServed'
    <3>1. CASE StoreCell(p)
      <4>1. pending' = pending /\ \A q \in Producers : pc[q] = "post" => pc'[q] = "post"
        BY <3>1 DEF StoreCell, TypeOK
      <4>2. QED
        BY <2>1, <4>1 DEF FlagServed, Running, Top
    <3>2. CASE RaisePending(p)
      <4>1. pc'[p] = "post"
        BY <3>2 DEF RaisePending, TypeOK
      <4>2. QED
        BY <4>1 DEF FlagServed
    <3>3. QED
      BY <1>1, <3>1, <3>2
  <2>4. Alone'
    BY <2>1 DEF Alone
  <2>5. EmitCurrent' /\ EachCatchesUp'
    BY <2>2 DEF EmitCurrent, EachCatchesUp
  <2>6. QED
    BY <2>3, <2>4, <2>5
<1>2. ASSUME NEW p \in Producers, PostWake(p) PROVE LatestInv'
  <2>1. UNCHANGED <<cell, pending, frames, seen>> /\ wake' = TRUE
    BY <1>2 DEF PostWake
  <2>2. \A q \in Producers : pc[q] = "flag" => pc'[q] = "flag"
    BY <1>2 DEF PostWake, TypeOK
  <2>3. Alone' /\ FlagServed'
    BY <2>1 DEF Alone, FlagServed
  <2>4. Announced => Announced'
    BY <2>1, <2>2 DEF Announced
  <2>5. EmitCurrent' /\ EachCatchesUp'
    BY <2>1, <2>4 DEF EmitCurrent, EachCatchesUp, Running, Top
  <2>6. QED
    BY <2>3, <2>5
<1>3. CASE StartDrain
  <2>1. frames' = <<NewDrain>> /\ UNCHANGED <<cell, pending, pc, seen>> /\ ~Running
    BY <1>3 DEF StartDrain
  <2>2. Alone' /\ Running' /\ Top'.at = "test"
    BY <2>1, NewDrainFrame DEF Alone, Running, Top, NewDrain
  <2>3. FlagServed' /\ EmitCurrent'
    BY <2>2 DEF FlagServed, EmitCurrent
  <2>4. EachCatchesUp'
    BY <2>1 DEF EachCatchesUp, Announced
  <2>5. QED
    BY <2>2, <2>3, <2>4
<1>4. CASE TestPending
  <2>1. Top \in Frame
    BY <1>4, AloneTop DEF TestPending
  <2>2. FlagServed'
    BY <1>4 DEF TestPending, FlagServed
  <2>3. CASE pending = TRUE
    <3>1. [Top EXCEPT !.at = "load"] \in Frame /\ [Top EXCEPT !.at = "load"].at = "load"
      BY <2>1 DEF Frame
    <3>2. frames' = <<[Top EXCEPT !.at = "load"]>> \o Tail(frames)
      BY <1>4, <2>3 DEF TestPending
    <3>3. Alone' /\ Running' /\ Top' = [Top EXCEPT !.at = "load"]
      BY <1>4, <3>1, <3>2, AloneReplace DEF TestPending
    <3>4. QED
      BY <2>2, <3>1, <3>3 DEF EmitCurrent, EachCatchesUp
  <2>4. CASE pending = FALSE
    <3>1. frames' = Tail(frames) /\ UNCHANGED <<cell, pending, pc, seen>>
      BY <1>4, <2>4 DEF TestPending
    <3>2. Alone' /\ ~Running'
      BY <1>4, <3>1, AlonePop DEF TestPending
    <3>3. EachCatchesUp'
      BY <1>4, <3>1 DEF EachCatchesUp, TestPending, Announced
    <3>4. QED
      BY <2>2, <3>2, <3>3 DEF EmitCurrent
  <2>5. QED
    BY <2>3, <2>4 DEF TypeOK
<1>5. CASE LoadCell
  <2>1. [at |-> "emit", val |-> cell, next |-> 1] \in Frame
    BY ConstantsAssumption DEF Frame, TypeOK
  <2>2. Alone' /\ Running' /\ Top' = [at |-> "emit", val |-> cell, next |-> 1]
    BY <1>5, <2>1, AloneReplace DEF LoadCell
  <2>3. UNCHANGED <<cell, pending, pc, wake>> /\ Top.at = "load"
    BY <1>5 DEF LoadCell
  <2>4. FlagServed'
    BY <2>3 DEF FlagServed
  <2>5. EmitCurrent' /\ EachCatchesUp'
    BY <2>2, <2>3, ConstantsAssumption DEF EmitCurrent, EachCatchesUp
  <2>6. QED
    BY <2>2, <2>4, <2>5
<1>6. CASE CallObserver
  <2>1. /\ Alone' /\ Running'
        /\ Top'.at = "emit" /\ Top'.val = Top.val /\ Top'.next = Top.next + 1
        /\ Top.next \in 1..Observers /\ Top.at = "emit"
        /\ seen' = [seen EXCEPT ![Top.next] = Top.val]
        /\ UNCHANGED <<cell, pending, pc, wake>>
    BY <1>6, AloneCall
  <2>2. Running
    BY <1>6 DEF CallObserver, Notify
  <2>3. FlagServed'
    BY <2>1 DEF FlagServed
  <2>4. Announced' <=> Announced
    BY <2>1 DEF Announced
  <2>5. EmitCurrent'
    BY <2>1, <2>2, <2>4 DEF EmitCurrent
  <2>6. ASSUME NEW o \in 1..Observers, ~Announced
        PROVE  seen'[o] = cell' \/ (Top'.val = cell' /\ Top'.next <= o)
    <3>1. Top.val = cell
      BY <2>1, <2>2, <2>6 DEF EmitCurrent
    <3>2. CASE o = Top.next
      BY <2>1, <3>1, <3>2 DEF TypeOK
    <3>3. CASE o # Top.next
      <4>1. seen'[o] = seen[o]
        BY <2>1, <3>3 DEF TypeOK
      <4>2. seen[o] = cell \/ Top.next <= o
        BY <2>1, <2>6 DEF EachCatchesUp
      <4>3. QED
        BY <2>1, <3>1, <3>3, <4>1, <4>2, ConstantsAssumption
    <3>4. QED
      BY <3>2, <3>3
  <2>7. EachCatchesUp'
    BY <2>1, <2>4, <2>6 DEF EachCatchesUp
  <2>8. QED
    BY <2>1, <2>3, <2>5, <2>7
<1>7. CASE CallObserverPosting \/ CallObserverThrowing
  BY <1>7 DEF CallObserverPosting, CallObserverThrowing, TypeOK
<1>8. CASE EmitDone
  <2>1. Alone' /\ ~Running'
    BY <1>8, AlonePop DEF EmitDone
  <2>2. UNCHANGED <<cell, pending, pc, wake, seen>> /\ Top.at = "emit" /\ Top.next > Observers
    BY <1>8 DEF EmitDone
  <2>3. Top.next \in Nat
    BY <1>8, AloneTop, ConstantsAssumption DEF EmitDone, Frame
  <2>4. FlagServed'
    BY <2>2 DEF FlagServed
  <2>5. EachCatchesUp'
    BY <2>2, <2>3, ConstantsAssumption DEF EachCatchesUp, Announced
  <2>6. QED
    BY <2>1, <2>4, <2>5 DEF EmitCurrent
<1>9. CASE UNCHANGED vars
  BY <1>9 DEF vars, Alone, FlagServed, EmitCurrent, EachCatchesUp, Announced, Running, Top
<1>10. QED
  BY <1>1, <1>2, <1>3, <1>4, <1>5, <1>6, <1>7, <1>8, <1>9 DEF Next, Logic, InSet

LEMMA LatestEnough == ASSUME LatestInv PROVE LatestDelivered
BY DEF LatestInv, LatestDelivered, AtRest, FlagServed, EachCatchesUp, Announced

\* Posts and throws are only ever counted up.
LEMMA CountersGrow ==
    ASSUME TypeOK, [Next]_vars
    PROVE  /\ reentered' = 0 => reentered = 0
           /\ thrown' = 0 => thrown = 0
<1>1. reentered \in Nat /\ thrown \in Nat
  BY ConstantsAssumption DEF ConstantsAssumption, TypeOK
<1>2. CASE CallObserverPosting \/ CallObserverThrowing
  BY <1>1, <1>2 DEF CallObserverPosting, CallObserverThrowing
<1>3. CASE ~(CallObserverPosting \/ CallObserverThrowing)
  BY <1>3 DEF Next, Logic, StoreCell, InSet, RaisePending, PostWake, StartDrain,
     TestPending, LoadCell, CallObserver, EmitDone, boundVars, vars
<1>4. QED
  BY <1>2, <1>3

\* "publishes only the latest value": when every set has been posted and drained,
\* and no observer has posted or thrown, each observer holds the cell's value.
THEOREM LatestReached == SafeSpec => []LatestDelivered
<1> DEFINE Calm == reentered = 0 /\ thrown = 0 => LatestInv
<1>1. Init => TypeOK /\ Calm
  BY TypeInit, LatestInit
<1>2. TypeOK /\ Calm /\ [Next]_vars => (TypeOK /\ Calm)'
  BY TypeStep, LatestStep, CountersGrow
<1>3. Calm => LatestDelivered
  BY LatestEnough DEF LatestDelivered
<1>4. QED
  BY <1>1, <1>2, <1>3, PTL DEF SafeSpec
-----------------------------------------------------------------------------
(* No observer is taken back, until one of them posts. *)

LEMMA ForwardInit == Init => ForwardInv
BY ConstantsAssumption DEF Init, ForwardInv, Alone, Monotone, Running

LEMMA ForwardStep ==
    ASSUME reentered' = 0, TypeOK, ForwardInv, [Next]_vars PROVE ForwardInv'
<1> USE DEF ForwardInv
<1>1. ASSUME NEW p \in Producers, StoreCell(p) \/ InSet(p) PROVE ForwardInv'
  <2>1. UNCHANGED <<frames, seen>> /\ cell' >= cell
    BY <1>1, ConstantsAssumption DEF StoreCell, InSet, RaisePending, PostWake, TypeOK
  <2>2. cell' \in Nat /\ cell \in Nat /\ \A o \in 1..Observers : seen[o] \in Nat
    BY <1>1, ConstantsAssumption DEF StoreCell, InSet, RaisePending, PostWake, TypeOK
  <2>3. Alone'
    BY <2>1 DEF Alone
  <2>4. Running /\ Top.at = "emit" => Top.val \in Nat
    BY AloneTop, ConstantsAssumption DEF Frame
  <2>5. Monotone'
    BY <2>1, <2>2, <2>4 DEF Monotone, Running, Top
  <2>6. QED
    BY <2>3, <2>5
<1>2. CASE StartDrain
  <2>1. frames' = <<NewDrain>> /\ UNCHANGED <<cell, seen>>
    BY <1>2 DEF StartDrain
  <2>2. Alone' /\ Top'.at = "test"
    BY <2>1, NewDrainFrame DEF Alone, Top, NewDrain
  <2>3. QED
    BY <2>1, <2>2 DEF Monotone
<1>3. CASE TestPending
  <2>1. Top \in Frame /\ UNCHANGED <<cell, seen>>
    BY <1>3, AloneTop DEF TestPending
  <2>2. CASE pending = TRUE
    <3>1. [Top EXCEPT !.at = "load"] \in Frame /\ [Top EXCEPT !.at = "load"].at = "load"
      BY <2>1 DEF Frame
    <3>2. frames' = <<[Top EXCEPT !.at = "load"]>> \o Tail(frames)
      BY <1>3, <2>2 DEF TestPending
    <3>3. Alone' /\ Top' = [Top EXCEPT !.at = "load"]
      BY <1>3, <3>1, <3>2, AloneReplace DEF TestPending
    <3>4. QED
      BY <2>1, <3>1, <3>3 DEF Monotone
  <2>3. CASE pending = FALSE
    <3>1. Alone' /\ ~Running'
      BY <1>3, <2>3, AlonePop DEF TestPending
    <3>2. QED
      BY <2>1, <3>1 DEF Monotone
  <2>4. QED
    BY <2>2, <2>3 DEF TypeOK
<1>4. CASE LoadCell
  <2>1. [at |-> "emit", val |-> cell, next |-> 1] \in Frame
    BY ConstantsAssumption DEF Frame, TypeOK
  <2>2. Alone' /\ Top' = [at |-> "emit", val |-> cell, next |-> 1]
    BY <1>4, <2>1, AloneReplace DEF LoadCell
  <2>3. UNCHANGED <<cell, seen>> /\ cell \in Nat
    BY <1>4, ConstantsAssumption DEF LoadCell, TypeOK
  <2>4. QED
    BY <2>2, <2>3 DEF Monotone
<1>5. CASE CallObserver
  <2>1. /\ Alone' /\ Running'
        /\ Top'.at = "emit" /\ Top'.val = Top.val /\ Top'.next = Top.next + 1
        /\ Top.next \in 1..Observers /\ Top.at = "emit"
        /\ seen' = [seen EXCEPT ![Top.next] = Top.val]
        /\ cell' = cell
    BY <1>5, AloneCall
  <2>2. Running /\ Top.val \in Nat /\ Top.val <= cell
    BY <1>5, <2>1, AloneTop, ConstantsAssumption DEF CallObserver, Notify, Monotone, Frame
  <2>3. ASSUME NEW o \in 1..Observers
        PROVE  /\ seen'[o] <= cell'
               /\ o >= Top'.next => seen'[o] <= Top'.val
    <3>1. CASE o = Top.next
      BY <2>1, <2>2, <3>1, ConstantsAssumption DEF TypeOK
    <3>2. CASE o # Top.next
      <4>1. seen'[o] = seen[o]
        BY <2>1, <3>2 DEF TypeOK
      <4>2. o >= Top'.next => o >= Top.next
        BY <2>1, ConstantsAssumption
      <4>3. QED
        BY <2>1, <2>2, <4>1, <4>2 DEF Monotone
    <3>3. QED
      BY <3>1, <3>2
  <2>4. Monotone'
    BY <2>1, <2>2, <2>3 DEF Monotone
  <2>5. QED
    BY <2>1, <2>4
<1>6. CASE CallObserverThrowing
  <2>1. /\ Running /\ Top.at = "emit" /\ Top.next <= Observers
        /\ seen' = [seen EXCEPT ![Top.next] = Top.val]
        /\ cell' = cell /\ frames' = <<>>
    BY <1>6 DEF CallObserverThrowing, Notify
  <2>2. Top.val <= cell
    BY <2>1 DEF Monotone
  <2>3. \A o \in 1..Observers : seen'[o] <= cell'
    BY <2>1, <2>2 DEF Monotone, TypeOK
  <2>4. QED
    BY <2>1, <2>3 DEF Monotone, Alone, Running
<1>7. CASE CallObserverPosting
  BY <1>7 DEF CallObserverPosting, TypeOK
<1>8. CASE EmitDone
  <2>1. Alone' /\ ~Running' /\ UNCHANGED <<cell, seen>>
    BY <1>8, AlonePop DEF EmitDone
  <2>2. QED
    BY <2>1 DEF Monotone
<1>9. CASE UNCHANGED vars
  BY <1>9 DEF vars, Alone, Monotone, Running, Top
<1>10. QED
  BY <1>1, <1>2, <1>3, <1>4, <1>5, <1>6, <1>7, <1>8, <1>9 DEF Next, Logic

LEMMA ForwardEnough ==
    ASSUME TypeOK, ForwardInv, [Next]_vars
    PROVE  \A o \in 1..Observers : seen'[o] >= seen[o]
<1>1. CASE Notify
  <2>1. Running /\ Top.at = "emit" /\ Top \in Frame
    BY <1>1, AloneTop DEF Notify, ForwardInv
  <2>2. Top.next \in 1..Observers /\ seen[Top.next] <= Top.val
    BY <1>1, <2>1, ConstantsAssumption DEF Notify, Frame, ForwardInv, Monotone
  <2>3. Top.val \in Nat /\ \A o \in 1..Observers : seen[o] \in Nat
    BY <2>1, ConstantsAssumption DEF Frame, TypeOK
  <2>4. QED
    BY <1>1, <2>2, <2>3 DEF Notify, TypeOK
<1>2. CASE ~Notify
  <2>1. seen' = seen
    BY <1>2 DEF Next, Logic, StoreCell, InSet, RaisePending, PostWake, StartDrain,
       TestPending, LoadCell, CallObserver, CallObserverPosting, CallObserverThrowing,
       EmitDone, vars
  <2>2. \A o \in 1..Observers : seen[o] \in Nat
    BY ConstantsAssumption DEF TypeOK
  <2>3. QED
    BY <2>1, <2>2
<1>3. QED
  BY <1>1, <1>2

\* Until an observer posts, no call hands an observer a value older than one it
\* was called with before.
THEOREM SeenForward == SafeSpec => NeverBackwards
<1> DEFINE Calm == reentered = 0 => ForwardInv
<1>1. Init => TypeOK /\ Calm
  BY TypeInit, ForwardInit
<1>2. TypeOK /\ Calm /\ [Next]_vars => (TypeOK /\ Calm)'
  BY TypeStep, ForwardStep, CountersGrow
<1>3. TypeOK /\ Calm /\ [Next]_vars
        => [reentered = 0 => \A o \in 1..Observers : seen'[o] >= seen[o]]_vars
  BY ForwardEnough
<1>4. QED
  BY <1>1, <1>2, <1>3, PTL DEF SafeSpec, NeverBackwards

Node == [item : Events!Item, linked : BOOLEAN]
DrainFrame == [item : Events!Item \cup {NoItem}, next : 1..Observers + 1]

-----------------------------------------------------------------------------
(* Sequences that grow at the end, and that change at the head. *)

LEMMA AppendSeq ==
    ASSUME NEW S, NEW s \in Seq(S), NEW x \in S
    PROVE  /\ Append(s, x) \in Seq(S)
           /\ Len(Append(s, x)) = Len(s) + 1 /\ Len(s) \in Nat
           /\ Append(s, x)[Len(s) + 1] = x
           /\ \A j \in 1..Len(s) : Append(s, x)[j] = s[j]
           /\ DOMAIN Append(s, x) = 1..Len(s) + 1 /\ DOMAIN s = 1..Len(s)
  OBVIOUS

LEMMA ChannelAppendSet ==
    ASSUME NEW S, NEW s \in Seq(S), NEW x \in S
    PROVE  Events!ToSet(Append(s, x)) = Events!ToSet(s) \cup {x}
<1>1. 1..Len(s) + 1 = 1..Len(s) \cup {Len(s) + 1}
  BY AppendSeq
<1> QED
  BY <1>1, AppendSeq DEF Events!ToSet

LEMMA ChannelPopSeq ==
    ASSUME NEW S, NEW s \in Seq(S), s # <<>>
    PROVE  /\ Head(s) \in S /\ Head(s) = s[1]
           /\ Tail(s) \in Seq(S)
           /\ Len(s) \in Nat \ {0} /\ Len(Tail(s)) = Len(s) - 1
           /\ \A j \in 1..Len(s) - 1 : Tail(s)[j] = s[j + 1]
  OBVIOUS

LEMMA ChannelPushSeq ==
    ASSUME NEW S, NEW s \in Seq(S), NEW f \in S
    PROVE  /\ <<f>> \o s \in Seq(S)
           /\ Len(<<f>> \o s) = Len(s) + 1 /\ Len(s) \in Nat
           /\ (<<f>> \o s)[1] = f
           /\ \A j \in 1..Len(s) : (<<f>> \o s)[j + 1] = s[j]
  OBVIOUS

-----------------------------------------------------------------------------
(* What the queue took and what is left in it. *)

\* The items taken out of the queue q when t was sent.
Taken(q, t) == {t[n] : n \in 1..Len(t) - Len(q)}

\* The queue holds the last items sent.
Left(q, t) ==
    /\ Len(q) <= Len(t)
    /\ \A n \in 1..Len(q) : q[n].item = t[Len(t) - Len(q) + n]

\* Every item is sent once.
Distinct == Events!IsInjective(csent) /\ \A n \in DOMAIN csent : csent[n].no <= csends[csent[n].by]

-----------------------------------------------------------------------------
(* What a call of drain_notifications has delivered. *)

Reached(o, it, rec) == it \in Events!ToSet(rec[o])

FrameOK(f, T, rec) ==
    f.item # NoItem =>
        /\ f.item \in T
        /\ \A o \in 1..Observers : o < f.next <=> Reached(o, f.item, rec)

\* Calls emit different items.
FramesOK(fr, T, rec) ==
    /\ \A j \in DOMAIN fr : FrameOK(fr[j], T, rec)
    /\ \A j, k \in DOMAIN fr : j # k => fr[j].item = NoItem \/ fr[j].item # fr[k].item

InFrame(fr, it) == \E j \in DOMAIN fr : fr[j].item = it

\* Observers are called with what was taken, once.
ReceivedOK(T, rec) ==
    \A o \in 1..Observers : Events!IsInjective(rec[o]) /\ Events!ToSet(rec[o]) \subseteq T

\* What was taken is being emitted, or reached everyone.
Complete(fr, T, rec) ==
    \A it \in T : InFrame(fr, it) \/ \A o \in 1..Observers : Reached(o, it, rec)

\* Without nesting there is one call, which emits the item taken last.
LastTaken(fr, q, t) ==
    /\ Len(fr) <= 1
    /\ fr # <<>> /\ fr[1].item # NoItem =>
         Len(q) < Len(t) /\ fr[1].item = t[Len(t) - Len(q)]

Popped == Taken(queue, csent)

Deliveries == FramesOK(cframes, Popped, creceived) /\ ReceivedOK(Popped, creceived)

ChannelNoneLost == cthrown = 0 => Complete(cframes, Popped, creceived)

InOrder ==
    creentered = 0 =>
        /\ LastTaken(cframes, queue, csent)
        /\ \A o \in 1..Observers : Events!OrderedAs(creceived[o], csent)

ChannelInv ==
    /\ Events!TypeOK /\ Distinct /\ Left(queue, csent)
    /\ Deliveries /\ ChannelNoneLost /\ InOrder

LEMMA ChannelInitInv == Events!ConstantsAssumption /\ Events!Init => ChannelInv
<1> SUFFICES ASSUME Events!ConstantsAssumption, Events!Init PROVE ChannelInv
  OBVIOUS
<1>1. Events!TypeOK
  <2>1. queue \in Seq(Node) /\ cframes \in Seq(DrainFrame) /\ csent \in Seq(Events!Item)
    BY DEF Events!Init
  <2>2. creceived \in [1..Observers -> Seq(Events!Item)]
    BY DEF Events!Init
  <2>3. csends \in [Producers -> 0..Sends] /\ creentered \in 0..Posts
        /\ cthrown \in 0..Throws
    BY DEF Events!Init, Events!ConstantsAssumption
  <2>4. cpc \in [Producers -> {"out", "link", "post"}] /\ cwake \in BOOLEAN
    BY DEF Events!Init
  <2> QED
    BY <2>1, <2>2, <2>3, <2>4 DEF Events!TypeOK, Node, DrainFrame
<1>2. Popped = {} /\ Left(queue, csent) /\ Distinct
  BY DEF Events!Init, Popped, Taken, Left, Distinct, Events!IsInjective
<1>3. Deliveries
  <2>1. FramesOK(cframes, Popped, creceived)
    BY DEF Events!Init, FramesOK
  <2>2. \A o \in 1..Observers : Events!IsInjective(creceived[o]) /\ Events!ToSet(creceived[o]) = {}
    BY DEF Events!Init, Events!IsInjective, Events!ToSet
  <2> QED
    BY <2>1, <2>2 DEF Deliveries, ReceivedOK
<1>4. ChannelNoneLost
  BY <1>2 DEF ChannelNoneLost, Complete
<1>5. InOrder
  BY DEF Events!Init, InOrder, LastTaken, Events!OrderedAs
<1> QED
  BY <1>1, <1>2, <1>3, <1>4, <1>5 DEF ChannelInv

-----------------------------------------------------------------------------
(* Producers. *)

LEMMA TypedState ==
    ASSUME Events!TypeOK
    PROVE  /\ queue \in Seq(Node) /\ cframes \in Seq(DrainFrame) /\ csent \in Seq(Events!Item)
           /\ creceived \in [1..Observers -> Seq(Events!Item)]
           /\ csends \in [Producers -> 0..Sends]
           /\ Len(queue) \in Nat /\ Len(csent) \in Nat /\ Len(cframes) \in Nat
  BY DEF Events!TypeOK, Node, DrainFrame

\* Items that were taken were sent.
LEMMA PoppedSent ==
    ASSUME ChannelInv
    PROVE  \A it \in Popped : it \in Events!ToSet(csent) /\ it \in Events!Item
<1>1. csent \in Seq(Events!Item) /\ Len(queue) \in Nat /\ Len(csent) \in Nat
  BY TypedState DEF ChannelInv
<1>2. ASSUME NEW n \in 1..Len(csent) - Len(queue) PROVE n \in DOMAIN csent
  BY <1>1, <1>2
<1>3. \A n \in DOMAIN csent : csent[n] \in Events!Item
  BY <1>1
<1> QED
  BY <1>2, <1>3 DEF Popped, Taken, Events!ToSet

\* The node is at the end of the queue: nothing else was taken.
LEMMA ExchangeTailKeeps ==
    ASSUME Events!ConstantsAssumption, ChannelInv, NEW p \in Producers, Events!ExchangeTail(p)
    PROVE  ChannelInv'
<1> DEFINE it == [by |-> p, no |-> csends[p] + 1]
           nd == [item |-> it, linked |-> FALSE]
<1>1. /\ Events!TypeOK /\ Distinct /\ Left(queue, csent) /\ Deliveries /\ ChannelNoneLost /\ InOrder
  BY DEF ChannelInv
<1>2. /\ queue \in Seq(Node) /\ csent \in Seq(Events!Item) /\ csends \in [Producers -> 0..Sends]
      /\ Len(queue) \in Nat /\ Len(csent) \in Nat /\ Len(queue) <= Len(csent)
      /\ creceived \in [1..Observers -> Seq(Events!Item)]
  BY <1>1, TypedState DEF Left
<1>3. /\ queue' = Append(queue, nd) /\ csent' = Append(csent, it)
      /\ csends' = [csends EXCEPT ![p] = @ + 1] /\ cpc' = [cpc EXCEPT ![p] = "link"]
      /\ csends[p] < Sends
      /\ UNCHANGED <<cwake, cframes, creentered, cthrown, creceived>>
  BY DEF Events!ExchangeTail, Events!boundVars
<1>4. it \in Events!Item /\ it.by = p /\ it.no = csends[p] + 1 /\ nd \in Node /\ nd.item = it
  BY <1>2 DEF Events!Item, Node
<1> HIDE DEF it, nd
<1>5. /\ queue' \in Seq(Node) /\ Len(queue') = Len(queue) + 1 /\ queue'[Len(queue) + 1] = nd
      /\ \A j \in 1..Len(queue) : queue'[j] = queue[j]
  BY <1>2, <1>3, <1>4, AppendSeq
<1>6. /\ csent' \in Seq(Events!Item) /\ Len(csent') = Len(csent) + 1 /\ csent'[Len(csent) + 1] = it
      /\ \A j \in 1..Len(csent) : csent'[j] = csent[j]
      /\ DOMAIN csent' = 1..Len(csent) + 1 /\ DOMAIN csent = 1..Len(csent)
  BY <1>2, <1>3, <1>4, AppendSeq
<1>7. /\ csends' \in [Producers -> 0..Sends] /\ csends'[p] = csends[p] + 1
      /\ \A r \in Producers : r # p => csends'[r] = csends[r]
      /\ \A r \in Producers : csends[r] \in Nat
  BY <1>2, <1>3 DEF Events!ConstantsAssumption
<1>8. Events!TypeOK'
  <2>1. cpc' \in [Producers -> {"out", "link", "post"}]
    BY <1>1, <1>3 DEF Events!TypeOK
  <2> QED
    BY <1>1, <1>3, <1>5, <1>6, <1>7, <2>1 DEF Events!TypeOK, Node
<1>9. \A n \in 1..Len(csent) : csent[n] # it
  <2> SUFFICES ASSUME NEW n \in 1..Len(csent), csent[n] = it PROVE FALSE
    OBVIOUS
  <2>1. it.no <= csends[p]
    BY <1>1, <1>4, <1>6 DEF Distinct
  <2> QED
    BY <1>4, <1>7, <2>1
<1>10. Distinct'
  <2>1. ASSUME NEW m \in 1..Len(csent) + 1, NEW n \in 1..Len(csent) + 1, csent'[m] = csent'[n]
        PROVE  m = n
    <3>1. CASE m \in 1..Len(csent) /\ n \in 1..Len(csent)
      BY <1>1, <1>6, <2>1, <3>1 DEF Distinct, Events!IsInjective
    <3>2. CASE m \in 1..Len(csent) /\ n = Len(csent) + 1
      BY <1>6, <1>9, <2>1, <3>2
    <3>3. CASE n \in 1..Len(csent) /\ m = Len(csent) + 1
      BY <1>6, <1>9, <2>1, <3>3
    <3>4. CASE n = Len(csent) + 1 /\ m = Len(csent) + 1
      BY <3>4
    <3> QED
      BY <1>2, <3>1, <3>2, <3>3, <3>4
  <2>2. ASSUME NEW n \in 1..Len(csent) + 1 PROVE csent'[n].no <= csends'[csent'[n].by]
    <3>1. CASE n = Len(csent) + 1
      BY <1>4, <1>6, <1>7, <3>1
    <3>2. CASE n \in 1..Len(csent)
      <4>1. csent'[n] = csent[n] /\ csent[n].no <= csends[csent[n].by]
        BY <1>1, <1>6, <3>2 DEF Distinct
      <4>2. csent[n].by \in Producers /\ csent[n].no \in Nat
        <5>1. csent[n] \in Events!Item
          BY <1>2, <3>2
        <5> QED
          BY <5>1 DEF Events!Item
      <4>3. csends[csent[n].by] <= csends'[csent[n].by]
        BY <1>7, <4>2
      <4>4. csends[csent[n].by] \in Nat /\ csends'[csent[n].by] \in Nat
        BY <1>7, <4>2
      <4> QED
        BY <4>1, <4>2, <4>3, <4>4
    <3> QED
      BY <1>2, <3>1, <3>2
  <2> QED
    BY <1>6, <2>1, <2>2 DEF Distinct, Events!IsInjective
<1>11. Len(csent') - Len(queue') = Len(csent) - Len(queue)
  BY <1>2, <1>5, <1>6
<1>12. Left(queue', csent')
  <2>1. ASSUME NEW n \in 1..Len(queue')
        PROVE  queue'[n].item = csent'[Len(csent) - Len(queue) + n]
    <3>1. CASE n = Len(queue) + 1
      <4>1. Len(csent) - Len(queue) + n = Len(csent) + 1
        BY <1>2, <3>1
      <4> QED
        BY <1>4, <1>5, <1>6, <3>1, <4>1
    <3>2. CASE n \in 1..Len(queue)
      <4>1. Len(csent) - Len(queue) + n \in 1..Len(csent)
        BY <1>2, <3>2
      <4> QED
        BY <1>1, <1>5, <1>6, <3>2, <4>1 DEF Left
    <3> QED
      BY <1>2, <1>5, <3>1, <3>2
  <2>2. Len(csent') \in Nat /\ Len(queue') \in Nat /\ Len(queue') <= Len(csent')
    BY <1>2, <1>5, <1>6
  <2>3. ASSUME NEW n \in 1..Len(queue')
        PROVE  queue'[n].item = csent'[Len(csent') - Len(queue') + n]
    BY <1>11, <2>1
  <2> QED
    BY <2>2, <2>3 DEF Left
<1>13. Popped' = Popped
  <2>1. \A n \in 1..Len(csent) - Len(queue) : n \in 1..Len(csent)
    BY <1>2
  <2> QED
    BY <1>6, <1>11, <2>1 DEF Popped, Taken
<1>14. Deliveries' /\ ChannelNoneLost'
  BY <1>1, <1>3, <1>13 DEF Deliveries, ChannelNoneLost
<1>15. InOrder'
  <2> SUFFICES ASSUME creentered = 0
               PROVE  /\ LastTaken(cframes, queue', csent')
                      /\ \A o \in 1..Observers : Events!OrderedAs(creceived[o], csent')
    BY <1>3 DEF InOrder
  <2>1. LastTaken(cframes, queue', csent')
    <3>1. LastTaken(cframes, queue, csent)
      BY <1>1 DEF InOrder
    <3>2. Len(queue) < Len(csent) => Len(csent) - Len(queue) \in 1..Len(csent)
      BY <1>2
    <3>3. Len(queue) < Len(csent) => Len(queue') < Len(csent')
      BY <1>2, <1>5, <1>6
    <3> QED
      BY <1>6, <1>11, <3>1, <3>2, <3>3 DEF LastTaken
  <2>2. ASSUME NEW o \in 1..Observers PROVE Events!OrderedAs(creceived[o], csent')
    <3>1. Events!OrderedAs(creceived[o], csent)
      BY <1>1 DEF InOrder
    <3>2. ASSUME NEW j \in DOMAIN creceived[o], NEW m \in DOMAIN csent', csent'[m] = creceived[o][j]
          PROVE  m \in DOMAIN csent /\ csent[m] = creceived[o][j]
      <4>1. creceived[o][j] \in Popped
        BY <1>1 DEF Deliveries, ReceivedOK, Events!ToSet
      <4>2. creceived[o][j] # it
        BY <1>6, <1>9, <4>1, PoppedSent DEF Events!ToSet
      <4>3. m # Len(csent) + 1
        BY <1>6, <3>2, <4>2
      <4>4. m \in 1..Len(csent)
        BY <1>2, <1>6, <4>3
      <4> QED
        BY <1>6, <3>2, <4>4
    <3> QED
      BY <3>1, <3>2 DEF Events!OrderedAs
  <2> QED
    BY <2>1, <2>2
<1> QED
  BY <1>8, <1>10, <1>12, <1>14, <1>15 DEF ChannelInv

\* The link changes no item.
LEMMA LinkNodeKeeps ==
    ASSUME Events!ConstantsAssumption, ChannelInv, NEW p \in Producers, Events!LinkNode(p)
    PROVE  ChannelInv'
<1>1. /\ Events!TypeOK /\ Distinct /\ Left(queue, csent) /\ Deliveries /\ ChannelNoneLost /\ InOrder
  BY DEF ChannelInv
<1>2. queue \in Seq(Node) /\ Len(queue) \in Nat
  BY <1>1, TypedState
<1>3. /\ queue' = [i \in DOMAIN queue |->
                     IF queue[i].item = Events!Current(p)
                     THEN [queue[i] EXCEPT !.linked = TRUE] ELSE queue[i]]
      /\ cpc' = [cpc EXCEPT ![p] = "post"]
      /\ UNCHANGED <<csends, cwake, cframes, creentered, cthrown, csent, creceived>>
  BY DEF Events!LinkNode, Events!boundVars
<1>4. ASSUME NEW i \in DOMAIN queue
      PROVE  queue'[i] \in Node /\ queue'[i].item = queue[i].item
  <2>1. queue[i] \in Node
    BY <1>2
  <2>2. [queue[i] EXCEPT !.linked = TRUE] \in Node
        /\ [queue[i] EXCEPT !.linked = TRUE].item = queue[i].item
    BY <2>1 DEF Node
  <2> QED
    BY <1>3, <2>1, <2>2
<1>5. DOMAIN queue' = 1..Len(queue)
  BY <1>2, <1>3
<1>6. queue' \in Seq(Node) /\ Len(queue') = Len(queue)
  <2>1. queue' \in [1..Len(queue) -> Node]
    BY <1>2, <1>3, <1>4
  <2> QED
    BY <1>2, <2>1
<1>7. Events!TypeOK'
  <2>1. cpc' \in [Producers -> {"out", "link", "post"}]
    BY <1>1, <1>3 DEF Events!TypeOK
  <2> QED
    BY <1>1, <1>3, <1>6, <2>1 DEF Events!TypeOK, Node
<1>8. Distinct'
  BY <1>1, <1>3 DEF Distinct
<1>9. Left(queue', csent')
  BY <1>1, <1>2, <1>3, <1>4, <1>6 DEF Left
<1>10. Popped' = Popped
  BY <1>3, <1>6 DEF Popped, Taken
<1>11. Deliveries' /\ ChannelNoneLost'
  BY <1>1, <1>3, <1>10 DEF Deliveries, ChannelNoneLost
<1>12. InOrder'
  BY <1>1, <1>3, <1>6 DEF InOrder, LastTaken
<1> QED
  BY <1>7, <1>8, <1>9, <1>11, <1>12 DEF ChannelInv

LEMMA PostWakeKeeps ==
    ASSUME Events!ConstantsAssumption, ChannelInv, NEW p \in Producers, Events!PostWake(p)
    PROVE  ChannelInv'
<1>1. /\ Events!TypeOK /\ Distinct /\ Left(queue, csent) /\ Deliveries /\ ChannelNoneLost /\ InOrder
  BY DEF ChannelInv
<1>2. /\ cwake' = TRUE /\ cpc' = [cpc EXCEPT ![p] = "out"]
      /\ UNCHANGED <<queue, csends, cframes, creentered, cthrown, csent, creceived>>
  BY DEF Events!PostWake, Events!boundVars
<1>3. Events!TypeOK'
  BY <1>1, <1>2 DEF Events!TypeOK
<1>4. Distinct' /\ Left(queue', csent')
  BY <1>1, <1>2 DEF Distinct
<1>5. Deliveries' /\ ChannelNoneLost' /\ InOrder'
  BY <1>1, <1>2 DEF Deliveries, ChannelNoneLost, InOrder, Popped
<1> QED
  BY <1>3, <1>4, <1>5 DEF ChannelInv

-----------------------------------------------------------------------------
(* Calls of drain_notifications that come and go. *)

LEMMA ChannelFrameFields ==
    /\ \A x \in Events!Item \cup {NoItem}, n \in 1..Observers + 1 : [item |-> x, next |-> n] \in DrainFrame
    /\ \A f \in DrainFrame : f.item \in Events!Item \cup {NoItem} /\ f.next \in 1..Observers + 1
  BY DEF DrainFrame

LEMMA ChannelNewDrainFrame ==
    ASSUME Events!ConstantsAssumption PROVE Events!NewDrain \in DrainFrame /\ Events!NewDrain.item = NoItem
<1>1. 1 \in 1..Observers + 1
  BY DEF Events!ConstantsAssumption
<1> QED
  BY <1>1, ChannelFrameFields DEF Events!NewDrain

LEMMA PushIndex ==
    ASSUME NEW S, NEW s \in Seq(S), NEW f \in S
    PROVE  /\ 1 \in DOMAIN (<<f>> \o s)
           /\ \A j \in DOMAIN (<<f>> \o s) :
                 j # 1 => j - 1 \in DOMAIN s /\ (<<f>> \o s)[j] = s[j - 1]
           /\ \A j \in DOMAIN s : j + 1 \in DOMAIN (<<f>> \o s) /\ (<<f>> \o s)[j + 1] = s[j]
<1>1. /\ DOMAIN (<<f>> \o s) = 1..Len(s) + 1 /\ DOMAIN s = 1..Len(s) /\ Len(s) \in Nat
      /\ \A j \in 1..Len(s) : (<<f>> \o s)[j + 1] = s[j]
  BY ChannelPushSeq
<1>2. ASSUME NEW j \in 1..Len(s) + 1, j # 1
      PROVE  j - 1 \in 1..Len(s) /\ (<<f>> \o s)[j] = s[j - 1]
  <2>1. j - 1 \in 1..Len(s) /\ (j - 1) + 1 = j
    BY <1>1, <1>2
  <2> QED
    BY <1>1, <2>1
<1> QED
  BY <1>1, <1>2

LEMMA InFramePush ==
    ASSUME NEW s \in Seq(DrainFrame), NEW f \in DrainFrame, NEW x
    PROVE  InFrame(<<f>> \o s, x) <=> f.item = x \/ InFrame(s, x)
<1> DEFINE t == <<f>> \o s
<1>1. /\ t[1] = f /\ 1 \in DOMAIN t
      /\ \A j \in DOMAIN t : j # 1 => j - 1 \in DOMAIN s /\ t[j] = s[j - 1]
      /\ \A j \in DOMAIN s : j + 1 \in DOMAIN t /\ t[j + 1] = s[j]
  BY ChannelPushSeq, PushIndex
<1> HIDE DEF t
<1>2. InFrame(t, x) => f.item = x \/ InFrame(s, x)
  BY <1>1 DEF InFrame
<1>3. f.item = x \/ InFrame(s, x) => InFrame(t, x)
  BY <1>1 DEF InFrame
<1> QED
  BY <1>2, <1>3 DEF t

LEMMA InFrameTop ==
    ASSUME NEW s \in Seq(DrainFrame), s # <<>>, NEW x
    PROVE  InFrame(s, x) <=> Head(s).item = x \/ InFrame(Tail(s), x)
<1>1. Head(s) \in DrainFrame /\ Tail(s) \in Seq(DrainFrame)
  BY ChannelPopSeq
<1>2. s = <<Head(s)>> \o Tail(s)
  OBVIOUS
<1> QED
  BY <1>1, <1>2, InFramePush

LEMMA FramesPush ==
    ASSUME NEW s \in Seq(DrainFrame), NEW f \in DrainFrame, NEW T, NEW rec
    PROVE  FramesOK(<<f>> \o s, T, rec) <=>
             /\ FramesOK(s, T, rec) /\ FrameOK(f, T, rec)
             /\ f.item = NoItem \/ ~InFrame(s, f.item)
<1> DEFINE t == <<f>> \o s
<1>1. /\ t[1] = f /\ 1 \in DOMAIN t
      /\ \A j \in DOMAIN t : j # 1 => j - 1 \in DOMAIN s /\ t[j] = s[j - 1]
      /\ \A j \in DOMAIN s : j + 1 \in DOMAIN t /\ t[j + 1] = s[j]
  BY ChannelPushSeq, PushIndex
<1>2. \A j \in DOMAIN s : j \in Nat \ {0}
  OBVIOUS
<1>3. \A j \in DOMAIN t : j \in Nat \ {0}
  <2>1. t \in Seq(DrainFrame)
    BY ChannelPushSeq
  <2> QED
    BY <2>1
<1> HIDE DEF t
<1>4. ASSUME FramesOK(t, T, rec)
      PROVE  /\ FramesOK(s, T, rec) /\ FrameOK(f, T, rec)
             /\ f.item = NoItem \/ ~InFrame(s, f.item)
  <2>1. FrameOK(f, T, rec)
    BY <1>1, <1>4 DEF FramesOK
  <2>2. \A j \in DOMAIN s : FrameOK(s[j], T, rec)
    BY <1>1, <1>4 DEF FramesOK
  <2>3. ASSUME NEW j \in DOMAIN s, NEW k \in DOMAIN s, j # k
        PROVE  s[j].item = NoItem \/ s[j].item # s[k].item
    <3>1. j + 1 \in DOMAIN t /\ k + 1 \in DOMAIN t /\ j + 1 # k + 1
      BY <1>1, <1>2, <2>3
    <3>2. t[j + 1].item = NoItem \/ t[j + 1].item # t[k + 1].item
      BY <1>4, <3>1 DEF FramesOK
    <3> QED
      BY <1>1, <3>2
  <2>4. ASSUME NEW j \in DOMAIN s PROVE f.item = NoItem \/ f.item # s[j].item
    <3>1. j + 1 \in DOMAIN t /\ j + 1 # 1
      BY <1>1, <1>2
    <3>2. t[1].item = NoItem \/ t[1].item # t[j + 1].item
      BY <1>1, <1>4, <3>1 DEF FramesOK
    <3> QED
      BY <1>1, <3>2
  <2> QED
    BY <2>1, <2>2, <2>3, <2>4 DEF FramesOK, InFrame
<1>5. ASSUME /\ FramesOK(s, T, rec) /\ FrameOK(f, T, rec)
             /\ f.item = NoItem \/ ~InFrame(s, f.item)
      PROVE  FramesOK(t, T, rec)
  <2>1. ASSUME NEW j \in DOMAIN t PROVE FrameOK(t[j], T, rec)
    BY <1>1, <1>5 DEF FramesOK
  <2>2. ASSUME NEW j \in DOMAIN t, NEW k \in DOMAIN t, j # k
        PROVE  t[j].item = NoItem \/ t[j].item # t[k].item
    <3>1. CASE j = 1
      BY <1>1, <1>5, <2>2, <3>1 DEF InFrame
    <3>2. CASE k = 1
      BY <1>1, <1>5, <2>2, <3>2 DEF InFrame
    <3>3. CASE j # 1 /\ k # 1
      <4>1. j - 1 # k - 1
        BY <1>3, <2>2
      <4> QED
        BY <1>1, <1>5, <3>3, <4>1 DEF FramesOK
    <3> QED
      BY <3>1, <3>2, <3>3
  <2> QED
    BY <2>1, <2>2 DEF FramesOK
<1> QED
  BY <1>4, <1>5 DEF t

LEMMA FramesTop ==
    ASSUME NEW s \in Seq(DrainFrame), s # <<>>, NEW T, NEW rec, FramesOK(s, T, rec)
    PROVE  /\ FramesOK(Tail(s), T, rec) /\ FrameOK(Head(s), T, rec)
           /\ Head(s).item = NoItem \/ ~InFrame(Tail(s), Head(s).item)
<1>1. Head(s) \in DrainFrame /\ Tail(s) \in Seq(DrainFrame)
  BY ChannelPopSeq
<1>2. s = <<Head(s)>> \o Tail(s)
  OBVIOUS
<1>3. FramesOK(<<Head(s)>> \o Tail(s), T, rec)
  BY <1>2
<1> QED
  BY <1>1, <1>3, FramesPush

-----------------------------------------------------------------------------
(* drain_notifications. *)

LEMMA StartDrainKeeps ==
    ASSUME Events!ConstantsAssumption, ChannelInv, Events!StartDrain PROVE ChannelInv'
<1>1. /\ Events!TypeOK /\ Distinct /\ Left(queue, csent) /\ Deliveries /\ ChannelNoneLost /\ InOrder
  BY DEF ChannelInv
<1>2. /\ cframes = <<>> /\ cframes' = <<Events!NewDrain>> /\ cwake' = FALSE
      /\ UNCHANGED <<queue, cpc, csends, creentered, cthrown, csent, creceived>>
  BY DEF Events!StartDrain, Events!Running, Events!producerVars, Events!boundVars
<1>3. Events!NewDrain \in DrainFrame /\ Events!NewDrain.item = NoItem
  BY ChannelNewDrainFrame
<1>4. /\ cframes' \in Seq(DrainFrame) /\ Len(cframes') = 1 /\ cframes'[1] = Events!NewDrain
      /\ DOMAIN cframes' = 1..1
  BY <1>2, <1>3
<1>5. Events!TypeOK'
  BY <1>1, <1>2, <1>4 DEF Events!TypeOK, DrainFrame
<1>6. Distinct' /\ Left(queue', csent') /\ Popped' = Popped
  BY <1>1, <1>2 DEF Distinct, Popped
<1>7. FramesOK(cframes', Popped, creceived)
  BY <1>3, <1>4 DEF FramesOK, FrameOK
<1>8. Deliveries'
  BY <1>1, <1>2, <1>6, <1>7 DEF Deliveries
<1>9. ChannelNoneLost'
  <2>1. \A x : ~InFrame(cframes, x)
    BY <1>2 DEF InFrame
  <2> QED
    BY <1>1, <1>2, <1>6, <2>1 DEF ChannelNoneLost, Complete
<1>10. InOrder'
  BY <1>1, <1>2, <1>3, <1>4 DEF InOrder, LastTaken
<1> QED
  BY <1>5, <1>6, <1>8, <1>9, <1>10 DEF ChannelInv

\* pop() returned an item: the last one taken, that nobody has been called with.
LEMMA PopItemKeeps ==
    ASSUME Events!ConstantsAssumption, ChannelInv, Events!PopItem PROVE ChannelInv'
<1> DEFINE it == queue[1].item
           f == [item |-> it, next |-> 1]
           s == Tail(cframes)
           P == Len(csent) - Len(queue)
<1>1. /\ Events!TypeOK /\ Distinct /\ Left(queue, csent) /\ Deliveries /\ ChannelNoneLost /\ InOrder
  BY DEF ChannelInv
<1>2. /\ cframes # <<>> /\ Head(cframes).item = NoItem /\ queue # <<>>
      /\ cframes' = <<f>> \o s /\ queue' = Tail(queue)
      /\ UNCHANGED <<cpc, csends, cwake, creentered, cthrown, csent, creceived>>
  BY DEF Events!PopItem, Events!Running, Events!Emitting, Events!HeadVisible, Events!producerVars, Events!boundVars
<1>3. /\ queue \in Seq(Node) /\ cframes \in Seq(DrainFrame) /\ csent \in Seq(Events!Item)
      /\ creceived \in [1..Observers -> Seq(Events!Item)] /\ Len(csent) \in Nat
  BY <1>1, TypedState
<1>4. /\ queue[1] \in Node /\ queue' \in Seq(Node)
      /\ Len(queue) \in Nat \ {0} /\ Len(queue') = Len(queue) - 1
      /\ \A j \in 1..Len(queue) - 1 : queue'[j] = queue[j + 1]
  BY <1>2, <1>3, ChannelPopSeq
<1>5. s \in Seq(DrainFrame)
  BY <1>2, <1>3, ChannelPopSeq
<1>6. it \in Events!Item /\ it # NoItem
  BY <1>4 DEF Node, Events!Item, Events!ConstantsAssumption
<1>7. f \in DrainFrame /\ f.item = it /\ f.next = 1
  <2>1. 1 \in 1..Observers + 1
    BY DEF Events!ConstantsAssumption
  <2> QED
    BY <1>6, <2>1, ChannelFrameFields
<1>8. P \in Nat /\ P + 1 \in 1..Len(csent) /\ Len(csent) - Len(queue') = P + 1 /\ it = csent[P + 1]
  BY <1>1, <1>3, <1>4 DEF Left
<1> HIDE DEF f, s, it, P
<1>9. cframes' \in Seq(DrainFrame)
  BY <1>2, <1>5, <1>7, ChannelPushSeq
<1>10. Events!TypeOK'
  BY <1>1, <1>2, <1>4, <1>9 DEF Events!TypeOK, DrainFrame, Node
<1>11. Distinct'
  BY <1>1, <1>2 DEF Distinct
<1>12. Left(queue', csent')
  <2>1. ASSUME NEW n \in 1..Len(queue') PROVE queue'[n].item = csent[(P + 1) + n]
    <3>1. n \in 1..Len(queue) - 1 /\ n + 1 \in 1..Len(queue)
      BY <1>4
    <3>2. queue[n + 1].item = csent[P + (n + 1)]
      BY <1>1, <3>1 DEF Left, P
    <3>3. P + (n + 1) = (P + 1) + n
      BY <1>8, <3>1
    <3> QED
      BY <1>4, <3>1, <3>2, <3>3
  <2>2. Len(queue') <= Len(csent)
    BY <1>1, <1>3, <1>4 DEF Left
  <2> QED
    BY <1>2, <1>8, <2>1, <2>2 DEF Left
<1>13. Popped' = Popped \cup {it} /\ it \notin Popped
  <2>1. 1..P + 1 = 1..P \cup {P + 1}
    BY <1>8
  <2>2. Popped' = {csent[n] : n \in 1..P + 1}
    BY <1>2, <1>8 DEF Popped, Taken
  <2>3. Popped = {csent[n] : n \in 1..P}
    BY DEF Popped, Taken, P
  <2>4. ASSUME NEW n \in 1..P PROVE csent[n] # it
    <3>1. n \in DOMAIN csent /\ P + 1 \in DOMAIN csent /\ n # P + 1
      BY <1>3, <1>8
    <3> QED
      BY <1>1, <1>8, <3>1 DEF Distinct, Events!IsInjective
  <2> QED
    BY <1>8, <2>1, <2>2, <2>3, <2>4
<1>14. /\ FramesOK(s, Popped, creceived)
       /\ \A x \in Events!Item : InFrame(cframes, x) <=> InFrame(s, x)
  <2>1. FramesOK(s, Popped, creceived)
    BY <1>1, <1>2, <1>3, FramesTop DEF Deliveries, s
  <2>2. \A x : InFrame(cframes, x) <=> Head(cframes).item = x \/ InFrame(s, x)
    BY <1>2, <1>3, InFrameTop DEF s
  <2>3. NoItem \notin Events!Item
    BY DEF Events!ConstantsAssumption, Events!Item
  <2> QED
    BY <1>2, <2>1, <2>2, <2>3
<1>15. \A x : InFrame(cframes', x) <=> it = x \/ InFrame(s, x)
  BY <1>2, <1>5, <1>7, InFramePush
<1>16. FramesOK(cframes', Popped \cup {it}, creceived)
  <2>1. FramesOK(s, Popped \cup {it}, creceived)
    BY <1>14 DEF FramesOK, FrameOK
  <2>2. \A o \in 1..Observers : ~(o < 1) /\ ~Reached(o, it, creceived)
    <3>1. \A o \in 1..Observers : Events!ToSet(creceived[o]) \subseteq Popped
      BY <1>1 DEF Deliveries, ReceivedOK
    <3>2. \A o \in 1..Observers : ~(o < 1)
      BY DEF Events!ConstantsAssumption
    <3> QED
      BY <1>13, <3>1, <3>2 DEF Reached
  <2>3. FrameOK(f, Popped \cup {it}, creceived)
    BY <1>7, <2>2 DEF FrameOK
  <2>4. ~InFrame(s, it)
    BY <1>6, <1>13, <1>14 DEF FramesOK, FrameOK, InFrame
  <2> QED
    BY <1>2, <1>5, <1>7, <2>1, <2>3, <2>4, FramesPush
<1>17. Deliveries'
  BY <1>1, <1>2, <1>13, <1>16 DEF Deliveries, ReceivedOK
<1>18. ChannelNoneLost'
  <2>1. Popped \subseteq Events!Item
    BY PoppedSent
  <2> QED
    BY <1>1, <1>2, <1>13, <1>14, <1>15, <2>1 DEF ChannelNoneLost, Complete
<1>19. InOrder'
  <2> SUFFICES ASSUME creentered = 0 PROVE LastTaken(cframes', queue', csent)
    BY <1>1, <1>2 DEF InOrder
  <2>1. Len(cframes) <= 1
    BY <1>1 DEF InOrder, LastTaken
  <2>2. Len(cframes') <= 1 /\ cframes'[1] = f
    BY <1>2, <1>3, <1>5, <1>7, <2>1, ChannelPopSeq, ChannelPushSeq DEF s
  <2>3. Len(queue') < Len(csent)
    BY <1>4, <1>8
  <2> QED
    BY <1>7, <1>8, <2>2, <2>3 DEF LastTaken
<1> QED
  BY <1>10, <1>11, <1>12, <1>17, <1>18, <1>19 DEF ChannelInv

\* pop() returned nothing, so the call emits nothing.
LEMMA PopNothingKeeps ==
    ASSUME Events!ConstantsAssumption, ChannelInv, Events!PopNothing PROVE ChannelInv'
<1> DEFINE s == Tail(cframes)
<1>1. /\ Events!TypeOK /\ Distinct /\ Left(queue, csent) /\ Deliveries /\ ChannelNoneLost /\ InOrder
  BY DEF ChannelInv
<1>2. /\ cframes # <<>> /\ Head(cframes).item = NoItem /\ cframes' = s
      /\ UNCHANGED <<queue, cpc, csends, cwake, creentered, cthrown, csent, creceived>>
  BY DEF Events!PopNothing, Events!Running, Events!Emitting, Events!producerVars, Events!boundVars
<1>3. cframes \in Seq(DrainFrame) /\ s \in Seq(DrainFrame) /\ Len(s) = Len(cframes) - 1
      /\ Len(cframes) \in Nat
  BY <1>1, <1>2, TypedState, ChannelPopSeq
<1>4. FramesOK(s, Popped, creceived)
  BY <1>1, <1>2, <1>3, FramesTop DEF Deliveries
<1>5. \A x : InFrame(cframes, x) <=> Head(cframes).item = x \/ InFrame(s, x)
  BY <1>2, <1>3, InFrameTop
<1> HIDE DEF s
<1>6. Events!TypeOK'
  BY <1>1, <1>2, <1>3 DEF Events!TypeOK, DrainFrame
<1>7. Distinct' /\ Left(queue', csent') /\ Popped' = Popped
  BY <1>1, <1>2 DEF Distinct, Popped
<1>8. Deliveries'
  BY <1>1, <1>2, <1>4, <1>7 DEF Deliveries
<1>9. ChannelNoneLost'
  <2>1. Popped \subseteq Events!Item /\ NoItem \notin Events!Item
    BY PoppedSent DEF Events!ConstantsAssumption, Events!Item
  <2> QED
    BY <1>1, <1>2, <1>5, <1>7, <2>1 DEF ChannelNoneLost, Complete
<1>10. InOrder'
  <2> SUFFICES ASSUME creentered = 0 PROVE LastTaken(s, queue, csent)
    BY <1>1, <1>2 DEF InOrder
  <2>1. Len(s) = 0
    BY <1>1, <1>2, <1>3 DEF InOrder, LastTaken
  <2>2. s = <<>>
    BY <1>3, <2>1
  <2> QED
    BY <2>1, <2>2 DEF LastTaken
<1> QED
  BY <1>6, <1>7, <1>8, <1>9, <1>10 DEF ChannelInv

-----------------------------------------------------------------------------
(* An observer is called. *)

\* It has not been called with the item, and has now; its emission is at the next.
LEMMA DeliverDoes ==
    ASSUME Events!ConstantsAssumption, ChannelInv, Events!Deliver
    PROVE  /\ cframes # <<>> /\ cframes \in Seq(DrainFrame)
           /\ Events!Advanced \in Seq(DrainFrame) /\ Len(Events!Advanced) = Len(cframes)
           /\ creceived' \in [1..Observers -> Seq(Events!Item)]
           /\ FramesOK(Events!Advanced, Popped, creceived')
           /\ ReceivedOK(Popped, creceived')
           /\ Complete(cframes, Popped, creceived) => Complete(Events!Advanced, Popped, creceived')
           /\ InOrder /\ creentered = 0 =>
                 /\ LastTaken(Events!Advanced, queue, csent)
                 /\ \A o \in 1..Observers : Events!OrderedAs(creceived'[o], csent)
<1> DEFINE it == Head(cframes).item
           o == Head(cframes).next
           s == Tail(cframes)
           f == [item |-> it, next |-> o + 1]
<1>1. /\ Events!TypeOK /\ Distinct /\ Left(queue, csent) /\ Deliveries
  BY DEF ChannelInv
<1>2. /\ cframes # <<>> /\ it # NoItem /\ o <= Observers
      /\ creceived' = [creceived EXCEPT ![o] = Append(@, it)]
      /\ Events!Advanced = <<f>> \o s
  BY DEF Events!Deliver, Events!Emitting, Events!Running, Events!Item1, Events!Observer1, Events!Advanced
<1>3. /\ cframes \in Seq(DrainFrame) /\ csent \in Seq(Events!Item)
      /\ creceived \in [1..Observers -> Seq(Events!Item)]
      /\ Len(queue) \in Nat /\ Len(csent) \in Nat
  BY <1>1, TypedState
<1>4. Head(cframes) \in DrainFrame /\ s \in Seq(DrainFrame)
      /\ Head(cframes) = cframes[1] /\ Len(s) = Len(cframes) - 1 /\ Len(cframes) \in Nat
  BY <1>2, <1>3, ChannelPopSeq
<1>5. it \in Events!Item /\ o \in 1..Observers /\ o + 1 \in 1..Observers + 1 /\ Observers \in Nat
  <2>1. it \in Events!Item \cup {NoItem} /\ o \in 1..Observers + 1
    BY <1>4, ChannelFrameFields
  <2> QED
    BY <1>2, <2>1 DEF Events!ConstantsAssumption
<1>6. f \in DrainFrame /\ f.item = it /\ f.next = o + 1
  BY <1>5, ChannelFrameFields
<1>7. /\ FramesOK(s, Popped, creceived) /\ FrameOK(Head(cframes), Popped, creceived)
      /\ ~InFrame(s, it)
  BY <1>1, <1>2, <1>3, FramesTop DEF Deliveries
<1>8. it \in Popped /\ \A x \in 1..Observers : x < o <=> Reached(x, it, creceived)
  BY <1>2, <1>7 DEF FrameOK
<1> HIDE DEF it, o, s, f
<1>9. Events!Advanced \in Seq(DrainFrame) /\ Len(Events!Advanced) = Len(cframes) /\ Events!Advanced[1] = f
  BY <1>2, <1>4, <1>6, ChannelPushSeq
<1>10. /\ creceived' \in [1..Observers -> Seq(Events!Item)]
       /\ creceived'[o] = Append(creceived[o], it) /\ creceived[o] \in Seq(Events!Item)
       /\ \A x \in 1..Observers : x # o => creceived'[x] = creceived[x]
  BY <1>2, <1>3, <1>5
<1>11. Events!ToSet(creceived'[o]) = Events!ToSet(creceived[o]) \cup {it}
  BY <1>5, <1>10, ChannelAppendSet
<1>12. it \notin Events!ToSet(creceived[o])
  BY <1>5, <1>8 DEF Reached
<1>13. \A x \in 1..Observers : \A y :
          Reached(x, y, creceived') <=> Reached(x, y, creceived) \/ (x = o /\ y = it)
  BY <1>5, <1>10, <1>11 DEF Reached
<1>14. FramesOK(Events!Advanced, Popped, creceived')
  <2>1. \A y : y # it => \A x \in 1..Observers : Reached(x, y, creceived') <=> Reached(x, y, creceived)
    BY <1>13
  <2>2. \A j \in DOMAIN s : s[j].item # it
    BY <1>7 DEF InFrame
  <2>3. FramesOK(s, Popped, creceived')
    BY <1>7, <2>1, <2>2 DEF FramesOK, FrameOK
  <2>4. FrameOK(f, Popped, creceived')
    <3>1. \A x \in 1..Observers : x < o + 1 <=> x < o \/ x = o
      BY <1>5
    <3> QED
      BY <1>6, <1>8, <1>13, <3>1 DEF FrameOK
  <2> QED
    BY <1>2, <1>4, <1>6, <1>7, <2>3, <2>4, FramesPush
<1>15. Events!IsInjective(creceived'[o])
  <2>1. Events!IsInjective(creceived[o])
    BY <1>1, <1>5 DEF Deliveries, ReceivedOK
  <2> DEFINE r == creceived[o]
  <2>2. /\ DOMAIN creceived'[o] = 1..Len(r) + 1 /\ DOMAIN r = 1..Len(r) /\ Len(r) \in Nat
        /\ creceived'[o][Len(r) + 1] = it /\ \A j \in 1..Len(r) : creceived'[o][j] = r[j]
    BY <1>5, <1>10, AppendSeq
  <2>3. \A j \in 1..Len(r) : r[j] # it
    BY <1>12, <2>2 DEF Events!ToSet
  <2>4. \A j \in 1..Len(r) + 1 : j = Len(r) + 1 \/ j \in 1..Len(r)
    BY <2>2
  <2> HIDE DEF r
  <2> QED
    BY <2>1, <2>2, <2>3, <2>4 DEF Events!IsInjective, r
<1>16. ReceivedOK(Popped, creceived')
  BY <1>1, <1>8, <1>10, <1>11, <1>15 DEF Deliveries, ReceivedOK
<1>17. ASSUME Complete(cframes, Popped, creceived) PROVE Complete(Events!Advanced, Popped, creceived')
  <2>1. \A x : InFrame(cframes, x) <=> it = x \/ InFrame(s, x)
    BY <1>2, <1>3, InFrameTop DEF it, s
  <2>2. \A x : InFrame(Events!Advanced, x) <=> it = x \/ InFrame(s, x)
    BY <1>2, <1>4, <1>6, InFramePush
  <2> QED
    BY <1>13, <1>17, <2>1, <2>2 DEF Complete
<1>18. ASSUME InOrder, creentered = 0
       PROVE  /\ LastTaken(Events!Advanced, queue, csent)
              /\ \A x \in 1..Observers : Events!OrderedAs(creceived'[x], csent)
  <2> DEFINE P == Len(csent) - Len(queue)
  <2>1. /\ LastTaken(cframes, queue, csent)
        /\ \A x \in 1..Observers : Events!OrderedAs(creceived[x], csent)
    BY <1>18 DEF InOrder
  <2>2. Len(cframes) <= 1 /\ Len(queue) < Len(csent) /\ it = csent[P]
    BY <1>2, <1>4, <2>1 DEF LastTaken, it
  <2>3. P \in 1..Len(csent) /\ P \in Nat
    BY <1>3, <2>2
  <2>4. LastTaken(Events!Advanced, queue, csent)
    BY <1>6, <1>9, <2>2 DEF LastTaken
  <2>5. Popped = {csent[n] : n \in 1..P}
    BY DEF Popped, Taken
  <2> HIDE DEF P
  <2> DEFINE r == creceived[o]
  <2>6. /\ DOMAIN creceived'[o] = 1..Len(r) + 1 /\ DOMAIN r = 1..Len(r) /\ Len(r) \in Nat
        /\ creceived'[o][Len(r) + 1] = it /\ \A j \in 1..Len(r) : creceived'[o][j] = r[j]
    BY <1>5, <1>10, AppendSeq
  <2>7. Events!OrderedAs(r, csent)
    BY <1>5, <2>1
  <2>8. \A j \in 1..Len(r) : r[j] \in Popped /\ r[j] # it
    BY <1>1, <1>5, <1>12, <2>6 DEF Deliveries, ReceivedOK, Events!ToSet
  <2> HIDE DEF r
  <2>9. ASSUME NEW i \in 1..Len(r) + 1, NEW j \in 1..Len(r) + 1, i < j,
               NEW m \in DOMAIN csent, NEW n \in DOMAIN csent,
               csent[m] = creceived'[o][i], csent[n] = creceived'[o][j]
        PROVE  m < n
    <3>1. i \in 1..Len(r)
      BY <2>6, <2>9
    <3>2. CASE j \in 1..Len(r)
      BY <2>6, <2>7, <2>9, <3>1, <3>2 DEF Events!OrderedAs
    <3>3. CASE j = Len(r) + 1
      <4>1. csent[n] = csent[P] /\ P \in DOMAIN csent
        BY <1>3, <2>2, <2>3, <2>6, <2>9, <3>3
      <4>2. n = P
        BY <1>1, <4>1 DEF Distinct, Events!IsInjective
      <4>3. PICK k \in 1..P : r[i] = csent[k]
        BY <2>5, <2>8, <3>1
      <4>4. k \in DOMAIN csent
        BY <1>3, <2>3
      <4>5. m = k
        BY <1>1, <2>6, <2>9, <3>1, <4>3, <4>4 DEF Distinct, Events!IsInjective
      <4>6. m # P
        BY <2>2, <2>8, <3>1, <4>3, <4>5
      <4> QED
        BY <2>3, <4>2, <4>5, <4>6
    <3> QED
      BY <2>6, <3>2, <3>3
  <2>10. Events!OrderedAs(creceived'[o], csent)
    BY <2>6, <2>9 DEF Events!OrderedAs
  <2>11. \A x \in 1..Observers : x # o => Events!OrderedAs(creceived'[x], csent)
    BY <1>10, <2>1
  <2> QED
    BY <2>4, <2>10, <2>11
<1> QED
  BY <1>2, <1>3, <1>9, <1>10, <1>14, <1>16, <1>17, <1>18

LEMMA ChannelCallObserverKeeps ==
    ASSUME Events!ConstantsAssumption, ChannelInv, Events!CallObserver PROVE ChannelInv'
<1>1. /\ Events!TypeOK /\ Distinct /\ Left(queue, csent) /\ ChannelNoneLost /\ InOrder
  BY DEF ChannelInv
<1>2. /\ Events!Deliver /\ cframes' = Events!Advanced
      /\ UNCHANGED <<queue, cpc, csends, cwake, creentered, cthrown, csent>>
  BY DEF Events!CallObserver, Events!producerVars, Events!boundVars
<1>3. /\ Events!Advanced \in Seq(DrainFrame)
      /\ creceived' \in [1..Observers -> Seq(Events!Item)]
      /\ FramesOK(Events!Advanced, Popped, creceived')
      /\ ReceivedOK(Popped, creceived')
      /\ Complete(cframes, Popped, creceived) => Complete(Events!Advanced, Popped, creceived')
      /\ creentered = 0 =>
            /\ LastTaken(Events!Advanced, queue, csent)
            /\ \A o \in 1..Observers : Events!OrderedAs(creceived'[o], csent)
  BY <1>1, <1>2, DeliverDoes
<1>4. Events!TypeOK'
  BY <1>1, <1>2, <1>3 DEF Events!TypeOK, DrainFrame
<1>5. Distinct' /\ Left(queue', csent') /\ Popped' = Popped
  BY <1>1, <1>2 DEF Distinct, Popped
<1>6. Deliveries'
  BY <1>2, <1>3, <1>5 DEF Deliveries
<1>7. ChannelNoneLost'
  BY <1>1, <1>2, <1>3, <1>5 DEF ChannelNoneLost
<1>8. InOrder'
  BY <1>2, <1>3 DEF InOrder
<1> QED
  BY <1>4, <1>5, <1>6, <1>7, <1>8 DEF ChannelInv

\* A drain is nested in the emission, which goes on after it.
LEMMA CallObserverPostingKeeps ==
    ASSUME Events!ConstantsAssumption, ChannelInv, Events!CallObserverPosting PROVE ChannelInv'
<1>1. /\ Events!TypeOK /\ Distinct /\ Left(queue, csent) /\ ChannelNoneLost
  BY DEF ChannelInv
<1>2. /\ Events!Deliver /\ cframes' = <<Events!NewDrain>> \o Events!Advanced
      /\ creentered < Posts /\ creentered' = creentered + 1
      /\ UNCHANGED <<queue, cpc, csends, cwake, cthrown, csent>>
  BY DEF Events!CallObserverPosting, Events!producerVars
<1>3. /\ Events!Advanced \in Seq(DrainFrame)
      /\ creceived' \in [1..Observers -> Seq(Events!Item)]
      /\ FramesOK(Events!Advanced, Popped, creceived')
      /\ ReceivedOK(Popped, creceived')
      /\ Complete(cframes, Popped, creceived) => Complete(Events!Advanced, Popped, creceived')
  BY <1>2, DeliverDoes
<1>4. Events!NewDrain \in DrainFrame /\ Events!NewDrain.item = NoItem
  BY ChannelNewDrainFrame
<1>5. cframes' \in Seq(DrainFrame)
  BY <1>2, <1>3, <1>4, ChannelPushSeq
<1>6. FramesOK(cframes', Popped, creceived')
  BY <1>2, <1>3, <1>4, FramesPush DEF FrameOK
<1>7. \A x : InFrame(Events!Advanced, x) => InFrame(cframes', x)
  BY <1>2, <1>3, <1>4, InFramePush
<1>8. creentered' \in 0..Posts /\ creentered' # 0
  BY <1>1, <1>2 DEF Events!TypeOK, Events!ConstantsAssumption
<1>9. Events!TypeOK'
  BY <1>1, <1>2, <1>3, <1>5, <1>8 DEF Events!TypeOK, DrainFrame
<1>10. Distinct' /\ Left(queue', csent') /\ Popped' = Popped
  BY <1>1, <1>2 DEF Distinct, Popped
<1>11. Deliveries'
  BY <1>2, <1>3, <1>6, <1>10 DEF Deliveries
<1>12. ChannelNoneLost'
  BY <1>1, <1>2, <1>3, <1>7, <1>10 DEF ChannelNoneLost, Complete
<1>13. InOrder'
  BY <1>8 DEF InOrder
<1> QED
  BY <1>9, <1>10, <1>11, <1>12, <1>13 DEF ChannelInv

\* The exception ends every call.
LEMMA CallObserverThrowingKeeps ==
    ASSUME Events!ConstantsAssumption, ChannelInv, Events!CallObserverThrowing PROVE ChannelInv'
<1>1. /\ Events!TypeOK /\ Distinct /\ Left(queue, csent) /\ InOrder
  BY DEF ChannelInv
<1>2. /\ Events!Deliver /\ cframes' = <<>>
      /\ cthrown < Throws /\ cthrown' = cthrown + 1
      /\ UNCHANGED <<queue, cpc, csends, cwake, creentered, csent>>
  BY DEF Events!CallObserverThrowing, Events!producerVars
<1>3. /\ creceived' \in [1..Observers -> Seq(Events!Item)]
      /\ ReceivedOK(Popped, creceived')
      /\ creentered = 0 => \A o \in 1..Observers : Events!OrderedAs(creceived'[o], csent)
  BY <1>1, <1>2, DeliverDoes
<1>4. cframes' \in Seq(DrainFrame) /\ FramesOK(cframes', Popped, creceived')
  BY <1>2 DEF FramesOK
<1>5. cthrown' \in 0..Throws /\ cthrown' # 0
  BY <1>1, <1>2 DEF Events!TypeOK, Events!ConstantsAssumption
<1>6. Events!TypeOK'
  BY <1>1, <1>2, <1>3, <1>4, <1>5 DEF Events!TypeOK, DrainFrame
<1>7. Distinct' /\ Left(queue', csent') /\ Popped' = Popped
  BY <1>1, <1>2 DEF Distinct, Popped
<1>8. Deliveries' /\ ChannelNoneLost'
  BY <1>3, <1>4, <1>5, <1>7 DEF Deliveries, ChannelNoneLost
<1>9. InOrder'
  BY <1>2, <1>3 DEF InOrder, LastTaken
<1> QED
  BY <1>6, <1>7, <1>8, <1>9 DEF ChannelInv

\* The emission is over: its item reached everyone.
LEMMA ChannelEmitDoneKeeps ==
    ASSUME Events!ConstantsAssumption, ChannelInv, Events!EmitDone PROVE ChannelInv'
<1> DEFINE s == Tail(cframes)
           it == Head(cframes).item
<1>1. /\ Events!TypeOK /\ Distinct /\ Left(queue, csent) /\ Deliveries /\ ChannelNoneLost /\ InOrder
  BY DEF ChannelInv
<1>2. /\ cframes # <<>> /\ it # NoItem /\ Head(cframes).next > Observers
      /\ cframes' = <<Events!NewDrain>> \o s
      /\ UNCHANGED <<queue, cpc, csends, cwake, creentered, cthrown, csent, creceived>>
  BY DEF Events!EmitDone, Events!Emitting, Events!Running, Events!Observer1, Events!producerVars, Events!boundVars
<1>3. /\ cframes \in Seq(DrainFrame) /\ Head(cframes) \in DrainFrame /\ s \in Seq(DrainFrame)
      /\ Len(s) = Len(cframes) - 1 /\ Len(cframes) \in Nat
  BY <1>1, <1>2, TypedState, ChannelPopSeq
<1>4. FramesOK(s, Popped, creceived) /\ FrameOK(Head(cframes), Popped, creceived)
  BY <1>1, <1>2, <1>3, FramesTop DEF Deliveries
<1>5. \A o \in 1..Observers : Reached(o, it, creceived)
  <2>1. Head(cframes).next \in 1..Observers + 1
    BY <1>3, ChannelFrameFields
  <2>2. \A o \in 1..Observers : o < Head(cframes).next
    BY <1>2, <2>1 DEF Events!ConstantsAssumption
  <2> QED
    BY <1>2, <1>4, <2>2 DEF FrameOK
<1>6. \A x : InFrame(cframes, x) <=> it = x \/ InFrame(s, x)
  BY <1>2, <1>3, InFrameTop
<1> HIDE DEF s, it
<1>7. Events!NewDrain \in DrainFrame /\ Events!NewDrain.item = NoItem
  BY ChannelNewDrainFrame
<1>8. cframes' \in Seq(DrainFrame) /\ Len(cframes') = Len(cframes) /\ cframes'[1] = Events!NewDrain
  BY <1>2, <1>3, <1>7, ChannelPushSeq
<1>9. FramesOK(cframes', Popped, creceived)
  BY <1>2, <1>3, <1>4, <1>7, FramesPush DEF FrameOK
<1>10. \A x : InFrame(s, x) => InFrame(cframes', x)
  BY <1>2, <1>3, <1>7, InFramePush
<1>11. Events!TypeOK'
  BY <1>1, <1>2, <1>8 DEF Events!TypeOK, DrainFrame
<1>12. Distinct' /\ Left(queue', csent') /\ Popped' = Popped
  BY <1>1, <1>2 DEF Distinct, Popped
<1>13. Deliveries'
  BY <1>1, <1>2, <1>9, <1>12 DEF Deliveries
<1>14. ChannelNoneLost'
  BY <1>1, <1>2, <1>5, <1>6, <1>10, <1>12 DEF ChannelNoneLost, Complete
<1>15. InOrder'
  BY <1>1, <1>2, <1>7, <1>8 DEF InOrder, LastTaken
<1> QED
  BY <1>11, <1>12, <1>13, <1>14, <1>15 DEF ChannelInv

-----------------------------------------------------------------------------
(* The theorems. *)

\* The invariant the theorems below follow from.
THEOREM ChannelInvariant ==
    ASSUME Events!ConstantsAssumption PROVE Events!SafeSpec => []ChannelInv
<1>1. Events!Init => ChannelInv
  BY ChannelInitInv
<1>2. ChannelInv /\ [Events!Next]_Events!vars => ChannelInv'
  <2> SUFFICES ASSUME ChannelInv, [Events!Next]_Events!vars PROVE ChannelInv'
    OBVIOUS
  <2>1. CASE \E p \in Producers : Events!ExchangeTail(p) \/ Events!InSend(p)
    BY <2>1, ExchangeTailKeeps, LinkNodeKeeps, PostWakeKeeps DEF Events!InSend
  <2>2. CASE Events!Logic
    BY <2>2, StartDrainKeeps, PopItemKeeps, PopNothingKeeps, ChannelCallObserverKeeps,
       CallObserverPostingKeeps, CallObserverThrowingKeeps, ChannelEmitDoneKeeps DEF Events!Logic
  <2>3. CASE UNCHANGED Events!vars
    <3>1. UNCHANGED <<queue, cpc, csends, cwake, cframes, creentered, cthrown, csent, creceived>>
      BY <2>3 DEF Events!vars
    <3>2. Events!TypeOK' /\ Distinct' /\ Left(queue', csent') /\ Popped' = Popped
      BY <3>1 DEF ChannelInv, Events!TypeOK, Distinct, Popped
    <3>3. Deliveries' /\ ChannelNoneLost' /\ InOrder'
      BY <3>1, <3>2 DEF ChannelInv, Deliveries, ChannelNoneLost, InOrder
    <3> QED
      BY <3>2, <3>3 DEF ChannelInv
  <2> QED
    BY <2>1, <2>2, <2>3 DEF Events!Next
<1> QED
  BY <1>1, <1>2, PTL DEF Events!SafeSpec

\* The queue, the producers and the nested drains are well formed.
THEOREM ChannelTypeCorrect ==
    ASSUME Events!ConstantsAssumption PROVE Events!SafeSpec => []Events!TypeOK
<1>1. ChannelInv => Events!TypeOK
  BY DEF ChannelInv
<1> QED
  BY <1>1, ChannelInvariant, PTL

\* Every observer is called in the order of the queue, which is the order in which
\* the sends of all threads took their place, as long as no drain is nested.
\* (Channel::drain_notifications)
THEOREM ObserversInOrder ==
    ASSUME Events!ConstantsAssumption PROVE Events!SafeSpec => []Events!ObserverFifo
<1>1. ChannelInv => Events!ObserverFifo
  <2> SUFFICES ASSUME ChannelInv, creentered = 0, NEW o \in 1..Observers
               PROVE  Events!ToSet(creceived[o]) \subseteq Events!ToSet(csent) /\ Events!OrderedAs(creceived[o], csent)
    BY DEF Events!ObserverFifo
  <2>1. Events!OrderedAs(creceived[o], csent)
    BY DEF ChannelInv, InOrder
  <2>2. Events!ToSet(creceived[o]) \subseteq Popped
    BY DEF ChannelInv, Deliveries, ReceivedOK
  <2> QED
    BY <2>1, <2>2, PoppedSent
<1> QED
  BY <1>1, ChannelInvariant, PTL

\* However drains nest, no observer is called twice with an item, and when they are
\* over all have been called with the same ones.  (Channel::drain_notifications)
THEOREM DeliveredExactlyOnce ==
    ASSUME Events!ConstantsAssumption PROVE Events!SafeSpec => []Events!DeliveredOnce
<1>1. ChannelInv => Events!DeliveredOnce
  <2> SUFFICES ASSUME ChannelInv, cframes = <<>>, NEW o \in 1..Observers
               PROVE  /\ Events!IsInjective(creceived[o])
                      /\ cthrown = 0 => Events!ToSet(creceived[o]) = Events!ToSet(creceived[1])
    BY DEF Events!DeliveredOnce, Events!Running
  <2>1. \A x \in 1..Observers : Events!IsInjective(creceived[x]) /\ Events!ToSet(creceived[x]) \subseteq Popped
    BY DEF ChannelInv, Deliveries, ReceivedOK
  <2>2. cthrown = 0 => \A x \in 1..Observers : Popped \subseteq Events!ToSet(creceived[x])
    BY DEF ChannelInv, ChannelNoneLost, Complete, InFrame, Reached
  <2>3. 1 \in 1..Observers
    BY DEF Events!ConstantsAssumption
  <2> QED
    BY <2>1, <2>2, <2>3
<1> QED
  BY <1>1, ChannelInvariant, PTL

\* In every behaviour of the scenes, observers are called in the order of the queue as
\* long as no drain is nested, and once with each item.  (Channel::drain_notifications)
THEOREM ChannelInOrder == MCSpec => []ChannelOrder
<1>1. MCInit => Events!Init
  BY DEF MCInit
<1>2. [MCNext]_allVars => [Events!Next]_(Events!vars)
  BY DEF MCNext, allVars, channelVars, Events!vars
<1>3. Events!SafeSpec => []Events!ObserverFifo /\ []Events!DeliveredOnce
  BY SignalsAssumption, ObserversInOrder, DeliveredExactlyOnce
<1>4. Events!ObserverFifo /\ Events!DeliveredOnce => ChannelOrder
  BY DEF ChannelOrder
<1> QED
  BY <1>1, <1>2, <1>3, <1>4, PTL DEF MCSpec, Events!SafeSpec
-----------------------------------------------------------------------------
(* Sequences that grow and shrink at the head. *)

\* A call is pushed: the others move one place down.
LEMMA GraphPushSeq ==
    ASSUME NEW S, NEW s \in Seq(S), NEW f \in S
    PROVE  /\ <<f>> \o s \in Seq(S)
           /\ Len(<<f>> \o s) = Len(s) + 1
           /\ (<<f>> \o s)[1] = f
           /\ \A j \in 1..Len(s) : (<<f>> \o s)[j + 1] = s[j]
           /\ Head(<<f>> \o s) = f /\ Tail(<<f>> \o s) = s
           /\ <<f>> \o s # <<>>
  OBVIOUS

\* A call is popped: the others move one place up.
LEMMA GraphPopSeq ==
    ASSUME NEW S, NEW s \in Seq(S), s # <<>>
    PROVE  /\ Head(s) \in S /\ Head(s) = s[1]
           /\ Tail(s) \in Seq(S)
           /\ Len(s) \in Nat \ {0} /\ Len(Tail(s)) = Len(s) - 1
           /\ \A j \in 1..Len(s) - 1 : Tail(s)[j] = s[j + 1]
  OBVIOUS

\* What a sequence of cells holds once a cell is appended, and without its head.
LEMMA GraphAppendSet ==
    ASSUME NEW S, NEW q \in Seq(S), NEW c \in S
    PROVE  Graph!ToSet(Append(q, c)) = Graph!ToSet(q) \cup {c} /\ Append(q, c) # <<>>
<1>1. Append(q, c) \in Seq(S) /\ Len(Append(q, c)) = Len(q) + 1
  OBVIOUS
<1>2. \A j \in 1..Len(q) : Append(q, c)[j] = q[j]
  OBVIOUS
<1>3. Append(q, c)[Len(q) + 1] = c
  OBVIOUS
<1>4. DOMAIN Append(q, c) = 1..Len(q) + 1 /\ DOMAIN q = 1..Len(q) /\ Len(q) \in Nat
  BY <1>1
<1>5. 1..Len(q) + 1 = 1..Len(q) \cup {Len(q) + 1}
  BY <1>4
<1> QED
  BY <1>1, <1>2, <1>3, <1>4, <1>5 DEF Graph!ToSet

LEMMA HeadTailSet ==
    ASSUME NEW S, NEW q \in Seq(S), q # <<>>
    PROVE  Graph!ToSet(q) = {Head(q)} \cup Graph!ToSet(Tail(q))
<1>1. Head(q) = q[1] /\ Len(q) \in Nat \ {0} /\ Len(Tail(q)) = Len(q) - 1
  BY GraphPopSeq
<1>2. DOMAIN q = 1..Len(q) /\ DOMAIN Tail(q) = 1..Len(q) - 1
  BY <1>1, GraphPopSeq
<1>3. \A j \in 1..Len(q) - 1 : Tail(q)[j] = q[j + 1]
  BY GraphPopSeq
<1>4. ASSUME NEW x \in Graph!ToSet(q) PROVE x \in {Head(q)} \cup Graph!ToSet(Tail(q))
  <2>1. PICK j \in 1..Len(q) : x = q[j]
    BY <1>2, <1>4 DEF Graph!ToSet
  <2>2. CASE j = 1
    BY <1>1, <2>1, <2>2
  <2>3. CASE j # 1
    <3>1. j - 1 \in 1..Len(q) - 1 /\ (j - 1) + 1 = j
      BY <1>1, <2>3
    <3> QED
      BY <1>2, <1>3, <2>1, <3>1 DEF Graph!ToSet
  <2> QED
    BY <2>2, <2>3
<1>5. ASSUME NEW x \in Graph!ToSet(Tail(q)) PROVE x \in Graph!ToSet(q)
  <2>1. PICK j \in 1..Len(q) - 1 : x = Tail(q)[j]
    BY <1>2, <1>5 DEF Graph!ToSet
  <2>2. j + 1 \in 1..Len(q) /\ x = q[j + 1]
    BY <1>1, <1>3, <2>1
  <2> QED
    BY <1>2, <2>2 DEF Graph!ToSet
<1>6. Head(q) \in Graph!ToSet(q)
  BY <1>1, <1>2 DEF Graph!ToSet
<1> QED
  BY <1>4, <1>5, <1>6

-----------------------------------------------------------------------------
(* The calls that hold the depth up. *)

Holds(f) == IF f.k \in {"txn", "flush"} THEN 1 ELSE 0

\* n calls of s hold the depth up, and nothing below a flush does.
CountedBy(s, n, c) ==
    /\ c \in [1..Len(s) + 1 -> Nat]
    /\ c[1] = n /\ c[Len(s) + 1] = 0
    /\ \A j \in 1..Len(s) :
          c[j] = c[j + 1] + Holds(s[j]) /\ (s[j].k = "flush" => c[j + 1] = 0)

Counted(s, n) == \E c \in [1..Len(s) + 1 -> Nat] : CountedBy(s, n, c)

LEMMA CountNone == Counted(<<>>, 0) /\ \A n : Counted(<<>>, n) => n = 0
<1>1. CountedBy(<<>>, 0, [j \in 1..1 |-> 0])
  BY DEF CountedBy
<1>2. [j \in 1..1 |-> 0] \in [1..Len(<<>>) + 1 -> Nat]
  OBVIOUS
<1>3. Counted(<<>>, 0)
  BY <1>1, <1>2 DEF Counted
<1>4. ASSUME NEW n, Counted(<<>>, n) PROVE n = 0
  BY <1>4 DEF Counted, CountedBy
<1> QED
  BY <1>3, <1>4

\* A call that is pushed is counted; a flush is pushed only onto none that holds.
LEMMA CountPush ==
    ASSUME NEW s \in Seq(Graph!Frame), NEW f \in Graph!Frame, NEW n, Counted(s, n),
           f.k = "flush" => n = 0
    PROVE  Counted(<<f>> \o s, n + Holds(f))
<1> DEFINE t == <<f>> \o s
<1>1. PICK c \in [1..Len(s) + 1 -> Nat] : CountedBy(s, n, c)
  BY DEF Counted
<1> DEFINE e == [j \in 1..Len(s) + 2 |-> IF j = 1 THEN n + Holds(f) ELSE c[j - 1]]
<1>2. Len(s) \in Nat /\ Len(t) = Len(s) + 1 /\ t[1] = f
      /\ \A j \in 1..Len(s) : t[j + 1] = s[j]
  BY GraphPushSeq
<1>3. n \in Nat /\ n = c[1] /\ Holds(f) \in Nat
  BY <1>1, <1>2 DEF CountedBy, Holds
<1>4. e \in [1..Len(t) + 1 -> Nat]
  BY <1>2, <1>3
<1>5. e[1] = n + Holds(f) /\ \A j \in 1..Len(s) + 1 : e[j + 1] = c[j]
  BY <1>2
<1> HIDE DEF e, t
<1>6. e[Len(t) + 1] = 0
  <2>1. c[Len(s) + 1] = 0 /\ Len(s) + 1 \in 1..Len(s) + 1
    BY <1>1, <1>2 DEF CountedBy
  <2> QED
    BY <1>2, <1>5, <2>1
<1>7. ASSUME NEW j \in 1..Len(t)
      PROVE  e[j] = e[j + 1] + Holds(t[j]) /\ (t[j].k = "flush" => e[j + 1] = 0)
  <2>1. CASE j = 1
    BY <1>2, <1>3, <1>5, <2>1
  <2>2. CASE j # 1
    <3>1. j - 1 \in 1..Len(s) /\ j \in 1..Len(s) + 1 /\ (j - 1) + 1 = j
      BY <1>2, <2>2
    <3>2. e[j] = c[j - 1] /\ e[j + 1] = c[j] /\ t[j] = s[j - 1]
      <4>1. e[(j - 1) + 1] = c[j - 1]
        BY <1>5, <3>1
      <4>2. e[j + 1] = c[j]
        BY <1>5, <3>1
      <4>3. t[(j - 1) + 1] = s[j - 1]
        BY <1>2, <3>1
      <4> QED
        BY <3>1, <4>1, <4>2, <4>3
    <3>3. c[j - 1] = c[(j - 1) + 1] + Holds(s[j - 1])
          /\ (s[j - 1].k = "flush" => c[(j - 1) + 1] = 0)
      BY <1>1, <3>1 DEF CountedBy
    <3> QED
      BY <3>1, <3>2, <3>3
  <2> QED
    BY <2>1, <2>2
<1>8. CountedBy(t, n + Holds(f), e)
  BY <1>4, <1>5, <1>6, <1>7 DEF CountedBy
<1>9. Counted(t, n + Holds(f))
  BY <1>4, <1>8 DEF Counted
<1> QED
  BY <1>9 DEF t

\* A call that is popped is not counted any more; below a flush none is.
LEMMA CountPop ==
    ASSUME NEW s \in Seq(Graph!Frame), s # <<>>, NEW n, Counted(s, n)
    PROVE  /\ n \in Nat /\ n - Holds(Head(s)) \in Nat
           /\ Counted(Tail(s), n - Holds(Head(s)))
           /\ Head(s).k = "flush" => n = 1
<1> DEFINE t == Tail(s)
<1>1. PICK c \in [1..Len(s) + 1 -> Nat] : CountedBy(s, n, c)
  BY DEF Counted
<1> DEFINE e == [j \in 1..Len(s) |-> c[j + 1]]
<1>2. /\ Len(s) \in Nat \ {0} /\ Len(t) = Len(s) - 1 /\ Head(s) = s[1]
      /\ \A j \in 1..Len(s) - 1 : t[j] = s[j + 1]
  BY GraphPopSeq
<1>3. /\ c[1] = n /\ c[1] \in Nat /\ c[2] \in Nat /\ c[1] = c[2] + Holds(s[1])
      /\ s[1].k = "flush" => c[2] = 0
  BY <1>1, <1>2 DEF CountedBy
<1>4. e \in [1..Len(t) + 1 -> Nat]
  BY <1>2
<1>5. \A j \in 1..Len(s) : e[j] = c[j + 1]
  OBVIOUS
<1> HIDE DEF e, t
<1>6. e[Len(t) + 1] = 0
  BY <1>1, <1>2, <1>5 DEF CountedBy
<1>7. ASSUME NEW j \in 1..Len(t)
      PROVE  e[j] = e[j + 1] + Holds(t[j]) /\ (t[j].k = "flush" => e[j + 1] = 0)
  <2>1. j \in 1..Len(s) /\ j + 1 \in 1..Len(s) /\ j \in 1..Len(s) - 1
    BY <1>2
  <2>2. e[j] = c[j + 1] /\ e[j + 1] = c[(j + 1) + 1] /\ t[j] = s[j + 1]
    BY <1>2, <1>5, <2>1
  <2>3. c[j + 1] = c[(j + 1) + 1] + Holds(s[j + 1])
        /\ (s[j + 1].k = "flush" => c[(j + 1) + 1] = 0)
    BY <1>1, <2>1 DEF CountedBy
  <2> QED
    BY <2>2, <2>3
<1>8. e[1] = c[2]
  BY <1>2, <1>5
<1>9. CountedBy(t, c[2], e)
  BY <1>4, <1>6, <1>7, <1>8 DEF CountedBy
<1>10. Counted(t, c[2])
  BY <1>4, <1>9 DEF Counted
<1>11. c[2] = n - Holds(Head(s)) /\ (Head(s).k = "flush" => n = 1)
  BY <1>2, <1>3 DEF Holds
<1> QED
  BY <1>3, <1>10, <1>11 DEF t

\* The count depends only on the kinds of the calls.
LEMMA CountTop ==
    ASSUME NEW s \in Seq(Graph!Frame), s # <<>>, NEW f \in Graph!Frame, f.k = Head(s).k,
           NEW n, Counted(s, n)
    PROVE  Counted(<<f>> \o Tail(s), n)
<1>1. /\ n \in Nat /\ n - Holds(Head(s)) \in Nat
      /\ Counted(Tail(s), n - Holds(Head(s))) /\ (Head(s).k = "flush" => n = 1)
  BY CountPop
<1>2. Holds(f) = Holds(Head(s)) /\ Holds(f) \in Nat /\ (f.k = "flush" => Holds(f) = 1)
  BY DEF Holds
<1>3. Tail(s) \in Seq(Graph!Frame)
  BY GraphPopSeq
<1>4. f.k = "flush" => n - Holds(Head(s)) = 0
  BY <1>1, <1>2
<1>5. Counted(<<f>> \o Tail(s), (n - Holds(Head(s))) + Holds(f))
  BY <1>1, <1>3, <1>4, CountPush
<1>6. (n - Holds(Head(s))) + Holds(f) = n
  BY <1>1, <1>2
<1> QED
  BY <1>5, <1>6

-----------------------------------------------------------------------------
(* The structure of the calls in progress. *)

\* The innermost call is a flush between two waves.
Idle == stack # <<>> /\ Head(stack).k = "flush" /\ Head(stack).rest = <<>>

\* The depth is the number of calls that hold it up, or 0 before the first wave of
\* a flush; and what is deferred has a call to flush it.
Nested ==
    \E n \in Nat :
        /\ Counted(stack, n)
        /\ depth = n \/ (depth = 0 /\ Idle)
        /\ deferred # <<>> => n > 0

\* Without an exception no flush was called by one.
Calm(s) == \A j \in DOMAIN s : s[j].k = "flush" => ~s[j].resume

Untroubled == throws = 0 => ~unwinding /\ ~terminated /\ Calm(stack)

LEMMA CalmPush ==
    ASSUME NEW s \in Seq(Graph!Frame), NEW f \in Graph!Frame, Calm(s), f.k = "flush" => ~f.resume
    PROVE  Calm(<<f>> \o s)
<1>1. /\ Len(<<f>> \o s) = Len(s) + 1 /\ <<f>> \o s \in Seq(Graph!Frame) /\ Len(s) \in Nat
      /\ (<<f>> \o s)[1] = f /\ \A j \in 1..Len(s) : (<<f>> \o s)[j + 1] = s[j]
  BY GraphPushSeq
<1>2. ASSUME NEW j \in 1..Len(s) + 1, j # 1
      PROVE  (<<f>> \o s)[j] = s[j - 1] /\ j - 1 \in DOMAIN s
  <2>1. j - 1 \in 1..Len(s) /\ (j - 1) + 1 = j
    BY <1>1, <1>2
  <2> QED
    BY <1>1, <2>1
<1>3. DOMAIN (<<f>> \o s) = 1..Len(s) + 1
  BY <1>1
<1> QED
  BY <1>1, <1>2, <1>3 DEF Calm

LEMMA CalmPop ==
    ASSUME NEW s \in Seq(Graph!Frame), s # <<>>, Calm(s)
    PROVE  Calm(Tail(s)) /\ (Head(s).k = "flush" => ~Head(s).resume)
<1>1. /\ Len(s) \in Nat \ {0} /\ Len(Tail(s)) = Len(s) - 1 /\ Head(s) = s[1]
      /\ Tail(s) \in Seq(Graph!Frame)
      /\ \A j \in 1..Len(s) - 1 : Tail(s)[j] = s[j + 1]
  BY GraphPopSeq
<1>2. DOMAIN Tail(s) = 1..Len(s) - 1 /\ DOMAIN s = 1..Len(s)
  BY <1>1
<1>3. \A j \in 1..Len(s) - 1 : j + 1 \in DOMAIN s
  BY <1>1, <1>2
<1>4. 1 \in DOMAIN s
  BY <1>1, <1>2
<1> QED
  BY <1>1, <1>2, <1>3, <1>4 DEF Calm

LEMMA FrameKinds ==
    ASSUME Graph!ConstantsAssumption
    PROVE  /\ \A c \in Graph!Cells : Graph!Emit(c) \in Graph!Frame /\ Graph!Emit(c).k = "emit"
           /\ Graph!Body \in Graph!Frame /\ Graph!Body.k = "body"
           /\ Graph!Txn \in Graph!Frame /\ Graph!Txn.k = "txn"
           /\ \A r \in BOOLEAN : Graph!Flush(r) \in Graph!Frame /\ Graph!Flush(r).k = "flush"
                                 /\ Graph!Flush(r).rest = <<>> /\ Graph!Flush(r).resume = r
<1>1. \A c \in Graph!Cells : Graph!Emit(c) \in Graph!Frame /\ Graph!Emit(c).k = "emit"
  BY DEF Graph!Emit, Graph!Frame
<1>2. Graph!Body \in Graph!Frame /\ Graph!Body.k = "body" /\ Graph!Txn \in Graph!Frame /\ Graph!Txn.k = "txn"
  BY DEF Graph!Body, Graph!Txn, Graph!Frame
<1>3. <<>> \in Seq(Graph!Cells) /\ 0 \in 0..MaxWaves
  BY DEF Graph!ConstantsAssumption
<1>4. \A r \in BOOLEAN : Graph!Flush(r) \in Graph!Frame /\ Graph!Flush(r).k = "flush"
                         /\ Graph!Flush(r).rest = <<>> /\ Graph!Flush(r).resume = r
  BY <1>3 DEF Graph!Flush, Graph!Frame
<1> QED
  BY <1>1, <1>2, <1>4

\* What the frames hold.
LEMMA GraphFrameFields ==
    ASSUME NEW f \in Graph!Frame
    PROVE  /\ f.k \in {"emit", "body", "txn", "flush"}
           /\ f.k = "emit" => /\ f.c \in Graph!Cells /\ f.i \in Nat \ {0}
                              /\ [f EXCEPT !.i = @ + 1] = [k |-> "emit", c |-> f.c, i |-> f.i + 1]
                              /\ [f EXCEPT !.i = @ + 1] \in Graph!Frame
           /\ f.k = "flush" =>
                 /\ f.rest \in Seq(Graph!Cells) /\ f.wave \in 0..MaxWaves /\ f.resume \in BOOLEAN
                 /\ \A q \in Seq(Graph!Cells), w \in 0..MaxWaves :
                       [k |-> "flush", rest |-> q, wave |-> w, resume |-> f.resume] \in Graph!Frame
                 /\ \A q : [f EXCEPT !.rest = q] =
                       [k |-> "flush", rest |-> q, wave |-> f.wave, resume |-> f.resume]
<1>1. CASE f \in [k : {"emit"}, c : Graph!Cells, i : Nat \ {0}]
  <2>1. f.k = "emit" /\ f.c \in Graph!Cells /\ f.i \in Nat \ {0}
    BY <1>1
  <2>2. [f EXCEPT !.i = @ + 1] = [k |-> "emit", c |-> f.c, i |-> f.i + 1]
    BY <1>1
  <2>3. [k |-> "emit", c |-> f.c, i |-> f.i + 1] \in Graph!Frame
    <3>1. f.i + 1 \in Nat \ {0}
      BY <2>1
    <3> QED
      BY <2>1, <3>1 DEF Graph!Frame
  <2> QED
    BY <2>1, <2>2, <2>3
<1>2. CASE f \in [k : {"body", "txn"}]
  BY <1>2 DEF Graph!Frame
<1>3. CASE f \in [k : {"flush"}, rest : Seq(Graph!Cells), wave : 0..MaxWaves, resume : BOOLEAN]
  <2>1. /\ f.k = "flush" /\ f.rest \in Seq(Graph!Cells) /\ f.wave \in 0..MaxWaves
        /\ f.resume \in BOOLEAN
    BY <1>3
  <2>2. \A q \in Seq(Graph!Cells), w \in 0..MaxWaves :
           [k |-> "flush", rest |-> q, wave |-> w, resume |-> f.resume] \in Graph!Frame
    BY <2>1 DEF Graph!Frame
  <2>3. ASSUME NEW q
        PROVE  [f EXCEPT !.rest = q] =
                  [k |-> "flush", rest |-> q, wave |-> f.wave, resume |-> f.resume]
    BY <1>3
  <2> QED
    BY <2>1, <2>2, <2>3
<1> QED
  BY <1>1, <1>2, <1>3 DEF Graph!Frame

-----------------------------------------------------------------------------
(* What is owed: calls of receivers still to come. *)

\* The call f goes on to the receiver of cell c at place i.
FrameOwes(f, c, i) ==
    \/ f.k = "emit" /\ f.c = c /\ f.i <= i
    \/ f.k = "flush" /\ c \in Graph!ToSet(f.rest)

Owes(q, s, c, i) == c \in Graph!ToSet(q) \/ \E j \in DOMAIN s : FrameOwes(s[j], c, i)

\* An observer was last called with the value of its cell and a Derived holds what
\* its lambda returns, or else their receiver is owed a call; but for receiver r.
ServedBut(q, s, v, w, r) ==
    /\ \A c \in Graph!Cells : \A i \in DOMAIN Subs[c] :
          Subs[c][i] \in Watchers /\ Subs[c][i] # r =>
              w[Subs[c][i]] = v[c] \/ Owes(q, s, c, i)
    /\ \A d \in Deriveds :
          d # r => \/ v[d] = Graph!Computed(d, v)
                   \/ \E c \in Graph!Cells : \E i \in DOMAIN Subs[c] :
                         Subs[c][i] = d /\ Owes(q, s, c, i)

Served(q, s, v, w) ==
    /\ \A c \in Graph!Cells : \A i \in DOMAIN Subs[c] :
          Subs[c][i] \in Watchers => w[Subs[c][i]] = v[c] \/ Owes(q, s, c, i)
    /\ \A d \in Deriveds :
          \/ v[d] = Graph!Computed(d, v)
          \/ \E c \in Graph!Cells : \E i \in DOMAIN Subs[c] : Subs[c][i] = d /\ Owes(q, s, c, i)

\* What was owed before still is.
Keeps(q, s, q2, s2) ==
    \A c \in Graph!Cells : \A i \in DOMAIN Subs[c] : Owes(q, s, c, i) => Owes(q2, s2, c, i)

LEMMA OwesPush ==
    ASSUME NEW q, NEW s \in Seq(Graph!Frame), NEW f \in Graph!Frame, NEW c, NEW i
    PROVE  Owes(q, <<f>> \o s, c, i) <=> FrameOwes(f, c, i) \/ Owes(q, s, c, i)
<1>1. /\ Len(<<f>> \o s) = Len(s) + 1 /\ <<f>> \o s \in Seq(Graph!Frame) /\ Len(s) \in Nat
      /\ (<<f>> \o s)[1] = f /\ \A j \in 1..Len(s) : (<<f>> \o s)[j + 1] = s[j]
  BY GraphPushSeq
<1>2. DOMAIN (<<f>> \o s) = 1..Len(s) + 1 /\ DOMAIN s = 1..Len(s)
  BY <1>1
<1>3. ASSUME NEW j \in 1..Len(s) + 1, j # 1
      PROVE  (<<f>> \o s)[j] = s[j - 1] /\ j - 1 \in DOMAIN s
  <2>1. j - 1 \in 1..Len(s) /\ (j - 1) + 1 = j
    BY <1>1, <1>3
  <2> QED
    BY <1>1, <2>1
<1>4. ASSUME NEW j \in DOMAIN s PROVE j + 1 \in 1..Len(s) + 1 /\ (<<f>> \o s)[j + 1] = s[j]
  BY <1>1, <1>2
<1>5. 1 \in 1..Len(s) + 1
  BY <1>1
<1>6. (\E j \in DOMAIN (<<f>> \o s) : FrameOwes((<<f>> \o s)[j], c, i))
        <=> FrameOwes(f, c, i) \/ \E j \in DOMAIN s : FrameOwes(s[j], c, i)
  BY <1>1, <1>2, <1>3, <1>4, <1>5
<1> QED
  BY <1>6 DEF Owes

LEMMA OwesTop ==
    ASSUME NEW q, NEW s \in Seq(Graph!Frame), s # <<>>, NEW c, NEW i
    PROVE  Owes(q, s, c, i) <=> FrameOwes(Head(s), c, i) \/ Owes(q, Tail(s), c, i)
<1>1. Head(s) \in Graph!Frame /\ Tail(s) \in Seq(Graph!Frame)
  BY GraphPopSeq
<1>2. s = <<Head(s)>> \o Tail(s)
  OBVIOUS
<1> QED
  BY <1>1, <1>2, OwesPush

LEMMA OwesNothing == \A c, i : ~Owes(<<>>, <<>>, c, i)
  BY DEF Owes, Graph!ToSet

LEMMA ServedKeeps ==
    ASSUME NEW q, NEW s, NEW q2, NEW s2, NEW v, NEW w,
           Served(q, s, v, w), Keeps(q, s, q2, s2)
    PROVE  Served(q2, s2, v, w)
  BY DEF Served, Keeps

LEMMA ServedAll ==
    ASSUME NEW q, NEW s, NEW v, NEW w, NEW r, Served(q, s, v, w)
    PROVE  ServedBut(q, s, v, w, r)
  BY DEF Served, ServedBut

\* The emission at the head of s goes on to its next receiver.
LEMMA ServedAdvance ==
    ASSUME Graph!ConstantsAssumption, NEW q, NEW s \in Seq(Graph!Frame), s # <<>>, NEW v, NEW w,
           Head(s).k = "emit", Head(s).i \in DOMAIN Subs[Head(s).c],
           Served(q, s, v, w)
    PROVE  ServedBut(q, <<[Head(s) EXCEPT !.i = @ + 1]>> \o Tail(s), v, w,
                     Subs[Head(s).c][Head(s).i])
<1> DEFINE f == Head(s)
           g == [Head(s) EXCEPT !.i = @ + 1]
           t == <<g>> \o Tail(s)
           r == Subs[f.c][f.i]
<1>1. f \in Graph!Frame /\ Tail(s) \in Seq(Graph!Frame)
  BY GraphPopSeq
<1>2. f.c \in Graph!Cells /\ f.i \in Nat /\ g = [k |-> "emit", c |-> f.c, i |-> f.i + 1] /\ g \in Graph!Frame
  BY <1>1, GraphFrameFields
<1>3. g.k = "emit" /\ g.c = f.c /\ g.i = f.i + 1
  BY <1>2
<1>4. \A c \in Graph!Cells : DOMAIN Subs[c] \subseteq Nat
  BY DEF Graph!ConstantsAssumption
<1>5. ASSUME NEW c \in Graph!Cells, NEW i \in DOMAIN Subs[c], Owes(q, s, c, i), Subs[c][i] # r
      PROVE  Owes(q, t, c, i)
  <2>1. FrameOwes(f, c, i) \/ Owes(q, Tail(s), c, i)
    BY <1>5, OwesTop
  <2>2. CASE Owes(q, Tail(s), c, i)
    BY <1>1, <1>2, <2>2, OwesPush
  <2>3. CASE FrameOwes(f, c, i)
    <3>1. f.c = c /\ f.i <= i /\ i # f.i
      BY <1>5, <2>3 DEF FrameOwes
    <3>2. i \in Nat
      BY <1>4
    <3>3. f.i + 1 <= i
      BY <1>2, <3>1, <3>2
    <3>4. FrameOwes(g, c, i)
      BY <1>3, <3>1, <3>3 DEF FrameOwes
    <3> QED
      BY <1>1, <1>2, <3>4, OwesPush
  <2> QED
    BY <2>1, <2>2, <2>3
<1> HIDE DEF t, g
<1>6. ServedBut(q, t, v, w, r)
  <2> HIDE DEF r
  <2> QED
    BY <1>5 DEF Served, ServedBut
<1> QED
  BY <1>6 DEF t, g

\* An observer is called with the value of its cell.
LEMMA ServedCall ==
    ASSUME Graph!ConstantsAssumption, NEW q, NEW s, NEW v, NEW w \in [Watchers -> Value],
           NEW c \in Graph!Cells, NEW i \in DOMAIN Subs[c], Subs[c][i] \in Watchers,
           ServedBut(q, s, v, w, Subs[c][i])
    PROVE  Served(q, s, v, [w EXCEPT ![Subs[c][i]] = v[c]])
<1> DEFINE r == Subs[c][i]
           w2 == [w EXCEPT ![r] = v[c]]
<1>1. r \in Graph!ToSet(Subs[c]) /\ r \in Watchers
  BY DEF Graph!ToSet
<1>2. ASSUME NEW e \in Graph!Cells, NEW j \in DOMAIN Subs[e], Subs[e][j] = r PROVE e = c
  <2>1. r \in Graph!ToSet(Subs[e])
    BY <1>2 DEF Graph!ToSet
  <2> QED
    BY <1>1, <2>1 DEF Graph!ConstantsAssumption
<1>3. w2[r] = v[c] /\ \A o \in Watchers : o # r => w2[o] = w[o]
  BY <1>1
<1>4. r \notin Deriveds
  BY <1>1 DEF Graph!ConstantsAssumption, Graph!Cells
<1> HIDE DEF w2, r
<1>5. Served(q, s, v, w2)
  <2>1. ServedBut(q, s, v, w, r)
    BY DEF r
  <2> QED
    BY <1>2, <1>3, <1>4, <2>1 DEF Served, ServedBut
<1> QED
  BY <1>5 DEF w2, r

\* A cell changes, and all its receivers are owed a call.
LEMMA ServedChange ==
    ASSUME Graph!ConstantsAssumption, NEW q, NEW s, NEW q2, NEW s2,
           NEW v \in [Graph!Cells -> Value], NEW w, NEW x \in Graph!Cells, NEW y,
           ServedBut(q, s, v, w, x), Keeps(q, s, q2, s2),
           \A i \in DOMAIN Subs[x] : Owes(q2, s2, x, i),
           x \in Deriveds => y = Graph!Computed(x, v)
    PROVE  Served(q2, s2, [v EXCEPT ![x] = y], w)
<1> DEFINE v2 == [v EXCEPT ![x] = y]
<1>1. v2[x] = y /\ \A c \in Graph!Cells : c # x => v2[c] = v[c]
  OBVIOUS
<1> HIDE DEF v2
<1>2. ASSUME NEW d \in Deriveds, x \notin Graph!Sources(d) PROVE Graph!Computed(d, v2) = Graph!Computed(d, v)
  <2>1. \A c \in Graph!Sources(d) : v2[c] = v[c]
    BY <1>1, <1>2 DEF Graph!Sources
  <2>2. [c \in Graph!Sources(d) |-> v2[c]] = [c \in Graph!Sources(d) |-> v[c]]
    BY <2>1
  <2> QED
    BY <2>2 DEF Graph!Computed
<1>3. x \notin Watchers
  BY DEF Graph!ConstantsAssumption
<1>4. ASSUME NEW c \in Graph!Cells, NEW i \in DOMAIN Subs[c], Subs[c][i] \in Watchers
      PROVE  w[Subs[c][i]] = v2[c] \/ Owes(q2, s2, c, i)
  <2>1. CASE c = x
    BY <2>1
  <2>2. CASE c # x
    <3>1. v2[c] = v[c] /\ Subs[c][i] # x
      BY <1>1, <1>3, <1>4, <2>2
    <3> QED
      BY <1>4, <3>1 DEF ServedBut, Keeps
  <2> QED
    BY <2>1, <2>2
<1>5. ASSUME NEW d \in Deriveds
      PROVE  \/ v2[d] = Graph!Computed(d, v2)
             \/ \E c \in Graph!Cells : \E i \in DOMAIN Subs[c] :
                   Subs[c][i] = d /\ Owes(q2, s2, c, i)
  <2>1. CASE x \in Graph!Sources(d)
    <3>1. PICK i \in DOMAIN Subs[x] : Subs[x][i] = d
      BY <2>1 DEF Graph!Sources, Graph!ToSet
    <3> QED
      BY <3>1
  <2>2. CASE x \notin Graph!Sources(d) /\ d = x
    BY <1>1, <1>2, <2>2
  <2>3. CASE x \notin Graph!Sources(d) /\ d # x
    <3>1. d \in Graph!Cells /\ v2[d] = v[d] /\ Graph!Computed(d, v2) = Graph!Computed(d, v)
      BY <1>1, <1>2, <2>3 DEF Graph!Cells
    <3> QED
      BY <2>3, <3>1 DEF ServedBut, Keeps
  <2> QED
    BY <2>1, <2>2, <2>3
<1>6. Served(q2, s2, v2, w)
  BY <1>4, <1>5 DEF Served
<1> QED
  BY <1>6 DEF v2

\* A Derived recomputes to the value it has.
LEMMA ServedSame ==
    ASSUME Graph!ConstantsAssumption, NEW q, NEW s, NEW v, NEW w,
           NEW d \in Deriveds, v[d] = Graph!Computed(d, v), ServedBut(q, s, v, w, d)
    PROVE  Served(q, s, v, w)
<1>1. d \notin Watchers
  BY DEF Graph!ConstantsAssumption, Graph!Cells
<1> QED
  BY <1>1 DEF Served, ServedBut

-----------------------------------------------------------------------------
(* The inductive invariant and the steps of application code. *)

GraphNoneLost == Graph!Undisturbed => Served(deferred, stack, val, rseen)

ReactiveInv == Graph!TypeOK /\ Nested /\ Untroubled /\ GraphNoneLost

LEMMA GraphInitInv == Graph!ConstantsAssumption /\ Graph!Init => ReactiveInv
<1> SUFFICES ASSUME Graph!ConstantsAssumption, Graph!Init PROVE ReactiveInv
  OBVIOUS
<1>1. \A o \in Watchers : Graph!CellOf(o) \in Graph!Cells /\ o \in Graph!ToSet(Subs[Graph!CellOf(o)])
  BY DEF Graph!ConstantsAssumption, Graph!CellOf
<1>2. Graph!TypeOK
  <2>1. rseen \in [Watchers -> Value]
    BY <1>1 DEF Graph!Init, Graph!ConstantsAssumption
  <2>2. deferred \in Seq(Graph!Cells) /\ stack \in Seq(Graph!Frame)
    BY DEF Graph!Init
  <2>3. fired \in [Watchers -> 0..2]
    BY DEF Graph!Init
  <2>4. rsets \in 0..FieldSets /\ txns \in 0..MaxTxns /\ throws \in 0..Throws
    BY DEF Graph!Init, Graph!ConstantsAssumption
  <2>5. val \in [Graph!Cells -> Value] /\ depth \in Nat
    BY DEF Graph!Init, Graph!ConstantsAssumption
  <2> QED
    BY <2>1, <2>2, <2>3, <2>4, <2>5 DEF Graph!Init, Graph!TypeOK
<1>3. Nested
  <2>1. Counted(stack, 0) /\ depth = 0 /\ deferred = <<>>
    BY CountNone DEF Graph!Init
  <2> QED
    BY <2>1 DEF Nested
<1>4. Untroubled
  BY DEF Graph!Init, Untroubled, Calm
<1>5. Served(deferred, stack, val, rseen)
  <2>1. ASSUME NEW c \in Graph!Cells, NEW i \in DOMAIN Subs[c], Subs[c][i] \in Watchers
        PROVE  rseen[Subs[c][i]] = val[c]
    <3>1. Subs[c][i] \in Graph!ToSet(Subs[c])
      BY DEF Graph!ToSet
    <3>2. Graph!CellOf(Subs[c][i]) = c
      BY <1>1, <2>1, <3>1 DEF Graph!ConstantsAssumption
    <3> QED
      BY <2>1, <3>2 DEF Graph!Init
  <2>2. \A d \in Deriveds : val[d] = Graph!Computed(d, val)
    BY DEF Graph!Init, Graph!ConstantsAssumption, Graph!Settled
  <2> QED
    BY <2>1, <2>2 DEF Served
<1> QED
  BY <1>2, <1>3, <1>4, <1>5 DEF ReactiveInv, GraphNoneLost

\* Between two steps of a call that is no idle flush the depth is the count.
LEMMA DepthCounts ==
    ASSUME Nested, ~Idle
    PROVE  \E n \in Nat : Counted(stack, n) /\ depth = n /\ (deferred # <<>> => n > 0)
  BY DEF Nested

LEMMA CallsOwe ==
    ASSUME Graph!ConstantsAssumption
    PROVE  /\ \A c, i : ~FrameOwes(Graph!Body, c, i) /\ ~FrameOwes(Graph!Txn, c, i)
           /\ \A r \in BOOLEAN : \A c, i : ~FrameOwes(Graph!Flush(r), c, i)
           /\ \A c \in Graph!Cells : \A i \in DOMAIN Subs[c] : FrameOwes(Graph!Emit(c), c, i)
<1>1. \A r \in BOOLEAN : \A c, i : ~FrameOwes(Graph!Flush(r), c, i)
  BY DEF FrameOwes, Graph!Flush, Graph!ToSet
<1>2. \A c, i : ~FrameOwes(Graph!Body, c, i) /\ ~FrameOwes(Graph!Txn, c, i)
  BY DEF FrameOwes, Graph!Body, Graph!Txn
<1>3. ASSUME NEW c \in Graph!Cells, NEW i \in DOMAIN Subs[c] PROVE FrameOwes(Graph!Emit(c), c, i)
  <2>1. Subs[c] \in Seq(Deriveds \cup Watchers)
    BY DEF Graph!ConstantsAssumption
  <2>2. i \in Nat /\ 1 <= i
    BY <2>1
  <2>3. Graph!Emit(c).k = "emit" /\ Graph!Emit(c).c = c /\ Graph!Emit(c).i = 1
    BY DEF Graph!Emit
  <2> QED
    BY <2>2, <2>3 DEF FrameOwes
<1> QED
  BY <1>1, <1>2, <1>3

\* A changed cell owes its receivers an emission, now or after the transaction.
LEMMA EmitOrDeferDoes ==
    ASSUME Graph!ConstantsAssumption, NEW c \in Graph!Cells, NEW s \in Seq(Graph!Frame),
           deferred \in Seq(Graph!Cells), NEW n \in Nat, Counted(s, n), depth = n,
           deferred # <<>> => n > 0, Graph!EmitOrDefer(c, s), depth' = depth
    PROVE  /\ deferred' \in Seq(Graph!Cells) /\ stack' \in Seq(Graph!Frame)
           /\ Nested'
           /\ Keeps(deferred, s, deferred', stack')
           /\ \A i \in DOMAIN Subs[c] : Owes(deferred', stack', c, i)
           /\ Calm(s) => Calm(stack')
<1>1. CASE depth > 0
  <2>1. deferred' = Append(deferred, c) /\ stack' = s
    BY <1>1 DEF Graph!EmitOrDefer
  <2>2. Graph!ToSet(deferred') = Graph!ToSet(deferred) \cup {c}
    BY <2>1, GraphAppendSet
  <2>3. Nested'
    BY <1>1, <2>1 DEF Nested
  <2>4. deferred' \in Seq(Graph!Cells)
    BY <2>1
  <2> QED
    BY <2>1, <2>2, <2>3, <2>4 DEF Keeps, Owes
<1>2. CASE ~(depth > 0)
  <2>1. deferred' = deferred /\ stack' = <<Graph!Emit(c)>> \o s
    BY <1>2 DEF Graph!EmitOrDefer
  <2>2. Graph!Emit(c) \in Graph!Frame /\ Graph!Emit(c).k = "emit"
    BY FrameKinds
  <2>3. stack' \in Seq(Graph!Frame)
    BY <2>1, <2>2, GraphPushSeq
  <2>4. Counted(stack', n + 0)
    <3>1. Holds(Graph!Emit(c)) = 0
      BY <2>2 DEF Holds
    <3> QED
      BY <2>1, <2>2, <3>1, CountPush
  <2>5. Nested'
    <3>1. n + 0 = n
      OBVIOUS
    <3> QED
      BY <2>1, <2>4, <3>1 DEF Nested
  <2>6. Keeps(deferred, s, deferred', stack')
    BY <2>1, <2>2, OwesPush DEF Keeps
  <2>7. \A i \in DOMAIN Subs[c] : Owes(deferred', stack', c, i)
    BY <2>1, <2>2, CallsOwe, OwesPush
  <2>8. Calm(s) => Calm(stack')
    BY <2>1, <2>2, CalmPush
  <2> QED
    BY <2>1, <2>3, <2>5, <2>6, <2>7, <2>8
<1> QED
  BY <1>1, <1>2

LEMMA SetFieldKeeps ==
    ASSUME Graph!ConstantsAssumption, ReactiveInv, NEW f \in Fields, NEW v \in Input, Graph!SetField(f, v)
    PROVE  ReactiveInv'
<1>1. Graph!TypeOK /\ Nested /\ Untroubled /\ GraphNoneLost
  BY DEF ReactiveInv
<1>2. f \in Graph!Cells /\ v \in Value /\ f \notin Deriveds
  BY DEF Graph!ConstantsAssumption, Graph!Cells
<1>3. ~Idle
  BY DEF Graph!SetField, Graph!InApplication, Graph!Kind, Idle
<1>4. PICK n \in Nat : Counted(stack, n) /\ depth = n /\ (deferred # <<>> => n > 0)
  BY <1>1, <1>3, DepthCounts
<1>5. /\ rsets' \in 0..FieldSets /\ acted' \in BOOLEAN
      /\ UNCHANGED <<rseen, depth, unwinding, terminated, fired, txns, throws, capped>>
  BY <1>1 DEF Graph!SetField, Graph!TypeOK, Graph!ConstantsAssumption
<1>6. CASE val[f] = v
  <2>1. UNCHANGED <<val, deferred, stack>>
    BY <1>6 DEF Graph!SetField
  <2>2. Graph!TypeOK'
    BY <1>1, <1>5, <2>1 DEF Graph!TypeOK
  <2>3. Nested'
    BY <1>1, <1>5, <2>1 DEF Nested, Idle
  <2>4. Untroubled' /\ GraphNoneLost'
    BY <1>1, <1>5, <2>1 DEF Untroubled, GraphNoneLost, Graph!Undisturbed
  <2> QED
    BY <2>2, <2>3, <2>4 DEF ReactiveInv
<1>7. CASE val[f] # v
  <2>1. val' = [val EXCEPT ![f] = v] /\ Graph!EmitOrDefer(f, stack)
    BY <1>7 DEF Graph!SetField
  <2>2. stack \in Seq(Graph!Frame) /\ deferred \in Seq(Graph!Cells) /\ val \in [Graph!Cells -> Value]
    BY <1>1 DEF Graph!TypeOK
  <2>3. /\ deferred' \in Seq(Graph!Cells) /\ stack' \in Seq(Graph!Frame) /\ Nested'
        /\ Keeps(deferred, stack, deferred', stack')
        /\ \A i \in DOMAIN Subs[f] : Owes(deferred', stack', f, i)
        /\ Calm(stack) => Calm(stack')
    BY <1>2, <1>4, <1>5, <2>1, <2>2, EmitOrDeferDoes
  <2>4. val' \in [Graph!Cells -> Value]
    BY <1>2, <2>1, <2>2
  <2>5. Graph!TypeOK'
    BY <1>1, <1>5, <2>3, <2>4 DEF Graph!TypeOK
  <2>6. Untroubled'
    BY <1>1, <1>5, <2>3 DEF Untroubled
  <2>7. GraphNoneLost'
    <3> SUFFICES ASSUME Graph!Undisturbed' PROVE Served(deferred', stack', val', rseen')
      BY DEF GraphNoneLost
    <3>1. Served(deferred, stack, val, rseen)
      BY <1>1, <1>5 DEF GraphNoneLost, Graph!Undisturbed
    <3>2. ServedBut(deferred, stack, val, rseen, f)
      BY <3>1, ServedAll
    <3>3. Served(deferred', stack', [val EXCEPT ![f] = v], rseen)
      BY <1>2, <2>2, <2>3, <3>2, ServedChange
    <3> QED
      BY <1>5, <2>1, <3>3
  <2> QED
    BY <2>3, <2>5, <2>6, <2>7 DEF ReactiveInv
<1> QED
  BY <1>6, <1>7

LEMMA OpenTxnKeeps ==
    ASSUME Graph!ConstantsAssumption, ReactiveInv, Graph!OpenTxn PROVE ReactiveInv'
<1>1. Graph!TypeOK /\ Nested /\ Untroubled /\ GraphNoneLost
  BY DEF ReactiveInv
<1>2. ~Idle
  BY DEF Graph!OpenTxn, Graph!InApplication, Graph!Kind, Idle
<1>3. PICK n \in Nat : Counted(stack, n) /\ depth = n /\ (deferred # <<>> => n > 0)
  BY <1>1, <1>2, DepthCounts
<1>4. stack \in Seq(Graph!Frame) /\ depth \in Nat
  BY <1>1 DEF Graph!TypeOK
<1>5. /\ depth' = depth + 1 /\ stack' = <<Graph!Txn>> \o stack
      /\ UNCHANGED <<val, rseen, deferred, unwinding, terminated, rsets, throws, capped>>
  BY DEF Graph!OpenTxn
<1>6. txns' \in 0..MaxTxns /\ acted' \in BOOLEAN /\ fired' \in [Watchers -> 0..2]
  BY <1>1 DEF Graph!OpenTxn, Graph!TypeOK, Graph!ConstantsAssumption
<1>7. Graph!Txn \in Graph!Frame /\ Graph!Txn.k = "txn" /\ stack' \in Seq(Graph!Frame)
  BY <1>4, <1>5, FrameKinds, GraphPushSeq
<1>8. Graph!TypeOK'
  BY <1>1, <1>4, <1>5, <1>6, <1>7 DEF Graph!TypeOK
<1>9. Nested'
  <2>1. Counted(stack', n + 1)
    <3>1. Holds(Graph!Txn) = 1
      BY <1>7 DEF Holds
    <3> QED
      BY <1>3, <1>4, <1>5, <1>7, <3>1, CountPush
  <2>2. n + 1 \in Nat /\ n + 1 > 0 /\ depth' = n + 1
    BY <1>3, <1>5
  <2> QED
    BY <2>1, <2>2 DEF Nested
<1>10. Untroubled'
  BY <1>1, <1>4, <1>5, <1>7, CalmPush DEF Untroubled
<1>11. GraphNoneLost'
  <2>1. Keeps(deferred, stack, deferred', stack')
    BY <1>4, <1>5, <1>7, OwesPush DEF Keeps
  <2> QED
    BY <1>1, <1>5, <2>1, ServedKeeps DEF GraphNoneLost, Graph!Undisturbed
<1> QED
  BY <1>8, <1>9, <1>10, <1>11 DEF ReactiveInv

-----------------------------------------------------------------------------
(* Calls that return, and exceptions. *)

\* A transaction body ends, with r when an exception ends it.
LEMMA EndTxn ==
    ASSUME Graph!ConstantsAssumption, ReactiveInv, NEW r \in BOOLEAN,
           stack # <<>>, Head(stack).k = "txn", r => throws > 0,
           depth' = depth - 1, deferred' = deferred,
           stack' = IF depth = 1 THEN <<Graph!Flush(r)>> \o Tail(stack) ELSE Tail(stack)
    PROVE  /\ stack' \in Seq(Graph!Frame) /\ depth' \in Nat
           /\ Nested'
           /\ throws = 0 => Calm(stack')
           /\ Keeps(deferred, stack, deferred', stack')
<1>1. Graph!TypeOK /\ Nested /\ Untroubled
  BY DEF ReactiveInv
<1>2. stack \in Seq(Graph!Frame) /\ depth \in Nat /\ throws \in Nat
  BY <1>1 DEF Graph!TypeOK, Graph!ConstantsAssumption
<1>3. ~Idle
  BY DEF Idle
<1>4. PICK n \in Nat : Counted(stack, n) /\ depth = n /\ (deferred # <<>> => n > 0)
  BY <1>1, <1>3, DepthCounts
<1>5. Head(stack) \in Graph!Frame /\ Tail(stack) \in Seq(Graph!Frame)
  BY <1>2, GraphPopSeq
<1>6. Holds(Head(stack)) = 1
  BY DEF Holds
<1>7. n - 1 \in Nat /\ Counted(Tail(stack), n - 1)
  BY <1>2, <1>4, <1>6, CountPop
<1>8. Graph!Flush(r) \in Graph!Frame /\ Graph!Flush(r).k = "flush" /\ Graph!Flush(r).rest = <<>> /\ Graph!Flush(r).resume = r
  BY FrameKinds
<1>9. ASSUME NEW c, NEW i
      PROVE  Owes(deferred, stack, c, i) <=> Owes(deferred, Tail(stack), c, i)
  <2>1. ~FrameOwes(Head(stack), c, i)
    BY DEF FrameOwes
  <2> QED
    BY <1>2, <2>1, OwesTop
<1>10. throws = 0 => Calm(Tail(stack))
  BY <1>1, <1>2, CalmPop DEF Untroubled
<1>11. CASE depth = 1
  <2>1. stack' = <<Graph!Flush(r)>> \o Tail(stack) /\ depth' = 0
    BY <1>11
  <2>2. stack' \in Seq(Graph!Frame) /\ stack' # <<>> /\ Head(stack') = Graph!Flush(r)
    BY <1>5, <1>8, <2>1, GraphPushSeq
  <2>3. Counted(stack', (n - 1) + Holds(Graph!Flush(r)))
    BY <1>4, <1>5, <1>7, <1>8, <1>11, <2>1, CountPush
  <2>4. (n - 1) + Holds(Graph!Flush(r)) = 1
    BY <1>4, <1>8, <1>11 DEF Holds
  <2>5. Nested'
    BY <1>8, <2>1, <2>2, <2>3, <2>4 DEF Nested, Idle
  <2>6. throws = 0 => Calm(stack')
    <3> SUFFICES ASSUME throws = 0 PROVE Calm(stack')
      OBVIOUS
    <3>1. ~r
      BY <1>2
    <3>2. ~Graph!Flush(r).resume
      BY <1>8, <3>1
    <3> QED
      BY <1>5, <1>8, <1>10, <2>1, <3>2, CalmPush
  <2>7. Keeps(deferred, stack, deferred', stack')
    BY <1>5, <1>8, <1>9, <2>1, OwesPush DEF Keeps
  <2> QED
    BY <2>1, <2>2, <2>5, <2>6, <2>7
<1>12. CASE depth # 1
  <2>1. stack' = Tail(stack) /\ depth' = n - 1
    BY <1>4, <1>12
  <2>2. n - 1 > 0
    BY <1>4, <1>7, <1>12
  <2>3. Nested'
    BY <1>7, <2>1, <2>2 DEF Nested
  <2>4. Keeps(deferred, stack, deferred', stack')
    BY <1>9, <2>1 DEF Keeps
  <2> QED
    BY <1>5, <1>7, <1>10, <2>1, <2>3, <2>4
<1> QED
  BY <1>11, <1>12

\* An emission or a callback ends.
LEMMA EndCall ==
    ASSUME Graph!ConstantsAssumption, ReactiveInv,
           stack # <<>>, Head(stack).k \in {"emit", "body"},
           depth' = depth, deferred' = deferred, stack' = Tail(stack)
    PROVE  /\ stack' \in Seq(Graph!Frame)
           /\ Nested'
           /\ throws = 0 => Calm(stack')
<1>1. Graph!TypeOK /\ Nested /\ Untroubled
  BY DEF ReactiveInv
<1>2. stack \in Seq(Graph!Frame)
  BY <1>1 DEF Graph!TypeOK
<1>3. ~Idle
  BY DEF Idle
<1>4. PICK n \in Nat : Counted(stack, n) /\ depth = n /\ (deferred # <<>> => n > 0)
  BY <1>1, <1>3, DepthCounts
<1>5. Holds(Head(stack)) = 0 /\ n - 0 = n
  BY DEF Holds
<1>6. Counted(Tail(stack), n)
  BY <1>2, <1>4, <1>5, CountPop
<1>7. stack' \in Seq(Graph!Frame)
  BY <1>2, GraphPopSeq
<1>8. Nested'
  BY <1>4, <1>6 DEF Nested
<1>9. throws = 0 => Calm(stack')
  BY <1>1, <1>2, CalmPop DEF Untroubled
<1> QED
  BY <1>7, <1>8, <1>9

LEMMA CloseTxnKeeps ==
    ASSUME Graph!ConstantsAssumption, ReactiveInv, Graph!CloseTxn PROVE ReactiveInv'
<1>1. Graph!TypeOK /\ Nested /\ Untroubled /\ GraphNoneLost
  BY DEF ReactiveInv
<1>2. /\ stack # <<>> /\ Head(stack).k = "txn"
      /\ depth' = depth - 1
      /\ stack' = IF depth = 1 THEN <<Graph!Flush(FALSE)>> \o Tail(stack) ELSE Tail(stack)
      /\ UNCHANGED <<val, rseen, deferred, unwinding, terminated, fired, acted, capped,
                     rsets, txns, throws>>
  BY DEF Graph!CloseTxn, Graph!Kind, Graph!Below, Graph!bounds, Graph!history
<1>3. /\ stack' \in Seq(Graph!Frame) /\ depth' \in Nat /\ Nested'
      /\ throws = 0 => Calm(stack')
      /\ Keeps(deferred, stack, deferred', stack')
  BY <1>2, EndTxn
<1>4. Graph!TypeOK'
  BY <1>1, <1>2, <1>3 DEF Graph!TypeOK
<1>5. Untroubled'
  BY <1>1, <1>2, <1>3 DEF Untroubled
<1>6. GraphNoneLost'
  BY <1>1, <1>2, <1>3, ServedKeeps DEF GraphNoneLost, Graph!Undisturbed
<1> QED
  BY <1>3, <1>4, <1>5, <1>6 DEF ReactiveInv

LEMMA UnwindTxnKeeps ==
    ASSUME Graph!ConstantsAssumption, ReactiveInv, Graph!UnwindTxn PROVE ReactiveInv'
<1>1. Graph!TypeOK /\ Nested /\ Untroubled /\ GraphNoneLost
  BY DEF ReactiveInv
<1>2. throws \in Nat /\ throws # 0
  BY <1>1 DEF Graph!TypeOK, Graph!ConstantsAssumption, Untroubled, Graph!UnwindTxn
<1>3. /\ stack # <<>> /\ Head(stack).k = "txn"
      /\ depth' = depth - 1
      /\ stack' = IF depth = 1 THEN <<Graph!Flush(TRUE)>> \o Tail(stack) ELSE Tail(stack)
      /\ unwinding' \in BOOLEAN
      /\ UNCHANGED <<val, rseen, deferred, terminated, fired, acted, capped,
                     rsets, txns, throws>>
  BY <1>1 DEF Graph!UnwindTxn, Graph!Kind, Graph!Below, Graph!bounds, Graph!history, Graph!TypeOK
<1>4. stack' \in Seq(Graph!Frame) /\ depth' \in Nat /\ Nested'
  <2>1. throws > 0
    BY <1>2
  <2> QED
    BY <1>3, <2>1, EndTxn
<1>5. Graph!TypeOK'
  BY <1>1, <1>3, <1>4 DEF Graph!TypeOK
<1>6. Untroubled' /\ GraphNoneLost'
  BY <1>2, <1>3 DEF Untroubled, GraphNoneLost, Graph!Undisturbed
<1> QED
  BY <1>4, <1>5, <1>6 DEF ReactiveInv

LEMMA ReturnBodyKeeps ==
    ASSUME Graph!ConstantsAssumption, ReactiveInv, Graph!ReturnBody PROVE ReactiveInv'
<1>1. Graph!TypeOK /\ Nested /\ Untroubled /\ GraphNoneLost
  BY DEF ReactiveInv
<1>2. /\ stack # <<>> /\ Head(stack).k = "body" /\ stack' = Tail(stack)
      /\ UNCHANGED <<val, rseen, depth, deferred, unwinding, terminated, fired, acted, capped,
                     rsets, txns, throws>>
  BY DEF Graph!ReturnBody, Graph!Kind, Graph!Below, Graph!bounds, Graph!history
<1>3. stack' \in Seq(Graph!Frame) /\ Nested' /\ (throws = 0 => Calm(stack'))
  BY <1>2, EndCall
<1>4. Graph!TypeOK'
  BY <1>1, <1>2, <1>3 DEF Graph!TypeOK
<1>5. Untroubled'
  BY <1>1, <1>2, <1>3 DEF Untroubled
<1>6. GraphNoneLost'
  <2>1. stack \in Seq(Graph!Frame)
    BY <1>1 DEF Graph!TypeOK
  <2>2. \A c, i : ~FrameOwes(Head(stack), c, i)
    BY <1>2 DEF FrameOwes
  <2>3. Keeps(deferred, stack, deferred', stack')
    BY <1>2, <2>1, <2>2, OwesTop DEF Keeps
  <2> QED
    BY <1>1, <1>2, <2>3, ServedKeeps DEF GraphNoneLost, Graph!Undisturbed
<1> QED
  BY <1>3, <1>4, <1>5, <1>6 DEF ReactiveInv

LEMMA GraphEmitDoneKeeps ==
    ASSUME Graph!ConstantsAssumption, ReactiveInv, Graph!EmitDone PROVE ReactiveInv'
<1>1. Graph!TypeOK /\ Nested /\ Untroubled /\ GraphNoneLost
  BY DEF ReactiveInv
<1>2. /\ stack # <<>> /\ Head(stack).k = "emit" /\ stack' = Tail(stack)
      /\ Head(stack).i > Len(Subs[Head(stack).c])
      /\ UNCHANGED <<val, rseen, depth, deferred, unwinding, terminated, fired, acted, capped,
                     rsets, txns, throws>>
  BY DEF Graph!EmitDone, Graph!Kind, Graph!Below, Graph!Receivers, Graph!bounds, Graph!history
<1>3. stack' \in Seq(Graph!Frame) /\ Nested' /\ (throws = 0 => Calm(stack'))
  BY <1>2, EndCall
<1>4. Graph!TypeOK'
  BY <1>1, <1>2, <1>3 DEF Graph!TypeOK
<1>5. Untroubled'
  BY <1>1, <1>2, <1>3 DEF Untroubled
<1>6. GraphNoneLost'
  <2>1. stack \in Seq(Graph!Frame) /\ Head(stack) \in Graph!Frame
    BY <1>1, <1>2, GraphPopSeq DEF Graph!TypeOK
  <2>2. Head(stack).c \in Graph!Cells /\ Head(stack).i \in Nat
    BY <1>2, <2>1, GraphFrameFields
  <2>3. ASSUME NEW c \in Graph!Cells, NEW i \in DOMAIN Subs[c]
        PROVE  ~FrameOwes(Head(stack), c, i)
    <3>1. Subs[c] \in Seq(Deriveds \cup Watchers)
      BY DEF Graph!ConstantsAssumption
    <3>2. i \in Nat /\ i <= Len(Subs[c]) /\ Len(Subs[c]) \in Nat
      BY <3>1
    <3>3. SUFFICES ASSUME Head(stack).c = c, Head(stack).i <= i PROVE FALSE
      BY <1>2 DEF FrameOwes
    <3> QED
      BY <1>2, <2>2, <3>2, <3>3
  <2>4. Keeps(deferred, stack, deferred', stack')
    BY <1>2, <2>1, <2>3, OwesTop DEF Keeps
  <2> QED
    BY <1>1, <1>2, <2>4, ServedKeeps DEF GraphNoneLost, Graph!Undisturbed
<1> QED
  BY <1>3, <1>4, <1>5, <1>6 DEF ReactiveInv

LEMMA UnwindCallKeeps ==
    ASSUME Graph!ConstantsAssumption, ReactiveInv, Graph!UnwindCall PROVE ReactiveInv'
<1>1. Graph!TypeOK /\ Nested /\ Untroubled /\ GraphNoneLost
  BY DEF ReactiveInv
<1>2. throws # 0
  BY <1>1 DEF Untroubled, Graph!UnwindCall
<1>3. /\ stack # <<>> /\ Head(stack).k \in {"emit", "body"} /\ stack' = Tail(stack)
      /\ UNCHANGED <<val, rseen, depth, deferred, unwinding, terminated, fired, acted, capped,
                     rsets, txns, throws>>
  BY DEF Graph!UnwindCall, Graph!Kind, Graph!Below, Graph!bounds, Graph!history
<1>4. stack' \in Seq(Graph!Frame) /\ Nested'
  BY <1>3, EndCall
<1>5. Graph!TypeOK'
  BY <1>1, <1>3, <1>4 DEF Graph!TypeOK
<1>6. Untroubled' /\ GraphNoneLost'
  BY <1>2, <1>3 DEF Untroubled, GraphNoneLost, Graph!Undisturbed
<1> QED
  BY <1>4, <1>5, <1>6 DEF ReactiveInv

\* Throw, UnwindFlush and Caught change no call.
LEMMA ThrowingKeeps ==
    ASSUME Graph!ConstantsAssumption, ReactiveInv, Graph!Throw \/ Graph!UnwindFlush \/ Graph!Caught
    PROVE  ReactiveInv'
<1>1. Graph!TypeOK /\ Nested /\ Untroubled /\ GraphNoneLost
  BY DEF ReactiveInv
<1>2. /\ throws' \in 0..Throws /\ throws' # 0
      /\ unwinding' \in BOOLEAN /\ terminated' \in BOOLEAN
  <2>1. /\ throws \in 0..Throws /\ Throws \in Nat
        /\ unwinding \in BOOLEAN /\ terminated \in BOOLEAN
    BY <1>1 DEF Graph!TypeOK, Graph!ConstantsAssumption
  <2>2. CASE Graph!Throw
    BY <2>1, <2>2 DEF Graph!Throw
  <2>3. CASE Graph!UnwindFlush
    <3>1. unwinding /\ throws' = throws
      BY <2>3 DEF Graph!UnwindFlush, Graph!bounds
    <3>2. throws # 0
      BY <1>1, <3>1 DEF Untroubled
    <3>3. terminated' = TRUE /\ unwinding' = FALSE
      BY <2>3 DEF Graph!UnwindFlush
    <3>4. throws' \in 0..Throws /\ throws' # 0
      BY <2>1, <3>1, <3>2
    <3>5. unwinding' \in BOOLEAN /\ terminated' \in BOOLEAN
      BY <2>1, <3>3
    <3> QED
      BY <3>4, <3>5
  <2>4. CASE Graph!Caught
    <3>1. unwinding /\ throws' = throws
      BY <2>4 DEF Graph!Caught, Graph!bounds
    <3>2. throws # 0
      BY <1>1, <3>1 DEF Untroubled
    <3>3. terminated' = terminated /\ unwinding' = FALSE
      BY <2>4 DEF Graph!Caught
    <3>4. throws' \in 0..Throws /\ throws' # 0
      BY <2>1, <3>1, <3>2
    <3>5. unwinding' \in BOOLEAN /\ terminated' \in BOOLEAN
      BY <2>1, <3>3
    <3> QED
      BY <3>4, <3>5
  <2> QED
    BY <2>2, <2>3, <2>4
<1>3. UNCHANGED <<val, rseen, depth, deferred, stack, fired, acted, capped, rsets, txns>>
  BY DEF Graph!Throw, Graph!UnwindFlush, Graph!Caught, Graph!bounds, Graph!history
<1>4. Graph!TypeOK'
  BY <1>1, <1>2, <1>3 DEF Graph!TypeOK
<1>5. Nested'
  BY <1>1, <1>3 DEF Nested, Idle
<1>6. Untroubled' /\ GraphNoneLost'
  BY <1>2 DEF Untroubled, GraphNoneLost, Graph!Undisturbed
<1> QED
  BY <1>4, <1>5, <1>6 DEF ReactiveInv

-----------------------------------------------------------------------------
(* An emission calls its next receiver. *)

LEMMA NextReceiver ==
    ASSUME Graph!ConstantsAssumption, ReactiveInv, Graph!HasReceiver
    PROVE  /\ stack \in Seq(Graph!Frame) /\ stack # <<>>
           /\ Head(stack).k = "emit" /\ Head(stack).c \in Graph!Cells
           /\ Head(stack).i \in DOMAIN Subs[Head(stack).c]
           /\ Graph!Receiver = Subs[Head(stack).c][Head(stack).i]
           /\ Graph!Advanced = <<[Head(stack) EXCEPT !.i = @ + 1]>> \o Tail(stack)
           /\ Graph!Advanced \in Seq(Graph!Frame)
           /\ ~Idle
           /\ \A n : Counted(stack, n) => Counted(Graph!Advanced, n)
           /\ Calm(stack) => Calm(Graph!Advanced)
           /\ Served(deferred, stack, val, rseen) =>
                ServedBut(deferred, Graph!Advanced, val, rseen, Graph!Receiver)
<1>1. stack \in Seq(Graph!Frame) /\ stack # <<>> /\ Head(stack).k = "emit"
  BY DEF ReactiveInv, Graph!TypeOK, Graph!HasReceiver, Graph!Kind
<1>2. Head(stack) \in Graph!Frame /\ Tail(stack) \in Seq(Graph!Frame)
  BY <1>1, GraphPopSeq
<1> DEFINE g == [Head(stack) EXCEPT !.i = @ + 1]
<1>3. /\ Head(stack).c \in Graph!Cells /\ Head(stack).i \in Nat \ {0}
      /\ g = [k |-> "emit", c |-> Head(stack).c, i |-> Head(stack).i + 1] /\ g \in Graph!Frame
  BY <1>1, <1>2, GraphFrameFields
<1>4. g.k = "emit"
  BY <1>3
<1>5. Head(stack).i \in DOMAIN Subs[Head(stack).c]
  <2>1. Head(stack).i <= Len(Subs[Head(stack).c])
    BY DEF Graph!HasReceiver, Graph!Receivers
  <2>2. 1 <= Head(stack).i
    BY <1>3
  <2>3. Subs[Head(stack).c] \in Seq(Deriveds \cup Watchers)
    BY <1>3 DEF Graph!ConstantsAssumption
  <2> QED
    BY <1>3, <2>1, <2>2, <2>3
<1>6. Graph!Receiver = Subs[Head(stack).c][Head(stack).i]
  BY DEF Graph!Receiver, Graph!Receivers
<1>7. Graph!Advanced = <<g>> \o Tail(stack)
  BY DEF Graph!Advanced, Graph!Below
<1> HIDE DEF g
<1>8. Graph!Advanced \in Seq(Graph!Frame)
  BY <1>2, <1>3, <1>7, GraphPushSeq
<1>9. \A n : Counted(stack, n) => Counted(Graph!Advanced, n)
  BY <1>1, <1>3, <1>4, <1>7, CountTop
<1>10. Calm(stack) => Calm(Graph!Advanced)
  BY <1>1, <1>2, <1>3, <1>4, <1>7, CalmPop, CalmPush
<1>11. Served(deferred, stack, val, rseen) => ServedBut(deferred, Graph!Advanced, val, rseen, Graph!Receiver)
  BY <1>1, <1>5, <1>6, <1>7, ServedAdvance DEF g
<1>12. ~Idle
  BY <1>1 DEF Idle
<1> QED
  BY <1>1, <1>3, <1>5, <1>6, <1>7, <1>8, <1>9, <1>10, <1>11, <1>12 DEF g

LEMMA GraphCallObserverKeeps ==
    ASSUME Graph!ConstantsAssumption, ReactiveInv, Graph!CallObserver PROVE ReactiveInv'
<1>1. Graph!TypeOK /\ Nested /\ Untroubled /\ GraphNoneLost
  BY DEF ReactiveInv
<1> DEFINE c == Head(stack).c
           i == Head(stack).i
<1>2. /\ Graph!HasReceiver /\ Graph!Receiver \in Watchers
      /\ rseen' = [rseen EXCEPT ![Graph!Receiver] = val[c]]
      /\ stack' = <<Graph!Body>> \o Graph!Advanced
      /\ UNCHANGED <<val, depth, deferred, unwinding, terminated, acted, capped,
                     rsets, txns, throws>>
  BY DEF Graph!CallObserver, Graph!bounds, Graph!history
<1>3. /\ c \in Graph!Cells /\ i \in DOMAIN Subs[c] /\ Graph!Receiver = Subs[c][i]
      /\ Graph!Advanced \in Seq(Graph!Frame) /\ ~Idle
      /\ \A n : Counted(stack, n) => Counted(Graph!Advanced, n)
      /\ Calm(stack) => Calm(Graph!Advanced)
      /\ Served(deferred, stack, val, rseen) =>
           ServedBut(deferred, Graph!Advanced, val, rseen, Graph!Receiver)
  BY <1>2, NextReceiver
<1> HIDE DEF c, i
<1>4. Graph!Body \in Graph!Frame /\ Graph!Body.k = "body" /\ Holds(Graph!Body) = 0
  BY FrameKinds DEF Holds
<1>5. PICK n \in Nat : Counted(stack, n) /\ depth = n /\ (deferred # <<>> => n > 0)
  BY <1>1, <1>3, DepthCounts
<1>6. stack' \in Seq(Graph!Frame)
  BY <1>2, <1>3, <1>4, GraphPushSeq
<1>7. val \in [Graph!Cells -> Value] /\ rseen \in [Watchers -> Value]
  BY <1>1 DEF Graph!TypeOK
<1>8. fired' \in [Watchers -> 0..2]
  <2>1. fired \in [Watchers -> 0..2]
    BY <1>1 DEF Graph!TypeOK
  <2>2. CASE Graph!InFlush
    <3>1. fired' = [fired EXCEPT ![Graph!Receiver] = IF @ < 2 THEN @ + 1 ELSE 2]
      BY <2>2 DEF Graph!CallObserver
    <3> QED
      BY <1>2, <2>1, <3>1
  <2>3. CASE ~Graph!InFlush
    BY <2>1, <2>3 DEF Graph!CallObserver
  <2> QED
    BY <2>2, <2>3
<1>9. Graph!TypeOK'
  <2>1. rseen' \in [Watchers -> Value]
    BY <1>2, <1>3, <1>7
  <2> QED
    BY <1>1, <1>2, <1>6, <1>8, <2>1 DEF Graph!TypeOK
<1>10. Nested'
  <2>1. Counted(stack', n + 0)
    BY <1>2, <1>3, <1>4, <1>5, CountPush
  <2>2. n + 0 = n
    OBVIOUS
  <2> QED
    BY <1>2, <1>5, <2>1, <2>2 DEF Nested
<1>11. Untroubled'
  BY <1>1, <1>2, <1>3, <1>4, CalmPush DEF Untroubled
<1>12. GraphNoneLost'
  <2> SUFFICES ASSUME Graph!Undisturbed' PROVE Served(deferred', stack', val', rseen')
    BY DEF GraphNoneLost
  <2>1. ServedBut(deferred, Graph!Advanced, val, rseen, Subs[c][i])
    BY <1>1, <1>2, <1>3 DEF GraphNoneLost, Graph!Undisturbed
  <2>2. Subs[c][i] \in Watchers
    BY <1>2, <1>3
  <2>3. Served(deferred, Graph!Advanced, val, [rseen EXCEPT ![Subs[c][i]] = val[c]])
    BY <1>3, <1>7, <2>1, <2>2, ServedCall
  <2>4. Served(deferred, Graph!Advanced, val', rseen')
    BY <1>2, <1>3, <2>3
  <2>5. Keeps(deferred, Graph!Advanced, deferred', stack')
    BY <1>2, <1>3, <1>4, OwesPush DEF Keeps
  <2> QED
    BY <2>4, <2>5, ServedKeeps
<1> QED
  BY <1>9, <1>10, <1>11, <1>12 DEF ReactiveInv

LEMMA RecomputeKeeps ==
    ASSUME Graph!ConstantsAssumption, ReactiveInv, Graph!Recompute PROVE ReactiveInv'
<1>1. Graph!TypeOK /\ Nested /\ Untroubled /\ GraphNoneLost
  BY DEF ReactiveInv
<1> DEFINE d == Graph!Receiver
<1>2. /\ Graph!HasReceiver /\ d \in Deriveds
      /\ UNCHANGED <<rseen, depth, unwinding, terminated, fired, acted, capped,
                     rsets, txns, throws>>
  BY DEF Graph!Recompute, Graph!bounds, Graph!history
<1>3. /\ Graph!Advanced \in Seq(Graph!Frame) /\ ~Idle
      /\ \A n : Counted(stack, n) => Counted(Graph!Advanced, n)
      /\ Calm(stack) => Calm(Graph!Advanced)
      /\ Served(deferred, stack, val, rseen) => ServedBut(deferred, Graph!Advanced, val, rseen, d)
  BY <1>2, NextReceiver
<1>4. /\ \/ Graph!Computed(d, val) = val[d] /\ stack' = Graph!Advanced /\ UNCHANGED <<val, deferred>>
         \/ val' = [val EXCEPT ![d] = Graph!Computed(d, val)] /\ Graph!EmitOrDefer(d, Graph!Advanced)
  BY DEF Graph!Recompute
<1> HIDE DEF d
<1>5. PICK n \in Nat : Counted(stack, n) /\ depth = n /\ (deferred # <<>> => n > 0)
  BY <1>1, <1>3, DepthCounts
<1>6. val \in [Graph!Cells -> Value] /\ deferred \in Seq(Graph!Cells) /\ d \in Graph!Cells
  BY <1>1, <1>2 DEF Graph!TypeOK, Graph!Cells
<1>7. Graph!Undisturbed' => ServedBut(deferred, Graph!Advanced, val, rseen, d)
  BY <1>1, <1>2, <1>3 DEF GraphNoneLost, Graph!Undisturbed
<1>8. CASE Graph!Computed(d, val) = val[d] /\ stack' = Graph!Advanced /\ UNCHANGED <<val, deferred>>
  <2>1. Graph!TypeOK'
    BY <1>1, <1>2, <1>3, <1>8 DEF Graph!TypeOK
  <2>2. Nested'
    BY <1>2, <1>3, <1>5, <1>8 DEF Nested
  <2>3. Untroubled'
    BY <1>1, <1>2, <1>3, <1>8 DEF Untroubled
  <2>4. GraphNoneLost'
    <3>1. Graph!Undisturbed' => Served(deferred, Graph!Advanced, val, rseen)
      BY <1>2, <1>7, <1>8, ServedSame
    <3> QED
      BY <1>2, <1>8, <3>1 DEF GraphNoneLost
  <2> QED
    BY <2>1, <2>2, <2>3, <2>4 DEF ReactiveInv
<1>9. CASE val' = [val EXCEPT ![d] = Graph!Computed(d, val)] /\ Graph!EmitOrDefer(d, Graph!Advanced)
  <2>1. /\ deferred' \in Seq(Graph!Cells) /\ stack' \in Seq(Graph!Frame) /\ Nested'
        /\ Keeps(deferred, Graph!Advanced, deferred', stack')
        /\ \A i \in DOMAIN Subs[d] : Owes(deferred', stack', d, i)
        /\ Calm(Graph!Advanced) => Calm(stack')
    BY <1>2, <1>3, <1>5, <1>6, <1>9, EmitOrDeferDoes
  <2>2. Graph!Computed(d, val) \in Value
    <3>1. Graph!Sources(d) \subseteq Graph!Cells
      BY DEF Graph!Sources
    <3>2. [c \in Graph!Sources(d) |-> val[c]] \in [Graph!Sources(d) -> Value]
      BY <1>6, <3>1
    <3> QED
      BY <1>2, <3>2 DEF Graph!Computed, Graph!ConstantsAssumption
  <2>3. val' \in [Graph!Cells -> Value]
    BY <1>6, <1>9, <2>2
  <2>4. Graph!TypeOK'
    BY <1>1, <1>2, <2>1, <2>3 DEF Graph!TypeOK
  <2>5. Untroubled'
    BY <1>1, <1>2, <1>3, <2>1 DEF Untroubled
  <2>6. GraphNoneLost'
    <3> SUFFICES ASSUME Graph!Undisturbed' PROVE Served(deferred', stack', val', rseen')
      BY DEF GraphNoneLost
    <3>1. Served(deferred', stack', [val EXCEPT ![d] = Graph!Computed(d, val)], rseen)
      BY <1>6, <1>7, <2>1, ServedChange
    <3> QED
      BY <1>2, <1>9, <3>1
  <2> QED
    BY <2>1, <2>4, <2>5, <2>6 DEF ReactiveInv
<1> QED
  BY <1>4, <1>8, <1>9

-----------------------------------------------------------------------------
(* The waves of a flush. *)

LEMMA FlushTop ==
    ASSUME Graph!ConstantsAssumption, ReactiveInv, Graph!Flushing
    PROVE  /\ stack \in Seq(Graph!Frame) /\ stack # <<>>
           /\ Head(stack) \in Graph!Frame /\ Tail(stack) \in Seq(Graph!Frame)
           /\ Head(stack).k = "flush" /\ Head(stack).rest \in Seq(Graph!Cells)
           /\ Head(stack).wave \in 0..MaxWaves /\ Head(stack).resume \in BOOLEAN
           /\ Counted(stack, 1) /\ Counted(Tail(stack), 0)
           /\ Head(stack).rest # <<>> => depth = 1
           /\ throws = 0 => Calm(Tail(stack)) /\ ~Head(stack).resume
<1>1. stack \in Seq(Graph!Frame) /\ stack # <<>> /\ Head(stack).k = "flush"
  BY DEF ReactiveInv, Graph!TypeOK, Graph!Flushing, Graph!Kind
<1>2. Head(stack) \in Graph!Frame /\ Tail(stack) \in Seq(Graph!Frame)
  BY <1>1, GraphPopSeq
<1>3. /\ Head(stack).rest \in Seq(Graph!Cells) /\ Head(stack).wave \in 0..MaxWaves
      /\ Head(stack).resume \in BOOLEAN
  BY <1>1, <1>2, GraphFrameFields
<1>4. PICK n \in Nat : Counted(stack, n) /\ (depth = n \/ (depth = 0 /\ Idle))
  BY DEF ReactiveInv, Nested
<1>5. n = 1 /\ Counted(Tail(stack), n - Holds(Head(stack)))
  BY <1>1, <1>4, CountPop
<1>6. n - Holds(Head(stack)) = 0
  BY <1>1, <1>5 DEF Holds
<1>7. Counted(stack, 1) /\ Counted(Tail(stack), 0)
  BY <1>4, <1>5, <1>6
<1>8. Head(stack).rest # <<>> => depth = 1
  BY <1>4, <1>5 DEF Idle
<1>9. throws = 0 => Calm(Tail(stack)) /\ ~Head(stack).resume
  BY <1>1, CalmPop DEF ReactiveInv, Untroubled
<1> QED
  BY <1>1, <1>2, <1>3, <1>7, <1>8, <1>9

LEMMA FlushFireKeeps ==
    ASSUME Graph!ConstantsAssumption, ReactiveInv, Graph!FlushFire PROVE ReactiveInv'
<1>1. Graph!TypeOK /\ Nested /\ Untroubled /\ GraphNoneLost
  BY DEF ReactiveInv
<1> DEFINE f == Head(stack)
           x == Head(f.rest)
           g == [f EXCEPT !.rest = Tail(f.rest)]
           t == <<g>> \o Tail(stack)
<1>2. /\ Graph!Flushing /\ f.rest # <<>>
      /\ UNCHANGED <<val, rseen, depth, deferred, unwinding, terminated, fired, acted, capped,
                     rsets, txns, throws>>
  BY DEF Graph!FlushFire, Graph!bounds, Graph!history
<1>3. /\ stack \in Seq(Graph!Frame) /\ stack # <<>> /\ f \in Graph!Frame /\ Tail(stack) \in Seq(Graph!Frame)
      /\ f.k = "flush" /\ f.rest \in Seq(Graph!Cells) /\ f.wave \in 0..MaxWaves
      /\ Counted(stack, 1) /\ Counted(Tail(stack), 0) /\ depth = 1
      /\ throws = 0 => Calm(Tail(stack)) /\ ~f.resume
  BY <1>2, FlushTop
<1>4. x \in Graph!Cells /\ Tail(f.rest) \in Seq(Graph!Cells) /\ Graph!ToSet(f.rest) = {x} \cup Graph!ToSet(Tail(f.rest))
  BY <1>2, <1>3, GraphPopSeq, HeadTailSet
<1>5. /\ g = [k |-> "flush", rest |-> Tail(f.rest), wave |-> f.wave, resume |-> f.resume]
      /\ g \in Graph!Frame
  <2>1. \A q : [f EXCEPT !.rest = q] =
                 [k |-> "flush", rest |-> q, wave |-> f.wave, resume |-> f.resume]
    BY <1>3, GraphFrameFields
  <2>2. g = [k |-> "flush", rest |-> Tail(f.rest), wave |-> f.wave, resume |-> f.resume]
    BY <2>1, Zenon
  <2>3. [k |-> "flush", rest |-> Tail(f.rest), wave |-> f.wave, resume |-> f.resume] \in Graph!Frame
    BY <1>3, <1>4, GraphFrameFields
  <2> QED
    BY <2>2, <2>3
<1>6. g.k = "flush" /\ g.rest = Tail(f.rest) /\ g.resume = f.resume
  BY <1>5
<1>7. stack' = <<Graph!Emit(x)>> \o t
  BY DEF Graph!FlushFire, Graph!Remaining, Graph!Below
<1>8. Graph!Emit(x) \in Graph!Frame /\ Graph!Emit(x).k = "emit" /\ Holds(Graph!Emit(x)) = 0
  BY <1>4, FrameKinds DEF Holds
<1> HIDE DEF g
<1>9. t \in Seq(Graph!Frame) /\ stack' \in Seq(Graph!Frame)
  BY <1>3, <1>5, <1>7, <1>8, GraphPushSeq
<1>10. Graph!TypeOK'
  BY <1>1, <1>2, <1>9 DEF Graph!TypeOK
<1>11. Nested'
  <2>1. Counted(t, 1)
    BY <1>3, <1>5, <1>6, CountTop
  <2>2. Counted(stack', 1 + 0)
    BY <1>7, <1>8, <1>9, <2>1, CountPush
  <2>3. 1 + 0 = 1
    OBVIOUS
  <2> QED
    BY <1>2, <1>3, <2>2, <2>3 DEF Nested
<1>12. Untroubled'
  <2> SUFFICES ASSUME throws = 0 PROVE Calm(stack')
    BY <1>1, <1>2 DEF Untroubled
  <2>1. Calm(t)
    BY <1>3, <1>5, <1>6, CalmPush
  <2> QED
    BY <1>7, <1>8, <1>9, <2>1, CalmPush
<1>13. GraphNoneLost'
  <2>1. ASSUME NEW c \in Graph!Cells, NEW i \in DOMAIN Subs[c], Owes(deferred, stack, c, i)
        PROVE  Owes(deferred, stack', c, i)
    <3>1. FrameOwes(f, c, i) \/ Owes(deferred, Tail(stack), c, i)
      BY <1>3, <2>1, OwesTop
    <3>2. FrameOwes(f, c, i) => c = x \/ FrameOwes(g, c, i)
      BY <1>3, <1>4, <1>6 DEF FrameOwes
    <3>3. c = x => FrameOwes(Graph!Emit(x), c, i)
      BY CallsOwe
    <3>4. Owes(deferred, Tail(stack), c, i) \/ FrameOwes(g, c, i) => Owes(deferred, t, c, i)
      BY <1>3, <1>5, OwesPush
    <3> HIDE DEF f, x, t
    <3> QED
      BY <1>7, <1>8, <1>9, <3>1, <3>2, <3>3, <3>4, OwesPush
  <2>2. Keeps(deferred, stack, deferred', stack')
    BY <1>2, <2>1 DEF Keeps
  <2> QED
    BY <1>1, <1>2, <2>2, ServedKeeps DEF GraphNoneLost, Graph!Undisturbed
<1> QED
  BY <1>9, <1>10, <1>11, <1>12, <1>13 DEF ReactiveInv

LEMMA FlushWaveKeeps ==
    ASSUME Graph!ConstantsAssumption, ReactiveInv, Graph!FlushWave PROVE ReactiveInv'
<1>1. Graph!TypeOK /\ Nested /\ Untroubled /\ GraphNoneLost
  BY DEF ReactiveInv
<1> DEFINE f == Head(stack)
<1>2. /\ Graph!Flushing /\ f.rest = <<>> /\ f.wave < MaxWaves
      /\ deferred' = <<>> /\ depth' = 1
      /\ UNCHANGED <<val, rseen, unwinding, terminated, fired, acted, capped,
                     rsets, txns, throws>>
  BY DEF Graph!FlushWave, Graph!bounds, Graph!history
<1>3. PICK s \in Graph!Coalesced(deferred) :
         stack' = <<[k |-> "flush", rest |-> s, wave |-> f.wave + 1, resume |-> f.resume]>>
                    \o Tail(stack)
  BY DEF Graph!FlushWave, Graph!Below
<1> DEFINE g == [k |-> "flush", rest |-> s, wave |-> f.wave + 1, resume |-> f.resume]
<1>4. /\ stack \in Seq(Graph!Frame) /\ stack # <<>> /\ f \in Graph!Frame /\ Tail(stack) \in Seq(Graph!Frame)
      /\ f.k = "flush" /\ f.wave \in 0..MaxWaves /\ f.resume \in BOOLEAN
      /\ Counted(stack, 1)
      /\ throws = 0 => Calm(Tail(stack)) /\ ~f.resume
  BY <1>2, FlushTop
<1>5. s \in Seq(Graph!Cells) /\ Graph!ToSet(s) = Graph!ToSet(deferred)
  <2>1. deferred \in Seq(Graph!Cells)
    BY <1>1 DEF Graph!TypeOK
  <2>2. Graph!ToSet(deferred) \subseteq Graph!Cells
    BY <2>1 DEF Graph!ToSet
  <2>3. PICK m \in 0..Len(deferred) : s \in [1..m -> Graph!ToSet(deferred)]
    BY DEF Graph!Coalesced, Graph!SeqOf
  <2>4. m \in Nat
    BY <2>1
  <2>5. s \in Seq(Graph!Cells)
    BY <2>2, <2>3, <2>4
  <2> QED
    BY <2>5 DEF Graph!Coalesced
<1>6. g \in Graph!Frame
  <2>1. f.wave + 1 \in 0..MaxWaves
    BY <1>2, <1>4 DEF Graph!ConstantsAssumption
  <2> QED
    BY <1>4, <1>5, <2>1 DEF Graph!Frame
<1>7. g.k = "flush" /\ g.rest = s /\ g.resume = f.resume
  OBVIOUS
<1>8. stack' = <<g>> \o Tail(stack)
  BY <1>3
<1> HIDE DEF g, f
<1>9. stack' \in Seq(Graph!Frame)
  BY <1>4, <1>6, <1>8, GraphPushSeq
<1>10. Graph!TypeOK'
  <2>1. deferred' \in Seq(Graph!Cells) /\ depth' \in Nat
    BY <1>2
  <2> QED
    BY <1>1, <1>2, <1>9, <2>1 DEF Graph!TypeOK
<1>11. Nested'
  <2>1. Counted(stack', 1)
    BY <1>4, <1>6, <1>7, <1>8, CountTop DEF f
  <2> QED
    BY <1>2, <2>1 DEF Nested
<1>12. Untroubled'
  BY <1>1, <1>2, <1>4, <1>6, <1>7, <1>8, CalmPush DEF Untroubled
<1>13. GraphNoneLost'
  <2>1. ASSUME NEW c \in Graph!Cells, NEW i \in DOMAIN Subs[c], Owes(deferred, stack, c, i)
        PROVE  Owes(<<>>, stack', c, i)
    <3>1. CASE c \in Graph!ToSet(deferred)
      <4>1. FrameOwes(g, c, i)
        BY <1>5, <1>7, <3>1 DEF FrameOwes
      <4> QED
        BY <1>4, <1>6, <1>8, <4>1, OwesPush
    <3>2. CASE c \notin Graph!ToSet(deferred)
      <4>1. Owes(<<>>, stack, c, i)
        BY <2>1, <3>2 DEF Owes
      <4>2. ~FrameOwes(f, c, i)
        BY <1>2, <1>4 DEF FrameOwes, Graph!ToSet
      <4>3. Owes(<<>>, Tail(stack), c, i)
        BY <1>4, <4>1, <4>2, OwesTop DEF f
      <4> QED
        BY <1>4, <1>6, <1>8, <4>3, OwesPush
    <3> QED
      BY <3>1, <3>2
  <2>2. Keeps(deferred, stack, deferred', stack')
    BY <1>2, <2>1 DEF Keeps
  <2> QED
    BY <1>1, <1>2, <2>2, ServedKeeps DEF GraphNoneLost, Graph!Undisturbed
<1> QED
  BY <1>9, <1>10, <1>11, <1>12, <1>13 DEF ReactiveInv

LEMMA FlushEndKeeps ==
    ASSUME Graph!ConstantsAssumption, ReactiveInv, Graph!FlushCapped \/ Graph!FlushDone PROVE ReactiveInv'
<1>1. Graph!TypeOK /\ Nested /\ Untroubled /\ GraphNoneLost
  BY DEF ReactiveInv
<1>2. /\ Graph!Flushing /\ Head(stack).rest = <<>>
      /\ deferred' = <<>> /\ depth' = 0
      /\ stack' = Tail(stack) /\ unwinding' = Head(stack).resume
      /\ UNCHANGED <<val, rseen, terminated, fired, acted, rsets, txns, throws>>
  BY DEF Graph!FlushCapped, Graph!FlushDone, Graph!Below, Graph!bounds, Graph!history
<1>3. /\ stack \in Seq(Graph!Frame) /\ stack # <<>> /\ Tail(stack) \in Seq(Graph!Frame)
      /\ Head(stack).k = "flush" /\ Head(stack).resume \in BOOLEAN
      /\ Counted(Tail(stack), 0)
      /\ throws = 0 => Calm(Tail(stack)) /\ ~Head(stack).resume
  BY <1>2, FlushTop
<1>4. Graph!TypeOK'
  <2>1. deferred' \in Seq(Graph!Cells) /\ depth' \in Nat
    BY <1>2
  <2>2. capped' \in BOOLEAN
    BY <1>1 DEF Graph!TypeOK, Graph!FlushCapped, Graph!FlushDone, Graph!history
  <2> QED
    BY <1>1, <1>2, <1>3, <2>1, <2>2 DEF Graph!TypeOK
<1>5. Nested'
  BY <1>2, <1>3 DEF Nested
<1>6. Untroubled'
  BY <1>1, <1>2, <1>3 DEF Untroubled
<1>7. GraphNoneLost'
  <2>1. CASE Graph!FlushCapped
    BY <2>1 DEF Graph!FlushCapped, GraphNoneLost, Graph!Undisturbed
  <2>2. CASE Graph!FlushDone
    <3>1. deferred' = deferred /\ capped' = capped
      BY <2>2 DEF Graph!FlushDone, Graph!history
    <3>2. \A c, i : ~FrameOwes(Head(stack), c, i)
      BY <1>2, <1>3 DEF FrameOwes, Graph!ToSet
    <3>3. Keeps(deferred, stack, deferred', stack')
      BY <1>2, <1>3, <3>1, <3>2, OwesTop DEF Keeps
    <3> QED
      BY <1>1, <1>2, <3>1, <3>3, ServedKeeps DEF GraphNoneLost, Graph!Undisturbed
  <2> QED
    BY <2>1, <2>2
<1> QED
  BY <1>3, <1>2, <1>4, <1>5, <1>6, <1>7 DEF ReactiveInv

-----------------------------------------------------------------------------
(* The theorems. *)

LEMMA NextKeeps ==
    ASSUME Graph!ConstantsAssumption, ReactiveInv, Graph!Next PROVE ReactiveInv'
<1>1. CASE Graph!Application
  BY <1>1, SetFieldKeeps, OpenTxnKeeps DEF Graph!Application
<1>2. CASE Graph!Return
  BY <1>2, CloseTxnKeeps, ReturnBodyKeeps DEF Graph!Return
<1>3. CASE Graph!Library
  BY <1>3, GraphCallObserverKeeps, RecomputeKeeps, GraphEmitDoneKeeps, FlushFireKeeps, FlushWaveKeeps,
     FlushEndKeeps DEF Graph!Library
<1>4. CASE Graph!Exception
  BY <1>4, ThrowingKeeps, UnwindTxnKeeps, UnwindCallKeeps DEF Graph!Exception
<1> QED
  BY <1>1, <1>2, <1>3, <1>4 DEF Graph!Next

\* The invariant the theorems below follow from.
THEOREM ReactiveInvariant ==
    ASSUME Graph!ConstantsAssumption PROVE Graph!SafeSpec => []ReactiveInv
<1>1. Graph!Init => ReactiveInv
  BY GraphInitInv
<1>2. ReactiveInv /\ [Graph!Next]_Graph!vars => ReactiveInv'
  <2> SUFFICES ASSUME ReactiveInv, [Graph!Next]_Graph!vars PROVE ReactiveInv'
    OBVIOUS
  <2>1. CASE Graph!Next
    BY <2>1, NextKeeps
  <2>2. CASE UNCHANGED Graph!vars
    <3>1. UNCHANGED <<val, rseen, depth, deferred, stack, unwinding, terminated, fired, acted,
                      capped, rsets, txns, throws>>
      BY <2>2 DEF Graph!vars, Graph!history
    <3>2. Graph!TypeOK'
      BY <3>1 DEF ReactiveInv, Graph!TypeOK
    <3>3. Nested'
      BY <3>1 DEF ReactiveInv, Nested, Idle
    <3>4. Untroubled' /\ GraphNoneLost'
      BY <3>1 DEF ReactiveInv, Untroubled, GraphNoneLost, Graph!Undisturbed
    <3> QED
      BY <3>2, <3>3, <3>4 DEF ReactiveInv
  <2> QED
    BY <2>1, <2>2
<1> QED
  BY <1>1, <1>2, PTL DEF Graph!SafeSpec

\* The values, the transaction state and the call stack are well formed.
THEOREM ReactiveTypeCorrect ==
    ASSUME Graph!ConstantsAssumption PROVE Graph!SafeSpec => []Graph!TypeOK
<1>1. ReactiveInv => Graph!TypeOK
  BY DEF ReactiveInv
<1> QED
  BY <1>1, ReactiveInvariant, PTL

LEMMA RestIsClean == ReactiveInv => Graph!NothingLeftBehind
<1> SUFFICES ASSUME ReactiveInv, stack = <<>> PROVE depth = 0 /\ deferred = <<>>
  BY DEF Graph!NothingLeftBehind
<1>1. PICK n \in Nat : /\ Counted(stack, n) /\ (depth = n \/ (depth = 0 /\ Idle))
                       /\ deferred # <<>> => n > 0
  BY DEF ReactiveInv, Nested
<1>2. n = 0
  BY <1>1, CountNone
<1> QED
  BY <1>1, <1>2 DEF Idle

\* Transactions that nest, and that exceptions end, leave no depth and no deferred
\* emission to the next change of the thread.  (TransactionGuard)
THEOREM TransactionsLeaveNothing ==
    ASSUME Graph!ConstantsAssumption PROVE Graph!SafeSpec => []Graph!NothingLeftBehind
  BY RestIsClean, ReactiveInvariant, PTL

\* Once everything a change set off has returned, every Derived is what its lambda
\* returns for the values of its sources and every observer was last called with the
\* value of its cell, for every acyclic or cyclic graph and every nesting of sets,
\* emissions and transactions.  (SenderHub::emit, Derived, TransactionGuard::flush)
THEOREM GraphConverges ==
    ASSUME Graph!ConstantsAssumption PROVE Graph!SafeSpec => []Graph!Converged
<1>1. ReactiveInv => Graph!Converged
  <2> SUFFICES ASSUME ReactiveInv, Graph!AtRest, Graph!Undisturbed
               PROVE  Graph!Settled(val) /\ \A o \in Watchers : rseen[o] = val[Graph!CellOf(o)]
    BY DEF Graph!Converged
  <2>1. stack = <<>> /\ deferred = <<>>
    BY RestIsClean DEF Graph!AtRest, Graph!NothingLeftBehind
  <2>2. Served(<<>>, <<>>, val, rseen)
    BY <2>1 DEF ReactiveInv, GraphNoneLost
  <2>3. Graph!Settled(val)
    BY <2>2, OwesNothing DEF Served, Graph!Settled
  <2>4. ASSUME NEW o \in Watchers PROVE rseen[o] = val[Graph!CellOf(o)]
    <3>1. Graph!CellOf(o) \in Graph!Cells /\ o \in Graph!ToSet(Subs[Graph!CellOf(o)])
      BY DEF Graph!ConstantsAssumption, Graph!CellOf
    <3>2. PICK i \in DOMAIN Subs[Graph!CellOf(o)] : Subs[Graph!CellOf(o)][i] = o
      BY <3>1 DEF Graph!ToSet
    <3> QED
      BY <2>2, <3>1, <3>2, OwesNothing DEF Served
  <2> QED
    BY <2>3, <2>4
<1> QED
  BY <1>1, ReactiveInvariant, PTL

\* In every behaviour of the scenes, the graph at rest has settled and transactions
\* leave nothing behind.  (SenderHub::emit, Derived, TransactionGuard::flush)
THEOREM GraphSettles == MCSpec => []GraphConsistent
<1>1. MCInit => Graph!Init
  BY DEF MCInit
<1>2. [MCNext]_allVars => [Graph!Next]_(Graph!vars)
  BY DEF MCNext, allVars, reactiveVars, Graph!vars, Graph!history
<1>3. Graph!SafeSpec => []Graph!Converged /\ []Graph!NothingLeftBehind
  BY SignalsAssumption, GraphConverges, TransactionsLeaveNothing
<1>4. Graph!Converged /\ Graph!NothingLeftBehind => GraphConsistent
  BY DEF GraphConsistent
<1> QED
  BY <1>1, <1>2, <1>3, <1>4, PTL DEF MCSpec, Graph!SafeSpec

-----------------------------------------------------------------------------
(* What is left of a sequence, and a set as a sequence. *)

\* The places of a sequence have as many places ahead as there are, each another.
LEMMA PlacesInOrder ==
    ASSUME NEW places \in SUBSET Nat, IsFiniteSet(places)
    PROVE  /\ Cardinality(places) \in Nat
           /\ \A i \in places : Ahead(places, i) + 1 \in 1..Cardinality(places)
           /\ \A i, j \in places : Ahead(places, i) = Ahead(places, j) => i = j
           /\ \A n \in 1..Cardinality(places) : \E i \in places : Ahead(places, i) = n - 1
  <1> DEFINE before(i) == {j \in places : j < i}
             card == Cardinality(places)
  <1>1. card \in Nat
    BY FS_CardinalityType
  <1>2. ASSUME NEW i \in places
        PROVE  IsFiniteSet(before(i)) /\ Cardinality(before(i)) \in Nat /\ Cardinality(before(i)) < card
    <2>1. before(i) \in SUBSET places /\ i \notin before(i)
      OBVIOUS
    <2>2. before(i) # places
      BY <2>1
    <2> HIDE DEF before
    <2>3. IsFiniteSet(before(i)) /\ Cardinality(before(i)) <= card /\ Cardinality(before(i)) # card
      BY <2>1, <2>2, FS_Subset
    <2>4. Cardinality(before(i)) \in Nat
      BY <2>3, FS_CardinalityType
    <2> QED  BY <2>3, <2>4, <1>1
  <1>3. ASSUME NEW i \in places, NEW j \in places, i < j
        PROVE  Cardinality(before(i)) < Cardinality(before(j))
    <2>0. i \in Nat /\ j \in Nat /\ \A k \in places : k \in Nat
      OBVIOUS
    <2>1. before(i) \in SUBSET before(j) /\ i \in before(j) /\ i \notin before(i)
      <3>1. \A k \in places : k < i => k < j
        BY <1>3, <2>0
      <3>2. ~(i < i)
        BY <2>0
      <3> QED  BY <1>3, <3>1, <3>2
    <2>2. before(i) # before(j)
      BY <2>1
    <2>3. IsFiniteSet(before(j)) /\ Cardinality(before(i)) \in Nat /\ Cardinality(before(j)) \in Nat
      BY <1>2
    <2> HIDE DEF before
    <2> QED  BY <2>1, <2>2, <2>3, FS_Subset
  <1>4. \A i, j \in places : Cardinality(before(i)) = Cardinality(before(j)) => i = j
    <2> SUFFICES ASSUME NEW i \in places, NEW j \in places, i # j
                 PROVE  Cardinality(before(i)) # Cardinality(before(j))
      OBVIOUS
    <2>1. i < j \/ j < i
      OBVIOUS
    <2>2. Cardinality(before(i)) \in Nat /\ Cardinality(before(j)) \in Nat
      BY <1>2
    <2> HIDE DEF before
    <2> QED  BY <2>1, <2>2, <1>3
  <1> DEFINE rank == [i \in places |-> Cardinality(before(i)) + 1]
  <1>5. rank \in [places -> 1..card]
    <2>1. \A i \in places : Cardinality(before(i)) + 1 \in 1..card
      BY <1>1, <1>2
    <2> HIDE DEF before
    <2> QED  BY <2>1
  <1>6. IsInjective(rank)
    <2>1. \A i \in places : Cardinality(before(i)) \in Nat
      BY <1>2
    <2> HIDE DEF before
    <2> QED  BY <2>1, <1>4 DEF IsInjective
  <1>7. rank \in Surjection(places, 1..card)
    <2>1. rank \in Injection(places, 1..card)
      BY <1>5, <1>6 DEF Injection
    <2>2. IsFiniteSet(1..card) /\ Cardinality(1..card) = card
      BY <1>1, FS_Interval
    <2> HIDE DEF rank
    <2> QED  BY <2>1, <2>2, FS_Injection
  <1>8. \A n \in 1..card : \E i \in places : rank[i] = n
    BY <1>7 DEF Surjection
  <1>9. \A i \in places : rank[i] = Ahead(places, i) + 1 /\ Ahead(places, i) \in Nat
    BY <1>2 DEF Ahead
  <1>10. \A i \in places : Ahead(places, i) = Cardinality(before(i))
    BY DEF Ahead
  <1> HIDE DEF rank, before, card
  <1>11. \A n \in 1..card : \E i \in places : Ahead(places, i) = n - 1
    <2> TAKE n \in 1..card
    <2>1. PICK i \in places : rank[i] = n
      BY <1>8
    <2>2. n \in Nat /\ Ahead(places, i) \in Nat /\ n = Ahead(places, i) + 1
      BY <1>1, <1>9, <2>1
    <2> QED  BY <2>2
  <1>12. \A i \in places : Ahead(places, i) + 1 \in 1..card
    BY <1>1, <1>2, <1>10
  <1> QED  BY <1>1, <1>4, <1>10, <1>11, <1>12 DEF card

\* Without leaves out what it says, and keeps a sequence without duplicates one.
LEMMA WithoutHolds ==
    ASSUME NEW S, NEW s \in Seq(S), NEW W
    PROVE  /\ Without(s, W) \in Seq(S)
           /\ ToSet(Without(s, W)) = ToSet(s) \ W
           /\ IsInjective(s) => IsInjective(Without(s, W))
  <1> DEFINE places == {i \in DOMAIN s : s[i] \notin W}
             card == Cardinality(places)
             nth(n) == CHOOSE i \in places : Ahead(places, i) = n - 1
             t == Without(s, W)
  <1>1. DOMAIN s = 1..Len(s) /\ Len(s) \in Nat /\ \A i \in DOMAIN s : s[i] \in S
    OBVIOUS
  <1>2. places \in SUBSET Nat /\ IsFiniteSet(places)
    <2>1. IsFiniteSet(1..Len(s)) /\ places \in SUBSET (1..Len(s))
      BY <1>1, FS_Interval
    <2> QED  BY <2>1, FS_Subset
  <1>3. t = [n \in 1..card |-> s[nth(n)]]
    BY DEF Without, Picked
  <1>4. places \subseteq DOMAIN s /\ \A i \in DOMAIN s : i \in places <=> s[i] \notin W
    OBVIOUS
  <1> HIDE DEF places, t
  <1>5. /\ card \in Nat
        /\ \A i \in places : Ahead(places, i) + 1 \in 1..card
        /\ \A i, j \in places : Ahead(places, i) = Ahead(places, j) => i = j
        /\ \A n \in 1..card : \E i \in places : Ahead(places, i) = n - 1
    BY <1>2, PlacesInOrder
  <1> HIDE DEF card
  <1>6. \A n \in 1..card : nth(n) \in places /\ Ahead(places, nth(n)) = n - 1
    BY <1>5
  <1>7. \A i \in places : nth(Ahead(places, i) + 1) = i
    <2> SUFFICES ASSUME NEW i \in places
                 PROVE  nth(Ahead(places, i) + 1) = i
      OBVIOUS
    <2>1. Ahead(places, i) + 1 \in 1..card
      BY <1>5
    <2>2. Ahead(places, nth(Ahead(places, i) + 1)) = (Ahead(places, i) + 1) - 1
          /\ nth(Ahead(places, i) + 1) \in places
      BY <2>1, <1>6
    <2> DEFINE j == nth(Ahead(places, i) + 1)
    <2> HIDE DEF j
    <2>3. Cardinality({k \in places : k < i}) \in Nat
      <3>1. {k \in places : k < i} \in SUBSET places
        OBVIOUS
      <3> QED  BY <3>1, <1>2, FS_Subset, FS_CardinalityType
    <2>4. Ahead(places, i) \in Nat
      BY <2>3 DEF Ahead
    <2>5. j \in places /\ Ahead(places, j) = Ahead(places, i)
      BY <2>2, <2>4 DEF j
    <2>6. j = i
      BY <2>5, <1>5
    <2> QED  BY <2>6 DEF j
  <1> HIDE DEF nth
  <1>8. t \in [1..card -> S]
    BY <1>1, <1>3, <1>4, <1>6
  <1>9. t \in Seq(S)
    BY <1>5, <1>8, IsASeq
  <1>10. DOMAIN t = 1..card /\ \A n \in 1..card : t[n] = s[nth(n)]
    BY <1>3
  <1>11. ToSet(t) = ToSet(s) \ W
    <2>1. \A n \in 1..card : t[n] \in ToSet(s) \ W
      BY <1>4, <1>6, <1>10 DEF ToSet
    <2>2. ASSUME NEW i \in DOMAIN s, s[i] \notin W
          PROVE  \E n \in 1..card : t[n] = s[i]
      <3>1. i \in places
        BY <2>2, <1>4
      <3>2. Ahead(places, i) + 1 \in 1..card /\ nth(Ahead(places, i) + 1) = i
        BY <3>1, <1>5, <1>7
      <3> QED  BY <3>2, <1>10
    <2> QED  BY <2>1, <2>2, <1>10 DEF ToSet
  <1>12. ASSUME IsInjective(s)
         PROVE  IsInjective(t)
    <2> SUFFICES ASSUME NEW m \in 1..card, NEW n \in 1..card, t[m] = t[n]
                 PROVE  m = n
      BY <1>10 DEF IsInjective
    <2>1. nth(m) \in DOMAIN s /\ nth(n) \in DOMAIN s
      BY <1>4, <1>6
    <2>2. nth(m) = nth(n)
      BY <2>1, <1>10, <1>12 DEF IsInjective
    <2>3. m - 1 = n - 1
      BY <2>2, <1>6
    <2> QED  BY <2>3
  <1> QED  BY <1>9, <1>11, <1>12 DEF t

\* A finite set as a sequence has each of its elements once.
LEMMA SetToSeqHas ==
    ASSUME NEW S, IsFiniteSet(S)
    PROVE  /\ SetToSeq(S) \in Seq(S)
           /\ ToSet(SetToSeq(S)) = S
           /\ IsInjective(SetToSeq(S))
  <1> DEFINE n == Cardinality(S)
  <1>1. n \in Nat /\ ExistsBijection(1..n, S)
    BY FS_CardinalityType
  <1>2. PICK b \in Bijection(1..n, S) : TRUE
    BY <1>1 DEF ExistsBijection
  <1>3. b \in [1..n -> S] /\ IsInjective(b)
    BY <1>2 DEF Bijection, Injection
  <1>4. SetToSeq(S) \in [1..n -> S] /\ IsInjective(SetToSeq(S))
    BY <1>3 DEF SetToSeq
  <1>5. SetToSeq(S) \in Injection(1..n, S)
    BY <1>4 DEF Injection
  <1>6. Cardinality(1..n) = n
    BY <1>1, FS_Interval
  <1>7. SetToSeq(S) \in Surjection(1..n, S)
    BY <1>5, <1>6, FS_Injection
  <1>8. \A t \in S : \E i \in 1..n : SetToSeq(S)[i] = t
    BY <1>7 DEF Surjection
  <1>9. SetToSeq(S) \in Seq(S)
    BY <1>1, <1>4, IsASeq
  <1> QED  BY <1>4, <1>8, <1>9 DEF ToSet

\* One sequence behind another, nothing in both: each element is there once.
LEMMA JoinedHas ==
    ASSUME NEW S, NEW s \in Seq(S), NEW t \in Seq(S),
           IsInjective(s), IsInjective(t), ToSet(s) \cap ToSet(t) = {}
    PROVE  /\ s \o t \in Seq(S)
           /\ ToSet(s \o t) = ToSet(s) \cup ToSet(t)
           /\ IsInjective(s \o t)
  <1>1. /\ s \o t \in Seq(S) /\ Len(s) \in Nat /\ Len(t) \in Nat
        /\ Len(s \o t) = Len(s) + Len(t)
        /\ DOMAIN s = 1..Len(s) /\ DOMAIN t = 1..Len(t)
        /\ DOMAIN (s \o t) = 1..Len(s \o t)
    OBVIOUS
  <1>2. /\ \A i \in 1..Len(s) : (s \o t)[i] = s[i]
        /\ \A i \in Len(s) + 1..Len(s) + Len(t) : (s \o t)[i] = t[i - Len(s)]
    OBVIOUS
  <1>3. \A i \in 1..Len(t) : (s \o t)[i + Len(s)] = t[i]
    <2> TAKE i \in 1..Len(t)
    <2>1. i + Len(s) \in Len(s) + 1..Len(s) + Len(t) /\ (i + Len(s)) - Len(s) = i
      BY <1>1
    <2> QED  BY <2>1, <1>2
  <1>4. \A i \in DOMAIN (s \o t) :
            i \in DOMAIN s \/ (i - Len(s) \in DOMAIN t /\ i \in Len(s) + 1..Len(s) + Len(t))
    BY <1>1
  <1> DEFINE u == s \o t
  <1>5. \A i \in DOMAIN u :
            \/ i \in DOMAIN s /\ u[i] = s[i] /\ u[i] \in ToSet(s)
            \/ i - Len(s) \in DOMAIN t /\ u[i] = t[i - Len(s)] /\ u[i] \in ToSet(t)
    BY <1>1, <1>2, <1>4 DEF ToSet
  <1>6. /\ \A i \in DOMAIN s : i \in DOMAIN u /\ u[i] = s[i]
        /\ \A i \in DOMAIN t : i + Len(s) \in DOMAIN u /\ u[i + Len(s)] = t[i]
    BY <1>1, <1>2, <1>3
  <1> HIDE DEF u
  <1>7. ToSet(u) = ToSet(s) \cup ToSet(t)
    <2>1. ToSet(u) \subseteq ToSet(s) \cup ToSet(t)
      BY <1>5 DEF ToSet
    <2>2. ToSet(s) \cup ToSet(t) \subseteq ToSet(u)
      BY <1>6 DEF ToSet
    <2> QED  BY <2>1, <2>2
  <1>8. IsInjective(u)
    <2> SUFFICES ASSUME NEW i \in DOMAIN u, NEW j \in DOMAIN u, u[i] = u[j]
                 PROVE  i = j
      BY DEF IsInjective
    <2>1. i \in Int /\ j \in Int /\ Len(s) \in Int
      BY <1>1 DEF u
    <2>2. CASE i \in DOMAIN s /\ u[i] = s[i] /\ u[i] \in ToSet(s)
      <3>1. j \in DOMAIN s /\ u[j] = s[j]
        BY <1>5, <2>2
      <3> QED  BY <2>2, <3>1 DEF IsInjective
    <2>3. CASE i - Len(s) \in DOMAIN t /\ u[i] = t[i - Len(s)] /\ u[i] \in ToSet(t)
      <3>1. j - Len(s) \in DOMAIN t /\ u[j] = t[j - Len(s)]
        BY <1>5, <2>3
      <3>2. i - Len(s) = j - Len(s)
        BY <2>3, <3>1 DEF IsInjective
      <3> QED  BY <2>1, <3>2
    <2> QED  BY <1>5, <2>2, <2>3
  <1> QED  BY <1>1, <1>7, <1>8 DEF u

\* What follows the head of a sequence without duplicates.
LEMMA TailHas ==
    ASSUME NEW S, NEW s \in Seq(S), IsInjective(s), s # <<>>
    PROVE  /\ Tail(s) \in Seq(S) /\ IsInjective(Tail(s)) /\ Head(s) \in S
           /\ \A i \in DOMAIN Tail(s) : Tail(s)[i] # Head(s) /\ i + 1 \in DOMAIN s
                                        /\ Tail(s)[i] = s[i + 1]
  <1>1. /\ Tail(s) \in Seq(S) /\ Head(s) \in S /\ Head(s) = s[1] /\ 1 \in DOMAIN s
        /\ \A i \in DOMAIN Tail(s) : i \in Nat \ {0} /\ i + 1 \in DOMAIN s /\ Tail(s)[i] = s[i + 1]
    OBVIOUS
  <1>2. \A i \in DOMAIN Tail(s) : Tail(s)[i] # Head(s)
    BY <1>1 DEF IsInjective
  <1>3. IsInjective(Tail(s))
    <2> SUFFICES ASSUME NEW i \in DOMAIN Tail(s), NEW j \in DOMAIN Tail(s), Tail(s)[i] = Tail(s)[j]
                 PROVE  i = j
      BY DEF IsInjective
    <2>1. i + 1 = j + 1
      BY <1>1 DEF IsInjective
    <2> QED  BY <1>1, <2>1
  <1> QED  BY <1>1, <1>2, <1>3

-----------------------------------------------------------------------------
(* The clock.  A driver is in it once exactly when it is active. *)

\* The library's operators are the same in the instance.
LEMMA SameInClock ==
    /\ \A s, W : Clock!Without(s, W) = Without(s, W)
    /\ \A s : Clock!ToSet(s) = ToSet(s)
    /\ \A s : Clock!IsInjective(s) <=> IsInjective(s)
    /\ \A S : Clock!SetToSeq(S) = SetToSeq(S)
    /\ \A S : Clock!IsFiniteSet(S) <=> IsFiniteSet(S)
  <1>1. \A S : Clock!Cardinality(S) = Cardinality(S)
    BY DEF Clock!Cardinality, Cardinality
  <1>2. \A s, P : Clock!Picked(s, P) = Picked(s, P)
    BY DEF Clock!Picked, Picked, Clock!Ahead, Ahead, Clock!Cardinality, Cardinality
  <1>3. \A s, W : Clock!Without(s, W) = Without(s, W)
    BY <1>2 DEF Clock!Without, Without
  <1>4. \A s : Clock!ToSet(s) = ToSet(s)
    BY DEF Clock!ToSet, ToSet
  <1>5. \A s : Clock!IsInjective(s) <=> IsInjective(s)
    BY DEF Clock!IsInjective, IsInjective
  <1>6. \A S : Clock!SetToSeq(S) = SetToSeq(S)
    BY <1>1, <1>5 DEF Clock!SetToSeq, SetToSeq
  <1>7. \A S : Clock!IsFiniteSet(S) <=> IsFiniteSet(S)
    BY DEF Clock!IsFiniteSet, IsFiniteSet
  <1> QED  BY <1>3, <1>4, <1>5, <1>6, <1>7

StateFields == {"field", "clock", "active", "from", "to", "at", "elapsed"}

\* A state in which a driver is in the clock once if it is active and else not at all.
InClock(s) ==
    /\ DOMAIN s = StateFields
    /\ s.clock \in Seq(Clock!Driven) /\ s.active \in [Clock!Driven -> BOOLEAN]
    /\ IsInjective(s.clock) /\ ToSet(s.clock) = {f \in Clock!Driven : s.active[f]}

\* The entries a tick has left are ones of different drivers; between ticks none is.
ClockInv ==
    /\ InClock(st)
    /\ snapshot \in Seq(Clock!Driven) /\ IsInjective(snapshot)
    /\ ~ticking => snapshot = <<>>
    /\ Clock!DroppedStops

LEMMA RegisteredKeeps ==
    ASSUME NEW s, InClock(s), NEW fs \in SUBSET Clock!Driven, IsFiniteSet(fs)
    PROVE  /\ InClock(Clock!Registered(s, fs))
           /\ \A g \in Clock!Driven : s.active[g] => Clock!Registered(s, fs).active[g]
  <1> DEFINE new == {f \in fs : ~s.active[f]}
             t == Clock!Registered(s, fs)
             now == [f \in Clock!Driven |-> s.active[f] \/ f \in fs]
  <1>1. t = [s EXCEPT !.clock = s.clock \o SetToSeq(new), !.active = now]
    BY SameInClock DEF Clock!Registered
  <1>2. /\ DOMAIN s = StateFields
        /\ s.clock \in Seq(Clock!Driven) /\ s.active \in [Clock!Driven -> BOOLEAN]
        /\ IsInjective(s.clock) /\ ToSet(s.clock) = {f \in Clock!Driven : s.active[f]}
    BY DEF InClock
  <1>3. new \in SUBSET fs /\ new \in SUBSET Clock!Driven /\ \A f \in new : ~s.active[f]
    OBVIOUS
  <1>4. \A f \in fs : f \in new \/ s.active[f]
    OBVIOUS
  <1> HIDE DEF new, t
  <1>5. IsFiniteSet(new)
    BY <1>3, FS_Subset
  <1>6. /\ SetToSeq(new) \in Seq(Clock!Driven)
        /\ ToSet(SetToSeq(new)) = new /\ IsInjective(SetToSeq(new))
    BY <1>3, <1>5, SetToSeqHas, SeqMonotonic
  <1>7. ToSet(s.clock) \cap ToSet(SetToSeq(new)) = {}
    BY <1>2, <1>3, <1>6
  <1>8. /\ s.clock \o SetToSeq(new) \in Seq(Clock!Driven)
        /\ ToSet(s.clock \o SetToSeq(new)) = ToSet(s.clock) \cup new
        /\ IsInjective(s.clock \o SetToSeq(new))
    BY <1>2, <1>6, <1>7, JoinedHas
  <1>9. DOMAIN t = StateFields /\ t.clock = s.clock \o SetToSeq(new) /\ t.active = now
    BY <1>1, <1>2 DEF StateFields
  <1>10. ToSet(s.clock) \cup new = {f \in Clock!Driven : now[f]}
    BY <1>2, <1>3, <1>4
  <1>11. now \in [Clock!Driven -> BOOLEAN] /\ \A g \in Clock!Driven : s.active[g] => now[g]
    BY <1>2
  <1> HIDE DEF now
  <1> QED  BY <1>8, <1>9, <1>10, <1>11 DEF InClock, t

LEMMA RemovedKeeps ==
    ASSUME NEW s, InClock(s), NEW fs
    PROVE  /\ InClock(Clock!Removed(s, fs))
           /\ \A g \in Clock!Driven : s.active[g] /\ g \notin fs => Clock!Removed(s, fs).active[g]
  <1> DEFINE t == Clock!Removed(s, fs)
             now == [f \in Clock!Driven |-> s.active[f] /\ f \notin fs]
  <1>1. t = [s EXCEPT !.clock = Without(s.clock, fs), !.active = now]
    BY SameInClock DEF Clock!Removed
  <1>2. /\ DOMAIN s = StateFields
        /\ s.clock \in Seq(Clock!Driven) /\ s.active \in [Clock!Driven -> BOOLEAN]
        /\ IsInjective(s.clock) /\ ToSet(s.clock) = {f \in Clock!Driven : s.active[f]}
    BY DEF InClock
  <1> HIDE DEF t
  <1>3. /\ Without(s.clock, fs) \in Seq(Clock!Driven)
        /\ ToSet(Without(s.clock, fs)) = ToSet(s.clock) \ fs
        /\ IsInjective(Without(s.clock, fs))
    BY <1>2, WithoutHolds
  <1>4. DOMAIN t = StateFields /\ t.clock = Without(s.clock, fs) /\ t.active = now
    BY <1>1, <1>2 DEF StateFields
  <1>5. ToSet(s.clock) \ fs = {f \in Clock!Driven : now[f]}
    BY <1>2
  <1>6. now \in [Clock!Driven -> BOOLEAN]
        /\ \A g \in Clock!Driven : s.active[g] /\ g \notin fs => now[g]
    BY <1>2
  <1> HIDE DEF now
  <1> QED  BY <1>3, <1>4, <1>5, <1>6 DEF InClock, t

\* What changes neither the clock nor who is active.
LEMMA SameClock ==
    ASSUME NEW s, InClock(s), NEW t, DOMAIN t = DOMAIN s, t.clock = s.clock, t.active = s.active
    PROVE  InClock(t)
  BY DEF InClock

LEMMA RetargetedKeeps ==
    ASSUME NEW s, InClock(s), NEW fs \in SUBSET Clock!Driven, IsFiniteSet(fs)
    PROVE  /\ InClock(Clock!Retargeted(s, fs))
           /\ \A g \in Clock!Driven : s.active[g] => Clock!Retargeted(s, fs).active[g]
  <1> DEFINE t == Clock!Aimed(s, fs)
  <1>1. DOMAIN t = DOMAIN s /\ t.clock = s.clock /\ t.active = s.active
    BY DEF Clock!Aimed, InClock, StateFields
  <1> HIDE DEF t
  <1>2. InClock(t)
    BY <1>1, SameClock
  <1>3. /\ InClock(Clock!Registered(t, fs))
        /\ \A g \in Clock!Driven : t.active[g] => Clock!Registered(t, fs).active[g]
    BY <1>2, RegisteredKeeps
  <1>4. Clock!Retargeted(s, fs) = Clock!Registered(t, fs)
    BY DEF Clock!Retargeted, t
  <1> QED  BY <1>1, <1>3, <1>4

\* The fields that follow f: what they make the guards do.
LEMMA FollowedKeeps ==
    ASSUME NEW s, InClock(s), NEW f \in Clock!Driven
    PROVE  /\ InClock(Clock!Followed(s, f))
           /\ \A g \in Clock!Driven : s.active[g] => Clock!Followed(s, f).active[g]
  <1> DEFINE moved == {g \in Follows[f] : s.field[g] # s.field[f]}
             moving == [s EXCEPT !.field = [g \in Clock!Driven |->
                                              IF g \in moved THEN s.field[f] ELSE s.field[g]]]
  <1>1. CASE f \in Guarded
    <2>1. Follows[f] \in SUBSET Guarded /\ IsFiniteSet(Guarded)
      BY <1>1, SignalsAssumption, SameInClock DEF Clock!ConstantsAssumption
    <2>2. moved \in SUBSET Guarded
      BY <2>1
    <2>3. DOMAIN moving = DOMAIN s /\ moving.clock = s.clock /\ moving.active = s.active
      BY DEF InClock, StateFields
    <2>4. Clock!Followed(s, f) = Clock!Retargeted(moving, moved)
      BY <1>1 DEF Clock!Followed
    <2> HIDE DEF moved, moving
    <2>5. IsFiniteSet(moved) /\ moved \in SUBSET Clock!Driven
      BY <2>1, <2>2, FS_Subset DEF Clock!Driven
    <2>6. InClock(moving)
      BY <2>3, SameClock
    <2> QED  BY <2>3, <2>4, <2>5, <2>6, RetargetedKeeps
  <1>2. CASE f \notin Guarded
    BY <1>2 DEF Clock!Followed
  <1> QED  BY <1>1, <1>2

LEMMA SetAnimatingKeeps ==
    ASSUME NEW s, InClock(s), NEW f \in Clock!Driven, NEW v
    PROVE  /\ InClock(Clock!SetAnimating(s, f, v))
           /\ \A g \in Clock!Driven : s.active[g] => Clock!SetAnimating(s, f, v).active[g]
  <1> DEFINE t == [s EXCEPT !.field[f] = v]
  <1>1. DOMAIN t = DOMAIN s /\ t.clock = s.clock /\ t.active = s.active
    BY DEF InClock, StateFields
  <1>2. CASE s.field[f] = v
    BY <1>2 DEF Clock!SetAnimating
  <1>3. CASE s.field[f] # v
    <2>1. Clock!SetAnimating(s, f, v) = Clock!Followed(t, f)
      BY <1>3 DEF Clock!SetAnimating
    <2> HIDE DEF t
    <2>2. InClock(t)
      BY <1>1, SameClock
    <2> QED  BY <1>1, <2>1, <2>2, FollowedKeeps
  <1> QED  BY <1>2, <1>3

LEMMA SetKeeps ==
    ASSUME NEW s, InClock(s), NEW f \in Guarded, NEW v
    PROVE  InClock(Clock!Set(s, f, v))
  <1> DEFINE t == [s EXCEPT !.field[f] = v]
  <1>1. DOMAIN t = DOMAIN s /\ t.clock = s.clock /\ t.active = s.active
    BY DEF InClock, StateFields
  <1>2. CASE s.field[f] = v
    BY <1>2 DEF Clock!Set
  <1>3. CASE s.field[f] # v
    <2>1. Clock!Set(s, f, v) = Clock!Followed(Clock!Retargeted(t, {f}), f)
      BY <1>3 DEF Clock!Set
    <2> HIDE DEF t
    <2>2. f \in Clock!Driven /\ {f} \in SUBSET Clock!Driven /\ IsFiniteSet({f})
      BY FS_Singleton DEF Clock!Driven
    <2>3. InClock(t)
      BY <1>1, SameClock
    <2>4. InClock(Clock!Retargeted(t, {f}))
      BY <2>2, <2>3, RetargetedKeeps
    <2> QED  BY <2>1, <2>2, <2>4, FollowedKeeps
  <1> QED  BY <1>2, <1>3

\* A tick of f leaves every other driver in the clock.
LEMMA TickedKeeps ==
    ASSUME NEW s, InClock(s), NEW f \in Clock!Driven
    PROVE  /\ InClock(Clock!Ticked(s, f))
           /\ \A g \in Clock!Driven \ {f} : s.active[g] => Clock!Ticked(s, f).active[g]
  <1>1. CASE s.elapsed[f] >= Duration
    <2> DEFINE t == Clock!SetAnimating(s, f, s.to[f])
               u == [t EXCEPT !.at[f] = s.to[f]]
    <2>1. InClock(t) /\ \A g \in Clock!Driven : s.active[g] => t.active[g]
      BY SetAnimatingKeeps
    <2>2. Clock!Ticked(s, f) = Clock!Removed(u, {f})
      BY <1>1 DEF Clock!Ticked
    <2> HIDE DEF t
    <2>3. DOMAIN u = DOMAIN t /\ u.clock = t.clock /\ u.active = t.active
      BY <2>1 DEF InClock, StateFields
    <2> HIDE DEF u
    <2>4. InClock(u)
      BY <2>1, <2>3, SameClock
    <2> QED  BY <2>1, <2>2, <2>3, <2>4, RemovedKeeps
  <1>2. CASE ~(s.elapsed[f] >= Duration)
    <2> DEFINE v == Clock!Lerp(s.from[f], s.to[f], s.elapsed[f])
               u == [s EXCEPT !.at[f] = v]
    <2>1. Clock!Ticked(s, f) = Clock!SetAnimating(u, f, v)
      BY <1>2 DEF Clock!Ticked
    <2>2. DOMAIN u = DOMAIN s /\ u.clock = s.clock /\ u.active = s.active
      BY DEF InClock, StateFields
    <2> HIDE DEF v, u
    <2>3. InClock(u)
      BY <2>2, SameClock
    <2> QED  BY <2>1, <2>2, <2>3, SetAnimatingKeeps
  <1> QED  BY <1>1, <1>2

LEMMA ClockStart == Clock!Init => ClockInv
  <1> SUFFICES ASSUME Clock!Init
               PROVE  ClockInv
    OBVIOUS
  <1>1. /\ DOMAIN st = StateFields /\ st.clock = <<>>
        /\ st.active = [f \in Clock!Driven |-> FALSE]
    BY DEF Clock!Init, StateFields
  <1>2. ToSet(<<>>) = {} /\ IsInjective(<<>>) /\ <<>> \in Seq(Clock!Driven)
    BY DEF ToSet, IsInjective
  <1>3. snapshot = <<>>
    BY DEF Clock!Init
  <1> QED  BY <1>1, <1>2, <1>3 DEF ClockInv, InClock, Clock!DroppedStops

\* Between ticks there is nothing left to call.
LEMMA BetweenTicks ==
    ASSUME ClockInv, ~ticking, UNCHANGED <<ticking, snapshot>>, InClock(st')
    PROVE  ClockInv'
  <1>1. ~ticking' /\ snapshot' = <<>> /\ <<>> \in Seq(Clock!Driven)
    BY DEF ClockInv
  <1>2. IsInjective(<<>>)
    BY DEF IsInjective
  <1>3. InClock(st)'
    BY DEF InClock
  <1> QED  BY <1>1, <1>2, <1>3 DEF ClockInv, Clock!DroppedStops

LEMMA CallEntryKeeps == ClockInv /\ Clock!CallEntry => ClockInv'
  <1> SUFFICES ASSUME ClockInv, Clock!CallEntry
               PROVE  ClockInv'
    OBVIOUS
  <1> DEFINE f == Head(snapshot)
  <1>1. PICK gone \in SUBSET (Anims \ {f}) :
           /\ st' = Clock!Dropped(Clock!Ticked(st, f), gone)
           /\ droppedNow' = droppedNow \cup gone
    BY DEF Clock!CallEntry
  <1>2. ticking' /\ snapshot # <<>> /\ snapshot' = Tail(snapshot)
    BY DEF Clock!CallEntry
  <1>3. /\ Tail(snapshot) \in Seq(Clock!Driven) /\ IsInjective(Tail(snapshot))
        /\ f \in Clock!Driven
        /\ \A i \in DOMAIN Tail(snapshot) :
              Tail(snapshot)[i] # f /\ i + 1 \in DOMAIN snapshot
              /\ Tail(snapshot)[i] = snapshot[i + 1]
    BY <1>2, TailHas DEF ClockInv
  <1>4. \A i \in DOMAIN Tail(snapshot) : Tail(snapshot)[i] \in Clock!Driven
    BY <1>3
  <1> HIDE DEF f
  <1>5. /\ InClock(Clock!Ticked(st, f))
        /\ \A g \in Clock!Driven \ {f} : st.active[g] => Clock!Ticked(st, f).active[g]
    BY <1>3, TickedKeeps DEF ClockInv
  <1>6. /\ InClock(st')
        /\ \A g \in Clock!Driven : Clock!Ticked(st, f).active[g] /\ g \notin gone => st'.active[g]
    BY <1>1, <1>5, RemovedKeeps DEF Clock!Dropped
  <1>7. ASSUME NEW i \in DOMAIN Tail(snapshot)
        PROVE  st'.active[Tail(snapshot)[i]] \/ Tail(snapshot)[i] \in droppedNow'
    <2> DEFINE g == Tail(snapshot)[i]
    <2>1. g \in Clock!Driven \ {f}
      BY <1>3, <1>4
    <2>2. st.active[g] \/ g \in droppedNow
      BY <1>3 DEF ClockInv, Clock!DroppedStops
    <2> HIDE DEF g
    <2>3. st'.active[g] \/ g \in droppedNow'
      BY <1>1, <1>5, <1>6, <2>1, <2>2
    <2> QED  BY <2>3 DEF g
  <1>8. InClock(st)'
    BY <1>6 DEF InClock
  <1> QED  BY <1>2, <1>3, <1>7, <1>8 DEF ClockInv, Clock!DroppedStops

LEMMA ClockStep == ClockInv /\ Clock!Next => ClockInv'
  <1> SUFFICES ASSUME ClockInv, Clock!Next
               PROVE  ClockInv'
    OBVIOUS
  <1>1. InClock(st)
    BY DEF ClockInv
  <1>2. CASE Clock!BeginTick
    <2>1. /\ ticking' /\ snapshot' = st.clock /\ droppedNow' = droppedNow
          /\ DOMAIN st' = DOMAIN st /\ st'.clock = st.clock /\ st'.active = st.active
      BY <1>1, <1>2 DEF Clock!BeginTick, InClock, StateFields
    <2>2. \A i \in DOMAIN st.clock : st.active[st.clock[i]]
      BY <1>1 DEF InClock, ToSet
    <2>3. InClock(st')
      BY <1>1, <2>1, SameClock
    <2>4. InClock(st)'
      BY <2>3 DEF InClock
    <2> QED  BY <1>1, <2>1, <2>2, <2>4 DEF ClockInv, InClock, Clock!DroppedStops
  <1>3. CASE Clock!CallEntry
    BY <1>3, CallEntryKeeps
  <1>4. CASE Clock!CallDropped
    <2>1. ticking' /\ snapshot # <<>> /\ snapshot' = Tail(snapshot) /\ droppedNow' = droppedNow
      BY <1>4 DEF Clock!CallDropped
    <2>2. DOMAIN st' = DOMAIN st /\ st'.clock = st.clock /\ st'.active = st.active
      BY <1>1, <1>4 DEF Clock!CallDropped, InClock, StateFields
    <2>3. /\ Tail(snapshot) \in Seq(Clock!Driven) /\ IsInjective(Tail(snapshot))
          /\ \A i \in DOMAIN Tail(snapshot) :
                i + 1 \in DOMAIN snapshot /\ Tail(snapshot)[i] = snapshot[i + 1]
      BY <2>1, TailHas DEF ClockInv
    <2>4. InClock(st')
      BY <1>1, <2>2, SameClock
    <2>5. InClock(st)'
      BY <2>4 DEF InClock
    <2> QED  BY <2>1, <2>2, <2>3, <2>5 DEF ClockInv, Clock!DroppedStops
  <1>5. CASE Clock!EndTick
    BY <1>5 DEF Clock!EndTick, ClockInv, InClock, Clock!DroppedStops
  <1>6. ASSUME NEW f \in Guarded, NEW v, Clock!SetField(f, v)
        PROVE  ClockInv'
    <2>1. ~ticking /\ UNCHANGED <<ticking, snapshot>> /\ st' = Clock!Set(st, f, v)
      BY <1>6 DEF Clock!SetField
    <2> QED  BY <1>1, <2>1, SetKeeps, BetweenTicks
  <1>7. ASSUME NEW f \in Anims, Clock!Drop(f)
        PROVE  ClockInv'
    <2>1. ~ticking /\ UNCHANGED <<ticking, snapshot>> /\ st' = Clock!Removed(st, {f})
      BY <1>7 DEF Clock!Drop, Clock!Dropped
    <2> QED  BY <1>1, <2>1, RemovedKeeps, BetweenTicks
  <1>8. ASSUME NEW f \in Anims, NEW v, Clock!Animate(f, v)
        PROVE  ClockInv'
    <2> DEFINE t == [st EXCEPT !.from[f] = st.field[f], !.to[f] = v, !.elapsed[f] = 0]
    <2>1. ~ticking /\ UNCHANGED <<ticking, snapshot>> /\ st' = Clock!Registered(t, {f})
      BY <1>8 DEF Clock!Animate
    <2>2. DOMAIN t = DOMAIN st /\ t.clock = st.clock /\ t.active = st.active
      BY <1>1 DEF InClock, StateFields
    <2> HIDE DEF t
    <2>3. InClock(t)
      BY <1>1, <2>2, SameClock
    <2>4. {f} \in SUBSET Clock!Driven /\ IsFiniteSet({f})
      BY FS_Singleton DEF Clock!Driven
    <2> QED  BY <2>1, <2>3, <2>4, RegisteredKeeps, BetweenTicks
  <1> QED  BY <1>2, <1>3, <1>4, <1>5, <1>6, <1>7, <1>8 DEF Clock!Next, Clock!Tick

\* A driver that runs is in the clock once, however its field is retargeted, followed
\* or dropped and from where; and a tick goes on only with drivers that still run or
\* were dropped in it.  (AnimationClock, TransitionGuard, Animation)
THEOREM DriversMatch == MCSpec => []ClockMatches
  <1>1. MCInit => ClockInv
    BY ClockStart DEF MCInit
  <1>2. ClockInv /\ [MCNext]_allVars => ClockInv'
    <2> SUFFICES ASSUME ClockInv, [MCNext]_allVars
                 PROVE  ClockInv'
      OBVIOUS
    <2>1. CASE scene = "clock" /\ Clock!Next
      BY <2>1, ClockStep
    <2>2. CASE UNCHANGED animationVars
      BY <2>2 DEF animationVars, ClockInv, InClock, Clock!DroppedStops
    <2> QED  BY <2>1, <2>2 DEF MCNext, allVars
  <1>3. ClockInv => ClockMatches
    BY SameInClock DEF ClockInv, InClock, ClockMatches, Clock!ClockMatches
  <1> QED  BY <1>1, <1>2, <1>3, PTL DEF MCSpec
=============================================================================
