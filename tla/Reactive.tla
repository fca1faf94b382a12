------------------------------ MODULE Reactive --------------------------------
(***************************************************************************)
(* The reactive graph of the logic thread: core::Field (core/field.hpp),   *)
(* core::Derived (core/derived.hpp), SenderHub::emit (core/connection.hpp) *)
(* and transaction() (core/transaction.hpp).                               *)
(*                                                                         *)
(* One thread runs all of it, so what makes it hard is nesting: setting a  *)
(* field emits, an emission calls receivers, a receiver is a Derived that  *)
(* recomputes and emits in turn or application code that may set fields,   *)
(* open transactions or throw.  The module models that call stack, one     *)
(* frame per call of                                                       *)
(*    emit     SenderHub::emit, at its next receiver                       *)
(*    body     an observer callback: application code                      *)
(*    txn      the body of a transaction(): application code               *)
(*    flush    TransactionGuard::flush, with what its wave has left        *)
(*                                                                         *)
(* The first frame is the innermost.  With no frame the application's      *)
(* posted closure runs; drain_queue's handler catches what it throws.      *)
(***************************************************************************)
EXTENDS Naturals, Sequences, SequencesExt

CONSTANTS
    Fields,          \* core::Field
    Deriveds,        \* core::Derived
    Observers,       \* observer callbacks, each of one cell
    Subs,            \* receivers of each cell, in connection order
    Compute(_, _),   \* what a Derived's lambda returns, given its sources' values
    Value,           \* values of all cells
    Input,           \* values application code sets fields to
    Initial,         \* the value of each cell after construction
    MaxWaves,        \* max_waves of TransactionGuard::flush, 64 in the code
    MaxSets,         \* bound: calls to Field::set
    MaxTxns,         \* bound: transactions opened
    MaxThrows        \* bound: exceptions thrown by application code

Cells == Fields \cup Deriveds

\* The cells a Derived subscribes to, the ones its lambda reads.
Sources(d) == {c \in Cells : d \in ToSet(Subs[c])}

Computed(d, v) == Compute(d, [c \in Sources(d) |-> v[c]])

\* A Derived computes its value when it is constructed, after its sources.
Settled(v) == \A d \in Deriveds : v[d] = Computed(d, v)

\* Fields, Deriveds and callbacks are objects of their own, a Derived is constructed
\* after its sources, and a callback is connected to one cell.
ConstantsAssumption ==
    /\ Fields \cap Deriveds = {} /\ Cells \cap Observers = {}
    /\ Subs \in [Cells -> Seq(Deriveds \cup Observers)]
    /\ \A d \in Deriveds : d \notin ToSet(Subs[d])
    /\ \A o \in Observers : \E c \in Cells : \A e \in Cells : o \in ToSet(Subs[e]) <=> e = c
    /\ \A d \in Deriveds : \A v \in [Sources(d) -> Value] : Compute(d, v) \in Value
    /\ Initial \in [Cells -> Value] /\ Settled(Initial)
    /\ Input \subseteq Value
    /\ MaxWaves \in Nat \ {0}
    /\ MaxSets \in Nat /\ MaxTxns \in Nat /\ MaxThrows \in Nat

VARIABLES
    val,             \* the value of each cell
    seen,            \* the value each observer was last called with
    depth,           \* TransactionState::depth
    deferred,        \* TransactionState::queue, the cells that owe an emission
    stack,           \* calls in progress, innermost first
    unwinding,       \* an exception is on its way up the stack
    terminated,      \* std::terminate was called
    fired,           \* calls of each observer by the outermost flush, to 2
    acted,           \* history: an observer has set a field or opened a transaction
    capped,          \* history: a flush has run out of waves
    sets, txns, throws

bounds == <<sets, txns, throws>>
history == <<acted, capped>>
vars == <<val, seen, depth, deferred, stack, unwinding, terminated, fired, history,
          sets, txns, throws>>

Emit(c) == [k |-> "emit", c |-> c, i |-> 1]
Body == [k |-> "body"]
Txn == [k |-> "txn"]
\* resume: the guard was destroyed by an exception, which goes on afterwards.
Flush(resume) == [k |-> "flush", rest |-> <<>>, wave |-> 0, resume |-> resume]

Frame == [k : {"emit"}, c : Cells, i : Nat \ {0}]
           \cup [k : {"body", "txn"}]
           \cup [k : {"flush"}, rest : Seq(Cells), wave : 0..MaxWaves, resume : BOOLEAN]

TypeOK ==
    /\ val \in [Cells -> Value]
    /\ seen \in [Observers -> Value]
    /\ depth \in Nat
    /\ deferred \in Seq(Cells)
    /\ stack \in Seq(Frame)
    /\ unwinding \in BOOLEAN
    /\ terminated \in BOOLEAN
    /\ fired \in [Observers -> 0..2]
    /\ acted \in BOOLEAN /\ capped \in BOOLEAN
    /\ sets \in 0..MaxSets /\ txns \in 0..MaxTxns /\ throws \in 0..MaxThrows

\* The cell an observer is connected to.
CellOf(o) == CHOOSE c \in Cells : o \in ToSet(Subs[c])

Init ==
    /\ val = Initial
    /\ seen = [o \in Observers |-> val[CellOf(o)]]
    /\ depth = 0
    /\ deferred = <<>>
    /\ stack = <<>>
    /\ unwinding = FALSE
    /\ terminated = FALSE
    /\ fired = [o \in Observers |-> 0]
    /\ acted = FALSE /\ capped = FALSE
    /\ sets = 0 /\ txns = 0 /\ throws = 0

-----------------------------------------------------------------------------
Kind == IF stack = <<>> THEN "none" ELSE Head(stack).k
Below == Tail(stack)
Ready == ~unwinding /\ ~terminated

\* Control is in application code.
InApplication ==
    Ready /\ Kind \in {"none", "txn", "body"}

\* ... of an observer, at any depth.
InCallback == \E j \in DOMAIN stack : stack[j].k = "body"

\* emit_or_defer: cell c changed while the calls s are in progress.
EmitOrDefer(c, s) ==
    IF depth > 0
    THEN deferred' = Append(deferred, c) /\ stack' = s
    ELSE deferred' = deferred /\ stack' = <<Emit(c)>> \o s

\* Field::set.
SetField(f, v) ==
    /\ InApplication /\ sets < MaxSets
    /\ sets' = sets + 1
    /\ acted' = (acted \/ InCallback)
    /\ IF val[f] = v
       THEN UNCHANGED <<val, deferred, stack>>
       ELSE val' = [val EXCEPT ![f] = v] /\ EmitOrDefer(f, stack)
    /\ UNCHANGED <<seen, depth, unwinding, terminated, fired, txns, throws, capped>>

\* TransactionGuard's constructor.
OpenTxn ==
    /\ InApplication /\ txns < MaxTxns
    /\ txns' = txns + 1
    /\ acted' = (acted \/ InCallback)
    /\ depth' = depth + 1
    /\ stack' = <<Txn>> \o stack
    /\ fired' = IF depth = 0 THEN [o \in Observers |-> 0] ELSE fired
    /\ UNCHANGED <<val, seen, deferred, unwinding, terminated, sets, throws, capped>>

\* Its destructor, at the end of the body: the outermost guard flushes.
CloseTxn ==
    /\ Ready /\ Kind = "txn"
    /\ depth' = depth - 1
    /\ stack' = IF depth = 1 THEN <<Flush(FALSE)>> \o Below ELSE Below
    /\ UNCHANGED <<val, seen, deferred, unwinding, terminated, fired, bounds, history>>

\* An observer callback returns.
ReturnBody ==
    /\ Ready /\ Kind = "body"
    /\ stack' = Below
    /\ UNCHANGED <<val, seen, depth, deferred, unwinding, terminated, fired, bounds, history>>

-----------------------------------------------------------------------------
(* SenderHub::emit. *)

Receivers == Subs[Head(stack).c]
Receiver == Receivers[Head(stack).i]
HasReceiver == Ready /\ Kind = "emit" /\ Head(stack).i <= Len(Receivers)
Advanced == <<[Head(stack) EXCEPT !.i = @ + 1]>> \o Below

InFlush == \E j \in DOMAIN stack : stack[j].k = "flush"

\* An observer is called with a reference to the cell's value.
CallObserver ==
    /\ HasReceiver /\ Receiver \in Observers
    /\ seen' = [seen EXCEPT ![Receiver] = val[Head(stack).c]]
    /\ fired' = IF InFlush THEN [fired EXCEPT ![Receiver] = IF @ < 2 THEN @ + 1 ELSE 2]
                         ELSE fired
    /\ stack' = <<Body>> \o Advanced
    /\ UNCHANGED <<val, depth, deferred, unwinding, terminated, bounds, history>>

\* Derived::recompute.
Recompute ==
    /\ HasReceiver /\ Receiver \in Deriveds
    /\ LET new == Computed(Receiver, val)
       IN IF new = val[Receiver]
          THEN stack' = Advanced /\ UNCHANGED <<val, deferred>>
          ELSE /\ val' = [val EXCEPT ![Receiver] = new]
               /\ EmitOrDefer(Receiver, Advanced)
    /\ UNCHANGED <<seen, depth, unwinding, terminated, fired, bounds, history>>

\* Every receiver was called.
EmitDone ==
    /\ Ready /\ Kind = "emit" /\ Head(stack).i > Len(Receivers)
    /\ stack' = Below
    /\ UNCHANGED <<val, seen, depth, deferred, unwinding, terminated, fired, bounds, history>>

-----------------------------------------------------------------------------
(* TransactionGuard::flush. *)

\* The last place of cell c in q.
LastAt(q, c) == Max({n \in DOMAIN q : q[n] = c})

\* One entry per sender, the last of each, in order: a set of one sequence.
Coalesced(q) ==
    {s \in SeqOf(ToSet(q), Len(q)) :
        /\ ToSet(s) = ToSet(q)
        /\ \A m, n \in DOMAIN s : m < n => LastAt(q, s[m]) < LastAt(q, s[n])}

Flushing == Ready /\ Kind = "flush"

\* Mutated FlushFire: the emission stays in the wave.
FlushFireAgain ==
    /\ Flushing /\ Head(stack).rest # <<>>
    /\ stack' = <<Emit(Head(Head(stack).rest))>> \o stack
    /\ UNCHANGED <<val, seen, depth, deferred, unwinding, terminated, fired, bounds, history>>

\* The calls once the wave has given up its next emission.
Remaining == <<[Head(stack) EXCEPT !.rest = Tail(@)]>> \o Below

\* The next emission of the wave.
FlushFire ==
    /\ Flushing /\ Head(stack).rest # <<>>
    /\ stack' = <<Emit(Head(Head(stack).rest))>> \o Remaining
    /\ UNCHANGED <<val, seen, depth, deferred, unwinding, terminated, fired, bounds, history>>

\* A wave: what was deferred so far fires with depth 1, so that what it causes
\* is deferred to the next.
FlushWave ==
    /\ Flushing /\ Head(stack).rest = <<>> /\ deferred # <<>>
    /\ Head(stack).wave < MaxWaves
    /\ \E s \in Coalesced(deferred) :
            stack' = <<[k |-> "flush", rest |-> s, wave |-> Head(stack).wave + 1,
                        resume |-> Head(stack).resume]>> \o Below
    /\ deferred' = <<>>
    /\ depth' = 1
    /\ UNCHANGED <<val, seen, unwinding, terminated, fired, bounds, history>>

\* No wave is left: a release build drops what is deferred.  (A debug build
\* stops at the assertion.)
FlushCapped ==
    /\ Flushing /\ Head(stack).rest = <<>> /\ deferred # <<>>
    /\ Head(stack).wave = MaxWaves
    /\ deferred' = <<>>
    /\ capped' = TRUE
    /\ depth' = 0
    /\ stack' = Below
    /\ unwinding' = Head(stack).resume
    /\ UNCHANGED <<val, seen, terminated, fired, bounds, acted>>

\* Mutated FlushDone: one wave only.
FlushDoneEarly ==
    /\ Flushing /\ Head(stack).rest = <<>> /\ (deferred = <<>> \/ Head(stack).wave = 1)
    /\ deferred' = <<>>
    /\ depth' = 0
    /\ stack' = Below
    /\ unwinding' = Head(stack).resume
    /\ UNCHANGED <<val, seen, terminated, fired, bounds, history>>

\* Nothing is deferred any more.
FlushDone ==
    /\ Flushing /\ Head(stack).rest = <<>> /\ deferred = <<>>
    /\ depth' = 0
    /\ stack' = Below
    /\ unwinding' = Head(stack).resume
    /\ UNCHANGED <<val, seen, deferred, terminated, fired, bounds, history>>

-----------------------------------------------------------------------------
(* Exceptions. *)

\* Application code throws.
Throw ==
    /\ Ready /\ Kind \in {"none", "txn", "body"} /\ throws < MaxThrows
    /\ throws' = throws + 1
    /\ unwinding' = TRUE
    /\ UNCHANGED <<val, seen, depth, deferred, stack, terminated, fired, sets, txns, history>>

\* The exception leaves a transaction body: the guard's destructor runs, and
\* the outermost one flushes before the exception goes on.
UnwindTxn ==
    /\ unwinding /\ Kind = "txn"
    /\ depth' = depth - 1
    /\ IF depth = 1
       THEN stack' = <<Flush(TRUE)>> \o Below /\ unwinding' = FALSE
       ELSE stack' = Below /\ UNCHANGED unwinding
    /\ UNCHANGED <<val, seen, deferred, terminated, fired, bounds, history>>

\* It leaves an emission or a callback.
UnwindCall ==
    /\ unwinding /\ Kind \in {"emit", "body"}
    /\ stack' = Below
    /\ UNCHANGED <<val, seen, depth, deferred, unwinding, terminated, fired, bounds, history>>

\* It reaches a flush, which a destructor called: std::terminate.
UnwindFlush ==
    /\ unwinding /\ Kind = "flush"
    /\ terminated' = TRUE
    /\ unwinding' = FALSE
    /\ UNCHANGED <<val, seen, depth, deferred, stack, fired, bounds, history>>

\* drain_queue catches and reports it.
Caught ==
    /\ unwinding /\ stack = <<>>
    /\ unwinding' = FALSE
    /\ UNCHANGED <<val, seen, depth, deferred, stack, terminated, fired, bounds, history>>

-----------------------------------------------------------------------------
Application == (\E f \in Fields, v \in Input : SetField(f, v)) \/ OpenTxn

Return == CloseTxn \/ ReturnBody

Library == CallObserver \/ Recompute \/ EmitDone \/ FlushFire \/ FlushWave
             \/ FlushCapped \/ FlushDone

Exception == Throw \/ UnwindTxn \/ UnwindCall \/ UnwindFlush \/ Caught

Next == Application \/ Return \/ Library \/ Exception

\* Calls return: application code does not loop in a callback or a transaction
\* for ever, and the library's steps run on.
Fairness == WF_vars(Return) /\ WF_vars(Library)

SafeSpec == Init /\ [][Next]_vars

Spec == SafeSpec /\ Fairness
-----------------------------------------------------------------------------
(* Properties. *)

AtRest == stack = <<>> /\ Ready

\* Nothing was lost on the way: no exception, no flush cut short.
Undisturbed == throws = 0 /\ ~capped

\* Once everything a change set off has returned, through re-entrant sets,
\* transactions and the early return on an equal value, a Derived is what its
\* lambda returns for the values of its sources, and the last call of each
\* observer was with the value of its cell, even when an earlier receiver of the
\* same emission set the cell again.
Converged ==
    AtRest /\ Undisturbed =>
        /\ Settled(val)
        /\ \A o \in Observers : seen[o] = val[CellOf(o)]

\* With no call in progress the thread's transaction state is as it was made: no
\* depth and nothing deferred, whatever transactions nested and whatever was thrown
\* through them.  (TransactionGuard)
NothingLeftBehind == stack = <<>> => depth = 0 /\ deferred = <<>>

\* "Each field's callback fires at most once with final value", and a diamond's
\* Derived "recomputes once after both B and C are updated": as long as observers
\* set nothing themselves, a transaction calls each of them at most once when all
\* paths from a field to a Derived have the same length.
FiresOncePerFlush == ~acted => \A o \in Observers : fired[o] <= 1

\* Emissions end: the graph comes to rest again after every change.
Ended == stack = <<>> \/ unwinding \/ terminated
ComesToRest == []<>Ended
=============================================================================
