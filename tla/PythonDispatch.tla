--------------------------- MODULE PythonDispatch ----------------------------
(***************************************************************************)
(* How a Python thread reaches the model (python/src/prism_ext.cpp).  A    *)
(* write, an add, the commit of a transaction or a read made on any thread *)
(* is posted to the logic thread while an application runs, and is done on *)
(* the spot, under one mutex, while none does.  Which of the two it is     *)
(* depends on the handle that the start of a run installs and its end      *)
(* takes away, so calls race both.                                         *)
(*                                                                         *)
(* Three locks matter: the GIL, the mutex of the handle, the mutex of the  *)
(* direct dispatches.  A free-threaded interpreter has no GIL.  Pushing    *)
(* and scheduling, refined in MutationQueue, are one step here.  Starting  *)
(* takes less than the second a caller waits for it.                       *)
(***************************************************************************)
EXTENDS Naturals, Sequences, FiniteSets, SequencesExt

CONSTANTS
    Workers,         \* Python threads that use the model
    Committers,      \* for each build: those of them that use transactions
    Nobody,
    Builds,          \* [free, cb]: the interpreter has no GIL; the model has
                     \* validators or observers written in Python
    MaxCalls,        \* bound, for each build: calls of all the threads together
    MaxRuns          \* bound: runs of the application

ConstantsAssumption ==
    /\ Workers \cap {"logic", "runner", "off", "setup", "idle", "drain", "write"} = {}
    /\ Nobody \notin Workers \cup {"logic", "runner"}
    /\ Builds \subseteq [free : BOOLEAN, cb : BOOLEAN]
    /\ \A b \in Builds : MaxCalls[b] \in Nat
    /\ MaxRuns \in Nat

ASSUME ConstantsAssumption

VARIABLES
    build,           \* the member of Builds that runs
    gil, hlock, direct,  \* owners: GIL, g_handle_mutex, g_direct_dispatch_mutex
    app,             \* [guard, handle, shut, quit, runner, runs]
    loop,            \* the run_loop's tasks: "drain", "final", "close"
    scheduled,       \* the flag of the mutation queue
    queue,           \* closures: [by, op, batch]
    logic,           \* logic thread: [pc, task, tmp, batch: yet to be written]
    th,              \* Python threads: [pc, op, tmp, calls, buf, marks, seen, late]
    model,           \* [sum, p, q]: a counter, and two fields written together
    done             \* history: [adds: applied for each thread, owed: returned
                     \* and not dropped, total: applied for all of them,
                     \* straddled, torn: an add, a transaction made directly met
                     \* the logic thread]

pdVars == <<build, gil, hlock, direct, app, loop, scheduled, queue, logic, th, model, done>>
callVars == <<build, app, loop, logic>>
threads == Workers \cup {"logic", "runner"}

\* What a transaction writes tells whose it is, and which of them.
Stamps == Workers \X Nat
Batch == Seq({"p", "q"} \X Stamps)
Stored == Stamps \cup {<<>>}
Ops == {"add", "read", "txn"}
Closure == [by : Workers, op : Ops, batch : Batch]
Thread ==
    [pc : {"py", "start", "spin", "post", "stale", "wait", "answered",
           "lock", "direct", "set", "notify", "out"},
     op : Ops, tmp : Nat, calls : Nat, buf : Batch, marks : Seq(Nat), seen : Nat,
     late : BOOLEAN]

PdTypeOK ==
    /\ build \in Builds
    /\ {gil, hlock, direct} \subseteq threads \cup {Nobody}
    /\ app \in [guard : BOOLEAN, handle : BOOLEAN, shut : BOOLEAN, quit : BOOLEAN,
               runner : {"out", "running", "draining", "closing", "joined"},
               runs : 0..MaxRuns]
    /\ loop \in Seq({"drain", "final", "close"})
    /\ scheduled \in BOOLEAN
    /\ queue \in Seq(Closure)
    /\ logic \in [pc : {"off", "setup", "idle", "drain", "write"} \cup Workers,
                 task : {"drain", "final"}, tmp : Nat, batch : Batch]
    /\ th \in [Workers -> Thread]
    /\ model \in [sum : Nat, p : Stored, q : Stored]
    /\ done \in [adds : [Workers -> Nat], owed : [Workers -> Nat], total : Nat,
                straddled : BOOLEAN, torn : BOOLEAN]

PdInit ==
    /\ build \in Builds
    /\ gil = Nobody /\ hlock = Nobody /\ direct = Nobody
    /\ app = [guard |-> FALSE, handle |-> FALSE, shut |-> FALSE, quit |-> FALSE,
              runner |-> "out", runs |-> 0]
    /\ loop = <<>> /\ scheduled = FALSE /\ queue = <<>>
    /\ logic = [pc |-> "off", task |-> "drain", tmp |-> 0, batch |-> <<>>]
    /\ th = [w \in Workers |-> [pc |-> "py", op |-> "read", tmp |-> 0, calls |-> 0,
                                buf |-> <<>>, marks |-> <<>>, seen |-> 0, late |-> FALSE]]
    /\ model = [sum |-> 0, p |-> <<>>, q |-> <<>>]
    /\ done = [adds |-> [w \in Workers |-> 0], owed |-> [w \in Workers |-> 0],
               total |-> 0, straddled |-> FALSE, torn |-> FALSE]

-----------------------------------------------------------------------------
(* Locks, and what a call does to the model. *)

CanTake(t) == build.free \/ gil \in {Nobody, t}
Taken(t) == IF build.free THEN Nobody ELSE t
Holds(t) == build.free \/ gil = t

Release(t) == IF gil = t THEN Nobody ELSE gil

Calls == FoldFunctionOnSet(LAMBDA t, n : n + t.calls, 0, th, Workers)

Go(w, pc) == th' = [th EXCEPT ![w].pc = pc]

\* Between the two writes of a pair: the next one of the batch is to q.
Halfway(batch) == batch # <<>> /\ Head(batch)[1] = "q"

\* One write of a committed batch.  (The observers wait for the last one.)
Written(m, batch) == [m EXCEPT ![Head(batch)[1]] = Head(batch)[2]]

\* No lock keeps a direct add, between its read and its write, and the logic
\* thread apart.
Straddles == \E w \in Workers : th[w].pc = "set"

\* Nor a batch that is written directly and the logic thread.
Tears == \E w \in Workers : Halfway(th[w].buf)

-----------------------------------------------------------------------------
(* A thread calls.  Python code holds the GIL; between calls it does not.  *)

\* add(), or a read.
Call(w, op) ==
    /\ th[w].pc = "py" /\ Calls < MaxCalls[build] /\ CanTake(w)
    /\ gil' = Taken(w)
    /\ th' = [th EXCEPT ![w].pc = "start", ![w].op = op, ![w].calls = @ + 1,
                        ![w].late = FALSE]
    /\ UNCHANGED <<callVars, hlock, direct, scheduled, queue, model, done>>

\* _txn_begin
TxnBegin(w) ==
    /\ th[w].pc = "py" /\ CanTake(w) /\ Len(th[w].marks) < 2
    /\ Calls < MaxCalls[build]
    /\ th' = [th EXCEPT ![w].marks = Append(@, Len(th[w].buf)), ![w].calls = @ + 1]
    /\ UNCHANGED <<callVars, gil, hlock, direct, scheduled, queue, model, done>>

\* txn_buffer_or_dispatch, twice: the program writes p and q, the same value.
TxnWrite(w) ==
    /\ th[w].pc = "py" /\ CanTake(w) /\ th[w].marks # <<>> /\ Len(th[w].buf) < 4
    /\ LET v == <<w, th[w].calls>>
       IN th' = [th EXCEPT ![w].buf = @ \o <<<<"p", v>>, <<"q", v>>>>]
    /\ UNCHANGED <<callVars, gil, hlock, direct, scheduled, queue, model, done>>

\* _txn_commit: an inner block leaves its writes to the outer one.
TxnCommit(w) ==
    /\ th[w].pc = "py" /\ CanTake(w) /\ th[w].marks # <<>>
    /\ IF Len(th[w].marks) = 1 /\ th[w].buf # <<>>
       THEN /\ gil' = Taken(w)
            /\ th' = [th EXCEPT ![w].marks = <<>>, ![w].pc = "start", ![w].op = "txn"]
       ELSE /\ th' = [th EXCEPT ![w].marks = Front(@)]
            /\ UNCHANGED gil
    /\ UNCHANGED <<callVars, hlock, direct, scheduled, queue, model, done>>

\* txn_queue.resize(mark)
Kept(t) == SubSeq(t.buf, 1, Last(t.marks))

\* _txn_abort, an exception leaves the block.
TxnAbort(w) ==
    /\ th[w].pc = "py" /\ CanTake(w) /\ th[w].marks # <<>>
    /\ th' = [th EXCEPT ![w].buf = IF Len(th[w].marks) = 1 THEN <<>> ELSE Kept(th[w]),
                        ![w].marks = Front(@)]
    /\ UNCHANGED <<callVars, gil, hlock, direct, scheduled, queue, model, done>>

\* The startup window: the run is claimed and its handle not there yet.  The
\* commit of a transaction does not wait for it.
Spin(w) ==
    /\ th[w].pc = "start" /\ app.guard /\ ~app.handle /\ th[w].op # "txn"
    /\ gil' = (IF gil = w THEN Nobody ELSE gil)
    /\ Go(w, "spin")
    /\ UNCHANGED <<callVars, hlock, direct, scheduled, queue, model, done>>

SpinEnds(w) ==
    /\ th[w].pc = "spin" /\ (app.handle \/ ~app.guard) /\ CanTake(w)
    /\ gil' = Taken(w)
    /\ Go(w, "start")
    /\ UNCHANGED <<callVars, hlock, direct, scheduled, queue, model, done>>

Back(w) == [th EXCEPT ![w].pc = "py", ![w].tmp = 0, ![w].seen = 0,
                      ![w].buf = IF th[w].op = "txn" THEN <<>> ELSE @]

\* No application: the call is made here.  A read keeps the handle's mutex.
DecideDirect(w) ==
    /\ th[w].pc = "start" /\ ~app.handle /\ hlock = Nobody
    /\ ~app.guard \/ th[w].op = "txn"
    /\ hlock' = (IF th[w].op = "read" THEN w ELSE Nobody)
    /\ Go(w, "lock")
    /\ UNCHANGED <<callVars, gil, direct, scheduled, queue, model, done>>

\* Closed: a write is dropped, a read is made here.  (The read first waits for
\* the queue to empty, holding the GIL without which nothing empties it.)
DecideClosed(w) ==
    /\ th[w].pc = "start" /\ app.handle /\ app.shut /\ hlock = Nobody
    /\ IF th[w].op = "read"
       THEN th' = [th EXCEPT ![w].pc = "lock", ![w].late = TRUE] /\ UNCHANGED gil
       ELSE th' = Back(w) /\ gil' = Release(w)
    /\ UNCHANGED <<callVars, hlock, direct, scheduled, queue, model, done>>

\* An application runs: the call is to be posted, closed or not by then.
DecidePost(w) ==
    /\ th[w].pc = "start" /\ app.handle /\ ~app.shut /\ hlock = Nobody
    /\ Go(w, "post")
    /\ UNCHANGED <<callVars, gil, hlock, direct, scheduled, queue, model, done>>

Posted(w) == [by |-> w, op |-> th[w].op, batch |-> th[w].buf]

Enqueued(c) == Append(queue, c)

\* The push and, when nothing is scheduled, the drain.  The caller of a read
\* waits for the answer without the GIL; after the end of the loop nobody gives
\* one, and its own reference keeps the promise from being broken.
Post(w) ==
    /\ th[w].pc = "post"
    /\ queue' = Enqueued(Posted(w))
    /\ scheduled' = TRUE
    /\ loop' = (IF scheduled THEN loop ELSE Append(loop, "drain"))
    /\ gil' = Release(w)
    /\ th' = (IF th[w].op = "read"
              THEN [th EXCEPT ![w].pc = "wait", ![w].late = app.runner = "joined"]
              ELSE Back(w))
    /\ done' = [done EXCEPT !.owed[w] = @ + (IF th[w].op = "add" THEN 1 ELSE 0)]
    /\ UNCHANGED <<build, app, logic, hlock, direct, model>>

\* The queue died between the two: a read is made here after all.
PostGone(w) ==
    /\ th[w].pc = "stale" \/ (th[w].pc = "post" /\ app.runner = "joined")
    /\ IF th[w].op = "read"
       THEN th' = [th EXCEPT ![w].pc = "lock", ![w].late = TRUE] /\ UNCHANGED gil
       ELSE th' = Back(w) /\ gil' = Release(w)
    /\ UNCHANGED <<callVars, hlock, direct, scheduled, queue, model, done>>

\* fut.get()
Answered(w) ==
    /\ th[w].pc = "answered" /\ CanTake(w)
    /\ th' = Back(w)
    /\ UNCHANGED <<callVars, gil, hlock, direct, scheduled, queue, model, done>>

\* Mutated DirectLock: the fallback is not serialized.
DirectNoLock(w) ==
    /\ th[w].pc = "lock" /\ Holds(w)
    /\ Go(w, "direct")
    /\ UNCHANGED <<callVars, gil, hlock, direct, scheduled, queue, model, done>>

DirectLock(w) ==
    /\ th[w].pc = "lock" /\ direct = Nobody
    /\ direct' = w
    /\ Go(w, "direct")
    /\ UNCHANGED <<callVars, gil, hlock, scheduled, queue, model, done>>

Marked == [done EXCEPT !.straddled = @ \/ logic.pc \in Workers]
MarkedTorn == [done EXCEPT !.torn = @ \/ Halfway(logic.batch)]

\* The first half of a call: a read is over, an add has read the counter.
Direct(w) ==
    /\ th[w].pc = "direct" /\ th[w].op # "txn" /\ Holds(w)
    /\ IF th[w].op = "read"
       THEN /\ th' = [th EXCEPT ![w].pc = "out", ![w].seen = done.adds[w]]
            /\ done' = MarkedTorn
       ELSE /\ th' = [th EXCEPT ![w].pc = "set", ![w].tmp = model.sum]
            /\ UNCHANGED done
    /\ UNCHANGED <<callVars, gil, hlock, direct, scheduled, queue, model>>

\* One write of a batch; after the last its observers are called.
DirectWrite(w) ==
    /\ th[w].pc = "direct" /\ th[w].op = "txn" /\ th[w].buf # <<>> /\ Holds(w)
    /\ model' = Written(model, th[w].buf)
    /\ done' = MarkedTorn
    /\ th' = [th EXCEPT ![w].buf = Tail(@),
                        ![w].pc = IF Tail(th[w].buf) # <<>> THEN "direct"
                                  ELSE IF build.cb THEN "notify" ELSE "out"]
    /\ UNCHANGED <<callVars, gil, hlock, direct, scheduled, queue>>

\* Python code of a validator or an observer runs: it may lose the GIL.
Yield(w) ==
    /\ build.cb /\ th[w].pc \in {"set", "notify"} /\ gil = w
    /\ gil' = Nobody
    /\ UNCHANGED <<callVars, hlock, direct, scheduled, queue, th, model, done>>

Resume(w) ==
    /\ build.cb /\ th[w].pc \in {"set", "notify"} /\ gil = Nobody /\ ~build.free
    /\ gil' = w
    /\ UNCHANGED <<callVars, hlock, direct, scheduled, queue, th, model, done>>

DirectSet(w) ==
    /\ th[w].pc = "set" /\ Holds(w)
    /\ model' = [model EXCEPT !.sum = th[w].tmp + 1]
    /\ done' = [Marked EXCEPT !.adds[w] = @ + 1, !.owed[w] = @ + 1, !.total = @ + 1]
    /\ Go(w, IF build.cb THEN "notify" ELSE "out")
    /\ UNCHANGED <<callVars, gil, hlock, direct, scheduled, queue>>

\* The observer returns, having read some field: that takes the handle's mutex.
Notified(w) ==
    /\ th[w].pc = "notify" /\ Holds(w) /\ hlock = Nobody
    /\ Go(w, "out")
    /\ UNCHANGED <<callVars, gil, hlock, direct, scheduled, queue, model, done>>

DirectReturn(w) ==
    /\ th[w].pc = "out"
    /\ direct' = (IF direct = w THEN Nobody ELSE direct)
    /\ hlock' = (IF hlock = w THEN Nobody ELSE hlock)
    /\ gil' = Release(w)
    /\ th' = Back(w)
    /\ UNCHANGED <<callVars, scheduled, queue, model, done>>

-----------------------------------------------------------------------------
(* The logic thread. *)

logicRest == <<build, hlock, direct>>

\* setup() installs the handle, then loop.run().
Setup ==
    /\ logic.pc = "setup" /\ hlock = Nobody
    /\ app' = [app EXCEPT !.handle = TRUE]
    /\ logic' = [logic EXCEPT !.pc = "idle"]
    /\ UNCHANGED <<logicRest, gil, loop, scheduled, queue, th, model, done>>

\* A task begins by taking the GIL.
TakeTask ==
    /\ logic.pc = "idle" /\ loop # <<>> /\ CanTake("logic")
    /\ loop' = Tail(loop)
    /\ IF Head(loop) = "close"
       THEN /\ app' = [app EXCEPT !.shut = TRUE]
            /\ UNCHANGED <<logic, gil>>
       ELSE /\ logic' = [logic EXCEPT !.pc = "drain", !.task = Head(loop)]
            /\ gil' = Taken("logic")
            /\ UNCHANGED app
    /\ UNCHANGED <<logicRest, scheduled, queue, th, model, done>>

\* A closure: a read is answered, a batch or an add begun.
RunClosure ==
    /\ logic.pc = "drain" /\ queue # <<>>
    /\ LET c == Head(queue) IN
       /\ queue' = Tail(queue)
       /\ th' = (IF c.op = "read" THEN [th EXCEPT ![c.by].pc = "answered",
                                                  ![c.by].seen = done.adds[c.by]] ELSE th)
       /\ logic' = (CASE c.op = "add"  -> [logic EXCEPT !.pc = c.by, !.tmp = model.sum]
                      [] c.op = "txn"  -> [logic EXCEPT !.pc = "write", !.batch = c.batch]
                      [] c.op = "read" -> logic)
       /\ done' = [done EXCEPT !.straddled = @ \/ Straddles,
                               !.torn = @ \/ (c.op = "read" /\ Tears)]
    /\ UNCHANGED <<logicRest, gil, app, loop, scheduled, model>>

\* One write of the batch.
ApplyWrite ==
    /\ logic.pc = "write" /\ logic.batch # <<>>
    /\ model' = Written(model, logic.batch)
    /\ logic' = [logic EXCEPT !.batch = Tail(@),
                              !.pc = IF Tail(logic.batch) # <<>> THEN "write" ELSE "drain"]
    /\ done' = [done EXCEPT !.torn = @ \/ Tears]
    /\ UNCHANGED <<logicRest, gil, app, loop, scheduled, queue, th>>

\* The other half of field->set(field->get() + n).
FinishAdd ==
    /\ logic.pc \in Workers
    /\ model' = [model EXCEPT !.sum = logic.tmp + 1]
    /\ done' = [done EXCEPT !.adds[logic.pc] = @ + 1, !.total = @ + 1,
                            !.straddled = @ \/ Straddles]
    /\ logic' = [logic EXCEPT !.pc = "drain"]
    /\ UNCHANGED <<logicRest, gil, app, loop, scheduled, queue, th>>

\* Mutated EndDrain: the flag stays up.
EndDrainUp ==
    /\ logic.pc = "drain" /\ queue = <<>>
    /\ logic' = [logic EXCEPT !.pc = "idle"]
    /\ gil' = Release("logic")
    /\ UNCHANGED <<logicRest, app, loop, scheduled, queue, th, model, done>>

\* drain_queue_loop publishes, lowers the flag and looks again.
EndDrain ==
    /\ logic.pc = "drain" /\ queue = <<>>
    /\ scheduled' = FALSE
    /\ logic' = [logic EXCEPT !.pc = "idle"]
    /\ gil' = Release("logic")
    /\ UNCHANGED <<logicRest, app, loop, queue, th, model, done>>

-----------------------------------------------------------------------------
(* The thread that runs the application, and quit(). *)

runRest == <<build, hlock, direct, scheduled, queue, th, model, done>>

\* _run_headless: the claim, the flags, and the release of the GIL.
Start ==
    /\ app.runner = "out" /\ ~app.guard /\ app.runs < MaxRuns /\ CanTake("runner")
    /\ app' = [app EXCEPT !.guard = TRUE, !.quit = FALSE, !.shut = FALSE,
                          !.runner = "running", !.runs = @ + 1]
    /\ logic' = [logic EXCEPT !.pc = "setup"]
    /\ UNCHANGED <<loop, runRest, gil>>

\* _request_quit, or the delay is over.
RequestQuit ==
    /\ app.guard /\ ~app.quit /\ app.runner = "running"
    /\ app' = [app EXCEPT !.quit = TRUE]
    /\ UNCHANGED <<runRest, gil, loop, logic>>

\* final_drain_before_close: nothing to drain when setup has not come yet.
FinalDrain ==
    /\ app.runner = "running" /\ app.quit /\ hlock = Nobody
    /\ app' = [app EXCEPT !.runner = IF app.handle THEN "draining" ELSE "closing"]
    /\ loop' = Append(loop, IF app.handle THEN "final" ELSE "close")
    /\ UNCHANGED <<runRest, gil, logic>>

\* The promise is set when the drain is over; then the window closes.
CloseWindow ==
    /\ app.runner = "draining" /\ "final" \notin Range(loop)
    /\ ~(logic.task = "final" /\ logic.pc # "idle")
    /\ app' = [app EXCEPT !.runner = "closing"]
    /\ loop' = Append(loop, "close")
    /\ UNCHANGED <<runRest, gil, logic>>

\* Backend::run returned: finish() lets the loop end when it has no task left.
Finish ==
    /\ app.runner = "closing" /\ app.shut /\ loop = <<>> /\ logic.pc = "idle"
    /\ logic' = [logic EXCEPT !.pc = "off"]
    /\ app' = [app EXCEPT !.runner = "joined"]
    /\ UNCHANGED <<runRest, gil, loop>>

\* RunGuardReset, with the GIL again.  The queue went with the run.
Reset ==
    /\ app.runner = "joined" /\ CanTake("runner") /\ hlock = Nobody
    /\ app' = [app EXCEPT !.runner = "out", !.guard = FALSE, !.handle = FALSE]
    /\ queue' = <<>> /\ scheduled' = FALSE /\ loop' = <<>>
    /\ th' = [w \in Workers |-> IF th[w].pc = "post" THEN [th[w] EXCEPT !.pc = "stale"]
                                ELSE th[w]]
    /\ done' = [done EXCEPT !.owed = [w \in Workers |-> done.adds[w]]]
    /\ UNCHANGED <<build, gil, hlock, direct, logic, model>>

WorkerStep(w) ==
    \/ \E op \in {"add", "read"} : Call(w, op)
    \/ w \in Committers[build] /\ (TxnBegin(w) \/ TxnWrite(w) \/ TxnCommit(w) \/ TxnAbort(w))
    \/ Spin(w) \/ SpinEnds(w) \/ DecideDirect(w) \/ DecideClosed(w) \/ DecidePost(w)
    \/ Post(w) \/ PostGone(w) \/ Answered(w)
    \/ DirectLock(w) \/ Direct(w) \/ DirectWrite(w) \/ DirectSet(w)
    \/ Notified(w) \/ DirectReturn(w)

LogicStep == Setup \/ TakeTask \/ RunClosure \/ ApplyWrite \/ FinishAdd \/ EndDrain
RunnerStep == Start \/ FinalDrain \/ CloseWindow \/ Finish \/ Reset

PdNext ==
    \/ \E w \in Workers : WorkerStep(w)
    \/ \E w \in Workers : Yield(w) \/ Resume(w)
    \/ LogicStep \/ RunnerStep \/ RequestQuit

\* Every thread gets its turn, and a run that was asked to end ends.  Whether a
\* program calls at all, and runs or quits its application, is its own affair.
PdFairness ==
    /\ WF_pdVars(LogicStep) /\ WF_pdVars(FinalDrain \/ CloseWindow \/ Finish \/ Reset)
    /\ \A w \in Workers :
          SF_pdVars(SpinEnds(w) \/ Answered(w))
          /\ WF_pdVars(Spin(w) \/ DecideDirect(w) \/ DecideClosed(w) \/ DecidePost(w)
                      \/ Post(w) \/ PostGone(w) \/ DirectLock(w) \/ Direct(w)
                      \/ DirectWrite(w) \/ DirectSet(w) \/ Notified(w) \/ DirectReturn(w))

PdSpec == PdInit /\ [][PdNext]_pdVars /\ PdFairness

-----------------------------------------------------------------------------
(* Properties. *)

\* An add is an atomic increment: whatever mixture of posted and direct adds
\* two threads make, over several runs, none is lost.  Only an add still being
\* made directly when a run starts can meet the logic thread, and with a GIL and
\* no Python validator not even that one does.  (field_add_dispatch)
AddsAreExact ==
    /\ done.straddled => build.free \/ build.cb
    /\ ~done.straddled => model.sum = done.total

\* The two fields every transaction writes together are never seen apart nor left
\* apart, whichever blocks commit, abort, nest, are posted, dropped or made directly,
\* unless one made directly meets the logic thread of a run that starts: with a GIL
\* it cannot.  Two made directly, or one and a read, never meet.
\* (_txn_begin, _txn_commit, _txn_abort, txn_flush_batch)
TransactionsWhole ==
    /\ done.torn => build.free
    /\ ~done.torn /\ ~Tears /\ ~Halfway(logic.batch) => model.p = model.q
    /\ \A w \in Workers : th[w].op = "read" /\ th[w].pc = "direct" => ~Tears

\* A read that is answered while the application runs sees every add its own
\* thread made before it, although those adds returned before they were applied.
\* (dispatch_sync_read, field_add_dispatch)
ReadsOwnAdds ==
    \A w \in Workers :
        th[w].op = "read" /\ th[w].pc \in {"answered", "out"} /\ ~th[w].late
            => th[w].seen >= done.owed[w]

\* Adds are atomic increments, transactions are seen whole, and a thread reads what
\* it added: always with a GIL and no Python code inside, and otherwise as long as a
\* direct call and a starting run do not meet.  (field_add_dispatch, txn_flush_batch, dispatch_sync_read)
CallsAreAtomic == PdTypeOK /\ AddsAreExact /\ TransactionsWhole /\ ReadsOwnAdds

\* A call returns, however the start, the end and the restart of a run fall around
\* it, when no Python code runs inside the direct dispatch; except a read that was
\* posted after its loop had ended, and waits for ever.
\* (drain_queue_loop, dispatch_sync_read, RunGuardReset)
CallsReturn ==
    \A w \in Workers :
        (~build.cb /\ th[w].pc # "py")
            ~> (th[w].pc = "py" \/ (th[w].pc = "wait" /\ th[w].late))

\* No two threads wait for one another's lock: "No lock held across user code"
\* (doc/design/python-sdk.md).  The direct dispatch holds its mutex while the
\* observers of the field run.  (field_set_dispatch, field_add_dispatch)
NoCircularWait ==
    \A a, b \in Workers :
        ~ /\ direct = a /\ th[a].pc \in {"set", "notify"} /\ th[b].pc = "lock"
          /\ \/ ~build.free /\ gil = b
             \/ build.free /\ hlock = b /\ th[a].pc = "notify"
=============================================================================
