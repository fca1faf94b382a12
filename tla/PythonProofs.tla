----------------------------- MODULE PythonProofs -----------------------------
(***************************************************************************)
(* Calls of Python threads are atomic, for any number of threads, calls    *)
(* and runs of the application: no add is lost, no transaction is seen in  *)
(* part, and a thread reads what it added, under a GIL and, without one,   *)
(* as long as a direct call and a run that starts do not meet.  Observers  *)
(* of live handles are served, for any handles, dependencies and callbacks.*)
(***************************************************************************)
EXTENDS MCPython, FiniteSetTheorems, SequenceTheorems, TLAPS

\* Inside the direct dispatch a thread has its mutex.  With a GIL the logic thread
\* runs closures under it, and so does a thread between two writes of a batch, or
\* between the halves of a direct add unless Python code makes it yield.
LocksHeld ==
    /\ \A w \in Workers : th[w].pc \in {"direct", "set", "notify", "out"} => direct = w
    /\ ~build.free =>
          /\ logic.pc \in Workers \cup {"drain", "write"} => gil = "logic"
          /\ \A w \in Workers : th[w].pc = "direct" /\ Halfway(th[w].buf) => gil = w
          /\ ~build.cb => \A w \in Workers : th[w].pc = "set" => gil = w

\* Between the halves of an add the counter stays what it was read to be, but for
\* the one straddle there is.
HalfAdds ==
    /\ \A w \in Workers :
          th[w].pc = "set" => th[w].op = "add" /\ (done.straddled \/ th[w].tmp = model.sum)
    /\ logic.pc \in Workers => done.straddled \/ logic.tmp = model.sum

\* A batch is a sequence of pairs of writes, of one value to p and then to q.
Paired(b) ==
    \E n \in 0..Len(b) :
        /\ Len(b) = 2 * n
        /\ \A i \in 1..n : /\ b[2 * i - 1][1] = "p"
                           /\ b[2 * i][1] = "q"
                           /\ b[2 * i][2] = b[2 * i - 1][2]

\* The second write of a pair is next.
Parted(b) == Halfway(b) /\ Paired(Tail(b))

Even(m) == \E n \in 0..m : m = 2 * n

\* A mark separates two pairs, and inner blocks begin after outer ones.
Nested(t) ==
    /\ \A i \in DOMAIN t.marks : t.marks[i] <= Len(t.buf) /\ Even(t.marks[i])
    /\ \A i, j \in DOMAIN t.marks : i <= j => t.marks[i] <= t.marks[j]
    /\ t.pc # "py" /\ t.op = "txn" => t.marks = <<>>

BatchesWhole ==
    /\ \A w \in Workers :
          /\ Nested(th[w])
          /\ \/ Paired(th[w].buf)
             \/ th[w].pc = "direct" /\ th[w].op = "txn" /\ Parted(th[w].buf)
    /\ \A i \in DOMAIN queue : Paired(queue[i].batch)
    /\ Paired(logic.batch) \/ (logic.pc = "write" /\ Parted(logic.batch))

\* What is half written has left in p what it is about to write to q.
HalfWritten ==
    ~done.torn =>
        /\ \A w \in Workers : Halfway(th[w].buf) => model.p = Head(th[w].buf)[2]
        /\ Halfway(logic.batch) => model.p = Head(logic.batch)[2]

\* The logic thread lives as long as the run, and the handle is there while it
\* may run closures.
HandleCovers ==
    /\ app.runner \in {"out", "joined"} <=> logic.pc = "off"
    /\ ~app.handle => queue = <<>> /\ logic.pc \in {"off", "setup"}
    /\ \A w \in Workers : th[w].pc = "post" => app.handle

\* A read made directly, before the application closes, keeps the handle away.
ReadsDirect ==
    \A w \in Workers :
        th[w].op = "read" /\ ~th[w].late /\ th[w].pc \in {"lock", "direct"}
            => hlock = w /\ ~app.handle

\* Only a write notifies.
WritesNotify == \A w \in Workers : th[w].pc = "notify" => th[w].op # "read"

\* A read that is queued is waited for.
ReadsAwaited ==
    /\ \A i \in DOMAIN queue :
          queue[i].op = "read" => /\ th[queue[i].by].pc = "wait"
                                  /\ th[queue[i].by].op = "read"
    /\ \A i, j \in DOMAIN queue :
          queue[i].op = "read" /\ queue[j].op = "read" /\ queue[i].by = queue[j].by
             => i = j

\* c[i] is the number of adds of w from place i of the queue on: none follows a
\* read of w.
Counts(w, c) ==
    /\ c[Len(queue) + 1] = 0
    /\ \A i \in DOMAIN queue :
          /\ c[i] = c[i + 1] + (IF queue[i].by = w /\ queue[i].op = "add" THEN 1 ELSE 0)
          /\ queue[i].by = w /\ queue[i].op = "read" => c[i] = 0

\* The adds a thread is owed are applied, begun, or queued.
Owing(w) ==
    \E c \in [1..Len(queue) + 1 -> Nat] :
        /\ Counts(w, c)
        /\ done.owed[w] = done.adds[w] + c[1] + (IF logic.pc = w THEN 1 ELSE 0)

\* A read that is answered has seen them all.
ReadsExact ==
    \A w \in Workers :
        th[w].op = "read" /\ th[w].pc \in {"answered", "out"} /\ ~th[w].late
            => th[w].seen = done.adds[w] /\ done.owed[w] = done.adds[w]

DispatchInv ==
    /\ PdTypeOK
    /\ LocksHeld
    /\ HalfAdds /\ AddsAreExact
    /\ BatchesWhole /\ HalfWritten /\ TransactionsWhole
    /\ HandleCovers
    /\ ReadsDirect /\ ReadsAwaited /\ ReadsExact /\ WritesNotify
    /\ \A w \in Workers : Owing(w)
-----------------------------------------------------------------------------
(* Sequences. *)

LEMMA Appended ==
    ASSUME NEW S, NEW s \in Seq(S), NEW e \in S
    PROVE  /\ Append(s, e) \in Seq(S)
           /\ Len(Append(s, e)) = Len(s) + 1
           /\ \A i \in 1..Len(s) : Append(s, e)[i] = s[i]
           /\ Append(s, e)[Len(s) + 1] = e
  OBVIOUS

LEMMA HeadTail ==
    ASSUME NEW S, NEW s \in Seq(S), s # <<>>
    PROVE  /\ Head(s) \in S /\ Head(s) = s[1] /\ Len(s) \in Nat \ {0}
           /\ Tail(s) \in Seq(S)
           /\ Len(Tail(s)) = Len(s) - 1
           /\ \A i \in 1..(Len(s) - 1) : Tail(s)[i] = s[i + 1]
  OBVIOUS

LEMMA Cut ==
    ASSUME NEW S, NEW s \in Seq(S), NEW n \in 0..Len(s)
    PROVE  /\ SubSeq(s, 1, n) \in Seq(S)
           /\ Len(SubSeq(s, 1, n)) = n
           /\ \A i \in 1..n : SubSeq(s, 1, n)[i] = s[i]
  OBVIOUS

LEMMA FrontLast ==
    ASSUME NEW S, NEW s \in Seq(S), s # <<>>
    PROVE  /\ Front(s) \in Seq(S)
           /\ Len(s) \in Nat \ {0} /\ Len(Front(s)) = Len(s) - 1
           /\ \A i \in 1..(Len(s) - 1) : Front(s)[i] = s[i]
           /\ Last(s) = s[Len(s)] /\ Last(s) \in S
<1>1. Len(s) \in Nat \ {0} /\ Len(s) - 1 \in 0..Len(s) /\ s[Len(s)] \in S
  OBVIOUS
<1>2. QED
  BY <1>1, Cut DEF Front, Last

LEMMA TwoMore ==
    ASSUME NEW S, NEW s \in Seq(S), NEW a \in S, NEW b \in S
    PROVE  /\ s \o <<a, b>> \in Seq(S)
           /\ Len(s \o <<a, b>>) = Len(s) + 2
           /\ \A i \in 1..Len(s) : (s \o <<a, b>>)[i] = s[i]
           /\ (s \o <<a, b>>)[Len(s) + 1] = a /\ (s \o <<a, b>>)[Len(s) + 2] = b
  OBVIOUS

-----------------------------------------------------------------------------
(* What a batch writes. *)

LEMMA WrittenDoes ==
    ASSUME NEW m \in [sum : Nat, p : Stored, q : Stored], NEW b \in Batch, b # <<>>
    PROVE  /\ Written(m, b) \in [sum : Nat, p : Stored, q : Stored]
           /\ Written(m, b).sum = m.sum
           /\ b[1][1] \in {"p", "q"} /\ Head(b) = b[1]
           /\ b[1][1] = "p" => Written(m, b).p = b[1][2] /\ Written(m, b).q = m.q
           /\ b[1][1] = "q" => Written(m, b).q = b[1][2] /\ Written(m, b).p = m.p
<1>1. Head(b) \in {"p", "q"} \X Stamps /\ Head(b) = b[1]
  BY HeadTail DEF Batch
<1>2. b[1][1] \in {"p", "q"} /\ b[1][2] \in Stored
  BY <1>1 DEF Stored
<1>3. CASE b[1][1] = "p"
  <2>1. Written(m, b) = [m EXCEPT !.p = b[1][2]]
    BY <1>1, <1>3 DEF Written
  <2> QED
    BY <1>1, <1>2, <1>3, <2>1
<1>4. CASE b[1][1] = "q"
  <2>1. Written(m, b) = [m EXCEPT !.q = b[1][2]]
    BY <1>1, <1>4 DEF Written
  <2> QED
    BY <1>1, <1>2, <1>4, <2>1
<1> QED
  BY <1>2, <1>3, <1>4

LEMMA PairedIsWhole ==
    ASSUME NEW b \in Batch, Paired(b)
    PROVE  ~Halfway(b)
<1>1. PICK n \in 0..Len(b) :
        /\ Len(b) = 2 * n
        /\ \A i \in 1..n : b[2 * i - 1][1] = "p"
  BY DEF Paired
<1>2. CASE b = <<>>
  BY <1>2 DEF Halfway
<1>3. CASE b # <<>>
  <2>1. Len(b) \in Nat \ {0} /\ Head(b) = b[1]
    BY <1>3, HeadTail DEF Batch
  <2>2. 1 \in 1..n /\ 2 * 1 - 1 = 1
    BY <1>1, <2>1
  <2> QED
    BY <1>1, <2>1, <2>2 DEF Halfway
<1> QED
  BY <1>2, <1>3

\* The first write of a pair leaves the second, of the same value, and whole pairs.
LEMMA PairOpened ==
    ASSUME NEW b \in Batch, Paired(b), b # <<>>
    PROVE  /\ b[1][1] = "p" /\ Parted(Tail(b)) /\ Tail(b) # <<>>
           /\ Head(Tail(b))[2] = b[1][2]
<1> DEFINE c == Tail(b)
           d == Tail(c)
<1>1. PICK n \in 0..Len(b) :
        /\ Len(b) = 2 * n
        /\ \A i \in 1..n : /\ b[2 * i - 1][1] = "p"
                           /\ b[2 * i][1] = "q"
                           /\ b[2 * i][2] = b[2 * i - 1][2]
  BY DEF Paired
<1>2. /\ Len(b) \in Nat \ {0} /\ c \in Batch /\ Len(c) = Len(b) - 1
      /\ \A i \in 1..(Len(b) - 1) : c[i] = b[i + 1]
  BY HeadTail DEF Batch
<1>3. n \in Nat \ {0} /\ 1 \in 1..n /\ 2 * 1 - 1 = 1 /\ 2 * 1 = 2
  BY <1>1, <1>2
<1>4. b[1][1] = "p" /\ b[2][1] = "q" /\ b[2][2] = b[1][2]
  BY <1>1, <1>3
<1> HIDE DEF c
<1>5. c[1] = b[2] /\ c # <<>>
  <2>1. Len(c) # 0 /\ 1 \in 1..(Len(b) - 1)
    BY <1>1, <1>2, <1>3
  <2> QED
    BY <1>2, <2>1
<1>6. /\ Head(c) = c[1] /\ Len(d) = Len(c) - 1 /\ d \in Batch
      /\ \A i \in 1..(Len(c) - 1) : d[i] = c[i + 1]
  BY <1>2, <1>5, HeadTail DEF Batch
<1> HIDE DEF d
<1>7. n - 1 \in 0..Len(d) /\ Len(d) = 2 * (n - 1)
  BY <1>1, <1>2, <1>3, <1>6
<1>8. \A i \in 1..Len(d) : d[i] = b[i + 2]
  <2>1. \A i \in 1..Len(d) : i \in 1..(Len(c) - 1) /\ i + 1 \in 1..(Len(b) - 1)
    BY <1>2, <1>6, <1>7
  <2>2. \A i \in 1..Len(d) : (i + 1) + 1 = i + 2
    BY <1>7
  <2> QED
    BY <1>2, <1>6, <2>1, <2>2
<1>9. ASSUME NEW i \in 1..(n - 1)
      PROVE  /\ d[2 * i - 1][1] = "p" /\ d[2 * i][1] = "q"
             /\ d[2 * i][2] = d[2 * i - 1][2]
  <2>1. /\ i + 1 \in 1..n /\ 2 * (i + 1) = 2 * i + 2 /\ 2 * (i + 1) - 1 = (2 * i - 1) + 2
        /\ 2 * i \in 1..Len(d) /\ 2 * i - 1 \in 1..Len(d)
    BY <1>3, <1>7
  <2>2. d[2 * i] = b[2 * (i + 1)] /\ d[2 * i - 1] = b[2 * (i + 1) - 1]
    BY <1>8, <2>1
  <2> QED
    BY <1>1, <2>1, <2>2
<1>10. Paired(d)
  BY <1>7, <1>9 DEF Paired
<1> QED
  BY <1>4, <1>5, <1>6, <1>10 DEF Parted, Halfway, c, d

\* One write of a batch, in a counter and two fields: what it leaves, and when.
LEMMA OneWrite ==
    ASSUME NEW m \in [sum : Nat, p : Stored, q : Stored], NEW b \in Batch, b # <<>>,
           Paired(b) \/ Parted(b)
    PROVE  /\ Tail(b) \in Batch
           /\ \/ /\ ~Halfway(b) /\ Parted(Tail(b)) /\ Tail(b) # <<>>
                 /\ Written(m, b).p = Head(Tail(b))[2]
              \/ /\ Halfway(b) /\ Paired(Tail(b)) /\ ~Halfway(Tail(b))
                 /\ Written(m, b).p = m.p /\ Written(m, b).q = Head(b)[2]
<1>1. Tail(b) \in Batch
  BY HeadTail DEF Batch
<1>2. CASE Paired(b)
  BY <1>1, <1>2, PairOpened, PairedIsWhole, WrittenDoes
<1>3. CASE Parted(b)
  <2>1. b[1][1] = "q" /\ Head(b) = b[1] /\ Halfway(b) /\ Paired(Tail(b))
    BY <1>3, WrittenDoes DEF Parted, Halfway
  <2>2. ~Halfway(Tail(b))
    BY <1>1, <2>1, PairedIsWhole
  <2> QED
    BY <1>1, <2>1, <2>2, WrittenDoes
<1> QED
  BY <1>1, <1>2, <1>3

-----------------------------------------------------------------------------
(* Types. *)

LEMMA TypesInit == ASSUME ConstantsAssumption, PdInit PROVE PdTypeOK
<1>1. <<>> \in Batch /\ <<>> \in Seq(Nat) /\ 0 \in Nat /\ FALSE \in BOOLEAN
  BY DEF Batch
<1>2. th \in [Workers -> Thread]
  BY <1>1 DEF PdInit, Thread, Ops
<1>3. /\ build \in Builds /\ {gil, hlock, direct} \subseteq threads \cup {Nobody}
      /\ scheduled \in BOOLEAN /\ model \in [sum : Nat, p : Stored, q : Stored]
  BY <1>1 DEF PdInit, Stored
<1>8. queue \in Seq(Closure) /\ loop \in Seq({"drain", "final", "close"})
  BY DEF PdInit
<1>4. /\ logic \in [pc : {"off", "setup", "idle", "drain", "write"} \cup Workers,
                    task : {"drain", "final"}, tmp : Nat, batch : Batch]
      /\ done \in [adds : [Workers -> Nat], owed : [Workers -> Nat], total : Nat,
                   straddled : BOOLEAN, torn : BOOLEAN]
  BY <1>1 DEF PdInit
<1>5. 0 \in 0..MaxRuns
  BY DEF ConstantsAssumption
<1>6. app \in [guard : BOOLEAN, handle : BOOLEAN, shut : BOOLEAN, quit : BOOLEAN,
               runner : {"out", "running", "draining", "closing", "joined"},
               runs : 0..MaxRuns]
  BY <1>1, <1>5 DEF PdInit
<1>7. QED
  BY <1>2, <1>3, <1>4, <1>6, <1>8 DEF PdTypeOK

\* Most steps of a thread change its own record, and perhaps who has the GIL.
LEMMA OwnRecord ==
    ASSUME PdTypeOK, NEW w \in Workers, NEW t \in Thread, th' = [th EXCEPT ![w] = t],
           gil' \in {gil, Nobody, w}, hlock' \in {hlock, Nobody, w},
           direct' \in {direct, Nobody, w},
           UNCHANGED <<callVars, scheduled, queue, model, done>>
    PROVE  PdTypeOK'
<1>1. th' \in [Workers -> Thread]
  BY DEF PdTypeOK
<1>2. {gil', hlock', direct'} \subseteq threads \cup {Nobody}
  BY DEF PdTypeOK, threads
<1>3. UNCHANGED <<build, app, loop, logic, scheduled, queue, model, done>>
  BY DEF callVars
<1>4. QED
  BY <1>1, <1>2, <1>3 DEF PdTypeOK

LEMMA CallerTypes ==
    ASSUME ConstantsAssumption, DispatchInv, NEW w \in Workers,
           \/ \E op \in {"add", "read"} : Call(w, op)
           \/ TxnBegin(w) \/ TxnWrite(w) \/ TxnCommit(w) \/ TxnAbort(w)
    PROVE  PdTypeOK'
<1>1. PdTypeOK /\ Nested(th[w]) /\ th \in [Workers -> Thread]
  BY DEF DispatchInv, BatchesWhole, PdTypeOK
<1>2. /\ th[w] \in Thread
      /\ th[w].buf \in Batch /\ th[w].marks \in Seq(Nat) /\ th[w].calls \in Nat
      /\ <<>> \in Batch /\ <<>> \in Seq(Nat) /\ th[w].calls + 1 \in Nat /\ FALSE \in BOOLEAN
  BY <1>1 DEF Thread, Batch
<1>3. CASE \E op \in {"add", "read"} : Call(w, op)
  <2>1. PICK op \in {"add", "read"} : Call(w, op)
    BY <1>3
  <2>2. [th[w] EXCEPT !.pc = "start", !.op = op, !.calls = @ + 1, !.late = FALSE] \in Thread
    BY <1>2 DEF Thread, Ops
  <2>3. QED
    BY <1>1, <2>1, <2>2, OwnRecord DEF Call, Taken
<1>4. CASE TxnBegin(w)
  <2> DEFINE m == Append(th[w].marks, Len(th[w].buf))
  <2>1. m \in Seq(Nat)
    BY <1>2 DEF Batch
  <2>2. th' = [th EXCEPT ![w] = [th[w] EXCEPT !.marks = m, !.calls = @ + 1]]
    BY <1>1, <1>4 DEF TxnBegin
  <2> HIDE DEF m
  <2>3. [th[w] EXCEPT !.marks = m, !.calls = @ + 1] \in Thread
    BY <1>2, <2>1 DEF Thread
  <2>4. QED
    BY <1>1, <1>4, <2>2, <2>3, OwnRecord DEF TxnBegin
<1>5. CASE TxnWrite(w)
  <2> DEFINE k == <<w, th[w].calls>>
             b == th[w].buf \o <<<<"p", k>>, <<"q", k>>>>
  <2>5. k \in Stamps
    BY <1>2 DEF Stamps
  <2> HIDE DEF k
  <2>1. b \in Batch
    BY <1>2, <2>5 DEF Batch
  <2>2. th' = [th EXCEPT ![w] = [th[w] EXCEPT !.buf = b]]
    BY <1>1, <1>5 DEF TxnWrite, k
  <2> HIDE DEF b
  <2>3. [th[w] EXCEPT !.buf = b] \in Thread
    BY <1>2, <2>1 DEF Thread
  <2>4. QED
    BY <1>1, <1>5, <2>2, <2>3, OwnRecord DEF TxnWrite
<1>6. CASE TxnCommit(w)
  <2> DEFINE f == Front(th[w].marks)
  <2>1. f \in Seq(Nat)
    BY <1>2, <1>6, FrontLast DEF TxnCommit
  <2>2. /\ \/ th' = [th EXCEPT ![w] = [th[w] EXCEPT !.marks = <<>>, !.pc = "start",
                                                    !.op = "txn"]]
           \/ th' = [th EXCEPT ![w] = [th[w] EXCEPT !.marks = f]]
        /\ gil' \in {gil, Nobody, w}
        /\ UNCHANGED <<callVars, hlock, direct, scheduled, queue, model, done>>
    BY <1>1, <1>6 DEF TxnCommit, Taken
  <2> HIDE DEF f
  <2>3. /\ [th[w] EXCEPT !.marks = <<>>, !.pc = "start", !.op = "txn"] \in Thread
        /\ [th[w] EXCEPT !.marks = f] \in Thread
    BY <1>2, <2>1 DEF Thread, Ops
  <2>4. QED
    BY <1>1, <2>2, <2>3, OwnRecord
<1>7. CASE TxnAbort(w)
  <2> DEFINE f == Front(th[w].marks)
             b == IF Len(th[w].marks) = 1 THEN <<>> ELSE Kept(th[w])
  <2>1. th[w].marks # <<>> /\ UNCHANGED <<callVars, gil, hlock, direct, scheduled, queue, model, done>>
    BY <1>7 DEF TxnAbort
  <2>2. f \in Seq(Nat) /\ Last(th[w].marks) = th[w].marks[Len(th[w].marks)]
        /\ Last(th[w].marks) \in Nat
    BY <1>2, <2>1, FrontLast
  <2>3. Len(th[w].marks) \in DOMAIN th[w].marks /\ Len(th[w].buf) \in Nat
    BY <1>2, <2>1 DEF Batch
  <2>4. Last(th[w].marks) \in 0..Len(th[w].buf)
    BY <1>1, <2>2, <2>3 DEF Nested
  <2>5. b \in Batch
    BY <1>2, <2>4, Cut DEF Kept, Batch
  <2>6. th' = [th EXCEPT ![w] = [th[w] EXCEPT !.buf = b, !.marks = f]]
    BY <1>1, <1>7 DEF TxnAbort
  <2> HIDE DEF f, b
  <2>7. [th[w] EXCEPT !.buf = b, !.marks = f] \in Thread
    BY <1>2, <2>2, <2>5 DEF Thread
  <2>8. QED
    BY <1>1, <2>1, <2>6, <2>7, OwnRecord
<1>8. QED
  BY <1>3, <1>4, <1>5, <1>6, <1>7

LEMMA DispatchTypes ==
    ASSUME ConstantsAssumption, DispatchInv, NEW w \in Workers,
           \/ Spin(w) \/ SpinEnds(w) \/ DecideDirect(w) \/ DecideClosed(w) \/ DecidePost(w)
           \/ Post(w) \/ PostGone(w) \/ Answered(w)
    PROVE  PdTypeOK'
<1>1. PdTypeOK /\ th \in [Workers -> Thread]
  BY DEF DispatchInv, PdTypeOK
<1>2. /\ th[w] \in Thread /\ th[w].op \in Ops /\ th[w].buf \in Batch
      /\ <<>> \in Batch /\ TRUE \in BOOLEAN /\ 0 \in Nat
  BY <1>1 DEF Thread, Batch
<1> DEFINE back == [th[w] EXCEPT !.pc = "py", !.tmp = 0, !.seen = 0,
                                 !.buf = IF th[w].op = "txn" THEN <<>> ELSE @]
<1>3. back \in Thread /\ Back(w) = [th EXCEPT ![w] = back]
  BY <1>1, <1>2 DEF Thread, Back
<1>4. /\ \A pc \in {"spin", "start", "lock", "post", "wait", "py"} :
            [th[w] EXCEPT !.pc = pc] \in Thread
      /\ \A pc \in {"lock", "wait"}, late \in BOOLEAN :
            [th[w] EXCEPT !.pc = pc, !.late = late] \in Thread
  BY <1>2 DEF Thread
<1> HIDE DEF back
<1>5. CASE Post(w)
  <2>1. Posted(w) \in Closure
    BY <1>2 DEF Posted, Closure
  <2>2. queue' \in Seq(Closure)
    <3> HIDE DEF Closure
    <3>1. QED
      BY <1>1, <1>5, <2>1, Appended DEF Post, Enqueued, PdTypeOK
  <2>3. loop' \in Seq({"drain", "final", "close"})
    BY <1>1, <1>5 DEF Post, PdTypeOK
  <2>4. th' \in [Workers -> Thread]
    BY <1>1, <1>3, <1>4, <1>5 DEF Post
  <2>5. done' \in [adds : [Workers -> Nat], owed : [Workers -> Nat], total : Nat,
                   straddled : BOOLEAN, torn : BOOLEAN]
    <3> DEFINE n == done.owed[w] + (IF th[w].op = "add" THEN 1 ELSE 0)
    <3>1. done \in [adds : [Workers -> Nat], owed : [Workers -> Nat], total : Nat,
                       straddled : BOOLEAN, torn : BOOLEAN]
      BY <1>1 DEF PdTypeOK
    <3>2. n \in Nat
      BY <3>1
    <3>3. done' = [done EXCEPT !.owed[w] = n]
      BY <3>1, <1>5 DEF Post
    <3> HIDE DEF n
    <3>4. QED
      BY <3>1, <3>2, <3>3
  <2>6. /\ scheduled' \in BOOLEAN /\ UNCHANGED <<build, app, logic, hlock, direct, model>>
        /\ {gil', hlock', direct'} \subseteq threads \cup {Nobody}
    BY <1>1, <1>5 DEF Post, Release, PdTypeOK
  <2>7. QED
    BY <1>1, <2>2, <2>3, <2>4, <2>5, <2>6 DEF PdTypeOK
<1>6. \E t \in Thread : th' = [th EXCEPT ![w] = t] \/ Post(w)
  BY <1>1, <1>3, <1>4 DEF Spin, SpinEnds, DecideDirect, DecideClosed, DecidePost, PostGone,
     Answered, Go
<1>7. \/ Post(w)
      \/ /\ gil' \in {gil, Nobody, w} /\ hlock' \in {hlock, Nobody, w}
         /\ UNCHANGED <<callVars, direct, scheduled, queue, model, done>>
  BY DEF Spin, SpinEnds, DecideDirect, DecideClosed, DecidePost, PostGone, Answered, Taken, Release
<1>8. QED
  BY <1>1, <1>5, <1>6, <1>7, OwnRecord

LEMMA DirectTypes ==
    ASSUME ConstantsAssumption, DispatchInv, NEW w \in Workers,
           \/ DirectLock(w) \/ Direct(w) \/ DirectWrite(w) \/ DirectSet(w)
           \/ Notified(w) \/ DirectReturn(w) \/ Yield(w) \/ Resume(w)
    PROVE  PdTypeOK'
<1>1. PdTypeOK /\ th \in [Workers -> Thread] /\ model \in [sum : Nat, p : Stored, q : Stored]
      /\ done \in [adds : [Workers -> Nat], owed : [Workers -> Nat], total : Nat,
                   straddled : BOOLEAN, torn : BOOLEAN]
  BY DEF DispatchInv, PdTypeOK
<1>2. /\ th[w] \in Thread /\ th[w].op \in Ops /\ th[w].buf \in Batch /\ th[w].tmp \in Nat
      /\ <<>> \in Batch /\ 0 \in Nat
  BY <1>1 DEF Thread, Batch
<1>3. MarkedTorn \in [adds : [Workers -> Nat], owed : [Workers -> Nat], total : Nat,
                       straddled : BOOLEAN, torn : BOOLEAN]
  <2> DEFINE b == done.torn \/ Halfway(logic.batch)
  <2>1. b \in BOOLEAN /\ MarkedTorn = [done EXCEPT !.torn = b]
    BY <1>1 DEF MarkedTorn
  <2> HIDE DEF b
  <2> QED
    BY <1>1, <2>1
<1>4. /\ \A pc \in {"direct", "notify", "out"} : [th[w] EXCEPT !.pc = pc] \in Thread
      /\ [th[w] EXCEPT !.pc = "out", !.seen = done.adds[w]] \in Thread
      /\ [th[w] EXCEPT !.pc = "set", !.tmp = model.sum] \in Thread
      /\ [th[w] EXCEPT !.pc = "py", !.tmp = 0, !.seen = 0,
                       !.buf = IF th[w].op = "txn" THEN <<>> ELSE @] \in Thread
  BY <1>1, <1>2 DEF Thread
<1>5. CASE DirectLock(w) \/ Notified(w) \/ DirectReturn(w)
  <2>1. \E t \in Thread : th' = [th EXCEPT ![w] = t]
    BY <1>1, <1>4, <1>5, ZenonT(30) DEF DirectLock, Notified, DirectReturn, Go, Back
  <2>2. /\ gil' \in {gil, Nobody, w} /\ hlock' \in {hlock, Nobody, w}
        /\ direct' \in {direct, Nobody, w}
        /\ UNCHANGED <<callVars, scheduled, queue, model, done>>
    BY <1>5 DEF DirectLock, Notified, DirectReturn, Release
  <2>3. QED
    BY <1>1, <2>1, <2>2, OwnRecord
<1>6. CASE Yield(w) \/ Resume(w)
  BY <1>1, <1>2, <1>6, SMTT(30) DEF Yield, Resume, PdTypeOK, callVars, threads
<1>7. CASE Direct(w)
  <2>1. th' \in [Workers -> Thread]
    BY <1>1, <1>2, <1>4, <1>7 DEF Direct
  <2>2. done' \in {done, MarkedTorn}
    BY <1>7 DEF Direct
  <2>3. UNCHANGED <<callVars, gil, hlock, direct, scheduled, queue, model>>
    BY <1>7 DEF Direct
  <2>4. QED
    BY <1>1, <1>3, <2>1, <2>2, <2>3 DEF PdTypeOK, callVars
<1>10. CASE DirectWrite(w)
  <2> DEFINE b == th[w].buf
             pc == IF Tail(b) # <<>> THEN "direct" ELSE IF build.cb THEN "notify" ELSE "out"
  <2>1. b # <<>> /\ th' = [th EXCEPT ![w] = [th[w] EXCEPT !.buf = Tail(b), !.pc = pc]]
    BY <1>1, <1>10 DEF DirectWrite
  <2>2. Tail(b) \in Batch
    BY <1>2, <2>1, HeadTail DEF Batch
  <2>5. pc \in {"direct", "notify", "out"}
    OBVIOUS
  <2> DEFINE rest == Tail(b)
  <2> HIDE DEF b, pc, rest
  <2>6. [th[w] EXCEPT !.buf = rest, !.pc = pc] \in Thread
    BY <1>2, <2>2, <2>5 DEF Thread, rest
  <2>7. th' \in [Workers -> Thread]
    BY <1>1, <2>1, <2>6 DEF rest
  <2>3. model' \in [sum : Nat, p : Stored, q : Stored]
    BY <1>1, <1>2, <1>10, <2>1, WrittenDoes DEF DirectWrite, b
  <2>4. done' = MarkedTorn /\ UNCHANGED <<callVars, gil, hlock, direct, scheduled, queue>>
    BY <1>10 DEF DirectWrite
  <2> QED
    BY <1>1, <1>3, <2>3, <2>4, <2>7 DEF PdTypeOK, callVars
<1>8. CASE DirectSet(w)
  <2>1. th' \in [Workers -> Thread]
    BY <1>1, <1>4, <1>8 DEF DirectSet, Go
  <2>2. model' \in [sum : Nat, p : Stored, q : Stored]
    <3>1. th[w].tmp + 1 \in Nat /\ model' = [model EXCEPT !.sum = th[w].tmp + 1]
      BY <1>2, <1>8 DEF DirectSet
    <3>2. QED
      BY <1>1, <3>1
  <2>3. done' \in [adds : [Workers -> Nat], owed : [Workers -> Nat], total : Nat,
                   straddled : BOOLEAN, torn : BOOLEAN]
    <3> DEFINE a == done.adds[w] + 1
               o == done.owed[w] + 1
               n == done.total + 1
               b == done.straddled \/ logic.pc \in Workers
    <3>1. a \in Nat /\ o \in Nat /\ n \in Nat /\ b \in BOOLEAN
      BY <1>1
    <3>2. done' = [done EXCEPT !.adds = [@ EXCEPT ![w] = a], !.owed = [@ EXCEPT ![w] = o],
                               !.total = n, !.straddled = b]
      BY <1>1, <1>8 DEF DirectSet, Marked
    <3> HIDE DEF a, o, n, b
    <3>3. QED
      BY <1>1, <3>1, <3>2
  <2>4. UNCHANGED <<callVars, gil, hlock, direct, scheduled, queue>>
    BY <1>8 DEF DirectSet
  <2>5. QED
    BY <1>1, <2>1, <2>2, <2>3, <2>4, SMTT(30) DEF PdTypeOK, callVars
<1>9. QED
  BY <1>5, <1>6, <1>7, <1>8, <1>10

LEMMA LogicTypes ==
    ASSUME ConstantsAssumption, DispatchInv, LogicStep
    PROVE  PdTypeOK'
<1>1. /\ PdTypeOK /\ th \in [Workers -> Thread] /\ model \in [sum : Nat, p : Stored, q : Stored]
      /\ queue \in Seq(Closure)
      /\ logic \in [pc : {"off", "setup", "idle", "drain", "write"} \cup Workers,
                    task : {"drain", "final"}, tmp : Nat, batch : Batch]
      /\ done \in [adds : [Workers -> Nat], owed : [Workers -> Nat], total : Nat,
                   straddled : BOOLEAN, torn : BOOLEAN]
  BY DEF DispatchInv, PdTypeOK
<1>2. CASE Setup
  BY <1>1, <1>2 DEF Setup, logicRest, PdTypeOK
<1>3. CASE TakeTask
  <2>1. loop \in Seq({"drain", "final", "close"}) /\ loop # <<>>
    BY <1>1, <1>3 DEF TakeTask, PdTypeOK
  <2>2. loop' \in Seq({"drain", "final", "close"}) /\ Head(loop) \in {"drain", "final", "close"}
    BY <1>3, <2>1, HeadTail DEF TakeTask
  <2>3. logic' \in [pc : {"off", "setup", "idle", "drain", "write"} \cup Workers,
                    task : {"drain", "final"}, tmp : Nat, batch : Batch]
    BY <1>1, <1>3, <2>2 DEF TakeTask
  <2>4. /\ app' = app \/ app' = [app EXCEPT !.shut = TRUE]
        /\ gil' \in threads \cup {Nobody}
        /\ UNCHANGED <<logicRest, scheduled, queue, th, model, done>>
    BY <1>1, <1>3 DEF TakeTask, Taken, PdTypeOK, threads
  <2>5. QED
    BY <1>1, <2>2, <2>3, <2>4, ZenonT(30) DEF PdTypeOK, logicRest
<1>4. CASE RunClosure
  <2> DEFINE c == Head(queue)
  <2>1. c \in Closure /\ queue' \in Seq(Closure) /\ c = queue[1] /\ 1 \in DOMAIN queue
    BY <1>1, <1>4, HeadTail DEF RunClosure
  <2>2. c.by \in Workers /\ c.batch \in Batch /\ c.op \in Ops
    BY <2>1 DEF Closure
  <2>4. th' \in [Workers -> Thread]
    <3>1. [th[c.by] EXCEPT !.pc = "answered", !.seen = done.adds[c.by]] \in Thread
      <4>1. th[c.by] \in Thread /\ done.adds[c.by] \in Nat
        BY <1>1, <2>2
      <4>2. \A t \in Thread, n \in Nat : [t EXCEPT !.pc = "answered", !.seen = n] \in Thread
        BY DEF Thread
      <4>3. QED
        BY <4>1, <4>2
    <3>2. \/ th' = th
          \/ th' = [th EXCEPT ![c.by] = [th[c.by] EXCEPT !.pc = "answered",
                                                         !.seen = done.adds[c.by]]]
      BY <1>1, <1>4, <2>2 DEF RunClosure
    <3>3. QED
      BY <1>1, <2>2, <3>1, <3>2
  <2>5. logic' \in [pc : {"off", "setup", "idle", "drain", "write"} \cup Workers,
                    task : {"drain", "final"}, tmp : Nat, batch : Batch]
    BY <1>1, <1>4, <2>2 DEF RunClosure, Ops
  <2>3. done' \in [adds : [Workers -> Nat], owed : [Workers -> Nat], total : Nat,
                   straddled : BOOLEAN, torn : BOOLEAN]
    <3> DEFINE a == done.straddled \/ Straddles
               b == done.torn \/ (c.op = "read" /\ Tears)
    <3>1. a \in BOOLEAN /\ b \in BOOLEAN
      BY <1>1
    <3>2. done' = [done EXCEPT !.straddled = a, !.torn = b]
      BY <1>1, <1>4 DEF RunClosure
    <3> HIDE DEF a, b
    <3> QED
      BY <1>1, <3>1, <3>2
  <2>6. UNCHANGED <<logicRest, gil, app, loop, scheduled, model>>
    BY <1>4 DEF RunClosure
  <2>7. QED
    BY <1>1, <2>1, <2>3, <2>4, <2>5, <2>6 DEF PdTypeOK, logicRest
<1>8. CASE ApplyWrite
  <2> DEFINE rest == Tail(logic.batch)
             pc == IF rest # <<>> THEN "write" ELSE "drain"
             b == done.torn \/ Tears
  <2>1. /\ logic.batch # <<>> /\ logic.batch \in Batch
        /\ logic' = [logic EXCEPT !.batch = rest, !.pc = pc]
        /\ model' = Written(model, logic.batch)
        /\ done' = [done EXCEPT !.torn = b]
        /\ UNCHANGED <<logicRest, gil, app, loop, scheduled, queue, th>>
    BY <1>1, <1>8 DEF ApplyWrite
  <2>2. rest \in Batch /\ pc \in {"write", "drain"} /\ b \in BOOLEAN
    BY <1>1, <2>1, HeadTail DEF Batch
  <2>3. model' \in [sum : Nat, p : Stored, q : Stored]
    BY <1>1, <2>1, WrittenDoes
  <2> HIDE DEF rest, pc, b
  <2>4. /\ logic' \in [pc : {"off", "setup", "idle", "drain", "write"} \cup Workers,
                       task : {"drain", "final"}, tmp : Nat, batch : Batch]
        /\ done' \in [adds : [Workers -> Nat], owed : [Workers -> Nat], total : Nat,
                      straddled : BOOLEAN, torn : BOOLEAN]
    BY <1>1, <2>1, <2>2
  <2> QED
    BY <1>1, <2>1, <2>3, <2>4 DEF PdTypeOK, logicRest
<1>5. CASE FinishAdd
  <2> DEFINE w == logic.pc
             a == done.adds[w] + 1
             n == done.total + 1
             s == logic.tmp + 1
             b == done.straddled \/ Straddles
  <2>1. w \in Workers /\ a \in Nat /\ n \in Nat /\ s \in Nat /\ b \in BOOLEAN
    BY <1>1, <1>5 DEF FinishAdd
  <2>2. /\ done' = [done EXCEPT !.adds = [@ EXCEPT ![w] = a], !.total = n, !.straddled = b]
        /\ model' = [model EXCEPT !.sum = s]
        /\ logic' = [logic EXCEPT !.pc = "drain"]
        /\ UNCHANGED <<logicRest, gil, app, loop, scheduled, queue, th>>
    BY <1>1, <1>5 DEF FinishAdd
  <2> HIDE DEF w, a, n, s, b
  <2>3. /\ done' \in [adds : [Workers -> Nat], owed : [Workers -> Nat], total : Nat,
                      straddled : BOOLEAN, torn : BOOLEAN]
        /\ model' \in [sum : Nat, p : Stored, q : Stored]
        /\ logic' \in [pc : {"off", "setup", "idle", "drain", "write"} \cup Workers,
                       task : {"drain", "final"}, tmp : Nat, batch : Batch]
    BY <1>1, <2>1, <2>2
  <2>4. QED
    BY <1>1, <2>2, <2>3 DEF PdTypeOK, logicRest
<1>6. CASE EndDrain
  BY <1>1, <1>6 DEF EndDrain, PdTypeOK, logicRest, Release
<1>7. QED
  BY <1>2, <1>3, <1>4, <1>5, <1>6, <1>8 DEF LogicStep

LEMMA RunnerTypes ==
    ASSUME ConstantsAssumption, DispatchInv, RunnerStep \/ RequestQuit
    PROVE  PdTypeOK'
<1> DEFINE A == [guard : BOOLEAN, handle : BOOLEAN, shut : BOOLEAN, quit : BOOLEAN,
                 runner : {"out", "running", "draining", "closing", "joined"},
                 runs : 0..MaxRuns]
           L == {"drain", "final", "close"}
<1>1. PdTypeOK /\ app \in A /\ loop \in Seq(L) /\ MaxRuns \in Nat
      /\ th \in [Workers -> Thread]
      /\ done \in [adds : [Workers -> Nat], owed : [Workers -> Nat], total : Nat,
                   straddled : BOOLEAN, torn : BOOLEAN]
  BY DEF DispatchInv, PdTypeOK, ConstantsAssumption
<1>2. CASE Start
  <2>1. app' \in A
    <3>1. app.runs + 1 \in 0..MaxRuns
      BY <1>1, <1>2 DEF Start
    <3>2. QED
      BY <1>1, <1>2, <3>1 DEF Start
  <2>2. UNCHANGED <<loop, runRest, gil>> /\ logic' = [logic EXCEPT !.pc = "setup"]
    BY <1>2 DEF Start
  <2>3. QED
    BY <1>1, <2>1, <2>2 DEF PdTypeOK, runRest
<1>3. CASE RequestQuit
  BY <1>1, <1>3 DEF RequestQuit, PdTypeOK, runRest
<1>4. CASE FinalDrain \/ CloseWindow
  <2>1. app' \in A
    BY <1>1, <1>4 DEF FinalDrain, CloseWindow
  <2>2. \E e \in L : loop' = Append(loop, e)
    BY <1>4 DEF FinalDrain, CloseWindow
  <2>3. loop' \in Seq(L)
    BY <1>1, <2>2, Appended
  <2>4. UNCHANGED <<runRest, gil, logic>>
    BY <1>4 DEF FinalDrain, CloseWindow
  <2>5. QED
    BY <1>1, <2>1, <2>3, <2>4 DEF PdTypeOK, runRest
<1>5. CASE Finish
  BY <1>1, <1>5 DEF Finish, PdTypeOK, runRest
<1>6. CASE Reset
  <2>1. loop' = <<>> /\ queue' = <<>> /\ scheduled' = FALSE /\ app' \in A
    BY <1>1, <1>6 DEF Reset
  <2>8. \A S : <<>> \in Seq(S)
    OBVIOUS
  <2>7. loop' \in Seq(L) /\ queue' \in Seq(Closure) /\ scheduled' \in BOOLEAN
    BY <2>1, <2>8
  <2>2. \A t \in Thread : [t EXCEPT !.pc = "stale"] \in Thread
    BY DEF Thread
  <2>3. th' \in [Workers -> Thread]
    BY <1>1, <1>6, <2>2 DEF Reset
  <2>4. done' \in [adds : [Workers -> Nat], owed : [Workers -> Nat], total : Nat,
                   straddled : BOOLEAN, torn : BOOLEAN]
    BY <1>1, <1>6 DEF Reset
  <2>5. UNCHANGED <<build, gil, hlock, direct, logic, model>>
    BY <1>6 DEF Reset
  <2>6. QED
    BY <1>1, <2>1, <2>7, <2>3, <2>4, <2>5 DEF PdTypeOK
<1>7. QED
  BY <1>2, <1>3, <1>4, <1>5, <1>6 DEF RunnerStep

LEMMA TypesStep ==
    ASSUME ConstantsAssumption, DispatchInv, [PdNext]_pdVars
    PROVE  PdTypeOK'
<1>1. CASE UNCHANGED pdVars
  BY <1>1 DEF DispatchInv, PdTypeOK, pdVars
<1>2. CASE PdNext
  BY <1>2, CallerTypes, DispatchTypes, DirectTypes, LogicTypes, RunnerTypes
     DEF PdNext, WorkerStep
<1>3. QED
  BY <1>1, <1>2

-----------------------------------------------------------------------------
(* What the steps of a thread do to the threads' records. *)

Same(v) == \A w \in Workers \ {v} : th'[w] = th[w]

\* Only the place in the code changes.
Moves(v, pc) ==
    /\ Same(v) /\ th'[v].pc = pc
    /\ th'[v].op = th[v].op /\ th'[v].tmp = th[v].tmp /\ th'[v].buf = th[v].buf
    /\ th'[v].marks = th[v].marks /\ th'[v].seen = th[v].seen /\ th'[v].late = th[v].late

LEMMA GoMoves ==
    ASSUME PdTypeOK, NEW v \in Workers, NEW pc, Go(v, pc)
    PROVE  Moves(v, pc)
<1>1. th \in [Workers -> Thread] /\ th[v] \in Thread
  BY DEF PdTypeOK
<1>2. th' = [th EXCEPT ![v] = [th[v] EXCEPT !.pc = pc]]
  BY <1>1 DEF Go
<1>3. th'[v] = [th[v] EXCEPT !.pc = pc] /\ Same(v)
  BY <1>1, <1>2 DEF Same
<1>4. QED
  BY <1>1, <1>3 DEF Moves, Thread

\* A call is over.
Returns(v) ==
    /\ Same(v) /\ th'[v].pc = "py" /\ th'[v].op = th[v].op
    /\ th'[v].buf = (IF th[v].op = "txn" THEN <<>> ELSE th[v].buf)
    /\ th'[v].marks = th[v].marks

LEMMA BackReturns ==
    ASSUME PdTypeOK, NEW v \in Workers, th' = Back(v)
    PROVE  Returns(v)
<1>1. th \in [Workers -> Thread] /\ th[v] \in Thread
  BY DEF PdTypeOK
<1> DEFINE t == [th[v] EXCEPT !.pc = "py", !.tmp = 0, !.seen = 0,
                              !.buf = IF th[v].op = "txn" THEN <<>> ELSE @]
<1>2. th' = [th EXCEPT ![v] = t]
  BY <1>1 DEF Back
<1>3. th'[v] = t /\ Same(v)
  BY <1>1, <1>2 DEF Same
<1>4. QED
  BY <1>1, <1>3 DEF Returns, Thread

LEMMA CallDoes ==
    ASSUME PdTypeOK, NEW v \in Workers, NEW op, Call(v, op)
    PROVE  /\ Same(v) /\ th'[v].pc = "start" /\ th'[v].op = op /\ th'[v].late = FALSE
           /\ th'[v].buf = th[v].buf /\ th'[v].marks = th[v].marks
<1>1. th \in [Workers -> Thread] /\ th[v] \in Thread
  BY DEF PdTypeOK
<1> DEFINE t == [th[v] EXCEPT !.pc = "start", !.op = op, !.calls = @ + 1, !.late = FALSE]
<1>2. th' = [th EXCEPT ![v] = t]
  BY <1>1 DEF Call
<1>3. th'[v] = t /\ Same(v)
  BY <1>1, <1>2 DEF Same
<1>4. QED
  BY <1>1, <1>3 DEF Thread

\* Inside a transaction's block: between calls.
Edits(v, buf, marks) ==
    /\ Same(v) /\ th[v].pc = "py" /\ th'[v].pc = "py" /\ th'[v].op = th[v].op
    /\ th'[v].buf = buf /\ th'[v].marks = marks

LEMMA BlockDoes ==
    ASSUME PdTypeOK, NEW v \in Workers
    PROVE  /\ TxnBegin(v) => Edits(v, th[v].buf, Append(th[v].marks, Len(th[v].buf)))
           /\ TxnWrite(v) =>
                 \E k \in Stamps : Edits(v, th[v].buf \o <<<<"p", k>>, <<"q", k>>>>,
                                          th[v].marks)
           /\ TxnAbort(v) =>
                 Edits(v, IF Len(th[v].marks) = 1 THEN <<>> ELSE Kept(th[v]),
                       Front(th[v].marks))
           /\ TxnCommit(v) =>
                 \/ Edits(v, th[v].buf, Front(th[v].marks))
                 \/ /\ Same(v) /\ th[v].pc = "py" /\ th'[v].pc = "start"
                    /\ th'[v].op = "txn" /\ th'[v].marks = <<>> /\ th'[v].buf = th[v].buf
<1>1. th \in [Workers -> Thread] /\ th[v] \in Thread
  BY DEF PdTypeOK
<1>2. ASSUME NEW b, NEW m, NEW c,
             th' = [th EXCEPT ![v] = [th[v] EXCEPT !.buf = b, !.marks = m, !.calls = c]],
             th[v].pc = "py"
      PROVE  Edits(v, b, m)
  <2>1. th'[v] = [th[v] EXCEPT !.buf = b, !.marks = m, !.calls = c] /\ Same(v)
    BY <1>1, <1>2 DEF Same
  <2>2. QED
    BY <1>1, <1>2, <2>1 DEF Edits, Thread
<1>3. ASSUME TxnBegin(v)
      PROVE  Edits(v, th[v].buf, Append(th[v].marks, Len(th[v].buf)))
  <2> DEFINE m == Append(th[v].marks, Len(th[v].buf))
  <2>1. th' = [th EXCEPT ![v] = [th[v] EXCEPT !.marks = m, !.calls = @ + 1]]
    BY <1>1, <1>3 DEF TxnBegin
  <2> HIDE DEF m
  <2>2. [th[v] EXCEPT !.marks = m, !.calls = @ + 1]
           = [th[v] EXCEPT !.buf = th[v].buf, !.marks = m, !.calls = th[v].calls + 1]
    BY <1>1 DEF Thread
  <2>3. Edits(v, th[v].buf, m)
    BY <1>2, <1>3, <2>1, <2>2 DEF TxnBegin
  <2>4. QED
    BY <2>3 DEF m
<1>4. ASSUME TxnWrite(v)
      PROVE  \E k \in Stamps : Edits(v, th[v].buf \o <<<<"p", k>>, <<"q", k>>>>,
                                      th[v].marks)
  <2> DEFINE k == <<v, th[v].calls>>
             b == th[v].buf \o <<<<"p", k>>, <<"q", k>>>>
  <2>1. th' = [th EXCEPT ![v] = [th[v] EXCEPT !.buf = b]]
    BY <1>1, <1>4 DEF TxnWrite
  <2>5. k \in Stamps
    BY <1>1 DEF Stamps, Thread
  <2> HIDE DEF b
  <2>2. [th[v] EXCEPT !.buf = b]
           = [th[v] EXCEPT !.buf = b, !.marks = th[v].marks, !.calls = th[v].calls]
    BY <1>1 DEF Thread
  <2>3. Edits(v, b, th[v].marks)
    BY <1>2, <1>4, <2>1, <2>2 DEF TxnWrite
  <2> HIDE DEF k
  <2>4. QED
    BY <2>3, <2>5 DEF b
<1>5. ASSUME TxnAbort(v)
      PROVE  Edits(v, IF Len(th[v].marks) = 1 THEN <<>> ELSE Kept(th[v]),
                   Front(th[v].marks))
  <2> DEFINE b == IF Len(th[v].marks) = 1 THEN <<>> ELSE Kept(th[v])
             m == Front(th[v].marks)
  <2>1. th' = [th EXCEPT ![v] = [th[v] EXCEPT !.buf = b, !.marks = m]]
    BY <1>1, <1>5 DEF TxnAbort
  <2> HIDE DEF b, m
  <2>2. [th[v] EXCEPT !.buf = b, !.marks = m]
           = [th[v] EXCEPT !.buf = b, !.marks = m, !.calls = th[v].calls]
    BY <1>1 DEF Thread
  <2>3. Edits(v, b, m)
    BY <1>2, <1>5, <2>1, <2>2 DEF TxnAbort
  <2>4. QED
    BY <2>3 DEF b, m
<1>6. ASSUME TxnCommit(v)
      PROVE  \/ Edits(v, th[v].buf, Front(th[v].marks))
             \/ /\ Same(v) /\ th[v].pc = "py" /\ th'[v].pc = "start"
                /\ th'[v].op = "txn" /\ th'[v].marks = <<>> /\ th'[v].buf = th[v].buf
  <2> DEFINE m == Front(th[v].marks)
  <2>1. \/ th' = [th EXCEPT ![v] = [th[v] EXCEPT !.marks = m]]
        \/ th' = [th EXCEPT ![v] = [th[v] EXCEPT !.marks = <<>>, !.pc = "start",
                                                 !.op = "txn"]]
    BY <1>1, <1>6 DEF TxnCommit
  <2> HIDE DEF m
  <2>2. [th[v] EXCEPT !.marks = m]
           = [th[v] EXCEPT !.buf = th[v].buf, !.marks = m, !.calls = th[v].calls]
    BY <1>1 DEF Thread
  <2>3. CASE th' = [th EXCEPT ![v] = [th[v] EXCEPT !.marks = m]]
    <3>1. Edits(v, th[v].buf, m)
      BY <1>2, <1>6, <2>2, <2>3 DEF TxnCommit
    <3>2. QED
      BY <3>1 DEF m
  <2>4. CASE th' = [th EXCEPT ![v] = [th[v] EXCEPT !.marks = <<>>, !.pc = "start",
                                                   !.op = "txn"]]
    <3>1. th'[v] = [th[v] EXCEPT !.marks = <<>>, !.pc = "start", !.op = "txn"] /\ Same(v)
      BY <1>1, <2>4 DEF Same
    <3>2. QED
      BY <1>1, <1>6, <3>1 DEF Thread, TxnCommit
  <2>5. QED
    BY <2>1, <2>3, <2>4
<1>7. QED
  BY <1>3, <1>4, <1>5, <1>6

\* A read is to be made directly after the close, or waits for its answer.
Turns(v, pc, late) ==
    /\ Same(v) /\ th'[v].pc = pc /\ th'[v].late = late /\ th'[v].op = th[v].op
    /\ th'[v].buf = th[v].buf /\ th'[v].marks = th[v].marks

LEMMA TurnsDoes ==
    ASSUME PdTypeOK, NEW v \in Workers, NEW pc, NEW late,
           th' = [th EXCEPT ![v].pc = pc, ![v].late = late]
    PROVE  Turns(v, pc, late)
<1>1. th \in [Workers -> Thread] /\ th[v] \in Thread
  BY DEF PdTypeOK
<1>2. th' = [th EXCEPT ![v] = [th[v] EXCEPT !.pc = pc, !.late = late]]
  BY <1>1
<1>3. th'[v] = [th[v] EXCEPT !.pc = pc, !.late = late] /\ Same(v)
  BY <1>1, <1>2 DEF Same
<1>4. QED
  BY <1>1, <1>3 DEF Turns, Thread

LEMMA PostDoes ==
    ASSUME PdTypeOK, NEW v \in Workers, Post(v)
    PROVE  IF th[v].op = "read" THEN \E late : Turns(v, "wait", late) ELSE Returns(v)
  BY TurnsDoes, BackReturns DEF Post

\* A read is over, and has seen n adds.
Sees(v, pc, n) ==
    /\ Same(v) /\ th'[v].pc = pc /\ th'[v].seen = n /\ th'[v].op = th[v].op
    /\ th'[v].late = th[v].late /\ th'[v].buf = th[v].buf /\ th'[v].marks = th[v].marks

\* An add has read the counter.
HalfDone(v) ==
    /\ Same(v) /\ th'[v].pc = "set" /\ th'[v].tmp = model.sum /\ th'[v].op = th[v].op
    /\ th'[v].buf = th[v].buf /\ th'[v].marks = th[v].marks

LEMMA SeesDoes ==
    ASSUME PdTypeOK, NEW v \in Workers, NEW pc, NEW n,
           th' = [th EXCEPT ![v].pc = pc, ![v].seen = n]
    PROVE  Sees(v, pc, n)
<1>1. th \in [Workers -> Thread] /\ th[v] \in Thread
  BY DEF PdTypeOK
<1>2. th' = [th EXCEPT ![v] = [th[v] EXCEPT !.pc = pc, !.seen = n]]
  BY <1>1
<1>3. th'[v] = [th[v] EXCEPT !.pc = pc, !.seen = n] /\ Same(v)
  BY <1>1, <1>2 DEF Same
<1>4. QED
  BY <1>1, <1>3 DEF Sees, Thread

LEMMA DirectDoes ==
    ASSUME PdTypeOK, NEW v \in Workers, Direct(v)
    PROVE  \/ /\ th[v].op = "read" /\ Sees(v, "out", done.adds[v])
           \/ /\ th[v].op = "add" /\ HalfDone(v)
<1>1. th \in [Workers -> Thread] /\ th[v] \in Thread /\ th[v].op \in Ops
  BY DEF PdTypeOK, Thread
<1>2. CASE th[v].op = "read"
  BY <1>1, <1>2, SeesDoes DEF Direct
<1>3. CASE th[v].op = "add"
  <2>1. th' = [th EXCEPT ![v] = [th[v] EXCEPT !.pc = "set", !.tmp = model.sum]]
    BY <1>1, <1>3 DEF Direct
  <2>2. th'[v] = [th[v] EXCEPT !.pc = "set", !.tmp = model.sum] /\ Same(v)
    BY <1>1, <2>1 DEF Same
  <2>3. QED
    BY <1>1, <1>3, <2>2 DEF HalfDone, Thread
<1>5. QED
  BY <1>1, <1>2, <1>3 DEF Ops, Direct

\* A batch is one write shorter.
Writes(v) ==
    /\ Same(v) /\ th[v].pc = "direct" /\ th[v].op = "txn" /\ th[v].buf # <<>>
    /\ th'[v].buf = Tail(th[v].buf)
    /\ IF Tail(th[v].buf) # <<>> THEN th'[v].pc = "direct" ELSE th'[v].pc \in {"notify", "out"}
    /\ th'[v].op = th[v].op /\ th'[v].marks = th[v].marks

LEMMA WriteDoes ==
    ASSUME PdTypeOK, NEW v \in Workers, DirectWrite(v)
    PROVE  Writes(v)
<1>1. th \in [Workers -> Thread] /\ th[v] \in Thread
  BY DEF PdTypeOK
<1> DEFINE b == Tail(th[v].buf)
           pc == IF Tail(th[v].buf) # <<>> THEN "direct"
                 ELSE IF build.cb THEN "notify" ELSE "out"
<1>2. th' = [th EXCEPT ![v] = [th[v] EXCEPT !.buf = b, !.pc = pc]]
  BY <1>1 DEF DirectWrite
<1>5. IF b # <<>> THEN pc = "direct" ELSE pc \in {"notify", "out"}
  OBVIOUS
<1> HIDE DEF b, pc
<1>3. th'[v] = [th[v] EXCEPT !.buf = b, !.pc = pc] /\ Same(v)
  BY <1>1, <1>2 DEF Same
<1>4. th'[v].buf = b /\ th'[v].pc = pc /\ th'[v].op = th[v].op /\ th'[v].marks = th[v].marks
  BY <1>1, <1>3 DEF Thread
<1> QED
  BY <1>3, <1>4, <1>5 DEF Writes, DirectWrite, b

LEMMA ResetDoes ==
    ASSUME PdTypeOK, Reset, NEW w \in Workers
    PROVE  /\ th'[w].pc = (IF th[w].pc = "post" THEN "stale" ELSE th[w].pc)
           /\ th'[w].op = th[w].op /\ th'[w].tmp = th[w].tmp /\ th'[w].buf = th[w].buf
           /\ th'[w].marks = th[w].marks /\ th'[w].seen = th[w].seen
           /\ th'[w].late = th[w].late
<1>1. th[w] \in Thread
  BY DEF PdTypeOK
<1>2. th'[w] = (IF th[w].pc = "post" THEN [th[w] EXCEPT !.pc = "stale"] ELSE th[w])
  BY DEF Reset
<1>3. QED
  BY <1>1, <1>2 DEF Thread

\* The steps, seen from the threads' places in the code: one thread moves, or the
\* logic thread answers one, or a run's end tells them all.
LEMMA PlacesStep ==
    ASSUME ConstantsAssumption, PdTypeOK, NEW v \in Workers
    PROVE  /\ \A op : Call(v, op) => Same(v) /\ th'[v].pc = "start"
           /\ TxnBegin(v) \/ TxnWrite(v) \/ TxnAbort(v) \/ Answered(v)
              \/ DirectReturn(v) => Same(v) /\ th'[v].pc = "py"
           /\ TxnCommit(v) => Same(v) /\ th'[v].pc \in {"py", "start"}
           /\ Spin(v) => Same(v) /\ th'[v].pc = "spin"
           /\ SpinEnds(v) => Same(v) /\ th'[v].pc = "start"
           /\ DecideDirect(v) => Same(v) /\ th'[v].pc = "lock"
           /\ DecideClosed(v) \/ PostGone(v) => Same(v) /\ th'[v].pc \in {"py", "lock"}
           /\ DecidePost(v) => Same(v) /\ th'[v].pc = "post"
           /\ Post(v) => Same(v) /\ th'[v].pc = (IF th[v].op = "read" THEN "wait" ELSE "py")
           /\ DirectLock(v) => Same(v) /\ th'[v].pc = "direct"
           /\ Direct(v) => Same(v) /\ th'[v].pc \in {"set", "out"}
           /\ DirectWrite(v) => Same(v) /\ th[v].pc = "direct"
                                /\ th'[v].pc \in {"direct", "notify", "out"}
           /\ DirectSet(v) => Same(v) /\ th'[v].pc \in {"notify", "out"}
           /\ Notified(v) => Same(v) /\ th'[v].pc = "out"
<1>1. \A op : Call(v, op) => Same(v) /\ th'[v].pc = "start"
  BY CallDoes
<1>2. /\ TxnBegin(v) \/ TxnWrite(v) \/ TxnAbort(v) => Same(v) /\ th'[v].pc = "py"
      /\ TxnCommit(v) => Same(v) /\ th'[v].pc \in {"py", "start"}
  BY BlockDoes DEF Edits
<1>3. Answered(v) \/ DirectReturn(v) => Same(v) /\ th'[v].pc = "py"
  BY BackReturns DEF Answered, DirectReturn, Returns
<1>4. /\ Spin(v) => Same(v) /\ th'[v].pc = "spin"
      /\ SpinEnds(v) => Same(v) /\ th'[v].pc = "start"
      /\ DecideDirect(v) => Same(v) /\ th'[v].pc = "lock"
      /\ DecidePost(v) => Same(v) /\ th'[v].pc = "post"
      /\ DirectLock(v) => Same(v) /\ th'[v].pc = "direct"
      /\ DirectSet(v) => Same(v) /\ th'[v].pc \in {"notify", "out"}
      /\ Notified(v) => Same(v) /\ th'[v].pc = "out"
  BY GoMoves DEF Spin, SpinEnds, DecideDirect, DecidePost, DirectLock, DirectSet, Notified,
     Moves
<1>5. DecideClosed(v) \/ PostGone(v) => Same(v) /\ th'[v].pc \in {"py", "lock"}
  BY TurnsDoes, BackReturns DEF DecideClosed, PostGone, Turns, Returns
<1>6. Post(v) => Same(v) /\ th'[v].pc = (IF th[v].op = "read" THEN "wait" ELSE "py")
  BY PostDoes DEF Turns, Returns
<1>7. /\ Direct(v) => Same(v) /\ th'[v].pc \in {"set", "out"}
      /\ DirectWrite(v) => Same(v) /\ th[v].pc = "direct"
                           /\ th'[v].pc \in {"direct", "notify", "out"}
  BY DirectDoes, WriteDoes DEF Sees, HalfDone, Writes
<1>8. QED
  BY <1>1, <1>2, <1>3, <1>4, <1>5, <1>6, <1>7

\* RunClosure answers the read it runs.
LEMMA ClosureDoes ==
    ASSUME PdTypeOK, RunClosure
    PROVE  LET c == Head(queue) IN
           /\ c = queue[1] /\ 1 \in DOMAIN queue /\ c \in Closure /\ c.by \in Workers
           /\ c.op = "read" => Sees(c.by, "answered", done.adds[c.by])
           /\ c.op # "read" => th' = th
<1>1. queue \in Seq(Closure) /\ queue # <<>> /\ th \in [Workers -> Thread]
  BY DEF PdTypeOK, RunClosure
<1> DEFINE c == Head(queue)
<1>6. c = queue[1] /\ 1 \in DOMAIN queue /\ c \in Closure
  BY <1>1, HeadTail
<1>2. c = queue[1] /\ 1 \in DOMAIN queue /\ c \in Closure /\ c.by \in Workers
  BY <1>6 DEF Closure
<1>3. c.op = "read" => Sees(c.by, "answered", done.adds[c.by])
  BY <1>2, SeesDoes DEF RunClosure
<1>4. c.op # "read" => th' = th
  BY DEF RunClosure
<1>5. QED
  BY <1>2, <1>3, <1>4

-----------------------------------------------------------------------------
(* Locks. *)

LEMMA LocksInit == ASSUME ConstantsAssumption, PdInit PROVE LocksHeld
  BY DEF ConstantsAssumption, PdInit, LocksHeld

LEMMA LocksOfThread ==
    ASSUME ConstantsAssumption, DispatchInv, NEW v \in Workers, WorkerStep(v)
    PROVE  LocksHeld'
<1>1. /\ LocksHeld /\ PdTypeOK /\ Nobody \notin Workers
      /\ "logic" \notin Workers /\ "logic" # Nobody
  BY DEF DispatchInv, ConstantsAssumption
<1> DEFINE Inside == {"direct", "set", "notify", "out"}
<1>2. UNCHANGED <<build, logic>>
  BY DEF WorkerStep, Call, TxnBegin, TxnWrite, TxnCommit, TxnAbort, Spin, SpinEnds,
     DecideDirect, DecideClosed, DecidePost, Post, PostGone, Answered, DirectLock,
     Direct, DirectWrite, DirectSet, Notified, DirectReturn, callVars
<1>3. Same(v)
  BY <1>1, PlacesStep DEF WorkerStep
<1>4. \/ direct' = direct /\ (th'[v].pc \in Inside => th[v].pc \in Inside)
      \/ direct = Nobody /\ direct' = v
      \/ direct' \in {direct, Nobody} /\ th[v].pc = "out" /\ th'[v].pc \notin Inside
  BY <1>1, PlacesStep, ZenonT(30)
     DEF WorkerStep, Call, TxnBegin, TxnWrite, TxnCommit, TxnAbort, Spin, SpinEnds,
     DecideDirect, DecideClosed, DecidePost, Post, PostGone, Answered, DirectLock,
     Direct, DirectWrite, DirectSet, Notified, DirectReturn
<1>5. \A w \in Workers : th'[w].pc \in Inside => direct' = w
  BY <1>1, <1>3, <1>4 DEF LocksHeld, Same
<1>6. ~build.free => gil' = gil \/ (gil \in {Nobody, v} /\ gil' \in {Nobody, v})
  BY <1>1
     DEF WorkerStep, Call, TxnBegin, TxnWrite, TxnCommit, TxnAbort, Spin, SpinEnds,
     DecideDirect, DecideClosed, DecidePost, Post, PostGone, Answered, DirectLock,
     Direct, DirectWrite, DirectSet, Notified, DirectReturn, CanTake, Taken, Release
<1>8. ~build.free /\ th'[v].pc = "set" => gil = v /\ gil' = v
  <2>1. th'[v].pc = "set" => Direct(v)
    BY <1>1, PlacesStep DEF WorkerStep
  <2>2. QED
    BY <2>1 DEF Direct, Holds
<1>9. ~build.free /\ th'[v].pc = "direct" /\ Halfway(th'[v].buf) => gil = v /\ gil' = v
  <2>1. th'[v].pc = "direct" => DirectLock(v) \/ DirectWrite(v)
    BY <1>1, PlacesStep DEF WorkerStep
  <2>2. DirectLock(v) => ~Halfway(th'[v].buf)
    <3>1. DirectLock(v) => th[v].pc = "lock" /\ th'[v].buf = th[v].buf
      BY <1>1, GoMoves DEF DirectLock, Moves
    <3>2. th[v].pc = "lock" => Paired(th[v].buf) /\ th[v].buf \in Batch
      BY <1>1 DEF DispatchInv, BatchesWhole, PdTypeOK, Thread
    <3> QED
      BY <3>1, <3>2, PairedIsWhole
  <2>3. QED
    BY <2>1, <2>2 DEF DirectWrite, Holds
<1>7. QED
  BY <1>1, <1>2, <1>3, <1>5, <1>6, <1>8, <1>9 DEF LocksHeld, Same

LEMMA LocksStep ==
    ASSUME ConstantsAssumption, DispatchInv, [PdNext]_pdVars
    PROVE  LocksHeld'
<1>1. /\ LocksHeld /\ PdTypeOK /\ Nobody \notin Workers
      /\ "logic" \notin Workers /\ "logic" # Nobody
      /\ Workers \cap {"logic", "runner", "off", "setup", "idle", "drain", "write"} = {}
      /\ logic \in [pc : {"off", "setup", "idle", "drain", "write"} \cup Workers,
                    task : {"drain", "final"}, tmp : Nat, batch : Batch]
  BY DEF DispatchInv, ConstantsAssumption, PdTypeOK
<1>2. CASE \E v \in Workers : WorkerStep(v)
  BY <1>2, LocksOfThread
<1>3. CASE \E v \in Workers : Yield(v) \/ Resume(v)
  BY <1>1, <1>3 DEF Yield, Resume, callVars, LocksHeld
<1>4. CASE RunClosure
  <2>1. \A w \in Workers : th'[w].pc \notin {"direct", "set", "notify", "out"}
                           \/ th'[w] = th[w]
    BY <1>1, <1>4, ClosureDoes DEF Sees, Same
  <2>2. /\ UNCHANGED <<build, direct, gil>> /\ logic.pc = "drain"
    BY <1>4 DEF RunClosure, logicRest
  <2>3. QED
    BY <1>1, <2>1, <2>2 DEF LocksHeld
<1>5. CASE Setup \/ TakeTask \/ FinishAdd \/ ApplyWrite \/ EndDrain
  BY <1>1, <1>5 DEF Setup, TakeTask, FinishAdd, ApplyWrite, EndDrain, logicRest, LocksHeld,
     Taken, Release, CanTake
<1>6. CASE Reset
  <2>1. \A w \in Workers : \/ th'[w].pc \notin {"direct", "set", "notify", "out"}
                           \/ th'[w].pc = th[w].pc /\ th'[w].buf = th[w].buf
    BY <1>1, <1>6, ResetDoes
  <2>2. UNCHANGED <<build, direct, gil, logic>>
    BY <1>6 DEF Reset
  <2>3. QED
    BY <1>1, <2>1, <2>2 DEF LocksHeld
<1>7. CASE Start \/ FinalDrain \/ CloseWindow \/ Finish \/ RequestQuit
  BY <1>1, <1>7 DEF Start, FinalDrain, CloseWindow, Finish, RequestQuit, runRest, LocksHeld
<1>8. CASE UNCHANGED pdVars
  BY <1>1, <1>8 DEF pdVars, LocksHeld
<1>9. QED
  BY <1>2, <1>3, <1>4, <1>5, <1>6, <1>7, <1>8 DEF PdNext, LogicStep, RunnerStep

-----------------------------------------------------------------------------
(* Adds. *)

AddsHold == HalfAdds /\ AddsAreExact

LEMMA AddsInit == ASSUME ConstantsAssumption, PdInit PROVE AddsHold
  BY DEF ConstantsAssumption, PdInit, AddsHold, HalfAdds, AddsAreExact

LEMMA AddsOfThread ==
    ASSUME ConstantsAssumption, DispatchInv, NEW v \in Workers, WorkerStep(v)
    PROVE  AddsHold'
<1>1. /\ LocksHeld /\ PdTypeOK /\ AddsHold /\ BatchesWhole /\ "logic" \notin Workers
      /\ Same(v) /\ UNCHANGED <<build, logic>>
      /\ model \in [sum : Nat, p : Stored, q : Stored] /\ th[v].tmp \in Nat /\ th[v].buf \in Batch
      /\ done \in [adds : [Workers -> Nat], owed : [Workers -> Nat], total : Nat,
                   straddled : BOOLEAN, torn : BOOLEAN]
  <2>1. PdTypeOK /\ Same(v)
    BY PlacesStep DEF DispatchInv, WorkerStep
  <2>2. UNCHANGED <<build, logic>>
    BY DEF WorkerStep, Call, TxnBegin, TxnWrite, TxnCommit, TxnAbort, Spin, SpinEnds,
       DecideDirect, DecideClosed, DecidePost, Post, PostGone, Answered, DirectLock,
       Direct, DirectWrite, DirectSet, Notified, DirectReturn, callVars
  <2>3. th[v] \in Thread
    BY <2>1 DEF PdTypeOK
  <2>4. QED
    BY <2>1, <2>2, <2>3 DEF DispatchInv, ConstantsAssumption, AddsHold, PdTypeOK, Thread
<1>2. CASE DirectSet(v)
  <2>1. /\ model'.sum = th[v].tmp + 1
        /\ done'.total = done.total + 1
        /\ done'.straddled = (done.straddled \/ logic.pc \in Workers)
        /\ direct = v
    BY <1>1, <1>2 DEF DirectSet, Marked, LocksHeld
  <2>2. th[v].pc = "set" /\ (~build.free => gil = v)
    BY <1>2 DEF DirectSet, Holds
  <2>3. \A w \in Workers : th'[w].pc # "set"
    BY <1>1, <1>2, <2>1, PlacesStep DEF LocksHeld, Same
  <2>4. logic.pc \in Workers => build.free
    BY <1>1, <2>2 DEF LocksHeld
  <2>5. QED
    BY <1>1, <2>1, <2>2, <2>3, <2>4 DEF AddsHold, HalfAdds, AddsAreExact
<1>3. CASE Direct(v) \/ DirectWrite(v)
  <2>1. /\ model'.sum = model.sum
        /\ done'.total = done.total /\ done'.straddled = done.straddled
    BY <1>1, <1>3, WrittenDoes DEF Direct, DirectWrite, MarkedTorn
  <2>2. th'[v].pc = "set" => th'[v].op = "add" /\ th'[v].tmp = model.sum
    BY <1>1, <1>3, DirectDoes, PlacesStep DEF Sees, HalfDone
  <2>3. QED
    BY <1>1, <2>1, <2>2 DEF AddsHold, HalfAdds, AddsAreExact, Same
<1>4. CASE ~DirectSet(v) /\ ~Direct(v) /\ ~DirectWrite(v)
  <2>1. th'[v].pc # "set"
    BY <1>1, <1>4, PlacesStep DEF WorkerStep
  <2>2. /\ model' = model
        /\ done' = done \/ Post(v)
    BY <1>4 DEF WorkerStep, Call, TxnBegin, TxnWrite, TxnCommit, TxnAbort, Spin, SpinEnds,
       DecideDirect, DecideClosed, DecidePost, Post, PostGone, Answered, DirectLock,
       Notified, DirectReturn
  <2>3. Post(v) => done'.straddled = done.straddled /\ done'.total = done.total
    BY <1>1 DEF Post
  <2>4. QED
    BY <1>1, <2>1, <2>2, <2>3 DEF AddsHold, HalfAdds, AddsAreExact, Same
<1>5. QED
  BY <1>2, <1>3, <1>4

LEMMA AddsStep ==
    ASSUME ConstantsAssumption, DispatchInv, [PdNext]_pdVars
    PROVE  AddsHold'
<1>1. /\ LocksHeld /\ PdTypeOK /\ AddsHold /\ BatchesWhole /\ "logic" \notin Workers
      /\ Workers \cap {"logic", "runner", "off", "setup", "idle", "drain", "write"} = {}
      /\ model \in [sum : Nat, p : Stored, q : Stored]
      /\ done \in [adds : [Workers -> Nat], owed : [Workers -> Nat], total : Nat,
                   straddled : BOOLEAN, torn : BOOLEAN]
      /\ logic \in [pc : {"off", "setup", "idle", "drain", "write"} \cup Workers,
                    task : {"drain", "final"}, tmp : Nat, batch : Batch]
  BY DEF DispatchInv, ConstantsAssumption, AddsHold, PdTypeOK
<1>2. CASE \E v \in Workers : WorkerStep(v)
  BY <1>2, AddsOfThread
<1>3. CASE \E v \in Workers : Yield(v) \/ Resume(v)
  BY <1>1, <1>3 DEF Yield, Resume, callVars, AddsHold, HalfAdds, AddsAreExact
<1>4. CASE RunClosure
  <2>1. \A w \in Workers : th'[w] = th[w] \/ th'[w].pc # "set"
    BY <1>1, <1>4, ClosureDoes DEF Sees, Same
  <2>2. /\ model'.sum = model.sum
        /\ done'.total = done.total /\ done'.straddled = (done.straddled \/ Straddles)
        /\ logic'.pc \in Workers => logic'.tmp = model.sum
        /\ build' = build
    <3>1. Head(queue).op \in Ops
      BY <1>1, <1>4, ClosureDoes DEF Closure
    <3>2. model' = model
      BY <1>4 DEF RunClosure
    <3>3. logic'.pc \in Workers => logic'.tmp = model.sum
      BY <1>1, <1>4, <3>1 DEF RunClosure, Ops
    <3>4. QED
      BY <1>1, <1>4, <3>2, <3>3 DEF RunClosure, logicRest
  <2>3. logic.pc = "drain"
    BY <1>4 DEF RunClosure
  <2>4. Straddles => build.free \/ build.cb
    BY <1>1, <2>3 DEF Straddles, LocksHeld
  <2>5. QED
    BY <1>1, <2>1, <2>2, <2>4 DEF AddsHold, HalfAdds, AddsAreExact
<1>5. CASE FinishAdd
  <2>1. /\ model'.sum = logic.tmp + 1 /\ done'.total = done.total + 1
        /\ done'.straddled = (done.straddled \/ Straddles)
        /\ logic'.pc = "drain" /\ logic.pc \in Workers /\ UNCHANGED <<build, th>>
    BY <1>1, <1>5 DEF FinishAdd, logicRest
  <2>2. Straddles => build.free \/ build.cb
    BY <1>1, <2>1 DEF Straddles, LocksHeld
  <2>3. QED
    BY <1>1, <2>1, <2>2 DEF AddsHold, HalfAdds, AddsAreExact, Straddles
<1>11. CASE ApplyWrite
  <2>1. /\ model'.sum = model.sum /\ UNCHANGED <<build, th>> /\ logic'.pc \notin Workers
        /\ done'.total = done.total /\ done'.straddled = done.straddled
    BY <1>1, <1>11, WrittenDoes DEF ApplyWrite, logicRest
  <2> QED
    BY <1>1, <2>1 DEF AddsHold, HalfAdds, AddsAreExact
<1>6. CASE Setup \/ TakeTask \/ EndDrain
  BY <1>1, <1>6, ZenonT(30) DEF Setup, TakeTask, EndDrain, logicRest, AddsHold, HalfAdds, AddsAreExact
<1>7. CASE Reset
  <2>1. \A w \in Workers : th'[w].pc = "set" =>
                              /\ th[w].pc = "set" /\ th'[w].op = th[w].op
                              /\ th'[w].tmp = th[w].tmp
    BY <1>1, <1>7, ResetDoes
  <2>2. /\ UNCHANGED <<build, model, logic>>
        /\ done'.total = done.total /\ done'.straddled = done.straddled
    BY <1>1, <1>7 DEF Reset
  <2>3. QED
    BY <1>1, <2>1, <2>2 DEF AddsHold, HalfAdds, AddsAreExact
<1>8. CASE Start \/ FinalDrain \/ CloseWindow \/ Finish \/ RequestQuit
  BY <1>1, <1>8 DEF Start, FinalDrain, CloseWindow, Finish, RequestQuit, runRest, AddsHold,
     HalfAdds, AddsAreExact
<1>9. CASE UNCHANGED pdVars
  BY <1>1, <1>9 DEF pdVars, AddsHold, HalfAdds, AddsAreExact
<1>10. QED
  BY <1>2, <1>3, <1>4, <1>5, <1>6, <1>7, <1>8, <1>9, <1>11 DEF PdNext, LogicStep, RunnerStep

-----------------------------------------------------------------------------
(* Transactions. *)

FieldsWhole ==
    /\ done.torn => build.free
    /\ ~done.torn /\ ~Tears /\ ~Halfway(logic.batch) => model.p = model.q

TransactionsHold == BatchesWhole /\ HalfWritten /\ TransactionsWhole

LEMMA TransactionsInit == ASSUME ConstantsAssumption, PdInit PROVE TransactionsHold
<1>1. Paired(<<>>) /\ ~Halfway(<<>>)
  BY DEF Paired, Halfway
<1>2. QED
  BY <1>1 DEF PdInit, TransactionsHold, BatchesWhole, HalfWritten, TransactionsWhole, Nested,
     Tears

LEMMA PairAdded ==
    ASSUME NEW b \in Batch, Paired(b), NEW k \in Stamps
    PROVE  /\ Paired(b \o <<<<"p", k>>, <<"q", k>>>>)
           /\ Len(b) <= Len(b \o <<<<"p", k>>, <<"q", k>>>>)
<1> DEFINE c == b \o <<<<"p", k>>, <<"q", k>>>>
<1>1. PICK n \in 0..Len(b) :
        /\ Len(b) = 2 * n
        /\ \A i \in 1..n : /\ b[2 * i - 1][1] = "p"
                           /\ b[2 * i][1] = "q"
                           /\ b[2 * i][2] = b[2 * i - 1][2]
  BY DEF Paired
<1>2. /\ Len(c) = Len(b) + 2 /\ \A i \in 1..Len(b) : c[i] = b[i]
      /\ c[Len(b) + 1] = <<"p", k>> /\ c[Len(b) + 2] = <<"q", k>>
  BY TwoMore DEF Batch
<1>3. n \in Nat /\ Len(b) \in Nat
  BY <1>1 DEF Batch
<1> HIDE DEF c
<1>4. \A i \in 1..(n + 1) : /\ c[2 * i - 1][1] = "p"
                            /\ c[2 * i][1] = "q"
                            /\ c[2 * i][2] = c[2 * i - 1][2]
  <2>1. ASSUME NEW i \in 1..(n + 1)
        PROVE  /\ c[2 * i - 1][1] = "p"
               /\ c[2 * i][1] = "q"
               /\ c[2 * i][2] = c[2 * i - 1][2]
    <3>1. CASE i = n + 1
      <4>1. 2 * i - 1 = Len(b) + 1 /\ 2 * i = Len(b) + 2
        BY <1>1, <1>3, <3>1
      <4>2. c[2 * i - 1] = <<"p", k>> /\ c[2 * i] = <<"q", k>>
        BY <1>2, <4>1
      <4>3. QED
        BY <4>2
    <3>2. CASE i # n + 1
      <4>1. i \in 1..n /\ 2 * i - 1 \in 1..Len(b) /\ 2 * i \in 1..Len(b)
        BY <1>1, <1>3, <3>2
      <4>2. QED
        BY <1>1, <1>2, <4>1
    <3>3. QED
      BY <3>1, <3>2
  <2>2. QED
    BY <2>1
<1>5. n + 1 \in 0..Len(c) /\ Len(c) = 2 * (n + 1)
  BY <1>1, <1>2, <1>3
<1>6. Paired(c)
  BY <1>4, <1>5 DEF Paired
<1>7. QED
  BY <1>2, <1>3, <1>6 DEF c

LEMMA PairsCut ==
    ASSUME NEW b \in Batch, Paired(b), NEW m \in 0..Len(b), Even(m)
    PROVE  Paired(SubSeq(b, 1, m)) /\ Len(SubSeq(b, 1, m)) = m
<1> DEFINE c == SubSeq(b, 1, m)
<1>1. PICK n \in 0..Len(b) :
        /\ Len(b) = 2 * n
        /\ \A i \in 1..n : /\ b[2 * i - 1][1] = "p"
                           /\ b[2 * i][1] = "q"
                           /\ b[2 * i][2] = b[2 * i - 1][2]
  BY DEF Paired
<1>2. PICK k \in 0..m : m = 2 * k
  BY DEF Even
<1>3. Len(c) = m /\ \A i \in 1..m : c[i] = b[i]
  BY Cut DEF Batch
<1>4. n \in Nat /\ Len(b) \in Nat /\ k \in Nat /\ m \in Nat
  BY DEF Batch
<1> HIDE DEF c
<1>5. \A i \in 1..k : /\ c[2 * i - 1][1] = "p"
                      /\ c[2 * i][1] = "q"
                      /\ c[2 * i][2] = c[2 * i - 1][2]
  <2>1. \A i \in 1..k : i \in 1..n /\ 2 * i - 1 \in 1..m /\ 2 * i \in 1..m
    BY <1>1, <1>2, <1>4
  <2>2. QED
    BY <1>1, <1>3, <2>1
<1>6. k \in 0..Len(c) /\ Len(c) = 2 * k
  BY <1>2, <1>3, <1>4
<1>7. QED
  BY <1>3, <1>5, <1>6 DEF Paired, c

\* A step inside a call leaves the blocks of its thread as they are.
LEMMA BlocksKept ==
    ASSUME NEW v \in Workers, Paired(th[v].buf), Nested(th[v]), th[v].pc # "py",
           th'[v].op = th[v].op, th'[v].marks = th[v].marks,
           \/ th'[v].buf = th[v].buf
           \/ th[v].op = "txn" /\ th'[v].buf = <<>>
    PROVE  Paired(th'[v].buf) /\ Nested(th'[v])
<1>1. CASE th'[v].buf = th[v].buf
  BY <1>1 DEF Nested
<1>2. CASE th[v].op = "txn" /\ th'[v].buf = <<>>
  <2>1. th'[v].marks = <<>> /\ Paired(<<>>)
    BY <1>2 DEF Nested, Paired
  <2>2. QED
    BY <1>2, <2>1 DEF Nested
<1>3. QED
  BY <1>1, <1>2

LEMMA BlocksOfCaller ==
    ASSUME ConstantsAssumption, DispatchInv, NEW v \in Workers,
           \/ \E op \in {"add", "read"} : Call(v, op)
           \/ TxnBegin(v) \/ TxnWrite(v) \/ TxnCommit(v) \/ TxnAbort(v)
    PROVE  Paired(th'[v].buf) /\ Nested(th'[v])
<1>1. /\ PdTypeOK /\ Paired(th[v].buf) /\ Nested(th[v]) /\ th[v] \in Thread
      /\ th[v].buf \in Batch /\ th[v].marks \in Seq(Nat) /\ th[v].calls \in Nat
      /\ Len(th[v].buf) \in Nat
  <2>3. th[v].pc = "py"
    BY DEF Call, TxnBegin, TxnWrite, TxnCommit, TxnAbort
  <2>1. PdTypeOK /\ Paired(th[v].buf) /\ Nested(th[v]) /\ th[v] \in Thread
    BY <2>3 DEF DispatchInv, BatchesWhole, PdTypeOK
  <2>2. QED
    BY <2>1 DEF Thread, Batch
<1>2. CASE \E op \in {"add", "read"} : Call(v, op)
  BY <1>1, <1>2, CallDoes DEF Nested
<1>3. CASE TxnBegin(v)
  <2> DEFINE m == Append(th[v].marks, Len(th[v].buf))
             l == Len(th[v].buf)
  <2>1. Edits(v, th[v].buf, m)
    BY <1>1, <1>3, BlockDoes
  <2>2. /\ DOMAIN m = 1..(Len(th[v].marks) + 1) /\ DOMAIN th[v].marks = 1..Len(th[v].marks)
        /\ \A i \in DOMAIN th[v].marks : m[i] = th[v].marks[i]
        /\ m[Len(th[v].marks) + 1] = l
        /\ Len(th[v].marks) \in Nat /\ \A i \in DOMAIN th[v].marks : th[v].marks[i] \in Nat
    BY <1>1, Appended
  <2> HIDE DEF m
  <2>3. Even(l) /\ l \in Nat
    BY <1>1 DEF Paired, Even
  <2> HIDE DEF l
  <2>4. \A i \in DOMAIN m : m[i] <= l /\ Even(m[i])
    <3>1. \A i \in DOMAIN th[v].marks : th[v].marks[i] <= l /\ Even(th[v].marks[i])
      BY <1>1 DEF Nested, l
    <3>2. \A i \in DOMAIN m : i \in DOMAIN th[v].marks \/ m[i] = l
      BY <2>2
    <3>3. QED
      BY <2>2, <2>3, <3>1, <3>2
  <2>5. \A i, j \in DOMAIN m : i <= j => m[i] <= m[j]
    <3>1. ASSUME NEW i \in DOMAIN m, NEW j \in DOMAIN m, i <= j
          PROVE  m[i] <= m[j]
      <4>1. CASE j = Len(th[v].marks) + 1
        BY <1>1, <2>2, <2>4, <4>1
      <4>2. CASE j # Len(th[v].marks) + 1
        <5>1. i \in DOMAIN th[v].marks /\ j \in DOMAIN th[v].marks
          BY <2>2, <3>1, <4>2
        <5>2. QED
          BY <1>1, <2>2, <3>1, <5>1 DEF Nested
      <4>3. QED
        BY <4>1, <4>2
    <3>2. QED
      BY <3>1
  <2>6. QED
    BY <1>1, <2>1, <2>4, <2>5 DEF Edits, Nested, l
<1>4. CASE TxnWrite(v)
  <2>5. PICK k \in Stamps : Edits(v, th[v].buf \o <<<<"p", k>>, <<"q", k>>>>, th[v].marks)
    BY <1>1, <1>4, BlockDoes
  <2> DEFINE b == th[v].buf \o <<<<"p", k>>, <<"q", k>>>>
  <2>1. Edits(v, b, th[v].marks)
    BY <2>5
  <2>2. Paired(b) /\ Len(th[v].buf) <= Len(b) /\ Len(b) \in Nat
    BY <1>1, PairAdded, TwoMore DEF Batch
  <2> HIDE DEF b
  <2>3. \A i \in DOMAIN th[v].marks : th[v].marks[i] \in Nat /\ th[v].marks[i] <= Len(b)
    BY <1>1, <2>2 DEF Nested
  <2>4. QED
    BY <1>1, <2>1, <2>2, <2>3 DEF Edits, Nested
<1>5. CASE TxnCommit(v) \/ TxnAbort(v)
  <2> DEFINE f == Front(th[v].marks)
             n == Len(th[v].marks)
             b == IF n = 1 THEN <<>> ELSE Kept(th[v])
  <2>1. th[v].marks # <<>>
    BY <1>5 DEF TxnCommit, TxnAbort
  <2>2. /\ n \in Nat \ {0} /\ f \in Seq(Nat) /\ DOMAIN f = 1..(n - 1) /\ DOMAIN th[v].marks = 1..n
        /\ \A i \in DOMAIN f : f[i] = th[v].marks[i]
        /\ Last(th[v].marks) = th[v].marks[n] /\ Last(th[v].marks) \in Nat
        /\ \A i \in 1..n : th[v].marks[i] \in Nat
    <3>1. /\ n \in Nat \ {0} /\ f \in Seq(Nat) /\ Len(f) = n - 1
          /\ \A i \in 1..(n - 1) : f[i] = th[v].marks[i]
          /\ Last(th[v].marks) = th[v].marks[n] /\ Last(th[v].marks) \in Nat
      BY <1>1, <2>1, FrontLast
    <3>2. DOMAIN f = 1..Len(f) /\ DOMAIN th[v].marks = 1..n
      BY <1>1, <3>1
    <3>3. \A i \in 1..n : th[v].marks[i] \in Nat
      BY <1>1
    <3>4. QED
      BY <3>1, <3>2, <3>3
  <2>3. \/ Edits(v, th[v].buf, f)
        \/ Edits(v, b, f)
        \/ th'[v].op = "txn" /\ th'[v].marks = <<>> /\ th'[v].buf = th[v].buf
    BY <1>1, <1>5, BlockDoes
  <2>12. /\ \A i \in 1..n : th[v].marks[i] <= Len(th[v].buf) /\ Even(th[v].marks[i])
         /\ \A i, j \in 1..n : i <= j => th[v].marks[i] <= th[v].marks[j]
    BY <1>1, <2>2 DEF Nested
  <2>13. n \in 1..n /\ \A i \in DOMAIN f : i \in 1..n /\ i <= n /\ f[i] = th[v].marks[i]
    BY <2>2
  <2> HIDE DEF f, n
  <2>4. /\ Last(th[v].marks) \in 0..Len(th[v].buf)
        /\ Even(Last(th[v].marks))
        /\ \A i \in DOMAIN f : f[i] <= Last(th[v].marks)
    <3>1. /\ Last(th[v].marks) = th[v].marks[n] /\ Last(th[v].marks) \in Nat
          /\ Len(th[v].buf) \in Nat
      BY <1>1, <2>2
    <3>2. Last(th[v].marks) <= Len(th[v].buf) /\ Even(Last(th[v].marks))
      BY <2>12, <2>13, <3>1
    <3>3. \A i \in DOMAIN f : f[i] <= Last(th[v].marks)
      BY <2>12, <2>13, <3>1
    <3>4. QED
      BY <3>1, <3>2, <3>3
  <2>5. Paired(Kept(th[v])) /\ Len(Kept(th[v])) = Last(th[v].marks) /\ Paired(<<>>)
    <3>1. Paired(<<>>)
      BY DEF Paired
    <3>2. QED
      BY <1>1, <2>4, <3>1, PairsCut DEF Kept
  <2>6. Paired(b) /\ \A i \in DOMAIN f : f[i] <= Len(b)
    <3>1. n = 1 => DOMAIN f = {}
      BY <2>2
    <3>2. QED
      BY <2>4, <2>5, <3>1
  <2>7. /\ \A i \in DOMAIN f : f[i] <= Len(th[v].buf) /\ Even(f[i])
        /\ \A i, j \in DOMAIN f : i <= j => f[i] <= f[j]
    BY <2>12, <2>13
  <2> HIDE DEF b
  <2>8. CASE Edits(v, th[v].buf, f)
    BY <1>1, <2>7, <2>8 DEF Edits, Nested
  <2>9. CASE Edits(v, b, f)
    BY <2>6, <2>7, <2>9 DEF Edits, Nested
  <2>10. CASE th'[v].op = "txn" /\ th'[v].marks = <<>> /\ th'[v].buf = th[v].buf
    BY <1>1, <2>10 DEF Nested
  <2>11. QED
    BY <2>3, <2>8, <2>9, <2>10
<1>6. QED
  BY <1>2, <1>3, <1>4, <1>5

\* The other steps of a thread are inside a call.
LEMMA BlocksInCall ==
    ASSUME ConstantsAssumption, DispatchInv, NEW v \in Workers,
           \/ Spin(v) \/ SpinEnds(v) \/ DecideDirect(v) \/ DecideClosed(v) \/ DecidePost(v)
           \/ Post(v) \/ PostGone(v) \/ Answered(v)
           \/ DirectLock(v) \/ Direct(v) \/ DirectSet(v) \/ Notified(v) \/ DirectReturn(v)
    PROVE  Paired(th'[v].buf) /\ Nested(th'[v])
<1>1. PdTypeOK /\ Paired(th[v].buf) /\ Nested(th[v])
  <2>1. th[v].pc # "direct" \/ th[v].op # "txn"
    BY DEF Spin, SpinEnds, DecideDirect, DecideClosed, DecidePost, Post, PostGone, Answered,
       DirectLock, Direct, DirectSet, Notified, DirectReturn
  <2> QED
    BY <2>1 DEF DispatchInv, BatchesWhole
<1>2. th[v].pc # "py"
  BY DEF Spin, SpinEnds, DecideDirect, DecideClosed, DecidePost, Post, PostGone, Answered,
     DirectLock, Direct, DirectSet, Notified, DirectReturn
<1>3. \/ \E pc : Moves(v, pc)
      \/ \E pc, late : Turns(v, pc, late)
      \/ Returns(v) \/ HalfDone(v)
      \/ \E pc, n : Sees(v, pc, n)
  <2>1. Spin(v) \/ SpinEnds(v) \/ DecideDirect(v) \/ DecidePost(v)
        \/ DirectLock(v) \/ DirectSet(v) \/ Notified(v)  => \E pc : Moves(v, pc)
    BY <1>1, GoMoves DEF Spin, SpinEnds, DecideDirect, DecidePost, DirectLock,
       DirectSet, Notified
  <2>2. DecideClosed(v) \/ PostGone(v) => (\E pc, late : Turns(v, pc, late)) \/ Returns(v)
    BY <1>1, TurnsDoes, BackReturns DEF DecideClosed, PostGone
  <2>3. Answered(v) \/ DirectReturn(v) => Returns(v)
    BY <1>1, BackReturns DEF Answered, DirectReturn
  <2>4. Post(v) => (\E pc, late : Turns(v, pc, late)) \/ Returns(v)
    BY <1>1, PostDoes
  <2>5. Direct(v) => HalfDone(v) \/ (\E pc, n : Sees(v, pc, n))
    BY <1>1, DirectDoes
  <2>6. QED
    BY <2>1, <2>2, <2>3, <2>4, <2>5
<1>4. /\ th'[v].op = th[v].op /\ th'[v].marks = th[v].marks
      /\ \/ th'[v].buf = th[v].buf
         \/ th[v].op = "txn" /\ th'[v].buf = <<>>
  BY <1>3 DEF Moves, Returns, Turns, HalfDone, Sees
<1>5. QED
  BY <1>1, <1>2, <1>4, BlocksKept

\* A thread's blocks, and what is left of the batch it writes.
BlocksWhole(w) ==
    /\ Nested(th[w])
    /\ \/ Paired(th[w].buf)
       \/ th[w].pc = "direct" /\ th[w].op = "txn" /\ Parted(th[w].buf)

LEMMA BlocksOfThread ==
    ASSUME ConstantsAssumption, DispatchInv, NEW v \in Workers, WorkerStep(v)
    PROVE  /\ BlocksWhole(v)'
           /\ ~DirectWrite(v) => ~Halfway(th[v].buf) /\ ~Halfway(th'[v].buf)
<1>1. PdTypeOK /\ PdTypeOK' /\ BlocksWhole(v)
  BY TypesStep DEF DispatchInv, BatchesWhole, BlocksWhole, PdNext
<1>2. th[v].buf \in Batch /\ th'[v].buf \in Batch
  <2>1. th[v] \in Thread /\ th'[v] \in Thread
    BY <1>1 DEF PdTypeOK
  <2> QED
    BY <2>1 DEF Thread
<1>3. CASE DirectWrite(v)
  <2>1. Writes(v)
    BY <1>1, <1>3, WriteDoes
  <2>2. \/ Parted(Tail(th[v].buf)) /\ Tail(th[v].buf) # <<>>
        \/ Paired(Tail(th[v].buf))
    BY <1>1, <1>2, <2>1, OneWrite DEF BlocksWhole, Writes, PdTypeOK
  <2>3. th'[v].marks = <<>>
    BY <1>1, <2>1 DEF BlocksWhole, Nested, Writes
  <2>4. Nested(th'[v])
    BY <2>3 DEF Nested
  <2> QED
    BY <1>3, <2>1, <2>2, <2>4 DEF BlocksWhole, Writes
<1>4. CASE ~DirectWrite(v)
  <2>1. Paired(th'[v].buf) /\ Nested(th'[v])
    BY <1>4, BlocksOfCaller, BlocksInCall DEF WorkerStep
  <2>2. th[v].pc # "direct" \/ th[v].op # "txn"
    BY <1>4 DEF WorkerStep, Call, TxnBegin, TxnWrite, TxnCommit, TxnAbort, Spin, SpinEnds,
       DecideDirect, DecideClosed, DecidePost, Post, PostGone, Answered,
       DirectLock, Direct, DirectSet, Notified, DirectReturn
  <2> QED
    BY <1>1, <1>2, <2>1, <2>2, PairedIsWhole DEF BlocksWhole
<1> QED
  BY <1>3, <1>4

LEMMA BatchesStep ==
    ASSUME ConstantsAssumption, DispatchInv, [PdNext]_pdVars
    PROVE  BatchesWhole'
<1> DEFINE Whole == \A w \in Workers : BlocksWhole(w)
           Queued(q) == \A i \in DOMAIN q : Paired(q[i].batch)
           Applied == Paired(logic.batch) \/ (logic.pc = "write" /\ Parted(logic.batch))
<1>1. /\ PdTypeOK /\ HandleCovers /\ Whole /\ Queued(queue) /\ Applied
      /\ queue \in Seq(Closure) /\ \A w \in Workers : th[w] \in Thread
      /\ logic.batch \in Batch
      /\ logic \in [pc : {"off", "setup", "idle", "drain", "write"} \cup Workers,
                    task : {"drain", "final"}, tmp : Nat, batch : Batch]
  BY DEF DispatchInv, PdTypeOK, BatchesWhole, BlocksWhole
<1>2. ASSUME Whole', Queued(queue'), Applied'
      PROVE  BatchesWhole'
  BY <1>2 DEF BatchesWhole, BlocksWhole
<1>4. ASSUME NEW v \in Workers, WorkerStep(v)
      PROVE  BatchesWhole'
  <2>1. Whole'
    <3>1. Same(v)
      BY <1>1, <1>4, PlacesStep DEF WorkerStep
    <3>2. BlocksWhole(v)'
      BY <1>4, BlocksOfThread
    <3>3. QED
      BY <1>1, <3>1, <3>2 DEF Same, BlocksWhole
  <2>2. Queued(queue')
    <3>1. CASE Post(v)
      <4>1. Posted(v).batch = th[v].buf /\ Posted(v) \in Closure
        BY <1>1 DEF Posted, Closure, Thread
      <4>2. queue' = Append(queue, Posted(v))
        BY <3>1 DEF Post, Enqueued
      <4>3. /\ DOMAIN queue' = 1..(Len(queue) + 1) /\ Len(queue) \in Nat
            /\ DOMAIN queue = 1..Len(queue)
            /\ \A i \in DOMAIN queue : queue'[i] = queue[i]
            /\ queue'[Len(queue) + 1] = Posted(v)
        BY <1>1, <4>1, <4>2, Appended
      <4>5. Paired(th[v].buf)
        BY <1>1, <3>1 DEF Post, BlocksWhole
      <4>4. QED
        BY <1>1, <4>1, <4>3, <4>5
    <3>2. CASE ~Post(v)
      <4>1. queue' = queue
        BY <1>4, <3>2 DEF WorkerStep, Call, TxnBegin, TxnWrite, TxnCommit, TxnAbort, Spin,
           SpinEnds, DecideDirect, DecideClosed, DecidePost, PostGone, Answered,
           DirectLock, Direct, DirectWrite, DirectSet, Notified, DirectReturn
      <4>2. QED
        BY <1>1, <4>1
    <3>3. QED
      BY <3>1, <3>2
  <2>3. logic' = logic
    BY <1>4 DEF WorkerStep, Call, TxnBegin, TxnWrite, TxnCommit, TxnAbort, Spin,
       SpinEnds, DecideDirect, DecideClosed, DecidePost, Post, PostGone, Answered,
       DirectLock, Direct, DirectWrite, DirectSet, Notified, DirectReturn, callVars
  <2>4. QED
    BY <1>1, <1>2, <2>1, <2>2, <2>3
<1>6. CASE RunClosure
  <2> DEFINE c == Head(queue)
  <2>1. /\ c = queue[1] /\ 1 \in DOMAIN queue /\ c.by \in Workers /\ c.op \in Ops
        /\ c.op = "read" => Sees(c.by, "answered", done.adds[c.by])
        /\ c.op # "read" => th' = th
    BY <1>1, <1>6, ClosureDoes DEF Closure
  <2>2. Whole'
    <3>1. CASE c.op = "read"
      <4>1. /\ \A w \in Workers \ {c.by} : th'[w] = th[w]
            /\ th'[c.by].pc = "answered" /\ th'[c.by].op = th[c.by].op
            /\ th'[c.by].buf = th[c.by].buf /\ th'[c.by].marks = th[c.by].marks
        BY <2>1, <3>1 DEF Sees, Same
      <4>2. th[c.by].pc = "wait"
        BY <2>1, <3>1 DEF DispatchInv, ReadsAwaited
      <4>3. Paired(th'[c.by].buf) /\ Nested(th'[c.by])
        BY <1>1, <2>1, <4>1, <4>2, BlocksKept DEF BlocksWhole
      <4>4. QED
        BY <1>1, <4>1, <4>3 DEF BlocksWhole
    <3>2. CASE c.op # "read"
      BY <1>1, <2>1, <3>2 DEF BlocksWhole
    <3>3. QED
      BY <3>1, <3>2
  <2>3. Queued(queue')
    <3>1. queue' = Tail(queue) /\ queue # <<>>
      BY <1>6 DEF RunClosure
    <3>2. /\ Len(queue) \in Nat \ {0} /\ DOMAIN queue = 1..Len(queue)
          /\ DOMAIN queue' = 1..(Len(queue) - 1)
          /\ \A i \in DOMAIN queue' : queue'[i] = queue[i + 1] /\ i + 1 \in DOMAIN queue
      BY <1>1, <3>1, HeadTail
    <3>3. QED
      BY <1>1, <3>2
  <2>4. Paired(logic'.batch)
    <3>1. logic'.batch \in {logic.batch, c.batch} /\ logic.pc = "drain"
      BY <1>1, <1>6, <2>1 DEF RunClosure, Ops
    <3>2. Paired(c.batch) /\ Paired(logic.batch)
      BY <1>1, <2>1, <3>1
    <3> QED
      BY <3>1, <3>2
  <2>5. QED
    BY <1>2, <2>2, <2>3, <2>4
<1>11. CASE ApplyWrite
  <2>1. logic.pc = "write" /\ logic.batch # <<>> /\ UNCHANGED <<th, queue>>
    BY <1>11 DEF ApplyWrite
  <2>2. /\ logic'.batch = Tail(logic.batch)
        /\ Tail(logic.batch) # <<>> => logic'.pc = "write"
    BY <1>1, <1>11 DEF ApplyWrite
  <2>3. \/ Parted(Tail(logic.batch)) /\ Tail(logic.batch) # <<>>
        \/ Paired(Tail(logic.batch))
    BY <1>1, <2>1, OneWrite DEF PdTypeOK
  <2> QED
    BY <1>1, <1>2, <2>1, <2>2, <2>3 DEF BlocksWhole
<1>7. CASE \/ Setup \/ TakeTask \/ FinishAdd \/ EndDrain
           \/ Start \/ FinalDrain \/ CloseWindow \/ Finish \/ RequestQuit
           \/ \E v \in Workers : Yield(v) \/ Resume(v)
           \/ UNCHANGED pdVars
  <2>1. UNCHANGED <<th, queue>>
    BY <1>7 DEF Setup, TakeTask, FinishAdd, EndDrain, Start, FinalDrain, CloseWindow,
       Finish, RequestQuit, runRest, Yield, Resume, pdVars
  <2>2. logic'.batch = logic.batch
    BY <1>1, <1>7 DEF Setup, TakeTask, FinishAdd, EndDrain, Start, FinalDrain, CloseWindow,
       Finish, RequestQuit, Yield, Resume, callVars, pdVars
  <2>3. logic.pc = "write" => logic' = logic
    <3>1. Workers \cap {"logic", "runner", "off", "setup", "idle", "drain", "write"} = {}
      BY DEF ConstantsAssumption
    <3> QED
      BY <1>1, <1>7, <3>1 DEF Setup, TakeTask, FinishAdd, EndDrain, Start, FinalDrain,
         CloseWindow, Finish, RequestQuit, Yield, Resume, callVars, pdVars, HandleCovers
  <2> QED
    BY <1>1, <1>2, <2>1, <2>2, <2>3 DEF BlocksWhole
<1>8. CASE Reset
  <2>1. logic' = logic /\ queue' = <<>>
    BY <1>8 DEF Reset
  <2>2. \A w \in Workers : /\ th'[w].buf = th[w].buf /\ th'[w].marks = th[w].marks
                           /\ th'[w].op = th[w].op /\ (th'[w].pc # "py" => th[w].pc # "py")
                           /\ (th[w].pc = "direct" => th'[w].pc = "direct")
    BY <1>1, <1>8, ResetDoes
  <2>3. Whole'
    BY <1>1, <2>2 DEF Nested, BlocksWhole
  <2>4. QED
    BY <1>1, <1>2, <2>1, <2>3
<1>10. QED
  BY <1>4, <1>6, <1>7, <1>8, <1>11 DEF PdNext, LogicStep, RunnerStep

\* Only one thread at a time is between two writes, and only the logic thread inside
\* the run's own; with a GIL not both.
LEMMA HalfwayAlone ==
    ASSUME ConstantsAssumption, DispatchInv
    PROVE  /\ \A w \in Workers : Halfway(th[w].buf) =>
                 direct = w /\ th[w].pc = "direct" /\ (~build.free => gil = w)
           /\ Halfway(logic.batch) => logic.pc = "write" /\ (~build.free => gil = "logic")
           /\ logic.pc \in {"drain", "write"} /\ ~build.free => gil = "logic"
           /\ "logic" \notin Workers
<1>1. /\ PdTypeOK /\ BatchesWhole /\ LocksHeld /\ "logic" \notin Workers
      /\ logic.batch \in Batch
  BY DEF DispatchInv, ConstantsAssumption, PdTypeOK
<1>2. ASSUME NEW w \in Workers, Halfway(th[w].buf)
      PROVE  direct = w /\ th[w].pc = "direct" /\ (~build.free => gil = w)
  <2>1. th[w].buf \in Batch
    BY <1>1 DEF PdTypeOK, Thread
  <2>2. ~Paired(th[w].buf)
    BY <1>2, <2>1, PairedIsWhole
  <2> QED
    BY <1>1, <1>2, <2>2 DEF BatchesWhole, LocksHeld
<1>3. Halfway(logic.batch) => logic.pc = "write"
  BY <1>1, PairedIsWhole DEF BatchesWhole
<1> QED
  BY <1>1, <1>2, <1>3 DEF LocksHeld

\* Steps that write neither field and begin or end no pair.
LEMMA FieldsKept ==
    ASSUME HalfWritten, FieldsWhole, model'.p = model.p, model'.q = model.q,
           done.torn => done'.torn, done'.torn => build'.free,
           Halfway(logic'.batch) <=> Halfway(logic.batch),
           Halfway(logic.batch) => logic'.batch = logic.batch,
           \A w \in Workers : /\ Halfway(th'[w].buf) <=> Halfway(th[w].buf)
                              /\ Halfway(th[w].buf) => th'[w].buf = th[w].buf
    PROVE  HalfWritten' /\ FieldsWhole'
  BY DEF HalfWritten, FieldsWhole, Tears

LEMMA FieldsStep ==
    ASSUME ConstantsAssumption, DispatchInv, [PdNext]_pdVars
    PROVE  HalfWritten' /\ FieldsWhole'
<1>1. /\ PdTypeOK /\ BatchesWhole /\ HalfWritten /\ FieldsWhole
      /\ model \in [sum : Nat, p : Stored, q : Stored]
      /\ done \in [adds : [Workers -> Nat], owed : [Workers -> Nat], total : Nat,
                   straddled : BOOLEAN, torn : BOOLEAN]
      /\ logic \in [pc : {"off", "setup", "idle", "drain", "write"} \cup Workers,
                    task : {"drain", "final"}, tmp : Nat, batch : Batch]
      /\ logic.batch \in Batch
      /\ \A w \in Workers : th[w] \in Thread /\ th[w].buf \in Batch
  <2>1. PdTypeOK /\ \A w \in Workers : th[w] \in Thread
    BY DEF DispatchInv, PdTypeOK
  <2> QED
    BY <2>1 DEF DispatchInv, TransactionsWhole, FieldsWhole, PdTypeOK, Thread
<1>2. ASSUME NEW v \in Workers, DirectWrite(v)
      PROVE  HalfWritten' /\ FieldsWhole'
  <2>1. /\ Writes(v) /\ model' = Written(model, th[v].buf) /\ direct = v /\ Holds(v)
        /\ UNCHANGED <<build, logic>>
        /\ done'.torn = (done.torn \/ Halfway(logic.batch))
    BY <1>1, <1>2, WriteDoes
       DEF DirectWrite, MarkedTorn, callVars, DispatchInv, LocksHeld
  <2>2. done'.torn => build'.free
    <3>1. Halfway(logic.batch) => build.free
      BY <2>1, HalfwayAlone DEF Holds
    <3> QED
      BY <1>1, <2>1, <3>1 DEF FieldsWhole
  <2>3. \A w \in Workers \ {v} : ~Halfway(th'[w].buf)
    BY <2>1, HalfwayAlone DEF Writes, Same
  <2>4. Paired(th[v].buf) \/ Parted(th[v].buf)
    BY <1>1 DEF BatchesWhole
  <2>5. CASE /\ ~Halfway(th[v].buf) /\ Parted(Tail(th[v].buf))
             /\ model'.p = Head(Tail(th[v].buf))[2]
    BY <2>1, <2>2, <2>3, <2>5 DEF Writes, HalfWritten, FieldsWhole, Tears, Parted
  <2>6. CASE /\ Halfway(th[v].buf) /\ ~Halfway(Tail(th[v].buf))
             /\ model'.p = model.p /\ model'.q = Head(th[v].buf)[2]
    <3>1. ~done'.torn => model'.p = model'.q
      BY <1>1, <2>1, <2>6 DEF HalfWritten
    <3> QED
      BY <2>1, <2>2, <2>3, <2>6, <3>1 DEF Writes, HalfWritten, FieldsWhole
  <2> QED
    BY <1>1, <2>1, <2>4, <2>5, <2>6, OneWrite DEF Writes
<1>3. ASSUME NEW v \in Workers, WorkerStep(v), ~DirectWrite(v)
      PROVE  HalfWritten' /\ FieldsWhole'
  <2>1. /\ Same(v) /\ ~Halfway(th[v].buf) /\ ~Halfway(th'[v].buf)
    BY <1>1, <1>3, PlacesStep, BlocksOfThread DEF WorkerStep
  <2>2. UNCHANGED <<build, logic>>
    BY <1>3 DEF WorkerStep, Call, TxnBegin, TxnWrite, TxnCommit, TxnAbort, Spin,
       SpinEnds, DecideDirect, DecideClosed, DecidePost, Post, PostGone, Answered,
       DirectLock, Direct, DirectSet, Notified, DirectReturn, callVars
  <2>3. model'.p = model.p /\ model'.q = model.q
    BY <1>1, <1>3 DEF WorkerStep, Call, TxnBegin, TxnWrite, TxnCommit, TxnAbort, Spin,
       SpinEnds, DecideDirect, DecideClosed, DecidePost, Post, PostGone, Answered,
       DirectLock, Direct, DirectSet, Notified, DirectReturn
  <2>4. \/ done'.torn = done.torn
        \/ done'.torn = (done.torn \/ Halfway(logic.batch)) /\ Holds(v)
    <3>1. CASE Direct(v)
      BY <1>1, <3>1 DEF Direct, MarkedTorn
    <3>2. CASE Post(v) \/ DirectSet(v)
      BY <1>1, <3>2 DEF Post, DirectSet, Marked
    <3>3. CASE ~Direct(v) /\ ~Post(v) /\ ~DirectSet(v)
      BY <1>3, <3>3 DEF WorkerStep, Call, TxnBegin, TxnWrite, TxnCommit, TxnAbort, Spin,
         SpinEnds, DecideDirect, DecideClosed, DecidePost, PostGone, Answered,
         DirectLock, Notified, DirectReturn
    <3> QED
      BY <3>1, <3>2, <3>3
  <2>5. (done.torn => done'.torn) /\ (done'.torn => build'.free)
    BY <1>1, <2>2, <2>4, HalfwayAlone DEF FieldsWhole, Holds
  <2> QED
    BY <1>1, <2>1, <2>2, <2>3, <2>5, FieldsKept DEF Same
<1>4. CASE RunClosure
  <2> DEFINE c == Head(queue)
  <2>1. /\ c = queue[1] /\ 1 \in DOMAIN queue /\ c.by \in Workers
        /\ c.op \in Ops /\ c.batch \in Batch /\ Paired(c.batch)
        /\ c.op = "read" => Sees(c.by, "answered", done.adds[c.by])
        /\ c.op # "read" => th' = th
    BY <1>1, <1>4, ClosureDoes DEF Closure, BatchesWhole
  <2>2. logic'.batch \in {logic.batch, c.batch} /\ logic.pc = "drain"
    BY <1>1, <1>4, <2>1 DEF RunClosure, Ops
  <2>3. ~Halfway(logic.batch) /\ ~Halfway(logic'.batch)
    BY <2>1, <2>2, HalfwayAlone, PairedIsWhole
  <2>4. \A w \in Workers : th'[w].buf = th[w].buf
    BY <2>1 DEF Sees, Same
  <2>5. /\ UNCHANGED <<model, build>>
        /\ done'.torn = (done.torn \/ (c.op = "read" /\ Tears))
    BY <1>1, <1>4 DEF RunClosure, logicRest
  <2>6. Tears => build.free
    BY <2>2, HalfwayAlone DEF Tears
  <2> HIDE DEF c
  <2> QED
    BY <1>1, <2>3, <2>4, <2>5, <2>6, FieldsKept DEF FieldsWhole
<1>5. CASE ApplyWrite
  <2> DEFINE b == logic.batch
  <2>1. /\ b # <<>> /\ model' = Written(model, b) /\ UNCHANGED <<build, th>>
        /\ logic'.batch = Tail(b) /\ done'.torn = (done.torn \/ Tears)
        /\ logic.pc = "write"
    BY <1>1, <1>5 DEF ApplyWrite, logicRest
  <2>2. done'.torn => build'.free
    <3>1. Tears => build.free
      BY <2>1, HalfwayAlone DEF Tears
    <3> QED
      BY <1>1, <2>1, <3>1 DEF FieldsWhole
  <2>4. Paired(b) \/ Parted(b)
    BY <1>1 DEF BatchesWhole
  <2>5. CASE /\ ~Halfway(b) /\ Parted(Tail(b)) /\ model'.p = Head(Tail(b))[2]
    BY <2>1, <2>2, <2>5 DEF HalfWritten, FieldsWhole, Tears, Parted
  <2>6. CASE /\ Halfway(b) /\ ~Halfway(Tail(b))
             /\ model'.p = model.p /\ model'.q = Head(b)[2]
    <3>1. ~done'.torn => model'.p = model'.q
      BY <1>1, <2>1, <2>6 DEF HalfWritten
    <3> QED
      BY <2>1, <2>2, <2>6, <3>1 DEF HalfWritten, FieldsWhole, Tears
  <2> QED
    BY <1>1, <2>1, <2>4, <2>5, <2>6, OneWrite
<1>6. CASE Reset
  <2>1. UNCHANGED <<model, build, logic>> /\ done'.torn = done.torn
    BY <1>1, <1>6 DEF Reset
  <2>2. \A w \in Workers : th'[w].buf = th[w].buf
    BY <1>1, <1>6, ResetDoes
  <2> QED
    BY <1>1, <2>1, <2>2, FieldsKept DEF FieldsWhole
<1>7. CASE \/ Setup \/ TakeTask \/ FinishAdd \/ EndDrain
           \/ Start \/ FinalDrain \/ CloseWindow \/ Finish \/ RequestQuit
           \/ \E v \in Workers : Yield(v) \/ Resume(v)
           \/ UNCHANGED pdVars
  <2>1. UNCHANGED <<build, th>>
    BY <1>7 DEF Setup, TakeTask, FinishAdd, EndDrain, Start, FinalDrain, CloseWindow,
       Finish, RequestQuit, logicRest, runRest, Yield, Resume, callVars, pdVars
  <2>2. logic'.batch = logic.batch
    BY <1>1, <1>7 DEF Setup, TakeTask, FinishAdd, EndDrain, Start, FinalDrain, CloseWindow,
       Finish, RequestQuit, Yield, Resume, callVars, pdVars
  <2>4. model'.p = model.p /\ model'.q = model.q
    BY <1>1, <1>7 DEF Setup, TakeTask, FinishAdd, EndDrain, Start, FinalDrain, CloseWindow,
       Finish, RequestQuit, runRest, Yield, Resume, pdVars
  <2>3. done'.torn = done.torn
    BY <1>1, <1>7 DEF Setup, TakeTask, FinishAdd, EndDrain, Start, FinalDrain, CloseWindow,
       Finish, RequestQuit, runRest, Yield, Resume, pdVars
  <2> QED
    BY <1>1, <2>1, <2>2, <2>3, <2>4, FieldsKept DEF FieldsWhole
<1> QED
  BY <1>2, <1>3, <1>4, <1>5, <1>6, <1>7 DEF PdNext, WorkerStep, LogicStep, RunnerStep

LEMMA TransactionsStep ==
    ASSUME ConstantsAssumption, DispatchInv, [PdNext]_pdVars
    PROVE  TransactionsHold'
<1>1. PdTypeOK' /\ BatchesWhole' /\ LocksHeld' /\ HalfWritten' /\ FieldsWhole'
  BY TypesStep, BatchesStep, LocksStep, FieldsStep
<1>2. ASSUME NEW w \in Workers, th'[w].op = "read", th'[w].pc = "direct",
             NEW u \in Workers, Halfway(th'[u].buf)
      PROVE  FALSE
  <2>1. th'[u].buf \in Batch
    BY <1>1 DEF PdTypeOK, Thread
  <2>2. th'[u].pc = "direct" /\ th'[u].op = "txn"
    BY <1>1, <1>2, <2>1, PairedIsWhole DEF BatchesWhole
  <2>3. direct' = w /\ direct' = u
    BY <1>1, <1>2, <2>2 DEF LocksHeld
  <2> QED
    BY <1>2, <2>2, <2>3
<1> QED
  BY <1>1, <1>2 DEF TransactionsHold, TransactionsWhole, FieldsWhole, Tears

-----------------------------------------------------------------------------
(* The handle, and the reads made without it. *)

HandleHolds == HandleCovers /\ ReadsDirect

LEMMA HandleInit == ASSUME ConstantsAssumption, PdInit PROVE HandleHolds
  BY DEF ConstantsAssumption, PdInit, HandleHolds, HandleCovers, ReadsDirect

LEMMA HandleOfThread ==
    ASSUME ConstantsAssumption, DispatchInv, NEW v \in Workers, WorkerStep(v)
    PROVE  HandleHolds'
<1>1. /\ PdTypeOK /\ HandleCovers /\ ReadsDirect /\ Same(v) /\ Nobody \notin Workers
  BY PlacesStep DEF DispatchInv, ConstantsAssumption, WorkerStep
<1>2. UNCHANGED <<app, logic>>
  BY DEF WorkerStep, Call, TxnBegin, TxnWrite, TxnCommit, TxnAbort, Spin, SpinEnds,
     DecideDirect, DecideClosed, DecidePost, Post, PostGone, Answered, DirectLock,
     Direct, DirectWrite, DirectSet, Notified, DirectReturn, callVars
<1>3. queue' = queue \/ (Post(v) /\ th[v].pc = "post")
  BY DEF WorkerStep, Call, TxnBegin, TxnWrite, TxnCommit, TxnAbort, Spin, SpinEnds,
     DecideDirect, DecideClosed, DecidePost, Post, PostGone, Answered, DirectLock,
     Direct, DirectWrite, DirectSet, Notified, DirectReturn
<1>4. th'[v].pc = "post" => app.handle
  <2>1. th'[v].pc = "post" => DecidePost(v)
    BY <1>1, PlacesStep DEF WorkerStep
  <2>2. QED
    BY <2>1 DEF DecidePost
<1>5. HandleCovers'
  BY <1>1, <1>2, <1>3, <1>4 DEF HandleCovers, Same
<1>6. \/ hlock' = hlock
      \/ hlock = Nobody /\ hlock' \in {v, Nobody}
      \/ hlock = v /\ th[v].pc = "out"
  BY DEF WorkerStep, Call, TxnBegin, TxnWrite, TxnCommit, TxnAbort, Spin, SpinEnds,
     DecideDirect, DecideClosed, DecidePost, Post, PostGone, Answered, DirectLock,
     Direct, DirectWrite, DirectSet, Notified, DirectReturn
<1>7. \A w \in Workers \ {v} :
         th'[w].op = "read" /\ ~th'[w].late /\ th'[w].pc \in {"lock", "direct"}
            => hlock' = w /\ ~app'.handle
  BY <1>1, <1>2, <1>6 DEF ReadsDirect, Same
<1>8. th'[v].op = "read" /\ ~th'[v].late /\ th'[v].pc \in {"lock", "direct"}
         => hlock' = v /\ ~app'.handle
  <2>1. CASE DecideDirect(v)
    <3>1. th'[v].op = th[v].op
      BY <1>1, <2>1, GoMoves DEF DecideDirect, Moves
    <3>2. QED
      BY <1>2, <2>1, <3>1 DEF DecideDirect
  <2>2. CASE DecideClosed(v) \/ PostGone(v)
    <3>1. Turns(v, "lock", TRUE) \/ Returns(v)
      BY <1>1, <2>2, TurnsDoes, BackReturns DEF DecideClosed, PostGone
    <3> QED
      BY <3>1 DEF Turns, Returns
  <2>3. CASE DirectLock(v)
    <3>1. Moves(v, "direct") /\ th[v].pc = "lock" /\ hlock' = hlock
      BY <1>1, <2>3, GoMoves DEF DirectLock
    <3>2. QED
      BY <1>1, <1>2, <3>1 DEF Moves, ReadsDirect
  <2>6. CASE DirectWrite(v)
    BY <1>1, <2>6, WriteDoes DEF Writes
  <2>4. CASE ~DecideDirect(v) /\ ~DecideClosed(v) /\ ~PostGone(v) /\ ~DirectLock(v)
             /\ ~DirectWrite(v)
    BY <1>1, <2>4, PlacesStep DEF WorkerStep
  <2>5. QED
    BY <2>1, <2>2, <2>3, <2>4, <2>6
<1>9. QED
  BY <1>5, <1>7, <1>8 DEF HandleHolds, ReadsDirect

LEMMA HandleStep ==
    ASSUME ConstantsAssumption, DispatchInv, [PdNext]_pdVars
    PROVE  HandleHolds'
<1>1. /\ PdTypeOK /\ HandleCovers /\ ReadsDirect /\ Nobody \notin Workers
      /\ Workers \cap {"logic", "runner", "off", "setup", "idle", "drain", "write"} = {}
      /\ logic \in [pc : {"off", "setup", "idle", "drain", "write"} \cup Workers,
                    task : {"drain", "final"}, tmp : Nat, batch : Batch]
      /\ app \in [guard : BOOLEAN, handle : BOOLEAN, shut : BOOLEAN, quit : BOOLEAN,
                  runner : {"out", "running", "draining", "closing", "joined"},
                  runs : 0..MaxRuns]
  BY DEF DispatchInv, ConstantsAssumption, PdTypeOK
<1>2. CASE \E v \in Workers : WorkerStep(v)
  BY <1>2, HandleOfThread
<1>3. CASE \E v \in Workers : Yield(v) \/ Resume(v)
  BY <1>1, <1>3 DEF Yield, Resume, callVars, HandleHolds, HandleCovers, ReadsDirect
<1>4. CASE RunClosure
  <2>1. \A w \in Workers : th'[w] = th[w] \/ th'[w].pc = "answered"
    BY <1>1, <1>4, ClosureDoes DEF Sees, Same
  <2>2. /\ logic.pc = "drain" /\ logic'.pc \in {"drain", "write"} \cup Workers
        /\ UNCHANGED <<app, hlock>>
    <3>1. Head(queue).op \in Ops /\ Head(queue).by \in Workers
      BY <1>1, <1>4, ClosureDoes DEF Closure
    <3> QED
      BY <1>1, <1>4, <3>1 DEF RunClosure, logicRest, Ops
  <2>3. QED
    BY <1>1, <2>1, <2>2 DEF HandleHolds, HandleCovers, ReadsDirect
<1>5. CASE Setup
  BY <1>1, <1>5 DEF Setup, logicRest, HandleHolds, HandleCovers, ReadsDirect
<1>6. CASE TakeTask \/ FinishAdd \/ EndDrain
  BY <1>1, <1>6, ZenonT(30) DEF TakeTask, FinishAdd, EndDrain, logicRest, HandleHolds, HandleCovers,
     ReadsDirect
<1>11. CASE ApplyWrite
  <2>1. UNCHANGED <<app, hlock, queue, th>> /\ logic.pc = "write"
    BY <1>11 DEF ApplyWrite, logicRest
  <2>2. logic'.pc \in {"write", "drain"}
    BY <1>1, <1>11 DEF ApplyWrite
  <2> QED
    BY <1>1, <2>1, <2>2 DEF HandleHolds, HandleCovers, ReadsDirect
<1>7. CASE Reset
  <2>1. \A w \in Workers : /\ th'[w].op = th[w].op /\ th'[w].late = th[w].late
                           /\ th'[w].pc # "post"
                           /\ th'[w].pc \in {"lock", "direct"} => th'[w].pc = th[w].pc
    BY <1>1, <1>7, ResetDoes
  <2>2. /\ queue' = <<>> /\ UNCHANGED <<logic, hlock>>
        /\ app'.runner = "out" /\ ~app'.handle /\ app.runner = "joined"
    BY <1>1, <1>7 DEF Reset
  <2>3. QED
    BY <1>1, <2>1, <2>2 DEF HandleHolds, HandleCovers, ReadsDirect
<1>8. CASE Start \/ FinalDrain \/ CloseWindow \/ Finish \/ RequestQuit
  <2>1. UNCHANGED <<th, queue, hlock>> /\ app'.handle = app.handle
    BY <1>1, <1>8 DEF Start, FinalDrain, CloseWindow, Finish, RequestQuit, runRest
  <2>2. \/ app'.runner = "running" /\ logic'.pc = "setup"
        \/ app'.runner = "joined" /\ logic'.pc = "off"
        \/ /\ app.runner \notin {"out", "joined"} /\ app'.runner \notin {"out", "joined"}
           /\ logic' = logic
    BY <1>1, <1>8 DEF Start, FinalDrain, CloseWindow, Finish, RequestQuit
  <2>3. QED
    BY <1>1, <2>1, <2>2 DEF HandleHolds, HandleCovers, ReadsDirect
<1>9. CASE UNCHANGED pdVars
  BY <1>1, <1>9 DEF pdVars, HandleHolds, HandleCovers, ReadsDirect
<1>10. QED
  BY <1>2, <1>3, <1>4, <1>5, <1>6, <1>7, <1>8, <1>9, <1>11 DEF PdNext, LogicStep, RunnerStep

-----------------------------------------------------------------------------
(* The queue. *)

LEMMA Queued ==
    ASSUME PdTypeOK, NEW v \in Workers, Post(v)
    PROVE  /\ Len(queue) \in Nat /\ DOMAIN queue = 1..Len(queue)
           /\ Len(queue') = Len(queue) + 1 /\ DOMAIN queue' = 1..(Len(queue) + 1)
           /\ \A i \in 1..Len(queue) : queue'[i] = queue[i]
           /\ queue'[Len(queue) + 1].by = v /\ queue'[Len(queue) + 1].op = th[v].op
<1>1. queue \in Seq(Closure) /\ th[v] \in Thread
  BY DEF PdTypeOK
<1>2. Posted(v) \in Closure /\ Posted(v).by = v /\ Posted(v).op = th[v].op
  BY <1>1 DEF Posted, Closure, Thread
<1>3. queue' = Append(queue, Posted(v))
  BY DEF Post, Enqueued
<1>4. /\ queue' \in Seq(Closure) /\ Len(queue') = Len(queue) + 1
      /\ \A i \in 1..Len(queue) : queue'[i] = queue[i]
      /\ queue'[Len(queue) + 1] = Posted(v)
  BY <1>1, <1>2, <1>3, Appended
<1>5. QED
  BY <1>1, <1>2, <1>4

LEMMA Taken1 ==
    ASSUME PdTypeOK, RunClosure
    PROVE  /\ Len(queue) \in Nat \ {0} /\ DOMAIN queue = 1..Len(queue)
           /\ Len(queue') = Len(queue) - 1 /\ DOMAIN queue' = 1..(Len(queue) - 1)
           /\ \A i \in 1..(Len(queue) - 1) : queue'[i] = queue[i + 1]
           /\ Head(queue) = queue[1] /\ queue[1].by \in Workers
<1>1. queue \in Seq(Closure) /\ queue # <<>> /\ queue' = Tail(queue)
  BY DEF PdTypeOK, RunClosure
<1>2. Head(queue) = queue[1] /\ queue[1] \in Closure
  BY <1>1, HeadTail
<1>3. queue[1].by \in Workers
  BY <1>2 DEF Closure
<1>4. QED
  BY <1>1, <1>2, <1>3, HeadTail

LEMMA QueueOfThread ==
    ASSUME NEW v \in Workers, WorkerStep(v), ~Post(v)
    PROVE  queue' = queue
  BY DEF WorkerStep, Call, TxnBegin, TxnWrite, TxnCommit, TxnAbort, Spin, SpinEnds,
     DecideDirect, DecideClosed, DecidePost, PostGone, Answered, DirectLock, Direct, DirectWrite,
     DirectSet, Notified, DirectReturn

LEMMA AwaitedStep ==
    ASSUME ConstantsAssumption, DispatchInv, [PdNext]_pdVars
    PROVE  ReadsAwaited'
<1>1. PdTypeOK /\ ReadsAwaited /\ queue \in Seq(Closure)
      /\ \A i \in DOMAIN queue : queue[i].by \in Workers
  <2>1. PdTypeOK /\ ReadsAwaited /\ queue \in Seq(Closure)
    BY DEF DispatchInv, PdTypeOK
  <2>2. \A i \in DOMAIN queue : queue[i] \in Closure
    BY <2>1
  <2>3. QED
    BY <2>1, <2>2 DEF Closure
<1>2. ASSUME NEW v \in Workers, WorkerStep(v)
      PROVE  ReadsAwaited'
  <2>1. Same(v)
    BY <1>1, <1>2, PlacesStep DEF WorkerStep
  <2>2. CASE Post(v)
    <3>1. th[v].pc = "post"
      BY <2>2 DEF Post
    <3>2. th[v].op = "read" => th'[v].pc = "wait" /\ th'[v].op = "read"
      BY <1>1, <2>2, PostDoes DEF Turns
    <3>3. \A i \in DOMAIN queue : queue[i].op = "read" => queue[i].by # v
      BY <1>1, <3>1 DEF ReadsAwaited
    <3>4. /\ Len(queue) \in Nat /\ DOMAIN queue = 1..Len(queue)
          /\ DOMAIN queue' = 1..(Len(queue) + 1)
          /\ \A i \in 1..Len(queue) : queue'[i] = queue[i]
          /\ queue'[Len(queue) + 1].by = v /\ queue'[Len(queue) + 1].op = th[v].op
      BY <1>1, <2>2, Queued
    <3>5. ASSUME NEW i \in DOMAIN queue', queue'[i].op = "read"
          PROVE  /\ th'[queue'[i].by].pc = "wait" /\ th'[queue'[i].by].op = "read"
                 /\ i # Len(queue) + 1 => i \in DOMAIN queue /\ queue'[i] = queue[i]
                                          /\ queue[i].by # v
      <4>1. CASE i = Len(queue) + 1
        BY <3>2, <3>4, <3>5, <4>1
      <4>2. CASE i # Len(queue) + 1
        <5>1. i \in DOMAIN queue /\ queue'[i] = queue[i]
          BY <3>4, <4>2
        <5>2. QED
          BY <1>1, <2>1, <3>3, <3>5, <5>1 DEF Same, ReadsAwaited
      <4>3. QED
        BY <4>1, <4>2
    <3>6. QED
      BY <1>1, <3>4, <3>5 DEF ReadsAwaited
  <2>3. CASE ~Post(v)
    <3>1. queue' = queue
      BY <1>2, <2>3, QueueOfThread
    <3>2. th[v].pc # "wait"
      BY <1>2 DEF WorkerStep, Call, TxnBegin, TxnWrite, TxnCommit, TxnAbort, Spin, SpinEnds,
         DecideDirect, DecideClosed, DecidePost, Post, PostGone, Answered, DirectLock,
         Direct, DirectWrite, DirectSet, Notified, DirectReturn
    <3>3. QED
      BY <1>1, <2>1, <3>1, <3>2 DEF ReadsAwaited, Same
  <2>4. QED
    BY <2>2, <2>3
<1>3. CASE RunClosure
  <2>1. /\ Len(queue) \in Nat \ {0} /\ DOMAIN queue = 1..Len(queue)
        /\ DOMAIN queue' = 1..(Len(queue) - 1)
        /\ \A i \in 1..(Len(queue) - 1) : queue'[i] = queue[i + 1]
        /\ Head(queue) = queue[1]
    BY <1>1, <1>3, Taken1
  <2>2. \A w \in Workers : th'[w] = th[w] \/ (queue[1].op = "read" /\ w = queue[1].by)
    BY <1>1, <1>3, <2>1, ClosureDoes DEF Sees, Same
  <2>3. \A i \in DOMAIN queue' : /\ i + 1 \in DOMAIN queue /\ i + 1 # 1 /\ 1 \in DOMAIN queue
                                 /\ queue'[i] = queue[i + 1]
    BY <2>1
  <2>4. ASSUME NEW i \in DOMAIN queue', queue'[i].op = "read"
        PROVE  th'[queue'[i].by].pc = "wait" /\ th'[queue'[i].by].op = "read"
    BY <1>1, <2>2, <2>3, <2>4 DEF ReadsAwaited
  <2>5. ASSUME NEW i \in DOMAIN queue', NEW j \in DOMAIN queue', queue'[i].op = "read",
               queue'[j].op = "read", queue'[i].by = queue'[j].by
        PROVE  i = j
    <3>1. i + 1 = j + 1
      BY <1>1, <2>3, <2>5 DEF ReadsAwaited
    <3>2. QED
      BY <2>1, <3>1
  <2>6. QED
    BY <2>4, <2>5 DEF ReadsAwaited
<1>4. CASE Reset
  BY <1>4 DEF Reset, ReadsAwaited
<1>5. CASE \/ \E v \in Workers : Yield(v) \/ Resume(v)
           \/ Setup \/ TakeTask \/ ApplyWrite \/ FinishAdd \/ EndDrain
           \/ Start \/ FinalDrain \/ CloseWindow \/ Finish \/ RequestQuit \/ UNCHANGED pdVars
  <2>1. UNCHANGED <<th, queue>>
    BY <1>5 DEF Yield, Resume, Setup, TakeTask, ApplyWrite, FinishAdd, EndDrain, Start,
       FinalDrain, CloseWindow, Finish, RequestQuit, runRest, pdVars
  <2>2. QED
    BY <1>1, <2>1 DEF ReadsAwaited
<1>6. QED
  BY <1>2, <1>3, <1>4, <1>5 DEF PdNext, LogicStep, RunnerStep

-----------------------------------------------------------------------------
(* What a thread is owed. *)

\* A step that leaves the queue and the counts alone.
LEMMA OwingSame ==
    ASSUME NEW w \in Workers, Owing(w), queue' = queue, done'.owed[w] = done.owed[w],
           done'.adds[w] = done.adds[w], logic'.pc = w <=> logic.pc = w
    PROVE  Owing(w)'
  BY DEF Owing, Counts

LEMMA OwingPost ==
    ASSUME PdTypeOK, ReadsAwaited, NEW v \in Workers, Post(v), NEW w \in Workers, Owing(w)
    PROVE  Owing(w)'
<1>1. /\ Len(queue) \in Nat /\ DOMAIN queue = 1..Len(queue)
      /\ Len(queue') = Len(queue) + 1 /\ DOMAIN queue' = 1..(Len(queue) + 1)
      /\ \A i \in 1..Len(queue) : queue'[i] = queue[i]
      /\ queue'[Len(queue) + 1].by = v /\ queue'[Len(queue) + 1].op = th[v].op
  BY Queued
<1> DEFINE l == Len(queue)
           d == IF v = w /\ th[v].op = "add" THEN 1 ELSE 0
<1>2. PICK c \in [1..l + 1 -> Nat] :
        /\ Counts(w, c)
        /\ done.owed[w] = done.adds[w] + c[1] + (IF logic.pc = w THEN 1 ELSE 0)
  BY DEF Owing
<1> DEFINE e == [i \in 1..l + 2 |-> IF i <= l + 1 THEN c[i] + d ELSE 0]
<1>3. /\ e \in [1..l + 2 -> Nat] /\ e[l + 2] = 0 /\ e[l + 1] = d /\ e[1] = c[1] + d
      /\ \A i \in 1..l + 1 : e[i] = c[i] + d
  BY <1>1, <1>2 DEF Counts
<1>4. ASSUME NEW i \in DOMAIN queue'
      PROVE  /\ e[i] = e[i + 1] + (IF queue'[i].by = w /\ queue'[i].op = "add" THEN 1 ELSE 0)
             /\ queue'[i].by = w /\ queue'[i].op = "read" => e[i] = 0
  <2>1. CASE i = l + 1
    BY <1>1, <1>3, <2>1
  <2>2. CASE i # l + 1
    <3>1. i \in DOMAIN queue /\ queue'[i] = queue[i] /\ i + 1 \in 1..l + 1
      BY <1>1, <2>2
    <3>2. queue[i].by = w /\ queue[i].op = "read" => d = 0
      BY <3>1 DEF ReadsAwaited, Post
    <3>3. /\ c[i] = c[i + 1] + (IF queue[i].by = w /\ queue[i].op = "add" THEN 1 ELSE 0)
          /\ queue[i].by = w /\ queue[i].op = "read" => c[i] = 0
      BY <1>2, <3>1 DEF Counts
    <3>4. /\ e[i] = c[i] + d /\ e[i + 1] = c[i + 1] + d
          /\ c[i] \in Nat /\ c[i + 1] \in Nat /\ d \in Nat
      BY <1>1, <1>2, <1>3, <3>1
    <3> HIDE DEF e, d
    <3>5. QED
      BY <3>1, <3>2, <3>3, <3>4
  <2>3. QED
    BY <2>1, <2>2
<1>5. /\ done'.owed[w] = done.owed[w] + d /\ done'.adds[w] = done.adds[w]
      /\ done.owed[w] \in Nat /\ done.adds[w] \in Nat /\ logic' = logic
  BY DEF Post, PdTypeOK
<1>6. c[1] \in Nat /\ d \in Nat
  BY <1>1, <1>2
<1> HIDE DEF e, d
<1>7. done'.owed[w] = done'.adds[w] + e[1] + (IF logic'.pc = w THEN 1 ELSE 0)
  BY <1>2, <1>3, <1>5, <1>6
<1>8. e[Len(queue') + 1] = 0 /\ e \in [1..Len(queue') + 1 -> Nat]
  BY <1>1, <1>3
<1>9. QED
  BY <1>4, <1>7, <1>8 DEF Owing, Counts

LEMMA OwingRun ==
    ASSUME PdTypeOK, RunClosure, NEW w \in Workers, Owing(w),
           Workers \cap {"logic", "runner", "off", "setup", "idle", "drain", "write"} = {}
    PROVE  /\ Owing(w)'
           /\ queue[1].by = w /\ queue[1].op = "read" => done.owed[w] = done.adds[w]
<1>1. /\ Len(queue) \in Nat \ {0} /\ DOMAIN queue = 1..Len(queue)
      /\ Len(queue') = Len(queue) - 1 /\ DOMAIN queue' = 1..(Len(queue) - 1)
      /\ \A i \in 1..(Len(queue) - 1) : queue'[i] = queue[i + 1]
      /\ Head(queue) = queue[1] /\ queue[1].by \in Workers
  BY Taken1
<1> DEFINE l == Len(queue)
<1>2. PICK c \in [1..l + 1 -> Nat] :
        /\ Counts(w, c)
        /\ done.owed[w] = done.adds[w] + c[1] + (IF logic.pc = w THEN 1 ELSE 0)
  BY DEF Owing
<1> DEFINE e == [i \in 1..l |-> c[i + 1]]
           d == IF queue[1].by = w /\ queue[1].op = "add" THEN 1 ELSE 0
<1>3. /\ e \in [1..l -> Nat] /\ e[l] = 0 /\ c[1] = e[1] + d /\ c[1] \in Nat /\ e[1] \in Nat
      /\ queue[1].by = w /\ queue[1].op = "read" => c[1] = 0
      /\ \A i \in 1..l : e[i] = c[i + 1]
  <2>1. /\ c[l + 1] = 0 /\ 1 \in DOMAIN queue /\ 1 \in 1..l /\ l \in 1..l
        /\ c[1] = c[1 + 1] + d
        /\ queue[1].by = w /\ queue[1].op = "read" => c[1] = 0
    BY <1>1, <1>2 DEF Counts
  <2>2. \A i \in 1..l : i + 1 \in 1..l + 1
    BY <1>1
  <2>3. e \in [1..l -> Nat] /\ \A i \in 1..l : e[i] = c[i + 1]
    BY <1>2, <2>2
  <2>4. c[1] \in Nat
    BY <1>1, <1>2
  <2> HIDE DEF e, d
  <2>5. QED
    BY <1>1, <2>1, <2>3, <2>4
<1>4. ASSUME NEW i \in DOMAIN queue'
      PROVE  /\ e[i] = e[i + 1] + (IF queue'[i].by = w /\ queue'[i].op = "add" THEN 1 ELSE 0)
             /\ queue'[i].by = w /\ queue'[i].op = "read" => e[i] = 0
  <2>1. /\ i + 1 \in DOMAIN queue /\ queue'[i] = queue[i + 1] /\ i \in 1..l
        /\ i + 1 \in 1..l
    BY <1>1
  <2>2. e[i] = c[i + 1] /\ e[i + 1] = c[(i + 1) + 1]
    <3> HIDE DEF e
    <3>1. QED
      BY <1>3, <2>1
  <2> HIDE DEF e
  <2>3. /\ c[i + 1] = c[(i + 1) + 1]
                     + (IF queue[i + 1].by = w /\ queue[i + 1].op = "add" THEN 1 ELSE 0)
        /\ queue[i + 1].by = w /\ queue[i + 1].op = "read" => c[i + 1] = 0
    BY <1>2, <2>1 DEF Counts
  <2>4. QED
    BY <2>1, <2>2, <2>3
<1>5. /\ done'.owed = done.owed /\ done'.adds = done.adds
      /\ done.owed[w] \in Nat /\ done.adds[w] \in Nat
      /\ logic.pc = "drain"
      /\ IF queue[1].op = "add" THEN logic'.pc = queue[1].by ELSE logic'.pc \in {"drain", "write"}
  <2>1. queue[1].op \in Ops
    <3>1. queue[1] \in Closure
      BY <1>1, ClosureDoes
    <3> QED
      BY <3>1 DEF Closure
  <2> QED
    BY <1>1, <2>1 DEF RunClosure, PdTypeOK, Ops
<1>6. (IF logic'.pc = w THEN 1 ELSE 0) = d /\ logic.pc # w
  BY <1>1, <1>5
<1> HIDE DEF e, d
<1>7. done'.owed[w] = done'.adds[w] + e[1] + (IF logic'.pc = w THEN 1 ELSE 0)
  BY <1>2, <1>3, <1>5, <1>6
<1>8. e[Len(queue') + 1] = 0 /\ e \in [1..Len(queue') + 1 -> Nat]
  BY <1>1, <1>3
<1>9. Owing(w)'
  BY <1>4, <1>7, <1>8 DEF Owing, Counts
<1>10. QED
  BY <1>2, <1>3, <1>5, <1>6, <1>9

\* With nothing queued and nothing begun, everything is applied.
LEMMA OwingEmpty ==
    ASSUME NEW w \in Workers, queue = <<>>, logic.pc # w, PdTypeOK
    PROVE  Owing(w) <=> done.owed[w] = done.adds[w]
<1>1. done.owed[w] \in Nat /\ done.adds[w] \in Nat /\ Len(queue) = 0 /\ DOMAIN queue = {}
  BY DEF PdTypeOK
<1>2. Owing(w) => done.owed[w] = done.adds[w]
  BY <1>1 DEF Owing, Counts
<1>3. done.owed[w] = done.adds[w] => Owing(w)
  <2>1. [i \in 1..1 |-> 0] \in [1..Len(queue) + 1 -> Nat]
    BY <1>1
  <2>2. Counts(w, [i \in 1..1 |-> 0])
    BY <1>1 DEF Counts
  <2>3. QED
    BY <1>1, <2>1, <2>2 DEF Owing
<1>4. QED
  BY <1>2, <1>3

-----------------------------------------------------------------------------
(* Reads. *)

ReadsHold == ReadsExact /\ \A w \in Workers : Owing(w)

LEMMA ReadsInit == ASSUME ConstantsAssumption, PdInit PROVE ReadsHold
<1>1. PdTypeOK /\ queue = <<>>
  BY TypesInit DEF PdInit
<1>2. \A w \in Workers : logic.pc # w /\ done.owed[w] = done.adds[w] /\ th[w].pc = "py"
  BY DEF PdInit, ConstantsAssumption
<1>3. QED
  BY <1>1, <1>2, OwingEmpty DEF ReadsHold, ReadsExact

LEMMA ReadsOfThread ==
    ASSUME ConstantsAssumption, DispatchInv, NEW v \in Workers, WorkerStep(v)
    PROVE  ReadsHold'
<1>1. /\ PdTypeOK /\ ReadsHold /\ ReadsAwaited /\ ReadsDirect /\ HandleCovers /\ HalfAdds
      /\ Same(v)
      /\ done \in [adds : [Workers -> Nat], owed : [Workers -> Nat], total : Nat,
                   straddled : BOOLEAN, torn : BOOLEAN]
      /\ Workers \cap {"logic", "runner", "off", "setup", "idle", "drain", "write"} = {}
      /\ WritesNotify
  BY PlacesStep DEF DispatchInv, WorkerStep, ReadsHold, PdTypeOK, ConstantsAssumption
<1>2. logic' = logic
  BY DEF WorkerStep, Call, TxnBegin, TxnWrite, TxnCommit, TxnAbort, Spin, SpinEnds,
     DecideDirect, DecideClosed, DecidePost, Post, PostGone, Answered, DirectLock,
     Direct, DirectWrite, DirectSet, Notified, DirectReturn, callVars
<1>3. CASE Post(v)
  <2>1. \A w \in Workers : Owing(w)'
    BY <1>1, <1>3, OwingPost DEF ReadsHold
  <2>2. th'[v].pc \notin {"answered", "out"}
    BY <1>1, <1>3, PlacesStep
  <2>3. \A w \in Workers \ {v} : done'.owed[w] = done.owed[w] /\ done'.adds[w] = done.adds[w]
    BY <1>1, <1>3 DEF Post
  <2>4. QED
    BY <1>1, <2>1, <2>2, <2>3 DEF ReadsHold, ReadsExact, Same
<1>4. CASE DirectSet(v)
  <2>1. /\ done'.owed[v] = done.owed[v] + 1 /\ done'.adds[v] = done.adds[v] + 1
        /\ \A w \in Workers \ {v} : done'.owed[w] = done.owed[w]
                                    /\ done'.adds[w] = done.adds[w]
        /\ queue' = queue
    BY <1>1, <1>4 DEF DirectSet, Marked
  <2>2. Owing(v)'
    <3>1. PICK c \in [1..Len(queue) + 1 -> Nat] :
            /\ Counts(v, c)
            /\ done.owed[v] = done.adds[v] + c[1] + (IF logic.pc = v THEN 1 ELSE 0)
      BY <1>1 DEF ReadsHold, Owing
    <3>2. c[1] \in Nat /\ done.owed[v] \in Nat /\ done.adds[v] \in Nat
      <4>1. queue \in Seq(Closure)
        BY <1>1 DEF PdTypeOK
      <4>2. 1 \in 1..Len(queue) + 1
        BY <4>1
      <4>3. QED
        BY <1>1, <3>1, <4>2
    <3>3. done'.owed[v] = done'.adds[v] + c[1] + (IF logic'.pc = v THEN 1 ELSE 0)
      BY <1>2, <2>1, <3>1, <3>2
    <3>4. QED
      BY <2>1, <3>1, <3>3 DEF Owing, Counts
  <2>3. \A w \in Workers : Owing(w)'
    BY <1>1, <1>2, <2>1, <2>2, OwingSame DEF ReadsHold
  <2>4. th'[v].op = "add"
    BY <1>1, <1>4, GoMoves DEF DirectSet, HalfAdds, Moves
  <2>5. QED
    BY <1>1, <2>1, <2>3, <2>4 DEF ReadsHold, ReadsExact, Same
<1>5. CASE ~Post(v) /\ ~DirectSet(v)
  <2>1. queue' = queue /\ done'.owed = done.owed /\ done'.adds = done.adds
    <3>1. CASE Direct(v) \/ DirectWrite(v)
      BY <1>1, <3>1 DEF Direct, DirectWrite, MarkedTorn
    <3>2. CASE ~Direct(v) /\ ~DirectWrite(v)
      BY <1>5, <3>2 DEF WorkerStep, Call, TxnBegin, TxnWrite, TxnCommit, TxnAbort, Spin,
         SpinEnds, DecideDirect, DecideClosed, DecidePost, PostGone, Answered, DirectLock,
         Notified, DirectReturn
    <3> QED
      BY <3>1, <3>2
  <2>2. \A w \in Workers : Owing(w)'
    BY <1>1, <1>2, <2>1, OwingSame DEF ReadsHold
  <2>3. CASE Direct(v)
    <3>1. ASSUME th[v].op = "read", ~th'[v].late, Sees(v, "out", done.adds[v])
          PROVE  th'[v].seen = done.adds[v] /\ done.owed[v] = done.adds[v]
      <4>1. th[v].pc = "direct" /\ ~th[v].late
        BY <2>3, <3>1 DEF Direct, Sees
      <4>2. queue = <<>> /\ logic.pc # v
        BY <1>1, <3>1, <4>1 DEF ReadsDirect, HandleCovers
      <4>3. QED
        BY <1>1, <3>1, <4>2, OwingEmpty DEF ReadsHold, Sees
    <3>2. th'[v].op = th[v].op /\ (th[v].op = "read" => Sees(v, "out", done.adds[v]))
      BY <1>1, <2>3, DirectDoes DEF Sees, HalfDone
    <3>3. QED
      BY <1>1, <2>1, <2>2, <3>1, <3>2 DEF ReadsHold, ReadsExact, Same
  <2>4. CASE Notified(v)
    <3>1. th[v].pc = "notify" /\ Moves(v, "out")
      BY <1>1, <2>4, GoMoves DEF Notified
    <3>2. th[v].op # "read"
      BY <1>1, <3>1 DEF WritesNotify
    <3>3. QED
      BY <1>1, <2>1, <2>2, <3>1, <3>2 DEF ReadsHold, ReadsExact, Same, Moves
  <2>7. CASE DirectWrite(v)
    <3>1. th'[v].op = "txn"
      BY <1>1, <2>7, WriteDoes DEF Writes
    <3>2. QED
      BY <1>1, <2>1, <2>2, <3>1 DEF ReadsHold, ReadsExact, Same
  <2>5. CASE ~Direct(v) /\ ~DirectWrite(v) /\ ~Notified(v)
    <3>1. th'[v].pc \notin {"answered", "out"}
      BY <1>1, <1>5, <2>5, PlacesStep DEF WorkerStep
    <3>2. QED
      BY <1>1, <2>1, <2>2, <3>1 DEF ReadsHold, ReadsExact, Same
  <2>6. QED
    BY <2>3, <2>4, <2>5, <2>7
<1>6. QED
  BY <1>3, <1>4, <1>5

LEMMA ReadsStep ==
    ASSUME ConstantsAssumption, DispatchInv, [PdNext]_pdVars
    PROVE  ReadsHold'
<1>1. /\ PdTypeOK /\ ReadsHold /\ ReadsAwaited /\ HandleCovers
      /\ done \in [adds : [Workers -> Nat], owed : [Workers -> Nat], total : Nat,
                   straddled : BOOLEAN, torn : BOOLEAN]
      /\ Workers \cap {"logic", "runner", "off", "setup", "idle", "drain", "write"} = {}
      /\ logic \in [pc : {"off", "setup", "idle", "drain", "write"} \cup Workers,
                    task : {"drain", "final"}, tmp : Nat, batch : Batch]
  BY DEF DispatchInv, ReadsHold, PdTypeOK, ConstantsAssumption
<1>2. CASE \E v \in Workers : WorkerStep(v)
  BY <1>2, ReadsOfThread
<1>3. CASE RunClosure
  <2> DEFINE c == Head(queue)
  <2>1. /\ c = queue[1] /\ c.by \in Workers
        /\ c.op = "read" => Sees(c.by, "answered", done.adds[c.by])
        /\ c.op # "read" => th' = th
    BY <1>1, <1>3, ClosureDoes
  <2>2. \A w \in Workers : /\ Owing(w)'
                           /\ c.by = w /\ c.op = "read" => done.owed[w] = done.adds[w]
    BY <1>1, <1>3, <2>1, OwingRun DEF ReadsHold
  <2>3. done'.owed = done.owed /\ done'.adds = done.adds
    BY <1>1, <1>3 DEF RunClosure
  <2> HIDE DEF c
  <2>4. ReadsExact'
    BY <1>1, <2>1, <2>2, <2>3 DEF ReadsHold, ReadsExact, Sees, Same
  <2>5. QED
    BY <2>2, <2>4 DEF ReadsHold
<1>4. CASE FinishAdd
  <2>9. PICK v \in Workers : v = logic.pc
    BY <1>4 DEF FinishAdd
  <2>1. /\ logic'.pc = "drain" /\ UNCHANGED <<th, queue>>
        /\ done'.adds[v] = done.adds[v] + 1 /\ done'.owed = done.owed
        /\ \A w \in Workers \ {v} : done'.adds[w] = done.adds[w]
    BY <1>1, <1>4, <2>9 DEF FinishAdd
  <2>2. PICK c \in [1..Len(queue) + 1 -> Nat] :
          /\ Counts(v, c)
          /\ done.owed[v] = done.adds[v] + c[1] + (IF logic.pc = v THEN 1 ELSE 0)
    BY <1>1, <2>1 DEF ReadsHold, Owing
  <2>3. c[1] \in Nat /\ done.owed[v] \in Nat /\ done.adds[v] \in Nat
    <3>1. queue \in Seq(Closure)
      BY <1>1 DEF PdTypeOK
    <3>2. 1 \in 1..Len(queue) + 1
      BY <3>1
    <3>3. QED
      BY <1>1, <2>2, <3>2
  <2>10. logic'.pc # v
    BY <1>1, <2>1
  <2>4. /\ done.owed[v] # done.adds[v]
        /\ done'.owed[v] = done'.adds[v] + c[1] + (IF logic'.pc = v THEN 1 ELSE 0)
    BY <2>1, <2>2, <2>3, <2>9, <2>10
  <2>5. Owing(v)'
    BY <2>1, <2>2, <2>4 DEF Owing, Counts
  <2>6. \A w \in Workers : w # v => Owing(w)'
    <3>1. \A w \in Workers : w # v => logic'.pc # w /\ logic.pc # w
      BY <1>1, <2>1, <2>9
    <3>2. QED
      BY <1>1, <2>1, <3>1, OwingSame DEF ReadsHold
  <2>7. ReadsExact'
    BY <1>1, <2>1, <2>4 DEF ReadsHold, ReadsExact
  <2>8. QED
    BY <2>5, <2>6, <2>7 DEF ReadsHold
<1>5. CASE Reset
  <2>1. queue' = <<>> /\ logic' = logic /\ logic.pc = "off" /\ done'.adds = done.adds
        /\ \A w \in Workers : done'.owed[w] = done.adds[w]
    BY <1>1, <1>5 DEF Reset, HandleCovers
  <2>2. \A w \in Workers : Owing(w)'
    <3>1. ASSUME NEW w \in Workers
          PROVE  Owing(w)'
      <4>1. [i \in 1..1 |-> 0] \in [1..Len(queue') + 1 -> Nat] /\ Len(queue') = 0
            /\ DOMAIN queue' = {}
        BY <2>1
      <4>2. Counts(w, [i \in 1..1 |-> 0])'
        BY <4>1 DEF Counts
      <4>3. done.adds[w] \in Nat /\ logic'.pc # w
        BY <1>1, <2>1
      <4>4. QED
        BY <2>1, <4>1, <4>2, <4>3 DEF Owing
    <3>2. QED
      BY <3>1
  <2>3. ReadsExact'
    <3>1. \A w \in Workers :
            /\ th'[w].op = th[w].op /\ th'[w].late = th[w].late /\ th'[w].seen = th[w].seen
            /\ th'[w].pc \in {"answered", "out"} => th'[w].pc = th[w].pc
      BY <1>1, <1>5, ResetDoes
    <3>2. QED
      BY <1>1, <2>1, <3>1, SMTT(30) DEF ReadsHold, ReadsExact
  <2>4. QED
    BY <2>2, <2>3 DEF ReadsHold
<1>6. CASE \/ \E v \in Workers : Yield(v) \/ Resume(v)
           \/ Setup \/ TakeTask \/ EndDrain
           \/ Start \/ FinalDrain \/ CloseWindow \/ Finish \/ RequestQuit \/ UNCHANGED pdVars
  <2>1. UNCHANGED <<th, queue, done>>
    BY <1>6 DEF Yield, Resume, Setup, TakeTask, EndDrain, Start, FinalDrain,
       CloseWindow, Finish, RequestQuit, runRest, pdVars
  <2>4. \/ logic' = logic
        \/ logic.pc \notin Workers /\ logic'.pc \in {"off", "setup", "idle", "drain"}
    <3>1. Setup \/ TakeTask \/ EndDrain \/ Finish =>
             logic' = logic \/ (/\ logic.pc \in {"setup", "idle", "drain"}
                               /\ logic'.pc \in {"off", "setup", "idle", "drain"})
      BY <1>1 DEF Setup, TakeTask, EndDrain, Finish
    <3>2. Start => logic.pc = "off" /\ logic'.pc = "setup"
      BY <1>1 DEF Start, HandleCovers
    <3>3. (\E v \in Workers : Yield(v) \/ Resume(v)) \/ FinalDrain \/ CloseWindow
            \/ RequestQuit \/ UNCHANGED pdVars => logic' = logic
      BY DEF Yield, Resume, FinalDrain, CloseWindow, RequestQuit, pdVars, callVars
    <3>4. QED
      BY <1>1, <1>6, <3>1, <3>2, <3>3
  <2>2. \A w \in Workers : logic'.pc = w <=> logic.pc = w
    BY <1>1, <2>4
  <2>3. QED
    BY <1>1, <2>1, <2>2, OwingSame DEF ReadsHold, ReadsExact
<1>8. CASE ApplyWrite
  <2>1. /\ UNCHANGED <<th, queue>> /\ logic.pc = "write" /\ logic'.pc \in {"write", "drain"}
        /\ done'.adds = done.adds /\ done'.owed = done.owed
    BY <1>1, <1>8 DEF ApplyWrite
  <2>2. \A w \in Workers : logic'.pc = w <=> logic.pc = w
    BY <1>1, <2>1
  <2> QED
    BY <1>1, <2>1, <2>2, OwingSame DEF ReadsHold, ReadsExact
<1>7. QED
  BY <1>2, <1>3, <1>4, <1>5, <1>6, <1>8 DEF PdNext, LogicStep, RunnerStep

LEMMA NotifyStep ==
    ASSUME ConstantsAssumption, DispatchInv, [PdNext]_pdVars
    PROVE  WritesNotify'
<1>1. PdTypeOK /\ WritesNotify /\ HalfAdds
  BY DEF DispatchInv
<1>2. ASSUME NEW v \in Workers, WorkerStep(v)
      PROVE  WritesNotify'
  <2>1. Same(v)
    BY <1>1, <1>2, PlacesStep DEF WorkerStep
  <2>2. th'[v].pc = "notify" => DirectWrite(v) \/ DirectSet(v)
    BY <1>1, <1>2, PlacesStep DEF WorkerStep
  <2>3. DirectWrite(v) => th'[v].op = "txn"
    BY <1>1, WriteDoes DEF Writes
  <2>4. DirectSet(v) => th'[v].op = "add"
    BY <1>1, GoMoves DEF DirectSet, HalfAdds, Moves
  <2>5. QED
    BY <1>1, <2>1, <2>2, <2>3, <2>4 DEF WritesNotify, Same
<1>3. CASE RunClosure
  <2>1. \A w \in Workers : th'[w] = th[w] \/ th'[w].pc = "answered"
    BY <1>1, <1>3, ClosureDoes DEF Sees, Same
  <2>2. QED
    BY <1>1, <2>1 DEF WritesNotify
<1>4. CASE Reset
  <2>1. \A w \in Workers : th'[w].op = th[w].op
                           /\ (th'[w].pc = "notify" => th[w].pc = "notify")
    BY <1>1, <1>4, ResetDoes
  <2>2. QED
    BY <1>1, <2>1 DEF WritesNotify
<1>5. CASE \/ \E v \in Workers : Yield(v) \/ Resume(v)
           \/ Setup \/ TakeTask \/ ApplyWrite \/ FinishAdd \/ EndDrain
           \/ Start \/ FinalDrain \/ CloseWindow \/ Finish \/ RequestQuit \/ UNCHANGED pdVars
  <2>1. UNCHANGED th
    BY <1>5 DEF Yield, Resume, Setup, TakeTask, ApplyWrite, FinishAdd, EndDrain, Start,
       FinalDrain, CloseWindow, Finish, RequestQuit, runRest, pdVars
  <2>2. QED
    BY <1>1, <2>1 DEF WritesNotify
<1>6. QED
  BY <1>2, <1>3, <1>4, <1>5 DEF PdNext, LogicStep, RunnerStep

-----------------------------------------------------------------------------
(* Theorems. *)

\* The strengthening of the invariants below.
THEOREM DispatchInvariant ==
    ASSUME ConstantsAssumption
    PROVE  PdSpec => []DispatchInv
<1>1. PdInit => DispatchInv
  <2>1. SUFFICES ASSUME PdInit
                 PROVE  DispatchInv
    OBVIOUS
  <2>2. ReadsAwaited /\ WritesNotify
    BY <2>1 DEF PdInit, ReadsAwaited, WritesNotify
  <2>3. QED
    BY <2>1, <2>2, TypesInit, LocksInit, AddsInit, TransactionsInit, HandleInit, ReadsInit
       DEF DispatchInv, AddsHold, TransactionsHold, HandleHolds, ReadsHold
<1>2. DispatchInv /\ [PdNext]_pdVars => DispatchInv'
  BY TypesStep, LocksStep, AddsStep, TransactionsStep, HandleStep, AwaitedStep, ReadsStep,
     NotifyStep
     DEF DispatchInv, AddsHold, TransactionsHold, HandleHolds, ReadsHold
<1>3. QED
  BY <1>1, <1>2, PTL DEF PdSpec

\* Whatever mixture of posted and direct calls any number of threads make, over any
\* number of runs: adds are exact, transactions whole, and reads see their own adds,
\* under a GIL; without one, as long as a direct call meets no run that starts.
\* (field_add_dispatch, txn_flush_batch, dispatch_sync_read)
THEOREM AtomicCalls ==
    ASSUME ConstantsAssumption
    PROVE  PdSpec => []CallsAreAtomic
<1>1. DispatchInv => CallsAreAtomic
  <2>1. SUFFICES ASSUME DispatchInv
                 PROVE  ReadsOwnAdds
    BY DEF DispatchInv, CallsAreAtomic
  <2>2. \A w \in Workers : done.owed[w] \in Nat
    BY <2>1 DEF DispatchInv, PdTypeOK
  <2>3. QED
    BY <2>1, <2>2 DEF DispatchInv, ReadsExact, ReadsOwnAdds
<1>2. QED
  BY <1>1, DispatchInvariant, PTL

\* Under a GIL the logic thread and a thread that calls directly exclude one another
\* unless Python code runs inside the direct dispatch.  (drain_queue_loop,
\* g_direct_dispatch_mutex)
THEOREM LocksExclude ==
    ASSUME ConstantsAssumption
    PROVE  PdSpec => []LocksHeld
<1>1. DispatchInv => LocksHeld
  BY DEF DispatchInv
<1>2. QED
  BY <1>1, DispatchInvariant, PTL

-----------------------------------------------------------------------------
(* The objects of a program, their owners and what their observers saw.      *)

\* What an observer may have been called with.
Values == UNION {[hs -> Nat] : hs \in SUBSET Objs!Shareds}

Fields == {"held", "live", "keep", "conn", "caps", "val", "pend", "out", "seen", "run",
           "wake", "sweep", "swept", "early"}

HandleTypes ==
    /\ DOMAIN ph = Fields
    /\ ph.live \in SUBSET Objs!Objects
    /\ ph.keep \in [Objs!Handles -> SUBSET Callbacks]
    /\ ph.conn \in SUBSET Callbacks
    /\ ph.caps \in [Callbacks -> SUBSET Objs!Objects]
    /\ ph.val \in [Objs!Shareds -> Nat]
    /\ ph.pend \in SUBSET Objs!Shareds
    /\ ph.out \in [Deps -> Nat]
    /\ ph.seen \in [Callbacks -> Values]
    /\ ph.run \in BOOLEAN /\ ph.wake \in BOOLEAN /\ ph.swept \in BOOLEAN
    /\ ph.sweep \in Seq(Objs!Shareds)

\* What the program, a run or a live object refers to is alive, and what is not
\* keeps nothing.
OwnersKeep ==
    /\ ph.held \subseteq ph.live
    /\ ph.run => Model \in ph.live
    /\ \A o \in ph.live : Objs!Kept(ph, o) \subseteq ph.live
    /\ \A h \in Objs!Handles \ ph.live : ph.keep[h] = {}

\* A callback is of one handle.
CallbacksOwned ==
    \A g, h \in Objs!Handles : g # h => ph.keep[g] \cap ph.keep[h] = {}

\* What is pending since before the run may stay; what was set later is ahead in
\* the sweep, or another sweep follows.
SweepComes ==
    /\ ph.early \subseteq ph.pend
    /\ ~ph.run => ph.pend \subseteq ph.early
    /\ ph.run => \A h \in ph.live \cap (ph.pend \ ph.early) :
                    ph.wake \/ h \in ToSet(ph.sweep) \/ (~ph.swept /\ h \in Standalone)

\* What is behind is pending.
ValuesSeen ==
    /\ ph.pend \cap Deps = {} => ph.out = Objs!Computed(ph)
    /\ \A h \in Objs!Handles, c \in ph.conn :
          c \in ph.keep[h] => ph.seen[c] = Objs!Value(ph, h) \/ h \in ph.pend

HandlesInv == HandleTypes /\ OwnersKeep /\ CallbacksOwned /\ SweepComes /\ ValuesSeen

-----------------------------------------------------------------------------
\* Reach: within what is alive, with the roots that are, closed, and the least.
LEMMA ReachHolds ==
    ASSUME NEW s, NEW from
    PROVE  /\ Objs!Reach(s, from) \subseteq s.live
           /\ from \cap s.live \subseteq Objs!Reach(s, from)
           /\ \A o \in Objs!Reach(s, from) :
                 Objs!Kept(s, o) \cap s.live \subseteq Objs!Reach(s, from)
           /\ \A among \in SUBSET s.live :
                 from \cap s.live \subseteq among /\ Objs!Closed(s, among)
                    => Objs!Reach(s, from) \subseteq among
  <1> DEFINE sets == {among \in SUBSET s.live :
                         from \cap s.live \subseteq among /\ Objs!Closed(s, among)}
  <1>0. Objs!Reach(s, from) = {o \in s.live : \A among \in sets : o \in among}
    BY DEF Objs!Reach
  <1>1. \A among \in sets : \A o \in among : Objs!Kept(s, o) \cap s.live \subseteq among
    BY DEF Objs!Closed
  <1>2. \A among \in sets : from \cap s.live \subseteq among
    OBVIOUS
  <1>3. \A o \in Objs!Reach(s, from) : \A p \in Objs!Kept(s, o) \cap s.live :
           \A among \in sets : p \in among
    BY <1>0, <1>1
  <1>4. ASSUME NEW among \in SUBSET s.live,
               from \cap s.live \subseteq among, Objs!Closed(s, among)
        PROVE  Objs!Reach(s, from) \subseteq among
    BY <1>0, <1>4
  <1> HIDE DEF sets
  <1> QED  BY <1>0, <1>2, <1>3, <1>4

\* SetToSeq of a finite set has each of its members.
LEMMA SetToSeqHas ==
    ASSUME NEW S, IsFiniteSet(S)
    PROVE  SetToSeq(S) \in Seq(S) /\ ToSet(SetToSeq(S)) = S
  <1> DEFINE n == Cardinality(S)
  <1>1. n \in Nat /\ ExistsBijection(1..n, S)
    BY FS_CardinalityType
  <1>2. PICK b \in Bijection(1..n, S) : TRUE
    BY <1>1 DEF ExistsBijection
  <1>3. b \in [1..n -> S] /\ IsInjective(b)
    BY <1>2 DEF Bijection, Injection
  <1>4. SetToSeq(S) \in [1..n -> S] /\ IsInjective(SetToSeq(S))
    BY <1>3 DEF SetToSeq
  <1>5. SetToSeq(S) \in Injection(1..n, S)
    BY <1>4 DEF Injection
  <1>6. Cardinality(1..n) = n
    BY <1>1, FS_Interval
  <1>7. SetToSeq(S) \in Surjection(1..n, S)
    BY <1>5, <1>6, FS_Injection
  <1>8. \A t \in S : \E i \in 1..n : SetToSeq(S)[i] = t
    BY <1>7 DEF Surjection
  <1>9. SetToSeq(S) \in Seq(S)
    BY <1>1, <1>4, IsASeq
  <1> QED  BY <1>4, <1>8, <1>9 DEF ToSet

LEMMA ValuesHas ==
    ASSUME NEW hs \in SUBSET Objs!Shareds, NEW v \in [hs -> Nat]
    PROVE  v \in Values
  BY DEF Values

\* The library's operators are the same in the instance.
LEMMA SameInObjects ==
    ASSUME NEW S
    PROVE  (Objs!IsFiniteSet(S) <=> IsFiniteSet(S)) /\ Objs!SetToSeq(S) = SetToSeq(S)
  <1>1. Objs!IsFiniteSet(S) <=> IsFiniteSet(S)
    BY DEF Objs!IsFiniteSet, IsFiniteSet
  <1>2. Objs!Cardinality(S) = Cardinality(S)
    BY DEF Objs!Cardinality, Cardinality
  <1>3. Objs!SetToSeq(S) = SetToSeq(S)
    BY <1>2 DEF Objs!SetToSeq, SetToSeq, Objs!IsInjective, IsInjective
  <1> QED  BY <1>1, <1>3

USE ObjectsAssumption DEF Objs!HandlesAssumption

LEMMA CollectKeeps == HandlesInv /\ Objs!Collect => HandlesInv'
  <1> SUFFICES ASSUME HandlesInv, Objs!Collect
               PROVE  HandlesInv'
    OBVIOUS
  <1> DEFINE left == Objs!Reach(ph, Objs!Roots(ph) \cup Objs!Pinned(ph))
             cbs == UNION {ph.keep[h] : h \in Objs!Handles \cap left}
             kept == [h \in Objs!Handles |-> IF h \in left THEN ph.keep[h] ELSE {}]
  <1>1. ph' = [ph EXCEPT !.live = left, !.conn = @ \cap cbs, !.keep = kept]
    BY DEF Objs!Collect
  <1>2. /\ left \subseteq ph.live
        /\ (Objs!Roots(ph) \cup Objs!Pinned(ph)) \cap ph.live \subseteq left
        /\ \A o \in left : Objs!Kept(ph, o) \cap ph.live \subseteq left
    BY ReachHolds
  <1> HIDE DEF left
  <1>3. HandleTypes /\ OwnersKeep /\ CallbacksOwned /\ SweepComes /\ ValuesSeen
    BY DEF HandlesInv
  <1>4. /\ kept \in [Objs!Handles -> SUBSET Callbacks]
        /\ \A h \in Objs!Handles : kept[h] = IF h \in left THEN ph.keep[h] ELSE {}
    BY <1>3 DEF HandleTypes
  <1> HIDE DEF kept
  <1>5. /\ ph'.live = left /\ ph'.conn \subseteq ph.conn /\ ph'.keep = kept
        /\ ph'.held = ph.held /\ ph'.caps = ph.caps /\ ph'.val = ph.val
        /\ ph'.pend = ph.pend /\ ph'.out = ph.out /\ ph'.seen = ph.seen
        /\ ph'.run = ph.run /\ ph'.wake = ph.wake /\ ph'.sweep = ph.sweep
        /\ ph'.swept = ph.swept /\ ph'.early = ph.early
    BY <1>1, <1>3 DEF HandleTypes, Fields
  <1>6. HandleTypes'
    <2>1. DOMAIN ph' = Fields
      BY <1>1, <1>3 DEF HandleTypes
    <2> QED  BY <2>1, <1>2, <1>3, <1>4, <1>5 DEF HandleTypes
  <1>7. OwnersKeep'
    <2>1. ph'.held \subseteq ph'.live
      BY <1>2, <1>3, <1>5 DEF OwnersKeep, Objs!Roots
    <2>2. ph'.run => Model \in ph'.live
      BY <1>2, <1>3, <1>5 DEF OwnersKeep, Objs!Roots
    <2>3. ASSUME NEW o \in left
          PROVE  Objs!Kept(ph', o) \subseteq left
      <3>1. Objs!Kept(ph, o) \subseteq left
        BY <1>2, <1>3 DEF OwnersKeep
      <3>2. Objs!Kept(ph', o) = Objs!Kept(ph, o)
        BY <1>4, <1>5 DEF Objs!Kept, Objs!Handles
      <3> QED  BY <3>1, <3>2
    <2> QED  BY <2>1, <2>2, <2>3, <1>4, <1>5 DEF OwnersKeep
  <1>8. CallbacksOwned'
    BY <1>2, <1>3, <1>4, <1>5 DEF CallbacksOwned
  <1>9. SweepComes'
    BY <1>2, <1>3, <1>5 DEF SweepComes
  <1>10. ValuesSeen'
    BY <1>3, <1>4, <1>5 DEF ValuesSeen, Objs!Value, Objs!Computed
  <1> QED  BY <1>6, <1>7, <1>8, <1>9, <1>10 DEF HandlesInv

LEMMA ObserveKeeps ==
    ASSUME HandlesInv, NEW h \in Objs!Handles, NEW c \in Callbacks, NEW refs \in CaptureSets,
           Objs!Observe(h, c, refs)
    PROVE  HandlesInv'
  <1>1. HandleTypes /\ OwnersKeep /\ CallbacksOwned /\ SweepComes /\ ValuesSeen
    BY DEF HandlesInv
  <1>2. /\ c \notin ph.live /\ c \notin ph.conn /\ h \in ph.live /\ refs \subseteq ph.live
        /\ ph' = [ph EXCEPT !.live = @ \cup {c}, !.keep[h] = @ \cup {c}, !.conn = @ \cup {c},
                            !.caps[c] = refs, !.seen[c] = Objs!Value(ph, h)]
    BY ReachHolds DEF Objs!Observe, Objs!Reachable
  <1>3. /\ ph'.live = ph.live \cup {c} /\ ph'.conn = ph.conn \cup {c}
        /\ ph'.keep = [ph.keep EXCEPT ![h] = @ \cup {c}]
        /\ ph'.held = ph.held /\ ph'.caps = [ph.caps EXCEPT ![c] = refs]
        /\ ph'.val = ph.val /\ ph'.pend = ph.pend /\ ph'.out = ph.out
        /\ ph'.seen = [ph.seen EXCEPT ![c] = Objs!Value(ph, h)]
        /\ ph'.run = ph.run /\ ph'.wake = ph.wake /\ ph'.sweep = ph.sweep
        /\ ph'.swept = ph.swept /\ ph'.early = ph.early
    BY <1>1, <1>2 DEF HandleTypes, Fields
  <1>4. Objs!Value(ph, h) \in Values
    <2>1. CASE h = Derived
      <3>1. ph.out \in [Deps -> Nat] /\ Deps \subseteq Objs!Shareds
        BY <1>1 DEF HandleTypes, Objs!Shareds
      <3> QED  BY <2>1, <3>1, ValuesHas DEF Objs!Value
    <2>2. CASE h # Derived
      <3>1. h \in Objs!Shareds
        BY <2>2 DEF Objs!Handles
      <3>2. [x \in {h} |-> ph.val[x]] \in [{h} -> Nat]
        BY <3>1, <1>1 DEF HandleTypes
      <3> QED  BY <2>2, <3>1, <3>2, ValuesHas DEF Objs!Value
    <2> QED  BY <2>1, <2>2
  <1>5. refs \subseteq Objs!Objects /\ c \in Objs!Objects
    BY <1>1, <1>2 DEF HandleTypes, Objs!Objects
  <1>6. HandleTypes'
    <2>1. /\ [ph.keep EXCEPT ![h] = @ \cup {c}] \in [Objs!Handles -> SUBSET Callbacks]
          /\ [ph.caps EXCEPT ![c] = refs] \in [Callbacks -> SUBSET Objs!Objects]
          /\ [ph.seen EXCEPT ![c] = Objs!Value(ph, h)] \in [Callbacks -> Values]
      BY <1>1, <1>4, <1>5 DEF HandleTypes
    <2>2. DOMAIN ph' = Fields
      BY <1>1, <1>2 DEF HandleTypes
    <2> QED  BY <2>1, <2>2, <1>1, <1>3, <1>5 DEF HandleTypes
  <1>7. \A g \in Objs!Handles : c \notin ph.keep[g]
    <2> SUFFICES ASSUME NEW g \in Objs!Handles, c \in ph.keep[g]
                 PROVE  FALSE
      OBVIOUS
    <2>1. g \in ph.live
      BY <1>1 DEF OwnersKeep
    <2>2. Objs!Kept(ph, g) \subseteq ph.live
      BY <2>1, <1>1 DEF OwnersKeep
    <2>3. ph.keep[g] \subseteq Objs!Kept(ph, g)
      BY DEF Objs!Kept, Objs!Handles, Objs!Shareds
    <2> QED  BY <2>2, <2>3, <1>2
  <1>8. \A o \in ph'.live : Objs!Kept(ph', o) \subseteq ph'.live
    <2> SUFFICES ASSUME NEW o \in ph'.live
                 PROVE  Objs!Kept(ph', o) \subseteq ph'.live
      OBVIOUS
    <2>1. CASE o = c
      <3>1. Objs!Kept(ph', o) = refs
        BY <2>1, <1>1, <1>3 DEF Objs!Kept, Objs!Shareds, HandleTypes
      <3> QED  BY <3>1, <1>2, <1>3
    <2>2. CASE o # c
      <3>1. Objs!Kept(ph, o) \subseteq ph.live
        BY <2>2, <1>1, <1>3 DEF OwnersKeep
      <3>2. Objs!Kept(ph', o) \subseteq Objs!Kept(ph, o) \cup {c}
        BY <2>2, <1>1, <1>3 DEF Objs!Kept, Objs!Shareds, Objs!Handles, HandleTypes, Objs!Objects
      <3> QED  BY <3>1, <3>2, <1>3
    <2> QED  BY <2>1, <2>2
  <1>9. OwnersKeep'
    BY <1>1, <1>2, <1>3, <1>8 DEF OwnersKeep, HandleTypes
  <1>10. CallbacksOwned'
    BY <1>1, <1>3, <1>7 DEF CallbacksOwned, HandleTypes
  <1>11. SweepComes'
    <2>1. c \notin ph.pend
      BY <1>1 DEF HandleTypes, Objs!Shareds
    <2> QED  BY <2>1, <1>1, <1>3 DEF SweepComes
  <1>12. ValuesSeen'
    <2>1. ph'.pend \cap Deps = {} => ph'.out = Objs!Computed(ph')
      BY <1>1, <1>3 DEF ValuesSeen, Objs!Computed
    <2>2. \A g \in Objs!Handles : Objs!Value(ph', g) = Objs!Value(ph, g)
      BY <1>3 DEF Objs!Value
    <2>3. ASSUME NEW g \in Objs!Handles, NEW d \in ph'.conn, d \in ph'.keep[g]
          PROVE  ph'.seen[d] = Objs!Value(ph', g) \/ g \in ph'.pend
      <3>1. CASE d = c
        <4>1. g = h
          BY <3>1, <2>3, <1>1, <1>3, <1>7 DEF HandleTypes
        <4> QED  BY <4>1, <3>1, <2>2, <1>1, <1>3 DEF HandleTypes
      <3>2. CASE d # c
        <4>1. d \in ph.keep[g] /\ d \in ph.conn /\ ph'.seen[d] = ph.seen[d]
          BY <3>2, <2>3, <1>1, <1>3 DEF HandleTypes
        <4> QED  BY <4>1, <2>2, <1>1, <1>3 DEF ValuesSeen
      <3> QED  BY <3>1, <3>2
    <2> QED  BY <2>1, <2>3 DEF ValuesSeen
  <1> QED  BY <1>6, <1>9, <1>10, <1>11, <1>12 DEF HandlesInv

\* What the program and the start of a run do, one field or two at a time.
LEMMA ProgramKeeps ==
    ASSUME HandlesInv,
           \/ \E o \in {Model} \cup Standalone \cup Named : Objs!Drop(o)
           \/ \E o \in Named : Objs!Hold(o)
           \/ \E c \in Callbacks : Objs!Disconnect(c)
           \/ Objs!Start
    PROVE  HandlesInv'
  <1>1. HandleTypes /\ OwnersKeep /\ CallbacksOwned /\ SweepComes /\ ValuesSeen
    BY DEF HandlesInv
  <1>2. /\ DOMAIN ph' = Fields /\ ph'.live = ph.live /\ ph'.keep = ph.keep
        /\ ph'.caps = ph.caps /\ ph'.val = ph.val /\ ph'.pend = ph.pend
        /\ ph'.out = ph.out /\ ph'.seen = ph.seen /\ ph'.wake = ph.wake
        /\ ph'.sweep = ph.sweep /\ ph'.swept = ph.swept /\ ph'.early = ph.early
        /\ ph'.conn \subseteq ph.conn /\ ph'.held \subseteq ph.live
        /\ ph'.run = ph.run \/ (~ph.run /\ ph'.run /\ Model \in ph.live)
    <2>1. ASSUME NEW o, Objs!Drop(o)
          PROVE  <1>2!:
      BY <2>1, <1>1 DEF Objs!Drop, HandleTypes, Fields, OwnersKeep
    <2>2. ASSUME NEW o, Objs!Hold(o)
          PROVE  <1>2!:
      BY <2>2, <1>1, ReachHolds DEF Objs!Hold, Objs!Reachable, HandleTypes, Fields, OwnersKeep
    <2>3. ASSUME NEW c, Objs!Disconnect(c)
          PROVE  <1>2!:
      BY <2>3, <1>1 DEF Objs!Disconnect, HandleTypes, Fields, OwnersKeep
    <2>4. ASSUME Objs!Start
          PROVE  <1>2!:
      BY <2>4, <1>1, ReachHolds DEF Objs!Start, Objs!Reachable, HandleTypes, Fields, OwnersKeep
    <2> QED  BY <2>1, <2>2, <2>3, <2>4
  <1>3. HandleTypes'
    BY <1>1, <1>2 DEF HandleTypes
  <1>4. \A o : Objs!Kept(ph', o) = Objs!Kept(ph, o)
    BY <1>2 DEF Objs!Kept
  <1>5. OwnersKeep'
    BY <1>1, <1>2, <1>4 DEF OwnersKeep
  <1>6. CallbacksOwned'
    BY <1>1, <1>2 DEF CallbacksOwned
  <1>7. SweepComes'
    BY <1>1, <1>2 DEF SweepComes
  <1>8. ValuesSeen'
    BY <1>1, <1>2 DEF ValuesSeen, Objs!Value, Objs!Computed
  <1> QED  BY <1>3, <1>5, <1>6, <1>7, <1>8 DEF HandlesInv

LEMMA SetKeeps ==
    ASSUME HandlesInv, NEW h \in Objs!Shareds, Objs!Set(h)
    PROVE  HandlesInv'
  <1>1. HandleTypes /\ OwnersKeep /\ CallbacksOwned /\ SweepComes /\ ValuesSeen
    BY DEF HandlesInv
  <1>2. /\ DOMAIN ph' = Fields /\ ph'.live = ph.live /\ ph'.keep = ph.keep
        /\ ph'.caps = ph.caps /\ ph'.val = [ph.val EXCEPT ![h] = @ + 1]
        /\ ph'.pend = ph.pend \cup {h} /\ ph'.wake = (ph.wake \/ ph.run)
        /\ ph'.early = IF ph.run THEN ph.early \ {h} ELSE ph.early \cup {h}
        /\ ph'.out = ph.out /\ ph'.seen = ph.seen
        /\ ph'.sweep = ph.sweep /\ ph'.swept = ph.swept
        /\ ph'.conn = ph.conn /\ ph'.held = ph.held /\ ph'.run = ph.run
    BY <1>1 DEF Objs!Set, HandleTypes, Fields
  <1>3. HandleTypes'
    BY <1>1, <1>2 DEF HandleTypes
  <1>4. \A o : Objs!Kept(ph', o) = Objs!Kept(ph, o)
    BY <1>2 DEF Objs!Kept
  <1>5. OwnersKeep'
    BY <1>1, <1>2, <1>4 DEF OwnersKeep
  <1>6. CallbacksOwned'
    BY <1>1, <1>2 DEF CallbacksOwned
  <1>7. SweepComes'
    BY <1>1, <1>2 DEF SweepComes
  <1>8. ValuesSeen'
    <2>1. \A g \in Objs!Shareds : g # h => ph'.val[g] = ph.val[g]
      BY <1>1, <1>2 DEF HandleTypes
    <2>2. ph'.pend \cap Deps = {} => ph'.out = Objs!Computed(ph')
      BY <2>1, <1>1, <1>2 DEF ValuesSeen, Objs!Computed, Objs!Shareds
    <2>3. \A g \in Objs!Handles : g # h => Objs!Value(ph', g) = Objs!Value(ph, g)
      BY <2>1, <1>2 DEF Objs!Value, Objs!Handles
    <2> QED  BY <2>2, <2>3, <1>1, <1>2 DEF ValuesSeen
  <1> QED  BY <1>3, <1>5, <1>6, <1>7, <1>8 DEF HandlesInv

LEMMA StopKeeps == HandlesInv /\ Objs!Stop => HandlesInv'
  <1> SUFFICES ASSUME HandlesInv, Objs!Stop
               PROVE  HandlesInv'
    OBVIOUS
  <1> DEFINE kept == [h \in Objs!Handles |-> IF h \in Standalone THEN ph.keep[h] ELSE {}]
             gone == UNION {ph.keep[h] : h \in Bound \cup {Derived}}
  <1>1. HandleTypes /\ OwnersKeep /\ CallbacksOwned /\ SweepComes /\ ValuesSeen
    BY DEF HandlesInv
  <1>2. /\ DOMAIN ph' = Fields /\ ph'.live = ph.live /\ ph'.keep = kept
        /\ ph'.caps = ph.caps /\ ph'.val = ph.val /\ ph'.pend = ph.pend
        /\ ph'.early = ph.pend /\ ph'.out = ph.out /\ ph'.seen = ph.seen
        /\ ph'.sweep = ph.sweep /\ ph'.swept = ph.swept /\ ph'.wake = FALSE
        /\ ph'.conn = ph.conn \ gone /\ ph'.held = ph.held /\ ph'.run = FALSE
    BY <1>1 DEF Objs!Stop, HandleTypes, Fields
  <1>3. /\ kept \in [Objs!Handles -> SUBSET Callbacks]
        /\ \A h \in Objs!Handles : kept[h] \subseteq ph.keep[h]
    BY <1>1 DEF HandleTypes
  <1> HIDE DEF kept, gone
  <1>4. HandleTypes'
    BY <1>1, <1>2, <1>3 DEF HandleTypes
  <1>5. \A o : Objs!Kept(ph', o) \subseteq Objs!Kept(ph, o)
    BY <1>2, <1>3 DEF Objs!Kept, Objs!Handles
  <1>6. OwnersKeep'
    BY <1>1, <1>2, <1>3, <1>5 DEF OwnersKeep
  <1>7. CallbacksOwned'
    BY <1>1, <1>2, <1>3 DEF CallbacksOwned
  <1>8. SweepComes'
    BY <1>1, <1>2 DEF SweepComes
  <1>9. ValuesSeen'
    BY <1>1, <1>2, <1>3 DEF ValuesSeen, Objs!Value, Objs!Computed
  <1> QED  BY <1>4, <1>6, <1>7, <1>8, <1>9 DEF HandlesInv

\* The two halves of a sweep take over from the wake they answer.
LEMMA BeginKeeps ==
    ASSUME HandlesInv, Objs!BeginSweep \/ Objs!BeginStandalone
    PROVE  HandlesInv'
  <1>1. HandleTypes /\ OwnersKeep /\ CallbacksOwned /\ SweepComes /\ ValuesSeen
    BY DEF HandlesInv
  <1>2. /\ DOMAIN ph' = Fields /\ ph'.live = ph.live /\ ph'.keep = ph.keep
        /\ ph'.caps = ph.caps /\ ph'.val = ph.val /\ ph'.pend = ph.pend
        /\ ph'.early = ph.early /\ ph'.out = ph.out /\ ph'.seen = ph.seen
        /\ ph'.conn = ph.conn /\ ph'.held = ph.held /\ ph'.run = ph.run
        /\ \/ /\ ph'.wake = FALSE /\ ph'.sweep = SetToSeq(Bound) /\ ph'.swept = FALSE
           \/ /\ ~ph.swept /\ ph.sweep = <<>> /\ ph'.wake = ph.wake
              /\ ph'.sweep = SetToSeq(Standalone \cap ph.live) /\ ph'.swept = TRUE
    <2>1. CASE Objs!BeginSweep
      BY <2>1, <1>1, SameInObjects DEF Objs!BeginSweep, HandleTypes, Fields
    <2>2. CASE Objs!BeginStandalone
      BY <2>2, <1>1, SameInObjects DEF Objs!BeginStandalone, HandleTypes, Fields
    <2> QED  BY <2>1, <2>2
  <1>3. /\ SetToSeq(Bound) \in Seq(Bound) /\ ToSet(SetToSeq(Bound)) = Bound
        /\ SetToSeq(Standalone \cap ph.live) \in Seq(Standalone \cap ph.live)
        /\ ToSet(SetToSeq(Standalone \cap ph.live)) = Standalone \cap ph.live
    <2>1. IsFiniteSet(Bound) /\ IsFiniteSet(Standalone)
      BY SameInObjects
    <2>2. Standalone \cap ph.live \in SUBSET Standalone
      OBVIOUS
    <2>3. IsFiniteSet(Standalone \cap ph.live)
      BY <2>1, <2>2, FS_Subset
    <2> QED  BY <2>1, <2>3, SetToSeqHas
  <1>4. SetToSeq(Bound) \in Seq(Objs!Shareds)
        /\ SetToSeq(Standalone \cap ph.live) \in Seq(Objs!Shareds)
    BY <1>3, SeqMonotonic DEF Objs!Shareds
  <1>5. HandleTypes'
    BY <1>1, <1>2, <1>4 DEF HandleTypes
  <1>6. \A o : Objs!Kept(ph', o) = Objs!Kept(ph, o)
    BY <1>2 DEF Objs!Kept
  <1>7. OwnersKeep'
    BY <1>1, <1>2, <1>6 DEF OwnersKeep
  <1>8. CallbacksOwned'
    BY <1>1, <1>2 DEF CallbacksOwned
  <1>9. SweepComes'
    <2>1. ToSet(<<>>) = {}
      BY DEF ToSet
    <2> QED  BY <2>1, <1>1, <1>2, <1>3 DEF SweepComes, HandleTypes, Objs!Shareds
  <1>10. ValuesSeen'
    BY <1>1, <1>2 DEF ValuesSeen, Objs!Value, Objs!Computed
  <1> QED  BY <1>5, <1>7, <1>8, <1>9, <1>10 DEF HandlesInv

\* What a drain of h makes of each field.
LEMMA EmittedFields ==
    ASSUME NEW s, DOMAIN s = Fields, NEW h \in Objs!Shareds
    PROVE  LET t == Objs!Emitted(s, h)
               again == h \in Deps /\ Objs!Computed(s) # s.out
           IN /\ DOMAIN t = Fields /\ t.live = s.live /\ t.keep = s.keep
              /\ t.caps = s.caps /\ t.val = s.val /\ t.conn = s.conn /\ t.held = s.held
              /\ t.run = s.run /\ t.wake = s.wake /\ t.sweep = s.sweep /\ t.swept = s.swept
              /\ t.pend = s.pend \ {h} /\ t.early = s.early \ {h}
              /\ t.out = IF h \in Deps THEN Objs!Computed(s) ELSE s.out
              /\ t.seen = [c \in Callbacks |->
                     IF again /\ c \in s.keep[Derived] \cap s.conn \cap s.live
                     THEN Objs!Computed(s)
                     ELSE IF c \in s.keep[h] \cap s.conn \cap s.live
                     THEN [x \in {h} |-> s.val[x]] ELSE s.seen[c]]
  <1> DEFINE u == [s EXCEPT !.pend = @ \ {h}, !.early = @ \ {h}]
             first == [c \in Callbacks |->
                          IF c \in s.keep[h] \cap s.conn \cap s.live
                          THEN [x \in {h} |-> s.val[x]] ELSE s.seen[c]]
             e == [u EXCEPT !.seen = first]
  <1>1. h # Derived
    BY DEF Objs!Shareds
  <1>2. /\ DOMAIN u = Fields /\ u.live = s.live /\ u.keep = s.keep
        /\ u.caps = s.caps /\ u.val = s.val /\ u.conn = s.conn /\ u.held = s.held
        /\ u.run = s.run /\ u.wake = s.wake /\ u.sweep = s.sweep /\ u.swept = s.swept
        /\ u.pend = s.pend \ {h} /\ u.early = s.early \ {h} /\ u.out = s.out
        /\ u.seen = s.seen
    BY DEF Fields
  <1> HIDE DEF u
  <1>3. Objs!Value(u, h) = [x \in {h} |-> s.val[x]]
    BY <1>1, <1>2 DEF Objs!Value
  <1>4. Objs!Called(u, h) = e
    BY <1>2, <1>3 DEF Objs!Called
  <1> HIDE DEF first
  <1>5. /\ DOMAIN e = Fields /\ e.live = s.live /\ e.keep = s.keep
        /\ e.caps = s.caps /\ e.val = s.val /\ e.conn = s.conn /\ e.held = s.held
        /\ e.run = s.run /\ e.wake = s.wake /\ e.sweep = s.sweep /\ e.swept = s.swept
        /\ e.pend = s.pend \ {h} /\ e.early = s.early \ {h} /\ e.out = s.out
        /\ e.seen = first
    BY <1>2 DEF Fields
  <1> HIDE DEF e
  <1>6. Objs!Computed(e) = Objs!Computed(s)
    BY <1>5 DEF Objs!Computed
  <1>7. Objs!Emitted(s, h) = IF h \in Deps THEN Objs!Recomputed(e) ELSE e
    BY <1>4 DEF Objs!Emitted, u
  <1>8. CASE h \notin Deps
    BY <1>5, <1>7, <1>8 DEF first
  <1>9. CASE h \in Deps /\ Objs!Computed(s) = s.out
    <2>1. Objs!Emitted(s, h) = e
      BY <1>5, <1>6, <1>7, <1>9 DEF Objs!Recomputed
    <2> QED  BY <2>1, <1>5, <1>9 DEF first
  <1>10. CASE h \in Deps /\ Objs!Computed(s) # s.out
    <2> DEFINE w == [e EXCEPT !.out = Objs!Computed(e)]
               last == [c \in Callbacks |->
                           IF c \in s.keep[Derived] \cap s.conn \cap s.live
                           THEN Objs!Computed(s) ELSE first[c]]
               t == [w EXCEPT !.seen = last]
    <2>1. /\ DOMAIN w = Fields /\ w.live = s.live /\ w.keep = s.keep
          /\ w.caps = s.caps /\ w.val = s.val /\ w.conn = s.conn /\ w.held = s.held
          /\ w.run = s.run /\ w.wake = s.wake /\ w.sweep = s.sweep /\ w.swept = s.swept
          /\ w.pend = s.pend \ {h} /\ w.early = s.early \ {h}
          /\ w.out = Objs!Computed(s) /\ w.seen = first
      BY <1>5, <1>6 DEF Fields
    <2>2. Objs!Emitted(s, h) = Objs!Called(w, Derived)
      BY <1>5, <1>6, <1>7, <1>10 DEF Objs!Recomputed
    <2> HIDE DEF w
    <2>3. Objs!Called(w, Derived) = t
      BY <2>1 DEF Objs!Called, Objs!Value
    <2> HIDE DEF last
    <2>4. /\ DOMAIN t = Fields /\ t.live = s.live /\ t.keep = s.keep
          /\ t.caps = s.caps /\ t.val = s.val /\ t.conn = s.conn /\ t.held = s.held
          /\ t.run = s.run /\ t.wake = s.wake /\ t.sweep = s.sweep /\ t.swept = s.swept
          /\ t.pend = s.pend \ {h} /\ t.early = s.early \ {h}
          /\ t.out = Objs!Computed(s) /\ t.seen = last
      BY <2>1 DEF Fields
    <2> HIDE DEF t
    <2>5. last = [c \in Callbacks |->
                     IF c \in s.keep[Derived] \cap s.conn \cap s.live
                     THEN Objs!Computed(s)
                     ELSE IF c \in s.keep[h] \cap s.conn \cap s.live
                     THEN [x \in {h} |-> s.val[x]] ELSE s.seen[c]]
      BY DEF last, first
    <2> QED  BY <2>2, <2>3, <2>4, <2>5, <1>10
  <1> QED  BY <1>8, <1>9, <1>10

LEMMA DrainKeeps == HandlesInv /\ Objs!DrainNext => HandlesInv'
  <1> SUFFICES ASSUME HandlesInv, Objs!DrainNext
               PROVE  HandlesInv'
    OBVIOUS
  <1> DEFINE h == Head(ph.sweep)
             s == [ph EXCEPT !.sweep = Tail(@)]
  <1>1. HandleTypes /\ OwnersKeep /\ CallbacksOwned /\ SweepComes /\ ValuesSeen
    BY DEF HandlesInv
  <1>2. /\ ph.sweep # <<>>
        /\ ph' = IF h \in ph.pend \cap ph.live THEN Objs!Emitted(s, h) ELSE s
    BY DEF Objs!DrainNext
  <1>3. /\ h \in Objs!Shareds /\ Tail(ph.sweep) \in Seq(Objs!Shareds)
        /\ ToSet(ph.sweep) \subseteq ToSet(Tail(ph.sweep)) \cup {h}
    <2>1. ph.sweep \in Seq(Objs!Shareds) /\ ph.sweep # <<>>
      BY <1>1, <1>2 DEF HandleTypes
    <2>2. /\ h \in Objs!Shareds /\ Tail(ph.sweep) \in Seq(Objs!Shareds)
          /\ Len(Tail(ph.sweep)) = Len(ph.sweep) - 1 /\ h = ph.sweep[1]
          /\ \A i \in 1..Len(Tail(ph.sweep)) : Tail(ph.sweep)[i] = ph.sweep[i + 1]
      BY <2>1
    <2>3. ASSUME NEW i \in 1..Len(ph.sweep), i # 1
          PROVE  i - 1 \in 1..Len(Tail(ph.sweep)) /\ ph.sweep[i] = Tail(ph.sweep)[i - 1]
      BY <2>1, <2>2, <2>3
    <2>4. DOMAIN ph.sweep = 1..Len(ph.sweep)
          /\ DOMAIN Tail(ph.sweep) = 1..Len(Tail(ph.sweep))
      BY <2>1, <2>2
    <2> HIDE DEF h
    <2>5. \A i \in DOMAIN ph.sweep :
             ph.sweep[i] \in {Tail(ph.sweep)[j] : j \in DOMAIN Tail(ph.sweep)} \cup {h}
      BY <2>2, <2>3, <2>4
    <2> QED  BY <2>2, <2>5 DEF ToSet
  <1>4. /\ DOMAIN s = Fields /\ s.live = ph.live /\ s.keep = ph.keep
        /\ s.caps = ph.caps /\ s.val = ph.val /\ s.pend = ph.pend
        /\ s.early = ph.early /\ s.out = ph.out /\ s.seen = ph.seen
        /\ s.conn = ph.conn /\ s.held = ph.held /\ s.run = ph.run
        /\ s.wake = ph.wake /\ s.swept = ph.swept /\ s.sweep = Tail(ph.sweep)
    BY <1>1 DEF HandleTypes, Fields
  <1>5. Objs!Computed(s) = Objs!Computed(ph)
    BY <1>4 DEF Objs!Computed
  <1> HIDE DEF s, h
  <1>6. CASE h \notin ph.pend \cap ph.live
    <2>1. ph' = s
      BY <1>2, <1>6
    <2>2. HandleTypes'
      BY <2>1, <1>1, <1>3, <1>4 DEF HandleTypes
    <2>3. \A o : Objs!Kept(ph', o) = Objs!Kept(ph, o)
      BY <2>1, <1>4 DEF Objs!Kept
    <2>4. OwnersKeep' /\ CallbacksOwned'
      BY <2>1, <2>3, <1>1, <1>4 DEF OwnersKeep, CallbacksOwned
    <2>5. SweepComes'
      BY <2>1, <1>1, <1>3, <1>4, <1>6 DEF SweepComes
    <2>6. ValuesSeen'
      BY <2>1, <1>1, <1>4 DEF ValuesSeen, Objs!Value, Objs!Computed
    <2> QED  BY <2>2, <2>4, <2>5, <2>6 DEF HandlesInv
  <1>7. CASE h \in ph.pend \cap ph.live
    <2> DEFINE again == h \in Deps /\ Objs!Computed(ph) # ph.out
    <2>1. /\ DOMAIN ph' = Fields /\ ph'.live = ph.live /\ ph'.keep = ph.keep
          /\ ph'.caps = ph.caps /\ ph'.val = ph.val /\ ph'.conn = ph.conn
          /\ ph'.held = ph.held /\ ph'.run = ph.run /\ ph'.wake = ph.wake
          /\ ph'.sweep = Tail(ph.sweep) /\ ph'.swept = ph.swept
          /\ ph'.pend = ph.pend \ {h} /\ ph'.early = ph.early \ {h}
          /\ ph'.out = IF h \in Deps THEN Objs!Computed(ph) ELSE ph.out
          /\ ph'.seen = [c \in Callbacks |->
                 IF again /\ c \in ph.keep[Derived] \cap ph.conn \cap ph.live
                 THEN Objs!Computed(ph)
                 ELSE IF c \in ph.keep[h] \cap ph.conn \cap ph.live
                 THEN [x \in {h} |-> ph.val[x]] ELSE ph.seen[c]]
      <3>1. ph' = Objs!Emitted(s, h)
        BY <1>2, <1>7
      <3>2. DOMAIN s = Fields /\ h \in Objs!Shareds
        BY <1>3, <1>4
      <3> DEFINE t == Objs!Emitted(s, h)
      <3>3. /\ DOMAIN t = Fields /\ t.live = s.live /\ t.keep = s.keep
            /\ t.caps = s.caps /\ t.val = s.val /\ t.conn = s.conn /\ t.held = s.held
            /\ t.run = s.run /\ t.wake = s.wake /\ t.sweep = s.sweep /\ t.swept = s.swept
            /\ t.pend = s.pend \ {h} /\ t.early = s.early \ {h}
            /\ t.out = IF h \in Deps THEN Objs!Computed(s) ELSE s.out
        BY <3>2, EmittedFields, ZenonT(30)
      <3>4. t.seen = [c \in Callbacks |->
                IF (h \in Deps /\ Objs!Computed(s) # s.out)
                      /\ c \in s.keep[Derived] \cap s.conn \cap s.live
                THEN Objs!Computed(s)
                ELSE IF c \in s.keep[h] \cap s.conn \cap s.live
                THEN [x \in {h} |-> s.val[x]] ELSE s.seen[c]]
        BY <3>2, EmittedFields
      <3> HIDE DEF t
      <3>5. ph' = t
        BY <3>1 DEF t
      <3> QED  BY <3>3, <3>4, <3>5, <1>4, <1>5
    <2>2. Objs!Computed(ph) \in [Deps -> Nat] /\ Objs!Computed(ph') = Objs!Computed(ph)
      BY <2>1, <1>1 DEF Objs!Computed, HandleTypes, Objs!Shareds
    <2>3. Objs!Computed(ph) \in Values /\ [x \in {h} |-> ph.val[x]] \in Values
      <3>1. Deps \in SUBSET Objs!Shareds /\ {h} \in SUBSET Objs!Shareds
        BY <1>3 DEF Objs!Shareds
      <3>2. [x \in {h} |-> ph.val[x]] \in [{h} -> Nat]
        BY <1>1, <1>3 DEF HandleTypes
      <3> QED  BY <2>2, <3>1, <3>2, ValuesHas
    <2>0. ph.out \in [Deps -> Nat] /\ ph.seen \in [Callbacks -> Values]
      BY <1>1 DEF HandleTypes
    <2>4. ph'.out \in [Deps -> Nat] /\ ph'.seen \in [Callbacks -> Values]
      BY <2>1, <2>2, <2>3, <2>0
    <2>5. HandleTypes'
      BY <2>1, <2>4, <1>1, <1>3 DEF HandleTypes
    <2>6. \A o : Objs!Kept(ph', o) = Objs!Kept(ph, o)
      BY <2>1 DEF Objs!Kept
    <2>7. OwnersKeep'
      BY <2>1, <2>6, <1>1 DEF OwnersKeep
    <2>8. CallbacksOwned'
      BY <2>1, <1>1 DEF CallbacksOwned
    <2>9. SweepComes'
      BY <2>1, <1>1, <1>3 DEF SweepComes
    <2>10. ph'.pend \cap Deps = {} => ph'.out = Objs!Computed(ph')
      BY <2>1, <2>2, <1>1 DEF ValuesSeen
    <2>11. ASSUME NEW g \in Objs!Handles, NEW c \in ph'.conn, c \in ph'.keep[g]
           PROVE  ph'.seen[c] = Objs!Value(ph', g) \/ g \in ph'.pend
      <3>1. c \in Callbacks /\ c \in ph.conn /\ c \in ph.keep[g]
        BY <2>1, <2>11, <1>1 DEF HandleTypes
      <3>2. c \in ph.live
        <4>1. g \in ph.live
          BY <3>1, <2>11, <1>1 DEF OwnersKeep
        <4>2. ph.keep[g] \subseteq Objs!Kept(ph, g)
          BY DEF Objs!Kept, Objs!Handles, Objs!Shareds
        <4> QED  BY <4>1, <4>2, <3>1, <1>1 DEF OwnersKeep
      <3>3. Derived \in Objs!Handles /\ h \in Objs!Handles /\ h # Derived
        BY <1>3 DEF Objs!Handles, Objs!Shareds
      <3>4. CASE g = Derived
        <4>1. c \notin ph.keep[h]
          BY <3>1, <3>3, <3>4, <1>1 DEF CallbacksOwned
        <4>2. Objs!Value(ph', g) = ph'.out /\ Objs!Value(ph, g) = ph.out
          BY <3>4 DEF Objs!Value
        <4>3. ph.seen[c] = ph.out
          <5>1. g \notin ph.pend
            BY <3>4, <1>1 DEF HandleTypes, Objs!Shareds
          <5> QED  BY <4>2, <5>1, <3>1, <2>11, <1>1 DEF ValuesSeen
        <4>4. CASE again
          BY <4>2, <4>4, <3>1, <3>2, <3>4, <2>1
        <4>5. CASE ~again
          <5>1. ph'.seen[c] = ph.seen[c]
            BY <4>1, <4>5, <3>1, <2>1
          <5>2. ph'.out = ph.out
            BY <4>5, <2>1
          <5> QED  BY <5>1, <5>2, <4>2, <4>3
        <4> QED  BY <4>4, <4>5
      <3>5. CASE g = h
        <4>1. c \notin ph.keep[Derived]
          BY <3>1, <3>3, <3>5, <1>1 DEF CallbacksOwned
        <4>2. ph'.seen[c] = [x \in {h} |-> ph.val[x]]
          BY <4>1, <3>1, <3>2, <3>5, <2>1
        <4>3. Objs!Value(ph', g) = [x \in {h} |-> ph.val[x]]
          BY <3>3, <3>5, <2>1 DEF Objs!Value
        <4> QED  BY <4>2, <4>3
      <3>6. CASE g # h /\ g # Derived
        <4>1. c \notin ph.keep[Derived] /\ c \notin ph.keep[h]
          BY <3>1, <3>3, <3>6, <1>1 DEF CallbacksOwned
        <4>2. ph'.seen[c] = ph.seen[c]
          BY <4>1, <3>1, <2>1
        <4>3. Objs!Value(ph', g) = Objs!Value(ph, g)
          BY <3>6, <2>1 DEF Objs!Value
        <4> QED  BY <4>2, <4>3, <3>1, <3>6, <2>1, <1>1 DEF ValuesSeen
      <3> QED  BY <3>4, <3>5, <3>6
    <2>12. ValuesSeen'
      BY <2>10, <2>11 DEF ValuesSeen
    <2> QED  BY <2>5, <2>7, <2>8, <2>9, <2>12 DEF HandlesInv
  <1> QED  BY <1>6, <1>7

LEMMA HandlesStart == Objs!PhInit => HandlesInv
  <1> SUFFICES ASSUME Objs!PhInit
               PROVE  HandlesInv
    OBVIOUS
  <1>1. <<>> \in [{} -> Nat]
    OBVIOUS
  <1>2. <<>> \in Values
    BY <1>1, ValuesHas
  <1>3. /\ DOMAIN ph = Fields /\ ph.live = {Model} \cup Objs!Handles
        /\ ph.held = {Model} \cup Standalone /\ ph.keep = [h \in Objs!Handles |-> {}]
        /\ ph.conn = {} /\ ph.caps = [c \in Callbacks |-> {}]
        /\ ph.val = [h \in Objs!Shareds |-> 0] /\ ph.pend = {}
        /\ ph.out = [h \in Deps |-> 0] /\ ph.seen = [c \in Callbacks |-> <<>>]
        /\ ph.run = FALSE /\ ph.wake = FALSE /\ ph.sweep = <<>> /\ ph.swept = TRUE
        /\ ph.early = {}
    BY DEF Objs!PhInit, Fields
  <1>4. HandleTypes
    <2>1. /\ [h \in Objs!Handles |-> {}] \in [Objs!Handles -> SUBSET Callbacks]
          /\ [c \in Callbacks |-> {}] \in [Callbacks -> SUBSET Objs!Objects]
          /\ [h \in Objs!Shareds |-> 0] \in [Objs!Shareds -> Nat]
          /\ [h \in Deps |-> 0] \in [Deps -> Nat]
          /\ [c \in Callbacks |-> <<>>] \in [Callbacks -> Values]
          /\ {Model} \cup Objs!Handles \in SUBSET Objs!Objects
          /\ <<>> \in Seq(Objs!Shareds)
      BY <1>2 DEF Objs!Objects
    <2> QED  BY <2>1, <1>3 DEF HandleTypes
  <1>5. OwnersKeep
    BY <1>3 DEF OwnersKeep, Objs!Kept, Objs!Handles, Objs!Shareds
  <1>6. CallbacksOwned
    BY <1>3 DEF CallbacksOwned
  <1>7. SweepComes
    BY <1>3 DEF SweepComes
  <1>8. ValuesSeen
    BY <1>3 DEF ValuesSeen, Objs!Computed, Objs!Shareds
  <1> QED  BY <1>4, <1>5, <1>6, <1>7, <1>8 DEF HandlesInv

LEMMA HandlesStep == HandlesInv /\ [MCNext]_mcVars => HandlesInv'
  <1> SUFFICES ASSUME HandlesInv, [MCNext]_mcVars
               PROVE  HandlesInv'
    OBVIOUS
  <1>1. CASE UNCHANGED ph
    <2>1. HandleTypes'
      BY <1>1 DEF HandlesInv, HandleTypes
    <2>2. OwnersKeep' /\ CallbacksOwned'
      <3>1. \A o : Objs!Kept(ph', o) = Objs!Kept(ph, o)
        BY <1>1 DEF Objs!Kept
      <3> QED  BY <3>1, <1>1 DEF HandlesInv, OwnersKeep, CallbacksOwned
    <2>3. SweepComes'
      BY <1>1 DEF HandlesInv, SweepComes
    <2>4. ValuesSeen'
      <3>1. Objs!Computed(ph') = Objs!Computed(ph)
            /\ \A h : Objs!Value(ph', h) = Objs!Value(ph, h)
        BY <1>1 DEF Objs!Value, Objs!Computed
      <3> QED  BY <3>1, <1>1 DEF HandlesInv, ValuesSeen
    <2> QED  BY <2>1, <2>2, <2>3, <2>4 DEF HandlesInv
  <1>2. CASE Objs!PhNext
    BY <1>2, CollectKeeps, ObserveKeeps, ProgramKeeps, SetKeeps, StopKeeps, BeginKeeps,
       DrainKeeps DEF Objs!PhNext
  <1> QED  BY <1>1, <1>2 DEF MCNext, mcVars

\* At rest the invariant says what is promised.
LEMMA HandlesAtRest == HandlesInv => HandlesServed
  <1> SUFFICES ASSUME HandlesInv
               PROVE  Objs!PhTypeOK /\ Objs!HandlesServed
    BY DEF HandlesServed
  <1>1. HandleTypes /\ OwnersKeep /\ CallbacksOwned /\ SweepComes /\ ValuesSeen
    BY DEF HandlesInv
  <1>2. Objs!PhTypeOK
    BY <1>1 DEF Objs!PhTypeOK, HandleTypes, SweepComes
  <1>3. ASSUME Objs!Rest, NEW h \in ph.pend \ ph.early
        PROVE  h \notin ph.live \cup Deps
    <2>1. ToSet(<<>>) = {}
      BY DEF ToSet
    <2>2. h \notin ph.live
      BY <2>1, <1>1, <1>3 DEF SweepComes, Objs!Rest
    <2>3. Deps \subseteq ph.live
      <3>1. Model \in ph.live
        BY <1>1, <1>3 DEF OwnersKeep, Objs!Rest
      <3>2. Deps \subseteq Objs!Kept(ph, Model)
        BY DEF Objs!Kept, Objs!Shareds
      <3> QED  BY <3>1, <3>2, <1>1 DEF OwnersKeep
    <2> QED  BY <2>2, <2>3
  <1>4. Objs!HandlesServed
    BY <1>1, <1>3 DEF Objs!HandlesServed, ValuesSeen
  <1> QED  BY <1>2, <1>4

\* While an application runs and is idle, every connected observer of a handle that
\* is alive has the last value, and the derived value is that of its dependencies; for
\* any handles, dependencies, callbacks and what they capture.
\* (PyModel::drain, drain_standalone, derived_attach_dep)
THEOREM HandlesAreServed == MCSpec => []HandlesServed
  <1>1. MCInit => HandlesInv
    BY HandlesStart DEF MCInit
  <1> QED  BY <1>1, HandlesStep, HandlesAtRest, PTL DEF MCSpec
=============================================================================
