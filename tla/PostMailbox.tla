----------------------------- MODULE PostMailbox -----------------------------
(***************************************************************************)
(* What AppContext::post promises its callers: a mailbox of closures.      *)
(* Every accepted closure is run by the logic thread, once, in the order   *)
(* of acceptance, for as long as the logic thread's run_loop is alive.     *)
(* MutationQueue implements it with a linked list, a flag and run_loop     *)
(* tasks.                                                                  *)
(***************************************************************************)
EXTENDS Sequences, SequencesExt

CONSTANT Fn          \* the closures that may be posted

VARIABLES
    pending,         \* accepted and not run yet, oldest first
    executed,        \* the closures run, in order
    stopped          \* the logic thread has left its run_loop

vars == <<pending, executed, stopped>>

TypeOK ==
    /\ pending \in Seq(Fn)
    /\ executed \in Seq(Fn)
    /\ stopped \in BOOLEAN

Init ==
    /\ pending = <<>>
    /\ executed = <<>>
    /\ stopped = FALSE

\* A closure is accepted at most once.
Accept(f) ==
    /\ f \notin ToSet(pending) \cup ToSet(executed)
    /\ pending' = Append(pending, f)
    /\ UNCHANGED <<executed, stopped>>

Execute ==
    /\ ~stopped
    /\ pending # <<>>
    /\ executed' = Append(executed, Head(pending))
    /\ pending' = Tail(pending)
    /\ UNCHANGED stopped

Stop ==
    /\ ~stopped
    /\ stopped' = TRUE
    /\ UNCHANGED <<pending, executed>>

Next == (\E f \in Fn : Accept(f)) \/ Execute \/ Stop

SafeSpec == Init /\ [][Next]_vars

Spec == SafeSpec /\ WF_vars(Execute)
=============================================================================
