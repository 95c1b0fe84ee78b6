---------------------------- MODULE TaskContract ----------------------------
(***************************************************************************)
(* What ThreadTask promises the code that hands a task to the pool: onTask *)
(* runs on some worker until it returns 0, then onMain runs, once, on the  *)
(* main thread; a task that was deleted in time is given up on the way.    *)
(***************************************************************************)
EXTENDS Integers

CONSTANT MaxTasks   \* bound: the tasks ever added

Tasks == 1..MaxTasks

VARIABLES
    stage,      \* how far each task has come
    cancelled   \* the tasks marked deleted

cvars == <<stage, cancelled>>

CInit ==
    /\ stage = [t \in Tasks |-> "new"]
    /\ cancelled = {}

To(t, from, to) == stage[t] = from /\ stage' = [stage EXCEPT ![t] = to]

Accept(t) == To(t, "new", "accepted") /\ UNCHANGED cancelled
Cancel(t) ==
    /\ stage[t] \in {"accepted", "executed", "completing"}
    /\ cancelled' = cancelled \cup {t}
    /\ UNCHANGED stage

\* onTask returned 0; a worker may have asked just before the task was deleted.
Execute(t) == To(t, "accepted", "executed") /\ UNCHANGED cancelled
Skip(t) == t \in cancelled /\ To(t, "accepted", "skipped") /\ UNCHANGED cancelled

\* onMain is called for what was executed and not deleted, and for nothing else.
Complete(t) ==
    t \notin cancelled /\ To(t, "executed", "completing") /\ UNCHANGED cancelled
Over(t) == To(t, "completing", "over") /\ UNCHANGED cancelled
GiveUp(t) ==
    /\ t \in cancelled
    /\ To(t, "executed", "over") \/ To(t, "skipped", "over")
    /\ UNCHANGED cancelled

CNext ==
    \E t \in Tasks :
        \/ Accept(t) \/ Cancel(t) \/ Execute(t) \/ Skip(t)
        \/ Complete(t) \/ Over(t) \/ GiveUp(t)

CSpec == CInit /\ [][CNext]_cvars
=============================================================================
