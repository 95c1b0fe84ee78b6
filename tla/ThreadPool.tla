----------------------------- MODULE ThreadPool -----------------------------
(***************************************************************************)
(* ThreadPool: the main thread adds and deletes tasks, and in handleEvents *)
(* gives waiting tasks to idle workers and calls onMain for finished ones, *)
(* a few at a time, with the mutex held.  A worker polls its status, runs  *)
(* its task until onTask returns 0, puts it into mMainTasks under the      *)
(* mutex and becomes idle.  Only mMainTasks is locked: a worker's status   *)
(* and task are plain stores, taken here in program order, one at a time.  *)
(***************************************************************************)
EXTENDS Integers, Sequences

CONSTANTS
    Workers,    \* 1..count, in the order of mThreads
    MaxTasks,   \* bound: the tasks ever added
    Batch       \* the finished tasks that one handleEvents deals with, 3

ASSUME PoolConstants ==
    /\ Workers \subseteq Nat \ {0} /\ Workers # {}
    /\ MaxTasks \in Nat
    /\ Batch \in Nat \ {0}

Tasks == 1..MaxTasks

VARIABLES
    lastId,     \* mTaskId; ids count from 1
    wait,       \* mWaitTasks
    finished,   \* mMainTasks
    deleted,    \* the tasks whose isDel is set
    freed,      \* the tasks whose TaskData has been freed
    executed,   \* the tasks whose onTask has returned 0
    status,     \* ThreadData::status, TS_NULL, TS_IDLE or TS_BUSY
    tdata,      \* ThreadData::tdata, 0 for a null pointer; it is never cleared
    at,         \* where each worker is in onThread
    mutex,      \* the holder of mMutex: "main", or nobody (a worker's section is one step)
    main,       \* where the main thread is in handleEvents
    target,     \* th: the worker handleEvents is giving a task to
    dealt       \* i: the finished tasks dealt with in this handleEvents

lists == <<wait, finished>>
mainVars == <<mutex, main, target, dealt>>
workerVars == <<status, tdata, at>>
vars == <<lastId, wait, finished, deleted, freed, executed, status, tdata, at,
          mutex, main, target, dealt>>

TypeOK ==
    /\ lastId \in 0..MaxTasks
    /\ wait \in Seq(Tasks) /\ finished \in Seq(Tasks)
    /\ deleted \subseteq Tasks /\ freed \subseteq Tasks /\ executed \subseteq Tasks
    /\ status \in [Workers -> {"null", "idle", "busy"}]
    /\ tdata \in [Workers -> 0..MaxTasks]
    /\ at \in [Workers -> {"start", "poll", "ask", "task", "push", "settle"}]
    /\ mutex \in {"nobody", "main"}
    /\ main \in {"idle", "assign", "lock", "deal", "onMain", "drop", "free", "crashed"}
    /\ target \in Workers \cup {0}
    /\ dealt \in 0..Batch

Init ==
    /\ lastId = 0 /\ wait = <<>> /\ finished = <<>>
    /\ deleted = {} /\ freed = {} /\ executed = {}
    /\ status = [w \in Workers |-> "null"]
    /\ tdata = [w \in Workers |-> 0]
    /\ at = [w \in Workers |-> "start"]
    /\ mutex = "nobody" /\ main = "idle" /\ target = 0 /\ dealt = 0

----------------------------------------------------------------------------
(* The main thread's calls: between two events, or from an onMain. *)

Calling == main \in {"idle", "onMain"}

Add ==
    /\ Calling /\ lastId < MaxTasks
    /\ lastId' = lastId + 1
    /\ wait' = Append(wait, lastId + 1)
    /\ UNCHANGED <<finished, deleted, freed, executed, workerVars, mainVars>>

(* del() looks through the workers and then the waiting tasks; it stops at *)
(* the first worker whose task has the id, and reads every task before it: *)
(* through a null pointer if the worker never had one, and in freed memory *)
(* if that task is over (the id found there may be anything).              *)
Before(w) == { v \in Workers : v < w }
Reaches(w) == \A v \in Before(w) : tdata[v] # 0
InList(t, s) == \E i \in DOMAIN s : s[i] = t

Del(t) ==
    /\ Calling
    /\ \/ \E w \in Workers : Reaches(w) /\ tdata[w] = t /\ t \notin freed
       \/ (\A w \in Workers : tdata[w] \notin {0, t}) /\ InList(t, wait)
    /\ deleted' = deleted \cup {t}
    /\ UNCHANGED <<lastId, lists, freed, executed, workerVars, mainVars>>

\* Nothing found, or found in freed memory: no task is marked.  The process
\* goes down when del() meets a worker that never had a task.
DelCrashes(t) ==
    /\ Calling
    /\ \E w \in Workers :
         /\ tdata[w] = 0 /\ Reaches(w)
         /\ \A v \in Before(w) : tdata[v] # t \/ t \in freed
    /\ main' = "crashed"
    /\ UNCHANGED <<lastId, lists, deleted, freed, executed, workerVars,
                   mutex, target, dealt>>

----------------------------------------------------------------------------
(* handleEvents. *)

\* checkEvents reads both sizes without the mutex.
CheckEvents ==
    /\ main = "idle"
    /\ wait # <<>> \/ finished # <<>>
    /\ main' = "assign" /\ target' = 0
    /\ UNCHANGED <<lastId, lists, deleted, freed, executed, workerVars, mutex, dealt>>

IsIdle(w) == status[w] = "idle" /\ \A v \in Before(w) : status[v] # "idle"

AssignTask(w) ==
    /\ main = "assign" /\ target = 0 /\ wait # <<>> /\ IsIdle(w)
    /\ tdata' = [tdata EXCEPT ![w] = Head(wait)]
    /\ target' = w
    /\ UNCHANGED <<lastId, lists, deleted, freed, executed, status, at, mutex, main, dealt>>

\* A slip: the task stays in mWaitTasks.
MarkBusyKept ==
    /\ main = "assign" /\ target # 0
    /\ status' = [status EXCEPT ![target] = "busy"]
    /\ target' = 0
    /\ UNCHANGED <<lastId, lists, deleted, freed, executed, tdata, at, mutex, main, dealt>>

MarkBusy ==
    /\ main = "assign" /\ target # 0
    /\ status' = [status EXCEPT ![target] = "busy"]
    /\ wait' = Tail(wait)
    /\ target' = 0
    /\ UNCHANGED <<lastId, finished, deleted, freed, executed, tdata, at, mutex, main, dealt>>

NoneToAssign ==
    /\ main = "assign" /\ target = 0
    /\ wait = <<>> \/ \A w \in Workers : status[w] # "idle"
    /\ main' = "lock"
    /\ UNCHANGED <<lastId, lists, deleted, freed, executed, workerVars, mutex, target, dealt>>

Lock ==
    /\ main = "lock" /\ mutex = "nobody"
    /\ mutex' = "main" /\ dealt' = 0 /\ main' = "deal"
    /\ UNCHANGED <<lastId, lists, deleted, freed, executed, workerVars, target>>

\* A slip: one task too many.
MoreToDealClosed == dealt <= Batch /\ finished # <<>>
MoreToDeal == dealt < Batch /\ finished # <<>>

\* A slip: isDel is not looked at.
DealAnyway ==
    /\ main = "deal" /\ MoreToDeal
    /\ main' = "onMain"
    /\ UNCHANGED <<lastId, lists, deleted, freed, executed, workerVars, mutex, target, dealt>>

Deal ==
    /\ main = "deal" /\ MoreToDeal
    /\ main' = IF Head(finished) \in deleted THEN "drop" ELSE "onMain"
    /\ UNCHANGED <<lastId, lists, deleted, freed, executed, workerVars, mutex, target, dealt>>

OnMainReturns ==
    /\ main = "onMain"
    /\ main' = "free"
    /\ UNCHANGED <<lastId, lists, deleted, freed, executed, workerVars, mutex, target, dealt>>

\* A slip: the task is freed and left in mMainTasks.
FreeKept ==
    /\ main \in {"drop", "free"}
    /\ freed' = freed \cup {Head(finished)}
    /\ dealt' = dealt + 1 /\ main' = "deal"
    /\ UNCHANGED <<lastId, lists, deleted, executed, workerVars, mutex, target>>

Free ==
    /\ main \in {"drop", "free"}
    /\ freed' = freed \cup {Head(finished)}
    /\ finished' = Tail(finished)
    /\ dealt' = dealt + 1 /\ main' = "deal"
    /\ UNCHANGED <<lastId, wait, deleted, executed, workerVars, mutex, target>>

\* No more to deal with, or more than 500 ms spent on what was.
Unlock ==
    /\ main = "deal"
    /\ ~MoreToDeal \/ dealt > 0
    /\ mutex' = "nobody" /\ main' = "idle"
    /\ UNCHANGED <<lastId, lists, deleted, freed, executed, workerVars, target, dealt>>

----------------------------------------------------------------------------
(* onThread. *)

Goes(w, from, to) == main # "crashed" /\ at[w] = from /\ at' = [at EXCEPT ![w] = to]

Start(w) ==
    /\ Goes(w, "start", "poll")
    /\ status' = [status EXCEPT ![w] = "idle"]
    /\ UNCHANGED <<lastId, lists, deleted, freed, executed, tdata, mainVars>>

Poll(w) ==
    /\ status[w] = "busy" /\ Goes(w, "poll", "ask")
    /\ UNCHANGED <<lastId, lists, deleted, freed, executed, status, tdata, mainVars>>

AskDeleted(w) ==
    /\ Goes(w, "ask", IF tdata[w] \in deleted THEN "push" ELSE "task")
    /\ UNCHANGED <<lastId, lists, deleted, freed, executed, status, tdata, mainVars>>

OnTaskDone(w) ==
    /\ Goes(w, "task", "push")
    /\ executed' = executed \cup {tdata[w]}
    /\ UNCHANGED <<lastId, lists, deleted, freed, status, tdata, mainVars>>

\* A slip: a worker whose task is not done becomes idle.
OnTaskForgotten(w) ==
    /\ Goes(w, "task", "settle")
    /\ UNCHANGED <<lastId, lists, deleted, freed, executed, status, tdata, mainVars>>

\* onTask returned non-zero: the worker is still busy with the same task.
OnTaskAgain(w) ==
    /\ Goes(w, "task", "poll")
    /\ UNCHANGED <<lastId, lists, deleted, freed, executed, status, tdata, mainVars>>

Push(w) ==
    /\ mutex = "nobody" /\ Goes(w, "push", "settle")
    /\ finished' = Append(finished, tdata[w])
    /\ UNCHANGED <<lastId, wait, deleted, freed, executed, status, tdata, mainVars>>

\* The log that follows reads the id again, whatever tdata points to by then.
Settle(w) ==
    /\ Goes(w, "settle", "poll")
    /\ status' = [status EXCEPT ![w] = "idle"]
    /\ UNCHANGED <<lastId, lists, deleted, freed, executed, tdata, mainVars>>

----------------------------------------------------------------------------
HandleEvents ==
    \/ CheckEvents \/ \E w \in Workers : AssignTask(w)
    \/ MarkBusy \/ NoneToAssign \/ Lock \/ Deal \/ OnMainReturns \/ Free \/ Unlock

Runs(w) == Start(w) \/ Poll(w) \/ AskDeleted(w) \/ Push(w) \/ Settle(w)

OnThread(w) == Runs(w) \/ OnTaskDone(w) \/ OnTaskAgain(w)

Next ==
    \/ Add
    \/ \E t \in Tasks : Del(t) \/ DelCrashes(t)
    \/ HandleEvents
    \/ \E w \in Workers : OnThread(w)

Spec == Init /\ [][Next]_vars

\* The looper polls the pool and the workers are scheduled for ever; a worker
\* that waits for a mutex which is free again and again gets it; a task whose
\* onTask is called again and again is done at last.
Fairness ==
    /\ WF_vars(HandleEvents)
    /\ \A w \in Workers : WF_vars(Runs(w)) /\ SF_vars(Push(w)) /\ SF_vars(OnTaskDone(w))

FairSpec == Spec /\ Fairness

----------------------------------------------------------------------------
\* The task a worker has been given and not yet handed back.
Holds(w) == status[w] = "busy" /\ at[w] # "settle"

(***************************************************************************)
(* One place for every task: it waits, or one worker holds it, or it is    *)
(* finished, or it is freed; nothing is run twice, freed twice or lost,    *)
(* though no lock guards the hand-over to a worker.                        *)
(***************************************************************************)
Places(t) ==
    { <<"wait", i>> : i \in { j \in DOMAIN wait : wait[j] = t } }
    \cup { <<"worker", w>> : w \in { v \in Workers : Holds(v) /\ tdata[v] = t } }
    \cup { <<"finished", i>> : i \in { j \in DOMAIN finished : finished[j] = t } }
    \cup { <<"freed", 0>> : x \in { y \in freed : y = t } }

OnePlace ==
    \A t \in 1..lastId : Places(t) # {} /\ \A x, y \in Places(t) : x = y

(***************************************************************************)
(* What a worker runs and what the main thread completes is not freed: the *)
(* only reads of freed memory are the one for the log and del()'s.         *)
(***************************************************************************)
LiveWhenUsed ==
    /\ \A w \in Workers : at[w] \in {"ask", "task", "push"} => tdata[w] \in (1..lastId) \ freed
    /\ main \in {"onMain", "drop", "free"} => finished # <<>> /\ Head(finished) \notin freed

(***************************************************************************)
(* Every task that is added comes to its end, whatever else is added,      *)
(* deleted or repeated, unless del() takes the process down.               *)
(***************************************************************************)
AllServed == \A t \in Tasks : t <= lastId ~> (t \in freed \/ main = "crashed")

(***************************************************************************)
(* The pool keeps ThreadTask's contract ("0 done, not 0 not done", "the    *)
(* task is done, back to the main thread").                                *)
(***************************************************************************)
Completing == main \in {"onMain", "free"} \/ (main = "crashed" /\ mutex = "main")
Handed(t) == InList(t, finished) \/ \E w \in Workers : at[w] = "push" /\ tdata[w] = t

Stage(t) ==
    IF t > lastId THEN "new"
    ELSE IF t \in freed THEN "over"
    ELSE IF Completing /\ Head(finished) = t THEN "completing"
    ELSE IF t \in executed THEN "executed"
    ELSE IF Handed(t) THEN "skipped"
    ELSE "accepted"

Contract == INSTANCE TaskContract
                WITH stage <- [t \in Tasks |-> Stage(t)], cancelled <- deleted
KeepsContract == Contract!CSpec
=============================================================================
