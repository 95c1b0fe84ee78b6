-------------------------- MODULE ThreadPool_proofs --------------------------
(***************************************************************************)
(* Proofs about the thread pool, for any set of workers and any number of  *)
(* tasks: where a task is, who may use it, and that the pool implements    *)
(* the contract of ThreadTask.                                             *)
(***************************************************************************)
EXTENDS ThreadPool, TLAPS

Given == 1..lastId

NoTwice(s) == \A i, j \in DOMAIN s : s[i] = s[j] => i = j

\* A worker that has not started is null, one that is past its poll is busy,
\* and a busy one has a task; no worker has one that was never added.
WorkerInv ==
    \A w \in Workers :
        /\ at[w] = "start" <=> status[w] = "null"
        /\ at[w] \in {"ask", "task", "push", "settle"} => status[w] = "busy"
        /\ tdata[w] \in Given \cup {0}
        /\ status[w] = "busy" => tdata[w] # 0

\* The main thread's place in handleEvents says what it holds.
MainInv ==
    /\ main \in {"idle", "assign", "lock"} => mutex = "nobody"
    /\ main \in {"deal", "onMain", "drop", "free"} => mutex = "main"
    /\ main \in {"onMain", "drop", "free"} => dealt < Batch /\ finished # <<>>
    /\ main = "crashed" /\ mutex = "main" => finished # <<>>
    /\ main = "drop" => Head(finished) \in deleted
    /\ target # 0 => /\ main = "assign" /\ status[target] = "idle"
                     /\ wait # <<>> /\ tdata[target] = Head(wait)

(* OnePlace, without the numbers of the places: a task that was added is   *)
(* somewhere, and no two of the four places have it.                       *)
SomewhereInv ==
    \A t \in Given : \/ InList(t, wait) \/ InList(t, finished) \/ t \in freed
                     \/ \E w \in Workers : Holds(w) /\ tdata[w] = t

NowhereElseInv ==
    /\ NoTwice(wait) /\ NoTwice(finished)
    /\ \A v, w \in Workers : Holds(v) /\ Holds(w) /\ tdata[v] = tdata[w] => v = w
    /\ \A w \in Workers : Holds(w) =>
         ~InList(tdata[w], wait) /\ ~InList(tdata[w], finished) /\ tdata[w] \notin freed
    /\ \A t \in Tasks : InList(t, wait) => t \in Given /\ ~InList(t, finished) /\ t \notin freed
    /\ \A t \in Tasks : InList(t, finished) => t \in Given /\ t \notin freed
    /\ freed \subseteq Given

(* How far a task has come: its onTask is over when its worker hands it    *)
(* back and not before, unless it was deleted.                             *)
ProgressInv ==
    /\ executed \subseteq Given
    /\ \A t \in Tasks : InList(t, wait) => t \notin executed
    /\ \A w \in Workers : Holds(w) /\ at[w] # "push" => tdata[w] \notin executed
    /\ \A w \in Workers : at[w] = "push" => tdata[w] \in executed \cup deleted
    /\ \A t \in Tasks : InList(t, finished) => t \in executed \cup deleted

PInv == TypeOK /\ WorkerInv /\ MainInv /\ SomewhereInv /\ NowhereElseInv /\ ProgressInv

----------------------------------------------------------------------------
(* A list of the pool, at both ends. *)

LEMMA AppendedList ==
  ASSUME NEW s \in Seq(Tasks), NEW x \in Tasks
  PROVE  /\ Append(s, x) \in Seq(Tasks) /\ Append(s, x) # <<>>
         /\ \A t \in Tasks : InList(t, Append(s, x)) <=> InList(t, s) \/ t = x
         /\ s # <<>> => Head(Append(s, x)) = Head(s)
         /\ NoTwice(s) /\ ~InList(x, s) => NoTwice(Append(s, x))
<1>1. /\ Append(s, x) \in Seq(Tasks) /\ Append(s, x) # <<>>
      /\ Len(Append(s, x)) = Len(s) + 1
      /\ DOMAIN Append(s, x) = 1..(Len(s) + 1) /\ DOMAIN s = 1..Len(s) /\ Len(s) \in Nat
      /\ Append(s, x)[Len(s) + 1] = x
      /\ \A i \in 1..Len(s) : Append(s, x)[i] = s[i]
  OBVIOUS
<1>2. ASSUME NEW t \in Tasks PROVE InList(t, Append(s, x)) <=> InList(t, s) \/ t = x
  BY <1>1 DEF InList
<1>3. s # <<>> => Head(Append(s, x)) = Head(s)
  OBVIOUS
<1>4. NoTwice(s) /\ ~InList(x, s) => NoTwice(Append(s, x))
  BY <1>1 DEF NoTwice, InList
<1>5. QED
  BY <1>1, <1>2, <1>3, <1>4

LEMMA TailedList ==
  ASSUME NEW s \in Seq(Tasks), s # <<>>, NoTwice(s)
  PROVE  /\ Tail(s) \in Seq(Tasks) /\ NoTwice(Tail(s))
         /\ Head(s) \in Tasks /\ InList(Head(s), s)
         /\ \A t \in Tasks : InList(t, Tail(s)) <=> InList(t, s) /\ t # Head(s)
<1>1. /\ Tail(s) \in Seq(Tasks) /\ Len(s) \in Nat \ {0}
      /\ DOMAIN s = 1..Len(s) /\ DOMAIN Tail(s) = 1..(Len(s) - 1)
      /\ Head(s) = s[1] /\ s[1] \in Tasks
      /\ \A i \in 1..(Len(s) - 1) : Tail(s)[i] = s[i + 1]
  OBVIOUS
<1>2. NoTwice(Tail(s))
  BY <1>1 DEF NoTwice
<1>3. InList(Head(s), s)
  BY <1>1 DEF InList
<1>4. ASSUME NEW t \in Tasks PROVE InList(t, Tail(s)) <=> InList(t, s) /\ t # Head(s)
  <2>1. ASSUME InList(t, Tail(s)) PROVE InList(t, s) /\ t # Head(s)
    <3>1. PICK i \in 1..(Len(s) - 1) : Tail(s)[i] = t
      BY <2>1, <1>1 DEF InList
    <3>2. i + 1 \in 1..Len(s) /\ s[i + 1] = t /\ i + 1 # 1
      BY <3>1, <1>1
    <3>3. QED
      BY <3>2, <1>1 DEF InList, NoTwice
  <2>2. ASSUME InList(t, s), t # Head(s) PROVE InList(t, Tail(s))
    <3>1. PICK i \in 1..Len(s) : s[i] = t
      BY <2>2, <1>1 DEF InList
    <3>2. i - 1 \in 1..(Len(s) - 1) /\ Tail(s)[i - 1] = s[i]
      BY <3>1, <2>2, <1>1
    <3>3. QED
      BY <3>1, <3>2, <1>1 DEF InList
  <2>3. QED
    BY <2>1, <2>2
<1>5. QED
  BY <1>1, <1>2, <1>3, <1>4

LEMMA EmptyList == NoTwice(<<>>) /\ \A t : ~InList(t, <<>>)
BY DEF NoTwice, InList

----------------------------------------------------------------------------
(* The parts of the invariant. *)

LEMMA InitInv == Init => PInv
<1> SUFFICES ASSUME Init PROVE PInv
  OBVIOUS
<1>1. TypeOK
  BY PoolConstants DEF Init, TypeOK
<1>2. WorkerInv /\ MainInv
  BY DEF Init, WorkerInv, MainInv
<1>3. SomewhereInv /\ NowhereElseInv /\ ProgressInv
  BY EmptyList DEF Init, SomewhereInv, NowhereElseInv, ProgressInv, Given, Holds
<1>4. QED
  BY <1>1, <1>2, <1>3 DEF PInv

(* The main thread's calls. *)

LEMMA AddPreserves == PInv /\ Add => PInv'
<1> SUFFICES ASSUME PInv, Add PROVE PInv'
  OBVIOUS
<1> DEFINE t0 == lastId + 1
<1>1. /\ lastId \in Nat /\ t0 \in Tasks /\ lastId' = t0 /\ wait' = Append(wait, t0)
      /\ wait \in Seq(Tasks) /\ lastId' \in 0..MaxTasks
      /\ UNCHANGED <<finished, deleted, freed, executed, status, tdata, at,
                     mutex, main, target, dealt>>
      /\ main \in {"idle", "onMain"}
  BY PoolConstants DEF PInv, TypeOK, Add, Calling, Tasks, workerVars, mainVars
<1>2. Given' = Given \cup {t0} /\ t0 \notin Given
  BY <1>1 DEF Given
<1> HIDE DEF t0
<1>3. /\ wait' \in Seq(Tasks)
      /\ \A t \in Tasks : InList(t, wait') <=> InList(t, wait) \/ t = t0
      /\ NoTwice(wait')
  BY <1>1, <1>2, AppendedList DEF PInv, NowhereElseInv
<1>4. \A w \in Workers : Holds(w)' <=> Holds(w)
  BY <1>1 DEF Holds
<1>5. TypeOK'
  BY <1>1, <1>3 DEF PInv, TypeOK
<1>6. WorkerInv'
  BY <1>1, <1>2 DEF PInv, WorkerInv
<1>7. MainInv'
  BY <1>1 DEF PInv, MainInv
<1>8. SomewhereInv'
  <2>1. Given \subseteq Tasks
    BY PoolConstants DEF PInv, TypeOK, Given, Tasks
  <2>2. QED
    BY <1>1, <1>2, <1>3, <1>4, <2>1 DEF PInv, SomewhereInv
<1>9. \A w \in Workers : Holds(w) => tdata[w] \in Given /\ tdata[w] \in Tasks
  BY <1>1 DEF PInv, TypeOK, WorkerInv, Holds, Given, Tasks
<1>10. NowhereElseInv'
  BY <1>1, <1>2, <1>3, <1>4, <1>9 DEF PInv, NowhereElseInv
<1>11. ProgressInv'
  BY <1>1, <1>2, <1>3, <1>4, <1>9 DEF PInv, ProgressInv
<1>12. QED
  BY <1>5, <1>6, <1>7, <1>8, <1>10, <1>11 DEF PInv

LEMMA DelPreserves == ASSUME PInv, NEW t \in Tasks, Del(t) PROVE PInv'
<1>1. /\ deleted' = deleted \cup {t}
      /\ UNCHANGED <<lastId, wait, finished, freed, executed, status, tdata, at,
                     mutex, main, target, dealt>>
  BY DEF Del, lists, workerVars, mainVars
<1>2. TypeOK' /\ WorkerInv' /\ MainInv'
  BY <1>1 DEF PInv, TypeOK, WorkerInv, MainInv, Given
<1>3. SomewhereInv' /\ NowhereElseInv'
  BY <1>1 DEF PInv, SomewhereInv, NowhereElseInv, Given, Holds
<1>4. ProgressInv'
  BY <1>1 DEF PInv, ProgressInv, Given, Holds
<1>5. QED
  BY <1>2, <1>3, <1>4 DEF PInv

\* The steps of the main thread that change nothing but where it is.
LEMMA MainMoves ==
  ASSUME PInv, UNCHANGED <<lastId, lists, deleted, freed, executed, workerVars>>,
         main' \in {"idle", "assign", "lock", "deal", "onMain", "drop", "free", "crashed"},
         mutex' \in {"nobody", "main"}, target' = 0, dealt' \in 0..Batch, MainInv'
  PROVE  PInv'
<1>1. UNCHANGED <<lastId, wait, finished, deleted, freed, executed, status, tdata, at>>
  BY DEF lists, workerVars
<1>2. TypeOK' /\ WorkerInv'
  BY <1>1 DEF PInv, TypeOK, WorkerInv, Given
<1>3. SomewhereInv' /\ NowhereElseInv' /\ ProgressInv'
  BY <1>1 DEF PInv, SomewhereInv, NowhereElseInv, ProgressInv, Given, Holds
<1>4. QED
  BY <1>2, <1>3 DEF PInv

LEMMA MainPreserves ==
  ASSUME PInv,
         \/ \E t \in Tasks : DelCrashes(t)
         \/ CheckEvents \/ NoneToAssign \/ Lock \/ Deal \/ OnMainReturns \/ Unlock
  PROVE  PInv'
<1> USE DEF MainInv, lists, workerVars, mainVars
<1>1. /\ UNCHANGED <<lastId, lists, deleted, freed, executed, workerVars>>
      /\ main' \in {"idle", "assign", "lock", "deal", "onMain", "drop", "free", "crashed"}
  BY DEF DelCrashes, CheckEvents, NoneToAssign, Lock, Deal, OnMainReturns, Unlock
<1>2. /\ mutex' \in {"nobody", "main"}
      /\ target' = 0
      /\ dealt' \in 0..Batch
  BY PoolConstants DEF PInv, TypeOK, DelCrashes, Calling, CheckEvents, NoneToAssign, Lock, Deal,
     OnMainReturns, Unlock
<1>3. MainInv'
  <2>1. CASE \E t \in Tasks : DelCrashes(t)
    BY <2>1, <1>1, <1>2 DEF PInv, DelCrashes, Calling
  <2>2. CASE CheckEvents \/ NoneToAssign
    BY <2>2, <1>1, <1>2 DEF PInv, CheckEvents, NoneToAssign
  <2>3. CASE Lock \/ Unlock
    BY <2>3, <1>1, <1>2 DEF PInv, Lock, Unlock
  <2>4. CASE Deal
    BY <2>4, <1>1, <1>2 DEF PInv, Deal, MoreToDeal
  <2>5. CASE OnMainReturns
    BY <2>5, <1>1, <1>2 DEF PInv, OnMainReturns
  <2>6. QED
    BY <2>1, <2>2, <2>3, <2>4, <2>5
<1>4. QED
  BY <1>1, <1>2, <1>3, MainMoves

LEMMA AssignPreserves == ASSUME PInv, NEW w \in Workers, AssignTask(w) PROVE PInv'
<1>1. /\ UNCHANGED <<lastId, wait, finished, deleted, freed, executed, status, at,
                     mutex, main, dealt>>
      /\ main = "assign" /\ wait # <<>> /\ status[w] = "idle" /\ target' = w
      /\ tdata' = [tdata EXCEPT ![w] = Head(wait)]
  BY DEF AssignTask, IsIdle, lists
<1>2. /\ tdata \in [Workers -> 0..MaxTasks] /\ Head(wait) \in Tasks /\ Head(wait) \in Given
      /\ tdata' \in [Workers -> 0..MaxTasks]
  <2>1. Head(wait) \in Tasks /\ InList(Head(wait), wait)
    BY <1>1, TailedList DEF PInv, TypeOK, NowhereElseInv
  <2>2. QED
    BY <1>1, <2>1, PoolConstants DEF PInv, TypeOK, NowhereElseInv, Tasks
<1>3. \A v \in Workers : status[v] # "idle" => tdata'[v] = tdata[v]
  BY <1>1, <1>2
<1>4. \A v \in Workers : /\ Holds(v)' <=> Holds(v)
                         /\ Holds(v) \/ at[v] = "push" => status[v] # "idle"
  BY <1>1 DEF Holds, PInv, WorkerInv
<1>5. TypeOK'
  BY <1>1, <1>2 DEF PInv, TypeOK
<1>6. WorkerInv'
  BY <1>1, <1>2, <1>3 DEF PInv, WorkerInv, Given
<1>7. MainInv'
  BY <1>1, <1>2 DEF PInv, MainInv
<1>8. SomewhereInv' /\ NowhereElseInv' /\ ProgressInv'
  BY <1>1, <1>3, <1>4 DEF PInv, SomewhereInv, NowhereElseInv, ProgressInv, Given
<1>9. QED
  BY <1>5, <1>6, <1>7, <1>8 DEF PInv

LEMMA MarkBusyPreserves == PInv /\ MarkBusy => PInv'
<1> SUFFICES ASSUME PInv, MarkBusy PROVE PInv'
  OBVIOUS
<1> DEFINE h == Head(wait)
<1>1. /\ UNCHANGED <<lastId, finished, deleted, freed, executed, tdata, at, mutex, main, dealt>>
      /\ main = "assign" /\ target # 0 /\ target' = 0 /\ wait' = Tail(wait)
      /\ status' = [status EXCEPT ![target] = "busy"]
  BY DEF MarkBusy
<1>2. /\ target \in Workers /\ status[target] = "idle" /\ wait # <<>> /\ tdata[target] = h
      /\ status' \in [Workers -> {"null", "idle", "busy"}]
      /\ status'[target] = "busy" /\ \A v \in Workers \ {target} : status'[v] = status[v]
  BY <1>1 DEF PInv, TypeOK, MainInv
<1>3. /\ Tail(wait) \in Seq(Tasks) /\ NoTwice(Tail(wait)) /\ h \in Tasks /\ InList(h, wait)
      /\ \A t \in Tasks : InList(t, Tail(wait)) <=> InList(t, wait) /\ t # h
  BY <1>2, TailedList DEF PInv, TypeOK, NowhereElseInv
<1> HIDE DEF h
<1>4. /\ at[target] = "poll"
      /\ \A v \in Workers : Holds(v)' <=> Holds(v) \/ v = target
      /\ ~Holds(target)
  BY <1>1, <1>2 DEF PInv, TypeOK, WorkerInv, Holds
<1>5. /\ h \in Given /\ ~InList(h, finished) /\ h \notin freed /\ h \notin executed
      /\ \A v \in Workers : Holds(v) => tdata[v] # h
  BY <1>3 DEF PInv, NowhereElseInv, ProgressInv
<1>6. \A v \in Workers : Holds(v) => tdata[v] \in Given /\ tdata[v] \in Tasks
  BY DEF PInv, TypeOK, WorkerInv, Holds, Given, Tasks
<1>7. TypeOK'
  BY <1>1, <1>2, <1>3 DEF PInv, TypeOK
<1>8. WorkerInv'
  BY <1>1, <1>2, <1>4, <1>5 DEF PInv, WorkerInv, Given
<1>9. MainInv'
  BY <1>1 DEF PInv, MainInv
<1>10. SomewhereInv'
  BY <1>1, <1>2, <1>3, <1>4, PoolConstants DEF PInv, TypeOK, SomewhereInv, Given, Tasks
<1>11. NowhereElseInv'
  BY <1>1, <1>2, <1>3, <1>4, <1>5, <1>6 DEF PInv, NowhereElseInv, Given
<1>12. ProgressInv'
  BY <1>1, <1>2, <1>3, <1>4, <1>5, <1>6 DEF PInv, ProgressInv, Given
<1>13. QED
  BY <1>7, <1>8, <1>9, <1>10, <1>11, <1>12 DEF PInv

LEMMA FreePreserves == PInv /\ Free => PInv'
<1> SUFFICES ASSUME PInv, Free PROVE PInv'
  OBVIOUS
<1> DEFINE h == Head(finished)
<1>1. /\ UNCHANGED <<lastId, wait, deleted, executed, status, tdata, at, mutex, target>>
      /\ main \in {"drop", "free"} /\ main' = "deal" /\ dealt' = dealt + 1
      /\ freed' = freed \cup {h} /\ finished' = Tail(finished)
  BY DEF Free, workerVars
<1>2. finished # <<>> /\ dealt < Batch /\ mutex = "main" /\ target = 0
  BY <1>1 DEF PInv, MainInv
<1>3. /\ Tail(finished) \in Seq(Tasks) /\ NoTwice(Tail(finished)) /\ h \in Tasks
      /\ InList(h, finished)
      /\ \A t \in Tasks : InList(t, Tail(finished)) <=> InList(t, finished) /\ t # h
  BY <1>2, TailedList DEF PInv, TypeOK, NowhereElseInv
<1> HIDE DEF h
<1>4. h \in Given /\ ~InList(h, wait) /\ \A w \in Workers : Holds(w) => tdata[w] # h
  BY <1>3 DEF PInv, NowhereElseInv
<1>5. \A w \in Workers : /\ Holds(w)' <=> Holds(w)
                         /\ Holds(w) => tdata[w] \in Tasks
  BY <1>1 DEF PInv, TypeOK, WorkerInv, Holds, Given, Tasks
<1>6. TypeOK'
  BY <1>1, <1>2, <1>3, PoolConstants DEF PInv, TypeOK
<1>7. WorkerInv' /\ MainInv'
  BY <1>1, <1>2 DEF PInv, WorkerInv, MainInv, Given
<1>8. SomewhereInv'
  <2> SUFFICES ASSUME NEW t \in Given
               PROVE  \/ InList(t, wait) \/ InList(t, finished)' \/ t \in freed'
                      \/ \E w \in Workers : Holds(w)' /\ tdata'[w] = t
    BY <1>1 DEF SomewhereInv, Given, InList
  <2>1. t \in Tasks
    BY PoolConstants DEF PInv, TypeOK, Given, Tasks
  <2>2. InList(t, finished)' <=> InList(t, Tail(finished))
    BY <1>1 DEF InList
  <2>3. CASE InList(t, finished)
    BY <1>1, <1>3, <2>1, <2>2, <2>3
  <2>4. CASE ~InList(t, finished)
    BY <1>1, <1>5, <2>4 DEF PInv, SomewhereInv
  <2> QED
    BY <2>3, <2>4
<1>9. NowhereElseInv'
  BY <1>1, <1>3, <1>4, <1>5 DEF PInv, NowhereElseInv, Given
<1>10. ProgressInv'
  BY <1>1, <1>3, <1>5 DEF PInv, ProgressInv, Given
<1>11. QED
  BY <1>6, <1>7, <1>8, <1>9, <1>10 DEF PInv

----------------------------------------------------------------------------
(* onThread. *)

\* The steps of a worker that change nothing but where it is, and what it says
\* of itself.
LEMMA WorkerMoves ==
  ASSUME PInv, NEW w \in Workers,
         UNCHANGED <<lastId, lists, deleted, freed, executed, tdata, mainVars>>,
         NEW to \in {"start", "poll", "ask", "task", "push", "settle"},
         at[w] # "push", at' = [at EXCEPT ![w] = to],
         NEW st \in {"idle", "busy"}, status' = [status EXCEPT ![w] = st],
         st = "idle" => to = "poll" /\ ~Holds(w),
         st = "busy" => status[w] = "busy" /\ Holds(w) /\ to \notin {"start", "settle"},
         to = "push" => tdata[w] \in deleted
  PROVE  PInv'
<1>1. /\ UNCHANGED <<lastId, wait, finished, deleted, freed, executed, tdata,
                     mutex, main, target, dealt>>
      /\ at'[w] = to /\ status'[w] = st
      /\ \A v \in Workers \ {w} : at'[v] = at[v] /\ status'[v] = status[v]
      /\ at' \in [Workers -> {"start", "poll", "ask", "task", "push", "settle"}]
      /\ status' \in [Workers -> {"null", "idle", "busy"}]
  BY DEF lists, mainVars, PInv, TypeOK
<1>2. \A v \in Workers : Holds(v)' <=> Holds(v)
  BY <1>1 DEF Holds
<1>3. TypeOK' /\ WorkerInv'
  BY <1>1 DEF PInv, TypeOK, WorkerInv, Given
<1>4. MainInv'
  BY <1>1 DEF PInv, MainInv, Holds
<1>5. SomewhereInv' /\ NowhereElseInv'
  BY <1>1, <1>2 DEF PInv, SomewhereInv, NowhereElseInv, Given
<1>6. ProgressInv'
  BY <1>1, <1>2 DEF PInv, ProgressInv, Given, Holds
<1>7. QED
  BY <1>3, <1>4, <1>5, <1>6 DEF PInv

LEMMA WorkerPreserves ==
  ASSUME PInv, NEW w \in Workers,
         Start(w) \/ Poll(w) \/ AskDeleted(w) \/ OnTaskAgain(w) \/ Settle(w)
  PROVE  PInv'
<1> USE DEF Goes, mainVars
<1>1. status \in [Workers -> {"null", "idle", "busy"}]
  BY DEF PInv, TypeOK
<1>2. status[w] = "busy" /\ status' = status => status' = [status EXCEPT ![w] = "busy"]
  BY <1>1
<1>3. CASE Start(w)
  <2>1. ~Holds(w)
    BY <1>3 DEF Start, Holds, PInv, WorkerInv
  <2>2. QED
    BY <1>3, <2>1, WorkerMoves DEF Start
<1>4. CASE Poll(w)
  <2>1. Holds(w)
    BY <1>4 DEF Poll, Holds
  <2>2. QED
    BY <1>2, <1>4, <2>1, WorkerMoves DEF Poll
<1>5. CASE AskDeleted(w)
  <2>1. Holds(w)
    BY <1>5 DEF AskDeleted, Holds, PInv, WorkerInv
  <2>2. PICK to \in {"task", "push"} :
          at' = [at EXCEPT ![w] = to] /\ (to = "push" => tdata[w] \in deleted)
    BY <1>5 DEF AskDeleted
  <2>3. at[w] # "push" /\ status' = [status EXCEPT ![w] = "busy"]
        /\ UNCHANGED <<lastId, lists, deleted, freed, executed, tdata, mainVars>>
    BY <1>2, <1>5, <2>1 DEF AskDeleted, Holds
  <2>4. QED
    BY <2>1, <2>2, <2>3, WorkerMoves DEF Holds
<1>6. CASE OnTaskAgain(w)
  <2>1. Holds(w)
    BY <1>6 DEF OnTaskAgain, Holds, PInv, WorkerInv
  <2>2. QED
    BY <1>2, <1>6, <2>1, WorkerMoves DEF OnTaskAgain, Holds
<1>7. CASE Settle(w)
  <2>1. ~Holds(w)
    BY <1>7 DEF Settle, Holds
  <2>2. QED
    BY <1>7, <2>1, WorkerMoves DEF Settle
<1>8. QED
  BY <1>3, <1>4, <1>5, <1>6, <1>7

LEMMA OnTaskDonePreserves == ASSUME PInv, NEW w \in Workers, OnTaskDone(w) PROVE PInv'
<1> DEFINE t0 == tdata[w]
<1>1. /\ UNCHANGED <<lastId, wait, finished, deleted, freed, status, tdata,
                     mutex, main, target, dealt>>
      /\ at[w] = "task" /\ at'[w] = "push" /\ executed' = executed \cup {t0}
      /\ \A v \in Workers \ {w} : at'[v] = at[v]
      /\ at' \in [Workers -> {"start", "poll", "ask", "task", "push", "settle"}]
  BY DEF OnTaskDone, Goes, lists, mainVars, PInv, TypeOK
<1>2. Holds(w) /\ t0 \in Given /\ t0 \in Tasks
  BY <1>1 DEF PInv, TypeOK, WorkerInv, Holds, Given, Tasks
<1>3. \A v \in Workers : /\ Holds(v)' <=> Holds(v)
                         /\ Holds(v) /\ v # w => tdata[v] # t0
  BY <1>1, <1>2 DEF PInv, NowhereElseInv, Holds
<1>4. ~InList(t0, wait)
  BY <1>2 DEF PInv, NowhereElseInv
<1> HIDE DEF t0
<1>5. TypeOK'
  BY <1>1, <1>2 DEF PInv, TypeOK
<1>6. WorkerInv' /\ MainInv'
  BY <1>1 DEF PInv, WorkerInv, MainInv, Given
<1>7. SomewhereInv' /\ NowhereElseInv'
  BY <1>1, <1>3 DEF PInv, SomewhereInv, NowhereElseInv, Given
<1>8. ProgressInv'
  <2>1. tdata[w] = t0
    BY DEF t0
  <2>2. QED
    BY <1>1, <1>2, <1>3, <1>4, <2>1 DEF PInv, ProgressInv, Given
<1>9. QED
  BY <1>5, <1>6, <1>7, <1>8 DEF PInv

LEMMA PushPreserves == ASSUME PInv, NEW w \in Workers, Push(w) PROVE PInv'
<1> DEFINE t0 == tdata[w]
<1>1. /\ UNCHANGED <<lastId, wait, deleted, freed, executed, status, tdata,
                     mutex, main, target, dealt>>
      /\ mutex = "nobody" /\ main # "crashed" /\ finished' = Append(finished, t0)
      /\ at[w] = "push" /\ at'[w] = "settle" /\ \A v \in Workers \ {w} : at'[v] = at[v]
      /\ at' \in [Workers -> {"start", "poll", "ask", "task", "push", "settle"}]
  BY DEF Push, Goes, mainVars, PInv, TypeOK
<1>2. Holds(w) /\ t0 \in Given /\ t0 \in Tasks
  BY <1>1 DEF PInv, TypeOK, WorkerInv, Holds, Given, Tasks
<1>3. /\ finished' \in Seq(Tasks) /\ NoTwice(finished')
      /\ \A t \in Tasks : InList(t, finished') <=> InList(t, finished) \/ t = t0
  BY <1>1, <1>2, AppendedList DEF PInv, TypeOK, NowhereElseInv
<1>4. \A v \in Workers : /\ Holds(v)' <=> Holds(v) /\ v # w
                         /\ Holds(v) /\ v # w => tdata[v] # t0 /\ tdata[v] \in Tasks
  BY <1>1, <1>2 DEF PInv, TypeOK, NowhereElseInv, WorkerInv, Holds, Given, Tasks
<1>5. ~InList(t0, wait) /\ t0 \notin freed /\ t0 \in executed \cup deleted
  BY <1>1, <1>2 DEF PInv, NowhereElseInv, ProgressInv
<1>6. tdata[w] = t0
  OBVIOUS
<1> HIDE DEF t0
<1>7. TypeOK'
  BY <1>1, <1>3 DEF PInv, TypeOK
<1>8. WorkerInv' /\ MainInv'
  BY <1>1 DEF PInv, WorkerInv, MainInv, Given
<1>9. SomewhereInv'
  <2>1. Given \subseteq Tasks
    BY PoolConstants DEF PInv, TypeOK, Given, Tasks
  <2>2. QED
    BY <1>1, <1>3, <1>4, <1>6, <2>1 DEF PInv, SomewhereInv, Given
<1>10. NowhereElseInv'
  BY <1>1, <1>2, <1>3, <1>4, <1>5 DEF PInv, NowhereElseInv, Given
<1>11. ProgressInv'
  BY <1>1, <1>2, <1>3, <1>4, <1>5 DEF PInv, ProgressInv, Given
<1>12. QED
  BY <1>7, <1>8, <1>9, <1>10, <1>11 DEF PInv

----------------------------------------------------------------------------
(***************************************************************************)
(* The invariant holds in every reachable state.                           *)
(***************************************************************************)
THEOREM PoolInvariance == Spec => []PInv
<1>1. PInv /\ [Next]_vars => PInv'
  <2> SUFFICES ASSUME PInv, [Next]_vars PROVE PInv'
    OBVIOUS
  <2>1. CASE Add
    BY <2>1, AddPreserves
  <2>2. ASSUME NEW t \in Tasks, Del(t) PROVE PInv'
    BY <2>2, DelPreserves
  <2>3. ASSUME NEW t \in Tasks, DelCrashes(t) PROVE PInv'
    BY <2>3, MainPreserves
  <2>4. CASE HandleEvents
    BY <2>4, MainPreserves, AssignPreserves, MarkBusyPreserves, FreePreserves DEF HandleEvents
  <2>5. ASSUME NEW w \in Workers, OnThread(w) PROVE PInv'
    BY <2>5, WorkerPreserves, OnTaskDonePreserves, PushPreserves DEF OnThread, Runs
  <2>6. CASE UNCHANGED vars
    BY <2>6 DEF vars, PInv, TypeOK, WorkerInv, MainInv, SomewhereInv, NowhereElseInv,
                ProgressInv, Given, Holds
  <2>7. QED
    BY <2>1, <2>2, <2>3, <2>4, <2>5, <2>6 DEF Next
<1>2. QED
  BY InitInv, <1>1, PTL DEF Spec

\* Every reachable state of the pool is well typed: no task is invented.
THEOREM PoolTyped == Spec => []TypeOK
<1>1. PInv => TypeOK
  BY DEF PInv
<1>2. QED
  BY PoolInvariance, <1>1, PTL

(***************************************************************************)
(* Every task is in one place, for any number of workers: no hand-over     *)
(* duplicates one or loses one, though the status of a worker and its task *)
(* are written without a lock.                                             *)
(***************************************************************************)
THEOREM TasksInOnePlace == Spec => []OnePlace
<1>1. PInv => OnePlace
  <2> SUFFICES ASSUME PInv, NEW t \in Given
               PROVE  Places(t) # {} /\ \A x, y \in Places(t) : x = y
    BY DEF OnePlace, Given
  <2>1. t \in Tasks
    BY PoolConstants DEF PInv, TypeOK, Given, Tasks
  <2>2. Places(t) # {}
    <3>1. ASSUME NEW i \in DOMAIN wait, wait[i] = t PROVE <<"wait", i>> \in Places(t)
      BY <3>1 DEF Places
    <3>2. ASSUME NEW i \in DOMAIN finished, finished[i] = t
          PROVE  <<"finished", i>> \in Places(t)
      BY <3>2 DEF Places
    <3>3. ASSUME NEW w \in Workers, Holds(w), tdata[w] = t
          PROVE  <<"worker", w>> \in Places(t)
      BY <3>3 DEF Places
    <3>4. ASSUME t \in freed PROVE <<"freed", 0>> \in Places(t)
      BY <3>4 DEF Places
    <3>5. QED
      BY <3>1, <3>2, <3>3, <3>4 DEF PInv, SomewhereInv, InList
  <2>3. ASSUME NEW x \in Places(t), NEW y \in Places(t) PROVE x = y
    <3>1. ASSUME NEW z \in Places(t)
          PROVE  \/ InList(t, wait) /\ \E i \in DOMAIN wait : wait[i] = t /\ z = <<"wait", i>>
                 \/ \E w \in Workers : Holds(w) /\ tdata[w] = t /\ z = <<"worker", w>>
                 \/ /\ InList(t, finished)
                    /\ \E i \in DOMAIN finished : finished[i] = t /\ z = <<"finished", i>>
                 \/ t \in freed /\ z = <<"freed", 0>>
      BY DEF Places, InList
    <3>2. QED
      BY <2>1, <3>1 DEF PInv, NowhereElseInv, NoTwice
  <2>4. QED
    BY <2>2, <2>3
<1>2. QED
  BY PoolInvariance, <1>1, PTL

\* What a worker runs and what the main thread completes is not freed.
THEOREM TasksLiveWhenUsed == Spec => []LiveWhenUsed
<1>1. PInv => LiveWhenUsed
  <2> SUFFICES ASSUME PInv PROVE LiveWhenUsed
    OBVIOUS
  <2>1. ASSUME NEW w \in Workers, at[w] \in {"ask", "task", "push"}
        PROVE  tdata[w] \in (1..lastId) \ freed
    BY <2>1 DEF PInv, WorkerInv, NowhereElseInv, Holds, Given
  <2>2. ASSUME main \in {"onMain", "drop", "free"}
        PROVE  finished # <<>> /\ Head(finished) \notin freed
    <3>1. finished # <<>>
      BY <2>2 DEF PInv, MainInv
    <3>2. Head(finished) \in Tasks /\ InList(Head(finished), finished)
      BY <3>1, TailedList DEF PInv, TypeOK, NowhereElseInv
    <3>3. QED
      BY <3>1, <3>2 DEF PInv, NowhereElseInv
  <2>3. QED
    BY <2>1, <2>2 DEF LiveWhenUsed
<1>2. QED
  BY PoolInvariance, <1>1, PTL

----------------------------------------------------------------------------
(* The pool implements ThreadTask's contract.  The stages below are those  *)
(* of ThreadPool's refinement mapping: every step moves one task one stage *)
(* on, marks one deleted, or changes nothing the contract speaks of.       *)

Stages == [t \in Tasks |-> Stage(t)]

\* The steps that move no task and delete none.
LEMMA SameStages ==
  ASSUME UNCHANGED <<lastId, finished, freed, executed>>, Completing' <=> Completing,
         \A w \in Workers : at'[w] = "push" <=> at[w] = "push",
         \A w \in Workers : at[w] = "push" => tdata'[w] = tdata[w]
  PROVE  Stages' = Stages
<1>1. \A t \in Tasks : Stage(t)' = Stage(t)
  BY DEF Stage, Handed, InList
<1>2. QED
  BY <1>1 DEF Stages

\* One task moves on.
LEMMA OneMoves ==
  ASSUME NEW t \in Tasks, NEW to, Stage(t)' = to,
         \A u \in Tasks \ {t} : Stage(u)' = Stage(u)
  PROVE  Stages' = [Stages EXCEPT ![t] = to] /\ Stages[t] = Stage(t)
<1>1. \A u \in Tasks : Stages'[u] = Stage(u)'
  BY DEF Stages
<1>2. QED
  BY <1>1 DEF Stages

\* The contract's vocabulary, in terms of the stages.
LEMMA ContractMoves ==
  ASSUME NEW t \in Tasks, NEW from, NEW to, Stages[t] = from,
         Stages' = [Stages EXCEPT ![t] = to]
  PROVE  Contract!To(t, from, to)
BY DEF Contract!To, Stages

LEMMA ContractStays ==
  Stages' = Stages /\ deleted' = deleted => UNCHANGED Contract!cvars
BY DEF Contract!cvars, Stages

LEMMA ContractInit == Init => Contract!CInit
<1> SUFFICES ASSUME Init PROVE Contract!CInit
  OBVIOUS
<1>1. \A t \in Tasks : Stage(t) = "new"
  BY DEF Init, Stage, Tasks
<1>2. QED
  BY <1>1 DEF Init, Contract!CInit, Contract!Tasks, Tasks

LEMMA MainUsesContract ==
  ASSUME PInv, PInv',
         \/ \E t \in Tasks : DelCrashes(t)
         \/ CheckEvents \/ (\E w \in Workers : AssignTask(w)) \/ MarkBusy
         \/ NoneToAssign \/ Lock \/ OnMainReturns \/ Unlock
  PROVE  UNCHANGED Contract!cvars
<1>1. UNCHANGED <<lastId, finished, deleted, freed, executed, at>>
  BY DEF DelCrashes, CheckEvents, AssignTask, MarkBusy, NoneToAssign, Lock, OnMainReturns, Unlock,
         lists, workerVars
<1>2. Completing' <=> Completing
  BY DEF Completing, PInv, MainInv, DelCrashes, Calling, CheckEvents, AssignTask, MarkBusy,
         NoneToAssign, Lock, OnMainReturns, Unlock
<1>3. \A w \in Workers : at[w] = "push" => tdata'[w] = tdata[w]
  <2>1. CASE \E w \in Workers : AssignTask(w)
    BY <2>1 DEF AssignTask, IsIdle, PInv, TypeOK, WorkerInv
  <2>2. CASE ~\E w \in Workers : AssignTask(w)
    BY <2>2 DEF DelCrashes, CheckEvents, MarkBusy, NoneToAssign, Lock, OnMainReturns, Unlock,
                workerVars
  <2>3. QED
    BY <2>1, <2>2
<1>4. QED
  BY <1>1, <1>2, <1>3, SameStages, ContractStays

LEMMA AddAccepts == PInv /\ PInv' /\ Add => Contract!CNext
<1> SUFFICES ASSUME PInv, PInv', Add PROVE Contract!CNext
  OBVIOUS
<1>0. PICK t0 \in Tasks : t0 = lastId + 1
  BY PoolConstants DEF PInv, TypeOK, Add, Tasks
<1>1. /\ t0 = lastId + 1 /\ lastId' = t0 /\ lastId \in Nat
      /\ UNCHANGED <<finished, deleted, freed, executed, tdata, at, mutex, main>>
  BY <1>0 DEF PInv, TypeOK, Add, workerVars, mainVars
<1>2. /\ t0 \notin freed /\ t0 \notin executed /\ ~InList(t0, finished)
      /\ \A w \in Workers : at[w] = "push" => tdata[w] # t0
  BY <1>1 DEF PInv, NowhereElseInv, ProgressInv, WorkerInv, Given
<1>3. Completing => Head(finished) # t0
  <2>1. SUFFICES ASSUME Completing PROVE Head(finished) # t0
    OBVIOUS
  <2>2. finished # <<>>
    BY <2>1 DEF PInv, MainInv, Completing
  <2>3. InList(Head(finished), finished)
    BY <2>2, TailedList DEF PInv, TypeOK, NowhereElseInv
  <2>4. QED
    BY <1>2, <2>3
<1>4. Stage(t0) = "new" /\ Stage(t0)' = "accepted"
  <2>1. Stage(t0) = "new"
    BY <1>1 DEF Stage
  <2>2. (Completing' <=> Completing) /\ (Handed(t0)' <=> Handed(t0))
    BY <1>1 DEF Completing, Handed, InList
  <2>3. ~Handed(t0)
    BY <1>2 DEF Handed
  <2>4. ~(t0 > lastId')
    BY <1>1 DEF Tasks
  <2>5. QED
    BY <1>1, <1>2, <1>3, <2>1, <2>2, <2>3, <2>4 DEF Stage
<1>5. \A u \in Tasks \ {t0} : Stage(u)' = Stage(u)
  <2>1. ASSUME NEW u \in Tasks, u # t0 PROVE u > lastId' <=> u > lastId
    BY <1>1, <2>1 DEF Tasks
  <2>2. \A u \in Tasks : Handed(u)' <=> Handed(u)
    BY <1>1 DEF Handed, InList
  <2>3. Completing' <=> Completing
    BY <1>1 DEF Completing
  <2>4. QED
    BY <1>1, <2>1, <2>2, <2>3 DEF Stage
<1>6. Contract!To(t0, "new", "accepted")
  BY <1>1, <1>4, <1>5, OneMoves, ContractMoves
<1>7. QED
  BY <1>1, <1>6 DEF Contract!CNext, Contract!Accept, Contract!Tasks, Tasks

LEMMA DelCancels ==
  ASSUME PInv, PInv', NEW t \in Tasks, Del(t)
  PROVE  Contract!CNext \/ UNCHANGED Contract!cvars
<1>1. /\ UNCHANGED <<lastId, finished, freed, executed, tdata, at, mutex, main>>
      /\ deleted' = deleted \cup {t}
  BY DEF Del, lists, workerVars, mainVars
<1>2. t \in Given /\ t \notin freed
  <2>1. CASE \E w \in Workers : tdata[w] = t /\ t \notin freed
    BY <2>1 DEF PInv, WorkerInv, Tasks
  <2>2. CASE InList(t, wait)
    BY <2>2 DEF PInv, NowhereElseInv
  <2>3. QED
    BY <2>1, <2>2 DEF Del
<1>3. Stages' = Stages
  BY <1>1, SameStages DEF Completing
<1>4. CASE t \in deleted
  <2>1. deleted' = deleted
    BY <1>1, <1>4
  <2>2. QED
    BY <1>3, <2>1, ContractStays
<1>5. CASE t \notin deleted
  <2>1. Handed(t) => t \in executed
    BY <1>5 DEF Handed, PInv, ProgressInv
  <2>2. Stage(t) \in {"accepted", "executed", "completing"}
    BY <1>2, <2>1, PoolConstants DEF Stage, Given, PInv, TypeOK
  <2>3. Stages[t] \in {"accepted", "executed", "completing"}
    BY <2>2 DEF Stages
  <2>4. Contract!Cancel(t)
    BY <1>1, <1>3, <2>3 DEF Contract!Cancel, Stages
  <2>5. QED
    BY <2>4 DEF Contract!CNext, Contract!Tasks, Tasks
<1>6. QED
  BY <1>4, <1>5

LEMMA DealCompletes ==
  ASSUME PInv, PInv', Deal
  PROVE  Contract!CNext \/ UNCHANGED Contract!cvars
<1>0. PICK h : h = Head(finished)
  OBVIOUS
<1>1. /\ UNCHANGED <<lastId, finished, deleted, freed, executed, tdata, at, mutex>>
      /\ main = "deal" /\ finished # <<>>
      /\ main' = IF h \in deleted THEN "drop" ELSE "onMain"
  BY <1>0 DEF Deal, MoreToDeal, lists, workerVars
<1>2. h \in Tasks /\ InList(h, finished)
  BY <1>0, <1>1, TailedList DEF PInv, TypeOK, NowhereElseInv
<1>3. CASE h \in deleted
  <2>1. Completing' <=> Completing
    BY <1>1, <1>3 DEF Completing
  <2>2. QED
    BY <1>1, <2>1, SameStages, ContractStays
<1>4. CASE h \notin deleted
  <2>1. h \in executed /\ h \notin freed /\ h \in Given
    BY <1>2, <1>4 DEF PInv, ProgressInv, NowhereElseInv
  <2>2. Completing' /\ ~Completing
    BY <1>1, <1>4 DEF Completing
  <2>3. \A u \in Tasks : Handed(u)' <=> Handed(u)
    BY <1>1 DEF Handed, InList
  <2>4. \A u \in Tasks \ {h} : Stage(u)' = Stage(u)
    BY <1>0, <1>1, <2>2, <2>3 DEF Stage
  <2>5. ~(h > lastId)
    BY <2>1 DEF Given, PInv, TypeOK
  <2>6. Stage(h) = "executed" /\ Stage(h)' = "completing"
    BY <1>0, <1>1, <2>1, <2>2, <2>5 DEF Stage
  <2>7. Contract!To(h, "executed", "completing")
    BY <1>2, <2>4, <2>6, OneMoves, ContractMoves
  <2>8. Contract!Complete(h)
    BY <1>1, <1>4, <2>7 DEF Contract!Complete
  <2>9. QED
    BY <1>2, <2>8 DEF Contract!CNext, Contract!Tasks, Tasks
<1>5. QED
  BY <1>3, <1>4

LEMMA FreeEnds == PInv /\ PInv' /\ Free => Contract!CNext
<1> SUFFICES ASSUME PInv, PInv', Free PROVE Contract!CNext
  OBVIOUS
<1>0. PICK h : h = Head(finished)
  OBVIOUS
<1>1. /\ UNCHANGED <<lastId, deleted, executed, tdata, at, mutex>>
      /\ main \in {"drop", "free"} /\ main' = "deal"
      /\ freed' = freed \cup {h} /\ finished' = Tail(finished)
  BY <1>0 DEF Free, workerVars
<1>2. /\ h \in Tasks /\ InList(h, finished)
      /\ \A t \in Tasks : InList(t, finished') <=> InList(t, finished) /\ t # h
  BY <1>0, <1>1, TailedList DEF PInv, TypeOK, NowhereElseInv, MainInv
<1>3. h \in Given /\ h \notin freed
  BY <1>2 DEF PInv, NowhereElseInv
<1>4. ~Completing' /\ (Completing <=> main = "free")
  BY <1>1 DEF Completing
<1>5. \A u \in Tasks \ {h} : Stage(u)' = Stage(u)
  <2>1. \A u \in Tasks \ {h} : Handed(u)' <=> Handed(u)
    BY <1>1, <1>2 DEF Handed
  <2>2. QED
    BY <1>0, <1>1, <1>4, <2>1 DEF Stage
<1>6. ~(h > lastId) /\ Stage(h)' = "over"
  BY <1>1, <1>3 DEF Stage, Given, PInv, TypeOK
<1>7. CASE main = "free"
  <2>1. Stage(h) = "completing"
    BY <1>0, <1>3, <1>4, <1>6, <1>7 DEF Stage
  <2>2. Contract!To(h, "completing", "over")
    BY <1>2, <1>5, <1>6, <2>1, OneMoves, ContractMoves
  <2>3. Contract!Over(h)
    BY <1>1, <2>2 DEF Contract!Over
  <2>4. QED
    BY <1>2, <2>3 DEF Contract!CNext, Contract!Tasks, Tasks
<1>8. CASE main = "drop"
  <2>1. h \in deleted
    BY <1>0, <1>8 DEF PInv, MainInv
  <2>2. Stage(h) \in {"executed", "skipped"}
    BY <1>2, <1>3, <1>4, <1>6, <1>8 DEF Stage, Handed
  <2>3. Contract!To(h, "executed", "over") \/ Contract!To(h, "skipped", "over")
    BY <1>2, <1>5, <1>6, <2>2, OneMoves, ContractMoves
  <2>4. Contract!GiveUp(h)
    BY <1>1, <2>1, <2>3 DEF Contract!GiveUp
  <2>5. QED
    BY <1>2, <2>4 DEF Contract!CNext, Contract!Tasks, Tasks
<1>9. QED
  BY <1>1, <1>7, <1>8

\* A worker that has a task in hand: nobody else has it, and it is not over.
LEMMA TaskInHand ==
  ASSUME PInv, NEW w \in Workers, Holds(w), at[w] # "push"
  PROVE  /\ tdata[w] \in Given /\ tdata[w] \in Tasks
         /\ tdata[w] \notin executed /\ Stage(tdata[w]) = "accepted"
<1>1. tdata[w] \in Given /\ tdata[w] \in Tasks /\ ~(tdata[w] > lastId)
  BY PoolConstants DEF PInv, TypeOK, WorkerInv, Holds, Given, Tasks
<1>2. tdata[w] \notin executed /\ ~InList(tdata[w], finished) /\ tdata[w] \notin freed
  BY DEF PInv, NowhereElseInv, ProgressInv
<1>3. ~Handed(tdata[w])
  <2>1. \A v \in Workers : at[v] = "push" => Holds(v) /\ v # w
    BY DEF PInv, WorkerInv, Holds
  <2>2. QED
    BY <1>2, <2>1 DEF Handed, PInv, NowhereElseInv
<1>4. Completing => Head(finished) # tdata[w]
  <2>1. SUFFICES ASSUME Completing PROVE Head(finished) # tdata[w]
    OBVIOUS
  <2>2. finished # <<>>
    BY <2>1 DEF PInv, MainInv, Completing
  <2>3. InList(Head(finished), finished)
    BY <2>2, TailedList DEF PInv, TypeOK, NowhereElseInv
  <2>4. QED
    BY <1>2, <2>3
<1>5. QED
  BY <1>1, <1>2, <1>3, <1>4 DEF Stage

LEMMA AskSkips ==
  ASSUME PInv, NEW w \in Workers, AskDeleted(w)
  PROVE  Contract!CNext \/ UNCHANGED Contract!cvars
<1>1. /\ UNCHANGED <<lastId, finished, deleted, freed, executed, tdata, mutex, main>>
      /\ at[w] = "ask" /\ at'[w] = IF tdata[w] \in deleted THEN "push" ELSE "task"
      /\ \A v \in Workers \ {w} : at'[v] = at[v]
  BY DEF AskDeleted, Goes, lists, mainVars, PInv, TypeOK
<1>2. Completing' <=> Completing
  BY <1>1 DEF Completing
<1>3. CASE tdata[w] \notin deleted
  <2>1. \A v \in Workers : at'[v] = "push" <=> at[v] = "push"
    BY <1>1, <1>3
  <2>2. QED
    BY <1>1, <1>2, <2>1, SameStages, ContractStays
<1>4. CASE tdata[w] \in deleted
  <2>1. PICK t \in Tasks : t = tdata[w]
    BY <1>4 DEF PInv, TypeOK
  <2>2. Holds(w)
    BY <1>1 DEF PInv, WorkerInv, Holds
  <2>3. t \in Given /\ t \notin executed /\ Stage(t) = "accepted"
    BY <1>1, <2>1, <2>2, TaskInHand
  <2>4. Handed(t)' /\ \A u \in Tasks \ {t} : Handed(u)' <=> Handed(u)
    BY <1>1, <1>4, <2>1 DEF Handed, InList
  <2>5. Stage(t)' = "skipped" /\ \A u \in Tasks \ {t} : Stage(u)' = Stage(u)
    BY <1>1, <1>2, <2>3, <2>4 DEF Stage
  <2>6. Contract!To(t, "accepted", "skipped")
    BY <2>3, <2>5, OneMoves, ContractMoves
  <2>7. Contract!Skip(t)
    BY <1>1, <1>4, <2>1, <2>6 DEF Contract!Skip
  <2>8. QED
    BY <2>7 DEF Contract!CNext, Contract!Tasks, Tasks
<1>5. QED
  BY <1>3, <1>4

LEMMA OnTaskExecutes == ASSUME PInv, NEW w \in Workers, OnTaskDone(w) PROVE Contract!CNext
<1>1. /\ UNCHANGED <<lastId, finished, deleted, freed, tdata, mutex, main>>
      /\ at[w] = "task" /\ at'[w] = "push" /\ executed' = executed \cup {tdata[w]}
      /\ \A v \in Workers \ {w} : at'[v] = at[v]
  BY DEF OnTaskDone, Goes, lists, mainVars, PInv, TypeOK
<1>2. Completing' <=> Completing
  BY <1>1 DEF Completing
<1>3. Holds(w)
  BY <1>1 DEF PInv, WorkerInv, Holds
<1>4. PICK t \in Tasks : t = tdata[w]
  BY <1>1, <1>3, TaskInHand
<1>5. t \in Given /\ Stage(t) = "accepted"
  BY <1>1, <1>3, <1>4, TaskInHand
<1>6. \A u \in Tasks \ {t} : Handed(u)' <=> Handed(u)
  BY <1>1, <1>4 DEF Handed, InList
<1>7. Stage(t)' = "executed" /\ \A u \in Tasks \ {t} : Stage(u)' = Stage(u)
  BY <1>1, <1>2, <1>4, <1>5, <1>6 DEF Stage
<1>8. Contract!To(t, "accepted", "executed")
  BY <1>5, <1>7, OneMoves, ContractMoves
<1>9. Contract!Execute(t)
  BY <1>1, <1>8 DEF Contract!Execute
<1>10. QED
  BY <1>9 DEF Contract!CNext, Contract!Tasks, Tasks

\* The other steps of a worker; what it pushes was handed back before.
LEMMA WorkerUsesContract ==
  ASSUME PInv, NEW w \in Workers,
         Start(w) \/ Poll(w) \/ OnTaskAgain(w) \/ Settle(w) \/ Push(w)
  PROVE  UNCHANGED Contract!cvars
<1>1. /\ UNCHANGED <<lastId, deleted, freed, executed, tdata, mutex, main>>
      /\ \A v \in Workers \ {w} : at'[v] = at[v]
  BY DEF Start, Poll, OnTaskAgain, Settle, Push, Goes, lists, mainVars, PInv, TypeOK
<1>2. CASE Push(w)
  <2>1. /\ mutex = "nobody" /\ finished' = Append(finished, tdata[w])
        /\ at[w] = "push" /\ at'[w] = "settle"
    BY <1>2 DEF Push, Goes, PInv, TypeOK
  <2>2. ~Completing /\ ~Completing'
    BY <1>1, <2>1 DEF Completing, PInv, MainInv
  <2>3. tdata[w] \in Tasks
    BY <2>1 DEF PInv, TypeOK, WorkerInv, Tasks
  <2>4. \A t \in Tasks : InList(t, finished') <=> InList(t, finished) \/ t = tdata[w]
    BY <2>1, <2>3, AppendedList DEF PInv, TypeOK
  <2>5. \A t \in Tasks : Handed(t)' <=> Handed(t)
    BY <1>1, <2>1, <2>4 DEF Handed
  <2>6. \A t \in Tasks : Stage(t)' = Stage(t)
    BY <1>1, <2>2, <2>5 DEF Stage
  <2>7. QED
    BY <1>1, <2>6, ContractStays DEF Stages
<1>3. CASE Start(w) \/ Poll(w) \/ OnTaskAgain(w) \/ Settle(w)
  <2>1. finished' = finished /\ (at'[w] = "push" <=> at[w] = "push")
    BY <1>3 DEF Start, Poll, OnTaskAgain, Settle, Goes, lists, PInv, TypeOK
  <2>2. Completing' <=> Completing
    BY <1>1, <2>1 DEF Completing
  <2>3. QED
    BY <1>1, <2>1, <2>2, SameStages, ContractStays
<1>4. QED
  BY <1>2, <1>3

(***************************************************************************)
(* The pool keeps ThreadTask's contract, for any number of workers and     *)
(* tasks: onMain runs once, for what was executed and not deleted, after   *)
(* its onTask returned 0.                                                  *)
(***************************************************************************)
THEOREM PoolKeepsContract == Spec => KeepsContract
<1>1. PInv /\ PInv' /\ [Next]_vars => [Contract!CNext]_(Contract!cvars)
  <2> SUFFICES ASSUME PInv, PInv', [Next]_vars
               PROVE  Contract!CNext \/ UNCHANGED Contract!cvars
    OBVIOUS
  <2>1. CASE Add
    BY <2>1, AddAccepts
  <2>2. ASSUME NEW t \in Tasks, Del(t) PROVE Contract!CNext \/ UNCHANGED Contract!cvars
    BY <2>2, DelCancels
  <2>3. ASSUME NEW t \in Tasks, DelCrashes(t) PROVE UNCHANGED Contract!cvars
    BY <2>3, MainUsesContract
  <2>4. CASE HandleEvents
    BY <2>4, MainUsesContract, DealCompletes, FreeEnds DEF HandleEvents
  <2>5. ASSUME NEW w \in Workers, OnThread(w)
        PROVE  Contract!CNext \/ UNCHANGED Contract!cvars
    BY <2>5, WorkerUsesContract, AskSkips, OnTaskExecutes DEF OnThread, Runs
  <2>6. CASE UNCHANGED vars
    <3>1. UNCHANGED <<lastId, finished, deleted, freed, executed, at, tdata, main, mutex>>
      BY <2>6 DEF vars
    <3>2. Completing' <=> Completing
      BY <3>1 DEF Completing
    <3>3. QED
      BY <3>1, <3>2, SameStages, ContractStays
  <2>7. QED
    BY <2>1, <2>2, <2>3, <2>4, <2>5, <2>6 DEF Next
<1>2. QED
  BY PoolInvariance, ContractInit, <1>1, PTL DEF Spec, KeepsContract, Contract!CSpec
=============================================================================
