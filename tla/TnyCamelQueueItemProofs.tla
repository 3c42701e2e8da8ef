---------------------- MODULE TnyCamelQueueItemProofs ----------------------
(***************************************************************************)
(* What becomes of the items of TnyCamelQueue: their data, their account,  *)
(* their cancels and their order.  All of it rests on WorkerInv, which     *)
(* TnyCamelQueueProofs shows to hold always: one worker, whose item is on  *)
(* the list.                                                               *)
(***************************************************************************)
EXTENDS TnyCamelQueueProofs

----------------------------------------------------------------------------
(* The hint to the service, and the account at the worker's first section. *)

\* A worker that will take an item finds one, or is about to find stopped set.
FindsInv ==
  \A t \in Threads :
    /\ pc[t] \in {"test", "woken"} => list # <<>> \/ stopped
    /\ pc[t] = "take" => list # <<>>

HintInv == IdleHintFresh /\ ("park" \notin SpuriousWaits => FindsInv)

\* Who is not at the second section does not shorten the list.
LEMMA HintStep == WorkerInv /\ WorkerInv' /\ HintInv /\ [Next]_vars => HintInv'
<1> SUFFICES ASSUME WorkerInv, WorkerInv', HintInv, [Next]_vars PROVE HintInv'
  OBVIOUS
<1> USE DEF HintInv, IdleHintFresh
<1>t. TypeOK /\ TypeOK' /\ OneWorker /\ StopInv /\ RefInv
  BY DEF WorkerInv
<1>a. /\ pc \in [Threads -> WorkerPc] /\ list \in Seq(Items) /\ list' \in Seq(Items)
      /\ wait \in [Threads -> BOOLEAN]
  BY <1>t DEF TypeOK
<1>1. ASSUME NEW i \in Items, NEW f \in LaunchFlags, Launch(i, f)
      PROVE  HintInv'
  <2>1. list' # <<>>
    <3>1. PICK n \in 0..Len(list) : list' = InsertAt(list, n + 1, i)
      BY <1>1 DEF Launch
    <3>2. Len(list') = Len(list) + 1
      BY <1>a, <3>1, InsertAtElements
    <3> QED BY <1>a, <3>2
  <2>2. can_idle' => Len(list') <= 1
    BY <1>1 DEF Launch, CanIdle
  <2> QED BY <2>1, <2>2 DEF FindsInv
<1>2. ASSUME NEW F \in RemoveFlags, RemoveItems(F) \/ CancelRemoveItems(F)
      PROVE  HintInv'
  BY <1>2 DEF RemoveItems, CancelRemoveItems, queueVars, workerVars, accountVars,
              FindsInv
<1>3. ASSUME UNCHANGED <<list, can_idle>>, stopped => stopped',
             \A t \in Threads : \/ pc'[t] = pc[t]
                                \/ pc[t] = "asleep" /\ pc'[t] = "woken" /\ stopped'
      PROVE  HintInv'
  BY <1>3 DEF FindsInv
<1>4. ASSUME NEW a \in BOOLEAN, NEW h \in SUBSET Items, DropRef(a, h)
      PROVE  /\ stopped => stopped'
             /\ \A t \in Threads : \/ pc'[t] = pc[t]
                                   \/ pc[t] = "asleep" /\ pc'[t] = "woken" /\ stopped'
  BY <1>4, <1>t, BroadcastPc DEF DropRef, AccountFinalized
<1>5. CASE AppUnref
  BY <1>t, <1>3, <1>4, <1>5 DEF AppUnref, TypeOK
<1>10. CASE CancelFetch \/ OtherCancels
  BY <1>3, <1>10, CancelOnly DEF queueVars, workerVars
<1>6. CASE Destroy
  BY <1>t, <1>3, <1>4, <1>6 DEF Destroy, TypeOK
<1>7. ASSUME NEW i \in Items, NEW r \in BOOLEAN, Callback(i, r)
      PROVE  HintInv'
  BY <1>3, <1>7 DEF Callback, queueVars, workerVars, accountVars
<1>8. CASE Signal \/ UNCHANGED vars
  BY <1>3, <1>8 DEF Signal, vars, queueVars, workerVars, accountVars
<1>9. ASSUME NEW t \in Threads, WorkerStep(t) \/ WakeSpuriously(t)
      PROVE  HintInv'
  <2> USE DEF Goto, queueVars, accountVars
  <2>0. \A u \in Threads : u # t => pc[u] = "none" /\ pc'[u] = "none"
    BY <1>9, <1>t, WorkerMoves DEF OneWorker
  <2>1. CASE Test(t)
    BY <1>a, <2>0, <2>1 DEF Test, FindsInv
  <2>2. CASE Take(t)
    <3>1. can_idle' => Len(list') <= 1
      BY <2>2 DEF Take, CanIdle
    <3> QED BY <1>a, <2>0, <2>2, <3>1 DEF Take, AfterTake, FindsInv
  <2>3. CASE StartOperation(t) \/ RunPlain(t) \/ StopOperation(t)
    BY <1>a, <2>0, <2>3 DEF StartOperation, RunPlain, StopOperation, FindsInv
  <2>4. CASE Post(t) \/ AwaitCallback(t) \/ Park(t) \/ Leave(t)
    BY <1>a, <2>0, <2>4 DEF Post, AwaitCallback, Park, Leave, FindsInv
  <2>5. CASE Unlink(t)
    <3>1. Len(list') <= Len(list)
      <4>1. CASE job[t] = NoItem
        BY <2>5, <4>1 DEF Unlink, DeleteLink
      <4>2. CASE job[t] # NoItem
        BY <1>a, <2>5, <4>2, RemoveAtElements DEF Unlink, DeleteLink
      <4> QED BY <4>1, <4>2
    <3>2. pc'[t] \in {"park", "test"} /\ (pc'[t] = "test" => list' # <<>>)
      BY <1>a, <2>5 DEF Unlink, NothingLeft
    <3>3. can_idle' = can_idle /\ stopped' = stopped
      BY <2>5 DEF Unlink
    <3> QED BY <1>a, <2>0, <3>1, <3>2, <3>3 DEF FindsInv
  <2>6. CASE Resume(t)
    BY <1>a, <2>0, <2>6 DEF Resume, FindsInv
  <2>7. CASE WakeSpuriously(t)
    BY <1>a, <2>0, <2>7 DEF WakeSpuriously, FindsInv
  <2> QED BY <1>9, <2>1, <2>2, <2>3, <2>4, <2>5, <2>6, <2>7 DEF WorkerStep
<1> QED BY <1>1, <1>2, <1>5, <1>6, <1>7, <1>8, <1>9, <1>10 DEF Next, Caller, MainLoop

LEMMA HintAlways == Spec => []HintInv
<1>1. Init => HintInv
  BY DEF Init, HintInv, IdleHintFresh, FindsInv
<1> QED BY <1>1, HintStep, WorkerInvariant, PTL DEF Spec

\* The hint that the service may go idle never stands while a second operation
\* is queued, however launches and the worker's two sections interleave.
THEOREM HintIsFresh == Spec => []IdleHintFresh
BY HintAlways, PTL DEF HintInv

\* The worker finds its account wherever it reads it, if the wait on
\* queue->condition only returns when it is signalled.
THEOREM AccountIsThere ==
  ASSUME "park" \notin SpuriousWaits
  PROVE  Spec => []AccountAlive
<1>1. WorkerInv /\ HintInv => AccountAlive
  <2> SUFFICES ASSUME WorkerInv, HintInv, NEW t \in Threads, pc[t] = "take"
               PROVE  account
    BY DEF AccountAlive
  <2>1. list # <<>> /\ list \in Seq(Items)
    BY DEF HintInv, FindsInv, WorkerInv, TypeOK
  <2>2. Head(list) \in Queued
    BY <2>1 DEF Queued, ToSet
  <2>3. ~Answering(Head(list))
    BY DEF Answering, WorkerInv, OneWorker
  <2> QED BY <2>2, <2>3 DEF WorkerInv, ListInv, RefInv
<1> QED BY <1>1, WorkerInvariant, HintAlways, PTL

----------------------------------------------------------------------------
(* The worker that sleeps.                                                 *)

SleepInv == \A t \in Threads : pc[t] = "asleep" => is_waiting

\* A broadcast leaves nobody asleep.
LEMMA BroadcastWakes ==
  ASSUME TypeOK, SleepInv, Broadcast
  PROVE  \A t \in Threads : pc'[t] # "asleep"
BY DEF TypeOK, SleepInv, Broadcast

LEMMA SleepStep ==
  WorkerInv /\ SleepInv /\ [Next]_vars =>
    SleepInv' /\ (account /\ ~account' => \A t \in Threads : pc'[t] # "asleep")
<1> SUFFICES ASSUME WorkerInv, SleepInv, [Next]_vars
             PROVE  /\ SleepInv'
                    /\ account /\ ~account' => \A t \in Threads : pc'[t] # "asleep"
  OBVIOUS
<1>t. TypeOK /\ OneWorker /\ pc \in [Threads -> WorkerPc]
  BY DEF WorkerInv, TypeOK
<1> DEFINE Heard == account /\ ~account' => \A t \in Threads : pc'[t] # "asleep"
<1>1. ASSUME NEW i \in Items, NEW f \in LaunchFlags, Launch(i, f)
      PROVE  SleepInv' /\ Heard
  <2>1. UNCHANGED <<is_waiting, account>>
    BY <1>1 DEF Launch
  <2>2. CASE StartWorker
    BY <1>t, <2>1, <2>2 DEF StartWorker, SleepInv
  <2>3. CASE Broadcast
    BY <1>t, <2>1, <2>3, BroadcastWakes DEF SleepInv
  <2> QED BY <1>1, <2>2, <2>3 DEF Launch
<1>2. ASSUME NEW b \in BOOLEAN, NEW h \in SUBSET Items, DropRef(b, h), UNCHANGED is_waiting
      PROVE  SleepInv' /\ Heard
  <2>1. CASE AccountFinalized
    BY <1>t, <2>1, BroadcastWakes DEF AccountFinalized, SleepInv
  <2>2. CASE UNCHANGED <<account, stopped, pc>>
    BY <1>2, <2>2 DEF SleepInv
  <2> QED BY <1>2, <2>1, <2>2 DEF DropRef
<1>3. CASE AppUnref \/ Destroy
  BY <1>t, <1>2, <1>3 DEF AppUnref, Destroy, TypeOK
<1>4. ASSUME NEW F \in RemoveFlags, RemoveItems(F) \/ CancelRemoveItems(F)
      PROVE  SleepInv' /\ Heard
  BY <1>4 DEF RemoveItems, CancelRemoveItems, queueVars, workerVars, accountVars, SleepInv
<1>8. CASE CancelFetch \/ OtherCancels
  BY <1>8, CancelOnly DEF queueVars, workerVars, SleepInv
<1>5. ASSUME NEW i \in Items, NEW r \in BOOLEAN, Callback(i, r)
      PROVE  SleepInv' /\ Heard
  BY <1>5 DEF Callback, queueVars, workerVars, accountVars, SleepInv
<1>6. CASE Signal \/ UNCHANGED vars
  BY <1>6 DEF Signal, vars, queueVars, workerVars, accountVars, SleepInv
<1>7. ASSUME NEW t \in Threads, WorkerStep(t) \/ WakeSpuriously(t)
      PROVE  SleepInv' /\ Heard
  <2>0. \A u \in Threads : u # t => pc[u] = "none" /\ pc'[u] = "none"
    BY <1>7, <1>t, WorkerMoves DEF OneWorker
  <2>1. account' = account
    BY <1>7 DEF WorkerStep, Test, Take, StartOperation, RunPlain, StopOperation, Post,
       AwaitCallback, Unlink, Park, Resume, Leave, WakeSpuriously, accountVars
  <2>2. CASE Park(t)
    BY <2>1, <2>2 DEF Park, SleepInv
  <2>3. CASE ~Park(t)
    <3>1. pc'[t] # "asleep"
      BY <1>7, <1>t, <2>3 DEF WorkerStep, Test, Take, AfterTake, StartOperation, RunPlain,
         StopOperation, Post, AwaitCallback, Unlink, Resume, Leave, WakeSpuriously, Goto
    <3> QED BY <2>0, <3>1 DEF SleepInv
  <2> QED BY <2>1, <2>2, <2>3
<1> QED BY <1>1, <1>3, <1>4, <1>5, <1>6, <1>7, <1>8 DEF Next, Caller, MainLoop

\* Whoever drops the last reference to the account wakes the worker, if it sleeps.
THEOREM SleeperIsWoken == Spec => SleeperHearsShutdown
<1>1. Init => SleepInv
  BY DEF Init, SleepInv
<1>2. WorkerInv /\ SleepInv /\ [Next]_vars => SleepInv'
  BY SleepStep
<1>3. WorkerInv /\ SleepInv /\ [Next]_vars =>
        [account /\ ~account' => \A t \in Threads : pc'[t] # "asleep"]_vars
  BY SleepStep
<1> QED BY <1>1, <1>2, <1>3, WorkerInvariant, PTL DEF Spec, SleeperHearsShutdown
----------------------------------------------------------------------------
(* The data of an item.                                                    *)

\* The worker awaits the callback of i.
Awaiting(i) == \E t \in Threads : job[t] = i /\ pc[t] = "await"

\* What the main loop has of an item, or has told of it, the worker has not freed.
DataInv ==
  /\ \A s \in sources : told[s[1]] = "nothing" /\ Awaiting(s[1])
  /\ \A i \in Items : told[i] # "nothing" => Answering(i)
  /\ mainPc = "idle" => mainItem = NoItem
  /\ mainPc # "idle" =>
       mainItem \in Items /\ told[mainItem] # "nothing" /\ Awaiting(mainItem)

\* Who neither posts nor ends a wait.
LEMMA DataFrame ==
  ASSUME DataInv, UNCHANGED <<job, sources, mainPc, mainItem, told>>,
         \A t \in Threads :
           /\ pc[t] = "await" => pc'[t] = "await"
           /\ pc[t] = "unlink" => pc'[t] = "unlink"
  PROVE  DataInv'
BY DEF DataInv, Awaiting, Answering

LEMMA DataStep ==
  ASSUME "callback" \notin SpuriousWaits
  PROVE  WorkerInv /\ DataInv /\ [Next]_vars => DataInv'
<1> SUFFICES ASSUME WorkerInv, DataInv, [Next]_vars PROVE DataInv'
  OBVIOUS
<1>t. TypeOK /\ OneWorker /\ RefInv
  BY DEF WorkerInv
<1>a. /\ pc \in [Threads -> WorkerPc] /\ job \in [Threads -> Items \cup {NoItem}]
      /\ told \in [Items -> {"nothing", "done", "cancelled"}]
      /\ sources \subseteq Items \X BOOLEAN
  BY <1>t DEF TypeOK
<1>1. ASSUME NEW i \in Items, NEW f \in LaunchFlags, Launch(i, f)
      PROVE  DataInv'
  <2>1. \A t \in Threads : pc[t] \in {"await", "unlink"} => pc'[t] = pc[t]
    <3>1. CASE StartWorker
      BY <1>a, <3>1 DEF StartWorker
    <3>2. CASE Broadcast
      BY <1>t, <3>2, BroadcastPc
    <3> QED BY <1>1, <3>1, <3>2 DEF Launch
  <2> QED BY <1>1, <2>1, DataFrame DEF Launch, mainVars, history
<1>2. ASSUME NEW F \in RemoveFlags, RemoveItems(F) \/ CancelRemoveItems(F)
      PROVE  DataInv'
  BY <1>2, DataFrame DEF RemoveItems, CancelRemoveItems, queueVars, workerVars,
                         mainVars, history
<1>3. ASSUME NEW b \in BOOLEAN, NEW h \in SUBSET Items, DropRef(b, h)
      PROVE  \A t \in Threads : pc[t] \in {"await", "unlink"} => pc'[t] = pc[t]
  BY <1>3, <1>t, BroadcastPc DEF DropRef, AccountFinalized
<1>4. CASE AppUnref
  <2>1. \A t \in Threads : pc[t] \in {"await", "unlink"} => pc'[t] = pc[t]
    BY <1>t, <1>3, <1>4 DEF AppUnref, TypeOK
  <2> QED BY <1>4, <2>1, DataFrame DEF AppUnref, mainVars, history
<1>10. CASE CancelFetch \/ OtherCancels
  BY <1>10, CancelOnly, DataFrame DEF workerVars, mainVars
<1>5. CASE Destroy
  <2>1. \A t \in Threads : pc[t] \in {"await", "unlink"} => pc'[t] = pc[t]
    BY <1>t, <1>3, <1>5 DEF Destroy, TypeOK
  <2>2. UNCHANGED <<job, sources, mainItem, told>> /\ mainPc # "idle" /\ mainPc' # "idle"
    BY <1>5 DEF Destroy, history
  <2> QED BY <2>1, <2>2 DEF DataInv, Awaiting, Answering
<1>6. ASSUME NEW i \in Items, NEW r \in BOOLEAN, Callback(i, r)
      PROVE  DataInv'
  <2>1. /\ UNCHANGED <<pc, job>> /\ <<i, r>> \in sources
        /\ sources' = sources \ {<<i, r>>}
        /\ told' = [told EXCEPT ![i] = IF r THEN "cancelled" ELSE "done"]
        /\ mainPc' = "destroy" /\ mainItem' = i
    BY <1>6 DEF Callback, workerVars
  <2>2. Awaiting(i) /\ told'[i] # "nothing"
    BY <1>a, <2>1 DEF DataInv
  <2>3. \A s \in sources' : s[1] # i
    BY <2>1, <1>t DEF RefInv
  <2>4. \A j : (Awaiting(j) => Awaiting(j)') /\ (Answering(j) => Answering(j)')
    BY <2>1 DEF Awaiting, Answering
  <2>5. \A s \in sources' : told'[s[1]] = "nothing" /\ Awaiting(s[1])'
    BY <1>a, <2>1, <2>3, <2>4 DEF DataInv
  <2>6. \A j \in Items : told'[j] # "nothing" => Answering(j)'
    BY <1>a, <2>1, <2>2, <2>4 DEF DataInv, Awaiting, Answering
  <2> QED BY <2>1, <2>2, <2>4, <2>5, <2>6 DEF DataInv
<1>7. CASE Signal
  BY <1>7 DEF Signal, workerVars, history, DataInv, Awaiting, Answering
<1>8. CASE UNCHANGED vars
  BY <1>8, DataFrame DEF vars, workerVars, mainVars, history
<1>9. ASSUME NEW t \in Threads, WorkerStep(t) \/ WakeSpuriously(t)
      PROVE  DataInv'
  <2> USE DEF Goto
  <2>0. \A u \in Threads : u # t => pc[u] = "none" /\ pc'[u] = "none"
    BY <1>9, <1>t, WorkerMoves DEF OneWorker
  <2>1. CASE Test(t) \/ Park(t) \/ Resume(t) \/ Leave(t) \/ WakeSpuriously(t)
    <3>1. UNCHANGED <<job, sources, mainPc, mainItem, told>>
      BY <2>1 DEF Test, Park, Resume, Leave, WakeSpuriously, mainVars, history
    <3>2. pc[t] \notin {"await", "unlink"}
      BY <2>1 DEF Test, Park, Resume, Leave, WakeSpuriously
    <3> QED BY <2>0, <3>1, <3>2, DataFrame
  <2>2. CASE StartOperation(t) \/ RunPlain(t) \/ StopOperation(t)
    <3>1. UNCHANGED <<job, sources, mainPc, mainItem, told>>
      BY <2>2 DEF StartOperation, RunPlain, StopOperation, mainVars, history
    <3>2. pc[t] \notin {"await", "unlink"}
      BY <2>2 DEF StartOperation, RunPlain, StopOperation
    <3> QED BY <2>0, <3>1, <3>2, DataFrame
  <2>3. CASE Take(t)
    <3>1. \A j : ~Answering(j) /\ ~Awaiting(j)
      BY <2>0, <2>3 DEF Take, Answering, Awaiting
    <3>2. UNCHANGED <<sources, mainPc, mainItem, told>>
      BY <2>3 DEF Take, mainVars, history
    <3> QED BY <3>1, <3>2 DEF DataInv
  <2>4. CASE Post(t)
    <3>1. /\ pc[t] = "post" /\ pc'[t] = "await" /\ UNCHANGED job
          /\ sources' = sources \cup {<<job[t], dropped[t]>>}
          /\ UNCHANGED <<mainPc, mainItem, told>>
      BY <1>a, <2>4 DEF Post, history
    <3>2. \A j : ~Answering(j) /\ ~Awaiting(j)
      BY <2>0, <3>1 DEF Answering, Awaiting
    <3>3. sources = {} /\ mainPc = "idle" /\ \A j \in Items : told[j] = "nothing"
      BY <3>2 DEF DataInv
    <3>4. job[t] \in Items /\ Awaiting(job[t])'
      BY <3>1 DEF Awaiting, WorkerInv, StageInv
    <3> QED BY <3>1, <3>2, <3>3, <3>4 DEF DataInv
  <2>5. CASE AwaitCallback(t)
    <3>1. /\ pc[t] = "await" /\ pc'[t] = "unlink" /\ UNCHANGED job
          /\ told[job[t]] # "nothing" /\ mainItem # job[t]
          /\ UNCHANGED <<sources, mainPc, mainItem, told>>
      BY <1>a, <2>5 DEF AwaitCallback, HadCallback, mainVars, history
    <3>2. \A j : Awaiting(j) => j = job[t]
      BY <2>0 DEF Awaiting
    <3>3. mainPc = "idle" /\ sources = {}
      BY <3>1, <3>2 DEF DataInv
    <3>4. \A j : Answering(j) => Answering(j)'
      BY <2>0, <3>1 DEF Answering
    <3> QED BY <3>1, <3>3, <3>4 DEF DataInv
  <2>6. CASE Unlink(t)
    <3>1. /\ pc[t] = "unlink" /\ UNCHANGED <<sources, mainPc, mainItem>>
          /\ told' = [i \in Items |-> IF i = job[t] THEN "nothing" ELSE told[i]]
      BY <2>6 DEF Unlink, mainVars
    <3>2. \A j : Answering(j) => j = job[t]
      BY <2>0 DEF Answering
    <3>3. \A j : ~Awaiting(j)
      BY <2>0, <3>1 DEF Awaiting
    <3>4. \A j \in Items : told'[j] = "nothing"
      BY <1>a, <3>1, <3>2 DEF DataInv
    <3> QED BY <3>1, <3>3, <3>4 DEF DataInv
  <2> QED BY <1>9, <2>1, <2>2, <2>3, <2>4, <2>5, <2>6 DEF WorkerStep
<1> QED BY <1>1, <1>2, <1>4, <1>5, <1>6, <1>7, <1>8, <1>9, <1>10 DEF Next, Caller, MainLoop

\* The worker frees the data of an item when neither its idle source nor the main
\* loop has it any more, if the wait for the callback only returns when signalled.
THEOREM DataIsFreedLast ==
  ASSUME "callback" \notin SpuriousWaits
  PROVE  Spec => []DataOutlivesCallback
<1>1. Init => DataInv
  BY DEF Init, DataInv, Awaiting, Answering
<1>2. WorkerInv /\ DataInv => DataOutlivesCallback
  BY DEF DataOutlivesCallback, DataInv, Awaiting, WorkerInv, OneWorker, TypeOK
<1> QED BY <1>1, <1>2, DataStep, WorkerInvariant, PTL DEF Spec
----------------------------------------------------------------------------
(* Cancels.                                                                *)

\* The worker has i on its stage.
OnStage(i) == \E t \in Threads :
                job[t] = i /\ pc[t] \in {"enter", "work", "post", "await", "unlink"}

\* The item on the stage is current and on the list; an operation is there only
\* while its function runs; it is cancelled only if a cancel was meant for the item;
\* and how a function ended is known of the item on the stage only.
CancelInv ==
  /\ \A i \in Items : OnStage(i) => current = i /\ i \in Queued
  /\ \A s \in Slot : op[s] # "none" => \E t \in Threads : pc[t] = "work"
  /\ op["getmsg"] # "none" => current \in Items /\ flags[current] = {"NORMAL"}
  /\ \A s \in Slot : op[s] = "cancelled" => current \in Items /\ Reached(current)
  /\ \A i \in Items : ran[i] # "no" => OnStage(i)
  /\ CancelHitsTarget

\* Who moves no item, and leaves the operation alone.
LEMMA CancelFrame ==
  ASSUME CancelInv,
         UNCHANGED <<job, list, current, op, flags, ran, aimed>>,
         \A t \in Threads :
           LET stage == {"enter", "work", "post", "await", "unlink"}
           IN /\ pc[t] \in stage => pc'[t] \in stage
              /\ pc'[t] \in stage => pc[t] \in stage
              /\ pc[t] = "work" => pc'[t] = "work"
  PROVE  CancelInv'
BY DEF CancelInv, OnStage, CancelHitsTarget, Reached, Queued

\* A cancel that comes while the function of the current item runs is seen there.
LEMMA AimAtRunning ==
  ASSUME TypeOK, OneWorker, NEW s \in Slot, CancelInv, op[s] # "none"
  PROVE  Stage = "after"
<1>1. PICK t \in Threads : pc[t] = "work"
  BY DEF CancelInv
<1>2. \A u \in Threads : pc[u] # "enter"
  BY <1>1 DEF OneWorker
<1> QED BY <1>2 DEF Stage

\* The current item may be hit by such a cancel.
MayBeHit(how) == /\ current \in Items
                 /\ "SYNC" \notin flags[current]
                 /\ \/ how = "after"
                    \/ how = "other" /\ OtherQueue /\ flags[current] = {"NORMAL"}

\* A cancel of the operations S that is noted, and hits who may be hit.
Cancels(S, how) ==
  /\ Aim(how)
  /\ UNCHANGED <<job, pc, list, current, flags, ran>>
  /\ op' = Cancelled(S)
  /\ \A s \in S : op[s] = "live" => MayBeHit(how)

LEMMA CancelHits ==
  ASSUME TypeOK, CancelInv, NEW S \in SUBSET Slot,
         NEW how \in {"before", "after", "other"}, Cancels(S, how)
  PROVE  CancelInv'
<1> USE DEF Cancels
<1>a. /\ aimed \in [Items -> SUBSET {"before", "after", "other"}]
      /\ op \in [Slot -> {"none", "live", "cancelled"}]
  BY DEF TypeOK
<1>1. \A i \in Items : aimed[i] \subseteq aimed'[i]
  BY <1>a DEF Aim
<1>2. current \in Items => how \in aimed'[current]
  BY <1>a DEF Aim
<1>3. \A j : OnStage(j) <=> OnStage(j)'
  BY DEF OnStage
<1>4. \A i \in Items : Reached(i) => Reached(i)'
  BY <1>1 DEF Reached
<1>5. \A s \in Slot : \/ op'[s] = op[s]
                      \/ s \in S /\ op[s] = "live" /\ op'[s] = "cancelled"
  <2> SUFFICES ASSUME NEW s \in Slot
               PROVE  \/ op'[s] = op[s]
                      \/ s \in S /\ op[s] = "live" /\ op'[s] = "cancelled"
    OBVIOUS
  <2>1. op'[s] = IF s \in S /\ op[s] = "live" THEN "cancelled" ELSE op[s]
    BY DEF Cancelled
  <2> QED BY <2>1, Zenon
<1>6. ASSUME NEW s \in S, op[s] = "live"
      PROVE  current \in Items /\ Reached(current)'
  BY <1>2, <1>6 DEF Reached, MayBeHit
<1>7. \A s \in Slot : op'[s] = "cancelled" => current \in Items /\ Reached(current)'
  BY <1>4, <1>5, <1>6 DEF CancelInv
<1>8. CancelHitsTarget'
  BY <1>4 DEF CancelInv, CancelHitsTarget
<1>9. \A s \in Slot : op'[s] # "none" => op[s] # "none"
  BY <1>5
<1>10. "getmsg" \in Slot
  BY DEF Slot
<1> QED BY <1>3, <1>7, <1>8, <1>9, <1>10 DEF CancelInv, Queued

LEMMA CancelStep == WorkerInv /\ CancelInv /\ [Next]_vars => CancelInv'
<1> SUFFICES ASSUME WorkerInv, CancelInv, [Next]_vars PROVE CancelInv'
  OBVIOUS
<1>t. TypeOK /\ OneWorker /\ StageInv /\ ListInv
  BY DEF WorkerInv
<1>a. /\ pc \in [Threads -> WorkerPc] /\ job \in [Threads -> Items \cup {NoItem}]
      /\ list \in Seq(Items) /\ flags \in [Items -> SUBSET Flag]
      /\ aimed \in [Items -> SUBSET {"before", "after", "other"}]
      /\ ran \in [Items -> {"no", "plain", "ok", "aborted"}]
      /\ op \in [Slot -> {"none", "live", "cancelled"}] /\ current \in Items \cup {NoItem}
  BY <1>t DEF TypeOK
<1>1. ASSUME NEW i \in Items, NEW f \in LaunchFlags, Launch(i, f)
      PROVE  CancelInv'
  <2>1. \A t \in Threads :
          \/ pc'[t] = pc[t]
          \/ pc[t] \in {"none", "asleep"} /\ pc'[t] \in {"test", "woken"}
    <3>1. CASE StartWorker
      BY <1>a, <3>1 DEF StartWorker
    <3>2. CASE Broadcast
      BY <1>t, <3>2, BroadcastPc
    <3> QED BY <1>1, <3>1, <3>2 DEF Launch
  <2>2. UNCHANGED <<job, current, op, ran, aimed>>
    BY <1>1 DEF Launch, history
  <2>3. \A j : OnStage(j) <=> OnStage(j)'
    BY <2>1, <2>2 DEF OnStage
  <2>4. PICK n \in 0..Len(list) : list' = InsertAt(list, n + 1, i)
    BY <1>1 DEF Launch
  <2>5. Queued' = Queued \cup {i}
    BY <1>a, <2>4, InsertAtSet DEF Queued
  <2>6. i \notin Queued /\ i # current
    BY <1>1 DEF Launch, Fresh
  <2>7. ~OnStage(i) /\ ran[i] = "no"
    BY <2>6 DEF CancelInv
  <2>8. flags' = [flags EXCEPT ![i] = f]
    BY <1>1 DEF Launch
  <2>9. \A j \in Items : j # i => flags'[j] = flags[j]
    BY <1>a, <2>8
  <2>10. \A s \in Slot : op'[s] # "none" => \E t \in Threads : pc'[t] = "work"
    BY <2>1, <2>2 DEF CancelInv
  <2>11. /\ \A s \in Slot : op'[s] = "cancelled" => current' \in Items /\ Reached(current)'
         /\ op'["getmsg"] # "none" => current' \in Items /\ flags'[current'] = {"NORMAL"}
    BY <2>2, <2>6, <2>9 DEF CancelInv, Reached
  <2>12. CancelHitsTarget'
    BY <2>2, <2>7, <2>9 DEF CancelInv, CancelHitsTarget, Reached
  <2> QED BY <2>2, <2>3, <2>5, <2>10, <2>11, <2>12 DEF CancelInv
<1>2. ASSUME NEW F \in RemoveFlags, RemoveItems(F)
      PROVE  CancelInv'
  BY <1>2, CancelFrame DEF RemoveItems, queueVars, workerVars, accountVars, history
<1>3. ASSUME NEW F \in RemoveFlags, CancelRemoveItems(F)
      PROVE  CancelInv'
  <2>1. UNCHANGED <<job, pc, list, current, flags, ran>> /\ Aim(Stage)
    BY <1>3 DEF CancelRemoveItems, workerVars
  <2>2. Stage \in {"before", "after", "other"}
    BY DEF Stage
  <2>3. CASE op' = Cancelled(Slot) /\ current # NoItem /\ Cancellable(current)
    <3>1. \A s \in Slot : op[s] = "live" => Stage = "after"
      BY <1>t, AimAtRunning
    <3>2. current \in Items /\ "SYNC" \notin flags[current]
      BY <1>a, <2>3 DEF Cancellable
    <3>3. Cancels(Slot, Stage)
      BY <2>1, <2>3, <3>1, <3>2 DEF Cancels, MayBeHit
    <3> QED BY <1>t, <2>2, <3>3, CancelHits
  <2>4. CASE op' = op
    <3>1. op' = Cancelled({})
      BY <1>a, <2>4 DEF Cancelled
    <3>2. Cancels({}, Stage)
      BY <2>1, <3>1 DEF Cancels
    <3> QED BY <1>t, <2>2, <3>2, CancelHits
  <2> QED BY <1>3, <2>3, <2>4 DEF CancelRemoveItems
<1>9. CASE CancelFetch \/ OtherCancels
  <2>1. UNCHANGED <<job, pc, list, current, flags, ran>> /\ op' = Cancelled({"getmsg"})
    BY <1>9 DEF CancelFetch, OtherCancels, workerVars, queueVars, itemVars
  <2>2. {"getmsg"} \in SUBSET Slot
    BY DEF Slot
  <2>3. op["getmsg"] = "live" => current \in Items /\ flags[current] = {"NORMAL"}
    BY DEF CancelInv
  <2>4. CASE CancelFetch
    <3>1. Aim(Stage) /\ Stage \in {"before", "after", "other"}
      BY <2>4 DEF CancelFetch, Stage
    <3>2. op["getmsg"] = "live" => Stage = "after"
      BY <1>t, <2>2, AimAtRunning
    <3>3. Cancels({"getmsg"}, Stage)
      BY <2>1, <2>3, <3>1, <3>2 DEF Cancels, MayBeHit
    <3> QED BY <1>t, <2>2, <3>1, <3>3, CancelHits
  <2>5. CASE OtherCancels
    <3>1. Aim("other") /\ OtherQueue
      BY <2>5 DEF OtherCancels
    <3>2. Cancels({"getmsg"}, "other")
      BY <2>1, <2>3, <3>1 DEF Cancels, MayBeHit
    <3> QED BY <1>t, <2>2, <3>2, CancelHits
  <2> QED BY <1>9, <2>4, <2>5
<1>4. ASSUME NEW b \in BOOLEAN, NEW h \in SUBSET Items, DropRef(b, h)
      PROVE  \A t \in Threads : \/ pc'[t] = pc[t]
                                \/ pc[t] = "asleep" /\ pc'[t] = "woken"
  BY <1>4, <1>t, BroadcastPc DEF DropRef, AccountFinalized
<1>5. CASE AppUnref \/ Destroy
  <2>1. \A t \in Threads : \/ pc'[t] = pc[t]
                           \/ pc[t] = "asleep" /\ pc'[t] = "woken"
    BY <1>t, <1>4, <1>5 DEF AppUnref, Destroy, TypeOK
  <2>2. UNCHANGED <<job, list, current, op, flags, ran, aimed>>
    BY <1>5 DEF AppUnref, Destroy, itemVars, history
  <2> QED BY <2>1, <2>2, CancelFrame
<1>6. ASSUME NEW i \in Items, NEW r \in BOOLEAN, Callback(i, r)
      PROVE  CancelInv'
  BY <1>6, CancelFrame DEF Callback, queueVars, itemVars, workerVars, accountVars
<1>7. CASE Signal \/ UNCHANGED vars
  BY <1>7, CancelFrame DEF Signal, vars, queueVars, itemVars, workerVars,
                           accountVars, history
<1>8. ASSUME NEW t \in Threads, WorkerStep(t) \/ WakeSpuriously(t)
      PROVE  CancelInv'
  <2> USE DEF Goto
  <2>0. \A u \in Threads : u # t => pc[u] = "none" /\ pc'[u] = "none"
    BY <1>8, <1>t, WorkerMoves DEF OneWorker
  <2>1. CASE Test(t) \/ Park(t) \/ Resume(t) \/ Leave(t) \/ WakeSpuriously(t)
    <3>1. UNCHANGED <<job, list, current, op, flags, ran, aimed>>
      BY <2>1 DEF Test, Park, Resume, Leave, WakeSpuriously, queueVars, itemVars,
                  accountVars, history
    <3>2. /\ pc[t] \in {"test", "park", "woken", "leave", "asleep"}
          /\ pc'[t] \in {"take", "leave", "asleep", "test", "none", "woken"}
      BY <1>a, <2>1 DEF Test, Park, Resume, Leave, WakeSpuriously
    <3> QED BY <2>0, <3>1, <3>2, CancelFrame
  <2>2. CASE Post(t) \/ AwaitCallback(t)
    <3>1. UNCHANGED <<job, list, current, op, flags, ran, aimed>>
      BY <2>2 DEF Post, AwaitCallback, queueVars, itemVars, accountVars, history
    <3>2. pc[t] \in {"post", "await"} /\ pc'[t] \in {"await", "unlink"}
      BY <1>a, <2>2 DEF Post, AwaitCallback
    <3> QED BY <2>0, <3>1, <3>2, CancelFrame
  <2>3. CASE Take(t)
    <3>1. pc[t] = "take" /\ UNCHANGED <<list, flags, ran, aimed>>
      BY <2>3 DEF Take, itemVars, history
    <3>2. (\A s \in Slot : op[s] = "none") /\ \A i \in Items : ~OnStage(i)
      BY <2>0, <3>1 DEF CancelInv, OnStage
    <3>3. op' = op /\ "getmsg" \in Slot
      BY <1>a, <2>3, <3>2 DEF Take, Slot
    <3>4. \A i \in Items : ran[i] = "no"
      BY <3>2 DEF CancelInv
    <3>5. \A i \in Items : OnStage(i)' => job'[t] = i
      BY <2>0 DEF OnStage
    <3>6. ASSUME job'[t] \in Items
          PROVE  job'[t] = current' /\ job'[t] \in Queued
      <4>1. list # <<>>
        BY <1>a, <2>3, <3>6, QueueAssumption DEF Take
      <4>2. Head(list) \in Queued
        BY <1>a, <4>1 DEF Queued, ToSet
      <4> QED BY <1>a, <2>3, <4>1, <4>2 DEF Take
    <3> QED BY <3>1, <3>2, <3>3, <3>4, <3>5, <3>6 DEF CancelInv, CancelHitsTarget, Queued
  <2>4. CASE StartOperation(t)
    <3>1. /\ pc'[t] = "work" /\ pc[t] = "enter"
          /\ UNCHANGED <<job, list, current, flags, ran, aimed>>
      BY <1>a, <2>4 DEF StartOperation, queueVars, itemVars, history
    <3>2. \A i \in Items : OnStage(i) <=> OnStage(i)'
      BY <2>0, <3>1 DEF OnStage
    <3>3. PICK s \in Slot : /\ s = "getmsg" => flags[job[t]] = {"NORMAL"}
                            /\ op' = [op EXCEPT ![s] = "live"]
      BY <2>4 DEF StartOperation
    <3>4. \A r \in Slot : op[r] = "none"
      BY <2>0, <3>1 DEF CancelInv
    <3>5. \A r \in Slot : op'[r] # "cancelled"
      BY <1>a, <3>3, <3>4
    <3>6. job[t] \in Items /\ current = job[t]
      BY <1>t, <3>1 DEF StageInv, CancelInv, OnStage
    <3>7. op'["getmsg"] # "none" => current' \in Items /\ flags'[current'] = {"NORMAL"}
      BY <1>a, <3>1, <3>3, <3>4, <3>6 DEF Slot
    <3> QED BY <3>1, <3>2, <3>5, <3>7 DEF CancelInv, CancelHitsTarget, Reached, Queued
  <2>5. CASE RunPlain(t)
    <3>1. /\ pc'[t] = "post" /\ pc[t] = "enter"
          /\ ran' = [ran EXCEPT ![job[t]] = "plain"]
          /\ UNCHANGED <<job, list, current, op, flags, aimed>>
      BY <1>a, <2>5 DEF RunPlain, queueVars, itemVars, accountVars
    <3>2. \A i \in Items : OnStage(i) <=> OnStage(i)'
      BY <2>0, <3>1 DEF OnStage
    <3>3. job[t] \in Items /\ OnStage(job[t])
      BY <1>t, <3>1 DEF StageInv, OnStage
    <3>4. (\A s \in Slot : op[s] = "none") /\ "getmsg" \in Slot
      BY <2>0, <3>1 DEF CancelInv, Slot
    <3>5. \A i \in Items : ran'[i] # "no" => OnStage(i)'
      BY <1>a, <3>1, <3>2, <3>3 DEF CancelInv
    <3>6. CancelHitsTarget'
      BY <1>a, <3>1, <3>3 DEF CancelInv, CancelHitsTarget, Reached
    <3> QED BY <3>1, <3>2, <3>4, <3>5, <3>6 DEF CancelInv, Queued
  <2>6. CASE StopOperation(t)
    <3>1. /\ pc'[t] = "post" /\ pc[t] = "work" /\ op' = [s \in Slot |-> "none"]
          /\ UNCHANGED <<job, list, current, flags, aimed>>
      BY <1>a, <2>6 DEF StopOperation, queueVars, itemVars
    <3>2. PICK r \in {"ok", "aborted"} : /\ r = "aborted" => \E s \in Slot : op[s] = "cancelled"
                                         /\ ran' = [ran EXCEPT ![job[t]] = r]
      BY <2>6 DEF StopOperation
    <3>3. \A i \in Items : OnStage(i) <=> OnStage(i)'
      BY <2>0, <3>1 DEF OnStage
    <3>4. job[t] \in Items /\ OnStage(job[t])
      BY <1>t, <3>1 DEF StageInv, OnStage
    <3>5. current = job[t]
      BY <3>4 DEF CancelInv
    <3>6. r = "aborted" => Reached(job[t])
      BY <3>2, <3>5 DEF CancelInv
    <3>7. \A i \in Items : ran'[i] # "no" => OnStage(i)'
      BY <1>a, <3>2, <3>3, <3>4 DEF CancelInv
    <3>8. CancelHitsTarget'
      BY <1>a, <3>1, <3>2, <3>4, <3>6 DEF CancelInv, CancelHitsTarget, Reached
    <3>9. (\A s \in Slot : op'[s] = "none") /\ "getmsg" \in Slot
      BY <3>1 DEF Slot
    <3> QED BY <3>1, <3>3, <3>7, <3>8, <3>9 DEF CancelInv, Queued
  <2>7. CASE Unlink(t)
    <3>1. /\ pc[t] = "unlink" /\ op' = op
          /\ ran' = [i \in Items |-> IF i = job[t] THEN "no" ELSE ran[i]]
      BY <2>7 DEF Unlink, accountVars
    <3>2. (\A s \in Slot : op[s] = "none") /\ "getmsg" \in Slot
      BY <2>0, <3>1 DEF CancelInv, Slot
    <3>3. \A i \in Items : OnStage(i) => i = job[t]
      BY <2>0 DEF OnStage
    <3>4. \A i \in Items : ran'[i] = "no"
      BY <1>a, <3>1, <3>3 DEF CancelInv
    <3>5. pc'[t] \in {"park", "test"}
      BY <1>a, <2>7 DEF Unlink
    <3>6. \A i \in Items : ~OnStage(i)'
      BY <2>0, <3>5 DEF OnStage
    <3> QED BY <3>1, <3>2, <3>4, <3>6 DEF CancelInv, CancelHitsTarget
  <2> QED BY <1>8, <2>1, <2>2, <2>3, <2>4, <2>5, <2>6, <2>7 DEF WorkerStep
<1> QED BY <1>1, <1>2, <1>3, <1>5, <1>6, <1>7, <1>8, <1>9 DEF Next, Caller, MainLoop

\* A function fails as cancelled only when a cancel of its queue came while it ran,
\* or when it is a fetch that a cancel of the account's other queue hit meanwhile;
\* a synchronisation never: no cancel outlives the operation it hit.
THEOREM CancelsHitTheirTarget == Spec => []CancelHitsTarget
<1>1. Init => CancelInv
  BY DEF Init, CancelInv, OnStage, CancelHitsTarget, Slot
<1>2. CancelInv => CancelHitsTarget
  BY DEF CancelInv
<1> QED BY <1>1, <1>2, CancelStep, WorkerInvariant, PTL DEF Spec
----------------------------------------------------------------------------
(* The order of the list.                                                  *)

\* A removal keeps the others in their order.
LEMMA RemoveAtBefore ==
  ASSUME NEW S, NEW s \in Seq(S), NEW n \in 1..Len(s),
         NEW k \in 1..Len(s), NEW l \in 1..Len(s), k < l, k # n, l # n
  PROVE  \E x, y \in 1..Len(RemoveAt(s, n)) :
           x < y /\ RemoveAt(s, n)[x] = s[k] /\ RemoveAt(s, n)[y] = s[l]
<1> DEFINE r == RemoveAt(s, n)
<1>1. /\ r \in Seq(S) /\ Len(r) = Len(s) - 1
      /\ \A x \in 1..(Len(s) - 1) : r[x] = IF x < n THEN s[x] ELSE s[x + 1]
  BY RemoveAtElements
<1> HIDE DEF r
<1> DEFINE new(x) == IF x < n THEN x ELSE x - 1
<1>3. \A x \in 1..Len(s) : x # n => new(x) \in 1..Len(r) /\ r[new(x)] = s[x]
  BY <1>1
<1>4. new(k) < new(l)
  OBVIOUS
<1> HIDE DEF new
<1>5. \E x, y \in 1..Len(r) : x < y /\ r[x] = s[k] /\ r[y] = s[l]
  BY <1>3, <1>4
<1> QED BY <1>5 DEF r

\* Steps that touch neither the list nor the flags.
LEMMA OrderFrame ==
  ASSUME UNCHANGED <<list, flags>>
  PROVE  /\ PriorityFirst => PriorityFirst'
         /\ \A i \in Queued' \ Queued, j \in Queued :
              Priority(i)' = Priority(j) => Before(j, i)'
         /\ \A i, j \in Queued \cap Queued' : Before(i, j) => Before(i, j)'
BY DEF PriorityFirst, Priority, Queued, Before

\* A launch finds its place by the flags of the queued items.
LEMMA LaunchOrder ==
  ASSUME WorkerInv, PriorityFirst, NEW i \in Items, NEW f \in LaunchFlags, Launch(i, f)
  PROVE  /\ PriorityFirst'
         /\ \A j \in Queued' \ Queued, k \in Queued :
              Priority(j)' = Priority(k) => Before(k, j)'
         /\ \A j, k \in Queued \cap Queued' : Before(j, k) => Before(j, k)'
<1>a. /\ list \in Seq(Items) /\ flags \in [Items -> SUBSET Flag]
      /\ Distinct(list)
  BY DEF WorkerInv, TypeOK, ListInv
<1>1. i \notin Queued
  BY DEF Launch, Fresh
<1>2. PICK n \in 0..Len(list) : Place(f, n) /\ list' = InsertAt(list, n + 1, i)
  BY DEF Launch
<1>n. list \in Seq(Items) /\ n \in 0..Len(list) /\ i \in Items
  BY <1>a, <1>2
<1> DEFINE q == InsertAt(list, n + 1, i)
<1>q. /\ q \in Seq(Items) /\ Len(q) = Len(list) + 1
      /\ \A k \in 1..(Len(list) + 1) :
           q[k] = IF k <= n THEN list[k] ELSE IF k = n + 1 THEN i ELSE list[k - 1]
  BY ONLY <1>n, InsertAtElements, SMTT(60)
<1> HIDE DEF q
<1>3. /\ list' \in Seq(Items) /\ Len(list') = Len(list) + 1
      /\ \A k \in 1..(Len(list) + 1) :
           list'[k] = IF k <= n THEN list[k]
                      ELSE IF k = n + 1 THEN i ELSE list[k - 1]
  BY <1>2, <1>q DEF q
<1>4. Queued' = Queued \cup {i}
  BY <1>a, <1>2, InsertAtSet DEF Queued
<1>5. /\ \A k \in 1..Len(list) : list[k] \in Items /\ list[k] # i
      /\ \A j \in Queued : \E k \in 1..Len(list) : list[k] = j
  BY <1>a, <1>1 DEF Queued, ToSet
<1>6. flags' = [flags EXCEPT ![i] = f]
  BY DEF Launch
<1> DEFINE P(k)  == "PRIORITY" \in flags[list[k]]
           PP(k) == "PRIORITY" \in flags'[list'[k]]
<1>7. /\ \A k \in 1..n : P(k) => PP(k)
      /\ \A k \in 1..n : PP(k) => P(k)
      /\ \A k \in (n + 2)..(Len(list) + 1) : PP(k) => P(k - 1)
      /\ PP(n + 1) <=> "PRIORITY" \in f
  <2>1. \A k \in 1..n : list'[k] = list[k] /\ k \in 1..Len(list)
    BY <1>3
  <2>2. \A k \in (n + 2)..(Len(list) + 1) :
          list'[k] = list[k - 1] /\ k - 1 \in 1..Len(list)
    BY <1>3
  <2>3. list'[n + 1] = i
    BY <1>3
  <2>4. \A j \in Items : j # i => flags'[j] = flags[j]
    BY <1>a, <1>6
  <2>5. flags'[i] = f
    BY <1>a, <1>6
  <2> QED BY <1>5, <2>1, <2>2, <2>3, <2>4, <2>5
<1>8. \A k, l \in 1..Len(list) : k < l /\ P(l) => P(k)
  BY DEF PriorityFirst, Priority
<1>9. PriorityFirst'
  <2> SUFFICES ASSUME NEW k \in 1..(Len(list) + 1), NEW l \in 1..(Len(list) + 1),
                      k < l, PP(l)
               PROVE  PP(k)
    BY <1>3 DEF PriorityFirst, Priority
  <2> HIDE DEF P, PP
  <2>1. CASE "PRIORITY" \in f
    <3>1. /\ \A x \in 1..n : P(x)
          /\ n < Len(list) => ~P(n + 1)
      BY <1>2, <2>1 DEF Place, Priority, P
    <3>2. CASE k <= n
      BY <1>7, <3>1, <3>2
    <3>3. CASE k = n + 1
      BY <1>7, <2>1, <3>3
    <3>4. CASE k > n + 1
      <4>1. P(l - 1) /\ n + 1 < l - 1 /\ l - 1 \in 1..Len(list) /\ n + 1 \in 1..Len(list)
        BY <1>7, <3>4
      <4> QED BY <1>8, <3>1, <4>1
    <3> QED BY <3>2, <3>3, <3>4
  <2>2. CASE "PRIORITY" \notin f
    <3>1. n = Len(list)
      BY <1>2, <2>2 DEF Place
    <3>2. l # n + 1
      BY <1>7, <2>2
    <3> QED BY <1>7, <1>8, <3>1, <3>2
  <2> QED BY <2>1, <2>2
<1>10. ASSUME NEW j \in Queued' \ Queued, NEW k \in Queued, Priority(j)' = Priority(k)
       PROVE  Before(k, j)'
  <2>1. j = i
    BY <1>4
  <2>2. PICK x \in 1..Len(list) : list[x] = k
    BY <1>5
  <2>3. "PRIORITY" \in f <=> P(x)
    BY <1>a, <1>5, <1>6, <1>10, <2>1, <2>2 DEF Priority
  <2>4. x <= n
    <3> HIDE DEF P
    <3>1. CASE "PRIORITY" \in f
      <4>1. n < Len(list) => ~P(n + 1)
        BY <1>2, <3>1 DEF Place, Priority, P
      <4> QED BY <1>8, <2>3, <3>1, <4>1
    <3>2. CASE "PRIORITY" \notin f
      BY <1>2, <3>2 DEF Place
    <3> QED BY <3>1, <3>2
  <2>5. list'[x] = k /\ list'[n + 1] = i /\ x < n + 1
    BY <1>3, <2>2, <2>4
  <2>6. x \in 1..Len(list') /\ n + 1 \in 1..Len(list')
    BY <1>3, <2>4
  <2> QED BY <2>1, <2>5, <2>6 DEF Before
<1>11. ASSUME NEW j \in Queued, NEW k \in Queued, Before(j, k)
       PROVE  Before(j, k)'
  <2>1. PICK x \in 1..Len(list), y \in 1..Len(list) : x < y /\ list[x] = j /\ list[y] = k
    BY <1>11 DEF Before
  <2> DEFINE new(z) == IF z <= n THEN z ELSE z + 1
  <2>2. new(x) < new(y)
    BY <2>1
  <2>3. \A z \in 1..Len(list) : new(z) \in 1..Len(list') /\ list'[new(z)] = list[z]
    BY <1>3
  <2> HIDE DEF new
  <2> QED BY <2>1, <2>2, <2>3 DEF Before
<1> QED BY <1>9, <1>10, <1>11

\* Unlinking leaves the others in their order, and with their flags.
LEMMA UnlinkOrder ==
  ASSUME WorkerInv, PriorityFirst, NEW t \in Threads, Unlink(t)
  PROVE  /\ PriorityFirst'
         /\ Queued' \subseteq Queued
         /\ \A j, k \in Queued \cap Queued' : Before(j, k) => Before(j, k)'
<1>a. /\ list \in Seq(Items) /\ flags \in [Items -> SUBSET Flag]
      /\ Distinct(list) /\ NoItem \notin Items
  BY QueueAssumption DEF WorkerInv, TypeOK, ListInv
<1>1. flags' = [i \in Items |-> IF i = job[t] THEN {} ELSE flags[i]]
  BY DEF Unlink
<1>2. CASE job[t] = NoItem
  <2>1. list' = list
    BY <1>2 DEF Unlink, DeleteLink
  <2>2. flags' = flags
    BY <1>a, <1>1, <1>2
  <2> QED BY <2>1, <2>2, OrderFrame DEF Queued
<1>3. CASE job[t] # NoItem
  <2>1. PICK n \in 1..Len(list) : list[n] = job[t] /\ list' = RemoveAt(list, n)
    BY <1>3 DEF Unlink, DeleteLink
  <2>2. /\ Len(list') = Len(list) - 1
        /\ \A k \in 1..(Len(list) - 1) :
             list'[k] = IF k < n THEN list[k] ELSE list[k + 1]
    BY <1>a, <2>1, RemoveAtElements
  <2>3. Queued' = Queued \ {job[t]}
    BY <1>a, <2>1, RemoveAtDistinct DEF Queued
  <2> DEFINE old(k) == IF k < n THEN k ELSE k + 1
  <2>4. \A k \in 1..Len(list') : /\ old(k) \in 1..Len(list) /\ old(k) # n
                                 /\ list'[k] = list[old(k)]
    BY <1>a, <2>2
  <2>5. \A k, l \in 1..Len(list') : k < l => old(k) < old(l)
    BY <2>2
  <2> HIDE DEF old
  <2>6. \A k \in 1..Len(list) : list[k] \in Items /\ (k # n => list[k] # job[t])
    BY <1>a, <2>1 DEF Distinct
  <2>7. \A k \in 1..Len(list') : flags'[list'[k]] = flags[list[old(k)]]
    BY <1>1, <2>4, <2>6
  <2>8. PriorityFirst'
    <3> SUFFICES ASSUME NEW k \in 1..Len(list'), NEW l \in 1..Len(list'), k < l,
                        "PRIORITY" \in flags'[list'[l]]
                 PROVE  "PRIORITY" \in flags'[list'[k]]
      BY DEF PriorityFirst, Priority
    <3>1. old(k) \in 1..Len(list) /\ old(l) \in 1..Len(list) /\ old(k) < old(l)
      BY <2>4, <2>5
    <3>2. "PRIORITY" \in flags[list[old(l)]]
      BY <2>7
    <3>3. "PRIORITY" \in flags[list[old(k)]]
      BY <3>1, <3>2 DEF PriorityFirst, Priority
    <3> QED BY <2>7, <3>3
  <2>9. ASSUME NEW j \in Queued \cap Queued', NEW k \in Queued \cap Queued', Before(j, k)
        PROVE  Before(j, k)'
    <3>1. PICK x \in 1..Len(list), y \in 1..Len(list) : x < y /\ list[x] = j /\ list[y] = k
      BY <2>9 DEF Before
    <3>2. x \in 1..Len(list) /\ y \in 1..Len(list) /\ x < y /\ x # n /\ y # n
      BY <2>1, <2>3, <3>1
    <3>n. list \in Seq(Items) /\ n \in 1..Len(list)
      BY <1>a, <2>1
    <3> DEFINE q == RemoveAt(list, n)
    <3>3. \E v, w \in 1..Len(q) : v < w /\ q[v] = list[x] /\ q[w] = list[y]
      BY <3>n, <3>2, RemoveAtBefore
    <3> QED BY <2>1, <3>1, <3>3 DEF Before
  <2> QED BY <2>3, <2>8, <2>9
<1> QED BY <1>2, <1>3

FifoStep ==
  /\ \A i \in Queued' \ Queued, j \in Queued : Priority(i)' = Priority(j) => Before(j, i)'
  /\ \A i, j \in Queued \cap Queued' : Before(i, j) => Before(i, j)'

LEMMA OrderStep ==
  WorkerInv /\ PriorityFirst /\ [Next]_vars => PriorityFirst' /\ FifoStep
<1> SUFFICES ASSUME WorkerInv, PriorityFirst, [Next]_vars
             PROVE  PriorityFirst' /\ FifoStep
  OBVIOUS
<1> USE DEF FifoStep
<1>1. ASSUME NEW i \in Items, NEW f \in LaunchFlags, Launch(i, f)
      PROVE  PriorityFirst' /\ FifoStep
  BY <1>1, LaunchOrder
<1>2. ASSUME NEW t \in Threads, Unlink(t)
      PROVE  PriorityFirst' /\ FifoStep
  <2>1. Queued' \ Queued = {}
    BY <1>2, UnlinkOrder
  <2> QED BY <1>2, <2>1, UnlinkOrder
<1>3. ASSUME NEW F \in RemoveFlags, RemoveItems(F) \/ CancelRemoveItems(F)
      PROVE  PriorityFirst' /\ FifoStep
  BY <1>3, OrderFrame DEF RemoveItems, CancelRemoveItems, queueVars
<1>4. CASE AppUnref \/ Destroy \/ Signal \/ UNCHANGED vars
  BY <1>4, OrderFrame DEF AppUnref, Destroy, Signal, vars, queueVars, itemVars
<1>7. CASE CancelFetch \/ OtherCancels
  BY <1>7, CancelOnly, OrderFrame DEF queueVars, itemVars
<1>5. ASSUME NEW t \in Threads,
             \/ Test(t) \/ Take(t) \/ StartOperation(t) \/ RunPlain(t)
             \/ StopOperation(t) \/ Post(t) \/ AwaitCallback(t)
             \/ Park(t) \/ Resume(t) \/ Leave(t) \/ WakeSpuriously(t)
      PROVE  PriorityFirst' /\ FifoStep
  BY <1>5, OrderFrame DEF Test, Take, StartOperation, RunPlain, StopOperation, Post,
       AwaitCallback, Park, Resume, Leave, WakeSpuriously, queueVars, itemVars
<1>6. ASSUME NEW i \in Items, NEW r \in BOOLEAN, Callback(i, r)
      PROVE  PriorityFirst' /\ FifoStep
  BY <1>6, OrderFrame DEF Callback, queueVars, itemVars
<1> QED BY <1>1, <1>2, <1>3, <1>4, <1>5, <1>6, <1>7
        DEF Next, Caller, MainLoop, WorkerStep

\* Items flagged PRIORITY are before all others, though the insertion only counts
\* nodes while the worker unlinks and others are inserted.
THEOREM PriorityComesFirst == Spec => []PriorityFirst
<1>1. Init => PriorityFirst
  BY DEF Init, PriorityFirst
<1> QED BY <1>1, OrderStep, WorkerInvariant, PTL DEF Spec

\* No step lets an item overtake another of its class.
THEOREM FirstInFirstOut == Spec => FifoPerClass
<1>1. WorkerInv /\ PriorityFirst /\ [Next]_vars => [FifoStep]_vars
  BY OrderStep
<1> QED BY <1>1, PriorityComesFirst, WorkerInvariant, PTL
        DEF Spec, FifoPerClass, FifoStep
=============================================================================
