-------------------- MODULE TnyCamelQueueContractProofs --------------------
(***************************************************************************)
(* TnyCamelQueue implements QueueContract: what the documentation of       *)
(* _tny_camel_queue_launch promises, the worker, the callers and the main  *)
(* loop keep together, whatever the interleaving.                          *)
(***************************************************************************)
EXTENDS TnyCamelQueueItemProofs

\* The mark of a removed item and the worker's sample of it agree with what became
\* of its function; the item is current as long as the worker has it.
PhaseInv ==
  /\ \A i \in Items : deleted[i] => i \in Queued
  /\ current # NoItem => OnStage(current)
  /\ \A t \in Threads :
       /\ pc[t] \in {"enter", "work"} =>
            ~deleted[job[t]] /\ ran[job[t]] = "no" /\ ~dropped[t]
       /\ pc[t] \in {"post", "await", "unlink"} /\ job[t] # NoItem =>
            /\ dropped[t] <=> deleted[job[t]]
            /\ dropped[t] <=> ran[job[t]] = "no"
       /\ pc[t] = "await" => \A s \in sources : s[2] = dropped[t]
       /\ pc[t] = "unlink" /\ job[t] # NoItem => told[job[t]] # "nothing"

KeptInv == WorkerInv /\ DataInv /\ CancelInv /\ PhaseInv

\* Who leaves the items alone, and moves no thread through the stage.
LEMMA PhaseFrame ==
  ASSUME PhaseInv,
         UNCHANGED <<job, list, current, deleted, dropped, ran, told, sources>>,
         \A t \in Threads :
           LET stage == {"enter", "work", "post", "await", "unlink"}
           IN pc'[t] = pc[t] \/ (pc[t] \notin stage /\ pc'[t] \notin stage)
  PROVE  PhaseInv'
BY DEF PhaseInv, OnStage, Queued

\* Callers and the main loop only start a thread or wake one.
LEMMA OthersMove ==
  ASSUME TypeOK, StartWorker \/ Broadcast
  PROVE  \A t \in Threads : \/ pc'[t] = pc[t]
                            \/ pc[t] \in {"none", "asleep"} /\ pc'[t] \in {"test", "woken"}
<1>1. CASE StartWorker
  BY <1>1 DEF StartWorker, TypeOK
<1>2. CASE Broadcast
  BY <1>2, BroadcastPc
<1> QED BY <1>1, <1>2

LEMMA PhaseStep ==
  ASSUME "callback" \notin SpuriousWaits
  PROVE  KeptInv /\ [Next]_vars => PhaseInv'
<1> SUFFICES ASSUME KeptInv, [Next]_vars PROVE PhaseInv'
  OBVIOUS
<1>t. TypeOK /\ OneWorker /\ StageInv /\ ListInv /\ RefInv /\ DataInv /\ CancelInv /\ PhaseInv
  BY DEF KeptInv, WorkerInv
<1>a. /\ pc \in [Threads -> WorkerPc] /\ job \in [Threads -> Items \cup {NoItem}]
      /\ dropped \in [Threads -> BOOLEAN] /\ deleted \in [Items -> BOOLEAN]
      /\ list \in Seq(Items) /\ current \in Items \cup {NoItem} /\ NoItem \notin Items
      /\ ran \in [Items -> {"no", "plain", "ok", "aborted"}]
      /\ told \in [Items -> {"nothing", "done", "cancelled"}]
      /\ sources \subseteq Items \X BOOLEAN
  BY <1>t, QueueAssumption DEF TypeOK
<1>1. ASSUME NEW i \in Items, NEW f \in LaunchFlags, Launch(i, f)
      PROVE  PhaseInv'
  <2>1. \A t \in Threads : \/ pc'[t] = pc[t]
                           \/ /\ pc[t] \in {"none", "asleep"}
                              /\ pc'[t] \in {"test", "woken"}
    BY <1>1, <1>t, OthersMove DEF Launch
  <2>2. UNCHANGED <<job, current, deleted, dropped, ran, told, sources>>
    BY <1>1 DEF Launch, mainVars, history
  <2>3. PICK n \in 0..Len(list) : list' = InsertAt(list, n + 1, i)
    BY <1>1 DEF Launch
  <2>4. Queued' = Queued \cup {i}
    BY <1>a, <2>3, InsertAtSet DEF Queued
  <2>5. \A j : OnStage(j) => OnStage(j)'
    BY <2>1, <2>2 DEF OnStage
  <2> QED BY <1>t, <2>1, <2>2, <2>4, <2>5 DEF PhaseInv
<1>2. ASSUME NEW F \in RemoveFlags, RemoveItems(F) \/ CancelRemoveItems(F)
      PROVE  PhaseInv'
  <2>1. UNCHANGED <<pc, job, list, current, dropped, ran, told, sources>>
    BY <1>2 DEF RemoveItems, CancelRemoveItems, queueVars, workerVars, mainVars, history
  <2>2. deleted' = [i \in Items |-> \/ deleted[i]
                                    \/ /\ i \in Queued \ {current}
                                       /\ flags[i] \cap F # {}]
    BY <1>2 DEF RemoveItems, CancelRemoveItems, MarkRemoved
  <2>3. \A i \in Items : deleted'[i] => i \in Queued
    BY <1>t, <2>2 DEF PhaseInv
  <2>4. ASSUME NEW t \in Threads, job[t] \in Items,
               pc[t] \in {"enter", "work", "post", "await", "unlink"}
        PROVE  deleted'[job[t]] = deleted[job[t]]
    <3>1. current = job[t]
      BY <1>t, <2>4 DEF CancelInv, OnStage
    <3> QED BY <1>a, <2>2, <2>4, <3>1
  <2>5. \A t \in Threads : pc[t] \in {"enter", "work", "post", "await"} => job[t] \in Items
    BY <1>t DEF StageInv
  <2>6. \A i : OnStage(i) <=> OnStage(i)'
    BY <2>1 DEF OnStage
  <2>7. Queued' = Queued
    BY <2>1 DEF Queued
  <2>8. \A t \in Threads : job[t] # NoItem => job[t] \in Items
    BY <1>a
  <2>9. ASSUME NEW t \in Threads
        PROVE  /\ pc[t] \in {"enter", "work"} =>
                    ~deleted'[job[t]] /\ ran[job[t]] = "no" /\ ~dropped[t]
               /\ pc[t] \in {"post", "await", "unlink"} /\ job[t] # NoItem =>
                    /\ dropped[t] <=> deleted'[job[t]]
                    /\ dropped[t] <=> ran[job[t]] = "no"
    BY <1>t, <2>4, <2>5, <2>8 DEF PhaseInv
  <2> QED BY <1>t, <2>1, <2>3, <2>6, <2>7, <2>9 DEF PhaseInv
<1>3. ASSUME NEW b \in BOOLEAN, NEW h \in SUBSET Items, DropRef(b, h)
      PROVE  \A t \in Threads : \/ pc'[t] = pc[t]
                                \/ pc[t] = "asleep" /\ pc'[t] = "woken"
  BY <1>3, <1>t, BroadcastPc DEF DropRef, AccountFinalized
<1>4. CASE AppUnref \/ Destroy
  <2>1. \A t \in Threads : \/ pc'[t] = pc[t]
                           \/ pc[t] = "asleep" /\ pc'[t] = "woken"
    BY <1>t, <1>3, <1>4 DEF AppUnref, Destroy, TypeOK
  <2>2. UNCHANGED <<job, list, current, deleted, dropped, ran, told, sources>>
    BY <1>4 DEF AppUnref, Destroy, itemVars, mainVars, history
  <2> QED BY <1>t, <2>1, <2>2, PhaseFrame
<1>5. ASSUME NEW i \in Items, NEW r \in BOOLEAN, Callback(i, r)
      PROVE  PhaseInv'
  <2>1. /\ UNCHANGED <<pc, job, list, current, deleted, dropped, ran>>
        /\ sources' = sources \ {<<i, r>>} /\ told' = [told EXCEPT ![i] =
                                              IF r THEN "cancelled" ELSE "done"]
    BY <1>5 DEF Callback, queueVars, itemVars, workerVars
  <2>2. \A j : OnStage(j) <=> OnStage(j)'
    BY <2>1 DEF OnStage
  <2>3. \A j \in Items : told[j] # "nothing" => told'[j] # "nothing"
    BY <1>a, <2>1
  <2>4. \A t \in Threads : job[t] # NoItem => job[t] \in Items
    BY <1>a
  <2> QED BY <1>t, <2>1, <2>2, <2>3, <2>4 DEF PhaseInv, Queued
<1>6. CASE Signal \/ UNCHANGED vars
  BY <1>6, <1>t, PhaseFrame DEF Signal, vars, queueVars, itemVars, workerVars, mainVars,
     history
<1>7. ASSUME NEW t \in Threads, WorkerStep(t) \/ WakeSpuriously(t)
      PROVE  PhaseInv'
  <2> USE DEF Goto
  <2>0. \A u \in Threads : u # t => pc[u] = "none" /\ pc'[u] = "none"
    BY <1>7, <1>t, WorkerMoves DEF OneWorker
  <2>1. CASE Test(t) \/ Park(t) \/ Resume(t) \/ Leave(t) \/ WakeSpuriously(t)
    <3>1. UNCHANGED <<job, list, current, deleted, dropped, ran, told, sources>>
      BY <2>1 DEF Test, Park, Resume, Leave, WakeSpuriously, queueVars, itemVars,
                  mainVars, history
    <3>2. /\ pc[t] \in {"test", "park", "woken", "leave", "asleep"}
          /\ pc'[t] \in {"take", "leave", "asleep", "test", "none", "woken"}
      BY <1>a, <2>1 DEF Test, Park, Resume, Leave, WakeSpuriously
    <3> QED BY <1>t, <2>0, <3>1, <3>2, PhaseFrame
  <2>2. CASE Take(t)
    <3>1. /\ pc[t] = "take" /\ pc'[t] = AfterTake
          /\ UNCHANGED <<list, deleted, ran, told, sources>>
      BY <1>a, <2>2 DEF Take, itemVars, mainVars, history
    <3>2. /\ \A i : ~OnStage(i) /\ ~Answering(i)
          /\ sources = {}
      BY <1>t, <2>0, <3>1 DEF OnStage, Answering, DataInv, Awaiting
    <3>3. current = NoItem /\ \A i \in Items : ran[i] = "no"
      BY <1>t, <3>2 DEF PhaseInv, CancelInv
    <3>4. CASE list = <<>>
      <4>1. pc'[t] = "unlink" /\ job'[t] = NoItem /\ current' = NoItem
        BY <1>a, <2>2, <3>1, <3>3, <3>4 DEF Take, AfterTake
      <4> QED BY <1>t, <2>0, <3>1, <4>1 DEF PhaseInv, Queued
    <3>5. CASE list # <<>>
      <4>1. Head(list) \in Items
        BY <1>a, <3>5
      <4>2. /\ job'[t] = Head(list) /\ current' = Head(list)
            /\ dropped'[t] = deleted[Head(list)]
            /\ pc'[t] = IF deleted[Head(list)] THEN "post" ELSE "enter"
        BY <1>a, <2>2, <3>1, <3>5, <4>1 DEF Take, AfterTake
      <4>3. OnStage(current)'
        BY <4>2 DEF OnStage
      <4> QED BY <1>t, <1>a, <2>0, <3>1, <3>2, <3>3, <4>1, <4>2, <4>3 DEF PhaseInv, Queued
    <3> QED BY <3>4, <3>5
  <2>3. CASE StartOperation(t)
    <3>1. /\ pc[t] = "enter" /\ pc'[t] = "work"
          /\ UNCHANGED <<job, list, current, deleted, dropped, ran, told, sources>>
      BY <1>a, <2>3 DEF StartOperation, queueVars, itemVars, mainVars, history
    <3>2. \A i : OnStage(i) <=> OnStage(i)'
      BY <2>0, <3>1 DEF OnStage
    <3> QED BY <1>t, <2>0, <3>1, <3>2 DEF PhaseInv, Queued
  <2>4. CASE RunPlain(t) \/ StopOperation(t)
    <3>1. /\ pc[t] \in {"enter", "work"} /\ pc'[t] = "post"
          /\ UNCHANGED <<job, list, current, deleted, dropped, told, sources>>
      BY <1>a, <2>4 DEF RunPlain, StopOperation, queueVars, itemVars, mainVars
    <3>2. PICK r \in {"plain", "ok", "aborted"} : ran' = [ran EXCEPT ![job[t]] = r]
      BY <2>4 DEF RunPlain, StopOperation
    <3>3. job[t] \in Items /\ ran'[job[t]] # "no"
      BY <1>a, <1>t, <3>1, <3>2 DEF StageInv
    <3>4. \A i : OnStage(i) <=> OnStage(i)'
      BY <2>0, <3>1 DEF OnStage
    <3> QED BY <1>t, <2>0, <3>1, <3>3, <3>4 DEF PhaseInv, Queued
  <2>5. CASE Post(t)
    <3>1. /\ pc[t] = "post" /\ pc'[t] = "await"
          /\ UNCHANGED <<job, list, current, deleted, dropped, ran, told>>
          /\ sources' = sources \cup {<<job[t], dropped[t]>>}
      BY <1>a, <2>5 DEF Post, queueVars, itemVars, history
    <3>2. sources = {}
      BY <1>t, <2>0, <3>1 DEF DataInv, Awaiting
    <3>3. \A i : OnStage(i) <=> OnStage(i)'
      BY <2>0, <3>1 DEF OnStage
    <3> QED BY <1>t, <2>0, <3>1, <3>2, <3>3 DEF PhaseInv, Queued
  <2>6. CASE AwaitCallback(t)
    <3>1. /\ pc[t] = "await" /\ pc'[t] = "unlink" /\ told[job[t]] # "nothing"
          /\ UNCHANGED <<job, list, current, deleted, dropped, ran, told, sources>>
      BY <1>a, <2>6 DEF AwaitCallback, HadCallback, queueVars, itemVars, mainVars, history
    <3>2. \A i : OnStage(i) <=> OnStage(i)'
      BY <2>0, <3>1 DEF OnStage
    <3> QED BY <1>t, <2>0, <3>1, <3>2 DEF PhaseInv, Queued
  <2>7. CASE Unlink(t)
    <3>1. /\ pc[t] = "unlink" /\ pc'[t] \in {"park", "test"} /\ current' = NoItem
          /\ deleted' = [i \in Items |-> i # job[t] /\ deleted[i]]
      BY <1>a, <2>7 DEF Unlink
    <3>2. \A i \in Queued : i # job[t] => i \in Queued'
      <4>1. CASE job[t] = NoItem
        BY <2>7, <4>1 DEF Unlink, DeleteLink, Queued
      <4>2. CASE job[t] # NoItem
        <5>1. PICK n \in 1..Len(list) : list[n] = job[t] /\ list' = RemoveAt(list, n)
          BY <2>7, <4>2 DEF Unlink, DeleteLink
        <5>2. Queued' = Queued \ {job[t]}
          BY <1>a, <1>t, <5>1, RemoveAtDistinct DEF Queued, ListInv
        <5> QED BY <5>2
      <4> QED BY <4>1, <4>2
    <3>3. \A i \in Items : deleted'[i] => i \in Queued'
      BY <1>t, <3>1, <3>2 DEF PhaseInv
    <3> QED BY <2>0, <3>1, <3>3 DEF PhaseInv
  <2> QED BY <1>7, <2>1, <2>2, <2>3, <2>4, <2>5, <2>6, <2>7 DEF WorkerStep
<1>8. CASE CancelFetch \/ OtherCancels
  BY <1>t, <1>8, CancelOnly, PhaseFrame DEF queueVars, itemVars, workerVars, mainVars
<1> QED BY <1>1, <1>2, <1>4, <1>5, <1>6, <1>7, <1>8 DEF Next, Caller, MainLoop

----------------------------------------------------------------------------
(* The phases of QueueContract.                                            *)

\* An item that is not current is as the list and its mark say.
LEMMA OffStage ==
  ASSUME KeptInv, NEW i \in Items, i # current
  PROVE  /\ told[i] = "nothing" /\ ran[i] = "no"
         /\ Phase(i) = IF i \notin Queued THEN "free"
                       ELSE IF deleted[i] THEN "dropped" ELSE "waiting"
<1>1. ~OnStage(i)
  BY DEF KeptInv, CancelInv
<1>2. ~Answering(i)
  BY <1>1 DEF OnStage, Answering
<1>3. told[i] = "nothing" /\ ran[i] = "no"
  BY <1>1, <1>2 DEF KeptInv, CancelInv, DataInv
<1> QED BY <1>3 DEF Phase

\* The phases do not tell apart what these leave alone.
LEMMA Stutters ==
  ASSUME UNCHANGED <<list, told, ran, deleted, current>>
  PROVE  [i \in Items |-> Phase(i)]' = [i \in Items |-> Phase(i)]
BY DEF Phase, Queued

\* One item changes its phase.
LEMMA Moved ==
  ASSUME NEW i \in Items, NEW from, NEW to, Phase(i) = from, Phase(i)' = to,
         \A j \in Items : j # i => Phase(j)' = Phase(j)
  PROVE  Contract!Move(i, from, to)
<1>1. [j \in Items |-> Phase(j)]' = [[j \in Items |-> Phase(j)] EXCEPT ![i] = to]
  OBVIOUS
<1> QED BY <1>1 DEF Contract!Move

\* With nothing current the stage is free.
LEMMA NothingOnStage ==
  ASSUME KeptInv, NEW i, i = current \/ current = NoItem,
         Phase(i) \in {"waiting", "dropped"}
  PROVE  Contract!StageFree
<1>1. \A j \in Items : j # i => Phase(j) \in {"free", "waiting", "dropped"}
  BY OffStage, QueueAssumption
<1> QED BY <1>1 DEF Contract!StageFree, Contract!OnStage

LEMMA LaunchSubmits ==
  ASSUME KeptInv, KeptInv', NEW i \in Items, NEW f \in LaunchFlags, Launch(i, f)
  PROVE  Contract!Submit(i)
<1>a. list \in Seq(Items)
  BY DEF KeptInv, WorkerInv, TypeOK
<1>1. i \notin Queued /\ i # current
  BY DEF Launch, Fresh
<1>2. PICK n \in 0..Len(list) : list' = InsertAt(list, n + 1, i)
  BY DEF Launch
<1>3. Queued' = Queued \cup {i}
  BY <1>a, <1>2, InsertAtSet DEF Queued
<1>4. UNCHANGED <<current, deleted, ran, told>>
  BY DEF Launch, history
<1>5. ~deleted[i]
  BY <1>1 DEF KeptInv, PhaseInv
<1>6. Phase(i) = "free" /\ Phase(i)' = "waiting"
  BY <1>1, <1>3, <1>4, <1>5, OffStage DEF Phase
<1>7. \A j \in Items : j # i => Phase(j)' = Phase(j)
  BY <1>3, <1>4 DEF Phase
<1> QED BY <1>6, <1>7, Moved DEF Contract!Submit

LEMMA RemovalDrops ==
  ASSUME KeptInv, KeptInv', NEW F \in RemoveFlags, RemoveItems(F) \/ CancelRemoveItems(F)
  PROVE  \E S \in SUBSET Items : Contract!Drop(S)
<1>1. UNCHANGED <<list, current, ran, told>>
  BY DEF RemoveItems, CancelRemoveItems, queueVars, history
<1>2. deleted' = [i \in Items |-> \/ deleted[i]
                                  \/ /\ i \in Queued \ {current}
                                     /\ flags[i] \cap F # {}]
  BY DEF RemoveItems, CancelRemoveItems, MarkRemoved
<1> DEFINE S == {i \in Items : deleted'[i] /\ ~deleted[i]}
<1>3. \A i \in S : Phase(i) = "waiting" /\ Phase(i)' = "dropped"
  <2> SUFFICES ASSUME NEW i \in Items, deleted'[i], ~deleted[i]
               PROVE  Phase(i) = "waiting" /\ Phase(i)' = "dropped"
    OBVIOUS
  <2>1. i \in Queued /\ i # current
    BY <1>2
  <2> QED BY <1>1, <2>1, OffStage DEF Phase, Queued
<1>4. \A i \in Items \ S : deleted'[i] = deleted[i]
  BY <1>2 DEF KeptInv, WorkerInv, TypeOK
<1>5. \A i \in Items \ S : Phase(i)' = Phase(i)
  BY <1>1, <1>4 DEF Phase, Queued
<1> HIDE DEF S
<1>6. [i \in Items |-> Phase(i)]' =
        [i \in Items |-> IF i \in S THEN "dropped" ELSE Phase(i)]
  BY <1>3, <1>5
<1>7. S \in SUBSET Items
  BY DEF S
<1>8. Contract!Drop(S)
  BY <1>3, <1>6, <1>7 DEF Contract!Drop
<1> QED BY <1>7, <1>8

LEMMA TakeStarts ==
  ASSUME KeptInv, KeptInv', NEW t \in Threads, Take(t)
  PROVE  \/ [i \in Items |-> Phase(i)]' = [i \in Items |-> Phase(i)]
         \/ \E i \in Items : Contract!Start(i)
<1>t. TypeOK /\ OneWorker /\ NoItem \notin Items
  BY QueueAssumption DEF KeptInv, WorkerInv
<1>1. pc[t] = "take" /\ UNCHANGED <<list, deleted, ran, told>>
  BY DEF Take, Goto, itemVars, history
<1>2. current = NoItem
  BY <1>t, <1>1 DEF KeptInv, PhaseInv, OnStage, OneWorker
<1>3. CASE list = <<>>
  BY <1>1, <1>3, Stutters DEF Take
<1>4. CASE list # <<>>
  <2>0. PICK i \in Items : i = Head(list)
    BY <1>t, <1>4 DEF TypeOK
  <2>1. i \in Queued /\ i # current
    BY <1>t, <1>2, <1>4, <2>0 DEF Queued, ToSet, TypeOK
  <2>2. current' = i
    BY <1>4, <2>0 DEF Take
  <2>3. told[i] = "nothing" /\ ran[i] = "no"
    BY <2>1, OffStage
  <2>4. \A j \in Items : j # i => Phase(j)' = Phase(j)
    BY <1>t, <1>1, <1>2, <2>2 DEF Phase, Queued
  <2>5. CASE deleted[i]
    <3>1. Phase(i)' = Phase(i)
      BY <1>1, <2>1, <2>3, <2>5 DEF Phase, Queued
    <3> QED BY <2>4, <3>1
  <2>6. CASE ~deleted[i]
    <3>1. Phase(i) = "waiting" /\ Phase(i)' = "running"
      BY <1>1, <2>1, <2>2, <2>3, <2>6 DEF Phase, Queued
    <3>2. Contract!Move(i, "waiting", "running")
      BY <2>1, <2>4, <3>1, Moved
    <3> QED BY <1>2, <2>1, <3>1, <3>2, NothingOnStage DEF Contract!Start
  <2> QED BY <2>5, <2>6
<1> QED BY <1>3, <1>4

LEMMA WorkEnds ==
  ASSUME KeptInv, KeptInv', NEW t \in Threads, RunPlain(t) \/ StopOperation(t)
  PROVE  \E i \in Items : Contract!End(i)
<1>1. pc[t] \in {"enter", "work"} /\ UNCHANGED <<list, current, deleted, told>>
  BY DEF RunPlain, StopOperation, Goto, queueVars, itemVars
<1>2. PICK r \in {"plain", "ok", "aborted"} : ran' = [ran EXCEPT ![job[t]] = r]
  BY DEF RunPlain, StopOperation
<1>3. job[t] \in Items /\ ran \in [Items -> {"no", "plain", "ok", "aborted"}]
  BY <1>1 DEF KeptInv, WorkerInv, StageInv, TypeOK
<1>4. PICK i \in Items : i = job[t]
  BY <1>3
<1>5. OnStage(i) /\ ~Answering(i)
  BY <1>1, <1>4 DEF OnStage, Answering, KeptInv, WorkerInv, OneWorker
<1>6. current = i /\ i \in Queued /\ told[i] = "nothing"
  BY <1>5 DEF KeptInv, CancelInv, DataInv
<1>7. ~deleted[i] /\ ran[i] = "no"
  BY <1>1, <1>4 DEF KeptInv, PhaseInv
<1>8. Phase(i) = "running"
  BY <1>6, <1>7 DEF Phase
<1>9. ran'[i] # "no"
  BY <1>2, <1>3, <1>4
<1>10. Phase(i)' = "ended"
  BY <1>1, <1>6, <1>9 DEF Phase, Queued
<1>11. \A j \in Items : j # i => Phase(j)' = Phase(j)
  BY <1>1, <1>2, <1>3, <1>4 DEF Phase, Queued
<1> QED BY <1>8, <1>10, <1>11, Moved DEF Contract!End

LEMMA CallbackAnswers ==
  ASSUME KeptInv, KeptInv', NEW i \in Items, NEW r \in BOOLEAN, Callback(i, r)
  PROVE  Contract!Answer(i) \/ Contract!Refuse(i)
<1>t. /\ ran \in [Items -> {"no", "plain", "ok", "aborted"}] /\ NoItem \notin Items
      /\ deleted \in [Items -> BOOLEAN]
      /\ told \in [Items -> {"nothing", "done", "cancelled"}]
  BY QueueAssumption DEF KeptInv, WorkerInv, TypeOK
<1>1. /\ <<i, r>> \in sources /\ UNCHANGED <<list, current, deleted, ran>>
      /\ told' = [told EXCEPT ![i] = IF r THEN "cancelled" ELSE "done"]
  BY DEF Callback, queueVars, itemVars
<1>2. told[i] = "nothing"
  BY <1>1 DEF KeptInv, DataInv
<1>3. PICK t \in Threads : job[t] = i /\ pc[t] = "await"
  BY <1>1 DEF KeptInv, DataInv, Awaiting
<1>4. current = i /\ i \in Queued
  BY <1>3 DEF KeptInv, CancelInv, OnStage
<1>5. r = dropped[t]
  BY <1>1, <1>3 DEF KeptInv, PhaseInv
<1>6. (r <=> deleted[i]) /\ (r <=> ran[i] = "no")
  BY <1>t, <1>3, <1>5 DEF KeptInv, PhaseInv
<1>7. \A j \in Items : j # i => Phase(j)' = Phase(j)
  BY <1>t, <1>1 DEF Phase, Queued
<1>8. CASE r
  <2>1. told'[i] = "cancelled"
    BY <1>t, <1>1, <1>8
  <2>2. Phase(i) = "dropped" /\ Phase(i)' = "refused"
    BY <1>1, <1>2, <1>4, <1>6, <1>8, <2>1 DEF Phase, Queued
  <2>3. Contract!Move(i, "dropped", "refused")
    BY <1>7, <2>2, Moved
  <2> QED BY <1>4, <2>2, <2>3, NothingOnStage DEF Contract!Refuse
<1>9. CASE ~r
  <2>1. told'[i] = "done"
    BY <1>t, <1>1, <1>9
  <2>2. Phase(i) = "ended" /\ Phase(i)' = "answered"
    BY <1>1, <1>2, <1>4, <1>6, <1>9, <2>1 DEF Phase, Queued
  <2>3. Contract!Move(i, "ended", "answered")
    BY <1>7, <2>2, Moved
  <2> QED BY <2>3 DEF Contract!Answer
<1> QED BY <1>8, <1>9

LEMMA UnlinkReleases ==
  ASSUME KeptInv, KeptInv', NEW t \in Threads, Unlink(t)
  PROVE  \/ [i \in Items |-> Phase(i)]' = [i \in Items |-> Phase(i)]
         \/ \E i \in Items : Contract!Release(i)
<1>t. /\ list \in Seq(Items) /\ NoItem \notin Items /\ Distinct(list)
      /\ job \in [Threads -> Items \cup {NoItem}] /\ current \in Items \cup {NoItem}
      /\ told \in [Items -> {"nothing", "done", "cancelled"}]
      /\ deleted \in [Items -> BOOLEAN]
      /\ ran \in [Items -> {"no", "plain", "ok", "aborted"}]
  BY QueueAssumption DEF KeptInv, WorkerInv, TypeOK, ListInv
<1>1. /\ pc[t] = "unlink" /\ current' = NoItem
      /\ deleted' = [i \in Items |-> i # job[t] /\ deleted[i]]
      /\ ran' = [i \in Items |-> IF i = job[t] THEN "no" ELSE ran[i]]
      /\ told' = [i \in Items |-> IF i = job[t] THEN "nothing" ELSE told[i]]
  BY DEF Unlink
<1>2. \A j : OnStage(j) => j = job[t]
  BY <1>1 DEF OnStage, KeptInv, WorkerInv, OneWorker
<1>3. CASE job[t] = NoItem
  <2>1. current = NoItem
    BY <1>2, <1>3 DEF KeptInv, PhaseInv
  <2>2. list' = list
    BY <1>3 DEF Unlink, DeleteLink
  <2>3. deleted' = deleted /\ ran' = ran /\ told' = told
    BY <1>t, <1>1, <1>3
  <2> QED BY <1>1, <2>1, <2>2, <2>3, Stutters
<1>4. CASE job[t] # NoItem
  <2>0. PICK i \in Items : i = job[t]
    BY <1>t, <1>4
  <2>1. OnStage(i)
    BY <1>1, <2>0 DEF OnStage
  <2>2. current = i /\ i \in Queued /\ told[i] # "nothing"
    BY <1>1, <1>4, <2>0, <2>1 DEF KeptInv, CancelInv, PhaseInv
  <2>3. Phase(i) \in {"answered", "refused"}
    BY <1>t, <2>2 DEF Phase
  <2>4. PICK n \in 1..Len(list) : list[n] = i /\ list' = RemoveAt(list, n)
    BY <1>4, <2>0 DEF Unlink, DeleteLink
  <2>5. Queued' = Queued \ {i}
    BY <1>t, <2>4, RemoveAtDistinct DEF Queued
  <2>6. Phase(i)' = "free"
    BY <2>5 DEF Phase
  <2>7. ASSUME NEW j \in Items, j # i
        PROVE  Phase(j)' = Phase(j)
    <3>1. told'[j] = told[j] /\ ran'[j] = ran[j] /\ deleted'[j] = deleted[j]
      BY <1>t, <1>1, <2>0, <2>7
    <3>2. j # current /\ j # current'
      BY <1>t, <1>1, <2>2, <2>7
    <3>3. j \in Queued' <=> j \in Queued
      BY <2>5, <2>7
    <3> QED BY <3>1, <3>2, <3>3 DEF Phase
  <2>8. Contract!Move(i, "answered", "free") \/ Contract!Move(i, "refused", "free")
    BY <2>3, <2>6, <2>7, Moved
  <2> QED BY <2>8 DEF Contract!Release
<1> QED BY <1>3, <1>4

\* Every step of the queue is a step of the contract, or none.
LEMMA ContractStep ==
  KeptInv /\ KeptInv' /\ [Next]_vars =>
    \/ Contract!Next
    \/ [i \in Items |-> Phase(i)]' = [i \in Items |-> Phase(i)]
<1> SUFFICES ASSUME KeptInv, KeptInv', [Next]_vars
             PROVE  \/ Contract!Next
                    \/ [i \in Items |-> Phase(i)]' = [i \in Items |-> Phase(i)]
  OBVIOUS
<1>1. ASSUME NEW i \in Items, NEW f \in LaunchFlags, Launch(i, f)
      PROVE  Contract!Next
  BY <1>1, LaunchSubmits DEF Contract!Next
<1>2. ASSUME NEW F \in RemoveFlags, RemoveItems(F) \/ CancelRemoveItems(F)
      PROVE  Contract!Next
  BY <1>2, RemovalDrops DEF Contract!Next
<1>3. ASSUME NEW i \in Items, NEW r \in BOOLEAN, Callback(i, r)
      PROVE  Contract!Next
  BY <1>3, CallbackAnswers DEF Contract!Next
<1>4. ASSUME NEW t \in Threads, RunPlain(t) \/ StopOperation(t)
      PROVE  Contract!Next
  BY <1>4, WorkEnds DEF Contract!Next
<1>5. ASSUME NEW t \in Threads, Take(t)
      PROVE  \/ Contract!Next
             \/ [i \in Items |-> Phase(i)]' = [i \in Items |-> Phase(i)]
  BY <1>5, TakeStarts DEF Contract!Next
<1>6. ASSUME NEW t \in Threads, Unlink(t)
      PROVE  \/ Contract!Next
             \/ [i \in Items |-> Phase(i)]' = [i \in Items |-> Phase(i)]
  BY <1>6, UnlinkReleases DEF Contract!Next
<1>7. ASSUME NEW t \in Threads,
             \/ Test(t) \/ StartOperation(t) \/ Post(t) \/ AwaitCallback(t)
             \/ Park(t) \/ Resume(t) \/ Leave(t) \/ WakeSpuriously(t)
      PROVE  [i \in Items |-> Phase(i)]' = [i \in Items |-> Phase(i)]
  BY <1>7, Stutters DEF Test, StartOperation, Post, AwaitCallback, Park, Resume, Leave,
     WakeSpuriously, queueVars, itemVars, history
<1>8. CASE AppUnref \/ Destroy \/ Signal \/ UNCHANGED vars
  BY <1>8, Stutters DEF AppUnref, Destroy, Signal, vars, queueVars, itemVars, history
<1>9. CASE CancelFetch \/ OtherCancels
  BY <1>9, CancelOnly, Stutters DEF queueVars, itemVars
<1> QED BY <1>1, <1>2, <1>3, <1>4, <1>5, <1>6, <1>7, <1>8, <1>9
        DEF Next, Caller, MainLoop, WorkerStep

\* The queue keeps its contract, for any number of items, threads and flags: each
\* item is run once and then answered, or dropped before it ran and then refused,
\* one at a time, if the wait for the callback only returns when it is signalled.
THEOREM QueueImplementsContract ==
  ASSUME "callback" \notin SpuriousWaits
  PROVE  Spec => KeepsContract
<1>1. Init => Contract!Init /\ DataInv /\ CancelInv /\ PhaseInv
  BY DEF Init, Contract!Init, Phase, Queued, ToSet, DataInv, CancelInv, PhaseInv,
     Awaiting, Answering, OnStage, CancelHitsTarget, Slot
<1>2. WorkerInv /\ WorkerInv' /\ DataInv /\ CancelInv /\ PhaseInv /\ [Next]_vars =>
        DataInv' /\ CancelInv' /\ PhaseInv'
  BY DataStep, CancelStep, PhaseStep DEF KeptInv
<1>3. Spec => [](WorkerInv /\ DataInv /\ CancelInv /\ PhaseInv)
  BY <1>1, <1>2, WorkerInvariant, PTL DEF Spec
<1>4. KeptInv /\ KeptInv' /\ [Next]_vars => [Contract!Next]_([i \in Items |-> Phase(i)])
  BY ContractStep
<1>5. WorkerInv /\ DataInv /\ CancelInv /\ PhaseInv <=> KeptInv
  BY DEF KeptInv
<1> QED BY <1>1, <1>3, <1>4, <1>5, PTL DEF Spec, KeepsContract, Contract!Spec
=============================================================================
