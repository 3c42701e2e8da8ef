------------------------ MODULE TnyCamelQueueProofs ------------------------
(***************************************************************************)
(* Proofs about TnyCamelQueue, for every set of items and threads and      *)
(* whatever flags the callers use.                                         *)
(***************************************************************************)
EXTENDS TnyCamelQueue, SequenceTheorems, TLAPS

----------------------------------------------------------------------------
(* The two list operations of the queue.                                   *)

\* Inserting after n elements keeps the others in order (g_list_insert).
LEMMA InsertAtElements ==
  ASSUME NEW S, NEW s \in Seq(S), NEW n \in 0..Len(s), NEW e \in S
  PROVE  /\ InsertAt(s, n + 1, e) \in Seq(S)
         /\ Len(InsertAt(s, n + 1, e)) = Len(s) + 1
         /\ \A k \in 1..(Len(s) + 1) :
              InsertAt(s, n + 1, e)[k] = IF k <= n THEN s[k]
                                         ELSE IF k = n + 1 THEN e ELSE s[k - 1]
<1> DEFINE front == SubSeq(s, 1, n)
           back  == SubSeq(s, n + 1, Len(s))
<1>0. (n + 1) - 1 = n
  OBVIOUS
<1>1. InsertAt(s, n + 1, e) = (front \o <<e>>) \o back
  BY <1>0, Zenon DEF InsertAt
<1>2. /\ front \in Seq(S) /\ Len(front) = n
      /\ \A k \in 1..n : front[k] = s[k]
  OBVIOUS
<1>3. /\ back \in Seq(S) /\ Len(back) = Len(s) - n
      /\ \A k \in 1..(Len(s) - n) : back[k] = s[n + k]
  OBVIOUS
<1> HIDE DEF front, back
<1>4. /\ front \o <<e>> \in Seq(S) /\ Len(front \o <<e>>) = n + 1
      /\ \A k \in 1..(n + 1) :
           (front \o <<e>>)[k] = IF k <= n THEN s[k] ELSE e
  BY <1>2
<1> DEFINE r == (front \o <<e>>) \o back
<1>5. /\ r \in Seq(S) /\ Len(r) = Len(s) + 1
      /\ \A k \in 1..(n + 1) : r[k] = (front \o <<e>>)[k]
      /\ \A k \in 1..(Len(s) - n) : r[n + 1 + k] = back[k]
  BY <1>3, <1>4
<1> HIDE DEF r
<1>6. ASSUME NEW k \in 1..(Len(s) + 1)
      PROVE  r[k] = IF k <= n THEN s[k] ELSE IF k = n + 1 THEN e ELSE s[k - 1]
  <2>1. CASE k <= n + 1
    BY <1>4, <1>5, <2>1
  <2>2. CASE k > n + 1
    <3>1. PICK j \in 1..(Len(s) - n) : k = n + 1 + j
      BY <2>2
    <3>2. r[k] = s[n + j]
      BY <1>3, <1>5, <3>1
    <3>3. n + j = k - 1 /\ ~(k <= n) /\ k # n + 1
      BY <3>1
    <3> QED BY <3>2, <3>3, Zenon
  <2>3. k <= n + 1 \/ k > n + 1
    OBVIOUS
  <2> QED BY <2>1, <2>2, <2>3, Zenon
<1>7. InsertAt(s, n + 1, e) = r
  BY <1>1 DEF r
<1> QED BY <1>5, <1>6, <1>7, Zenon

\* Removing one position keeps the others in order (g_list_delete_link).
LEMMA RemoveAtElements ==
  ASSUME NEW S, NEW s \in Seq(S), NEW n \in 1..Len(s)
  PROVE  /\ RemoveAt(s, n) \in Seq(S)
         /\ Len(RemoveAt(s, n)) = Len(s) - 1
         /\ \A k \in 1..(Len(s) - 1) :
              RemoveAt(s, n)[k] = IF k < n THEN s[k] ELSE s[k + 1]
<1> DEFINE front == SubSeq(s, 1, n - 1)
           back  == SubSeq(s, n + 1, Len(s))
<1>1. RemoveAt(s, n) = front \o back
  BY DEF RemoveAt
<1>2. /\ front \in Seq(S) /\ Len(front) = n - 1
      /\ \A k \in 1..(n - 1) : front[k] = s[k]
  OBVIOUS
<1>3. /\ back \in Seq(S) /\ Len(back) = Len(s) - n
      /\ \A k \in 1..(Len(s) - n) : back[k] = s[n + k]
  OBVIOUS
<1> HIDE DEF front, back
<1> DEFINE r == front \o back
<1>4. /\ r \in Seq(S) /\ Len(r) = Len(s) - 1
      /\ \A k \in 1..(n - 1) : r[k] = front[k]
      /\ \A k \in 1..(Len(s) - n) : r[n - 1 + k] = back[k]
  <2>1. /\ r \in Seq(S) /\ Len(r) = Len(front) + Len(back)
        /\ \A k \in 1..(Len(front) + Len(back)) :
             r[k] = IF k <= Len(front) THEN front[k] ELSE back[k - Len(front)]
    BY <1>2, <1>3, ConcatProperties
  <2> HIDE DEF r
  <2>2. Len(r) = Len(s) - 1
    BY <1>2, <1>3, <2>1
  <2>3. \A k \in 1..(n - 1) : r[k] = front[k]
    BY <1>2, <1>3, <2>1
  <2>4. ASSUME NEW k \in 1..(Len(s) - n)
        PROVE  r[n - 1 + k] = back[k]
    <3>1. n - 1 + k \in 1..(Len(front) + Len(back)) /\ ~(n - 1 + k <= Len(front))
      BY <1>2, <1>3
    <3>2. (n - 1 + k) - Len(front) = k
      BY <1>2
    <3> QED BY <2>1, <3>1, <3>2
  <2> QED BY <2>1, <2>2, <2>3, <2>4
<1> HIDE DEF r
<1>5. ASSUME NEW k \in 1..(Len(s) - 1)
      PROVE  r[k] = IF k < n THEN s[k] ELSE s[k + 1]
  <2>1. CASE k < n
    BY <1>2, <1>4, <2>1
  <2>2. CASE k >= n
    <3>1. PICK j \in 1..(Len(s) - n) : k = n - 1 + j
      BY <2>2
    <3>2. r[k] = s[n + j]
      BY <1>3, <1>4, <3>1
    <3>3. n + j = k + 1 /\ ~(k < n)
      BY <3>1
    <3> QED BY <3>2, <3>3, Zenon
  <2>3. k < n \/ k >= n
    OBVIOUS
  <2> QED BY <2>1, <2>2, <2>3, Zenon
<1>6. RemoveAt(s, n) = r
  BY <1>1 DEF r
<1> QED BY <1>4, <1>5, <1>6, Zenon

\* A launch adds its item to the queued ones.
LEMMA InsertAtSet ==
  ASSUME NEW S, NEW s \in Seq(S), NEW n \in 0..Len(s), NEW e \in S
  PROVE  ToSet(InsertAt(s, n + 1, e)) = ToSet(s) \cup {e}
<1> DEFINE r == InsertAt(s, n + 1, e)
<1>1. /\ r \in Seq(S) /\ Len(r) = Len(s) + 1
      /\ \A k \in 1..(Len(s) + 1) :
           r[k] = IF k <= n THEN s[k] ELSE IF k = n + 1 THEN e ELSE s[k - 1]
  BY InsertAtElements
<1> HIDE DEF r
<1>2. DOMAIN r = 1..(Len(s) + 1) /\ DOMAIN s = 1..Len(s)
  BY <1>1
<1>3. r[n + 1] = e
  BY <1>1
<1>4. \A k \in 1..Len(s) : s[k] = r[IF k <= n THEN k ELSE k + 1]
  BY <1>1
<1>5. ToSet(s) \cup {e} \subseteq ToSet(r)
  BY <1>2, <1>3, <1>4 DEF ToSet
<1>6. ToSet(r) \subseteq ToSet(s) \cup {e}
  BY <1>1, <1>2 DEF ToSet
<1> QED BY <1>5, <1>6 DEF r
----------------------------------------------------------------------------
(* The inductive invariant.                                                *)

Distinct(s) == \A m, n \in 1..Len(s) : s[m] = s[n] => m = n

\* The worker of i waits for its callback, or has seen it finished.
Answering(i) == \E t \in Threads : job[t] = i /\ pc[t] \in {"await", "unlink"}

\* A worker between Take and its callback has an item.
StageInv == \A t \in Threads :
              pc[t] \in {"enter", "work", "post", "await"} => job[t] \in Items

\* A worker runs with stopped set only once the account is gone.
StopInv == \A t \in Threads :
             /\ pc[t] # "none" /\ stopped => ~account
             /\ pc[t] = "leave" => ~account

\* The account lives as long as somebody refers to it, and the main loop only
\* touches items that do.
RefInv ==
  /\ account = (appRef \/ refs # {})
  /\ mainPc = "destroy" => mainItem \in refs
  /\ \A s \in sources : s[1] \in refs
  /\ \A r, s \in sources : r[1] = s[1] => r = s
  /\ mainPc = "destroy" => \A s \in sources : s[1] # mainItem

\* An item of the list has not lost its reference, except the one whose
\* callback the worker is waiting for, and only that one is with the main loop.
ListInv ==
  /\ Distinct(list)
  /\ \A i \in Queued : i \in refs \/ Answering(i)
  /\ \A s \in sources : s[1] \in Queued => Answering(s[1])
  /\ mainPc = "destroy" /\ mainItem \in Queued => Answering(mainItem)
  /\ \A t \in Threads : pc[t] \in {"enter", "work", "post"} => job[t] \in Queued

WorkerInv == TypeOK /\ StageInv /\ OneWorker /\ StopInv /\ RefInv /\ ListInv

----------------------------------------------------------------------------
(* Types.                                                                  *)

LEMMA InitInv == Init => WorkerInv
<1> SUFFICES ASSUME Init PROVE WorkerInv
  OBVIOUS
<1> USE DEF Init
<1>1. Queued = {} /\ Distinct(list) /\ list \in Seq(Items)
  BY DEF Queued, ToSet, Distinct
<1>2. TypeOK
  BY <1>1 DEF TypeOK, WorkerPc
<1>3. StageInv /\ OneWorker /\ StopInv /\ RefInv
  BY DEF StageInv, OneWorker, StopInv, RefInv
<1>4. ListInv
  BY <1>1 DEF ListInv
<1> QED BY <1>2, <1>3, <1>4 DEF WorkerInv

\* A launch and an unlink leave a list of items.
LEMMA ListType ==
  ASSUME TypeOK
  PROVE  /\ \A i \in Items, n \in 0..Len(list) :
              InsertAt(list, n + 1, i) \in Seq(Items)
         /\ \A i : DeleteLink(i) => list' \in Seq(Items)
  BY InsertAtElements, RemoveAtElements DEF TypeOK, DeleteLink

\* A broadcast only moves a sleeping worker.
LEMMA BroadcastPc ==
  ASSUME TypeOK, Broadcast
  PROVE  /\ pc' \in [Threads -> WorkerPc]
         /\ \A t \in Threads : \/ pc'[t] = pc[t]
                               \/ pc[t] = "asleep" /\ pc'[t] = "woken"
<1>1. pc \in [Threads -> WorkerPc]
  BY DEF TypeOK
<1>2. CASE pc' = pc
  BY <1>1, <1>2
<1>3. CASE pc' = [t \in Threads |->
                    IF pc[t] = "asleep" THEN "woken" ELSE pc[t]]
  BY <1>1, <1>3 DEF WorkerPc
<1> QED BY <1>2, <1>3, Zenon DEF Broadcast

\* A cancel touches the operations and the record of the cancels, and no more.
LEMMA CancelOnly ==
  ASSUME CancelFetch \/ OtherCancels
  PROVE  UNCHANGED <<queueVars, itemVars, workerVars, account, appRef, refs,
                     can_idle, mainVars, ran, told>>
BY DEF CancelFetch, OtherCancels

LEMMA CancelledType ==
  ASSUME TypeOK, NEW S
  PROVE  Cancelled(S) \in [Slot -> {"none", "live", "cancelled"}]
BY DEF TypeOK, Cancelled

LEMMA AimType ==
  ASSUME TypeOK, NEW how \in {"before", "after", "other"}, Aim(how)
  PROVE  aimed' \in [Items -> SUBSET {"before", "after", "other"}]
BY DEF TypeOK, Aim

\* Every step keeps the types, and the items the worker has on its stage.
LEMMA TypeStep == TypeOK /\ StageInv /\ [Next]_vars => TypeOK' /\ StageInv'
<1> SUFFICES ASSUME TypeOK, StageInv, [Next]_vars
             PROVE  TypeOK' /\ StageInv'
  OBVIOUS
<1> USE DEF TypeOK, StageInv, WorkerPc
<1>1. ASSUME NEW i \in Items, NEW f \in LaunchFlags, Launch(i, f)
      PROVE  TypeOK' /\ StageInv'
  <2>1. list' \in Seq(Items)
    BY <1>1, ListType DEF Launch
  <2>2. /\ pc' \in [Threads -> WorkerPc] /\ stopped' \in BOOLEAN
        /\ \A t \in Threads : pc'[t] \in {"enter", "work", "post", "await"}
                                => pc'[t] = pc[t]
    <3>1. CASE StartWorker
      BY <3>1 DEF StartWorker
    <3>2. CASE Broadcast /\ UNCHANGED stopped
      BY <3>2, BroadcastPc
    <3> QED BY <1>1, <3>1, <3>2 DEF Launch
  <2>3. flags' \in [Items -> SUBSET Flag]
    BY <1>1, QueueAssumption DEF Launch
  <2>4. can_idle' \in BOOLEAN
    BY <1>1 DEF Launch, CanIdle
  <2> QED BY <1>1, <2>1, <2>2, <2>3, <2>4 DEF Launch, mainVars, history
<1>2. ASSUME NEW F \in RemoveFlags, RemoveItems(F)
      PROVE  TypeOK' /\ StageInv'
  BY <1>2 DEF RemoveItems, MarkRemoved, queueVars, workerVars, accountVars,
              mainVars, history
<1>3. ASSUME NEW F \in RemoveFlags, CancelRemoveItems(F)
      PROVE  TypeOK' /\ StageInv'
  <2>1. deleted' \in [Items -> BOOLEAN]
    BY <1>3 DEF CancelRemoveItems, MarkRemoved
  <2>2. op' \in [Slot -> {"none", "live", "cancelled"}] /\ next_uncancel' \in BOOLEAN
    <3>1. /\ op' = Cancelled(Slot) \/ op' = op
          /\ next_uncancel' = TRUE \/ next_uncancel' = next_uncancel
      BY <1>3 DEF CancelRemoveItems
    <3>2. op' = Cancelled(Slot) => op' \in [Slot -> {"none", "live", "cancelled"}]
      BY CancelledType
    <3> QED BY <3>1, <3>2
  <2>3. aimed' \in [Items -> SUBSET {"before", "after", "other"}]
    BY <1>3, AimType DEF CancelRemoveItems, Stage
  <2> QED BY <1>3, <2>1, <2>2, <2>3
          DEF CancelRemoveItems, workerVars, mainVars
<1>4. ASSUME NEW a \in BOOLEAN, NEW h \in SUBSET Items, DropRef(a, h)
      PROVE  /\ account' \in BOOLEAN /\ stopped' \in BOOLEAN
             /\ appRef' \in BOOLEAN /\ refs' \subseteq Items
             /\ pc' \in [Threads -> WorkerPc]
             /\ \A t \in Threads : pc'[t] \in {"enter", "work", "post", "await"}
                                     => pc'[t] = pc[t]
  BY <1>4, BroadcastPc DEF DropRef, AccountFinalized
<1>5. CASE AppUnref
  BY <1>4, <1>5 DEF AppUnref, itemVars, mainVars, history
<1>11. CASE CancelFetch \/ OtherCancels
  <2>1. op' \in [Slot -> {"none", "live", "cancelled"}]
    BY <1>11, CancelledType DEF CancelFetch, OtherCancels
  <2>2. aimed' \in [Items -> SUBSET {"before", "after", "other"}]
    BY <1>11, AimType DEF CancelFetch, OtherCancels, Stage
  <2> QED BY <1>11, <2>1, <2>2, CancelOnly DEF queueVars, itemVars, workerVars, mainVars
<1>6. ASSUME NEW t \in Threads, WorkerStep(t) \/ WakeSpuriously(t)
      PROVE  TypeOK' /\ StageInv'
  <2> USE DEF Goto, queueVars, itemVars, accountVars, mainVars, history
  <2>1. CASE Test(t)
    BY <2>1 DEF Test
  <2>2. CASE Take(t)
    <3>1. list # <<>> => Head(list) \in Items
      OBVIOUS
    <3>2. can_idle' \in BOOLEAN
      BY <2>2 DEF Take, CanIdle
    <3> QED BY <2>2, <3>1, <3>2 DEF Take, AfterTake
  <2>3. CASE StartOperation(t)
    BY <2>3 DEF StartOperation
  <2>4. CASE RunPlain(t)
    BY <2>4 DEF RunPlain
  <2>5. CASE StopOperation(t)
    BY <2>5 DEF StopOperation
  <2>6. CASE Post(t)
    BY <2>6 DEF Post
  <2>7. CASE AwaitCallback(t)
    BY <2>7 DEF AwaitCallback
  <2>8. CASE Unlink(t)
    <3>1. list' \in Seq(Items)
      BY <2>8, ListType DEF Unlink
    <3>2. wait' \in [Threads -> BOOLEAN]
      BY <2>8 DEF Unlink, NothingLeft
    <3>3. /\ pc' \in [Threads -> WorkerPc]
          /\ pc'[t] \in {"park", "test"}
          /\ \A u \in Threads : u # t => pc'[u] = pc[u]
      BY <2>8 DEF Unlink
    <3> QED BY <2>8, <3>1, <3>2, <3>3 DEF Unlink
  <2>9. CASE Park(t)
    BY <2>9 DEF Park
  <2>10. CASE Resume(t)
    BY <2>10 DEF Resume
  <2>11. CASE Leave(t)
    BY <2>11 DEF Leave
  <2>12. CASE WakeSpuriously(t)
    BY <2>12 DEF WakeSpuriously
  <2> QED BY <1>6, <2>1, <2>2, <2>3, <2>4, <2>5, <2>6, <2>7, <2>8, <2>9,
             <2>10, <2>11, <2>12 DEF WorkerStep
<1>7. ASSUME NEW i \in Items, NEW r \in BOOLEAN, Callback(i, r)
      PROVE  TypeOK' /\ StageInv'
  BY <1>7 DEF Callback, queueVars, itemVars, workerVars, accountVars
<1>8. CASE Destroy
  BY <1>4, <1>8 DEF Destroy, itemVars, history
<1>9. CASE Signal
  BY <1>9 DEF Signal, queueVars, itemVars, workerVars, accountVars, history
<1>10. CASE UNCHANGED vars
  BY <1>10 DEF vars, queueVars, itemVars, workerVars, accountVars, mainVars,
               history
<1> QED BY <1>1, <1>2, <1>3, <1>5, <1>6, <1>7, <1>8, <1>9, <1>10, <1>11
        DEF Next, Caller, MainLoop

\* Every variable keeps its type, whatever the items, threads and flags.
THEOREM TypeCorrect == Spec => []TypeOK
<1>1. Init => TypeOK /\ StageInv
  BY InitInv DEF WorkerInv
<1> QED BY <1>1, TypeStep, PTL DEF Spec

----------------------------------------------------------------------------
(* One worker.                                                             *)

\* Whatever a worker does, it moves itself, and leaves the account alone.
LEMMA WorkerMoves ==
  ASSUME TypeOK, NEW t \in Threads, WorkerStep(t) \/ WakeSpuriously(t)
  PROVE  /\ pc[t] # "none"
         /\ \A u \in Threads : u # t => pc'[u] = pc[u]
         /\ UNCHANGED <<account, appRef, refs, mainPc, mainItem>>
         /\ \/ stopped' = stopped
            \/ pc[t] = "leave" /\ pc'[t] = "none"
         /\ pc'[t] = "leave" => stopped
<1>1. pc \in [Threads -> WorkerPc]
  BY DEF TypeOK
<1> USE <1>1 DEF Goto, queueVars, accountVars, mainVars
<1>2. CASE Test(t)
  BY <1>2 DEF Test
<1>3. CASE Take(t)
  BY <1>3 DEF Take, AfterTake
<1>4. CASE StartOperation(t) \/ RunPlain(t) \/ StopOperation(t)
  BY <1>4 DEF StartOperation, RunPlain, StopOperation
<1>5. CASE Post(t) \/ AwaitCallback(t)
  BY <1>5 DEF Post, AwaitCallback
<1>6. CASE Unlink(t)
  <2>1. pc'[t] \in {"park", "test"}
    BY <1>6 DEF Unlink
  <2> QED BY <1>6, <2>1 DEF Unlink
<1>7. CASE Park(t) \/ Resume(t) \/ WakeSpuriously(t)
  BY <1>7 DEF Park, Resume, WakeSpuriously
<1>8. CASE Leave(t)
  BY <1>8 DEF Leave
<1> QED BY <1>2, <1>3, <1>4, <1>5, <1>6, <1>7, <1>8 DEF WorkerStep

\* The last reference takes the account along, and nothing else does.
LEMMA DropRefAccount ==
  ASSUME TypeOK, NEW a \in BOOLEAN, NEW h \in SUBSET Items, DropRef(a, h),
         account = (appRef \/ refs # {}), a => appRef, h \subseteq refs
  PROVE  /\ account' = (appRef' \/ refs' # {})
         /\ account' => account /\ stopped' = stopped
         /\ \A t \in Threads : \/ pc'[t] = pc[t]
                               \/ pc[t] = "asleep" /\ pc'[t] = "woken"
<1>1. CASE account /\ ~a /\ h = {}
  BY <1>1, BroadcastPc DEF DropRef, AccountFinalized
<1>2. CASE ~(account /\ ~a /\ h = {})
  BY <1>2 DEF DropRef, TypeOK
<1> QED BY <1>1, <1>2

\* A second worker is never started, and a worker only runs with stopped set
\* when the account is gone.
LEMMA OneWorkerStep ==
  TypeOK /\ OneWorker /\ StopInv /\ RefInv /\ [Next]_vars
    => OneWorker' /\ StopInv'
<1> SUFFICES ASSUME TypeOK, OneWorker, StopInv, RefInv, [Next]_vars
             PROVE  OneWorker' /\ StopInv'
  OBVIOUS
<1>a. pc \in [Threads -> WorkerPc]
  BY DEF TypeOK
<1> USE DEF OneWorker, StopInv
\* A step that wakes a sleeper at most.
<1>b. ASSUME \A t \in Threads : \/ pc'[t] = pc[t]
                                \/ pc[t] = "asleep" /\ pc'[t] = "woken",
             account' => account /\ stopped' = stopped
      PROVE  OneWorker' /\ StopInv'
  BY <1>b
<1>1. ASSUME NEW i \in Items, NEW f \in LaunchFlags, Launch(i, f)
      PROVE  OneWorker' /\ StopInv'
  <2>1. account /\ account'
    BY <1>1 DEF Launch, HoldsAccount, RefInv
  <2>2. CASE StartWorker /\ stopped
    <3>1. \A t \in Threads : pc[t] = "none"
      BY <2>1, <2>2
    <3>2. CASE UNCHANGED <<pc, stopped>>
      BY <2>1, <3>1, <3>2
    <3>3. ASSUME NEW t \in Threads, pc' = [pc EXCEPT ![t] = "test"],
                 stopped' = FALSE
          PROVE  OneWorker' /\ StopInv'
      BY <1>a, <3>1, <3>3
    <3> QED BY <2>2, <3>2, <3>3 DEF StartWorker
  <2>3. CASE Broadcast /\ UNCHANGED stopped
    BY <1>b, <2>1, <2>3, BroadcastPc
  <2> QED BY <1>1, <2>2, <2>3 DEF Launch
<1>2. ASSUME NEW F \in RemoveFlags, RemoveItems(F) \/ CancelRemoveItems(F)
      PROVE  OneWorker' /\ StopInv'
  BY <1>2 DEF RemoveItems, CancelRemoveItems, queueVars, workerVars, accountVars
<1>3. CASE AppUnref
  BY <1>b, <1>3, DropRefAccount DEF AppUnref, RefInv, TypeOK
<1>8. CASE CancelFetch \/ OtherCancels
  BY <1>8, CancelOnly DEF queueVars, workerVars
<1>4. ASSUME NEW t \in Threads, WorkerStep(t) \/ WakeSpuriously(t)
      PROVE  OneWorker' /\ StopInv'
  BY <1>4, WorkerMoves
<1>5. ASSUME NEW i \in Items, NEW r \in BOOLEAN, Callback(i, r)
      PROVE  OneWorker' /\ StopInv'
  BY <1>5 DEF Callback, queueVars, workerVars, accountVars
<1>6. CASE Destroy
  BY <1>b, <1>6, DropRefAccount DEF Destroy, RefInv, TypeOK
<1>7. CASE Signal \/ UNCHANGED vars
  BY <1>7 DEF Signal, vars, queueVars, workerVars, accountVars
<1> QED BY <1>1, <1>2, <1>3, <1>4, <1>5, <1>6, <1>7, <1>8 DEF Next, Caller, MainLoop

----------------------------------------------------------------------------
(* The list, the references and the main loop.                             *)

\* A launch of an item that is not queued keeps the queued items distinct.
LEMMA InsertAtDistinct ==
  ASSUME NEW S, NEW s \in Seq(S), NEW n \in 0..Len(s), NEW e \in S
  PROVE  Distinct(s) /\ e \notin ToSet(s) => Distinct(InsertAt(s, n + 1, e))
<1> DEFINE r == InsertAt(s, n + 1, e)
<1>1. /\ r \in Seq(S) /\ Len(r) = Len(s) + 1
      /\ \A k \in 1..(Len(s) + 1) :
           r[k] = IF k <= n THEN s[k] ELSE IF k = n + 1 THEN e ELSE s[k - 1]
  BY InsertAtElements
<1> HIDE DEF r
<1> SUFFICES ASSUME Distinct(s), e \notin ToSet(s)
             PROVE  Distinct(r)
  BY DEF r
<1> DEFINE old(k) == IF k <= n THEN k ELSE k - 1
<1>2. \A k \in 1..Len(s) : s[k] # e
  BY DEF ToSet
<1>3. ASSUME NEW k \in 1..(Len(s) + 1), NEW l \in 1..(Len(s) + 1), r[k] = r[l]
      PROVE  k = l
  <2>0. ASSUME NEW x \in 1..(Len(s) + 1), x # n + 1
        PROVE  r[x] # e
    <3>1. old(x) \in 1..Len(s) /\ r[x] = s[old(x)]
      BY <1>1, <2>0
    <3> QED BY <1>2, <3>1
  <2>1. CASE k = n + 1 \/ l = n + 1
    <3>1. r[n + 1] = e
      BY <1>1
    <3> QED BY <1>3, <2>0, <2>1, <3>1
  <2>2. CASE k # n + 1 /\ l # n + 1
    <3>1. /\ old(k) \in 1..Len(s) /\ r[k] = s[old(k)]
          /\ old(l) \in 1..Len(s) /\ r[l] = s[old(l)]
      <4>1. old(k) \in 1..Len(s) /\ r[k] = s[old(k)]
        BY <1>1, <2>2
      <4>2. old(l) \in 1..Len(s) /\ r[l] = s[old(l)]
        BY <1>1, <2>2
      <4> QED BY <4>1, <4>2
    <3>2. old(k) = old(l)
      BY <1>3, <3>1 DEF Distinct
    <3> QED BY <2>2, <3>2
  <2> QED BY <2>1, <2>2
<1> QED BY <1>1, <1>3 DEF Distinct

\* Unlinking an item takes exactly that item off the queue.
LEMMA RemoveAtDistinct ==
  ASSUME NEW S, NEW s \in Seq(S), NEW n \in 1..Len(s)
  PROVE  Distinct(s) => /\ Distinct(RemoveAt(s, n))
                        /\ ToSet(RemoveAt(s, n)) = ToSet(s) \ {s[n]}
<1> DEFINE r == RemoveAt(s, n)
<1>1. /\ r \in Seq(S) /\ Len(r) = Len(s) - 1
      /\ \A k \in 1..(Len(s) - 1) : r[k] = IF k < n THEN s[k] ELSE s[k + 1]
  BY RemoveAtElements
<1> HIDE DEF r
<1> SUFFICES ASSUME Distinct(s)
             PROVE  Distinct(r) /\ ToSet(r) = ToSet(s) \ {s[n]}
  BY DEF r
<1> DEFINE old(k) == IF k < n THEN k ELSE k + 1
<1>2. \A k \in 1..(Len(s) - 1) :
        old(k) \in 1..Len(s) /\ old(k) # n /\ r[k] = s[old(k)]
  BY <1>1
<1>3. Distinct(r)
  <2> SUFFICES ASSUME NEW k \in 1..(Len(s) - 1), NEW l \in 1..(Len(s) - 1),
                      r[k] = r[l]
               PROVE  k = l
    BY <1>1 DEF Distinct
  <2>1. old(k) = old(l)
    BY <1>2 DEF Distinct
  <2> QED BY <2>1
<1>4. DOMAIN r = 1..(Len(s) - 1) /\ DOMAIN s = 1..Len(s)
  BY <1>1
<1>5. ToSet(r) \subseteq ToSet(s) \ {s[n]}
  BY <1>2, <1>4 DEF ToSet, Distinct
<1>6. ASSUME NEW l \in 1..Len(s), l # n
      PROVE  s[l] \in ToSet(r)
  <2>1. CASE l < n
    <3>1. l \in 1..(Len(s) - 1) /\ r[l] = s[l]
      BY <1>1, <2>1
    <3> QED BY <1>4, <3>1 DEF ToSet
  <2>2. CASE l > n
    <3>1. l - 1 \in 1..(Len(s) - 1) /\ r[l - 1] = s[l]
      BY <1>1, <2>2
    <3> QED BY <1>4, <3>1 DEF ToSet
  <2> QED BY <1>6, <2>1, <2>2
<1>7. ToSet(s) \ {s[n]} \subseteq ToSet(r)
  BY <1>4, <1>6 DEF ToSet
<1> QED BY <1>3, <1>5, <1>7

\* The item the worker carries from Take to Post is queued and referenced, and
\* the main loop does not know it yet.
LEMMA Carried ==
  ASSUME WorkerInv, NEW t \in Threads, pc[t] \in {"enter", "work", "post"}
  PROVE  /\ job[t] \in Queued \cap refs
         /\ \A s \in sources : s[1] # job[t]
         /\ mainPc = "destroy" => mainItem # job[t]
<1>1. ~Answering(job[t])
  BY DEF Answering, WorkerInv, OneWorker
<1> QED BY <1>1 DEF WorkerInv, ListInv

\* Steps that keep the list and the main loop, and lose no answer.
LEMMA ListFrame ==
  ASSUME ListInv, UNCHANGED <<list, job, sources, mainPc, mainItem, refs>>,
         \A t \in Threads :
           /\ pc[t] \in {"await", "unlink"} => pc'[t] \in {"await", "unlink"}
           /\ pc'[t] \in {"enter", "work", "post"} =>
                pc[t] \in {"enter", "work", "post"}
  PROVE  ListInv'
  BY DEF ListInv, Queued, Answering

\* The launch of a fresh item.
LEMMA LaunchStep ==
  ASSUME WorkerInv, NEW i \in Items, NEW f \in LaunchFlags, Launch(i, f)
  PROVE  RefInv' /\ ListInv'
<1> USE DEF WorkerInv
<1>1. account
  BY DEF Launch, HoldsAccount, RefInv
<1>2. /\ i \notin Queued /\ i # mainItem /\ i \notin refs
      /\ \A s \in sources : s[1] # i
  BY DEF Launch, Fresh
<1>3. RefInv'
  BY <1>1, <1>2 DEF RefInv, Launch, mainVars
<1>4. PICK n \in 0..Len(list) : list' = InsertAt(list, n + 1, i)
  BY DEF Launch
<1>5. Queued' = Queued \cup {i} /\ Distinct(list')
  BY <1>2, <1>4, InsertAtSet, InsertAtDistinct DEF Queued, TypeOK, ListInv
<1>6. \A t \in Threads : /\ pc[t] \in {"await", "unlink"} => pc'[t] = pc[t]
                         /\ pc'[t] \in {"enter", "work", "post"} => pc'[t] = pc[t]
  <2>1. CASE StartWorker
    BY <2>1 DEF StartWorker, TypeOK
  <2>2. CASE Broadcast
    BY <2>2, BroadcastPc
  <2> QED BY <2>1, <2>2 DEF Launch
<1>7. \A j : Answering(j) => Answering(j)'
  BY <1>6 DEF Answering, Launch
<1> QED BY <1>2, <1>3, <1>5, <1>6, <1>7 DEF ListInv, Launch, mainVars

\* The second critical section of the worker: its item leaves the list, and
\* all the others still have their references.
LEMMA UnlinkStep ==
  ASSUME WorkerInv, NEW t \in Threads, Unlink(t)
  PROVE  RefInv' /\ ListInv'
<1> USE DEF WorkerInv
<1>1. RefInv'
  BY DEF Unlink, RefInv, accountVars, mainVars
<1>2. Distinct(list') /\ Queued' = Queued \ {job[t]}
  <2>1. CASE job[t] = NoItem
    BY <2>1, QueueAssumption DEF Unlink, DeleteLink, Queued, ToSet, ListInv, TypeOK
  <2>2. CASE job[t] # NoItem
    <3>1. PICK n \in 1..Len(list) : list[n] = job[t] /\ list' = RemoveAt(list, n)
      BY <2>2 DEF Unlink, DeleteLink
    <3> QED BY <3>1, RemoveAtDistinct DEF Queued, TypeOK, ListInv
  <2> QED BY <2>1, <2>2
<1>3. \A u \in Threads : u # t => pc[u] = "none" /\ pc'[u] = "none"
  BY DEF Unlink, OneWorker, TypeOK
<1>4. pc'[t] \in {"park", "test"}
  BY DEF Unlink, TypeOK
<1>5. \A j : Answering(j) => j = job[t]
  BY <1>3 DEF Answering
<1>6. \A u \in Threads : pc'[u] \notin {"enter", "work", "post"}
  BY <1>3, <1>4
<1> QED BY <1>1, <1>2, <1>5, <1>6 DEF ListInv, Unlink, accountVars, mainVars

\* Every step keeps the references and the list in order.
LEMMA ListStep == WorkerInv /\ [Next]_vars => RefInv' /\ ListInv'
<1> SUFFICES ASSUME WorkerInv, [Next]_vars PROVE RefInv' /\ ListInv'
  OBVIOUS
<1> USE DEF WorkerInv
<1>a. pc \in [Threads -> WorkerPc] /\ job \in [Threads -> Items \cup {NoItem}]
  BY DEF TypeOK
<1>b. RefInv /\ ListInv
  OBVIOUS
<1>1. ASSUME NEW F \in RemoveFlags, RemoveItems(F) \/ CancelRemoveItems(F)
      PROVE  RefInv' /\ ListInv'
  <2>1. RefInv'
    BY <1>1 DEF RefInv, RemoveItems, CancelRemoveItems, accountVars, mainVars
  <2>2. UNCHANGED <<list, job, sources, mainPc, mainItem, refs, pc>>
    BY <1>1 DEF RemoveItems, CancelRemoveItems, queueVars, workerVars,
                accountVars, mainVars
  <2> QED BY <1>b, <2>1, <2>2, ListFrame
<1>9. CASE CancelFetch \/ OtherCancels
  <2>1. UNCHANGED <<list, job, sources, mainPc, mainItem, refs, pc, account, appRef>>
    BY <1>9, CancelOnly DEF queueVars, workerVars, mainVars
  <2>2. RefInv'
    BY <2>1 DEF RefInv
  <2> QED BY <1>b, <2>1, <2>2, ListFrame
<1>2. CASE AppUnref
  <2>1. /\ account' = (appRef' \/ refs' # {})
        /\ \A t \in Threads : \/ pc'[t] = pc[t]
                              \/ pc[t] = "asleep" /\ pc'[t] = "woken"
    BY <1>2, DropRefAccount DEF AppUnref, RefInv, TypeOK
  <2>2. UNCHANGED <<list, job, sources, mainPc, mainItem, refs>>
    BY <1>2 DEF AppUnref, DropRef, mainVars
  <2>3. RefInv'
    BY <2>1, <2>2 DEF RefInv
  <2> QED BY <1>b, <2>1, <2>2, <2>3, ListFrame
<1>3. ASSUME NEW t \in Threads, WorkerStep(t) \/ WakeSpuriously(t)
      PROVE  RefInv' /\ ListInv'
  <2> USE DEF Goto
  <2>1. ASSUME UNCHANGED sources PROVE RefInv'
    BY <1>3, <2>1, WorkerMoves DEF RefInv
  <2>2. CASE Test(t) \/ Park(t) \/ Resume(t) \/ Leave(t) \/ WakeSpuriously(t)
    <3>1. UNCHANGED <<list, job, sources, mainPc, mainItem, refs>>
      BY <2>2 DEF Test, Park, Resume, Leave, WakeSpuriously, queueVars,
                  accountVars, mainVars
    <3>2. /\ pc[t] \in {"test", "park", "woken", "leave", "asleep"}
          /\ pc'[t] \in {"take", "leave", "asleep", "test", "none", "woken"}
          /\ \A u \in Threads : u # t => pc'[u] = pc[u]
      BY <1>a, <2>2 DEF Test, Park, Resume, Leave, WakeSpuriously
    <3> QED BY <1>b, <2>1, <3>1, <3>2, ListFrame
  <2>3. CASE StartOperation(t) \/ RunPlain(t) \/ StopOperation(t)
    <3>1. UNCHANGED <<list, job, sources, mainPc, mainItem, refs>>
      BY <2>3 DEF StartOperation, RunPlain, StopOperation, queueVars,
                  accountVars, mainVars
    <3>2. /\ pc[t] \in {"enter", "work"} /\ pc'[t] \in {"work", "post"}
          /\ \A u \in Threads : u # t => pc'[u] = pc[u]
      BY <1>a, <2>3 DEF StartOperation, RunPlain, StopOperation
    <3> QED BY <1>b, <2>1, <3>1, <3>2, ListFrame
  <2>4. CASE Take(t)
    <3>1. UNCHANGED <<list, sources, mainPc, mainItem, refs>>
      BY <2>4 DEF Take, mainVars
    <3>2. pc[t] = "take" /\ \A u \in Threads : u # t => pc[u] = "none"
      BY <2>4 DEF Take, OneWorker
    <3>3. \A u \in Threads : u # t => pc'[u] = "none"
      BY <1>a, <2>4, <3>2 DEF Take
    <3>4. \A j : ~Answering(j)
      BY <3>2 DEF Answering
    <3>5. pc'[t] \in {"enter", "post"} => job'[t] \in Queued
      <4>1. list # <<>> => Head(list) \in Queued
        BY DEF Queued, ToSet, TypeOK
      <4> QED BY <1>a, <2>4, <4>1 DEF Take, AfterTake
    <3>6. pc'[t] # "work"
      BY <1>a, <2>4 DEF Take, AfterTake
    <3>7. \A u \in Threads :
            pc'[u] \in {"enter", "work", "post"} => job'[u] \in Queued
      BY <3>3, <3>5, <3>6
    <3> QED BY <2>1, <3>1, <3>4, <3>7 DEF ListInv, Queued
  <2>5. CASE Post(t)
    <3>1. /\ job[t] \in Queued \cap refs
          /\ \A s \in sources : s[1] # job[t]
          /\ mainPc = "destroy" => mainItem # job[t]
      BY <2>5, Carried DEF Post
    <3>2. /\ UNCHANGED <<list, job, refs, account, appRef, mainPc, mainItem>>
          /\ sources' = sources \cup {<<job[t], dropped[t]>>}
      BY <2>5 DEF Post, queueVars, accountVars
    <3>3. /\ pc'[t] = "await" /\ pc[t] = "post"
          /\ \A u \in Threads : u # t => pc'[u] = pc[u]
      BY <1>a, <2>5 DEF Post
    <3>4. RefInv'
      BY <3>1, <3>2 DEF RefInv
    <3>5. \A j : Answering(j) => Answering(j)'
      BY <3>2, <3>3 DEF Answering
    <3>6. Answering(job[t])'
      BY <3>2, <3>3 DEF Answering
    <3> QED BY <3>2, <3>3, <3>4, <3>5, <3>6 DEF ListInv, Queued
  <2>6. CASE AwaitCallback(t)
    <3>1. UNCHANGED <<list, job, sources, mainPc, mainItem, refs>>
      BY <2>6 DEF AwaitCallback, queueVars, accountVars, mainVars
    <3>2. /\ pc'[t] = "unlink" /\ \A u \in Threads : u # t => pc'[u] = pc[u]
      BY <1>a, <2>6 DEF AwaitCallback
    <3> QED BY <1>b, <2>1, <3>1, <3>2, ListFrame
  <2>7. CASE Unlink(t)
    BY <2>7, UnlinkStep
  <2> QED BY <1>3, <2>2, <2>3, <2>4, <2>5, <2>6, <2>7 DEF WorkerStep
<1>4. ASSUME NEW i \in Items, NEW r \in BOOLEAN, Callback(i, r)
      PROVE  RefInv' /\ ListInv'
  <2>1. <<i, r>> \in sources /\ <<i, r>>[1] = i
    BY <1>4 DEF Callback
  <2>2. /\ UNCHANGED <<list, job, pc, refs, account, appRef>>
        /\ sources' = sources \ {<<i, r>>}
        /\ mainPc' = "destroy" /\ mainItem' = i
    BY <1>4 DEF Callback, queueVars, workerVars, accountVars
  <2>3. i \in refs /\ \A s \in sources' : s[1] # i
    BY <2>1, <2>2 DEF RefInv
  <2>4. RefInv'
    BY <2>2, <2>3 DEF RefInv
  <2>5. i \in Queued => Answering(i)
    BY <2>1 DEF ListInv
  <2> QED BY <2>2, <2>4, <2>5 DEF ListInv, Queued, Answering
<1>5. CASE Destroy
  <2>1. /\ account' = (appRef' \/ refs' # {})
        /\ \A t \in Threads : \/ pc'[t] = pc[t]
                              \/ pc[t] = "asleep" /\ pc'[t] = "woken"
    BY <1>5, DropRefAccount DEF Destroy, RefInv, TypeOK
  <2>2. /\ UNCHANGED <<list, job, sources, mainItem>>
        /\ refs' = refs \ {mainItem} /\ mainPc = "destroy" /\ mainPc' = "signal"
    BY <1>5 DEF Destroy, DropRef
  <2>3. RefInv'
    BY <2>1, <2>2 DEF RefInv
  <2>4. \A j : Answering(j) => Answering(j)'
    BY <2>1, <2>2 DEF Answering
  <2> QED BY <2>1, <2>2, <2>3, <2>4 DEF ListInv, Queued
<1>6. CASE Signal
  <2>1. /\ UNCHANGED <<list, job, pc, sources, refs, account, appRef>>
        /\ mainPc' = "idle"
    BY <1>6 DEF Signal, queueVars, workerVars, accountVars
  <2> QED BY <2>1 DEF RefInv, ListInv, Queued, Answering
<1>7. CASE UNCHANGED vars
  BY <1>7 DEF vars, queueVars, workerVars, accountVars, mainVars, RefInv,
              ListInv, Queued, Answering
<1> QED BY <1>1, <1>2, <1>3, <1>4, <1>5, <1>6, <1>7, <1>9, LaunchStep
        DEF Next, Caller, MainLoop

----------------------------------------------------------------------------
(* The theorems.                                                           *)

\* The inductive invariant holds of every behaviour.
THEOREM WorkerInvariant == Spec => []WorkerInv
<1>1. WorkerInv /\ [Next]_vars => WorkerInv'
  BY TypeStep, OneWorkerStep, ListStep DEF WorkerInv
<1> QED BY InitInv, <1>1, PTL DEF Spec

\* A queue never has two worker threads: not when launches race with a worker
\* that is about to sleep, not when g_thread_create failed before, and not
\* while the account is being finalized.
THEOREM OneWorkerPerQueue == Spec => []OneWorker
<1>1. WorkerInv => OneWorker
  BY DEF WorkerInv
<1> QED BY WorkerInvariant, <1>1, PTL
=============================================================================
