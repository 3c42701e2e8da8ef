--------------------------- MODULE TnyCamelQueue ---------------------------
(***************************************************************************)
(* The operation queue of an account, libtinymail-camel/tny-camel-queue.c. *)
(*                                                                         *)
(* Callers put items on the queue, in any thread that holds the account.   *)
(* One worker thread takes the first item, runs its work function, posts   *)
(* its callback to the GLib main loop and waits until the callback and the *)
(* destroyer have run there; only then does it unlink and free the item.   *)
(* A section of the code under queue->lock, queue->mutex or info->mutex is *)
(* one action; what lies between two sections is where the others step in. *)
(***************************************************************************)
EXTENDS Naturals, Sequences, FiniteSets, SequencesExt

CONSTANTS
  Items,        \* slots for queue items: a freed slot may be launched again
  NoItem,       \* the NULL item
  Threads,      \* identities for the worker threads g_thread_create makes
  LaunchFlags,  \* the flag sets the callers launch items with
  RemoveFlags,  \* the flag sets the callers remove items with
  SpawnMayFail, \* TRUE if g_thread_create may fail
  SpuriousWaits, \* which g_cond_wait may return unsignalled: "park", "callback"
  OtherQueue    \* TRUE if the account's other queue is cancelled by its callers

Flag == {"NORMAL", "RECONNECT", "CANCELLABLE", "PRIORITY", "GET_HEADERS",
         "SYNC", "REFRESH", "AUTO_CANCELLABLE", "CONNECT"}

\* Where the account keeps a running operation: priv->cancel and
\* priv->getmsg_cancel, the one a fetch of a message uses.
Slot == {"cancel", "getmsg"}

ASSUME QueueAssumption ==
  /\ NoItem \notin Items
  /\ LaunchFlags \subseteq SUBSET Flag
  /\ RemoveFlags \subseteq SUBSET Flag
  /\ SpawnMayFail \in BOOLEAN
  /\ SpuriousWaits \subseteq {"park", "callback"}
  /\ OtherQueue \in BOOLEAN

VARIABLES
  \* The fields of TnyCamelQueue.
  list, stopped, is_waiting, next_uncancel, current, account,
  \* The fields of QueueItem that matter here, by item.
  flags, deleted,
  \* The worker threads: program counter, the item on its stage, the value of
  \* item->deleted it sampled, and whether it decided to wait.
  pc, job, dropped, wait,
  \* The account: the reference of the application, the thread references of
  \* the items, the operations of this queue, and the hint to the service.
  appRef, refs, op, can_idle,
  \* The main loop: idle sources posted by the worker, what it is doing.
  sources, mainPc, mainItem,
  \* History: how the work function ended ("plain" if it opened no operation),
  \* what its callback told the caller, and the cancels that came while it was
  \* the current item: of this queue, before its function was called or after,
  \* and of the other queue.
  ran, told, aimed

queueVars   == <<list, stopped, is_waiting, next_uncancel, current>>
itemVars    == <<flags, deleted>>
workerVars  == <<pc, job, dropped, wait>>
accountVars == <<account, appRef, refs, op, can_idle>>
mainVars    == <<sources, mainPc, mainItem>>
history     == <<ran, told, aimed>>
vars == <<queueVars, itemVars, workerVars, accountVars, mainVars, history>>

WorkerPc == {"none", "test", "take", "enter", "work", "post", "await",
             "unlink", "park", "asleep", "woken", "leave"}

Queued == ToSet(list)

----------------------------------------------------------------------------
Init ==
  /\ list = <<>> /\ stopped = TRUE /\ is_waiting = FALSE
  /\ next_uncancel = FALSE /\ current = NoItem
  /\ flags = [i \in Items |-> {}] /\ deleted = [i \in Items |-> FALSE]
  /\ pc = [t \in Threads |-> "none"] /\ job = [t \in Threads |-> NoItem]
  /\ dropped = [t \in Threads |-> FALSE] /\ wait = [t \in Threads |-> FALSE]
  /\ account = TRUE /\ appRef = TRUE /\ refs = {}
  /\ op = [s \in Slot |-> "none"] /\ can_idle = FALSE
  /\ sources = {} /\ mainPc = "idle" /\ mainItem = NoItem
  /\ ran = [i \in Items |-> "no"] /\ told = [i \in Items |-> "nothing"]
  /\ aimed = [i \in Items |-> {}]

----------------------------------------------------------------------------
(* What the actions are made of.                                           *)

\* g_cond_broadcast (queue->condition), skipped unless a worker is_waiting.
Broadcast == pc' = IF is_waiting
                   THEN [t \in Threads |->
                           IF pc[t] = "asleep" THEN "woken" ELSE pc[t]]
                   ELSE pc

\* Mutant: the worker that sleeps is not told.
AccountFinalized_Silent == account' = FALSE /\ stopped' = TRUE /\ pc' = pc

\* The weak notify of the account, run by whoever drops the last reference.
AccountFinalized == /\ account' = FALSE
                    /\ stopped' = TRUE
                    /\ Broadcast

\* g_object_unref of an account that app and held would still refer to.
DropRef(app, held) ==
  /\ appRef' = app
  /\ refs' = held
  /\ IF account /\ ~app /\ held = {}
     THEN AccountFinalized
     ELSE UNCHANGED <<account, stopped, pc>>

\* A caller of the queue holds the account: through the application's
\* reference, or because it is the callback of an item the main loop runs.
HoldsAccount == appRef \/ mainPc = "destroy"

\* A slot that nothing points to.
Fresh(i) == /\ i \notin Queued \cup refs \cup {mainItem, current}
            /\ \A s \in sources : s[1] # i

Priority(i) == "PRIORITY" \in flags[i]

\* Mutants: the last priority item first, and no priorities at all.
Place_Lifo(f, n) == n = IF "PRIORITY" \in f THEN 0 ELSE Len(list)
Place_Append(f, n) == n = Len(list)

\* n items of the list come before a new item with flags f.
Place(f, n) ==
  IF "PRIORITY" \in f
  THEN /\ \A k \in 1..n : Priority(list[k])
       /\ n < Len(list) => ~Priority(list[n + 1])
  ELSE n = Len(list)

\* Removal marks the matching items, except the current one, in place.
MarkRemoved(F) ==
  deleted' = [i \in Items |-> \/ deleted[i]
                              \/ /\ i \in Queued \ {current}
                                 /\ flags[i] \cap F # {}]

\* Mutant: the exception made for SYNC items is forgotten.
Cancellable_Sync(i) == "CANCELLABLE" \in flags[i]

Cancellable(i) == "CANCELLABLE" \in flags[i] /\ "SYNC" \notin flags[i]

\* camel_lite_operation_cancel of what stands in the slots S.
Cancelled(S) == [s \in Slot |-> IF s \in S /\ op[s] = "live"
                               THEN "cancelled" ELSE op[s]]

\* Note that a cancel came while i was the current item, if it is.
Aim(how) == aimed' = [i \in Items |-> IF i = current THEN aimed[i] \cup {how}
                                      ELSE aimed[i]]

\* Has the function of the current item been called?
Stage == IF \E t \in Threads : pc[t] = "enter" THEN "before" ELSE "after"

----------------------------------------------------------------------------
(* The callers.                                                            *)

\* Mutant: stopped stays set while the new worker runs.
StartWorker_Stopped == /\ \E t \in Threads : /\ pc[t] = "none"
                                           /\ pc' = [pc EXCEPT ![t] = "test"]
                       /\ UNCHANGED stopped

\* stopped and no worker: g_thread_create, which may fail and leave the item.
StartWorker ==
  \/ \E t \in Threads : /\ pc[t] = "none"
                        /\ pc' = [pc EXCEPT ![t] = "test"]
                        /\ stopped' = FALSE
  \/ SpawnMayFail /\ UNCHANGED <<pc, stopped>>

\* Mutant: one operation waiting is not enough to keep the service awake.
CanIdle_OffByOne(l) == Len(l) <= 2

\* camel_lite_service_can_idle: nothing waits behind the first item.
CanIdle(l) == Len(l) <= 1

Launch(i, f) ==
  /\ HoldsAccount
  /\ Fresh(i)
  /\ \E n \in 0..Len(list) : Place(f, n) /\ list' = InsertAt(list, n + 1, i)
  /\ flags' = [flags EXCEPT ![i] = f]
  /\ refs' = refs \cup {i}
  /\ can_idle' = CanIdle(list')
  /\ \/ stopped /\ StartWorker
     \/ ~stopped /\ Broadcast /\ UNCHANGED stopped
  /\ UNCHANGED <<is_waiting, next_uncancel, current, deleted, job, dropped,
                 wait, account, appRef, op, mainVars, history>>

RemoveItems(F) ==
  /\ HoldsAccount
  /\ MarkRemoved(F)
  /\ UNCHANGED <<queueVars, flags, workerVars, accountVars, mainVars, history>>

\* Removes, and cancels the operation the current item is performing: that is,
\* whatever the account has running, a fetch of its other queue included.
CancelRemoveItems(F) ==
  /\ HoldsAccount
  /\ MarkRemoved(F)
  /\ IF current # NoItem /\ Cancellable(current)
     THEN /\ op' = Cancelled(Slot)
          /\ next_uncancel' = TRUE
     ELSE UNCHANGED <<op, next_uncancel>>
  /\ Aim(Stage)
  /\ UNCHANGED <<list, stopped, is_waiting, current, flags, workerVars,
                 account, appRef, refs, can_idle, mainVars, ran, told>>

\* tny_camel_account_cancel, which has cancelled its queue, cancels the fetch.
CancelFetch ==
  /\ HoldsAccount
  /\ op' = Cancelled({"getmsg"})
  /\ Aim(Stage)
  /\ UNCHANGED <<queueVars, itemVars, workerVars, account, appRef, refs,
                 can_idle, mainVars, ran, told>>

\* The other queue cancels its current item, and with it a fetch of this one.
OtherCancels ==
  /\ OtherQueue
  /\ HoldsAccount
  /\ op["getmsg"] = "live"
  /\ op' = Cancelled({"getmsg"})
  /\ Aim("other")
  /\ UNCHANGED <<queueVars, itemVars, workerVars, account, appRef, refs,
                 can_idle, mainVars, ran, told>>

\* The application drops its reference to the account.
AppUnref ==
  /\ appRef
  /\ DropRef(FALSE, refs)
  /\ UNCHANGED <<list, is_waiting, next_uncancel, current, itemVars, job,
                 dropped, wait, op, can_idle, mainVars, history>>

Caller == \/ \E i \in Items, f \in LaunchFlags : Launch(i, f)
          \/ \E F \in RemoveFlags : RemoveItems(F) \/ CancelRemoveItems(F)
          \/ CancelFetch
          \/ OtherCancels
          \/ AppUnref

----------------------------------------------------------------------------
(* The worker thread.                                                      *)

Goto(t, from, to) == pc[t] = from /\ pc' = [pc EXCEPT ![t] = to]

\* while (!queue->stopped), read without a lock.
Test(t) ==
  /\ Goto(t, "test", IF stopped THEN "leave" ELSE "take")
  /\ UNCHANGED <<queueVars, itemVars, job, dropped, wait, accountVars,
                 mainVars, history>>

\* Mutant: no item at all is treated as a removed one.
AfterTake_NoItem == IF list # <<>> /\ ~deleted[Head(list)]
                    THEN "enter" ELSE "post"

AfterTake == IF list = <<>> THEN "unlink"
             ELSE IF deleted[Head(list)] THEN "post" ELSE "enter"

\* The first critical section: undo a cancel, look at the head of the list.
Take(t) ==
  /\ Goto(t, "take", AfterTake)
  /\ current' = IF list = <<>> THEN current ELSE Head(list)
  /\ job' = [job EXCEPT ![t] = IF list = <<>> THEN NoItem ELSE Head(list)]
  /\ dropped' = [dropped EXCEPT ![t] = list # <<>> /\ deleted[Head(list)]]
  /\ wait' = [wait EXCEPT ![t] = list = <<>>]
  /\ op' = [op EXCEPT !["cancel"] =
               IF next_uncancel /\ account /\ @ = "cancelled" THEN "live" ELSE @]
  /\ next_uncancel' = FALSE
  /\ can_idle' = CanIdle(list)
  /\ UNCHANGED <<list, stopped, is_waiting, itemVars, account, appRef, refs,
                 mainVars, history>>

\* item->func starts: it opens a camel operation, or runs through without one.
\* The fetch of a message, launched without flags, opens one in its own slot.
StartOperation(t) ==
  /\ Goto(t, "enter", "work")
  /\ \E s \in Slot : /\ s = "getmsg" => flags[job[t]] = {"NORMAL"}
                    /\ op' = [op EXCEPT ![s] = "live"]
  /\ UNCHANGED <<queueVars, itemVars, job, dropped, wait, account, appRef,
                 refs, can_idle, mainVars, history>>

RunPlain(t) ==
  /\ Goto(t, "enter", "post")
  /\ ran' = [ran EXCEPT ![job[t]] = "plain"]
  /\ UNCHANGED <<queueVars, itemVars, job, dropped, wait, accountVars,
                 mainVars, told, aimed>>

\* The function ends: with an error if its next read finds the operation
\* cancelled, successfully if no read was left (or nothing was cancelled).
StopOperation(t) ==
  /\ Goto(t, "work", "post")
  /\ \E r \in {"ok", "aborted"} : /\ r = "aborted" => \E s \in Slot : op[s] = "cancelled"
                                  /\ ran' = [ran EXCEPT ![job[t]] = r]
  /\ op' = [s \in Slot |-> "none"]
  /\ UNCHANGED <<queueVars, itemVars, job, dropped, wait, account, appRef,
                 refs, can_idle, mainVars, told, aimed>>

\* g_idle_add_full of the (cancel) callback and destroyer.
Post(t) ==
  /\ Goto(t, "post", "await")
  /\ sources' = sources \cup {<<job[t], dropped[t]>>}
  /\ UNCHANGED <<queueVars, itemVars, job, dropped, wait, accountVars,
                 mainPc, mainItem, history>>

\* Mutants: set before the destroyer runs; not set for a removed item.
HadCallback_Early(i) == told[i] # "nothing"
HadCallback_NotRemoved(i) == told[i] = "done" /\ mainItem # i

\* had_callback, which perform_destroyer sets last, under info->mutex.
HadCallback(i) == told[i] # "nothing" /\ mainItem # i

\* Wait for had_callback; then the data of the item is freed.
AwaitCallback(t) ==
  /\ Goto(t, "await", "unlink")
  /\ HadCallback(job[t]) \/ "callback" \in SpuriousWaits
  /\ UNCHANGED <<queueVars, itemVars, job, dropped, wait, accountVars,
                 mainVars, history>>

\* Mutant: the node deleted is the head of the list as it is now.
DeleteLink_Head(i) == list' = IF i = NoItem THEN list ELSE Tail(list)

\* g_list_delete_link of the node of an item, wherever it has moved to.
DeleteLink(i) == IF i = NoItem THEN list' = list
                 ELSE \E n \in 1..Len(list) : /\ list[n] = i
                                              /\ list' = RemoveAt(list, n)

\* Mutant: the worker does not wait when the list has become empty.
NothingLeft_Ignored == FALSE

NothingLeft == list' = <<>>

\* The second critical section, and the g_slice_free of the item.
Unlink(t) ==
  /\ pc[t] = "unlink"
  /\ DeleteLink(job[t])
  /\ current' = NoItem
  /\ wait' = [wait EXCEPT ![t] = @ \/ NothingLeft]
  /\ pc' = [pc EXCEPT ![t] = IF wait'[t] THEN "park" ELSE "test"]
  /\ job' = [job EXCEPT ![t] = NoItem]
  /\ dropped' = [dropped EXCEPT ![t] = FALSE]
  /\ flags' = [i \in Items |-> IF i = job[t] THEN {} ELSE flags[i]]
  /\ deleted' = [i \in Items |-> i # job[t] /\ deleted[i]]
  /\ ran' = [i \in Items |-> IF i = job[t] THEN "no" ELSE ran[i]]
  /\ told' = [i \in Items |-> IF i = job[t] THEN "nothing" ELSE told[i]]
  /\ aimed' = [i \in Items |-> IF i = job[t] THEN {} ELSE aimed[i]]
  /\ UNCHANGED <<stopped, is_waiting, next_uncancel, accountVars, mainVars>>

\* queue->mutex: is_waiting = TRUE and the wait, which releases the mutex.
Park(t) ==
  /\ Goto(t, "park", "asleep")
  /\ is_waiting' = TRUE
  /\ UNCHANGED <<list, stopped, next_uncancel, current, itemVars, job,
                 dropped, wait, accountVars, mainVars, history>>

\* The wait of a sleeping worker returns without a broadcast.
WakeSpuriously(t) ==
  /\ "park" \in SpuriousWaits
  /\ Goto(t, "asleep", "woken")
  /\ UNCHANGED <<queueVars, itemVars, job, dropped, wait, accountVars,
                 mainVars, history>>

Resume(t) ==
  /\ Goto(t, "woken", "test")
  /\ is_waiting' = FALSE
  /\ wait' = [wait EXCEPT ![t] = FALSE]
  /\ UNCHANGED <<list, stopped, next_uncancel, current, itemVars, job,
                 dropped, accountVars, mainVars, history>>

Leave(t) ==
  /\ Goto(t, "leave", "none")
  /\ stopped' = TRUE
  /\ UNCHANGED <<list, is_waiting, next_uncancel, current, itemVars, job,
                 dropped, wait, accountVars, mainVars, history>>

\* The steps a worker takes by itself once it is scheduled.
WorkerStep(t) ==
  \/ Test(t) \/ Take(t) \/ StartOperation(t) \/ RunPlain(t)
  \/ StopOperation(t) \/ Post(t) \/ AwaitCallback(t) \/ Unlink(t)
  \/ Park(t) \/ Resume(t) \/ Leave(t)

----------------------------------------------------------------------------
(* The main loop: it dispatches an idle source, calls its callback, then   *)
(* the destroy notify.  The item->deleted the worker sampled is the one    *)
(* that picked between callback and cancel_callback.                       *)

Callback(i, removed) ==
  /\ mainPc = "idle"
  /\ <<i, removed>> \in sources
  /\ sources' = sources \ {<<i, removed>>}
  /\ told' = [told EXCEPT ![i] = IF removed THEN "cancelled" ELSE "done"]
  /\ mainPc' = "destroy"
  /\ mainItem' = i
  /\ UNCHANGED <<queueVars, itemVars, workerVars, accountVars, ran, aimed>>

\* The item's destroyer drops the thread reference to the account.
Destroy ==
  /\ mainPc = "destroy"
  /\ DropRef(appRef, refs \ {mainItem})
  /\ mainPc' = "signal"
  /\ UNCHANGED <<list, is_waiting, next_uncancel, current, itemVars, job,
                 dropped, wait, op, can_idle, sources, mainItem, history>>

\* had_callback = TRUE and the broadcast on info->condition.
Signal ==
  /\ mainPc = "signal"
  /\ mainPc' = "idle"
  /\ mainItem' = NoItem
  /\ UNCHANGED <<queueVars, itemVars, workerVars, accountVars, sources,
                 history>>

MainLoop == \/ \E i \in Items, removed \in BOOLEAN : Callback(i, removed)
            \/ Destroy
            \/ Signal

----------------------------------------------------------------------------
Next == \/ Caller
        \/ \E t \in Threads : WorkerStep(t) \/ WakeSpuriously(t)
        \/ MainLoop

Spec == Init /\ [][Next]_vars

\* A worker that can run does run, and so does the main loop; no caller has
\* to call.  The loop serves the low-priority idle sources when it is idle.
Fairness == /\ \A t \in Threads : WF_vars(WorkerStep(t))
            /\ WF_vars(MainLoop)

FairSpec == Spec /\ Fairness

----------------------------------------------------------------------------
(* Properties.                                                             *)

TypeOK ==
  /\ list \in Seq(Items)
  /\ stopped \in BOOLEAN /\ is_waiting \in BOOLEAN
  /\ next_uncancel \in BOOLEAN /\ current \in Items \cup {NoItem}
  /\ account \in BOOLEAN
  /\ flags \in [Items -> SUBSET Flag] /\ deleted \in [Items -> BOOLEAN]
  /\ pc \in [Threads -> WorkerPc] /\ job \in [Threads -> Items \cup {NoItem}]
  /\ dropped \in [Threads -> BOOLEAN] /\ wait \in [Threads -> BOOLEAN]
  /\ appRef \in BOOLEAN /\ refs \subseteq Items
  /\ op \in [Slot -> {"none", "live", "cancelled"}] /\ can_idle \in BOOLEAN
  /\ sources \subseteq Items \X BOOLEAN
  /\ mainPc \in {"idle", "destroy", "signal"}
  /\ mainItem \in Items \cup {NoItem}
  /\ ran \in [Items -> {"no", "plain", "ok", "aborted"}]
  /\ told \in [Items -> {"nothing", "done", "cancelled"}]
  /\ aimed \in [Items -> SUBSET {"before", "after", "other"}]

\* At most one worker thread runs per queue: launching while one is alive,
\* asleep or about to leave never creates another ("There's only one such
\* thread for each TnyCamelStoreAccount active at any given moment in time",
\* tny-camel-store-account.c:2235).
OneWorker == \A s, t \in Threads : pc[s] # "none" /\ pc[t] # "none" => s = t

\* The items flagged PRIORITY form a prefix of the list, whatever was on the
\* stage or unlinked when they were launched.
PriorityFirst == \A m, n \in 1..Len(list) :
                   m < n /\ Priority(list[n]) => Priority(list[m])

Before(i, j) == \E m, n \in 1..Len(list) : m < n /\ list[m] = i /\ list[n] = j

\* First in, first out within a class: a launch never overtakes an item of its
\* own class, and two queued items never change places.
FifoPerClass ==
  [][/\ \A i \in Queued' \ Queued, j \in Queued :
           Priority(i)' = Priority(j) => Before(j, i)'
     /\ \A i, j \in Queued \cap Queued' : Before(i, j) => Before(i, j)']_vars

\* The worker frees the data of an item only once the main loop is through
\* with its callback and its destroyer ("Wait on the queue for the mainloop
\* callback to be finished", tny-camel-queue.c:251).
DataOutlivesCallback ==
  \A t \in Threads :
    pc[t] = "unlink" /\ job[t] # NoItem =>
      /\ mainItem # job[t]
      /\ \A s \in sources : s[1] # job[t]

\* A cancel came for i while its function ran, and i is one that may be hit.
Reached(i) == /\ "SYNC" \notin flags[i]
              /\ \/ "after" \in aimed[i]
                 \/ "other" \in aimed[i] /\ OtherQueue /\ flags[i] = {"NORMAL"}

\* No operation inherits the cancellation of an earlier one, and a SYNC item is
\* never hit: a function fails as cancelled only when a cancel of its queue came
\* while it ran, or when it is a fetch and the other queue was cancelled, which
\* aims at nobody here (_tny_camel_account_actual_cancel spares no fetch).
CancelHitsTarget == \A i \in Items : ran[i] = "aborted" => Reached(i)

\* The hint that lets an IMAP service go idle after the operation is only
\* standing while no second operation is queued.
IdleHintFresh == can_idle => Len(list) <= 1

\* The worker never dereferences the account once it is gone: at the place
\* where it does, it still has an item, and with it a thread reference.
AccountAlive == \A t \in Threads : pc[t] = "take" => account

\* The account that goes away finds the worker that sleeps, and only a worker
\* that is on its way to sleep is missed.
SleeperHearsShutdown ==
  [][account /\ ~account' => \A t \in Threads : pc'[t] # "asleep"]_vars

Phase(i) == IF i \notin Queued THEN "free"
            ELSE IF told[i] = "done" THEN "answered"
            ELSE IF told[i] = "cancelled" THEN "refused"
            ELSE IF ran[i] # "no" THEN "ended"
            ELSE IF deleted[i] THEN "dropped"
            ELSE IF current = i THEN "running" ELSE "waiting"

\* The queue keeps the contract of _tny_camel_queue_launch: each item is run
\* and then answered, or removed and then refused, exactly once and one at a
\* time (tny-camel-queue.c:398).
Contract == INSTANCE QueueContract WITH phase <- [i \in Items |-> Phase(i)]
KeepsContract == Contract!Spec

\* No worker will look at the list by itself: it sleeps, or could not start.
Stranded == /\ list # <<>>
            /\ \A t \in Threads : pc[t] \in {"none", "asleep"}

Unanswered(i) == i \in Queued /\ told[i] = "nothing"

\* Every item is answered in the end, unless the queue stays stranded.
AnsweredUnlessStranded ==
  \A i \in Items : []<>~Stranded => (Unanswered(i) ~> ~Unanswered(i))

\* What the contract promises: "@queue will invoke @func in future if it
\* doesn't get cancelled" (tny-camel-queue.c:398).
Answered == \A i \in Items : Unanswered(i) ~> ~Unanswered(i)
=============================================================================
