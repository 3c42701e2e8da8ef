------------------------- MODULE TnyCamelSendQueue -------------------------
(***************************************************************************)
(* The send queue, libtinymail-camel/tny-camel-send-queue.c.               *)
(*                                                                         *)
(* Messages are appended to the outbox.  A thread, created when a message  *)
(* arrives and none is_running, takes one message at a time, hands it to   *)
(* the transport and moves it to the sentbox.  All work on folders is      *)
(* asynchronous: the thread waits for the GLib main loop to call it back.  *)
(* A cancel of a running queue is left to the thread, which removes or     *)
(* suspends what is in the outbox once it is done.                         *)
(***************************************************************************)
EXTENDS Naturals, Sequences, FiniteSets

CONSTANTS
  Msgs,          \* the messages applications add
  Free,          \* no message; no owner of a lock
  Main,          \* the main loop, as the owner of a lock
  Threads,       \* identities for the threads g_thread_create makes
  Addressed,     \* the messages that have a recipient
  CancelActions, \* the cancels applications call: "SUSPEND", "REMOVE"
  Failures,      \* what may fail: members of Failure
  Offline,       \* TRUE if the device may go offline
  BlockingAdd    \* TRUE if the main loop may call tny_send_queue_add

\* g_thread_create; no outbox or sentbox; an operation of a folder; a fetch
\* that is cancelled; the transport before, and after, the message is out.
Failure == {"spawn", "outbox", "folder", "cancelled", "transport", "disconnect"}

ASSUME SendQueueAssumption ==
  /\ IsFiniteSet(Msgs)
  /\ Free \notin Msgs /\ {Free, Main} \cap Threads = {} /\ Free # Main
  /\ CancelActions \subseteq {"SUSPEND", "REMOVE"}
  /\ Addressed \subseteq Msgs
  /\ Failures \subseteq Failure
  /\ Offline \in BOOLEAN /\ BlockingAdd \in BOOLEAN

VARIABLES
  \* The fields of TnyCamelSendQueuePriv; thread is whether it is not NULL,
  \* notifying the messages pending_send_notifies counts.
  is_running, cancel_requested, cancel_action, thread, running_lock,
  sending_lock, todo_lock, notifying,
  \* The folders: where each message is, and its flags.
  place, marks,
  \* The threads: program counter, where check_cancel returns to, and locals.
  pc, ret, length, failed_headers, header, err, cancelled, action,
  \* The main loop: queue-control signals posted to it, messages whose
  \* on_added it has to call, and what call of an application it is in.
  posted, arrived, mainPc, mainArg,
  online,
  \* History: the messages a server has got, those whose sending was reported
  \* without an error, and the last control signal told.
  sent, reported, told

flagVars   == <<is_running, cancel_requested, cancel_action, thread,
                running_lock>>
lockVars   == <<sending_lock, todo_lock>>
folderVars == <<place, marks>>
localVars  == <<ret, length, failed_headers, header, err, cancelled, action>>
mainVars   == <<posted, arrived, mainPc, mainArg, notifying>>
history    == <<sent, reported, told>>
vars == <<flagVars, lockVars, folderVars, pc, localVars, mainVars, online,
          history>>

Outbox == {m \in Msgs : place[m] = "outbox"}

\* What check_cancel returns to, and the places of a thread.
ReturnPc == {"mark", "loop", "stop"}
ThreadPc == {"none", "begin", "start", "first", "firstHeaders", "loop", "lock",
             "todo", "headers", "fetch", "getMsg", "transport", "sent",
             "check", "cancel", "purge", "mark", "transfer", "unlock",
             "check2", "sync", "exit", "last", "stop", "abort"}

----------------------------------------------------------------------------
Init ==
  /\ is_running = FALSE /\ cancel_requested = FALSE
  /\ cancel_action = "SUSPEND" /\ thread = FALSE /\ running_lock = Free
  /\ sending_lock = Free /\ todo_lock = Free
  /\ place = [m \in Msgs |-> "draft"] /\ marks = [m \in Msgs |-> {}]
  /\ pc = [t \in Threads |-> "none"] /\ ret = [t \in Threads |-> "loop"]
  /\ length = [t \in Threads |-> 0] /\ failed_headers = [t \in Threads |-> {}]
  /\ header = [t \in Threads |-> Free] /\ err = [t \in Threads |-> FALSE]
  /\ cancelled = [t \in Threads |-> FALSE]
  /\ action = [t \in Threads |-> "SUSPEND"]
  /\ posted = <<>> /\ arrived = {} /\ notifying = {}
  /\ mainPc = "idle" /\ mainArg = Free
  /\ online = TRUE
  /\ sent = {} /\ reported = {} /\ told = "stop"

----------------------------------------------------------------------------
(* Shared parts.                                                           *)

Fails(what) == what \in Failures

Free_or(lock, owner) == lock \in {Free, owner}

\* Mutant: a thread is created whether or not one is running.
MayCreate_Always == TRUE

MayCreate == ~is_running

\* create_worker, under running_lock, which it keeps when a folder is missing:
\* then nobody gets the lock any more.
CreateWorker ==
  /\ running_lock = Free
  /\ UNCHANGED <<cancel_requested, cancel_action>>
  /\ \/ ~MayCreate /\ UNCHANGED <<is_running, thread, running_lock, pc>>
     \/ /\ MayCreate
        /\ \E t \in Threads : pc[t] = "none" /\ pc' = [pc EXCEPT ![t] = "begin"]
        /\ is_running' = TRUE
        /\ thread' = TRUE
        /\ UNCHANGED running_lock
     \/ /\ MayCreate /\ Fails("spawn")
        /\ is_running' = FALSE
        /\ thread' = FALSE
        /\ UNCHANGED <<running_lock, pc>>
     \/ /\ MayCreate /\ Fails("outbox")
        /\ running_lock' = Main
        /\ UNCHANGED <<is_running, thread, pc>>

\* The end of cancel: under sending_lock, remove or suspend the outbox.
PurgeOutbox(owner, a) ==
  /\ Free_or(sending_lock, owner)
  /\ running_lock = Free
  /\ is_running' = FALSE
  /\ \E S \in SUBSET Outbox :
       /\ \/ S = Outbox
          \/ Fails("folder") /\ (a = "REMOVE" \/ S = {})
       /\ IF a = "REMOVE"
          THEN /\ place' = [m \in Msgs |-> IF m \in S THEN "removed"
                                           ELSE place[m]]
               /\ UNCHANGED marks
          ELSE /\ marks' = [m \in Msgs |-> IF m \in S
                                           THEN marks[m] \cup {"SUSPENDED"}
                                           ELSE marks[m]]
               /\ UNCHANGED place
  /\ UNCHANGED <<cancel_requested, cancel_action, thread, running_lock,
                 lockVars>>

----------------------------------------------------------------------------
(* The application, in the main loop.                                      *)

Idle == mainPc = "idle"

\* tny_send_queue_add_async: the folder appends the message later.
AddAsync(m) ==
  /\ Idle
  /\ place[m] = "draft"
  /\ place' = [place EXCEPT ![m] = "adding"]
  /\ UNCHANGED <<flagVars, lockVars, marks, pc, localVars, mainVars, online,
                 history>>

\* tny_send_queue_add takes todo_lock first.
Add(m) ==
  /\ BlockingAdd
  /\ Idle
  /\ place[m] = "draft"
  /\ mainPc' = "add" /\ mainArg' = m
  /\ UNCHANGED <<flagVars, lockVars, folderVars, pc, localVars, posted,
                 arrived, notifying, online, history>>

\* Under todo_lock: count the headers of the outbox, then add the message as
\* tny_send_queue_add_async does.
AddLocked ==
  /\ mainPc = "add"
  /\ todo_lock = Free
  /\ \/ place' = [place EXCEPT ![mainArg] = "adding"]
     \/ Fails("folder") /\ UNCHANGED place
  /\ mainPc' = "idle" /\ mainArg' = Free
  /\ UNCHANGED <<flagVars, lockVars, marks, pc, localVars, posted, arrived,
                 notifying, online, history>>

\* The queue of the outbox's account has appended the message, or has failed,
\* and then on_added creates no worker.
Appended(m) ==
  /\ place[m] = "adding"
  /\ \/ /\ place' = [place EXCEPT ![m] = "outbox"]
        /\ arrived' = arrived \cup {m}
     \/ /\ Fails("folder")
        /\ place' = [place EXCEPT ![m] = "draft"]
        /\ UNCHANGED arrived
  /\ UNCHANGED <<flagVars, lockVars, marks, pc, localVars, posted, mainPc,
                 mainArg, notifying, online, history>>

OnAdded(m) ==
  /\ Idle
  /\ m \in arrived
  /\ arrived' = arrived \ {m}
  /\ CreateWorker
  /\ UNCHANGED <<lockVars, folderVars, localVars, posted, mainPc, mainArg,
                 notifying, online, history>>

\* tny_camel_send_queue_flush, by the application or on_setonline_happened.
Flush ==
  /\ Idle
  /\ CreateWorker
  /\ UNCHANGED <<lockVars, folderVars, localVars, mainVars, online, history>>

\* A running queue is asked to cancel, any other is purged here.
Cancel(a) ==
  /\ Idle
  /\ running_lock = Free
  /\ \/ /\ is_running
        /\ cancel_requested' = TRUE
        /\ cancel_action' = a
        /\ UNCHANGED <<mainPc, mainArg>>
     \/ /\ ~is_running
        /\ mainPc' = "purge" /\ mainArg' = a
        /\ UNCHANGED <<cancel_requested, cancel_action>>
  /\ UNCHANGED <<is_running, thread, running_lock, lockVars, folderVars, pc,
                 localVars, posted, arrived, notifying, online, history>>

CancelLocked ==
  /\ mainPc = "purge"
  /\ PurgeOutbox(Main, mainArg)
  /\ mainPc' = "idle" /\ mainArg' = Free
  /\ UNCHANGED <<pc, localVars, posted, arrived, notifying, online, history>>

GoOnline  == ~online /\ online' = TRUE
GoOffline == Offline /\ online /\ online' = FALSE

Device == /\ GoOnline \/ GoOffline
          /\ UNCHANGED <<flagVars, lockVars, folderVars, pc, localVars,
                         mainVars, history>>

Application == \/ \E m \in Msgs : AddAsync(m) \/ Add(m)
               \/ Flush
               \/ \E a \in CancelActions : Cancel(a)

----------------------------------------------------------------------------
(* The thread.  A step of it that calls a folder and waits for the answer  *)
(* is taken by the main loop: it needs the main loop idle.                 *)

Goto(t, from, to) == pc[t] = from /\ pc' = [pc EXCEPT ![t] = to]

\* wait_for_queue_start_notification: post queue-start, wait until it is told.
Begin(t) ==
  /\ Goto(t, "begin", "start")
  /\ posted' = Append(posted, <<"START", t>>)
  /\ UNCHANGED <<flagVars, lockVars, folderVars, localVars, arrived, mainPc,
                 mainArg, notifying, online, history>>

First(t) ==
  /\ Goto(t, "first", "firstHeaders")
  /\ todo_lock = Free /\ todo_lock' = t
  /\ UNCHANGED <<flagVars, sending_lock, folderVars, localVars, mainVars,
                 online, history>>

\* Mutant: one message less is counted.
Counted_ButOne == Cardinality(Outbox) - 1

\* What length counts at first: every message of the outbox.
Counted == Cardinality(Outbox)

\* The first get_headers_sync.
FirstHeaders(t) ==
  /\ Idle
  /\ \/ /\ Goto(t, "firstHeaders", "loop")
        /\ length' = [length EXCEPT ![t] = Counted]
     \/ /\ Goto(t, "firstHeaders", "exit") /\ Fails("folder")
        /\ UNCHANGED length
  /\ todo_lock' = Free
  /\ UNCHANGED <<flagVars, sending_lock, folderVars, ret, failed_headers,
                 header, err, cancelled, action, mainVars, online, history>>

\* (length - g_hash_table_size (failed_headers)) > 0 in guint: not equal.
Unsent(t) == length[t] # Cardinality(failed_headers[t])

\* The condition of the loop.
Loop(t) ==
  /\ Goto(t, "loop", IF Unsent(t) /\ online /\ ~cancelled[t] THEN "lock"
                     ELSE "sync")
  /\ UNCHANGED <<flagVars, lockVars, folderVars, localVars, mainVars, online,
                 history>>

Lock(t) ==
  /\ Goto(t, "lock", "todo")
  /\ sending_lock = Free /\ sending_lock' = t
  /\ UNCHANGED <<flagVars, todo_lock, folderVars, localVars, mainVars, online,
                 history>>

Todo(t) ==
  /\ todo_lock = Free
  /\ \/ /\ Goto(t, "todo", "headers") /\ online
        /\ todo_lock' = t
        /\ UNCHANGED sending_lock
     \/ /\ Goto(t, "todo", "exit") /\ ~online
        /\ sending_lock' = Free
        /\ UNCHANGED todo_lock
  /\ UNCHANGED <<flagVars, folderVars, localVars, mainVars, online, history>>

\* Mutant: the mark of a message that was sent is not looked at.
Sendable_Answered(t) ==
  {m \in Outbox \ failed_headers[t] : "SUSPENDED" \notin marks[m]}

\* The headers that are left when the ones to skip are removed.
Sendable(t) == {m \in Outbox \ failed_headers[t] : marks[m] = {}}

\* The second get_headers_sync, and the choice of the message to send.
Headers(t) ==
  /\ Idle
  /\ todo_lock' = Free
  /\ \/ /\ Sendable(t) # {}
        /\ Goto(t, "headers", "fetch")
        /\ \E m \in Sendable(t) : header' = [header EXCEPT ![t] = m]
        /\ length' = [length EXCEPT ![t] = Cardinality(Sendable(t))]
        /\ UNCHANGED sending_lock
     \/ /\ Sendable(t) = {}
        /\ Goto(t, "headers", "sync")
        /\ length' = [length EXCEPT ![t] = 0]
        /\ sending_lock' = Free
        /\ UNCHANGED header
     \/ /\ Goto(t, "headers", "exit") /\ Fails("folder")
        /\ sending_lock' = Free
        /\ UNCHANGED <<header, length>>
  /\ UNCHANGED <<flagVars, folderVars, ret, failed_headers, err, cancelled,
                 action, mainVars, online, history>>

\* The last check of the device before the message is fetched.
Fetch(t) ==
  /\ \/ /\ Goto(t, "fetch", "getMsg") /\ online
        /\ UNCHANGED <<sending_lock, length, header>>
     \/ /\ Goto(t, "fetch", "sync") /\ ~online
        /\ sending_lock' = Free
        /\ length' = [length EXCEPT ![t] = 0]
        /\ header' = [header EXCEPT ![t] = Free]
  /\ UNCHANGED <<flagVars, todo_lock, folderVars, ret, failed_headers, err,
                 cancelled, action, mainVars, online, history>>

\* get_sync: on success sending_lock is released for the time of sending.
\* get_async does not look at cancelled: a fetch that ends with no message and
\* no error is handed to the transport, whose assertion ends the process.
GetMsg(t) ==
  /\ Idle
  /\ \/ /\ Goto(t, "getMsg", "transport") /\ header[t] \in Outbox
        /\ sending_lock' = Free
        /\ UNCHANGED <<err, failed_headers>>
     \/ /\ Goto(t, "getMsg", "check")
        /\ header[t] \notin Outbox \/ Fails("folder")
        /\ err' = [err EXCEPT ![t] = TRUE]
        /\ failed_headers' = [failed_headers EXCEPT ![t] = @ \cup {header[t]}]
        /\ UNCHANGED sending_lock
     \/ /\ Goto(t, "getMsg", "abort") /\ Fails("cancelled")
        /\ sending_lock' = Free
        /\ UNCHANGED <<err, failed_headers>>
  /\ UNCHANGED <<flagVars, todo_lock, folderVars, ret, length, header,
                 cancelled, action, mainVars, online, history>>

\* tny_transport_account_send: connect, send to the recipients, disconnect.  A
\* message without a recipient counts as sent, and a disconnect that fails
\* after the message is out is reported as if sending had failed.
Transport(t) ==
  /\ Goto(t, "transport", "sent")
  /\ \/ /\ sent' = sent \cup ({header[t]} \cap Addressed)
        /\ reported' = reported \cup {header[t]}
        /\ UNCHANGED err
     \/ /\ Fails("transport")
        /\ err' = [err EXCEPT ![t] = TRUE]
        /\ UNCHANGED <<sent, reported>>
     \/ /\ Fails("disconnect")
        /\ sent' = sent \cup ({header[t]} \cap Addressed)
        /\ err' = [err EXCEPT ![t] = TRUE]
        /\ UNCHANGED reported
  /\ UNCHANGED <<flagVars, lockVars, folderVars, ret, length, failed_headers,
                 header, cancelled, action, mainVars, online, told>>

Sent(t) ==
  /\ Goto(t, "sent", "check")
  /\ sending_lock = Free /\ sending_lock' = t
  /\ failed_headers' = [failed_headers EXCEPT
       ![t] = IF err[t] THEN @ \cup {header[t]} ELSE @]
  /\ UNCHANGED <<flagVars, todo_lock, folderVars, ret, length, header, err,
                 cancelled, action, mainVars, online, history>>

\* check_cancel (self, running, &cancel_requested), continuing at to: first
\* take the request, then cancel with is_running as it is by then.
CheckCancel(t, from, running, to) ==
  /\ Goto(t, from, IF cancel_requested THEN "cancel" ELSE to)
  /\ running_lock = Free
  /\ ret' = [ret EXCEPT ![t] = to]
  /\ cancelled' = [cancelled EXCEPT ![t] = cancel_requested]
  /\ action' = [action EXCEPT ![t] = cancel_action]
  /\ cancel_requested' = FALSE
  /\ is_running' = running
  /\ UNCHANGED <<cancel_action, thread, running_lock, lockVars, folderVars,
                 length, failed_headers, header, err, mainVars, online,
                 history>>

Check(t)  == CheckCancel(t, "check", TRUE, "mark")
Check2(t) == CheckCancel(t, "check2", TRUE, "loop")

\* Mutant: a thread that ends leaves the queue marked as running.
Last_Running(t) == CheckCancel(t, "last", TRUE, "stop")

Last(t) == CheckCancel(t, "last", FALSE, "stop")

\* cancel, called by check_cancel: while is_running the request is renewed.
CancelHere(t) ==
  /\ running_lock = Free
  /\ \/ /\ is_running
        /\ Goto(t, "cancel", ret[t])
        /\ cancel_requested' = TRUE
        /\ cancel_action' = action[t]
     \/ /\ ~is_running
        /\ Goto(t, "cancel", "purge")
        /\ UNCHANGED <<cancel_requested, cancel_action>>
  /\ UNCHANGED <<is_running, thread, running_lock, lockVars, folderVars,
                 localVars, mainVars, online, history>>

Purge(t) ==
  /\ Goto(t, "purge", ret[t])
  /\ PurgeOutbox(t, action[t])
  /\ UNCHANGED <<localVars, mainVars, online, history>>

\* Mutant: a message that was sent is not marked before it is moved.
MarkSent_Not(t) == UNCHANGED marks

\* A message that was sent is marked ANSWERED.
MarkSent(t) ==
  IF err[t]
  THEN UNCHANGED marks
  ELSE marks' = [marks EXCEPT ![header[t]] = @ \cup {"ANSWERED"}]

\* Mutant: what became of the sending is not looked at.
Delivered_Always(t) == TRUE

Delivered(t) == ~err[t]

\* Under todo_lock: mark a message that was sent, and start to move it.
Mark(t) ==
  /\ todo_lock = Free
  /\ MarkSent(t)
  /\ \/ Goto(t, "mark", "unlock") /\ ~Delivered(t) /\ UNCHANGED todo_lock
     \/ Goto(t, "mark", "transfer") /\ Delivered(t) /\ todo_lock' = t
  /\ UNCHANGED <<flagVars, sending_lock, place, localVars, mainVars, online,
                 history>>

\* transfer_sync: the sentbox tells its observer, tny_camel_send_queue_update,
\* before the thread goes on.
Transfer(t) ==
  /\ Idle
  /\ Goto(t, "transfer", "unlock")
  /\ todo_lock' = Free
  /\ \/ /\ header[t] \in Outbox
        /\ place' = [place EXCEPT ![header[t]] = "sentbox"]
        /\ notifying' = notifying \cup {header[t]}
     \/ /\ header[t] \notin Outbox \/ Fails("folder")
        /\ UNCHANGED <<place, notifying>>
  /\ UNCHANGED <<flagVars, sending_lock, marks, localVars, posted, arrived,
                 mainPc, mainArg, online, history>>

\* Mutant: the lock is kept when a message has failed.
Release_NotFailed(t) == IF err[t] THEN sending_lock ELSE Free

Release(t) == Free

Unlock(t) ==
  /\ Goto(t, "unlock", "check2")
  /\ sending_lock' = Release(t)
  /\ header' = [header EXCEPT ![t] = Free]
  /\ err' = [err EXCEPT ![t] = FALSE]
  /\ UNCHANGED <<flagVars, todo_lock, folderVars, ret, length,
                 failed_headers, cancelled, action, mainVars, online, history>>

\* sync_sync of both folders.
Sync(t) ==
  /\ Idle
  /\ Goto(t, "sync", "exit")
  /\ UNCHANGED <<flagVars, lockVars, folderVars, localVars, mainVars, online,
                 history>>

\* The error handler: the thread is no longer the thread of the queue.
Exit(t) ==
  /\ Goto(t, "exit", "last")
  /\ thread' = FALSE
  /\ length' = [length EXCEPT ![t] = 0]
  /\ failed_headers' = [failed_headers EXCEPT ![t] = {}]
  /\ header' = [header EXCEPT ![t] = Free]
  /\ UNCHANGED <<is_running, cancel_requested, cancel_action, running_lock,
                 lockVars, folderVars, ret, err, cancelled, action, mainVars, online,
                 history>>

\* Post queue-stop and end.
Stop(t) ==
  /\ Goto(t, "stop", "none")
  /\ posted' = Append(posted, <<"STOP", t>>)
  /\ ret' = [ret EXCEPT ![t] = "loop"]
  /\ cancelled' = [cancelled EXCEPT ![t] = FALSE]
  /\ action' = [action EXCEPT ![t] = "SUSPEND"]
  /\ UNCHANGED <<flagVars, lockVars, folderVars, length, failed_headers,
                 header, err, arrived, mainPc, mainArg, notifying, online,
                 history>>

ThreadStep(t) ==
  \/ Begin(t) \/ First(t) \/ FirstHeaders(t) \/ Loop(t) \/ Lock(t) \/ Todo(t)
  \/ Headers(t) \/ Fetch(t) \/ GetMsg(t) \/ Transport(t) \/ Sent(t)
  \/ Check(t) \/ Check2(t) \/ Last(t) \/ CancelHere(t) \/ Purge(t) \/ Mark(t)
  \/ Transfer(t) \/ Unlock(t) \/ Sync(t) \/ Exit(t) \/ Stop(t)

----------------------------------------------------------------------------
(* The main loop: queue-control signals in the order they were posted, and *)
(* the callbacks of tny_folder_get_msg_async.                              *)

\* Mutant: the thread need not end before queue-stop is posted again.
LastNotice_Dropped(m) == FALSE

\* on_msg_sent_get_msg finds that it answers the last notice, after the end
\* of the thread.
LastNotice(m) == notifying = {m} /\ ~thread

TellStart ==
  /\ Idle
  /\ posted # <<>>
  /\ LET t == Head(posted)[2] IN /\ Head(posted)[1] = "START"
                                 /\ Goto(t, "start", "first")
  /\ told' = "start"
  /\ posted' = Tail(posted)
  /\ UNCHANGED <<flagVars, lockVars, folderVars, localVars, arrived, mainPc,
                 mainArg, notifying, online, sent, reported>>

\* A queue-stop is dropped while notices are pending.
TellStop ==
  /\ Idle
  /\ posted # <<>>
  /\ Head(posted)[1] = "STOP"
  /\ told' = IF notifying = {} THEN "stop" ELSE told
  /\ posted' = Tail(posted)
  /\ UNCHANGED <<flagVars, lockVars, folderVars, pc, localVars, arrived,
                 mainPc, mainArg, notifying, online, sent, reported>>

OnMsgSent(m) ==
  /\ Idle
  /\ m \in notifying
  /\ notifying' = notifying \ {m}
  /\ posted' = IF LastNotice(m) THEN Append(posted, <<"STOP", Free>>)
               ELSE posted
  /\ UNCHANGED <<flagVars, lockVars, folderVars, pc, localVars, arrived,
                 mainPc, mainArg, online, history>>

MainLoop == \/ TellStart \/ TellStop \/ AddLocked \/ CancelLocked
            \/ \E m \in Msgs : OnMsgSent(m) \/ OnAdded(m)

\* The process has not been ended by the assertion.
Running == \A t \in Threads : pc[t] # "abort"

Next == /\ Running
        /\ \/ Application
           \/ Device
           \/ MainLoop
           \/ \E m \in Msgs : Appended(m)
           \/ \E t \in Threads : ThreadStep(t)

Spec == Init /\ [][Next]_vars

\* The threads are scheduled, the main loop serves its sources, and so does
\* the queue of the outbox's account.  No application has to call.
Fairness == /\ \A t \in Threads : WF_vars(ThreadStep(t))
            /\ WF_vars(TellStart \/ TellStop)
            /\ WF_vars(AddLocked) /\ WF_vars(CancelLocked)
            /\ \A m \in Msgs : /\ WF_vars(OnMsgSent(m))
                               /\ WF_vars(OnAdded(m))
                               /\ WF_vars(Appended(m))

FairSpec == Spec /\ Fairness

----------------------------------------------------------------------------
(* Properties.                                                             *)

\* The types of the fields, the folders, the threads' locals and the main loop.
FieldsOK ==
  /\ is_running \in BOOLEAN /\ cancel_requested \in BOOLEAN
  /\ cancel_action \in {"SUSPEND", "REMOVE"} /\ thread \in BOOLEAN
  /\ running_lock \in {Free, Main}
  /\ sending_lock \in Threads \cup {Free} /\ todo_lock \in Threads \cup {Free}
  /\ online \in BOOLEAN

FoldersOK ==
  /\ place \in [Msgs -> {"draft", "adding", "outbox", "sentbox", "removed"}]
  /\ marks \in [Msgs -> SUBSET {"SUSPENDED", "ANSWERED"}]
  /\ sent \subseteq Msgs /\ reported \subseteq Msgs

LocalsOK ==
  /\ ret \in [Threads -> ReturnPc]
  /\ length \in [Threads -> Nat] /\ failed_headers \in [Threads -> SUBSET Msgs]
  /\ header \in [Threads -> Msgs \cup {Free}] /\ err \in [Threads -> BOOLEAN]
  /\ cancelled \in [Threads -> BOOLEAN]
  /\ action \in [Threads -> {"SUSPEND", "REMOVE"}]

\* What is posted to the main loop: the signal and the thread that waits for it.
Signals == {"START", "STOP"} \X (Threads \cup {Free})

MainOK ==
  /\ posted \in Seq(Signals)
  /\ arrived \subseteq Msgs /\ notifying \subseteq Msgs
  /\ mainPc \in {"idle", "add", "purge"}
  /\ mainArg \in Msgs \cup {Free} \cup CancelActions
  /\ told \in {"start", "stop"}

\* Every variable keeps the type that its declaration in the code gives it.
TypeOK == /\ FieldsOK /\ FoldersOK /\ LocalsOK /\ MainOK
          /\ pc \in [Threads -> ThreadPc]

\* A thread after the point at which it gives up is_running.
Ended(t) == \/ pc[t] \in {"none", "stop"}
            \/ pc[t] \in {"cancel", "purge"} /\ ret[t] = "stop"

\* At most one thread is sending: "added some locking to prevent two send
\* queue threads running at the same time" (ChangeLog:1255).
OneSender == \A s, t \in Threads : ~Ended(s) /\ ~Ended(t) => s = t

\* A message whose sending was reported without an error is not handed to the
\* transport again, whatever fails and however often the queue is flushed: "To
\* avoid this, we mark the message as TNY_HEADER_FLAG_ANSWERED"
\* (ChangeLog:2257).  A message that is out but whose disconnect fails is not
\* covered: the code takes it for failed and a later flush sends it again.
SentOnce == \A t \in Threads : pc[t] = "transport" => header[t] \notin reported

\* A message whose sending was reported without an error and that is still in
\* the outbox is marked, so that no thread picks it up again, or is about to be
\* marked by the thread that sent it.
SentIsMarked ==
  \A m \in reported :
    place[m] = "outbox" =>
      \/ "ANSWERED" \in marks[m]
      \/ \E t \in Threads : /\ header[t] = m /\ ~err[t]
                            /\ pc[t] \in {"sent", "check", "cancel", "purge",
                                          "mark"}

\* What has a recipient and is filed in the sentbox is out.
FiledWasSent == \A m \in Addressed : place[m] = "sentbox" => m \in sent

\* A cancel is neither lost nor left for a later run: while a request stands,
\* or the queue says that it runs, a thread is there that will look at it ("if
\* queue is running when we cancel, then we request cancel to be done by the
\* send queue thread", ChangeLog:991).
RequestHasThread == cancel_requested \/ is_running => \E t \in Threads : ~Ended(t)

\* A thread does not fail for ever, wait for ever for a lock, or go round in
\* circles: it ends.
ThreadEnds == \A t \in Threads : pc[t] # "none" ~> pc[t] = "none"

\* The queue-start that applications are told of is followed by a queue-stop,
\* though the one that the thread posts is dropped while notices are pending.
StopFollowsStart == told = "start" ~> told = "stop"
=============================================================================
