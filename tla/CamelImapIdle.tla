--------------------------- MODULE CamelImapIdle ---------------------------
(***************************************************************************)
(* IDLE on the connection of an IMAP store: providers/imap/                *)
(* camel-imap-folder.c and camel-imap-store.c of camel-lite.               *)
(*                                                                         *)
(* The server is left in IDLE while nobody uses the connection, by an idle *)
(* thread that reads what the server sends.  Whoever wants the connection  *)
(* first stops the idle thread and sends DONE in its place; whoever leaves *)
(* it last starts a new idle thread, and waits until that has sent IDLE.   *)
(* Five locks are at work: the wait reasons, connect, idle (with prefix,   *)
(* which is only ever taken inside it) and the thread's idle_t_lock.  What *)
(* is done between two lock operations is one action, and so is each       *)
(* unlocked access to what others write.                                   *)
(***************************************************************************)
EXTENDS Integers, FiniteSets

CONSTANTS
  Workers,     \* threads that perform commands on the connection
  Main,        \* the thread of set_push_email and can_idle
  Closer,      \* the thread that takes the service offline
  IdleThreads, \* identities for the threads g_thread_create makes
  Nobody,      \* NULL; no owner of a lock
  MainCalls,   \* what Main calls: "push on", "push off", "allow", "block"
  Closes,      \* TRUE if Closer disconnects the service
  LostUpdates, \* TRUE if the unlocked decrement may race with another thread
  MaxOps,      \* commands per worker
  MaxCalls     \* calls of Main

Actors == Workers \cup {Main, Closer}
Line   == {"fetch", "exists"}     \* what the server may tell unasked

ASSUME IdleAssumption ==
  /\ IsFiniteSet(Workers) /\ IsFiniteSet(IdleThreads)
  /\ Workers \cap {Main, Closer} = {} /\ Main # Closer
  /\ Actors \cap IdleThreads = {} /\ Nobody \notin Actors \cup IdleThreads
  /\ MainCalls \subseteq {"push on", "push off", "allow", "block"}
  /\ Closes \in BOOLEAN /\ LostUpdates \in BOOLEAN
  /\ MaxOps \in Nat /\ MaxCalls \in Nat

VARIABLES
  \* The locks: their owners, and how often connect_lock is held.
  reasons_lock, connect, depth, idle_lock, t_lock,
  \* CamelImapStore: idle_wait_reasons, idle_cont, in_idle, idle_kill,
  \* idle_send_done_happened, idle_thread; and idle_prefix: "none" for NULL,
  \* "set", or "freed" while it points to freed memory.
  reasons, cont, in_idle, kill, done_happened, thread, prefix,
  \* do_push_email, idle_blocked, current_folder # NULL, and being online.
  push, blocked, folder, online,
  \* The idle threads: program counter, my_cont, first, whether the creator
  \* has been told, and (of all threads) the lines read and not processed.
  ipc, my_cont, first, told, resp,
  \* The others: program counter, the value read by reasons--, commands done.
  pc, tmp, ops,
  \* The server, and the lines it has sent that nobody has read.
  server, pending,
  \* History: breaches of the protocol, as pairs of what was sent and whether
  \* the idle thread had renewed its IDLE; and lines thrown away by a join.
  breaches, renewed, dropped

lockVars   == <<reasons_lock, connect, depth, idle_lock, t_lock>>
storeVars  == <<cont, in_idle, kill, done_happened, thread, prefix>>
confVars   == <<push, blocked, folder, online>>
threadVars == <<ipc, my_cont, first, told>>
actorVars  == <<pc, tmp, ops>>
wireVars   == <<server, pending>>
history    == <<breaches, renewed, dropped>>
vars == <<lockVars, reasons, storeVars, confVars, threadVars, resp, actorVars,
          wireVars, history>>

IdlePc  == {"none", "spawned", "begin", "loop", "try", "pass", "tell", "body",
            "done", "decide", "after", "finish", "ended"}
ActorPc == {"free", "enter", "load", "store", "stop", "lock", "send", "join",
            "reap", "clear", "forget", "write", "unlock", "check", "start",
            "prefix", "again", "rejoin", "create", "await", "die", "logout",
            "close", "leave"}

Init ==
  /\ reasons_lock = Nobody /\ connect = Nobody /\ depth = 0
  /\ idle_lock = Nobody /\ t_lock = Nobody /\ reasons = 0
  /\ cont = FALSE /\ in_idle = FALSE /\ kill = FALSE /\ done_happened = FALSE
  /\ thread = Nobody /\ prefix = "none"
  /\ push = TRUE /\ blocked = TRUE /\ folder = FALSE /\ online = TRUE
  /\ ipc = [t \in IdleThreads |-> "none"]
  /\ my_cont = [t \in IdleThreads |-> FALSE]
  /\ first = [t \in IdleThreads |-> TRUE]
  /\ told = [t \in IdleThreads |-> FALSE]
  /\ resp = [p \in IdleThreads \cup Actors |-> {}]
  /\ pc = [a \in Actors |-> "free"] /\ tmp = [a \in Actors |-> 0]
  /\ ops = [a \in Actors |-> 0]
  /\ server = "ready" /\ pending = {}
  /\ breaches = {} /\ renewed = FALSE /\ dropped = {}

----------------------------------------------------------------------------
(* What the actions are made of.                                           *)

Go(a, to)   == pc' = [pc EXCEPT ![a] = to]
IGo(t, to)  == ipc' = [ipc EXCEPT ![t] = to]
Gets(p, ls) == resp' = [resp EXCEPT ![p] = ls]

\* Commands and calls are bounded by MaxOps and MaxCalls.
Call(a) == /\ ops[a] < (IF a = Main THEN MaxCalls ELSE MaxOps)
           /\ ops' = [ops EXCEPT ![a] = @ + 1]

\* CAMEL_SERVICE_REC_TRYLOCK and _UNLOCK of connect_lock.
Available(p) == connect \in {Nobody, p}
Connect(p)   == connect' = p /\ depth' = depth + 1
\* Mutant: a path that unlocks connect_lock twice.
Disconnect_Twice == depth' = depth - 2 /\ connect' = Nobody

Disconnect == /\ depth' = depth - 1
              /\ connect' = IF depth = 1 THEN Nobody ELSE connect

\* Mutants: idle is started though others have reasons; a try is not uncounted.
NoReasons_Ignored == TRUE
Uncount_Not == UNCHANGED reasons

\* What start_idle_if_unlocked looks at.
NoReasons == reasons = 0

\* idle_wait_reasons-- of a try that failed.
Uncount == reasons' = reasons - 1

\* Mutant: what is left from the last idle thread is not looked at.
SendsDone_Again(a) == a # Main

\* The owner of connect_lock has to send DONE itself, once.
SendsDone(a) == a # Main /\ ~done_happened

\* Mutants: an idle thread is created beside one that runs; the flag of the last
\* one is kept; nobody is told that it runs; IDLE is not started when allowed.
MayCreate_Unchecked == TRUE
Reset_Not == UNCHANGED done_happened
TellCreator_Not(t) == UNCHANGED told

\* in_idle keeps start_idle from creating a second thread.
MayCreate == ~in_idle

\* idle_send_done_happened of a new thread.
Reset == done_happened' = FALSE

\* g_cond_broadcast to the creator, with had_cond.
TellCreator(t) == told' = [told EXCEPT ![t] = TRUE]

\* imap_can_idle starts idle unless it is to block it.
AfterCall(can_idle) == IF can_idle THEN "check" ELSE "free"

\* A line of the client that the server's state does not allow.
Breach(sent, wrong) ==
  breaches' = IF wrong THEN breaches \cup {<<sent, renewed>>} ELSE breaches

\* DONE, and all that the server says up to the tagged response.  The last DONE
\* is the one of those who kill the idle thread.
SendDone(done) == /\ Breach(done, server # "idling")
                  /\ server' = "ready" /\ pending' = {}

\* A command: what was unread is read away first.  A server in IDLE takes it
\* for a bad DONE: it leaves IDLE and refuses the command.
SendCommand == /\ Breach("command", server = "idling")
               /\ server' = "ready" /\ pending' = {}

----------------------------------------------------------------------------
(* _camel_lite_imap_store_stop_idle_connect_lock, entered by a command, by *)
(* the reader of its response, and by imap_disconnect_online.              *)

Begin(w) ==
  /\ pc[w] = "free" /\ online
  /\ Call(w) /\ Go(w, "enter")
  /\ UNCHANGED <<lockVars, reasons, storeVars, confVars, threadVars, resp, tmp,
                 wireVars, history>>

\* One turn of the loop: the reason is counted, then connect_lock is tried.
Enter(a) ==
  /\ pc[a] = "enter" /\ reasons_lock = Nobody
  /\ reasons' = reasons + 1
  /\ IF Available(a)
     THEN reasons_lock' = a /\ Connect(a) /\ Go(a, "stop")
     ELSE UNCHANGED <<reasons_lock, connect, depth>> /\ Go(a, "load")
  /\ UNCHANGED <<idle_lock, t_lock, storeVars, confVars, threadVars, resp, tmp,
                 ops, wireVars, history>>

\* idle_wait_reasons--, after idle_wait_reasons_lock has been released.
Load(a) ==
  /\ pc[a] = "load"
  /\ IF LostUpdates
     THEN tmp' = [tmp EXCEPT ![a] = reasons] /\ Go(a, "store")
          /\ UNCHANGED reasons
     ELSE Uncount /\ Go(a, "enter") /\ UNCHANGED tmp
  /\ UNCHANGED <<lockVars, storeVars, confVars, threadVars, resp, ops, wireVars,
                 history>>

\* The data race: an update of another thread may be lost, or this one.
Store(a) ==
  /\ pc[a] = "store"
  /\ reasons' \in {tmp[a] - 1, reasons - 1}
                    \cup (IF reasons # tmp[a] THEN {reasons} ELSE {})
  /\ Go(a, "enter")
  /\ UNCHANGED <<lockVars, storeVars, confVars, threadVars, resp, tmp, ops,
                 wireVars, history>>

----------------------------------------------------------------------------
(* Stopping the idle thread.                                               *)

\* Where a stop returns to.  imap_command_start and imap_disconnect_offline
\* stop again, without the reasons' lock.
AfterStop(a) ==
  CASE a = Main -> "free"
    [] a = Closer -> IF reasons_lock = a THEN "logout" ELSE "close"
    [] OTHER -> IF reasons_lock # a THEN "write"
                ELSE IF depth = 1 THEN "stop" ELSE "unlock"

Stopped(a) ==
  /\ Go(a, AfterStop(a))
  /\ reasons_lock' = IF reasons_lock = a THEN Nobody ELSE reasons_lock

\* _camel_lite_imap_store_stop_idle, or (Main) camel_lite_imap_folder_stop_idle.
Stop(a) ==
  /\ pc[a] = "stop"
  /\ cont' = FALSE
  /\ \/ /\ folder /\ Go(a, "lock")
        /\ UNCHANGED <<reasons_lock, in_idle, kill, prefix, breaches, wireVars>>
     \/ /\ ~folder /\ a # Main
        /\ idle_lock = Nobody
        /\ kill' = TRUE
        /\ IF prefix # "none"
           THEN SendDone("last DONE") /\ in_idle' = FALSE /\ prefix' = "none"
           ELSE UNCHANGED <<in_idle, prefix, breaches, wireVars>>
        /\ Stopped(a)
     \/ /\ ~folder /\ a = Main
        /\ IF online THEN Go(a, "lock") ELSE Go(a, "free")
        /\ UNCHANGED <<reasons_lock, in_idle, kill, prefix, breaches, wireVars>>
  /\ UNCHANGED <<connect, depth, idle_lock, t_lock, reasons, done_happened,
                 thread, confVars, threadVars, resp, tmp, ops, renewed, dropped>>

\* stop_idle: nothing to stop but the prefix, or a thread to be joined.
Lock(a) ==
  /\ pc[a] = "lock" /\ t_lock = Nobody
  /\ IF in_idle /\ thread # Nobody
     THEN /\ t_lock' = a /\ cont' = FALSE
          /\ Go(a, IF SendsDone(a) THEN "send" ELSE "join")
          /\ UNCHANGED <<reasons_lock, prefix>>
     ELSE prefix' = "none" /\ Stopped(a) /\ UNCHANGED <<t_lock, cont>>
  /\ UNCHANGED <<connect, depth, idle_lock, reasons, in_idle, kill,
                 done_happened, thread, confVars, threadVars, resp, tmp, ops,
                 wireVars, history>>

\* do_send_done, up to the processing of what was read.
DoSendDone(p) ==
  IF prefix # "none" /\ ~kill
  THEN Gets(p, resp[p] \cup pending) /\ SendDone("DONE")
  ELSE UNCHANGED <<resp, breaches, wireVars>>

\* send_done_in_stop_idle: the owner of connect_lock does what the idle thread
\* cannot do meanwhile.
Send(a) ==
  /\ pc[a] = "send"
  /\ IF prefix = "none" /\ ~kill /\ idle_lock = Nobody
     THEN /\ Gets(a, pending) /\ pending' = {}
          /\ UNCHANGED <<breaches, server>>
     ELSE DoSendDone(a)
  /\ done_happened' = TRUE
  /\ Go(a, "reap")
  /\ UNCHANGED <<lockVars, reasons, cont, in_idle, kill, thread, prefix,
                 confVars, threadVars, tmp, ops, renewed, dropped>>

\* g_thread_join; after send_done_in_stop_idle its result is not looked at.
Join(a) ==
  /\ pc[a] \in {"join", "reap"} /\ ipc[thread] = "ended"
  /\ IF pc[a] = "join"
     THEN /\ resp' = [resp EXCEPT ![a] = resp[thread], ![thread] = {}]
          /\ UNCHANGED dropped
     ELSE Gets(thread, {}) /\ dropped' = dropped \cup resp[thread]
  /\ IGo(thread, "none")
  /\ Go(a, "clear")
  /\ UNCHANGED <<lockVars, reasons, storeVars, confVars, my_cont, first, told,
                 tmp, ops, wireVars, breaches, renewed>>

\* The idle thread is forgotten and its prefix freed; then what was read is
\* processed.
Clear(a) ==
  /\ pc[a] = "clear" /\ idle_lock = Nobody
  /\ in_idle' = FALSE /\ thread' = Nobody
  /\ prefix' = IF prefix = "none" THEN "none" ELSE "freed"
  /\ Gets(a, {})
  /\ Go(a, "forget")
  /\ UNCHANGED <<lockVars, reasons, cont, kill, done_happened, confVars,
                 threadVars, tmp, ops, wireVars, history>>

Forget(a) ==
  /\ pc[a] = "forget"
  /\ prefix' = "none" /\ t_lock' = Nobody
  /\ Stopped(a)
  /\ UNCHANGED <<connect, depth, idle_lock, reasons, cont, in_idle, kill,
                 done_happened, thread, confVars, threadVars, resp, tmp, ops,
                 wireVars, history>>

----------------------------------------------------------------------------
(* The command, and leaving the connection.                                *)

\* imap_command_start: SELECT makes the folder current.  imap_read_response
\* then enters a second time.
Write(w) ==
  /\ pc[w] = "write"
  /\ IF online THEN SendCommand /\ folder' = TRUE /\ Go(w, "enter")
               ELSE UNCHANGED <<breaches, wireVars, folder>> /\ Go(w, "unlock")
  /\ UNCHANGED <<lockVars, reasons, storeVars, push, blocked, online, threadVars,
                 resp, tmp, ops, renewed, dropped>>

\* _camel_lite_imap_store_connect_unlock_start_idle; of Closer, _no_start_idle.
Unlock(a) ==
  /\ pc[a] = "unlock" /\ reasons_lock = Nobody
  /\ reasons > 0                              \* g_assert
  /\ reasons' = reasons - 1
  /\ Disconnect
  /\ \/ /\ a # Closer /\ reasons' = 0
        /\ reasons_lock' = a /\ Go(a, "start")
     \/ /\ a # Closer /\ reasons' # 0
        /\ Go(a, IF depth = 1 THEN "free" ELSE "unlock")
        /\ UNCHANGED reasons_lock
     \/ /\ a = Closer
        /\ Go(a, "leave")
        /\ UNCHANGED reasons_lock
  /\ UNCHANGED <<idle_lock, t_lock, storeVars, confVars, threadVars, resp, tmp,
                 ops, wireVars, history>>

----------------------------------------------------------------------------
(* camel_lite_imap_folder_start_idle, with idle_wait_reasons_lock held.    *)

\* Out of start_idle: a worker that still owns connect_lock has more to undo.
Started(a) ==
  /\ reasons_lock' = Nobody
  /\ Go(a, IF connect = a THEN "unlock" ELSE "free")

Start(a) ==
  /\ pc[a] = "start"
  /\ IF folder /\ online /\ push /\ ~blocked
     THEN Go(a, "prefix") /\ UNCHANGED reasons_lock
     ELSE Started(a)
  /\ UNCHANGED <<connect, depth, idle_lock, t_lock, reasons, storeVars,
                 confVars, threadVars, resp, tmp, ops, wireVars, history>>

\* An idle_prefix that is not NULL means that IDLE is under way.
Prefix(a) ==
  /\ pc[a] = "prefix" /\ idle_lock = Nobody
  /\ IF folder /\ prefix = "none"
     THEN idle_lock' = a /\ Go(a, "again") /\ UNCHANGED reasons_lock
     ELSE Started(a) /\ UNCHANGED idle_lock
  /\ UNCHANGED <<connect, depth, t_lock, reasons, storeVars, confVars,
                 threadVars, resp, tmp, ops, wireVars, history>>

\* An idle thread that has ended by itself is still to be joined.
Again(a) ==
  /\ pc[a] = "again" /\ t_lock = Nobody
  /\ t_lock' = a
  /\ IF ~in_idle /\ thread # Nobody
     THEN cont' = FALSE /\ Go(a, "rejoin")
     ELSE Go(a, "create") /\ UNCHANGED cont
  /\ UNCHANGED <<reasons_lock, connect, depth, idle_lock, reasons, in_idle, kill,
                 done_happened, thread, prefix, confVars, threadVars, resp, tmp,
                 ops, wireVars, history>>

Rejoin(a) ==
  /\ pc[a] = "rejoin" /\ ipc[thread] = "ended"
  /\ IGo(thread, "none") /\ Gets(thread, {})
  /\ thread' = Nobody
  /\ Go(a, "create")
  /\ UNCHANGED <<lockVars, reasons, cont, in_idle, kill, done_happened, prefix,
                 confVars, my_cont, first, told, tmp, ops, wireVars, history>>

Create(a) ==
  /\ pc[a] = "create"
  /\ \/ /\ MayCreate
        /\ kill' = FALSE /\ in_idle' = TRUE /\ cont' = TRUE
        /\ \E t \in IdleThreads :
             /\ ipc[t] = "none"
             /\ IGo(t, "spawned")
             /\ first' = [first EXCEPT ![t] = TRUE]
             /\ told' = [told EXCEPT ![t] = FALSE]
             /\ thread' = t
        /\ Go(a, "await")
        /\ UNCHANGED <<reasons_lock, idle_lock, t_lock>>
     \/ /\ in_idle
        /\ t_lock' = Nobody /\ idle_lock' = Nobody
        /\ Started(a)
        /\ UNCHANGED <<kill, in_idle, cont, thread, ipc, first, told>>
  /\ UNCHANGED <<connect, depth, reasons, done_happened, prefix, confVars,
                 my_cont, resp, tmp, ops, wireVars, history>>

\* g_cond_wait for the new thread, with three locks held.
Await(a) ==
  /\ pc[a] = "await" /\ told[thread]
  /\ t_lock' = Nobody /\ idle_lock' = Nobody
  /\ Started(a)
  /\ UNCHANGED <<connect, depth, reasons, storeVars, confVars, threadVars, resp,
                 tmp, ops, wireVars, history>>

----------------------------------------------------------------------------
(* idle_thread.                                                            *)

\* The early returns: without push the creator is not told.
Spawned(t) ==
  /\ ipc[t] = "spawned"
  /\ IGo(t, IF push THEN "begin" ELSE "ended")
  /\ UNCHANGED <<lockVars, reasons, storeVars, confVars, my_cont, first, told,
                 resp, actorVars, wireVars, history>>

BeginIdle(t) ==
  /\ ipc[t] = "begin"
  /\ my_cont' = [my_cont EXCEPT ![t] = cont]
  /\ Reset
  /\ IGo(t, "loop")
  /\ UNCHANGED <<lockVars, reasons, cont, in_idle, kill, thread, prefix,
                 confVars, first, told, resp, actorVars, wireVars, history>>

Loop(t) ==
  /\ ipc[t] = "loop"
  /\ IGo(t, IF my_cont[t] /\ ~kill /\ (cont \/ ~done_happened)
            THEN "try" ELSE "after")
  /\ UNCHANGED <<lockVars, reasons, storeVars, confVars, my_cont, first, told,
                 resp, actorVars, wireVars, history>>

Try(t) ==
  /\ ipc[t] = "try" /\ Available(t)
  /\ Connect(t) /\ IGo(t, "pass")
  /\ UNCHANGED <<reasons_lock, idle_lock, t_lock, reasons, storeVars, confVars,
                 my_cont, first, told, resp, actorVars, wireVars, history>>

TryFails(t) ==
  /\ ipc[t] = "try" /\ ~Available(t)
  /\ IGo(t, "loop")
  /\ UNCHANGED <<lockVars, reasons, storeVars, confVars, my_cont, first, told,
                 resp, actorVars, wireVars, history>>

\* A) idle_real_start, at first and after each renewal.
Pass(t) ==
  /\ ipc[t] = "pass"
  /\ IF cont /\ first[t]
     THEN /\ first' = [first EXCEPT ![t] = FALSE] /\ renewed' = told[t]
          /\ IF ~kill
             THEN /\ Breach("IDLE", server = "idling")
                  /\ server' = "idling" /\ prefix' = "set"
             ELSE UNCHANGED <<breaches, server, prefix>>
     ELSE UNCHANGED <<first, breaches, renewed, server, prefix>>
  /\ IGo(t, "tell")
  /\ UNCHANGED <<lockVars, reasons, cont, in_idle, kill, done_happened, thread,
                 confVars, my_cont, told, resp, actorVars, pending, dropped>>

Tell(t) ==
  /\ ipc[t] = "tell"
  /\ TellCreator(t)
  /\ IGo(t, "body")
  /\ UNCHANGED <<lockVars, reasons, storeVars, confVars, my_cont, first, resp,
                 actorVars, wireVars, history>>

\* B) The lines that are there are read, unless others hold idle_lock or wait
\* for the end.  Flags are processed at once, new messages need DONE first.
Body(t) ==
  /\ ipc[t] = "body"
  /\ LET lines == IF kill \/ idle_lock # Nobody THEN {} ELSE pending
     IN /\ pending' = pending \ lines
        /\ \/ /\ cont /\ "exists" \notin lines      \* go on
              /\ Disconnect /\ IGo(t, "loop")
              /\ UNCHANGED resp
           \/ /\ cont /\ "exists" \notin lines      \* cnt > idle_sleep
              /\ IGo(t, "done")
              /\ UNCHANGED <<connect, depth, resp>>
           \/ /\ ~cont \/ "exists" \in lines
              /\ Gets(t, lines) /\ IGo(t, "done")
              /\ UNCHANGED <<connect, depth>>
  /\ UNCHANGED <<reasons_lock, idle_lock, t_lock, reasons, storeVars, confVars,
                 my_cont, first, told, actorVars, server, history>>

\* C) do_send_done.
Done(t) ==
  /\ ipc[t] = "done"
  /\ DoSendDone(t)
  /\ IGo(t, "decide")
  /\ UNCHANGED <<lockVars, reasons, storeVars, confVars, my_cont, first, told,
                 actorVars, renewed, dropped>>

\* The end of do_send_done and of the block: IDLE is to be sent again, or what
\* was read is left to the thread that joins this one.
Decide(t) ==
  /\ ipc[t] = "decide"
  /\ done_happened' = TRUE
  /\ IF cont
     THEN /\ Gets(t, {})
          /\ dropped' = IF prefix = "none" THEN dropped \cup resp[t] ELSE dropped
          /\ first' = [first EXCEPT ![t] = TRUE] /\ renewed' = TRUE
          /\ UNCHANGED my_cont
     ELSE /\ my_cont' = [my_cont EXCEPT ![t] = FALSE]
          /\ UNCHANGED <<resp, dropped, first, renewed>>
  /\ Disconnect /\ IGo(t, "loop")
  /\ UNCHANGED <<reasons_lock, idle_lock, t_lock, reasons, cont, in_idle, kill,
                 thread, prefix, confVars, told, actorVars, wireVars, breaches>>

\* A creator that the loop has not told is told now.
After(t) ==
  /\ ipc[t] = "after"
  /\ TellCreator(t)
  /\ IGo(t, "finish")
  /\ UNCHANGED <<lockVars, reasons, storeVars, confVars, my_cont, first, resp,
                 actorVars, wireVars, history>>

Finish(t) ==
  /\ ipc[t] = "finish"
  /\ in_idle' = FALSE
  /\ IGo(t, "ended")
  /\ UNCHANGED <<lockVars, reasons, cont, kill, done_happened, thread, prefix,
                 confVars, my_cont, first, told, resp, actorVars, wireVars,
                 history>>

----------------------------------------------------------------------------
(* imap_set_push_email and imap_can_idle.                                  *)

SetPush(setting) ==
  /\ pc[Main] = "free"
  /\ (IF setting THEN "push on" ELSE "push off") \in MainCalls
  /\ push # setting
  /\ push' = setting
  /\ Call(Main) /\ Go(Main, IF setting THEN "check" ELSE "stop")
  /\ UNCHANGED <<lockVars, reasons, storeVars, blocked, folder, online,
                 threadVars, resp, tmp, wireVars, history>>

CanIdle(can_idle) ==
  /\ pc[Main] = "free"
  /\ (IF can_idle THEN "allow" ELSE "block") \in MainCalls
  /\ blocked' = ~can_idle
  /\ Call(Main) /\ Go(Main, AfterCall(can_idle))
  /\ UNCHANGED <<lockVars, reasons, storeVars, push, folder, online, threadVars,
                 resp, tmp, wireVars, history>>

\* _camel_lite_imap_store_start_idle_if_unlocked.
StartIfUnlocked ==
  /\ pc[Main] = "check" /\ reasons_lock = Nobody
  /\ IF NoReasons
     THEN reasons_lock' = Main /\ Go(Main, "start")
     ELSE Go(Main, "free") /\ UNCHANGED reasons_lock
  /\ UNCHANGED <<connect, depth, idle_lock, t_lock, reasons, storeVars,
                 confVars, threadVars, resp, tmp, ops, wireVars, history>>

----------------------------------------------------------------------------
(* camel_lite_service_disconnect, cleanly: connect_lock is held throughout. *)

Close ==
  /\ pc[Closer] = "free" /\ Closes /\ online /\ connect = Nobody
  /\ Connect(Closer) /\ Go(Closer, "die")
  /\ UNCHANGED <<reasons_lock, idle_lock, t_lock, reasons, storeVars, confVars,
                 threadVars, resp, tmp, ops, wireVars, history>>

LetIdleDie ==
  /\ pc[Closer] = "die" /\ idle_lock = Nobody
  /\ kill' = TRUE /\ cont' = FALSE
  /\ IF prefix # "none"
     THEN SendDone("last DONE") /\ prefix' = "none"
     ELSE UNCHANGED <<breaches, wireVars, prefix>>
  /\ Go(Closer, "enter")
  /\ UNCHANGED <<lockVars, reasons, in_idle, done_happened, thread, confVars,
                 threadVars, resp, tmp, ops, renewed, dropped>>

\* The command LOGOUT; its own turns at connect_lock are within Closer's.
Logout ==
  /\ pc[Closer] = "logout"
  /\ SendCommand
  /\ Go(Closer, "stop")
  /\ UNCHANGED <<lockVars, reasons, storeVars, confVars, threadVars, resp, tmp,
                 ops, renewed, dropped>>

\* imap_disconnect_offline: the streams are closed, no folder is current.
CloseStreams ==
  /\ pc[Closer] = "close"
  /\ online' = FALSE /\ folder' = FALSE
  /\ server' = "ready" /\ pending' = {}
  /\ Go(Closer, "unlock")
  /\ UNCHANGED <<lockVars, reasons, storeVars, push, blocked, threadVars, resp,
                 tmp, ops, history>>

Closed ==
  /\ pc[Closer] = "leave"
  /\ Disconnect /\ Go(Closer, "free")
  /\ UNCHANGED <<reasons_lock, idle_lock, t_lock, reasons, storeVars, confVars,
                 threadVars, resp, tmp, ops, wireVars, history>>

\* The server tells of a change while it idles.
Arrive(l) ==
  /\ server = "idling" /\ l \notin pending
  /\ pending' = pending \cup {l}
  /\ UNCHANGED <<lockVars, reasons, storeVars, confVars, threadVars, resp,
                 actorVars, server, history>>

----------------------------------------------------------------------------
StopStep(a)  == Stop(a) \/ Lock(a) \/ Send(a) \/ Join(a) \/ Clear(a) \/ Forget(a)
StartStep(a) == \/ Start(a) \/ Prefix(a) \/ Again(a) \/ Rejoin(a) \/ Create(a)
                \/ Await(a)
LockStep(a)  == Enter(a) \/ Load(a) \/ Store(a) \/ Unlock(a)
ActorStep(a) == StopStep(a) \/ StartStep(a) \/ (a # Main /\ LockStep(a))
WorkerStep(w) == ActorStep(w) \/ Write(w)
MainStep     == ActorStep(Main) \/ StartIfUnlocked
CloserStep   == \/ ActorStep(Closer) \/ LetIdleDie \/ Logout \/ CloseStreams
                \/ Closed
IdleStep(t)  == \/ Spawned(t) \/ BeginIdle(t) \/ Loop(t) \/ Try(t) \/ TryFails(t)
                \/ Pass(t) \/ Tell(t) \/ Body(t) \/ Done(t) \/ Decide(t)
                \/ After(t) \/ Finish(t)

Next ==
  \/ \E w \in Workers : Begin(w) \/ WorkerStep(w)
  \/ MainStep \/ (\E b \in BOOLEAN : SetPush(b) \/ CanIdle(b))
  \/ CloserStep \/ Close
  \/ \E t \in IdleThreads : IdleStep(t)
  \/ \E l \in Line : Arrive(l)

Spec == Init /\ [][Next]_vars

\* The threads run, and the idle thread finds connect_lock free when it is free
\* time and again.  The idle thread sleeps 500 ms between its turns
\* (IDLE_TICK_TIME), the others try every 100 ms (STOP_IDLE_LOOP_WAIT): who
\* tries again and again does not find connect_lock taken every time.
Fairness ==
  /\ \A w \in Workers : WF_vars(WorkerStep(w))
  /\ WF_vars(MainStep) /\ WF_vars(CloserStep)
  /\ \A t \in IdleThreads : WF_vars(IdleStep(t)) /\ SF_vars(Try(t))

Succeeds(w) == connect \in {Nobody, w} /\ Enter(w)
Tries(w)    == pc[w] = "enter" /\ reasons_lock = Nobody
Turns(w)    == /\ []<>Tries(w) => []<>(Tries(w) /\ connect = Nobody)
               /\ SF_vars(Succeeds(w))

FairSpec == Spec /\ Fairness /\ \A w \in Workers : Turns(w)

----------------------------------------------------------------------------
TypeOK ==
  /\ reasons_lock \in Actors \cup {Nobody}
  /\ connect \in Actors \cup IdleThreads \cup {Nobody} /\ depth \in Nat
  /\ idle_lock \in Actors \cup {Nobody} /\ t_lock \in Actors \cup {Nobody}
  /\ reasons \in Int
  /\ cont \in BOOLEAN /\ in_idle \in BOOLEAN /\ kill \in BOOLEAN
  /\ done_happened \in BOOLEAN /\ thread \in IdleThreads \cup {Nobody}
  /\ prefix \in {"none", "set", "freed"}
  /\ push \in BOOLEAN /\ blocked \in BOOLEAN /\ folder \in BOOLEAN
  /\ online \in BOOLEAN
  /\ ipc \in [IdleThreads -> IdlePc] /\ my_cont \in [IdleThreads -> BOOLEAN]
  /\ first \in [IdleThreads -> BOOLEAN] /\ told \in [IdleThreads -> BOOLEAN]
  /\ resp \in [IdleThreads \cup Actors -> SUBSET Line]
  /\ pc \in [Actors -> ActorPc] /\ tmp \in [Actors -> Int]
  /\ ops \in [Actors -> Nat]
  /\ server \in {"ready", "idling"} /\ pending \subseteq Line
  /\ breaches \subseteq {"DONE", "last DONE", "command", "IDLE"} \X BOOLEAN
  /\ renewed \in BOOLEAN /\ dropped \subseteq Line

Live(t) == ipc[t] \notin {"none", "ended"}

\* No idle thread is ever lost sight of: one that runs is the one in
\* idle_thread, so that a second is never beside it on the connection, although
\* in_idle is written by the thread itself and by those who stop it.
OneIdleThread == \A t \in IdleThreads : Live(t) => thread = t

\* Between entering and leaving, a worker has the connection without any idle
\* thread: "This should open an area where imap operations requested by user
\* are executed, and block idle loop meanwhile" (camel-imap-store.c:330).
AreaIsQuiet ==
  \A w \in Workers :
    pc[w] = "write" \/ (pc[w] = "unlock" /\ connect = w) =>
      \A t \in IdleThreads : ~Live(t)

\* As long as the idle thread has sent IDLE once only, commands go to a server
\* that listens, DONE to one that idles and IDLE to one that does not, whoever
\* stops, starts or switches push.  Not so for the DONE of who kills the thread,
\* which may be the second one.
ProtocolUntilRenewal == \A b \in breaches : b[1] = "last DONE" \/ b[2]

\* What is read from the server is processed by some thread: by the idle thread,
\* by the one that sends DONE for it, or by the one that joins it; a join whose
\* result nobody looks at has none.
NothingDropped == dropped = {}

\* idle_wait_reasons is "the number of connect lock recursions that should force
\* idle to wait" (camel-imap-store.c:397), and the tries under way.  The count of
\* camel_lite_service_disconnect itself is not one of them.
ReasonsCounted ==
  reasons = Cardinality({a \in Actors : pc[a] = "load"})
            + (IF connect \in Workers THEN depth
               ELSE IF connect = Closer /\ pc[Closer] # "load" THEN depth - 1
               ELSE 0)

\* Without a switch of push and without a disconnect, every command returns.
OperationReturns == \A w \in Workers : pc[w] # "free" ~> pc[w] = "free"

\* When nobody uses the connection any more, and push is on and not blocked,
\* the server is left idling: a start is not lost between a counted try and an
\* unlock that finds reasons left.
Quiet == /\ \A a \in Actors : pc[a] = "free"
         /\ folder /\ online /\ push /\ ~blocked

\* No command is sent while an IDLE is active: "The IDLE command remains active
\* until the client responds to the continuation" (camel-imap-folder.c:3893), as
\* the one who has connect_lock is "sending the commands we expect idle thread to
\* do to finish idle loop" (camel-imap-folder.c:4029).
NoCommandWhileIdling == \A b \in breaches : b[1] # "command"
=============================================================================
