--------------------------- MODULE TnyCamelFolder ---------------------------
(***************************************************************************)
(* A folder, its headers and those who watch it: tny-camel-folder.c and    *)
(* tny-camel-header.c of libtinymail-camel, tny-folder-monitor.c of        *)
(* libtinymail.                                                            *)
(*                                                                         *)
(* The CamelFolder is loaded when it is needed and unloaded when the count *)
(* of reasons to live falls to zero: headers, posted changes, requests and *)
(* calls are reasons.  What changes in it is told to the observers from    *)
(* the main loop, where a monitor repeats it on the application's list.    *)
(* Whoever counts a reason holds no lock for it; who counts one down holds *)
(* reason_lock, and may then want folder_lock and the end of the idle      *)
(* thread.  So an increment and a decrement of two threads may come at     *)
(* once and one of them be lost: LostUpdates tells whether it happens.     *)
(***************************************************************************)
EXTENDS Integers, FiniteSets, Sequences, Functions

CONSTANTS
  Main, Worker, Push, \* the main loop, the queue's thread, the idle thread
  Uids,               \* uids of messages
  Headers,            \* identities of TnyCamelHeader objects
  Changes,            \* identities of TnyFolderChange objects with headers
  Nothing,            \* NULL, or nobody
  LostUpdates,        \* TRUE if counting up and down at once may lose either
  MaxPending          \* idle sources with counts only are bounded by it

Threads == {Main, Worker, Push}

ASSUME FolderAssumption ==
  /\ Cardinality(Threads) = 3 /\ Nothing \notin Threads \cup Uids \cup Changes
  /\ IsFiniteSet(Uids) /\ IsFiniteSet(Headers) /\ IsFiniteSet(Changes)
  /\ MaxPending \in Nat /\ LostUpdates \in BOOLEAN

VARIABLES
  \* TnyCamelFolderPriv: folder # NULL, and the rest by its names; of the
  \* CamelFolder whether its server has CAMEL_FOLDER_HAS_PUSHEMAIL_CAPABILITY.
  folder, capable, push, dont_fkill, handle_changes, reason_to_live,
  \* The owners of the locks, and how often folder_lock is held.
  reason_lock, folder_lock, depth,
  \* The messages of the CamelFolder, and all that it has ever had.
  content, known,
  \* The application: its list, "closed", "empty", "asked" for its headers or
  \* "filled" with them; while it is not closed a monitor is among obs.
  view, list,
  \* uid of each header (Nothing: there is none), headers of each change.
  uid, added, expunged,
  \* Changes posted to the main loop, Nothing for one with counts only.
  pending,
  \* The request: "none", "queued", "running", "done"; of each thread what
  \* its request or call is for, and who has counted a reason for a call.
  request, wanted, reasoned,
  \* Of each thread: program counter, where it goes on after it has freed
  \* headers and after it has unloaded, the event it delivers, its change,
  \* dont_fkill as it was, the headers whose last reference it has dropped.
  pc, after, then, event, change, old, dropped,
  \* History: whether an event was dropped on its way to the observers.
  missed

lockVars   == <<reason_lock, folder_lock, depth>>
lifeVars   == <<folder, capable, push, dont_fkill>>
mailVars   == <<content, known>>
viewVars   == <<view, list>>
headerVars == <<uid, added, expunged>>
askVars    == <<request, wanted, reasoned>>
eventVars  == <<event, change, old, missed>>
vars == <<lifeVars, handle_changes, reason_to_live, lockVars, mailVars, viewVars,
          headerVars, pending, askVars, pc, after, then, eventVars, dropped>>

ThreadPc == {"free", "lock", "load", "reason", "refresh", "fill", "lower",
             "unlock", "size", "measure", "tell", "event", "build", "keep",
             "post", "drop", "restore", "finalize", "uncache", "join",
             "settle", "flag"}

NoEvent == [added |-> {}, removed |-> {}]

Init ==
  /\ folder = FALSE /\ capable \in BOOLEAN /\ push = FALSE
  /\ dont_fkill = FALSE /\ handle_changes = TRUE /\ reason_to_live = 0
  /\ reason_lock = Nothing /\ folder_lock = Nothing /\ depth = 0
  /\ content \in SUBSET Uids /\ known = content
  /\ view = "closed" /\ list = {}
  /\ uid = [h \in Headers |-> Nothing]
  /\ added = [k \in Changes |-> {}] /\ expunged = [k \in Changes |-> {}]
  /\ pending = <<>> /\ request = "none" /\ reasoned = {}
  /\ wanted = [t \in Threads |-> "none"]
  /\ pc = [t \in Threads |-> "free"]
  /\ after = [t \in Threads |-> "free"] /\ then = [t \in Threads |-> "free"]
  /\ event = [t \in Threads |-> NoEvent]
  /\ change = [t \in Threads |-> Nothing]
  /\ old = [t \in Threads |-> FALSE] /\ dropped = [t \in Threads |-> {}]
  /\ missed = FALSE

----------------------------------------------------------------------------
(* Changes, headers and locks.                                             *)

Go(t, to) == pc' = [pc EXCEPT ![t] = to]

Watching == view # "closed"
Posted   == Range(pending)
Alive    == {h \in Headers : uid[h] # Nothing}
HeadersOf(k) == IF k = Nothing THEN {} ELSE added[k] \cup expunged[k]

\* The references to a change are those of the idle source and of its maker.
Live(k)     == k \in Posted \/ \E t \in Threads : change[t] = k
FreeChanges == {k \in Changes : ~Live(k)}

\* Headers that did not exist, one for each member of us.
Enough(n)    == Cardinality(Headers \ Alive) >= n
PickFresh(us) ==
  CHOOSE g \in [us -> Headers \ Alive] : \A u, v \in us : u # v => g[u] # g[v]
Born(g) == [h \in Headers |-> IF h \in Range(g)
                              THEN CHOOSE u \in DOMAIN g : g[u] = h ELSE uid[h]]

\* g_static_rec_mutex_lock and _unlock of folder_lock.
MayLock(t) == folder_lock \in {Nothing, t}
TakeLock(t) == /\ MayLock(t)
               /\ folder_lock' = t /\ depth' = depth + 1
FreeLock == /\ depth' = depth - 1
            /\ folder_lock' = IF depth = 1 THEN Nothing ELSE folder_lock

\* Mutants: a reason is not counted; a header is made without one.
Reason_Not(n) == UNCHANGED reason_to_live
Counts_Not(hs) == UNCHANGED reason_to_live

\* _tny_camel_folder_reason, n times; its lines that take reason_lock are comments.
Reason(n) ==
  IF LostUpdates THEN reason_to_live' \in {reason_to_live + m : m \in 0..n}
  ELSE reason_to_live' = reason_to_live + n

\* _tny_camel_header_set_folder of each of the headers hs.
Counts(hs) == Reason(Cardinality(hs))

\* An empty folder with push e-mail is kept.
KeptByPush == push /\ content = {}

\* Mutants: the lock is not taken for any folder; what push e-mail keeps is asked first.
AtZero_NoLock == IF ~folder \/ (capable /\ KeptByPush) THEN "nothing" ELSE "uncache_nl"
AtZero_Kept == CASE ~folder \/ KeptByPush -> "nothing"
                 [] folder /\ ~KeptByPush /\ ~capable -> "uncache_nl"
                 [] OTHER -> "uncache"

\* What the count's fall to zero asks for: nothing, unloading without the lock,
\* or unloading with it.
AtZero == CASE ~folder \/ (capable /\ KeptByPush) -> "nothing"
            [] folder /\ ~capable               -> "uncache_nl"
            [] OTHER                            -> "uncache"

\* _tny_camel_folder_unreason, after which t goes on at to.
Unreason(t, to) ==
  /\ reason_lock = Nothing
  /\ IF LostUpdates THEN reason_to_live' \in {reason_to_live - 1, reason_to_live}
     ELSE reason_to_live' = reason_to_live - 1
  /\ LET does == IF reason_to_live' = 0 THEN AtZero ELSE "nothing"
     IN IF does = "uncache"
        THEN /\ reason_lock' = t /\ Go(t, "uncache")
             /\ then' = [then EXCEPT ![t] = to] /\ UNCHANGED folder
        ELSE /\ folder' = IF does = "uncache_nl" THEN dont_fkill ELSE folder
             /\ Go(t, to) /\ UNCHANGED <<reason_lock, then>>
  /\ UNCHANGED <<capable, push, dont_fkill, folder_lock, depth>>

\* tny_camel_folder_uncache, up to camel_lite_folder_set_push_email.
Uncache(t) ==
  /\ pc[t] = "uncache" /\ MayLock(t)
  /\ IF dont_fkill
     THEN /\ reason_lock' = Nothing /\ Go(t, then[t])
          /\ UNCHANGED <<folder_lock, depth>>
     ELSE TakeLock(t) /\ Go(t, "join") /\ UNCHANGED reason_lock
  /\ UNCHANGED <<lifeVars, handle_changes, reason_to_live, mailVars, viewVars,
                 headerVars, pending, askVars, after, then, eventVars, dropped>>

\* That call ends the idle thread, unless it is made there.
Join(t) ==
  /\ pc[t] = "join" /\ (push /\ t # Push => pc[Push] = "free")
  /\ folder' = FALSE /\ FreeLock /\ reason_lock' = Nothing /\ Go(t, then[t])
  /\ UNCHANGED <<capable, push, dont_fkill, handle_changes, reason_to_live, mailVars,
                 viewVars, headerVars, pending, askVars, after, then, eventVars,
                 dropped>>

\* tny_camel_header_finalize, for each header that t was the last to hold.
Finalize(t) ==
  /\ pc[t] = "finalize"
  /\ IF dropped[t] = {}
     THEN /\ Go(t, after[t])
          /\ UNCHANGED <<lifeVars, reason_to_live, lockVars, uid, then, dropped>>
     ELSE LET h == CHOOSE h \in dropped[t] : TRUE
          IN /\ uid' = [uid EXCEPT ![h] = Nothing]
             /\ dropped' = [dropped EXCEPT ![t] = @ \ {h}]
             /\ Unreason(t, "finalize")
  /\ UNCHANGED <<handle_changes, mailVars, viewVars, added, expunged, pending, askVars,
                 after, eventVars>>

----------------------------------------------------------------------------
(* folder_changed, called where the CamelFolder is changed.                *)

Delivering(t) ==
  \/ pc[t] \in {"tell", "event", "build", "keep", "post", "drop", "restore"}
  \/ pc[t] \in {"finalize", "uncache", "join"} /\ after[t] = "restore"

\* Where a thread goes on when the event is delivered, or there was none.
GoesOn(t) == IF t = Push THEN "free"
             ELSE IF wanted[t] = "headers" THEN "fill"
             ELSE IF t \in reasoned THEN "lower" ELSE "unlock"

\* What headers are needed for, and not there yet.
Size(e)  == Cardinality(e.added) + Cardinality(e.removed)
Reserved == (IF view = "asked" THEN Cardinality(Uids) ELSE 0)
            + Size(event[Main]) + Size(event[Worker]) + Size(event[Push])
Room(n)  == Enough(n + Reserved)

\* The server tells of new messages and of messages that are gone; a uid is
\* used once.
Change(t) ==
  \E new \in SUBSET (Uids \ known), gone \in SUBSET content :
    LET e == [added |-> new, removed |-> gone]
    IN /\ new \cup gone # {} /\ Room(Size(e)) /\ FreeChanges # {}
       /\ content' = (content \ gone) \cup new /\ known' = known \cup new
       /\ event' = [event EXCEPT ![t] = e] /\ Go(t, "tell")

\* It tells it to the idle thread, while nobody else has the connection.
PushEvent ==
  /\ pc[Push] = "free" /\ capable /\ folder /\ push
  /\ \A t \in Threads : ~Delivering(t) /\ pc[t] # "join"
  /\ Change(Push)
  /\ UNCHANGED <<lifeVars, handle_changes, reason_to_live, lockVars, viewVars, headerVars,
                 pending, askVars, after, then, change, old, missed, dropped>>

\* folder_changed samples dont_fkill, and returns if nobody wants changes.
Tell(t) ==
  /\ pc[t] = "tell" /\ old' = [old EXCEPT ![t] = dont_fkill]
  /\ IF handle_changes
     THEN Go(t, "event") /\ UNCHANGED <<event, missed>>
     ELSE /\ Go(t, GoesOn(t)) /\ missed' = TRUE
          /\ event' = [event EXCEPT ![t] = NoEvent]
  /\ UNCHANGED <<lifeVars, handle_changes, reason_to_live, lockVars, mailVars, viewVars,
                 headerVars, pending, askVars, after, then, change, dropped>>

\* The idle thread must not wait for the lock: the owner may wait for its end.
TryLock(t) ==
  /\ pc[t] = "event"
  /\ IF MayLock(t) /\ folder
     THEN TakeLock(t) /\ Go(t, "build") /\ UNCHANGED <<event, missed>>
     ELSE /\ Go(t, GoesOn(t)) /\ missed' = TRUE
          /\ event' = [event EXCEPT ![t] = NoEvent]
          /\ UNCHANGED <<folder_lock, depth>>
  /\ UNCHANGED <<lifeVars, handle_changes, reason_to_live, reason_lock, mailVars,
                 viewVars, headerVars, pending, askVars, after, then, change, old,
                 dropped>>

\* A header for each message: of those that came only if the summary has it still.
Build(t) ==
  /\ pc[t] = "build"
  /\ LET new == event[t].added \cap content
         a   == PickFresh(new \cup event[t].removed)
         k   == CHOOSE k \in FreeChanges : TRUE
     IN /\ uid' = Born(a) /\ Counts(Range(a))
        /\ added'    = [added EXCEPT ![k] = {a[u] : u \in new}]
        /\ expunged' = [expunged EXCEPT ![k] = {a[u] : u \in event[t].removed}]
        /\ change'   = [change EXCEPT ![t] = k]
  /\ event' = [event EXCEPT ![t] = NoEvent] /\ FreeLock /\ Go(t, "keep")
  /\ UNCHANGED <<lifeVars, handle_changes, reason_lock, mailVars, viewVars, pending,
                 askVars, after, then, old, missed, dropped>>

\* The folder is not to be unloaded while the change is posted.
Keep(t) ==
  /\ pc[t] = "keep" /\ dont_fkill' = TRUE /\ Go(t, "post")
  /\ UNCHANGED <<folder, capable, push, handle_changes, reason_to_live, lockVars,
                 mailVars, viewVars, headerVars, pending, askVars, after, then,
                 eventVars, dropped>>

\* Mutants: the posted change is no reason; the last is posted before the others.
Notice_Uncounted(k) == pending' = Append(pending, k) /\ UNCHANGED reason_to_live
Notice_First(k) == Reason(1) /\ pending' = <<k>> \o pending

\* notify_folder_observers_about_in_idle.
Notice(k) == Reason(1) /\ pending' = Append(pending, k)

Post(t) ==
  /\ pc[t] = "post" /\ Notice(change[t]) /\ Go(t, "drop")
  /\ UNCHANGED <<lifeVars, handle_changes, lockVars, mailVars, viewVars, headerVars,
                 askVars, after, then, eventVars, dropped>>

\* The maker's reference: if the main loop is done with the change it is the last.
Drop(t) ==
  /\ pc[t] = "drop" /\ change' = [change EXCEPT ![t] = Nothing]
  /\ dropped' = [dropped EXCEPT ![t] = IF change[t] \in Posted THEN {}
                                       ELSE HeadersOf(change[t]) \ list]
  /\ after' = [after EXCEPT ![t] = "restore"] /\ Go(t, "finalize")
  /\ UNCHANGED <<lifeVars, handle_changes, reason_to_live, lockVars, mailVars, viewVars,
                 headerVars, pending, askVars, then, event, old, missed>>

Restore(t) ==
  /\ pc[t] = "restore" /\ dont_fkill' = old[t] /\ Go(t, GoesOn(t))
  /\ after' = [after EXCEPT ![t] = "free"]
  /\ UNCHANGED <<folder, capable, push, handle_changes, reason_to_live, lockVars,
                 mailVars, viewVars, headerVars, pending, askVars, then, eventVars,
                 dropped>>

----------------------------------------------------------------------------
(* Requests of the queue's thread, and calls of the main loop.             *)

\* Headers are asked for once for each list, which is empty until then.
Wish(kind) ==
  IF kind = "headers"
  THEN view = "empty" /\ Room(Cardinality(Uids)) /\ view' = "asked"
  ELSE UNCHANGED view

\* tny_camel_folder_refresh_async_default and _get_headers_async_default.
Launch(kind) ==
  /\ pc[Main] = "free" /\ request = "none" /\ Wish(kind)
  /\ Reason(1) /\ request' = "queued" /\ wanted' = [wanted EXCEPT ![Worker] = kind]
  /\ UNCHANGED <<lifeVars, handle_changes, lockVars, mailVars, list, headerVars, pending,
                 reasoned, pc, after, then, eventVars, dropped>>

\* tny_camel_folder_refresh_default and _get_headers_default in the main loop.
FewCounts == Cardinality({n \in 1..Len(pending) : pending[n] = Nothing}) < MaxPending
Call(kind) ==
  /\ pc[Main] = "free" /\ Wish(kind) /\ FewCounts
  /\ wanted' = [wanted EXCEPT ![Main] = kind] /\ Go(Main, "lock")
  /\ UNCHANGED <<lifeVars, handle_changes, reason_to_live, lockVars, mailVars, list,
                 headerVars, pending, request, reasoned, after, then, eventVars, dropped>>

\* The queue's thread comes to the request.
Begin ==
  /\ pc[Worker] = "free" /\ request = "queued"
  /\ request' = "running" /\ Go(Worker, "lock")
  /\ UNCHANGED <<lifeVars, handle_changes, reason_to_live, lockVars, mailVars, viewVars,
                 headerVars, pending, wanted, reasoned, after, then, eventVars, dropped>>

Lock(t) ==
  /\ pc[t] = "lock" /\ TakeLock(t) /\ Go(t, "load")
  /\ UNCHANGED <<lifeVars, handle_changes, reason_to_live, reason_lock, mailVars,
                 viewVars, headerVars, pending, askVars, after, then, eventVars, dropped>>

\* load_folder_no_lock; push e-mail is wanted if there are observers.  All but the
\* thread of refresh_async count a reason then.
Load(t) ==
  /\ pc[t] = "load"
  /\ folder' = TRUE /\ push' = IF folder THEN push ELSE Watching
  /\ Go(t, IF t = Worker /\ wanted[t] = "refresh" THEN "refresh" ELSE "reason")
  /\ UNCHANGED <<capable, dont_fkill, handle_changes, reason_to_live, lockVars, mailVars,
                 viewVars, headerVars, pending, askVars, after, then, eventVars, dropped>>

\* Mutant: the failure returns with the lock.
LoadFails_Locked(t) ==
  /\ pc[t] = "load" /\ ~folder /\ Go(t, "free")
  /\ view' = IF wanted[t] = "headers" THEN "empty" ELSE view
  /\ wanted' = [wanted EXCEPT ![t] = "none"]
  /\ UNCHANGED <<lifeVars, handle_changes, reason_to_live, lockVars, mailVars, list,
                 headerVars, pending, request, reasoned, after, then, eventVars, dropped>>

LoadFails(t) ==
  /\ pc[t] = "load" /\ ~folder /\ Go(t, "unlock")
  /\ view' = IF wanted[t] = "headers" THEN "empty" ELSE view
  /\ wanted' = [wanted EXCEPT ![t] = "none"]
  /\ UNCHANGED <<lifeVars, handle_changes, reason_to_live, lockVars, mailVars, list,
                 headerVars, pending, request, reasoned, after, then, eventVars, dropped>>

\* get_headers refreshes if it is told to.
CountCall(t) ==
  /\ pc[t] = "reason" /\ Reason(1) /\ reasoned' = reasoned \cup {t}
  /\ \/ Go(t, "refresh")
     \/ wanted[t] = "headers" /\ Go(t, "fill")
  /\ UNCHANGED <<lifeVars, handle_changes, lockVars, mailVars, viewVars, headerVars,
                 pending, request, wanted, after, then, eventVars, dropped>>

\* camel_lite_folder_refresh_info: the command ends the idle thread first.
Refresh(t) ==
  /\ pc[t] = "refresh" /\ pc[Push] = "free"
  /\ \/ Change(t)
     \/ Go(t, GoesOn(t)) /\ UNCHANGED <<mailVars, event>>
  /\ UNCHANGED <<lifeVars, handle_changes, reason_to_live, lockVars, viewVars, headerVars,
                 pending, askVars, after, then, change, old, missed, dropped>>

\* add_message_with_uid for each message of the summary.
Fill(t) ==
  /\ pc[t] = "fill"
  /\ LET g == PickFresh(IF folder THEN content ELSE {})
     IN uid' = Born(g) /\ list' = list \cup Range(g) /\ Counts(Range(g))
  /\ view' = "filled" /\ Go(t, "lower")
  /\ UNCHANGED <<lifeVars, handle_changes, lockVars, mailVars, added, expunged, pending,
                 askVars, after, then, eventVars, dropped>>

Lower(t) ==
  /\ pc[t] = "lower" /\ Unreason(t, "unlock") /\ reasoned' = reasoned \ {t}
  /\ UNCHANGED <<handle_changes, mailVars, viewVars, headerVars, pending, request, wanted,
                 after, eventVars, dropped>>

\* A request has read the size of the folder with the lock, a call does so without it.
Unlock(t) ==
  /\ pc[t] = "unlock" /\ FreeLock
  /\ IF t = Main /\ wanted[t] # "none"
     THEN Go(t, "size") /\ UNCHANGED <<wanted, request>>
     ELSE /\ Go(t, "free") /\ wanted' = [wanted EXCEPT ![t] = "none"]
          /\ request' = IF t = Worker THEN "done" ELSE request
  /\ UNCHANGED <<lifeVars, handle_changes, reason_to_live, reason_lock, mailVars, viewVars,
                 headerVars, pending, reasoned, after, then, eventVars, dropped>>

\* The end of a call: refresh_default tells the counts to the observers.
Returns(t) ==
  /\ Go(t, "free") /\ wanted' = [wanted EXCEPT ![t] = "none"]
  /\ IF wanted[t] = "refresh" THEN Notice(Nothing) ELSE UNCHANGED <<reason_to_live, pending>>

\* reset_local_size in a call: it sees whether the folder is loaded,
LocalSize(t) ==
  /\ pc[t] = "size"
  /\ IF folder THEN Go(t, "measure") /\ UNCHANGED <<wanted, reason_to_live, pending>>
     ELSE Returns(t)
  /\ UNCHANGED <<lifeVars, handle_changes, lockVars, mailVars, viewVars, headerVars,
                 request, reasoned, after, then, eventVars, dropped>>

\* and asks it for its size if it is.
Measure(t) ==
  /\ pc[t] = "measure" /\ Returns(t)
  /\ UNCHANGED <<lifeVars, handle_changes, lockVars, mailVars, viewVars, headerVars,
                 request, reasoned, after, then, eventVars, dropped>>

----------------------------------------------------------------------------
(* The main loop and the application in it.                                *)

\* tny_folder_monitor_start, with a new list.
Open ==
  /\ pc[Main] = "free" /\ view = "closed" /\ view' = "empty"
  /\ UNCHANGED <<lifeVars, handle_changes, reason_to_live, lockVars, mailVars, list,
                 headerVars, pending, askVars, pc, after, then, eventVars, dropped>>

\* tny_folder_monitor_stop and the end of the list.
Close ==
  /\ pc[Main] = "free" /\ view \in {"empty", "filled"}
  /\ view' = "closed" /\ list' = {} /\ Go(Main, "finalize")
  /\ dropped' = [dropped EXCEPT ![Main] =
                   list \ UNION {HeadersOf(k) : k \in {k \in Changes : Live(k)}}]
  /\ UNCHANGED <<lifeVars, handle_changes, reason_to_live, lockVars, mailVars, headerVars,
                 pending, askVars, after, then, eventVars>>

\* tny_folder_monitor_update_default, if the monitor observes: what came is put on
\* the list, then what has the uid of what went is taken off it.
Updated(k) ==
  IF ~Watching \/ k = Nothing THEN list
  ELSE {h \in list \cup added[k] : \A e \in expunged[k] : uid[h] # uid[e]}

\* notify_folder_observers_about_idle, then what its destroyer does to the change.
Notify ==
  /\ pc[Main] = "free" /\ pending # <<>>
  /\ LET k      == Head(pending)
         lives  == {c \in Changes \ {k} : Live(c)}
                   \cup {c \in {k} \ {Nothing} : \E t \in Threads : change[t] = c}
     IN /\ list' = Updated(k)
        /\ dropped' = [dropped EXCEPT ![Main] =
             (list \cup HeadersOf(k)) \ (list' \cup UNION {HeadersOf(c) : c \in lives})]
  /\ pending' = Tail(pending)
  /\ after' = [after EXCEPT ![Main] = "settle"] /\ Go(Main, "finalize")
  /\ UNCHANGED <<lifeVars, handle_changes, reason_to_live, lockVars, mailVars, view,
                 headerVars, askVars, then, eventVars>>

\* The callback of a request, and what its destroyer begins.
Done ==
  /\ pc[Main] = "free" /\ request = "done" /\ request' = "none"
  /\ after' = [after EXCEPT ![Main] = "settle"] /\ Go(Main, "settle")
  /\ UNCHANGED <<lifeVars, handle_changes, reason_to_live, lockVars, mailVars, viewVars,
                 headerVars, pending, wanted, reasoned, then, eventVars, dropped>>

\* The destroyers count down the reason of the posted change, or of the request.
Settle ==
  /\ pc[Main] = "settle" /\ Unreason(Main, "free")
  /\ after' = [after EXCEPT ![Main] = "free"]
  /\ UNCHANGED <<handle_changes, mailVars, viewVars, headerVars, pending, askVars,
                 eventVars, dropped>>

\* tny_camel_header_set_flag, in whose middle changes are not wanted.
SetFlag ==
  /\ pc[Main] = "free" /\ list # {} /\ FewCounts
  /\ handle_changes' = FALSE /\ Go(Main, "flag")
  /\ UNCHANGED <<lifeVars, reason_to_live, lockVars, mailVars, viewVars, headerVars,
                 pending, askVars, after, then, eventVars, dropped>>

FlagSet ==
  /\ pc[Main] = "flag" /\ handle_changes' = TRUE /\ Notice(Nothing) /\ Go(Main, "free")
  /\ UNCHANGED <<lifeVars, lockVars, mailVars, viewVars, headerVars, askVars, after, then,
                 eventVars, dropped>>

----------------------------------------------------------------------------
(* The specification.                                                      *)

Ask  == {"headers", "refresh"}
User == \/ Open \/ Close \/ SetFlag
        \/ \E kind \in Ask : Launch(kind) \/ Call(kind)

\* What a thread does once it has begun; Lock(t) aside, which may have to wait.
Step(t) ==
  \/ Load(t) \/ LoadFails(t) \/ CountCall(t) \/ Refresh(t) \/ Fill(t) \/ Lower(t)
  \/ Unlock(t) \/ LocalSize(t) \/ Measure(t) \/ Tell(t) \/ TryLock(t) \/ Build(t)
  \/ Keep(t) \/ Post(t) \/ Drop(t) \/ Restore(t) \/ Finalize(t) \/ Uncache(t) \/ Join(t)
  \/ t = Main /\ (Settle \/ FlagSet)
  \/ t = Worker /\ Begin

Next == User \/ PushEvent \/ Notify \/ Done \/ \E t \in Threads : Lock(t) \/ Step(t)

Spec == Init /\ [][Next]_vars

\* Threads go on.  The queue's thread, which finds folder_lock free between the calls
\* of the main loop, gets it some time; the main loop comes to a finished request.
FairSpec ==
  /\ Spec
  /\ \A t \in Threads : WF_vars(Lock(t) \/ Step(t))
  /\ SF_vars(Lock(Worker)) /\ SF_vars(Done)

----------------------------------------------------------------------------
(* Properties.                                                             *)

\* Every variable keeps its type.
TypeOK ==
  /\ {folder, capable, push, dont_fkill, handle_changes, missed} \subseteq BOOLEAN
  /\ reason_to_live \in Nat /\ depth \in Nat
  /\ {reason_lock, folder_lock} \subseteq Threads \cup {Nothing}
  /\ content \subseteq known /\ known \subseteq Uids
  /\ view \in {"closed", "empty", "asked", "filled"} /\ list \subseteq Headers
  /\ uid \in [Headers -> Uids \cup {Nothing}]
  /\ {added, expunged} \subseteq [Changes -> SUBSET Headers]
  /\ Range(pending) \subseteq Changes \cup {Nothing}
  /\ request \in {"none", "queued", "running", "done"}
  /\ wanted \in [Threads -> Ask \cup {"none"}] /\ reasoned \subseteq Threads
  /\ {pc, after, then} \subseteq [Threads -> ThreadPc]
  /\ event \in [Threads -> [added : SUBSET Uids, removed : SUBSET Uids]]
  /\ change \in [Threads -> Changes \cup {Nothing}]
  /\ old \in [Threads -> BOOLEAN] /\ dropped \in [Threads -> SUBSET Headers]

\* Unless an update of it is lost, reason_to_live counts what it says it counts: every
\* header, posted change, request and call once, and whoever has taken one away has
\* counted it down or is about to.
Settling == \/ pc[Main] = "settle"
            \/ pc[Main] = "finalize" /\ after[Main] = "settle"
            \/ pc[Main] \in {"uncache", "join"} /\ then[Main] = "finalize"
               /\ after[Main] = "settle"
ReasonsCounted ==
  reason_to_live = Cardinality(Alive) + Len(pending) + Cardinality(reasoned)
                   + (IF request = "none" THEN 0 ELSE 1) + (IF Settling THEN 1 ELSE 0)

\* What refresh_info, folder_changed, add_message_with_uid and what reads the counts use
\* is there: nobody has unloaded it since it was loaded.  So is what reset_local_size
\* uses: in a request, which still has folder_lock, and without push e-mail in a call,
\* which has neither the lock nor a reason any more.
InUseLoaded ==
  \A t \in Threads :
    \/ pc[t] \in {"reason", "refresh", "build", "fill", "lower"}
    \/ t = Worker /\ pc[t] = "unlock" /\ wanted[t] # "none"
    \/ pc[t] = "measure" /\ ~capable
    => folder

\* Without push e-mail, and unless an update of reason_to_live is lost, a header that is
\* on a list or in a change has its folder, and with that the summary that its message
\* info is part of.
Held == list \cup UNION {HeadersOf(k) : k \in {k \in Changes : Live(k)}}
HeadersBacked == ~capable /\ Held # {} => folder

\* Without push e-mail a folder that nobody has a reason for is not kept in memory.
Idle == \A t \in Threads : pc[t] = "free"
UnloadedAtRest == ~capable /\ Idle /\ reason_to_live = 0 => ~folder

\* Once the list has been filled, and all that was posted has been delivered, it has
\* the messages of the folder, unless an event was dropped on its way.
Delivered == pending = <<>> /\ \A t \in Threads : ~Delivering(t)
Shown     == {uid[h] : h \in list}
ListConverges == view = "filled" /\ Delivered /\ ~missed => Shown = content

\* Without push e-mail a request is answered.
RequestAnswered == request = "queued" /\ ~capable ~> request = "none"

\* "We reason the folder to make sure it does not lose all the references and uncache,
\* causing an interlock": nobody waits for folder_lock with reason_lock while the owner
\* of folder_lock waits for reason_lock.
NoInterlock ==
  ~ \E t, u \in Threads :
      /\ t # u /\ reason_lock = t /\ pc[t] = "uncache"
      /\ folder_lock = u /\ pc[u] = "lower"
=============================================================================
