---------------------- MODULE TnyCamelSendQueueProofs ----------------------
(***************************************************************************)
(* Proofs about TnyCamelSendQueue, for every set of messages and threads   *)
(* and whatever fails: the types; and, when no application cancels, that   *)
(* one thread sends at a time and that none is sent again once its sending *)
(* was reported without an error.                                          *)
(***************************************************************************)
EXTENDS TnyCamelSendQueue, FiniteSetTheorems, SequenceTheorems, TLAPS

----------------------------------------------------------------------------
(* Types.                                                                  *)

\* What length is set to is a number.
LEMMA CountsAreNat ==
  ASSUME NEW S \in SUBSET Msgs
  PROVE  Cardinality(S) \in Nat
BY FS_Subset, FS_CardinalityType, SendQueueAssumption DEF SendQueueAssumption

\* A move of one thread to a place of a thread keeps the type of pc.
LEMMA GotoType ==
  ASSUME TypeOK, NEW t \in Threads, NEW from, NEW to \in ThreadPc,
         Goto(t, from, to)
  PROVE  pc' \in [Threads -> ThreadPc]
BY DEF TypeOK, Goto

LEMMA InitType == Init => TypeOK
<1> SUFFICES ASSUME Init PROVE TypeOK
  OBVIOUS
<1> USE DEF Init
<1>1. FieldsOK
  BY DEF FieldsOK
<1>2. FoldersOK
  BY DEF FoldersOK
<1>3. LocalsOK
  BY DEF LocalsOK, ReturnPc
<1>4. MainOK
  BY DEF MainOK
<1>5. pc \in [Threads -> ThreadPc]
  BY DEF ThreadPc
<1> QED BY <1>1, <1>2, <1>3, <1>4, <1>5 DEF TypeOK

\* Creating a thread changes three variables.
LEMMA CreateWorkerType ==
  ASSUME TypeOK, CreateWorker
  PROVE  /\ is_running' \in BOOLEAN /\ thread' \in BOOLEAN
         /\ running_lock' \in {Free, Main}
         /\ UNCHANGED <<cancel_requested, cancel_action>>
         /\ pc' \in [Threads -> ThreadPc]
BY DEF TypeOK, FieldsOK, CreateWorker, ThreadPc

\* The purge keeps messages within their places and flags.
LEMMA PurgeType ==
  ASSUME TypeOK, NEW owner, NEW a, PurgeOutbox(owner, a),
         UNCHANGED <<online, sent, reported>>
  PROVE  FieldsOK' /\ FoldersOK'
<1>1. FieldsOK'
  BY DEF TypeOK, FieldsOK, PurgeOutbox, lockVars
<1>2. PICK S \in SUBSET Outbox :
        IF a = "REMOVE"
        THEN /\ place' = [m \in Msgs |-> IF m \in S THEN "removed"
                                         ELSE place[m]]
             /\ UNCHANGED marks
        ELSE /\ marks' = [m \in Msgs |-> IF m \in S
                                         THEN marks[m] \cup {"SUSPENDED"}
                                         ELSE marks[m]]
             /\ UNCHANGED place
  BY DEF PurgeOutbox
<1>3. FoldersOK'
  BY <1>2 DEF TypeOK, FoldersOK
<1> QED BY <1>1, <1>3

----------------------------------------------------------------------------
(* The types under the steps of a thread, part by part.  What is put into  *)
(* failed_headers is a message because header is one wherever it is used.  *)

\* The places at which a thread has the header of the message it is busy with.
HasHeader(t) == \/ pc[t] \in {"fetch", "getMsg", "transport", "sent", "check",
                              "mark", "transfer"}
                \/ pc[t] \in {"cancel", "purge"} /\ ret[t] = "mark"

HeaderInv == \A t \in Threads : HasHeader(t) => header[t] \in Msgs

LEMMA ThreadFields ==
  ASSUME TypeOK, NEW t \in Threads, ThreadStep(t)
  PROVE  FieldsOK'
<1> USE DEF TypeOK, FieldsOK, flagVars, lockVars
<1>1. CASE \/ Begin(t) \/ First(t) \/ FirstHeaders(t) \/ Loop(t) \/ Lock(t)
           \/ Todo(t) \/ Headers(t) \/ Fetch(t) \/ GetMsg(t)
  BY <1>1 DEF Begin, First, FirstHeaders, Loop, Lock, Todo, Headers, Fetch,
              GetMsg
<1>2. CASE \/ Transport(t) \/ Sent(t) \/ Mark(t) \/ Transfer(t) \/ Unlock(t)
           \/ Sync(t) \/ Exit(t) \/ Stop(t)
  BY <1>2 DEF Transport, Sent, Mark, Transfer, Unlock, Release, Sync, Exit,
              Stop
<1>3. CASE Check(t) \/ Check2(t) \/ Last(t)
  BY <1>3 DEF Check, Check2, Last, CheckCancel
<1>4. CASE CancelHere(t)
  BY <1>4 DEF CancelHere, LocalsOK
<1>5. CASE Purge(t)
  BY <1>5, PurgeType DEF Purge, history
<1> QED BY <1>1, <1>2, <1>3, <1>4, <1>5 DEF ThreadStep

LEMMA ThreadFolders ==
  ASSUME TypeOK, HeaderInv, NEW t \in Threads, ThreadStep(t)
  PROVE  FoldersOK'
<1> USE DEF TypeOK, FoldersOK, folderVars, history
<1>1. CASE \/ Begin(t) \/ First(t) \/ FirstHeaders(t) \/ Loop(t) \/ Lock(t)
           \/ Todo(t) \/ Headers(t) \/ Fetch(t) \/ GetMsg(t) \/ Sent(t)
  BY <1>1 DEF Begin, First, FirstHeaders, Loop, Lock, Todo, Headers, Fetch,
              GetMsg, Sent
<1>2. CASE \/ Check(t) \/ Check2(t) \/ Last(t) \/ CancelHere(t) \/ Unlock(t)
           \/ Sync(t) \/ Exit(t) \/ Stop(t)
  BY <1>2 DEF Check, Check2, Last, CheckCancel, CancelHere, Unlock, Sync,
              Exit, Stop
<1>3. CASE Transport(t)
  <2>1. header[t] \in Msgs
    BY <1>3 DEF Transport, Goto, HeaderInv, HasHeader
  <2> QED BY <1>3, <2>1, SendQueueAssumption DEF Transport, SendQueueAssumption
<1>4. CASE Purge(t)
  BY <1>4, PurgeType DEF Purge
<1>5. CASE Mark(t)
  BY <1>5 DEF Mark, MarkSent
<1>6. CASE Transfer(t)
  BY <1>6 DEF Transfer
<1> QED BY <1>1, <1>2, <1>3, <1>4, <1>5, <1>6 DEF ThreadStep

LEMMA ThreadLocals ==
  ASSUME TypeOK, HeaderInv, NEW t \in Threads, ThreadStep(t)
  PROVE  LocalsOK'
<1> USE DEF TypeOK, LocalsOK, localVars
<1>1. CASE \/ Begin(t) \/ First(t) \/ Loop(t) \/ Lock(t) \/ Todo(t)
           \/ CancelHere(t) \/ Purge(t) \/ Mark(t) \/ Transfer(t) \/ Sync(t)
  BY <1>1 DEF Begin, First, Loop, Lock, Todo, CancelHere, Purge, Mark,
              Transfer, Sync
<1>2. CASE FirstHeaders(t)
  BY <1>2, CountsAreNat DEF FirstHeaders, Counted, Outbox
<1>3. CASE Headers(t)
  <2>1. /\ Sendable(t) \in SUBSET Msgs
        /\ Cardinality(Sendable(t)) \in Nat
    BY CountsAreNat DEF Sendable, Outbox
  <2>2. /\ length' \in [Threads -> Nat]
        /\ header' \in [Threads -> Msgs \cup {Free}]
    BY <1>3, <2>1 DEF Headers
  <2> QED BY <1>3, <2>2 DEF Headers
<1>4. CASE Fetch(t)
  BY <1>4 DEF Fetch
<1>10. CASE Unlock(t)
  BY <1>10 DEF Unlock
<1>8. CASE Transport(t)
  BY <1>8 DEF Transport
<1>9. CASE Exit(t)
  BY <1>9 DEF Exit
<1>5. CASE GetMsg(t) \/ Sent(t)
  <2>1. header[t] \in Msgs
    BY <1>5 DEF HeaderInv, HasHeader, GetMsg, Sent, Goto
  <2>2. failed_headers' \in [Threads -> SUBSET Msgs]
    BY <1>5, <2>1 DEF GetMsg, Sent
  <2>3. CASE GetMsg(t)
    BY <2>2, <2>3 DEF GetMsg
  <2>4. CASE Sent(t)
    BY <2>2, <2>4 DEF Sent
  <2> QED BY <1>5, <2>3, <2>4
<1>6. CASE Check(t) \/ Check2(t) \/ Last(t)
  BY <1>6 DEF Check, Check2, Last, CheckCancel, FieldsOK, ReturnPc
<1>7. CASE Stop(t)
  BY <1>7 DEF Stop, ReturnPc
<1> QED BY <1>1, <1>2, <1>3, <1>4, <1>5, <1>6, <1>7, <1>8, <1>9,
           <1>10
           DEF ThreadStep

LEMMA ThreadMain ==
  ASSUME TypeOK, NEW t \in Threads, ThreadStep(t)
  PROVE  MainOK'
<1> USE DEF TypeOK, MainOK, mainVars, history
<1>1. CASE Begin(t) \/ Stop(t)
  <2>1. <<"START", t>> \in Signals /\ <<"STOP", t>> \in Signals
    BY DEF Signals
  <2>2. posted' \in {Append(posted, <<"START", t>>), Append(posted, <<"STOP", t>>)}
    BY <1>1 DEF Begin, Stop
  <2>3. posted' \in Seq(Signals)
    <3>1. posted \in Seq(Signals)
      OBVIOUS
    <3> HIDE DEF TypeOK, MainOK, mainVars, history
    <3>2. /\ Append(posted, <<"START", t>>) \in Seq(Signals)
          /\ Append(posted, <<"STOP", t>>) \in Seq(Signals)
      BY <2>1, <3>1, AppendProperties
    <3> QED BY <2>2, <3>2
  <2> QED BY <1>1, <2>3 DEF Begin, Stop
<1>2. CASE \/ First(t) \/ FirstHeaders(t) \/ Loop(t) \/ Lock(t) \/ Todo(t)
           \/ Headers(t) \/ Fetch(t) \/ GetMsg(t) \/ Transport(t) \/ Sent(t)
  BY <1>2 DEF First, FirstHeaders, Loop, Lock, Todo, Headers, Fetch, GetMsg,
              Transport, Sent
<1>3. CASE \/ Check(t) \/ Check2(t) \/ Last(t) \/ CancelHere(t) \/ Purge(t)
           \/ Mark(t) \/ Unlock(t) \/ Sync(t) \/ Exit(t)
  BY <1>3 DEF Check, Check2, Last, CheckCancel, CancelHere, Purge, Mark,
              Unlock, Sync, Exit
<1>4. CASE Transfer(t)
  BY <1>4 DEF Transfer, Outbox
<1> QED BY <1>1, <1>2, <1>3, <1>4 DEF ThreadStep

LEMMA ThreadPcs ==
  ASSUME TypeOK, NEW t \in Threads, ThreadStep(t)
  PROVE  pc' \in [Threads -> ThreadPc]
<1> USE GotoType DEF ThreadPc
<1>1. CASE \/ Begin(t) \/ First(t) \/ FirstHeaders(t) \/ Loop(t) \/ Lock(t)
           \/ Todo(t) \/ Headers(t) \/ Fetch(t) \/ GetMsg(t)
  BY <1>1 DEF Begin, First, FirstHeaders, Loop, Lock, Todo, Headers, Fetch,
              GetMsg
<1>2. CASE \/ Transport(t) \/ Sent(t) \/ Mark(t) \/ Transfer(t) \/ Unlock(t)
           \/ Sync(t) \/ Exit(t) \/ Stop(t)
  BY <1>2 DEF Transport, Sent, Mark, Transfer, Unlock, Sync, Exit, Stop
<1>3. CASE Check(t) \/ Check2(t) \/ Last(t)
  BY <1>3 DEF Check, Check2, Last, CheckCancel
<1>4. CASE CancelHere(t) \/ Purge(t)
  BY <1>4 DEF CancelHere, Purge, TypeOK, LocalsOK, ReturnPc
<1> QED BY <1>1, <1>2, <1>3, <1>4 DEF ThreadStep

----------------------------------------------------------------------------
(* The types under the steps of the application and the main loop.         *)

\* The steps of the environment of the threads.
MainStep == \/ Application \/ Device \/ MainLoop
            \/ \E m \in Msgs : Appended(m)

LEMMA MainFields ==
  ASSUME TypeOK, MainStep
  PROVE  FieldsOK'
<1> USE DEF TypeOK, FieldsOK, flagVars, lockVars
<1>1. ASSUME NEW m \in Msgs,
             AddAsync(m) \/ Add(m) \/ Appended(m) \/ OnMsgSent(m)
      PROVE  FieldsOK'
  BY <1>1 DEF AddAsync, Add, Appended, OnMsgSent
<1>2. ASSUME NEW m \in Msgs, OnAdded(m) PROVE FieldsOK'
  BY <1>2, CreateWorkerType DEF OnAdded
<1>3. CASE Flush
  BY <1>3, CreateWorkerType DEF Flush
<1>4. ASSUME NEW a \in CancelActions, Cancel(a) PROVE FieldsOK'
  BY <1>4, SendQueueAssumption DEF Cancel, SendQueueAssumption
<1>5. CASE Device \/ AddLocked \/ TellStart \/ TellStop
  BY <1>5 DEF Device, GoOnline, GoOffline, AddLocked, TellStart, TellStop
<1>6. CASE CancelLocked
  BY <1>6, PurgeType DEF CancelLocked, history
<1> QED BY <1>1, <1>2, <1>3, <1>4, <1>5, <1>6
           DEF MainStep, Application, MainLoop

LEMMA MainFolders ==
  ASSUME TypeOK, MainStep
  PROVE  FoldersOK'
<1> USE DEF TypeOK, FoldersOK, folderVars, history
<1>1. ASSUME NEW m \in Msgs,
             \/ AddAsync(m) \/ Add(m) \/ Appended(m) \/ OnMsgSent(m)
             \/ OnAdded(m)
      PROVE  FoldersOK'
  BY <1>1 DEF AddAsync, Add, Appended, OnMsgSent, OnAdded
<1>2. ASSUME NEW a \in CancelActions, Cancel(a) PROVE FoldersOK'
  BY <1>2 DEF Cancel
<1>3. CASE Flush \/ Device \/ AddLocked \/ TellStart \/ TellStop
  BY <1>3 DEF Flush, Device, AddLocked, TellStart, TellStop
<1>4. CASE CancelLocked
  BY <1>4, PurgeType DEF CancelLocked
<1> QED BY <1>1, <1>2, <1>3, <1>4 DEF MainStep, Application, MainLoop

LEMMA MainMain ==
  ASSUME TypeOK, MainStep
  PROVE  MainOK'
<1> USE DEF TypeOK, MainOK, mainVars, history
<1>1. ASSUME NEW m \in Msgs,
             AddAsync(m) \/ Add(m) \/ Appended(m) \/ OnAdded(m)
      PROVE  MainOK'
  BY <1>1 DEF AddAsync, Add, Appended, OnAdded
<1>2. ASSUME NEW m \in Msgs, OnMsgSent(m) PROVE MainOK'
  BY <1>2 DEF OnMsgSent, Signals
<1>3. ASSUME NEW a \in CancelActions, Cancel(a) PROVE MainOK'
  BY <1>3 DEF Cancel
<1>4. CASE Flush \/ Device \/ AddLocked \/ CancelLocked
  BY <1>4 DEF Flush, Device, AddLocked, CancelLocked
<1>5. CASE TellStart
  BY <1>5 DEF TellStart
<1>6. CASE TellStop
  BY <1>6 DEF TellStop
<1> QED BY <1>1, <1>2, <1>3, <1>4, <1>5, <1>6
           DEF MainStep, Application, MainLoop

\* Locals are the threads' own.
LEMMA MainLocals ==
  ASSUME TypeOK, MainStep
  PROVE  LocalsOK' /\ pc' \in [Threads -> ThreadPc]
<1>1. UNCHANGED localVars
  BY DEF MainStep, Application, MainLoop, AddAsync, Add, Appended, OnAdded,
         Flush, Cancel, Device, AddLocked, CancelLocked, TellStart, TellStop,
         OnMsgSent
<1>2. LocalsOK'
  BY <1>1 DEF TypeOK, LocalsOK, localVars
<1>3. ASSUME NEW m \in Msgs, OnAdded(m)
      PROVE  pc' \in [Threads -> ThreadPc]
  BY <1>3, CreateWorkerType DEF OnAdded
<1>4. CASE Flush
  BY <1>2, <1>4, CreateWorkerType DEF Flush
<1>5. CASE TellStart
  BY <1>2, <1>5 DEF TellStart, Goto, TypeOK, ThreadPc
<1>6. ASSUME ~\E m \in Msgs : OnAdded(m), ~Flush, ~TellStart
      PROVE  UNCHANGED pc
  BY <1>6 DEF MainStep, Application, MainLoop, AddAsync, Add, Appended,
              Cancel, Device, AddLocked, CancelLocked, TellStop, OnMsgSent
<1> QED BY <1>2, <1>3, <1>4, <1>5, <1>6 DEF TypeOK

----------------------------------------------------------------------------
(* The header.                                                             *)

\* A step of the environment at most moves a thread to a place without header.
LEMMA MainMoves ==
  ASSUME TypeOK, MainStep
  PROVE  /\ UNCHANGED localVars
         /\ \A t \in Threads : \/ pc'[t] = pc[t]
                               \/ /\ pc[t] = "none" /\ pc'[t] = "begin"
                                  /\ CreateWorker
                               \/ pc[t] = "start" /\ pc'[t] = "first"
<1> USE DEF TypeOK
<1>1. UNCHANGED localVars
  BY DEF MainStep, Application, MainLoop, AddAsync, Add, Appended, OnAdded,
         Flush, Cancel, Device, AddLocked, CancelLocked, TellStart, TellStop,
         OnMsgSent
<1>2. CASE CreateWorker
  BY <1>1, <1>2 DEF CreateWorker
<1>3. CASE TellStart
  BY <1>1, <1>3 DEF TellStart, Goto
<1>4. ASSUME ~CreateWorker, ~TellStart
      PROVE  UNCHANGED pc
  BY <1>4 DEF MainStep, Application, MainLoop, AddAsync, Add, Appended,
              OnAdded, Flush, Cancel, Device, AddLocked, CancelLocked,
              TellStop, OnMsgSent
<1> QED BY <1>1, <1>2, <1>3, <1>4

\* A thread moves itself only, and keeps to its own locals.
LEMMA ThreadMoves ==
  ASSUME TypeOK, NEW t \in Threads, ThreadStep(t)
  PROVE  \A u \in Threads \ {t} :
           /\ pc'[u] = pc[u] /\ ret'[u] = ret[u]
           /\ header'[u] = header[u] /\ err'[u] = err[u]
<1> SUFFICES ASSUME NEW u \in Threads \ {t}
             PROVE  /\ pc'[u] = pc[u] /\ ret'[u] = ret[u]
                    /\ header'[u] = header[u] /\ err'[u] = err[u]
  OBVIOUS
<1> USE DEF TypeOK, LocalsOK, Goto, localVars
<1>1. CASE \/ Begin(t) \/ First(t) \/ FirstHeaders(t) \/ Loop(t) \/ Lock(t)
           \/ Todo(t) \/ Fetch(t) \/ GetMsg(t)
  BY <1>1 DEF Begin, First, FirstHeaders, Loop, Lock, Todo, Fetch, GetMsg
<1>2. CASE Headers(t)
  BY <1>2 DEF Headers
<1>3. CASE \/ Transport(t) \/ Sent(t) \/ Mark(t) \/ Transfer(t) \/ Unlock(t)
           \/ Sync(t) \/ Exit(t) \/ Stop(t)
  BY <1>3 DEF Transport, Sent, Mark, Transfer, Unlock, Sync, Exit, Stop
<1>4. CASE \/ Check(t) \/ Check2(t) \/ Last(t) \/ CancelHere(t) \/ Purge(t)
  BY <1>4 DEF Check, Check2, Last, CheckCancel, CancelHere, Purge
<1> QED BY <1>1, <1>2, <1>3, <1>4 DEF ThreadStep

LEMMA HeaderStep == TypeOK /\ HeaderInv /\ [Next]_vars => HeaderInv'
<1> SUFFICES ASSUME TypeOK, HeaderInv, [Next]_vars
             PROVE  HeaderInv'
  OBVIOUS
<1> USE DEF HeaderInv, HasHeader
<1>1. CASE MainStep
  BY <1>1, MainMoves DEF localVars
<1>2. ASSUME NEW t \in Threads, ThreadStep(t)
      PROVE  HeaderInv'
  <2>1. SUFFICES HasHeader(t)' => header'[t] \in Msgs
    BY <1>2, ThreadMoves
  <2> USE DEF TypeOK, LocalsOK, Goto, localVars, ReturnPc
  <2>2. CASE \/ Begin(t) \/ First(t) \/ FirstHeaders(t) \/ Loop(t)
             \/ Lock(t) \/ Todo(t) \/ Fetch(t) \/ GetMsg(t)
    BY <2>2 DEF Begin, First, FirstHeaders, Loop, Lock, Todo, Fetch, GetMsg
  <2>3. CASE Headers(t)
    BY <2>3 DEF Headers, Sendable, Outbox
  <2>4. CASE \/ Transport(t) \/ Sent(t) \/ Mark(t) \/ Transfer(t)
             \/ Unlock(t) \/ Sync(t) \/ Exit(t) \/ Stop(t)
    BY <2>4 DEF Transport, Sent, Mark, Transfer, Unlock, Sync, Exit, Stop
  <2>5. CASE Check(t) \/ Check2(t) \/ Last(t)
    BY <2>5 DEF Check, Check2, Last, CheckCancel
  <2>6. CASE CancelHere(t) \/ Purge(t)
    BY <2>6 DEF CancelHere, Purge
  <2> QED BY <1>2, <2>2, <2>3, <2>4, <2>5, <2>6 DEF ThreadStep
<1>3. CASE UNCHANGED vars
  BY <1>3 DEF vars, localVars
<1> QED BY <1>1, <1>2, <1>3 DEF Next, MainStep

LEMMA TypeStep == TypeOK /\ HeaderInv /\ [Next]_vars => TypeOK' /\ HeaderInv'
<1>1. TypeOK /\ UNCHANGED vars => TypeOK'
  BY DEF TypeOK, FieldsOK, FoldersOK, LocalsOK, MainOK, vars, flagVars,
         lockVars, folderVars, localVars, mainVars, history
<1>2. ASSUME TypeOK, HeaderInv, NEW t \in Threads, ThreadStep(t) PROVE TypeOK'
  BY <1>2, ThreadFields, ThreadFolders, ThreadLocals, ThreadMain, ThreadPcs
     DEF TypeOK
<1>3. TypeOK /\ MainStep => TypeOK'
  BY MainFields, MainFolders, MainMain, MainLocals DEF TypeOK
<1> QED BY <1>1, <1>2, <1>3, HeaderStep DEF Next, MainStep

LEMMA InitHeader == Init => HeaderInv
BY DEF Init, HeaderInv, HasHeader

\* Every variable keeps its type (the declarations of TnyCamelSendQueuePriv
\* and of thread_main).
THEOREM TypeCorrect == Spec => []TypeOK
<1> QED BY InitType, InitHeader, TypeStep, PTL DEF Spec

----------------------------------------------------------------------------
(* Without cancels: one thread sends at a time.                            *)

\* is_running is TRUE as long as a thread is at work, nobody has requested a
\* cancel, and nobody is serving one.
SenderInv ==
  /\ ~cancel_requested /\ mainPc # "purge"
  /\ \A t \in Threads : pc[t] \notin {"cancel", "purge"}
  /\ \A t \in Threads : ~Ended(t) => is_running
  /\ OneSender

LEMMA SenderStep ==
  ASSUME CancelActions = {}, TypeOK, SenderInv, [Next]_vars
  PROVE  SenderInv'
<1> USE DEF SenderInv, OneSender, Ended, TypeOK, flagVars, mainVars
<1>1. CASE MainStep
  <2> USE DEF MainStep, Application, MainLoop
  <2>1. ~cancel_requested' /\ mainPc' # "purge"
    <3>1. CASE AddLocked \/ CancelLocked \/ TellStart \/ TellStop \/ Device
      BY <3>1 DEF AddLocked, CancelLocked, TellStart, TellStop, Device,
                  PurgeOutbox
    <3>3. CASE Flush
      BY <3>3, CreateWorkerType DEF Flush
    <3>2. ASSUME NEW m \in Msgs,
                 \/ AddAsync(m) \/ Add(m) \/ Appended(m) \/ OnMsgSent(m)
          PROVE  ~cancel_requested' /\ mainPc' # "purge"
      BY <3>2 DEF AddAsync, Add, Appended, OnMsgSent
    <3>4. ASSUME NEW m \in Msgs, OnAdded(m)
          PROVE  ~cancel_requested' /\ mainPc' # "purge"
      BY <3>4, CreateWorkerType DEF OnAdded
    <3> QED BY <1>1, <3>1, <3>2, <3>3, <3>4
  <2>2. CASE CreateWorker
    <3>1. \/ UNCHANGED <<is_running, pc>>
          \/ ~is_running /\ UNCHANGED pc
          \/ /\ ~is_running /\ is_running'
             /\ \E t \in Threads : pc' = [pc EXCEPT ![t] = "begin"]
      BY <2>2 DEF CreateWorker, MayCreate
    <3> QED BY <2>1, <3>1
  <2>3. CASE ~CreateWorker
    <3>1. UNCHANGED is_running
      <4>1. CASE AddLocked \/ CancelLocked \/ TellStart \/ TellStop \/ Device
        BY <4>1 DEF AddLocked, CancelLocked, TellStart, TellStop, Device
      <4>2. ASSUME NEW m \in Msgs,
                   AddAsync(m) \/ Add(m) \/ Appended(m) \/ OnMsgSent(m)
            PROVE  UNCHANGED is_running
        BY <4>2 DEF AddAsync, Add, Appended, OnMsgSent
      <4> QED BY <1>1, <2>3, <4>1, <4>2 DEF OnAdded, Flush
    <3>2. \A t \in Threads : \/ pc'[t] = pc[t]
                             \/ pc[t] = "start" /\ pc'[t] = "first"
      BY <1>1, <2>3, MainMoves
    <3> QED BY <2>1, <2>3, <3>1, <3>2
  <2> QED BY <2>2, <2>3
<1>2. ASSUME NEW t \in Threads, ThreadStep(t)
      PROVE  SenderInv'
  <2>1. \A u \in Threads \ {t} : pc'[u] = pc[u]
    BY <1>2, ThreadMoves
  <2>2. mainPc' = mainPc /\ ~cancel_requested' /\ pc'[t] \notin {"cancel", "purge"}
    <3> USE DEF Goto
    <3>1. CASE \/ Begin(t) \/ First(t) \/ FirstHeaders(t) \/ Loop(t)
               \/ Lock(t) \/ Todo(t) \/ Headers(t) \/ Fetch(t) \/ GetMsg(t)
      BY <3>1 DEF Begin, First, FirstHeaders, Loop, Lock, Todo, Headers,
                  Fetch, GetMsg
    <3>2. CASE \/ Transport(t) \/ Sent(t) \/ Mark(t) \/ Transfer(t)
               \/ Unlock(t) \/ Sync(t) \/ Exit(t) \/ Stop(t)
      BY <3>2 DEF Transport, Sent, Mark, Transfer, Unlock, Sync, Exit, Stop
    <3>3. CASE \/ Check(t) \/ Check2(t) \/ Last(t)
      BY <3>3 DEF Check, Check2, Last, CheckCancel
    <3>4. CASE CancelHere(t) \/ Purge(t)
      BY <3>4 DEF CancelHere, Purge
    <3> QED BY <1>2, <3>1, <3>2, <3>3, <3>4 DEF ThreadStep
  <2>3. CASE Last(t)
    BY <2>1, <2>2, <2>3 DEF Last, CheckCancel, Goto
  <2>4. CASE Stop(t)
    BY <2>1, <2>2, <2>4 DEF Stop, Goto
  <2>5. CASE ~Last(t) /\ ~Stop(t)
    <3>1. ~Ended(t)
      BY <1>2, <2>5 DEF ThreadStep, Begin, First, FirstHeaders, Loop, Lock,
         Todo, Headers, Fetch, GetMsg, Transport, Sent, Check, Check2,
         CheckCancel, CancelHere, Purge, Mark, Transfer, Unlock, Sync, Exit,
         Goto
    <3>2. is_running' = TRUE
      BY <1>2, <2>5, <3>1 DEF ThreadStep, Begin, First, FirstHeaders, Loop,
         Lock, Todo, Headers, Fetch, GetMsg, Transport, Sent, Check, Check2,
         CheckCancel, CancelHere, Purge, Mark, Transfer, Unlock, Sync, Exit,
         Goto
    <3> QED BY <2>1, <2>2, <3>1, <3>2
  <2> QED BY <2>3, <2>4, <2>5
<1>3. CASE UNCHANGED vars
  BY <1>3 DEF vars
<1> QED BY <1>1, <1>2, <1>3 DEF Next, MainStep

LEMMA InitSender == Init => SenderInv
BY DEF Init, SenderInv, OneSender, Ended

\* Without cancels at most one thread is at work, however adds, flushes,
\* failures and the ends of threads interleave (create_worker, check_cancel).
THEOREM OneSenderUncancelled ==
  ASSUME CancelActions = {}
  PROVE  Spec => []OneSender
<1>1. TypeOK /\ HeaderInv /\ SenderInv /\ [Next]_vars
        => TypeOK' /\ HeaderInv' /\ SenderInv'
  BY TypeStep, SenderStep
<1>2. SenderInv => OneSender
  BY DEF SenderInv
<1> QED BY InitType, InitHeader, InitSender, <1>1, <1>2, PTL DEF Spec

----------------------------------------------------------------------------
(* Without cancels: what was reported sent is not sent again.              *)

\* The message that a thread has just sent, and is about to mark.
JustSent(t, m) == /\ header[t] = m /\ ~err[t]
                  /\ pc[t] \in {"sent", "check", "mark"}

\* err is set only while the message at hand has failed; what is chosen to be
\* sent was not reported sent; what was is out of the outbox, marked, or with
\* the thread that sent it.
ErrInv == \A t \in Threads : err[t] => pc[t] \in {"sent", "check", "mark", "unlock"}

ChosenInv == \A t \in Threads :
               pc[t] \in {"fetch", "getMsg", "transport"}
                 => header[t] \notin reported

SentInv == \A m \in reported : \/ place[m] \in {"sentbox", "removed"}
                               \/ "ANSWERED" \in marks[m]
                               \/ \E t \in Threads : JustSent(t, m)

\* What the main loop is about to add is still a draft.
AddInv == mainPc = "add" => mainArg \in Msgs /\ place[mainArg] = "draft"

OnceInv == ErrInv /\ ChosenInv /\ SentInv /\ AddInv

\* The environment neither sends nor marks, and takes no message that was sent.
LEMMA MainOnce ==
  ASSUME CancelActions = {}, TypeOK, SenderInv, OnceInv, MainStep
  PROVE  OnceInv'
<1>1. /\ UNCHANGED <<header, err>>
      /\ \A t \in Threads : \/ pc'[t] = pc[t]
                            \/ pc[t] = "none" /\ pc'[t] = "begin"
                            \/ pc[t] = "start" /\ pc'[t] = "first"
  BY MainMoves DEF localVars
<1> USE DEF TypeOK, FoldersOK
<1> DEFINE Kept == /\ UNCHANGED <<sent, reported, marks>>
                   /\ \A m \in Msgs : \/ place'[m] = place[m]
                                      \/ place[m] \in {"draft", "adding"}
                   /\ AddInv'
<1>2. Kept
  <2> USE DEF OnceInv, AddInv, SenderInv, Idle, history, folderVars, mainVars
  <2>1. ASSUME NEW m \in Msgs, AddAsync(m) \/ Add(m) PROVE Kept
    BY <2>1 DEF AddAsync, Add
  <2>2. ASSUME NEW m \in Msgs, Appended(m) PROVE Kept
    BY <2>2 DEF Appended
  <2>3. ASSUME NEW m \in Msgs, OnMsgSent(m) \/ OnAdded(m) PROVE Kept
    BY <2>3 DEF OnMsgSent, OnAdded
  <2>4. CASE Flush \/ Device \/ TellStart \/ TellStop \/ CancelLocked
    BY <2>4 DEF Flush, Device, TellStart, TellStop, CancelLocked
  <2>5. CASE AddLocked
    BY <2>5 DEF AddLocked
  <2> QED BY <2>1, <2>2, <2>3, <2>4, <2>5 DEF MainStep, Application, MainLoop
<1>3. ErrInv' /\ ChosenInv'
  <2>1. ErrInv'
    BY <1>1 DEF OnceInv, ErrInv
  <2>2. ChosenInv'
    BY <1>1, <1>2 DEF OnceInv, ChosenInv
  <2> QED BY <2>1, <2>2
<1>4. ASSUME NEW m \in reported'
      PROVE  \/ place'[m] \in {"sentbox", "removed"}
             \/ "ANSWERED" \in marks'[m]
             \/ \E t \in Threads : JustSent(t, m)'
  <2>1. CASE \E t \in Threads : JustSent(t, m)
    <3>1. PICK t \in Threads : JustSent(t, m)
      BY <2>1
    <3>2. pc'[t] = pc[t]
      BY <1>1, <3>1 DEF JustSent
    <3> QED BY <1>1, <3>1, <3>2 DEF JustSent
  <2>2. CASE ~\E t \in Threads : JustSent(t, m)
    BY <1>2, <1>4, <2>2 DEF OnceInv, SentInv
  <2> QED BY <2>1, <2>2
<1> QED BY <1>2, <1>3, <1>4 DEF OnceInv, SentInv

\* A thread sends what was never sent, and marks what it has sent.
LEMMA ThreadOnce ==
  ASSUME CancelActions = {}, TypeOK, HeaderInv, SenderInv, OnceInv,
         NEW t \in Threads, ThreadStep(t)
  PROVE  OnceInv'
<1>1. \A u \in Threads \ {t} :
        pc'[u] = pc[u] /\ header'[u] = header[u] /\ err'[u] = err[u]
  BY ThreadMoves
<1> USE DEF TypeOK, FoldersOK, LocalsOK, Goto, localVars, folderVars, history,
            lockVars
<1>3. ErrInv'
  <2>1. err'[t] => pc'[t] \in {"sent", "check", "mark", "unlock"}
    <3> USE DEF OnceInv, ErrInv
    <3>1. CASE \/ Begin(t) \/ First(t) \/ FirstHeaders(t) \/ Loop(t)
               \/ Lock(t) \/ Todo(t) \/ Headers(t) \/ Fetch(t)
      BY <3>1 DEF Begin, First, FirstHeaders, Loop, Lock, Todo, Headers, Fetch
    <3>2. CASE GetMsg(t) \/ Transport(t)
      BY <3>2 DEF GetMsg, Transport
    <3>3. CASE Sent(t) \/ Mark(t) \/ Transfer(t)
      BY <3>3 DEF Sent, Mark, Delivered, Transfer
    <3>4. CASE Unlock(t) \/ Sync(t) \/ Exit(t) \/ Stop(t)
      BY <3>4 DEF Unlock, Sync, Exit, Stop
    <3>5. CASE Check(t) \/ Check2(t) \/ Last(t)
      BY <3>5 DEF Check, Check2, Last, CheckCancel, SenderInv
    <3>6. CASE CancelHere(t) \/ Purge(t)
      BY <3>6 DEF CancelHere, Purge, SenderInv
    <3> QED BY <3>1, <3>2, <3>3, <3>4, <3>5, <3>6 DEF ThreadStep
  <2> QED BY <1>1, <2>1 DEF OnceInv, ErrInv
<1>4. AddInv'
  <2>1. UNCHANGED <<mainPc, mainArg>>
    BY DEF ThreadStep, Begin, First, FirstHeaders, Loop, Lock, Todo, Headers,
       Fetch, GetMsg, Transport, Sent, Check, Check2, Last, CheckCancel,
       CancelHere, Purge, Mark, Transfer, Unlock, Sync, Exit, Stop, mainVars
  <2>2. \A m \in Msgs : place[m] = "draft" => place'[m] = "draft"
    <3>1. CASE Transfer(t)
      BY <3>1 DEF Transfer, Outbox
    <3>2. CASE ~Transfer(t)
      BY <3>2 DEF SenderInv, ThreadStep, Begin, First, FirstHeaders, Loop,
         Lock, Todo, Headers, Fetch, GetMsg, Transport, Sent, Check, Check2,
         Last, CheckCancel, CancelHere, Purge, Mark, Unlock, Sync, Exit, Stop
    <3> QED BY <3>1, <3>2
  <2> QED BY <2>1, <2>2 DEF OnceInv, AddInv
\* The step of the transport, the only one that sends.
<1>5. CASE Transport(t)
  <2>1. /\ pc[t] = "transport" /\ header[t] \in Msgs /\ ~err[t]
        /\ header[t] \notin reported
    BY <1>5 DEF Transport, OnceInv, ErrInv, ChosenInv, HeaderInv, HasHeader
  <2>2. \A u \in Threads \ {t} : Ended(u)
    BY <2>1 DEF SenderInv, OneSender, Ended
  <2>3. \/ reported' = reported \cup {header[t]} /\ ~err'[t]
        \/ UNCHANGED reported
    BY <1>5, <2>1 DEF Transport
  <2>4. UNCHANGED <<place, marks, header>> /\ pc'[t] = "sent"
    BY <1>5 DEF Transport
  <2>6. ChosenInv'
    BY <1>1, <2>2, <2>4 DEF ChosenInv, Ended
  <2>7. ASSUME NEW m \in reported'
        PROVE  \/ place'[m] \in {"sentbox", "removed"}
               \/ "ANSWERED" \in marks'[m]
               \/ \E u \in Threads : JustSent(u, m)'
    <3>1. CASE m = header[t]
      BY <2>1, <2>3, <2>4, <2>7, <3>1 DEF JustSent
    <3>2. CASE m # header[t]
      <4>1. m \in reported
        BY <2>3, <2>7, <3>2
      <4> QED BY <1>1, <2>1, <2>4, <4>1 DEF OnceInv, SentInv, JustSent
    <3> QED BY <3>1, <3>2
  <2> QED BY <1>3, <1>4, <2>6, <2>7 DEF OnceInv, SentInv
<1>6. CASE ~Transport(t)
  <2>1. UNCHANGED reported
    BY <1>6 DEF SenderInv, ThreadStep, Begin, First, FirstHeaders, Loop,
       Lock, Todo, Headers, Fetch, GetMsg, Sent, Check, Check2, Last,
       CheckCancel, CancelHere, Purge, Mark, Transfer, Unlock, Sync, Exit,
       Stop
  <2>3. pc'[t] \in {"fetch", "getMsg", "transport"} => header'[t] \notin reported
    <3>1. CASE Headers(t)
      <4>1. \A u \in Threads, m \in Msgs : ~JustSent(u, m)
        BY <3>1 DEF Headers, SenderInv, OneSender, Ended, JustSent
      <4>2. \A m \in Sendable(t) : m \in Msgs /\ m \notin reported
        BY <4>1 DEF Sendable, Outbox, OnceInv, SentInv
      <4> QED BY <3>1, <4>2 DEF Headers
    <3>2. CASE Fetch(t) \/ GetMsg(t)
      BY <3>2 DEF Fetch, GetMsg, OnceInv, ChosenInv
    <3>3. CASE ~Headers(t) /\ ~Fetch(t) /\ ~GetMsg(t)
      BY <1>6, <3>3 DEF SenderInv, ThreadStep, Begin, First, FirstHeaders,
         Loop, Lock, Todo, Sent, Check, Check2, Last, CheckCancel, CancelHere,
         Purge, Mark, Transfer, Unlock, Sync, Exit, Stop
    <3> QED BY <3>1, <3>2, <3>3
  <2>4. ChosenInv'
    BY <1>1, <2>1, <2>3 DEF OnceInv, ChosenInv
  <2>5. ASSUME NEW m \in Msgs
        PROVE  /\ place[m] \in {"sentbox", "removed"} => place'[m] = place[m]
               /\ marks[m] \subseteq marks'[m]
    <3>1. CASE Mark(t)
      BY <3>1 DEF Mark, MarkSent
    <3>2. CASE Transfer(t)
      BY <3>2 DEF Transfer, Outbox
    <3>3. CASE ~Mark(t) /\ ~Transfer(t)
      BY <1>6, <3>3 DEF SenderInv, ThreadStep, Begin, First, FirstHeaders,
         Loop, Lock, Todo, Headers, Fetch, GetMsg, Sent, Check, Check2, Last,
         CheckCancel, CancelHere, Purge, Unlock, Sync, Exit, Stop
    <3> QED BY <3>1, <3>2, <3>3
  <2>6. ASSUME NEW m \in Msgs, JustSent(t, m)
        PROVE  "ANSWERED" \in marks'[m] \/ JustSent(t, m)'
    <3>1. CASE Sent(t)
      BY <2>6, <3>1 DEF JustSent, Sent
    <3>2. CASE Check(t)
      BY <2>6, <3>2 DEF JustSent, Check, CheckCancel, SenderInv
    <3>3. CASE Mark(t)
      BY <2>6, <3>3 DEF JustSent, Mark, MarkSent
    <3> QED BY <1>6, <2>6, <3>1, <3>2, <3>3 DEF JustSent, ThreadStep, Begin,
         First, FirstHeaders, Loop, Lock, Todo, Headers, Fetch, GetMsg,
         Check2, Last, CheckCancel, CancelHere, Purge, Transfer, Unlock,
         Sync, Exit, Stop
  <2>7. SentInv'
    <3> SUFFICES ASSUME NEW m \in reported
                 PROVE  \/ place'[m] \in {"sentbox", "removed"}
                        \/ "ANSWERED" \in marks'[m]
                        \/ \E u \in Threads : JustSent(u, m)'
      BY <2>1 DEF SentInv
    <3>1. CASE \E u \in Threads : JustSent(u, m)
      BY <1>1, <2>6, <3>1 DEF JustSent
    <3>2. CASE ~\E u \in Threads : JustSent(u, m)
      BY <2>5, <3>2 DEF OnceInv, SentInv
    <3> QED BY <3>1, <3>2
  <2> QED BY <1>3, <1>4, <2>4, <2>7 DEF OnceInv
<1> QED BY <1>5, <1>6

LEMMA InitOnce == Init => OnceInv
BY DEF Init, OnceInv, ErrInv, ChosenInv, SentInv, AddInv

\* Without cancels no message is handed to the transport again whose sending was
\* reported without an error, whatever fails and however often the queue is
\* flushed: the mark ANSWERED does what it is there for (ChangeLog:2257).
THEOREM SentOnceUncancelled ==
  ASSUME CancelActions = {}
  PROVE  Spec => []SentOnce
<1> DEFINE IInv == TypeOK /\ HeaderInv /\ SenderInv /\ OnceInv
<1>1. Init => IInv
  BY InitType, InitHeader, InitSender, InitOnce
<1>2. IInv /\ [Next]_vars => IInv'
  <2> SUFFICES ASSUME IInv, [Next]_vars PROVE IInv'
    OBVIOUS
  <2>1. TypeOK' /\ HeaderInv' /\ SenderInv'
    BY TypeStep, SenderStep
  <2>2. ASSUME UNCHANGED vars PROVE OnceInv'
    <3> USE <2>2 DEF vars, localVars, folderVars, mainVars, history
    <3>1. ErrInv' /\ ChosenInv'
      BY DEF OnceInv, ErrInv, ChosenInv
    <3>2. SentInv'
      BY DEF OnceInv, SentInv, JustSent
    <3>3. AddInv'
      BY DEF OnceInv, AddInv
    <3> QED BY <3>1, <3>2, <3>3 DEF OnceInv
  <2>3. OnceInv'
    BY <2>2, MainOnce, ThreadOnce DEF Next, MainStep
  <2> QED BY <2>1, <2>3
<1>3. IInv => SentOnce
  BY DEF OnceInv, ChosenInv, SentOnce
<1> QED BY <1>1, <1>2, <1>3, PTL DEF Spec

----------------------------------------------------------------------------
(* With cancels or without: what is filed is out, and what was reported so *)
(* is marked.  Two threads may be at work here, but each keeps to its header. *)

\* A thread that has tried to send its message and has not moved it yet.
Tried(t) == \/ pc[t] \in {"sent", "check", "mark"}
            \/ pc[t] \in {"cancel", "purge"} /\ ret[t] = "mark"

FailedInv == \A t \in Threads : err[t] => Tried(t) \/ pc[t] = "unlock"

\* What a thread is busy with was added, and what was not added was not sent.
AddedInv ==
  /\ AddInv
  /\ \A t \in Threads : HasHeader(t) => place[header[t]] \notin {"draft", "adding"}
  /\ \A m \in reported : place[m] \notin {"draft", "adding"}

FiledInv ==
  /\ \A t \in Threads :
       (Tried(t) /\ ~err[t]) \/ pc[t] = "transfer"
         => (header[t] \in Addressed => header[t] \in sent)
  /\ FiledWasSent

MarkedInv ==
  \A m \in reported :
    place[m] = "outbox" =>
      \/ "ANSWERED" \in marks[m]
      \/ \E t \in Threads : Tried(t) /\ ~err[t] /\ header[t] = m

FilingInv == FailedInv /\ AddedInv /\ FiledInv /\ MarkedInv

\* How far any step moves a message: it is added, filed or removed, never put
\* back, and loses no mark.
Onward == \A m \in Msgs :
            /\ \/ place'[m] = place[m]
               \/ place[m] = "draft" /\ place'[m] = "adding"
               \/ place[m] = "adding" /\ place'[m] \in {"outbox", "draft"}
               \/ place[m] = "outbox" /\ place'[m] \in {"sentbox", "removed"}
            /\ marks[m] \subseteq marks'[m]
            /\ m \in sent => m \in sent'

LEMMA PurgeOnward ==
  ASSUME TypeOK, NEW owner, NEW a, PurgeOutbox(owner, a), UNCHANGED sent
  PROVE  /\ Onward
         /\ \A m \in Msgs : /\ place[m] = "draft" => place'[m] = "draft"
                            /\ place'[m] # "sentbox" \/ place'[m] = place[m]
<1>1. PICK S \in SUBSET Outbox :
        IF a = "REMOVE"
        THEN /\ place' = [m \in Msgs |-> IF m \in S THEN "removed"
                                         ELSE place[m]]
             /\ UNCHANGED marks
        ELSE /\ marks' = [m \in Msgs |-> IF m \in S
                                         THEN marks[m] \cup {"SUSPENDED"}
                                         ELSE marks[m]]
             /\ UNCHANGED place
  BY DEF PurgeOutbox
<1> QED BY <1>1 DEF TypeOK, FoldersOK, Onward, Outbox

LEMMA MainOnward ==
  ASSUME TypeOK, AddInv, MainStep
  PROVE  /\ Onward /\ AddInv' /\ UNCHANGED <<sent, reported>>
         /\ \A m \in Msgs : place'[m] # "sentbox" \/ place'[m] = place[m]
<1> DEFINE Goal == /\ Onward /\ AddInv' /\ UNCHANGED <<sent, reported>>
                   /\ \A m \in Msgs : \/ place'[m] # "sentbox"
                                      \/ place'[m] = place[m]
<1> USE DEF TypeOK, FoldersOK, AddInv, Idle, history, folderVars, mainVars
<1>1. ASSUME NEW m \in Msgs, AddAsync(m) \/ Add(m) PROVE Goal
  BY <1>1 DEF AddAsync, Add, Onward
<1>2. ASSUME NEW m \in Msgs, Appended(m) PROVE Goal
  BY <1>2 DEF Appended, Onward
<1>3. ASSUME NEW m \in Msgs, OnMsgSent(m) \/ OnAdded(m) PROVE Goal
  BY <1>3 DEF OnMsgSent, OnAdded, Onward
<1>4. CASE Flush \/ Device \/ TellStart \/ TellStop
  BY <1>4 DEF Flush, Device, TellStart, TellStop, Onward
<1>5. ASSUME NEW a \in CancelActions, Cancel(a) PROVE Goal
  BY <1>5 DEF Cancel, Onward
<1>6. CASE AddLocked
  BY <1>6 DEF AddLocked, Onward
<1>7. CASE CancelLocked
  BY <1>7, PurgeOnward DEF CancelLocked
<1> QED BY <1>1, <1>2, <1>3, <1>4, <1>5, <1>6, <1>7
           DEF MainStep, Application, MainLoop

LEMMA MainFiling ==
  ASSUME TypeOK, HeaderInv, FilingInv, MainStep
  PROVE  FilingInv'
<1>1. /\ UNCHANGED <<header, err, ret>>
      /\ \A t \in Threads : \/ pc'[t] = pc[t]
                            \/ pc[t] = "none" /\ pc'[t] = "begin"
                            \/ pc[t] = "start" /\ pc'[t] = "first"
  BY MainMoves DEF localVars
<1>2. /\ Onward /\ AddInv' /\ UNCHANGED <<sent, reported>>
      /\ \A m \in Msgs : place'[m] # "sentbox" \/ place'[m] = place[m]
  BY MainOnward DEF FilingInv, AddedInv
<1>3. \A t \in Threads : /\ Tried(t)' <=> Tried(t)
                         /\ HasHeader(t)' <=> HasHeader(t)
                         /\ pc'[t] = "transfer" <=> pc[t] = "transfer"
  BY <1>1 DEF Tried, HasHeader
<1>4. FailedInv'
  BY <1>1 DEF FilingInv, FailedInv, Tried
<1>0. Addressed \subseteq Msgs /\ reported \subseteq Msgs
  BY SendQueueAssumption DEF SendQueueAssumption, TypeOK, FoldersOK
<1>5. AddedInv'
  <2>1. \A m \in reported : place'[m] \notin {"draft", "adding"}
    BY <1>0, <1>2 DEF FilingInv, AddedInv, Onward
  <2>2. \A t \in Threads :
          HasHeader(t) => place'[header[t]] \notin {"draft", "adding"}
    BY <1>2 DEF FilingInv, AddedInv, Onward, HeaderInv
  <2> QED BY <1>1, <1>2, <1>3, <2>1, <2>2 DEF AddedInv
<1>6. FiledInv'
  <2>1. FiledWasSent'
    BY <1>0, <1>2 DEF FilingInv, FiledInv, FiledWasSent
  <2> QED BY <1>1, <1>2, <1>3, <2>1 DEF FilingInv, FiledInv
<1>7. MarkedInv'
  BY <1>1, <1>2, <1>3 DEF FilingInv, MarkedInv, AddedInv, Onward, TypeOK,
                          FoldersOK
<1> QED BY <1>4, <1>5, <1>6, <1>7 DEF FilingInv

\* What a step of a thread does to the messages: only Transfer files, and only
\* Transport sends.
LEMMA ThreadOnward ==
  ASSUME TypeOK, NEW t \in Threads, ThreadStep(t)
  PROVE  /\ Onward
         /\ \A m \in Msgs :
              /\ place[m] = "draft" => place'[m] = "draft"
              /\ m \in reported' => m \in reported \/ (pc[t] = "transport" /\ m = header[t])
              /\ \/ place'[m] # "sentbox" \/ place'[m] = place[m]
                 \/ pc[t] = "transfer" /\ m = header[t]
         /\ UNCHANGED <<mainPc, mainArg>>
<1> USE DEF TypeOK, FoldersOK, folderVars, history, mainVars
<1>1. CASE \/ Begin(t) \/ First(t) \/ FirstHeaders(t) \/ Loop(t) \/ Lock(t)
           \/ Todo(t) \/ Headers(t) \/ Fetch(t) \/ GetMsg(t) \/ Sent(t)
  BY <1>1 DEF Begin, First, FirstHeaders, Loop, Lock, Todo, Headers, Fetch,
              GetMsg, Sent, Onward
<1>2. CASE \/ Check(t) \/ Check2(t) \/ Last(t) \/ CancelHere(t) \/ Unlock(t)
           \/ Sync(t) \/ Exit(t) \/ Stop(t)
  BY <1>2 DEF Check, Check2, Last, CheckCancel, CancelHere, Unlock, Sync,
              Exit, Stop, Onward
<1>3. CASE Transport(t)
  BY <1>3 DEF Transport, Onward, Goto
<1>4. CASE Mark(t)
  BY <1>4 DEF Mark, MarkSent, Onward
<1>5. CASE Transfer(t)
  BY <1>5 DEF Transfer, Outbox, Onward, Goto
<1>6. CASE Purge(t)
  BY <1>6, PurgeOnward DEF Purge
<1> QED BY <1>1, <1>2, <1>3, <1>4, <1>5, <1>6 DEF ThreadStep

LEMMA ThreadFiling ==
  ASSUME TypeOK, HeaderInv, FilingInv, NEW t \in Threads, ThreadStep(t)
  PROVE  FilingInv'
<1>1. \A u \in Threads \ {t} :
        /\ pc'[u] = pc[u] /\ ret'[u] = ret[u]
        /\ header'[u] = header[u] /\ err'[u] = err[u]
  BY ThreadMoves
<1>2. \A u \in Threads \ {t} : /\ Tried(u)' <=> Tried(u)
                               /\ HasHeader(u)' <=> HasHeader(u)
  BY <1>1 DEF Tried, HasHeader
<1>3. /\ Onward
      /\ \A m \in Msgs :
           /\ place[m] = "draft" => place'[m] = "draft"
           /\ m \in reported' => m \in reported \/ (pc[t] = "transport" /\ m = header[t])
           /\ \/ place'[m] # "sentbox" \/ place'[m] = place[m]
              \/ pc[t] = "transfer" /\ m = header[t]
      /\ UNCHANGED <<mainPc, mainArg>>
  BY ThreadOnward
\* How the thread's own place and locals change, when it has a message at hand.
<1> DEFINE
      Same == header'[t] = header[t]
      Moved ==
        /\ err'[t] => Tried(t)' \/ pc'[t] = "unlock"
        /\ HasHeader(t)' => (HasHeader(t) /\ Same) \/ header'[t] \in Outbox
        /\ Tried(t)' /\ ~err'[t] =>
             /\ Same
             /\ \/ Tried(t) /\ ~err[t]
                \/ header[t] \in Addressed => header[t] \in sent'
        /\ pc'[t] = "transfer" => Tried(t) /\ ~err[t] /\ Same
        /\ Tried(t) /\ ~err[t] => \/ Tried(t)' /\ ~err'[t] /\ Same
                                 \/ "ANSWERED" \in marks'[header[t]]
        /\ pc[t] = "transport" /\ reported' # reported
             => Tried(t)' /\ ~err'[t] /\ Same
<1>4. Moved
  <2> USE DEF TypeOK, FoldersOK, LocalsOK, Goto, localVars, folderVars,
              history, Tried, HasHeader, FilingInv, FailedInv, ReturnPc
  <2>1. CASE \/ Begin(t) \/ First(t) \/ FirstHeaders(t) \/ Loop(t) \/ Lock(t)
             \/ Todo(t) \/ Fetch(t)
    BY <2>1 DEF Begin, First, FirstHeaders, Loop, Lock, Todo, Fetch
  <2>2. CASE Headers(t)
    BY <2>2 DEF Headers, Sendable
  <2>3. CASE GetMsg(t)
    BY <2>3 DEF GetMsg
  <2>4. CASE Transport(t)
    BY <2>4 DEF Transport, HeaderInv
  <2>5. CASE Sent(t)
    BY <2>5 DEF Sent
  <2>6. CASE Check(t) \/ Check2(t) \/ Last(t)
    BY <2>6 DEF Check, Check2, Last, CheckCancel
  <2>7. CASE CancelHere(t) \/ Purge(t)
    BY <2>7 DEF CancelHere, Purge
  <2>8. CASE Mark(t)
    BY <2>8 DEF Mark, MarkSent, Delivered, HeaderInv
  <2>9. CASE Transfer(t) \/ Unlock(t) \/ Sync(t) \/ Exit(t) \/ Stop(t)
    BY <2>9 DEF Transfer, Unlock, Sync, Exit, Stop
  <2> QED BY <2>1, <2>2, <2>3, <2>4, <2>5, <2>6, <2>7, <2>8, <2>9 DEF ThreadStep
<1> HIDE DEF Moved
<1>5. \A u \in Threads : Tried(u) \/ pc[u] \in {"transport", "transfer"} => HasHeader(u)
  BY DEF Tried, HasHeader
<1>6. FailedInv'
  BY <1>1, <1>2, <1>4 DEF Moved, FilingInv, FailedInv
<1>7. AddedInv'
  <2>1. AddInv'
    BY <1>3 DEF FilingInv, AddedInv, AddInv
  <2>2. ASSUME NEW u \in Threads, HasHeader(u)'
        PROVE  place'[header'[u]] \notin {"draft", "adding"}
    <3>1. \/ HasHeader(u) /\ header'[u] = header[u]
          \/ header'[u] \in Outbox
      BY <1>1, <1>2, <1>4, <2>2 DEF Moved
    <3>2. header'[u] \in Msgs /\ place[header'[u]] \notin {"draft", "adding"}
      BY <3>1 DEF HeaderInv, FilingInv, AddedInv, Outbox
    <3> QED BY <1>3, <3>2 DEF Onward
  <2>3. ASSUME NEW m \in Msgs, place'[m] \in {"draft", "adding"}
        PROVE  m \notin reported'
    <3>1. place[m] \in {"draft", "adding"} /\ m \notin reported
      BY <1>3, <2>3 DEF Onward, FilingInv, AddedInv
    <3> QED BY <1>3, <1>5, <3>1 DEF FilingInv, AddedInv
  <2>4. reported' \subseteq Msgs
    BY ThreadFolders DEF FoldersOK
  <2> QED BY <2>1, <2>2, <2>3, <2>4 DEF AddedInv
<1>8. FiledInv'
  <2>0. \A m \in Msgs : m \in sent => m \in sent'
    BY <1>3 DEF Onward
  <2>1. ASSUME NEW u \in Threads, (Tried(u)' /\ ~err'[u]) \/ pc'[u] = "transfer"
        PROVE  header'[u] \in Addressed => header'[u] \in sent'
    <3>1. \/ /\ header'[u] = header[u]
             /\ (Tried(u) /\ ~err[u]) \/ pc[u] = "transfer"
          \/ header'[u] \in Addressed => header'[u] \in sent'
      BY <1>1, <1>2, <1>4, <2>1 DEF Moved
    <3>2. ASSUME (Tried(u) /\ ~err[u]) \/ pc[u] = "transfer"
          PROVE  /\ header[u] \in Msgs
                 /\ header[u] \in Addressed => header[u] \in sent
      BY <1>5, <3>2 DEF HeaderInv, FilingInv, FiledInv
    <3> QED BY <2>0, <3>1, <3>2
  <2>2. FiledWasSent'
    <3> SUFFICES ASSUME NEW m \in Addressed, place'[m] = "sentbox"
                 PROVE  m \in sent'
      BY DEF FiledWasSent
    <3>1. m \in Msgs
      BY SendQueueAssumption DEF SendQueueAssumption
    <3>2. m \in sent
      BY <1>3, <3>1 DEF FilingInv, FiledInv, FiledWasSent
    <3> QED BY <2>0, <3>1, <3>2
  <2> QED BY <2>1, <2>2 DEF FiledInv
<1>9. MarkedInv'
  <2> SUFFICES ASSUME NEW m \in reported', place'[m] = "outbox"
               PROVE  \/ "ANSWERED" \in marks'[m]
                      \/ \E u \in Threads :
                           Tried(u)' /\ ~err'[u] /\ header'[u] = m
    BY DEF MarkedInv
  <2>0. m \in Msgs
    BY ThreadFolders DEF FoldersOK
  <2>1. CASE m \notin reported
    BY <1>3, <1>4, <2>0, <2>1 DEF Moved
  <2>2. CASE m \in reported
    <3>1. place[m] = "outbox"
      BY <1>3, <2>0, <2>2 DEF Onward, FilingInv, AddedInv
    <3>2. \/ "ANSWERED" \in marks[m]
          \/ \E u \in Threads : Tried(u) /\ ~err[u] /\ header[u] = m
      BY <2>2, <3>1 DEF FilingInv, MarkedInv
    <3>3. "ANSWERED" \in marks[m] => "ANSWERED" \in marks'[m]
      BY <1>3, <2>0 DEF Onward
    <3> QED BY <1>1, <1>2, <1>4, <3>2, <3>3 DEF Moved
  <2> QED BY <2>1, <2>2
<1> QED BY <1>6, <1>7, <1>8, <1>9 DEF FilingInv

LEMMA InitFiling == Init => FilingInv
<1> SUFFICES ASSUME Init PROVE FilingInv
  OBVIOUS
<1> USE DEF Init
<1>1. FailedInv /\ AddedInv
  BY DEF FailedInv, AddedInv, AddInv, HasHeader
<1>2. FiledInv
  BY SendQueueAssumption DEF FiledInv, FiledWasSent, Tried, SendQueueAssumption
<1>3. MarkedInv
  BY DEF MarkedInv
<1> QED BY <1>1, <1>2, <1>3 DEF FilingInv

LEMMA FilingStep ==
  ASSUME TypeOK, HeaderInv, FilingInv, [Next]_vars
  PROVE  FilingInv'
<1>1. ASSUME UNCHANGED vars PROVE FilingInv'
  <2> USE <1>1 DEF vars, localVars, folderVars, mainVars, history, Tried,
                   HasHeader
  <2>1. FailedInv' /\ AddedInv'
    BY DEF FilingInv, FailedInv, AddedInv, AddInv
  <2>2. FiledInv' /\ MarkedInv'
    BY DEF FilingInv, FiledInv, FiledWasSent, MarkedInv
  <2> QED BY <2>1, <2>2 DEF FilingInv
<1> QED BY <1>1, MainFiling, ThreadFiling DEF Next, MainStep

\* Nothing with a recipient is filed in the sentbox that is not out, with cancels or without
\* (thread_main, the test of err before transfer_sync).
THEOREM SentboxHoldsSent == Spec => []FiledWasSent
<1>1. FilingInv => FiledWasSent
  BY DEF FilingInv, FiledInv
<1> QED BY InitType, InitHeader, InitFiling, TypeStep, FilingStep, <1>1, PTL
           DEF Spec

\* A message reported as sent that is still in the outbox is marked, or with the
\* thread that has sent it, with cancels or without (thread_main, TNY_HEADER_FLAG_ANSWERED).
THEOREM OutboxIsMarked == Spec => []SentIsMarked
<1>1. FilingInv => SentIsMarked
  BY DEF FilingInv, MarkedInv, SentIsMarked, Tried
<1> QED BY InitType, InitHeader, InitFiling, TypeStep, FilingStep, <1>1, PTL
           DEF Spec

----------------------------------------------------------------------------
(* Requests.                                                               *)

\* A step of the environment that asks for a cancel, or lets the queue run, finds a
\* thread or creates it.
LEMMA MainRequest ==
  ASSUME TypeOK, RequestHasThread, MainStep
  PROVE  RequestHasThread'
<1> USE DEF RequestHasThread, Ended, flagVars, mainVars, lockVars
<1>1. \A t \in Threads : ~Ended(t) => ~Ended(t)'
  BY MainMoves DEF localVars
<1>2. CASE CreateWorker
  <2>1. \/ UNCHANGED is_running
        \/ ~is_running'
        \/ is_running' /\ \E t \in Threads : pc' = [pc EXCEPT ![t] = "begin"]
    BY <1>2 DEF CreateWorker
  <2>2. CASE \E t \in Threads : pc' = [pc EXCEPT ![t] = "begin"]
    <3>1. \E t \in Threads : pc'[t] = "begin"
      BY <2>2 DEF TypeOK
    <3> QED BY <3>1
  <2>3. cancel_requested' => cancel_requested
    BY <1>2, CreateWorkerType
  <2> QED BY <1>1, <2>1, <2>2, <2>3
<1>3. CASE ~CreateWorker
  <2>1. /\ cancel_requested' => cancel_requested \/ is_running
        /\ is_running' => is_running
    BY <1>3 DEF MainStep, Application, MainLoop, AddAsync, Add, Appended, OnAdded, Flush,
       Cancel, Device, AddLocked, CancelLocked, PurgeOutbox, TellStart, TellStop, OnMsgSent
  <2> QED BY <1>1, <2>1
<1> QED BY <1>2, <1>3

\* A thread that ends, or renews a request at its end, leaves none behind, or leaves it
\* to another thread.
LEMMA ThreadRequest ==
  ASSUME TypeOK, RequestHasThread, NEW t \in Threads, ThreadStep(t)
  PROVE  RequestHasThread'
<1> USE DEF RequestHasThread, Goto, flagVars, lockVars, localVars
<1>1. \A u \in Threads \ {t} : ~Ended(u) => ~Ended(u)'
  BY ThreadMoves DEF Ended
<1>2. CASE \/ Begin(t) \/ First(t) \/ FirstHeaders(t) \/ Loop(t) \/ Lock(t)
           \/ Todo(t) \/ Headers(t) \/ Fetch(t) \/ GetMsg(t)
  <2>1. UNCHANGED <<cancel_requested, is_running>> /\ ~Ended(t)'
    BY <1>2 DEF Begin, First, FirstHeaders, Loop, Lock, Todo, Headers, Fetch, GetMsg,
       Ended, TypeOK
  <2> QED BY <1>1, <2>1
<1>3. CASE \/ Transport(t) \/ Sent(t) \/ Mark(t) \/ Transfer(t) \/ Unlock(t)
           \/ Sync(t) \/ Exit(t)
  <2>1. UNCHANGED <<cancel_requested, is_running>> /\ ~Ended(t)'
    BY <1>3 DEF Transport, Sent, Mark, Transfer, Unlock, Sync, Exit, Ended, TypeOK
  <2> QED BY <1>1, <2>1
<1>4. CASE Check(t) \/ Check2(t)
  <2>1. ~Ended(t)'
    BY <1>4 DEF Check, Check2, CheckCancel, Ended, TypeOK, LocalsOK
  <2> QED BY <2>1
<1>5. CASE Last(t)
  BY <1>5 DEF Last, CheckCancel
<1>6. CASE CancelHere(t) \/ Purge(t)
  <2>1. /\ cancel_requested' => cancel_requested \/ is_running
        /\ is_running' => is_running
    BY <1>6 DEF CancelHere, Purge, PurgeOutbox
  <2>2. ~Ended(t) => ~Ended(t)'
    BY <1>6 DEF CancelHere, Purge, Ended, TypeOK, LocalsOK, ReturnPc
  <2> QED BY <1>1, <2>1, <2>2
<1>7. CASE Stop(t)
  <2>1. UNCHANGED <<cancel_requested, is_running>> /\ Ended(t)
    BY <1>7 DEF Stop, Ended
  <2> QED BY <1>1, <2>1
<1> QED BY <1>2, <1>3, <1>4, <1>5, <1>6, <1>7 DEF ThreadStep

\* A cancel is not left without a thread that looks at it, and the queue does not say
\* that it runs when none does, though several threads may have come to run by cancels
\* (cancel, check_cancel, create_worker).
THEOREM RequestIsHeard == Spec => []RequestHasThread
<1>1. Init => RequestHasThread
  BY DEF Init, RequestHasThread
<1>2. TypeOK /\ RequestHasThread /\ [Next]_vars => RequestHasThread'
  <2>1. ASSUME UNCHANGED vars, RequestHasThread PROVE RequestHasThread'
    BY <2>1 DEF vars, flagVars, localVars, RequestHasThread, Ended
  <2> QED BY <2>1, MainRequest, ThreadRequest DEF Next, MainStep
<1> QED BY <1>1, <1>2, TypeCorrect, PTL DEF Spec
=============================================================================
