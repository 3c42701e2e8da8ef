------------------------ MODULE CamelImapIdleProofs ------------------------
(***************************************************************************)
(* Proofs about CamelImapIdle: types, the owners of the locks, and that    *)
(* there is one idle thread.  IdleInv is inductive, whatever is lost:      *)
(* who has which lock, who has connect_lock and how often, and where no    *)
(* idle thread lives.                                                      *)
(***************************************************************************)
EXTENDS CamelImapIdle, FiniteSetTheorems, TLAPS

\* The program counters at which a thread has idle_t_lock, at which it has
\* idle_lock, at which it is in start_idle with the reasons' lock, and at which
\* there is an idle thread to be joined or waited for.
HasTLock    == {"send", "join", "reap", "clear", "forget", "rejoin", "create",
                "await"}
HasIdleLock == {"again", "rejoin", "create", "await"}
Starting    == {"start", "prefix", "again", "rejoin", "create", "await"}
HasThread   == {"send", "join", "reap", "rejoin", "await"}
Stopping    == {"stop", "lock", "send", "join", "reap", "clear", "forget"}
Holding     == {"pass", "tell", "body", "done", "decide"}

\* TypeOK in the parts that the actions leave alone together.
LockTypes ==
  /\ reasons_lock \in Actors \cup {Nobody} /\ idle_lock \in Actors \cup {Nobody}
  /\ t_lock \in Actors \cup {Nobody}
  /\ connect \in Actors \cup IdleThreads \cup {Nobody} /\ depth \in Nat

StoreTypes ==
  /\ cont \in BOOLEAN /\ in_idle \in BOOLEAN /\ kill \in BOOLEAN
  /\ done_happened \in BOOLEAN /\ thread \in IdleThreads \cup {Nobody}
  /\ prefix \in {"none", "set", "freed"}

ConfTypes == /\ push \in BOOLEAN /\ blocked \in BOOLEAN
             /\ folder \in BOOLEAN /\ online \in BOOLEAN

ThreadTypes ==
  /\ ipc \in [IdleThreads -> IdlePc] /\ my_cont \in [IdleThreads -> BOOLEAN]
  /\ first \in [IdleThreads -> BOOLEAN] /\ told \in [IdleThreads -> BOOLEAN]

RespTypes == resp \in [IdleThreads \cup Actors -> SUBSET Line]

ActorTypes == /\ pc \in [Actors -> ActorPc] /\ tmp \in [Actors -> Int]
              /\ ops \in [Actors -> Nat]

WireTypes == server \in {"ready", "idling"} /\ pending \subseteq Line

HistoryTypes ==
  /\ breaches \subseteq {"DONE", "last DONE", "command", "IDLE"} \X BOOLEAN
  /\ renewed \in BOOLEAN /\ dropped \subseteq Line

Types == /\ reasons \in Int /\ LockTypes /\ StoreTypes /\ ConfTypes
         /\ ThreadTypes /\ RespTypes /\ ActorTypes /\ WireTypes /\ HistoryTypes

\* Who holds which lock, and that there is a thread to be joined or waited for.
LocksInv ==
  \A a \in Actors :
    /\ pc[a] \in HasTLock => t_lock = a
    /\ pc[a] \in HasIdleLock => idle_lock = a
    /\ pc[a] \in Starting => reasons_lock = a
    /\ pc[a] \in HasThread => thread # Nobody

\* Who has connect_lock and how often: an idle thread once, Closer once or twice,
\* a worker as often as its calls are nested.
ConnectInv ==
  /\ connect = Nobody <=> depth = 0
  /\ connect # Main
  /\ connect \in IdleThreads => depth = 1 /\ ipc[connect] \in Holding
  /\ \A t \in IdleThreads : ipc[t] \in Holding => connect = t
  /\ \A w \in Workers : pc[w] \in Stopping \cup {"write", "unlock"} => connect = w
  /\ pc[Main] \in Stopping \cup Starting \cup {"free", "check"}
  /\ pc[Closer] \in Stopping \cup {"free", "enter", "unlock", "die", "logout", "close", "leave"}
  /\ pc[Closer] \in {"die", "enter", "leave"} => connect = Closer /\ depth = 1
  /\ pc[Closer] \in Stopping \cup {"logout", "close", "unlock"} =>
       connect = Closer /\ depth = 2

\* One idle thread; none where one has been joined or is about to be created.
ThreadInv ==
  /\ OneIdleThread
  /\ \A a \in Actors : pc[a] = "clear" \/ (pc[a] = "create" /\ ~in_idle) =>
       \A t \in IdleThreads : ~Live(t)

IdleInv == Types /\ LocksInv /\ ConnectInv /\ ThreadInv

LEMMA TypesMeanTypeOK == Types <=> TypeOK
BY DEF Types, LockTypes, StoreTypes, ConfTypes, ThreadTypes, RespTypes, ActorTypes,
       WireTypes, HistoryTypes, TypeOK

LEMMA TypesFrame ==
  /\ LockTypes /\ UNCHANGED lockVars => LockTypes'
  /\ StoreTypes /\ UNCHANGED storeVars => StoreTypes'
  /\ ConfTypes /\ UNCHANGED confVars => ConfTypes'
  /\ ThreadTypes /\ UNCHANGED threadVars => ThreadTypes'
  /\ RespTypes /\ UNCHANGED resp => RespTypes'
  /\ ActorTypes /\ UNCHANGED actorVars => ActorTypes'
  /\ WireTypes /\ UNCHANGED wireVars => WireTypes'
  /\ HistoryTypes /\ UNCHANGED history => HistoryTypes'
<1>1. LockTypes /\ UNCHANGED lockVars => LockTypes' BY DEF LockTypes, lockVars
<1>2. StoreTypes /\ UNCHANGED storeVars => StoreTypes' BY DEF StoreTypes, storeVars
<1>3. ConfTypes /\ UNCHANGED confVars => ConfTypes' BY DEF ConfTypes, confVars
<1>4. ThreadTypes /\ UNCHANGED threadVars => ThreadTypes' BY DEF ThreadTypes, threadVars
<1>5. RespTypes /\ UNCHANGED resp => RespTypes' BY DEF RespTypes
<1>6. ActorTypes /\ UNCHANGED actorVars => ActorTypes' BY DEF ActorTypes, actorVars
<1>7. WireTypes /\ UNCHANGED wireVars => WireTypes' BY DEF WireTypes, wireVars
<1>8. HistoryTypes /\ UNCHANGED history => HistoryTypes' BY DEF HistoryTypes, history
<1> QED BY <1>1, <1>2, <1>3, <1>4, <1>5, <1>6, <1>7, <1>8

LEMMA StopTarget ==
  ASSUME NEW a \in Actors
  PROVE  AfterStop(a) \in {"free", "logout", "close", "write", "stop", "unlock"}
BY DEF AfterStop

\* A breach is added to the others.
LEMMA BreachTypes ==
  ASSUME HistoryTypes, NEW sent \in {"DONE", "last DONE", "command", "IDLE"},
         NEW wrong \in BOOLEAN, Breach(sent, wrong)
  PROVE  breaches' \subseteq {"DONE", "last DONE", "command", "IDLE"} \X BOOLEAN
<1>1. <<sent, renewed>> \in {"DONE", "last DONE", "command", "IDLE"} \X BOOLEAN
  BY DEF HistoryTypes
<1> QED BY <1>1 DEF HistoryTypes, Breach

\* The places where a stop returns to.
LEMMA StopPlace ==
  /\ AfterStop(Main) = "free"
  /\ AfterStop(Closer) \in {"logout", "close"}
  /\ \A w \in Workers : AfterStop(w) \in {"write", "stop", "unlock"}
<1> USE IdleAssumption
<1>1. Closer # Main /\ \A w \in Workers : w # Main /\ w # Closer
  OBVIOUS
<1> QED BY <1>1 DEF AfterStop

LEMMA TypeStep == Types /\ LocksInv /\ ConnectInv /\ [Next]_vars => Types'
<1> SUFFICES ASSUME Types, LocksInv, ConnectInv, [Next]_vars PROVE Types'
  OBVIOUS
<1>1. ASSUME NEW w \in Workers, Begin(w) PROVE Types'
  <2>1. ActorTypes'
    BY <1>1 DEF Begin, Actors, Types, Call, ActorTypes, actorVars, ActorPc, Go
  <2> QED BY <1>1, <2>1, TypesFrame DEF Begin, Types
<1>2. ASSUME NEW a \in Actors, Enter(a) PROVE Types'
  <2>1. LockTypes'
    BY <1>2 DEF Enter, Actors, Types, Connect, Available, LockTypes, lockVars
  <2>2. ActorTypes'
    BY <1>2 DEF Enter, Actors, Types, Connect, Available, ActorTypes, actorVars,
       ActorPc, Go
  <2> QED BY <1>2, <2>1, <2>2, TypesFrame DEF Enter, Types
<1>3. ASSUME NEW a \in Actors, Load(a) PROVE Types'
  <2>1. ActorTypes'
    BY <1>3 DEF Load, Actors, Types, Uncount, ActorTypes, actorVars, ActorPc, Go
  <2> QED BY <1>3, <2>1, TypesFrame DEF Load, Types, Uncount
<1>4. ASSUME NEW a \in Actors, Store(a) PROVE Types'
  <2>1. ActorTypes'
    BY <1>4 DEF Store, Actors, Types, ActorTypes, actorVars, ActorPc, Go
  <2> QED BY <1>4, <2>1, TypesFrame DEF Store, Types
<1>5. ASSUME NEW a \in Actors, Stop(a) PROVE Types'
  <2>1. LockTypes'
    BY <1>5 DEF Stop, Actors, Types, Stopped, SendDone, Breach, LockTypes,
       lockVars
  <2>2. StoreTypes'
    BY <1>5 DEF Stop, Actors, Types, Stopped, SendDone, Breach, StoreTypes,
       storeVars
  <2>3. ActorTypes'
    BY <1>5, StopTarget DEF Stop, Actors, Types, Stopped, SendDone, Breach,
       ActorTypes, actorVars, ActorPc, Go
  <2>4. WireTypes'
    BY <1>5 DEF Stop, Actors, Types, Stopped, SendDone, Breach, WireTypes,
       wireVars, Line
  <2>5. HistoryTypes'
    BY <1>5, BreachTypes DEF Stop, Actors, Types, Stopped, SendDone,
       HistoryTypes, history
  <2> QED BY <1>5, <2>1, <2>2, <2>3, <2>4, <2>5, TypesFrame DEF Stop, Types
<1>6. ASSUME NEW a \in Actors, Lock(a) PROVE Types'
  <2>1. LockTypes'
    BY <1>6 DEF Lock, Actors, Types, Stopped, SendsDone, LockTypes, lockVars
  <2>2. StoreTypes'
    BY <1>6 DEF Lock, Actors, Types, Stopped, SendsDone, StoreTypes, storeVars
  <2>3. ActorTypes'
    BY <1>6, StopTarget DEF Lock, Actors, Types, Stopped, SendsDone, ActorTypes,
       actorVars, ActorPc, Go
  <2> QED BY <1>6, <2>1, <2>2, <2>3, TypesFrame DEF Lock, Types
<1>7. ASSUME NEW a \in Actors, Send(a) PROVE Types'
  <2>1. StoreTypes'
    BY <1>7 DEF Send, Actors, Types, DoSendDone, SendDone, Breach, StoreTypes,
       storeVars
  <2>2. RespTypes'
    <3>1. pending \in SUBSET Line /\ resp[a] \in SUBSET Line
      BY DEF Types, RespTypes, WireTypes, Actors
    <3>2. resp' = resp \/ resp' = [resp EXCEPT ![a] = pending]
            \/ resp' = [resp EXCEPT ![a] = resp[a] \cup pending]
      BY <1>7 DEF Send, DoSendDone, Gets
    <3>3. resp[a] \cup pending \in SUBSET Line
      BY <3>1
    <3> QED BY <3>1, <3>2, <3>3 DEF Types, RespTypes
  <2>3. ActorTypes'
    BY <1>7 DEF Send, Actors, Types, DoSendDone, SendDone, Breach, ActorTypes,
       actorVars, ActorPc, Go
  <2>4. WireTypes'
    BY <1>7 DEF Send, Actors, Types, DoSendDone, SendDone, Breach, WireTypes,
       wireVars, Line
  <2>5. HistoryTypes'
    BY <1>7, BreachTypes DEF Send, Actors, Types, DoSendDone, SendDone,
       HistoryTypes, history
  <2> QED BY <1>7, <2>1, <2>2, <2>3, <2>4, <2>5, TypesFrame DEF Send, Types
<1>8. ASSUME NEW a \in Actors, Join(a) PROVE Types'
  <2>1. ThreadTypes'
    BY <1>8 DEF Join, Actors, Types, LocksInv, HasThread, ThreadTypes,
       threadVars, IdlePc, IGo
  <2>2. RespTypes'
    BY <1>8 DEF Join, Actors, Types, LocksInv, HasThread, RespTypes, Gets, Line,
       StoreTypes
  <2>3. ActorTypes'
    BY <1>8 DEF Join, Actors, Types, LocksInv, HasThread, ActorTypes, actorVars,
       ActorPc, Go
  <2>4. HistoryTypes'
    <3>1. thread \in IdleThreads
      BY <1>8 DEF Join, Types, LocksInv, HasThread, StoreTypes
    <3>2. resp[thread] \subseteq Line
      BY <3>1 DEF Types, RespTypes
    <3> QED BY <1>8, <3>2 DEF Join, Types, HistoryTypes
  <2> QED BY <1>8, <2>1, <2>2, <2>3, <2>4, TypesFrame DEF Join, Types
<1>9. ASSUME NEW a \in Actors, Clear(a) PROVE Types'
  <2>1. StoreTypes'
    BY <1>9 DEF Clear, Actors, Types, StoreTypes, storeVars
  <2>2. RespTypes'
    BY <1>9 DEF Clear, Actors, Types, RespTypes, Gets, Line
  <2>3. ActorTypes'
    BY <1>9 DEF Clear, Actors, Types, ActorTypes, actorVars, ActorPc, Go
  <2> QED BY <1>9, <2>1, <2>2, <2>3, TypesFrame DEF Clear, Types
<1>10. ASSUME NEW a \in Actors, Forget(a) PROVE Types'
  <2>1. LockTypes'
    BY <1>10 DEF Forget, Actors, Types, Stopped, LockTypes, lockVars
  <2>2. StoreTypes'
    BY <1>10 DEF Forget, Actors, Types, Stopped, StoreTypes, storeVars
  <2>3. ActorTypes'
    BY <1>10, StopTarget DEF Forget, Actors, Types, Stopped, ActorTypes,
       actorVars, ActorPc, Go
  <2> QED BY <1>10, <2>1, <2>2, <2>3, TypesFrame DEF Forget, Types
<1>11. ASSUME NEW w \in Workers, Write(w) PROVE Types'
  <2>1. ConfTypes'
    BY <1>11 DEF Write, Actors, Types, SendCommand, Breach, ConfTypes, confVars
  <2>2. ActorTypes'
    BY <1>11 DEF Write, Actors, Types, SendCommand, Breach, ActorTypes,
       actorVars, ActorPc, Go
  <2>3. WireTypes'
    BY <1>11 DEF Write, Actors, Types, SendCommand, Breach, WireTypes, wireVars,
       Line
  <2>4. HistoryTypes'
    BY <1>11, BreachTypes DEF Write, Actors, Types, SendCommand, HistoryTypes,
       history
  <2> QED BY <1>11, <2>1, <2>2, <2>3, <2>4, TypesFrame DEF Write, Types
<1>12. ASSUME NEW a \in Workers \cup {Closer}, Unlock(a) PROVE Types'
  <2>1. LockTypes'
    <3>1. connect = a /\ connect # Nobody /\ depth # 0
      BY <1>12, IdleAssumption DEF Unlock, ConnectInv, Stopping, Actors
    <3>2. depth - 1 \in Nat
      BY <3>1 DEF Types, LockTypes
    <3> QED BY <1>12, <3>2 DEF Unlock, Actors, Types, Disconnect, LockTypes
  <2>2. ActorTypes'
    BY <1>12 DEF Unlock, Actors, Types, Disconnect, ConnectInv, Stopping,
       ActorTypes, actorVars, ActorPc, Go
  <2> QED BY <1>12, <2>1, <2>2, TypesFrame DEF Unlock, Types
<1>13. ASSUME NEW a \in Actors, Start(a) PROVE Types'
  <2>1. LockTypes'
    BY <1>13 DEF Start, Actors, Types, Started, LockTypes, lockVars
  <2>2. ActorTypes'
    BY <1>13 DEF Start, Actors, Types, Started, ActorTypes, actorVars, ActorPc,
       Go
  <2> QED BY <1>13, <2>1, <2>2, TypesFrame DEF Start, Types
<1>14. ASSUME NEW a \in Actors, Prefix(a) PROVE Types'
  <2>1. LockTypes'
    BY <1>14 DEF Prefix, Actors, Types, Started, LockTypes, lockVars
  <2>2. ActorTypes'
    BY <1>14 DEF Prefix, Actors, Types, Started, ActorTypes, actorVars, ActorPc,
       Go
  <2> QED BY <1>14, <2>1, <2>2, TypesFrame DEF Prefix, Types
<1>15. ASSUME NEW a \in Actors, Again(a) PROVE Types'
  <2>1. LockTypes'
    BY <1>15 DEF Again, Actors, Types, LockTypes, lockVars
  <2>2. StoreTypes'
    BY <1>15 DEF Again, Actors, Types, StoreTypes, storeVars
  <2>3. ActorTypes'
    BY <1>15 DEF Again, Actors, Types, ActorTypes, actorVars, ActorPc, Go
  <2> QED BY <1>15, <2>1, <2>2, <2>3, TypesFrame DEF Again, Types
<1>16. ASSUME NEW a \in Actors, Rejoin(a) PROVE Types'
  <2>1. StoreTypes'
    BY <1>16 DEF Rejoin, Actors, Types, LocksInv, HasThread, StoreTypes,
       storeVars
  <2>2. ThreadTypes'
    BY <1>16 DEF Rejoin, Actors, Types, LocksInv, HasThread, ThreadTypes,
       threadVars, IdlePc, IGo
  <2>3. RespTypes'
    BY <1>16 DEF Rejoin, Actors, Types, LocksInv, HasThread, RespTypes, Gets,
       Line
  <2>4. ActorTypes'
    BY <1>16 DEF Rejoin, Actors, Types, LocksInv, HasThread, ActorTypes,
       actorVars, ActorPc, Go
  <2> QED BY <1>16, <2>1, <2>2, <2>3, <2>4, TypesFrame DEF Rejoin, Types
<1>17. ASSUME NEW a \in Actors, Create(a) PROVE Types'
  <2>1. LockTypes'
    BY <1>17 DEF Create, Actors, Types, Started, MayCreate, LockTypes, lockVars
  <2>2. StoreTypes'
    BY <1>17 DEF Create, Actors, Types, Started, MayCreate, StoreTypes,
       storeVars
  <2>3. ThreadTypes'
    BY <1>17 DEF Create, Actors, Types, Started, MayCreate, ThreadTypes,
       threadVars, IdlePc, IGo
  <2>4. ActorTypes'
    BY <1>17 DEF Create, Actors, Types, Started, MayCreate, ActorTypes,
       actorVars, ActorPc, Go
  <2> QED BY <1>17, <2>1, <2>2, <2>3, <2>4, TypesFrame DEF Create, Types
<1>18. ASSUME NEW a \in Actors, Await(a) PROVE Types'
  <2>1. LockTypes'
    BY <1>18 DEF Await, Actors, Types, Started, LockTypes, lockVars
  <2>2. ActorTypes'
    BY <1>18 DEF Await, Actors, Types, Started, ActorTypes, actorVars, ActorPc,
       Go
  <2> QED BY <1>18, <2>1, <2>2, TypesFrame DEF Await, Types
<1>19. ASSUME NEW t \in IdleThreads, Spawned(t) PROVE Types'
  <2>1. ThreadTypes'
    BY <1>19 DEF Spawned, Actors, Types, ThreadTypes, threadVars, IdlePc, IGo
  <2> QED BY <1>19, <2>1, TypesFrame DEF Spawned, Types
<1>20. ASSUME NEW t \in IdleThreads, BeginIdle(t) PROVE Types'
  <2>1. StoreTypes'
    BY <1>20 DEF BeginIdle, Actors, Types, Reset, StoreTypes, storeVars
  <2>2. ThreadTypes'
    BY <1>20 DEF BeginIdle, Actors, Types, Reset, ThreadTypes, threadVars,
       IdlePc, IGo, StoreTypes
  <2> QED BY <1>20, <2>1, <2>2, TypesFrame DEF BeginIdle, Types
<1>21. ASSUME NEW t \in IdleThreads, Loop(t) PROVE Types'
  <2>1. ThreadTypes'
    BY <1>21 DEF Loop, Actors, Types, ThreadTypes, threadVars, IdlePc, IGo
  <2> QED BY <1>21, <2>1, TypesFrame DEF Loop, Types
<1>22. ASSUME NEW t \in IdleThreads, Try(t) PROVE Types'
  <2>1. LockTypes'
    BY <1>22 DEF Try, Actors, Types, Connect, LockTypes, lockVars
  <2>2. ThreadTypes'
    BY <1>22 DEF Try, Actors, Types, Connect, ThreadTypes, threadVars, IdlePc,
       IGo
  <2> QED BY <1>22, <2>1, <2>2, TypesFrame DEF Try, Types
<1>23. ASSUME NEW t \in IdleThreads, TryFails(t) PROVE Types'
  <2>1. ThreadTypes'
    BY <1>23 DEF TryFails, Actors, Types, ThreadTypes, threadVars, IdlePc, IGo
  <2> QED BY <1>23, <2>1, TypesFrame DEF TryFails, Types
<1>24. ASSUME NEW t \in IdleThreads, Pass(t) PROVE Types'
  <2>1. StoreTypes'
    BY <1>24 DEF Pass, Actors, Types, Breach, StoreTypes, storeVars
  <2>2. ThreadTypes'
    BY <1>24 DEF Pass, Actors, Types, Breach, ThreadTypes, threadVars, IdlePc,
       IGo
  <2>3. WireTypes'
    BY <1>24 DEF Pass, Actors, Types, Breach, WireTypes, wireVars, Line
  <2>4. HistoryTypes'
    <3>1. CASE UNCHANGED <<breaches, dropped>> /\ renewed' \in BOOLEAN
      BY <3>1 DEF Types, HistoryTypes
    <3>2. CASE Breach("IDLE", server = "idling") /\ renewed' = told[t]
               /\ UNCHANGED dropped
      BY <3>2, BreachTypes DEF Types, HistoryTypes, ThreadTypes
    <3> QED BY <1>24, <3>1, <3>2 DEF Pass, Types, HistoryTypes, ThreadTypes
  <2> QED BY <1>24, <2>1, <2>2, <2>3, <2>4, TypesFrame DEF Pass, Types
<1>25. ASSUME NEW t \in IdleThreads, Tell(t) PROVE Types'
  <2>1. ThreadTypes'
    BY <1>25 DEF Tell, Actors, Types, TellCreator, ThreadTypes, threadVars,
       IdlePc, IGo
  <2> QED BY <1>25, <2>1, TypesFrame DEF Tell, Types
<1>26. ASSUME NEW t \in IdleThreads, Body(t) PROVE Types'
  <2>1. LockTypes'
    BY <1>26 DEF Body, Actors, Types, Disconnect, ConnectInv, Holding,
       LockTypes, lockVars
  <2>2. ThreadTypes'
    BY <1>26 DEF Body, Actors, Types, Disconnect, ConnectInv, Holding,
       ThreadTypes, threadVars, IdlePc, IGo
  <2>3. RespTypes'
    BY <1>26 DEF Body, Actors, Types, Disconnect, ConnectInv, Holding,
       RespTypes, Gets, Line, WireTypes
  <2>4. WireTypes'
    BY <1>26 DEF Body, Actors, Types, Disconnect, ConnectInv, Holding,
       WireTypes, wireVars, Line
  <2> QED BY <1>26, <2>1, <2>2, <2>3, <2>4, TypesFrame DEF Body, Types
<1>27. ASSUME NEW t \in IdleThreads, Done(t) PROVE Types'
  <2>1. ThreadTypes'
    BY <1>27 DEF Done, Actors, Types, DoSendDone, SendDone, Breach, ThreadTypes,
       threadVars, IdlePc, IGo
  <2>2. RespTypes'
    BY <1>27 DEF Done, Actors, Types, DoSendDone, SendDone, Breach, RespTypes,
       Gets, Line, WireTypes
  <2>3. WireTypes'
    BY <1>27 DEF Done, Actors, Types, DoSendDone, SendDone, Breach, WireTypes,
       wireVars, Line
  <2>4. HistoryTypes'
    BY <1>27, BreachTypes DEF Done, Actors, Types, DoSendDone, SendDone,
       HistoryTypes, history
  <2> QED BY <1>27, <2>1, <2>2, <2>3, <2>4, TypesFrame DEF Done, Types
<1>28. ASSUME NEW t \in IdleThreads, Decide(t) PROVE Types'
  <2>1. LockTypes'
    BY <1>28 DEF Decide, Actors, Types, Disconnect, ConnectInv, Holding,
       LockTypes, lockVars
  <2>2. StoreTypes'
    BY <1>28 DEF Decide, Actors, Types, Disconnect, ConnectInv, Holding,
       StoreTypes, storeVars
  <2>3. ThreadTypes'
    BY <1>28 DEF Decide, Actors, Types, Disconnect, ConnectInv, Holding,
       ThreadTypes, threadVars, IdlePc, IGo
  <2>4. RespTypes'
    BY <1>28 DEF Decide, Actors, Types, Disconnect, ConnectInv, Holding,
       RespTypes, Gets, Line
  <2>5. HistoryTypes'
    BY <1>28 DEF Decide, Actors, Types, Disconnect, ConnectInv, Holding,
       HistoryTypes, history, Line, RespTypes
  <2> QED BY <1>28, <2>1, <2>2, <2>3, <2>4, <2>5, TypesFrame DEF Decide, Types
<1>29. ASSUME NEW t \in IdleThreads, After(t) PROVE Types'
  <2>1. ThreadTypes'
    BY <1>29 DEF After, Actors, Types, TellCreator, ThreadTypes, threadVars,
       IdlePc, IGo
  <2> QED BY <1>29, <2>1, TypesFrame DEF After, Types
<1>30. ASSUME NEW t \in IdleThreads, Finish(t) PROVE Types'
  <2>1. StoreTypes'
    BY <1>30 DEF Finish, Actors, Types, StoreTypes, storeVars
  <2>2. ThreadTypes'
    BY <1>30 DEF Finish, Actors, Types, ThreadTypes, threadVars, IdlePc, IGo
  <2> QED BY <1>30, <2>1, <2>2, TypesFrame DEF Finish, Types
<1>31. CASE StartIfUnlocked
  <2>1. LockTypes'
    BY <1>31 DEF StartIfUnlocked, Actors, Types, LockTypes, lockVars
  <2>2. ActorTypes'
    BY <1>31 DEF StartIfUnlocked, Actors, Types, ActorTypes, actorVars, ActorPc,
       Go
  <2> QED BY <1>31, <2>1, <2>2, TypesFrame DEF StartIfUnlocked, Types
<1>32. CASE Close
  <2>1. LockTypes'
    BY <1>32 DEF Close, Actors, Types, Connect, LockTypes, lockVars
  <2>2. ActorTypes'
    BY <1>32 DEF Close, Actors, Types, Connect, ActorTypes, actorVars, ActorPc,
       Go
  <2> QED BY <1>32, <2>1, <2>2, TypesFrame DEF Close, Types
<1>33. CASE LetIdleDie
  <2>1. StoreTypes'
    BY <1>33 DEF LetIdleDie, Actors, Types, SendDone, Breach, StoreTypes,
       storeVars
  <2>2. ActorTypes'
    BY <1>33 DEF LetIdleDie, Actors, Types, SendDone, Breach, ActorTypes,
       actorVars, ActorPc, Go
  <2>3. WireTypes'
    BY <1>33 DEF LetIdleDie, Actors, Types, SendDone, Breach, WireTypes,
       wireVars, Line
  <2>4. HistoryTypes'
    BY <1>33, BreachTypes DEF LetIdleDie, Actors, Types, SendDone, HistoryTypes,
       history
  <2> QED BY <1>33, <2>1, <2>2, <2>3, <2>4, TypesFrame DEF LetIdleDie, Types
<1>34. CASE Logout
  <2>1. ActorTypes'
    BY <1>34 DEF Logout, Actors, Types, SendCommand, Breach, ActorTypes,
       actorVars, ActorPc, Go
  <2>2. WireTypes'
    BY <1>34 DEF Logout, Actors, Types, SendCommand, Breach, WireTypes,
       wireVars, Line
  <2>3. HistoryTypes'
    BY <1>34, BreachTypes DEF Logout, Actors, Types, SendCommand, HistoryTypes,
       history
  <2> QED BY <1>34, <2>1, <2>2, <2>3, TypesFrame DEF Logout, Types
<1>35. CASE CloseStreams
  <2>1. ConfTypes'
    BY <1>35 DEF CloseStreams, Actors, Types, ConfTypes, confVars
  <2>2. ActorTypes'
    BY <1>35 DEF CloseStreams, Actors, Types, ActorTypes, actorVars, ActorPc, Go
  <2>3. WireTypes'
    BY <1>35 DEF CloseStreams, Actors, Types, WireTypes, wireVars, Line
  <2> QED BY <1>35, <2>1, <2>2, <2>3, TypesFrame DEF CloseStreams, Types
<1>36. CASE Closed
  <2>1. LockTypes'
    BY <1>36 DEF Closed, Actors, Types, Disconnect, ConnectInv, LockTypes,
       lockVars
  <2>2. ActorTypes'
    BY <1>36 DEF Closed, Actors, Types, Disconnect, ConnectInv, ActorTypes,
       actorVars, ActorPc, Go
  <2> QED BY <1>36, <2>1, <2>2, TypesFrame DEF Closed, Types
<1>37. ASSUME NEW b \in BOOLEAN, SetPush(b) PROVE Types'
  <2>1. ConfTypes'
    BY <1>37 DEF SetPush, Actors, Types, Call, ConfTypes, confVars
  <2>2. ActorTypes'
    <3>1. Main \in Actors
      BY DEF Actors
    <3>2. pc' = [pc EXCEPT ![Main] = "check"] \/ pc' = [pc EXCEPT ![Main] = "stop"]
      BY <1>37 DEF SetPush, Go
    <3>3. pc' \in [Actors -> ActorPc]
      BY <3>1, <3>2 DEF Types, ActorTypes, ActorPc
    <3>4. ops' = [ops EXCEPT ![Main] = @ + 1]
      BY <1>37 DEF SetPush, Call
    <3>5. ops' \in [Actors -> Nat]
      BY <3>1, <3>4 DEF Types, ActorTypes
    <3> QED BY <1>37, <3>3, <3>5 DEF SetPush, Types, ActorTypes
  <2> QED BY <1>37, <2>1, <2>2, TypesFrame DEF SetPush, Types
<1>38. ASSUME NEW b \in BOOLEAN, CanIdle(b) PROVE Types'
  <2>1. ConfTypes'
    BY <1>38 DEF CanIdle, Actors, Types, Call, AfterCall, ConfTypes, confVars
  <2>2. ActorTypes'
    BY <1>38 DEF CanIdle, Actors, Types, Call, AfterCall, ActorTypes, actorVars,
       ActorPc, Go
  <2> QED BY <1>38, <2>1, <2>2, TypesFrame DEF CanIdle, Types
<1>39. ASSUME NEW l \in Line, Arrive(l) PROVE Types'
  <2>1. WireTypes'
    BY <1>39 DEF Arrive, Actors, Types, WireTypes, wireVars, Line
  <2> QED BY <1>39, <2>1, TypesFrame DEF Arrive, Types
<1>100. CASE UNCHANGED vars
  BY <1>100, TypesFrame DEF vars, Types
<1> QED BY <1>1, <1>2, <1>3, <1>4, <1>5, <1>6, <1>7, <1>8, <1>9, <1>10, <1>11,
         <1>12, <1>13, <1>14, <1>15, <1>16, <1>17, <1>18, <1>19, <1>20, <1>21,
         <1>22, <1>23, <1>24, <1>25, <1>26, <1>27, <1>28, <1>29, <1>30, <1>31,
         <1>32, <1>33, <1>34, <1>35, <1>36, <1>37, <1>38, <1>39, <1>100
    DEF Next, WorkerStep, MainStep, CloserStep, IdleStep, ActorStep, StopStep, StartStep, LockStep, Actors
----------------------------------------------------------------------------
(* Who has which lock.                                                     *)

\* The idle threads and the server take none of these locks.
LEMMA IdleKeepsLocks ==
  ASSUME NEW t \in IdleThreads, IdleStep(t)
  PROVE  UNCHANGED <<reasons_lock, idle_lock, t_lock, reasons, thread, confVars,
                     actorVars>>
BY DEF IdleStep, Spawned, BeginIdle, Loop, Try, TryFails, Pass, Tell, Body, Done, Decide, After, Finish, lockVars, storeVars, confVars, threadVars,
       actorVars

LEMMA LocksFrame ==
  ASSUME LocksInv, UNCHANGED <<reasons_lock, idle_lock, t_lock, thread, pc>>
  PROVE  LocksInv'
BY DEF LocksInv

LEMMA LocksStep == Types /\ LocksInv /\ ConnectInv /\ [Next]_vars => LocksInv'
<1> SUFFICES ASSUME Types, LocksInv, ConnectInv, [Next]_vars PROVE LocksInv'
  OBVIOUS
<1> USE IdleAssumption
<1>0. pc \in [Actors -> ActorPc] /\ Main \in Actors /\ Closer \in Actors
      /\ Nobody \notin Actors
  BY DEF Types, ActorTypes, Actors
<1> USE DEF LocksInv, HasTLock, HasIdleLock, Starting, HasThread, Go
<1>1. ASSUME NEW w \in Workers, Begin(w) PROVE LocksInv'
  BY <1>0, <1>1 DEF Begin, lockVars, storeVars, actorVars
<1>2. ASSUME NEW a \in Actors, Enter(a) PROVE LocksInv'
  BY <1>0, <1>2 DEF Enter, lockVars, storeVars, actorVars
<1>3. ASSUME NEW a \in Actors, Load(a) PROVE LocksInv'
  BY <1>0, <1>3 DEF Load, lockVars, storeVars, actorVars
<1>4. ASSUME NEW a \in Actors, Store(a) PROVE LocksInv'
  BY <1>0, <1>4 DEF Store, lockVars, storeVars, actorVars
<1>5. ASSUME NEW a \in Actors, Stop(a) PROVE LocksInv'
  BY <1>0, <1>5, StopTarget DEF Stop, lockVars, storeVars, actorVars, Stopped
<1>6. ASSUME NEW a \in Actors, Lock(a) PROVE LocksInv'
  BY <1>0, <1>6, StopTarget DEF Lock, lockVars, storeVars, actorVars, Stopped
<1>7. ASSUME NEW a \in Actors, Send(a) PROVE LocksInv'
  BY <1>0, <1>7 DEF Send, lockVars, storeVars, actorVars
<1>8. ASSUME NEW a \in Actors, Join(a) PROVE LocksInv'
  BY <1>0, <1>8 DEF Join, lockVars, storeVars, actorVars
<1>9. ASSUME NEW a \in Actors, Clear(a) PROVE LocksInv'
  BY <1>0, <1>9 DEF Clear, lockVars, storeVars, actorVars
<1>10. ASSUME NEW a \in Actors, Forget(a) PROVE LocksInv'
  BY <1>0, <1>10, StopTarget DEF Forget, lockVars, storeVars, actorVars, Stopped
<1>11. ASSUME NEW w \in Workers, Write(w) PROVE LocksInv'
  BY <1>0, <1>11 DEF Write, lockVars, storeVars, actorVars
<1>12. ASSUME NEW a \in Actors, Unlock(a) PROVE LocksInv'
  BY <1>0, <1>12 DEF Unlock, lockVars, storeVars, actorVars
<1>13. ASSUME NEW a \in Actors, Start(a) PROVE LocksInv'
  BY <1>0, <1>13 DEF Start, lockVars, storeVars, actorVars, Started
<1>14. ASSUME NEW a \in Actors, Prefix(a) PROVE LocksInv'
  BY <1>0, <1>14 DEF Prefix, lockVars, storeVars, actorVars, Started
<1>15. ASSUME NEW a \in Actors, Again(a) PROVE LocksInv'
  BY <1>0, <1>15 DEF Again, lockVars, storeVars, actorVars
<1>16. ASSUME NEW a \in Actors, Rejoin(a) PROVE LocksInv'
  BY <1>0, <1>16 DEF Rejoin, lockVars, storeVars, actorVars
<1>17. ASSUME NEW a \in Actors, Create(a) PROVE LocksInv'
  BY <1>0, <1>17 DEF Create, lockVars, storeVars, actorVars, Started, MayCreate
<1>18. ASSUME NEW a \in Actors, Await(a) PROVE LocksInv'
  BY <1>0, <1>18 DEF Await, lockVars, storeVars, actorVars, Started
<1>19. CASE StartIfUnlocked
  BY <1>0, <1>19 DEF StartIfUnlocked, lockVars, storeVars, actorVars
<1>20. CASE Close
  BY <1>0, <1>20 DEF Close, lockVars, storeVars, actorVars
<1>21. CASE LetIdleDie
  BY <1>0, <1>21 DEF LetIdleDie, lockVars, storeVars, actorVars
<1>22. CASE Logout
  BY <1>0, <1>22 DEF Logout, lockVars, storeVars, actorVars
<1>23. CASE CloseStreams
  BY <1>0, <1>23 DEF CloseStreams, lockVars, storeVars, actorVars
<1>24. CASE Closed
  BY <1>0, <1>24 DEF Closed, lockVars, storeVars, actorVars
<1>25. ASSUME NEW b \in BOOLEAN, SetPush(b) PROVE LocksInv'
  BY <1>0, <1>25 DEF SetPush, lockVars, storeVars, actorVars
<1>26. ASSUME NEW b \in BOOLEAN, CanIdle(b) PROVE LocksInv'
  BY <1>0, <1>26 DEF CanIdle, lockVars, storeVars, actorVars, AfterCall
<1>27. ASSUME NEW t \in IdleThreads, IdleStep(t) PROVE LocksInv'
  BY <1>27, IdleKeepsLocks, LocksFrame DEF actorVars
<1>28. ASSUME NEW l \in Line, Arrive(l) PROVE LocksInv'
  BY <1>28, LocksFrame DEF Arrive, actorVars, lockVars, storeVars
<1>29. CASE UNCHANGED vars
  BY <1>29, LocksFrame DEF vars, actorVars, lockVars, storeVars
<1> QED BY <1>1, <1>2, <1>3, <1>4, <1>5, <1>6, <1>7, <1>8, <1>9, <1>10, <1>11,
   <1>12, <1>13, <1>14, <1>15, <1>16, <1>17, <1>18, <1>19, <1>20, <1>21, <1>22,
   <1>23, <1>24, <1>25, <1>26, <1>27, <1>28, <1>29
    DEF Next, WorkerStep, MainStep, CloserStep, ActorStep, StopStep, StartStep, LockStep,
        Actors

----------------------------------------------------------------------------
(* The holder of connect_lock.                                             *)

LEMMA ConnectFrame ==
  ASSUME ConnectInv, UNCHANGED <<connect, depth, ipc, pc>>
  PROVE  ConnectInv'
BY DEF ConnectInv

\* A thread goes on without touching connect_lock.
LEMMA WorkerMoves ==
  ASSUME Types, ConnectInv, UNCHANGED <<connect, depth, ipc>>, NEW w \in Workers, NEW to,
         pc' = [pc EXCEPT ![w] = to],
         to \in Stopping \cup {"write", "unlock"} => connect = w
  PROVE  ConnectInv'
<1>1. pc \in [Actors -> ActorPc] /\ w \in Actors /\ Main # w /\ Closer # w
  BY IdleAssumption DEF Types, ActorTypes, Actors
<1>2. pc'[Main] = pc[Main] /\ pc'[Closer] = pc[Closer]
  BY <1>1 DEF Actors
<1>3. \A u \in Workers : pc'[u] \in Stopping \cup {"write", "unlock"} => connect = u
  BY <1>1 DEF Actors, ConnectInv
<1> QED BY <1>2, <1>3 DEF ConnectInv

LEMMA MainMoves ==
  ASSUME Types, ConnectInv, UNCHANGED <<connect, depth, ipc>>, NEW to,
         pc' = [pc EXCEPT ![Main] = to],
         to \in Stopping \cup Starting \cup {"free", "check"}
  PROVE  ConnectInv'
<1>1. pc \in [Actors -> ActorPc] /\ Main \in Actors /\ Main # Closer /\ Main \notin Workers
  BY IdleAssumption DEF Types, ActorTypes, Actors
<1>2. pc'[Main] = to /\ pc'[Closer] = pc[Closer]
  BY <1>1 DEF Actors
<1>3. \A u \in Workers : pc'[u] = pc[u]
  BY <1>1 DEF Actors
<1> QED BY <1>2, <1>3 DEF ConnectInv

LEMMA CloserMoves ==
  ASSUME Types, ConnectInv, UNCHANGED <<connect, depth, ipc>>, NEW to,
         pc' = [pc EXCEPT ![Closer] = to],
         \/ /\ to \in Stopping \cup {"logout", "close", "unlock"}
            /\ connect = Closer /\ depth = 2
         \/ to \in {"die", "enter", "leave"} /\ connect = Closer /\ depth = 1
  PROVE  ConnectInv'
<1>1. pc \in [Actors -> ActorPc] /\ Closer \in Actors /\ Main # Closer /\ Closer \notin Workers
  BY IdleAssumption DEF Types, ActorTypes, Actors
<1>2. pc'[Closer] = to /\ pc'[Main] = pc[Main]
  BY <1>1 DEF Actors
<1>3. \A u \in Workers : pc'[u] = pc[u]
  BY <1>1 DEF Actors
<1> QED BY <1>2, <1>3 DEF ConnectInv, Stopping

\* An idle thread leaves connect_lock, and goes on to the next turn.
LEMMA IdleLeaves ==
  ASSUME Types, ConnectInv, NEW t \in IdleThreads, connect = t, depth = 1, pc' = pc,
         Disconnect, ipc' = [ipc EXCEPT ![t] = "loop"]
  PROVE  ConnectInv'
<1>1. ipc \in [IdleThreads -> IdlePc] /\ Nobody # Main /\ Nobody \notin IdleThreads
      /\ t \notin Workers /\ t # Closer
  BY IdleAssumption DEF Types, ThreadTypes, Actors
<1>2. \A u \in IdleThreads : ipc'[u] \notin Holding
  BY <1>1 DEF ConnectInv, Holding
<1>3. \A w \in Workers : pc[w] \notin Stopping \cup {"write", "unlock"}
  BY <1>1 DEF ConnectInv
<1>4. pc[Closer] = "free"
  BY <1>1 DEF ConnectInv
<1>5. connect' = Nobody /\ depth' = depth - 1
  BY DEF Disconnect
<1>6. depth' = 0
  BY <1>5
<1> QED BY <1>1, <1>2, <1>3, <1>4, <1>5, <1>6 DEF ConnectInv, Stopping

LEMMA ConnectStep == Types /\ LocksInv /\ ConnectInv /\ [Next]_vars => ConnectInv'
<1> SUFFICES ASSUME Types, LocksInv, ConnectInv, [Next]_vars PROVE ConnectInv'
  OBVIOUS
<1>0. /\ pc \in [Actors -> ActorPc] /\ ipc \in [IdleThreads -> IdlePc]
      /\ Main \in Actors \ (Workers \cup {Closer}) /\ Closer \in Actors \ Workers
      /\ Nobody \notin Actors \cup IdleThreads /\ Actors \cap IdleThreads = {}
      /\ Workers \subseteq Actors /\ depth \in Nat
      /\ \A a \in Actors : a \in Workers \/ a = Main \/ a = Closer
  BY IdleAssumption DEF Types, ActorTypes, ThreadTypes, LockTypes, Actors
<1>1. ASSUME NEW w \in Workers, Begin(w) PROVE ConnectInv'
  BY <1>0, <1>1, WorkerMoves DEF Begin, lockVars, threadVars, actorVars,
     ConnectInv, Stopping, Starting, Go
<1>2. ASSUME NEW a \in Workers \cup {Closer}, Enter(a) PROVE ConnectInv'
  <2>1. CASE a \in Workers /\ Available(a)
    <3>1. /\ connect' = a /\ ipc' = ipc /\ connect \in {Nobody, a}
          /\ pc' = [pc EXCEPT ![a] = "stop"]
      BY <1>2, <2>1 DEF Enter, Connect, Available, Go, threadVars
    <3>7. depth' = depth + 1 /\ depth \in Nat
      BY <1>0, <1>2, <2>1 DEF Enter, Connect
    <3>2. pc[Closer] = "free" /\ pc'[Closer] = "free" /\ pc'[Main] = pc[Main]
      BY <1>0, <2>1, <3>1 DEF ConnectInv
    <3>3. \A w \in Workers :
            pc'[w] \in Stopping \cup {"write", "unlock"} => connect' = w
      BY <1>0, <2>1, <3>1 DEF ConnectInv
    <3>4. connect' # Nobody /\ connect' # Main /\ connect' \notin IdleThreads
      BY <1>0, <2>1, <3>1
    <3>6. depth' # 0
      BY <3>7
    <3>5. \A t \in IdleThreads : ipc[t] \notin Holding
      BY <1>0, <2>1, <3>1 DEF ConnectInv
    <3> QED BY <3>1, <3>2, <3>3, <3>4, <3>5, <3>6 DEF ConnectInv, Stopping
  <2>2. CASE a = Closer
    <3>1. connect = Closer /\ depth = 1
      BY <1>2, <2>2 DEF Enter, ConnectInv
    <3>2. connect' = Closer /\ ipc' = ipc /\ pc' = [pc EXCEPT ![Closer] = "stop"]
      BY <1>2, <2>2, <3>1 DEF Enter, Connect, Available, Go, threadVars
    <3>7. depth' = depth + 1
      BY <1>2, <2>2, <3>1 DEF Enter, Connect, Available
    <3>4. depth' = 2
      BY <3>1, <3>7
    <3>3. pc'[Closer] = "stop" /\ pc'[Main] = pc[Main]
          /\ \A w \in Workers : pc'[w] = pc[w]
      BY <1>0, <3>2
    <3>5. \A t \in IdleThreads : ipc[t] \notin Holding
      BY <1>0, <3>1 DEF ConnectInv
    <3>6. \A w \in Workers : pc[w] \notin Stopping \cup {"write", "unlock"}
      BY <1>0, <3>1 DEF ConnectInv
    <3> QED BY <1>0, <3>2, <3>3, <3>4, <3>5, <3>6 DEF ConnectInv, Stopping
  <2>3. CASE a \in Workers /\ ~Available(a)
    BY <1>2, <2>3, WorkerMoves DEF Enter, Go, Stopping, threadVars
  <2> QED BY <2>1, <2>2, <2>3
<1>3. ASSUME NEW a \in Workers \cup {Closer}, Load(a) PROVE ConnectInv'
  BY <1>0, <1>3, WorkerMoves DEF Load, lockVars, threadVars, actorVars,
     ConnectInv, Stopping, Starting, Go
<1>4. ASSUME NEW a \in Workers \cup {Closer}, Store(a) PROVE ConnectInv'
  BY <1>0, <1>4, WorkerMoves DEF Store, lockVars, threadVars, actorVars,
     ConnectInv, Stopping, Starting, Go
<1>5. ASSUME NEW a \in Actors, Stop(a) PROVE ConnectInv'
  <2>1. CASE a \in Workers
    BY <1>0, <1>5, StopPlace, <2>1, WorkerMoves DEF Stop, lockVars, threadVars,
       actorVars, ConnectInv, Stopping, Starting, Go, Stopped
  <2>2. CASE a = Main
    BY <1>0, <1>5, StopPlace, <2>2, MainMoves DEF Stop, lockVars, threadVars,
       actorVars, ConnectInv, Stopping, Starting, Go, Stopped
  <2>3. CASE a = Closer
    BY <1>0, <1>5, StopPlace, <2>3, CloserMoves DEF Stop, lockVars, threadVars,
       actorVars, ConnectInv, Stopping, Starting, Go, Stopped
  <2> QED BY <1>0, <1>5, <2>1, <2>2, <2>3
<1>6. ASSUME NEW a \in Actors, Lock(a) PROVE ConnectInv'
  <2>1. CASE a \in Workers
    BY <1>0, <1>6, StopPlace, <2>1, WorkerMoves DEF Lock, lockVars, threadVars,
       actorVars, ConnectInv, Stopping, Starting, Go, Stopped
  <2>2. CASE a = Main
    BY <1>0, <1>6, StopPlace, <2>2, MainMoves DEF Lock, lockVars, threadVars,
       actorVars, ConnectInv, Stopping, Starting, Go, Stopped
  <2>3. CASE a = Closer
    BY <1>0, <1>6, StopPlace, <2>3, CloserMoves DEF Lock, lockVars, threadVars,
       actorVars, ConnectInv, Stopping, Starting, Go, Stopped
  <2> QED BY <1>0, <1>6, <2>1, <2>2, <2>3
<1>7. ASSUME NEW a \in Actors, Send(a) PROVE ConnectInv'
  <2>1. CASE a \in Workers
    BY <1>0, <1>7, <2>1, WorkerMoves DEF Send, lockVars, threadVars, actorVars,
       ConnectInv, Stopping, Starting, Go
  <2>2. CASE a = Main
    BY <1>0, <1>7, <2>2, MainMoves DEF Send, lockVars, threadVars, actorVars,
       ConnectInv, Stopping, Starting, Go
  <2>3. CASE a = Closer
    BY <1>0, <1>7, <2>3, CloserMoves DEF Send, lockVars, threadVars, actorVars,
       ConnectInv, Stopping, Starting, Go
  <2> QED BY <1>0, <1>7, <2>1, <2>2, <2>3
<1>8. ASSUME NEW a \in Actors, Join(a) PROVE ConnectInv'
  <2>1. thread \in IdleThreads /\ ipc[thread] = "ended" /\ pc[a] \in {"join", "reap"}
    BY <1>8 DEF Join, Types, LocksInv, HasThread, StoreTypes
  <2>2. \A t \in IdleThreads : ipc'[t] \in Holding <=> ipc[t] \in Holding
    BY <1>0, <1>8, <2>1 DEF Join, IGo, Holding
  <2>3. UNCHANGED <<connect, depth>> /\ pc' = [pc EXCEPT ![a] = "clear"]
    BY <1>8 DEF Join, lockVars, Go
  <2>4. CASE a \in Workers
    <3>1. connect = a /\ pc'[Main] = pc[Main] /\ pc'[Closer] = pc[Closer]
      BY <1>0, <2>1, <2>3, <2>4 DEF ConnectInv, Stopping
    <3>2. \A w \in Workers :
            pc'[w] \in Stopping \cup {"write", "unlock"} => connect = w
      BY <1>0, <2>3, <2>4, <3>1 DEF ConnectInv
    <3> QED BY <2>2, <2>3, <3>1, <3>2 DEF ConnectInv
  <2>5. CASE a \notin Workers
    <3>1. \A w \in Workers : pc'[w] = pc[w]
      BY <1>0, <2>3, <2>5
    <3>2. pc'[Main] = pc[Main] \/ pc'[Main] = "clear"
      BY <1>0, <2>3
    <3>3. pc'[Closer] = pc[Closer]
          \/ (pc'[Closer] = "clear" /\ connect = Closer /\ depth = 2)
      <4>1. CASE a = Closer
        BY <1>0, <2>1, <2>3, <4>1 DEF ConnectInv, Stopping
      <4>2. CASE a # Closer
        BY <1>0, <2>3, <4>2
      <4> QED BY <4>1, <4>2
    <3> QED BY <2>2, <2>3, <3>1, <3>2, <3>3 DEF ConnectInv, Stopping
  <2> QED BY <2>4, <2>5
<1>9. ASSUME NEW a \in Actors, Clear(a) PROVE ConnectInv'
  <2>1. CASE a \in Workers
    BY <1>0, <1>9, <2>1, WorkerMoves DEF Clear, lockVars, threadVars, actorVars,
       ConnectInv, Stopping, Starting, Go
  <2>2. CASE a = Main
    BY <1>0, <1>9, <2>2, MainMoves DEF Clear, lockVars, threadVars, actorVars,
       ConnectInv, Stopping, Starting, Go
  <2>3. CASE a = Closer
    BY <1>0, <1>9, <2>3, CloserMoves DEF Clear, lockVars, threadVars, actorVars,
       ConnectInv, Stopping, Starting, Go
  <2> QED BY <1>0, <1>9, <2>1, <2>2, <2>3
<1>10. ASSUME NEW a \in Actors, Forget(a) PROVE ConnectInv'
  <2>1. CASE a \in Workers
    BY <1>0, <1>10, StopPlace, <2>1, WorkerMoves DEF Forget, lockVars,
       threadVars, actorVars, ConnectInv, Stopping, Starting, Go, Stopped
  <2>2. CASE a = Main
    BY <1>0, <1>10, StopPlace, <2>2, MainMoves DEF Forget, lockVars, threadVars,
       actorVars, ConnectInv, Stopping, Starting, Go, Stopped
  <2>3. CASE a = Closer
    BY <1>0, <1>10, StopPlace, <2>3, CloserMoves DEF Forget, lockVars,
       threadVars, actorVars, ConnectInv, Stopping, Starting, Go, Stopped
  <2> QED BY <1>0, <1>10, <2>1, <2>2, <2>3
<1>11. ASSUME NEW w \in Workers, Write(w) PROVE ConnectInv'
  BY <1>0, <1>11, WorkerMoves DEF Write, lockVars, threadVars, actorVars,
     ConnectInv, Stopping, Starting, Go
<1>12. ASSUME NEW a \in Workers \cup {Closer}, Unlock(a) PROVE ConnectInv'
  <2>1. connect = a /\ depth # 0 /\ pc[a] = "unlock" /\ ipc' = ipc
    BY <1>0, <1>12 DEF Unlock, ConnectInv, Stopping, threadVars
  <2>2. \A t \in IdleThreads : ipc[t] \notin Holding
    BY <1>0, <2>1 DEF ConnectInv
  <2>3. connect' = IF depth = 1 THEN Nobody ELSE a
    BY <1>12, <2>1 DEF Unlock, Disconnect
  <2>7. depth' = depth - 1 /\ depth \in Nat
    BY <1>0, <1>12 DEF Unlock, Disconnect
  <2>4. (connect' = Nobody <=> depth' = 0) /\ connect' # Main /\ connect' \notin IdleThreads
    <3>1. depth' = 0 <=> depth = 1
      BY <2>7
    <3>2. a # Nobody /\ a # Main /\ a \notin IdleThreads /\ Main # Nobody
          /\ Nobody \notin IdleThreads
      BY <1>0
    <3> QED BY <2>3, <3>1, <3>2
  <2>5. CASE a \in Workers
    <3>1. pc[Closer] = "free"
      BY <1>0, <2>1, <2>5 DEF ConnectInv
    <3>2. \/ pc' = [pc EXCEPT ![a] = "start"]
          \/ pc' = [pc EXCEPT ![a] = "free"]
          \/ pc' = [pc EXCEPT ![a] = "unlock"] /\ depth # 1
      BY <1>0, <2>5, <1>12 DEF Unlock, Go
    <3>3. pc'[Closer] = "free" /\ pc'[Main] = pc[Main]
      BY <1>0, <2>5, <3>1, <3>2
    <3>4. \A w \in Workers :
            pc'[w] \in Stopping \cup {"write", "unlock"} => connect' = w
      BY <1>0, <2>1, <2>3, <2>5, <3>2 DEF ConnectInv, Stopping
    <3> QED BY <2>1, <2>2, <2>4, <3>3, <3>4 DEF ConnectInv, Stopping
  <2>6. CASE a = Closer
    <3>0. depth = 2
      BY <2>1, <2>6 DEF ConnectInv, Stopping
    <3>1. connect' = Closer /\ depth' = 1
      BY <2>3, <2>6, <2>7, <3>0
    <3>2. pc' = [pc EXCEPT ![Closer] = "leave"]
      BY <1>12, <2>6 DEF Unlock, Go
    <3>3. pc'[Closer] = "leave" /\ pc'[Main] = pc[Main]
          /\ \A w \in Workers : pc'[w] = pc[w]
      BY <1>0, <3>2
    <3> QED BY <2>1, <2>2, <2>4, <2>6, <3>1, <3>3 DEF ConnectInv, Stopping
  <2> QED BY <2>5, <2>6
<1>13. ASSUME NEW a \in Actors, Start(a) PROVE ConnectInv'
  <2>1. CASE a \in Workers
    BY <1>0, <1>13, <2>1, WorkerMoves DEF Start, lockVars, threadVars,
       actorVars, ConnectInv, Stopping, Starting, Go, Started
  <2>2. CASE a = Main
    BY <1>0, <1>13, <2>2, MainMoves DEF Start, lockVars, threadVars, actorVars,
       ConnectInv, Stopping, Starting, Go, Started
  <2> QED BY <1>0, <1>13, <2>1, <2>2 DEF Start, ConnectInv, Stopping
<1>14. ASSUME NEW a \in Actors, Prefix(a) PROVE ConnectInv'
  <2>1. CASE a \in Workers
    BY <1>0, <1>14, <2>1, WorkerMoves DEF Prefix, lockVars, threadVars,
       actorVars, ConnectInv, Stopping, Starting, Go, Started
  <2>2. CASE a = Main
    BY <1>0, <1>14, <2>2, MainMoves DEF Prefix, lockVars, threadVars, actorVars,
       ConnectInv, Stopping, Starting, Go, Started
  <2> QED BY <1>0, <1>14, <2>1, <2>2 DEF Prefix, ConnectInv, Stopping
<1>15. ASSUME NEW a \in Actors, Again(a) PROVE ConnectInv'
  <2>1. CASE a \in Workers
    BY <1>0, <1>15, <2>1, WorkerMoves DEF Again, lockVars, threadVars,
       actorVars, ConnectInv, Stopping, Starting, Go
  <2>2. CASE a = Main
    BY <1>0, <1>15, <2>2, MainMoves DEF Again, lockVars, threadVars, actorVars,
       ConnectInv, Stopping, Starting, Go
  <2> QED BY <1>0, <1>15, <2>1, <2>2 DEF Again, ConnectInv, Stopping
<1>16. ASSUME NEW a \in Actors, Rejoin(a) PROVE ConnectInv'
  <2>1. thread \in IdleThreads /\ ipc[thread] = "ended" /\ pc[a] = "rejoin"
    BY <1>16 DEF Rejoin, Types, LocksInv, HasThread, StoreTypes
  <2>2. \A t \in IdleThreads : ipc'[t] \in Holding <=> ipc[t] \in Holding
    BY <1>0, <1>16, <2>1 DEF Rejoin, IGo, Holding
  <2>3. UNCHANGED <<connect, depth>> /\ pc' = [pc EXCEPT ![a] = "create"]
    BY <1>16 DEF Rejoin, lockVars, Go
  <2>4. a # Closer /\ pc'[Closer] = pc[Closer] /\ pc'[Main] \in {pc[Main], "create"}
    BY <1>0, <2>1, <2>3 DEF ConnectInv, Stopping
  <2>5. \A w \in Workers : pc'[w] = pc[w] \/ pc'[w] = "create"
    BY <1>0, <2>3
  <2> QED BY <2>2, <2>3, <2>4, <2>5 DEF ConnectInv, Stopping, Starting
<1>17. ASSUME NEW a \in Actors, Create(a) PROVE ConnectInv'
  <2>1. a # Closer /\ pc[a] = "create"
    BY <1>17 DEF Create, ConnectInv, Stopping
  <2>2. CASE pc' = [pc EXCEPT ![a] = "await"]
             /\ \E t \in IdleThreads : ipc[t] = "none" /\ IGo(t, "spawned")
    <3>1. \A t \in IdleThreads : ipc'[t] \in Holding <=> ipc[t] \in Holding
      BY <1>0, <2>2 DEF IGo, Holding
    <3>2. UNCHANGED <<connect, depth>>
      BY <1>17 DEF Create
    <3>3. pc'[Closer] = pc[Closer] /\ pc'[Main] \in {pc[Main], "await"}
          /\ \A w \in Workers : pc'[w] = pc[w] \/ pc'[w] = "await"
      BY <1>0, <2>1, <2>2
    <3> QED BY <3>1, <3>2, <3>3 DEF ConnectInv, Stopping, Starting
  <2>3. CASE Started(a) /\ ipc' = ipc
    <3>1. UNCHANGED <<connect, depth>>
      BY <1>17 DEF Create
    <3>2. CASE a \in Workers
      BY <2>3, <3>1, <3>2, WorkerMoves DEF Started, Go, Stopping
    <3>3. CASE a = Main
      BY <2>3, <3>1, <3>3, MainMoves DEF Started, Go, Stopping, ConnectInv
    <3> QED BY <1>0, <2>1, <3>2, <3>3
  <2> QED BY <1>17, <2>2, <2>3 DEF Create, Go
<1>18. ASSUME NEW a \in Actors, Await(a) PROVE ConnectInv'
  <2>1. CASE a \in Workers
    BY <1>0, <1>18, <2>1, WorkerMoves DEF Await, lockVars, threadVars,
       actorVars, ConnectInv, Stopping, Starting, Go, Started
  <2>2. CASE a = Main
    BY <1>0, <1>18, <2>2, MainMoves DEF Await, lockVars, threadVars, actorVars,
       ConnectInv, Stopping, Starting, Go, Started
  <2> QED BY <1>0, <1>18, <2>1, <2>2 DEF Await, ConnectInv, Stopping
<1>19. ASSUME NEW t \in IdleThreads, Spawned(t) PROVE ConnectInv'
  BY <1>0, <1>19 DEF ConnectInv, Holding, IGo, Spawned, lockVars, threadVars,
     actorVars
<1>20. ASSUME NEW t \in IdleThreads, BeginIdle(t) PROVE ConnectInv'
  BY <1>0, <1>20 DEF ConnectInv, Holding, IGo, BeginIdle, lockVars, threadVars,
     actorVars
<1>21. ASSUME NEW t \in IdleThreads, Loop(t) PROVE ConnectInv'
  BY <1>0, <1>21 DEF ConnectInv, Holding, IGo, Loop, lockVars, threadVars,
     actorVars
<1>22. ASSUME NEW t \in IdleThreads, Try(t) PROVE ConnectInv'
  <2>1. connect = Nobody /\ depth = 0
    BY <1>0, <1>22 DEF Try, Available, ConnectInv, Holding
  <2>2. connect' = t /\ ipc' = [ipc EXCEPT ![t] = "pass"] /\ pc' = pc
    BY <1>22 DEF Try, Connect, IGo, actorVars
  <2>3. \A u \in IdleThreads : ipc'[u] \in Holding <=> u = t
    BY <1>0, <2>1, <2>2 DEF ConnectInv, Holding
  <2>4. connect' # Nobody /\ connect' # Main /\ connect' # Closer /\ connect' \notin Workers
    BY <1>0, <2>2
  <2>5. depth' = 1
    <3>1. depth' = depth + 1
      BY <1>22 DEF Try, Connect
    <3> QED BY <2>1, <3>1
  <2>6. pc[Closer] = "free" /\ \A w \in Workers : pc[w] \notin Stopping \cup {"write", "unlock"}
    BY <1>0, <2>1 DEF ConnectInv
  <2> QED BY <1>0, <2>2, <2>3, <2>4, <2>5, <2>6 DEF ConnectInv, Stopping
<1>23. ASSUME NEW t \in IdleThreads, TryFails(t) PROVE ConnectInv'
  BY <1>0, <1>23 DEF ConnectInv, Holding, IGo, TryFails, lockVars, threadVars,
     actorVars
<1>24. ASSUME NEW t \in IdleThreads, Pass(t) PROVE ConnectInv'
  BY <1>0, <1>24 DEF ConnectInv, Holding, IGo, Pass, lockVars, threadVars,
     actorVars
<1>25. ASSUME NEW t \in IdleThreads, Tell(t) PROVE ConnectInv'
  BY <1>0, <1>25 DEF ConnectInv, Holding, IGo, Tell, lockVars, threadVars,
     actorVars
<1>26. ASSUME NEW t \in IdleThreads, Body(t) PROVE ConnectInv'
  <2>1. connect = t /\ depth = 1 /\ pc' = pc
    BY <1>0, <1>26 DEF Body, ConnectInv, Holding, actorVars
  <2>2. CASE Disconnect /\ ipc' = [ipc EXCEPT ![t] = "loop"]
    BY <2>1, <2>2, IdleLeaves
  <2>3. CASE UNCHANGED <<connect, depth>> /\ ipc' = [ipc EXCEPT ![t] = "done"]
    <3>1. \A u \in IdleThreads : ipc'[u] \in Holding <=> ipc[u] \in Holding
      BY <1>0, <1>26, <2>3 DEF Body, Holding
    <3> QED BY <2>1, <2>3, <3>1 DEF ConnectInv
  <2> QED BY <1>26, <2>1, <2>2, <2>3 DEF Body, IGo
<1>27. ASSUME NEW t \in IdleThreads, Done(t) PROVE ConnectInv'
  BY <1>0, <1>27 DEF ConnectInv, Holding, IGo, Done, lockVars, threadVars,
     actorVars
<1>28. ASSUME NEW t \in IdleThreads, Decide(t) PROVE ConnectInv'
  <2>1. connect = t /\ depth = 1 /\ pc' = pc
    BY <1>0, <1>28 DEF Decide, ConnectInv, Holding, actorVars
  <2>2. Disconnect /\ ipc' = [ipc EXCEPT ![t] = "loop"]
    BY <1>28 DEF Decide, IGo
  <2> QED BY <2>1, <2>2, IdleLeaves
<1>29. ASSUME NEW t \in IdleThreads, After(t) PROVE ConnectInv'
  BY <1>0, <1>29 DEF ConnectInv, Holding, IGo, After, lockVars, threadVars,
     actorVars
<1>30. ASSUME NEW t \in IdleThreads, Finish(t) PROVE ConnectInv'
  BY <1>0, <1>30 DEF ConnectInv, Holding, IGo, Finish, lockVars, threadVars,
     actorVars
<1>31. CASE StartIfUnlocked
  BY <1>0, <1>31, MainMoves DEF StartIfUnlocked, lockVars, threadVars,
     actorVars, ConnectInv, Stopping, Starting, Go
<1>32. CASE Close
  <2>1. connect = Nobody /\ depth = 0 /\ ipc' = ipc
    BY <1>32 DEF Close, ConnectInv, threadVars
  <2>2. connect' = Closer /\ pc' = [pc EXCEPT ![Closer] = "die"]
    BY <1>32 DEF Close, Connect, Go
  <2>6. depth' = 1
    <3>1. depth' = depth + 1
      BY <1>32 DEF Close, Connect
    <3> QED BY <2>1, <3>1
  <2>3. pc'[Closer] = "die" /\ pc'[Main] = pc[Main] /\ \A w \in Workers : pc'[w] = pc[w]
    BY <1>0, <2>2
  <2>4. \A t \in IdleThreads : ipc[t] \notin Holding
    BY <1>0, <2>1 DEF ConnectInv
  <2>5. \A w \in Workers : pc[w] \notin Stopping \cup {"write", "unlock"}
    BY <1>0, <2>1 DEF ConnectInv
  <2> QED BY <1>0, <2>1, <2>2, <2>3, <2>4, <2>5, <2>6 DEF ConnectInv, Stopping
<1>33. CASE LetIdleDie
  BY <1>0, <1>33, CloserMoves DEF LetIdleDie, lockVars, threadVars, actorVars,
     ConnectInv, Stopping, Starting, Go
<1>34. CASE Logout
  BY <1>0, <1>34, CloserMoves DEF Logout, lockVars, threadVars, actorVars,
     ConnectInv, Stopping, Starting, Go
<1>35. CASE CloseStreams
  BY <1>0, <1>35, CloserMoves DEF CloseStreams, lockVars, threadVars, actorVars,
     ConnectInv, Stopping, Starting, Go
<1>36. CASE Closed
  <2>1. connect = Closer /\ depth = 1 /\ ipc' = ipc
    BY <1>36 DEF Closed, ConnectInv, threadVars
  <2>2. connect' = Nobody /\ pc' = [pc EXCEPT ![Closer] = "free"]
    BY <1>36, <2>1 DEF Closed, Disconnect, Go
  <2>6. depth' = 0
    <3>1. depth' = depth - 1
      BY <1>36 DEF Closed, Disconnect
    <3> QED BY <2>1, <3>1
  <2>3. pc'[Closer] = "free" /\ pc'[Main] = pc[Main] /\ \A w \in Workers : pc'[w] = pc[w]
    BY <1>0, <2>2
  <2>4. \A t \in IdleThreads : ipc[t] \notin Holding
    BY <1>0, <2>1 DEF ConnectInv
  <2>5. \A w \in Workers : pc[w] \notin Stopping \cup {"write", "unlock"}
    BY <1>0, <2>1 DEF ConnectInv
  <2> QED BY <1>0, <2>1, <2>2, <2>3, <2>4, <2>5, <2>6 DEF ConnectInv, Stopping
<1>37. ASSUME NEW b \in BOOLEAN, SetPush(b) PROVE ConnectInv'
  BY <1>0, <1>37, MainMoves DEF SetPush, lockVars, threadVars, actorVars,
     ConnectInv, Stopping, Starting, Go
<1>38. ASSUME NEW b \in BOOLEAN, CanIdle(b) PROVE ConnectInv'
  BY <1>0, <1>38, MainMoves DEF CanIdle, lockVars, threadVars, actorVars,
     ConnectInv, Stopping, Starting, Go, AfterCall
<1>39. ASSUME NEW l \in Line, Arrive(l) PROVE ConnectInv'
  BY <1>39, ConnectFrame DEF Arrive, actorVars, lockVars, threadVars
<1>40. CASE UNCHANGED vars
  BY <1>40, ConnectFrame DEF vars, actorVars, lockVars, threadVars
<1> QED BY <1>1, <1>2, <1>3, <1>4, <1>5, <1>6, <1>7, <1>8, <1>9, <1>10, <1>11,
   <1>12, <1>13, <1>14, <1>15, <1>16, <1>17, <1>18, <1>19, <1>20, <1>21, <1>22,
   <1>23, <1>24, <1>25, <1>26, <1>27, <1>28, <1>29, <1>30, <1>31, <1>32, <1>33,
   <1>34, <1>35, <1>36, <1>37, <1>38, <1>39, <1>40
    DEF Next, WorkerStep, MainStep, CloserStep, IdleStep, ActorStep, StopStep, StartStep,
        LockStep, Actors

----------------------------------------------------------------------------
(* The idle thread.                                                        *)

\* No step but the creation of a thread makes one live, and no step but those that
\* join leads to where there must be none.
LEMMA ThreadFrame ==
  ASSUME ThreadInv, UNCHANGED <<thread, in_idle>>,
         \A t \in IdleThreads : Live(t)' => Live(t),
         \A a \in Actors : pc'[a] \in {"clear", "create"} => pc'[a] = pc[a]
  PROVE  ThreadInv'
BY DEF ThreadInv, OneIdleThread

LEMMA ThreadStep == Types /\ LocksInv /\ ConnectInv /\ ThreadInv /\ [Next]_vars => ThreadInv'
<1> SUFFICES ASSUME Types, LocksInv, ConnectInv, ThreadInv, [Next]_vars PROVE ThreadInv'
  OBVIOUS
<1>0. /\ pc \in [Actors -> ActorPc] /\ ipc \in [IdleThreads -> IdlePc]
      /\ Main \in Actors /\ Closer \in Actors /\ Workers \subseteq Actors
      /\ Nobody \notin Actors /\ Nobody \notin IdleThreads
  BY IdleAssumption DEF Types, ActorTypes, ThreadTypes, Actors
<1>1. ASSUME NEW w \in Workers, Begin(w) PROVE ThreadInv'
  BY <1>0, <1>1, ThreadFrame DEF Begin, Live, Go, storeVars, threadVars,
     actorVars
<1>2. ASSUME NEW a \in Actors, Enter(a) PROVE ThreadInv'
  BY <1>0, <1>2, ThreadFrame DEF Enter, Live, Go, storeVars, threadVars,
     actorVars
<1>3. ASSUME NEW a \in Actors, Load(a) PROVE ThreadInv'
  BY <1>0, <1>3, ThreadFrame DEF Load, Live, Go, storeVars, threadVars,
     actorVars
<1>4. ASSUME NEW a \in Actors, Store(a) PROVE ThreadInv'
  BY <1>0, <1>4, ThreadFrame DEF Store, Live, Go, storeVars, threadVars,
     actorVars
<1>5. ASSUME NEW a \in Actors, Stop(a) PROVE ThreadInv'
  <2>1. /\ UNCHANGED <<thread, ipc>>
        /\ \A b \in Actors : pc'[b] \in {"clear", "create"} => pc'[b] = pc[b]
    BY <1>0, <1>5, StopTarget DEF Stop, Stopped, Go, storeVars, threadVars
  <2>2. CASE in_idle' = in_idle
    BY <2>1, <2>2, ThreadFrame DEF Live
  <2>3. CASE idle_lock = Nobody
    BY <1>0, <2>1, <2>3 DEF LocksInv, HasIdleLock, ThreadInv, OneIdleThread, Live
  <2> QED BY <1>5, <2>2, <2>3 DEF Stop
<1>6. ASSUME NEW a \in Actors, Lock(a) PROVE ThreadInv'
  BY <1>0, <1>6, ThreadFrame, StopTarget DEF Lock, Live, Go, storeVars,
     threadVars, actorVars, Stopped
<1>7. ASSUME NEW a \in Actors, Send(a) PROVE ThreadInv'
  BY <1>0, <1>7, ThreadFrame DEF Send, Live, Go, storeVars, threadVars,
     actorVars
<1>8. ASSUME NEW a \in Actors, Join(a) PROVE ThreadInv'
  <2>1. thread \in IdleThreads /\ ipc[thread] = "ended"
    BY <1>8 DEF Join, Types, LocksInv, HasThread, StoreTypes
  <2>2. /\ ipc' = [ipc EXCEPT ![thread] = "none"] /\ pc' = [pc EXCEPT ![a] = "clear"]
        /\ UNCHANGED <<thread, in_idle>>
    BY <1>8 DEF Join, IGo, Go, storeVars
  <2>3. \A t \in IdleThreads : ~Live(t)'
    BY <1>0, <2>1, <2>2 DEF ThreadInv, OneIdleThread, Live
  <2> QED BY <2>3 DEF ThreadInv, OneIdleThread
<1>9. ASSUME NEW a \in Actors, Clear(a) PROVE ThreadInv'
  <2>1. \A t \in IdleThreads : ~Live(t)
    BY <1>9 DEF Clear, ThreadInv
  <2>2. \A t \in IdleThreads : ~Live(t)'
    BY <1>9, <2>1 DEF Clear, threadVars, Live
  <2> QED BY <2>2 DEF ThreadInv, OneIdleThread
<1>10. ASSUME NEW a \in Actors, Forget(a) PROVE ThreadInv'
  BY <1>0, <1>10, ThreadFrame, StopTarget DEF Forget, Live, Go, storeVars,
     threadVars, actorVars, Stopped
<1>11. ASSUME NEW w \in Workers, Write(w) PROVE ThreadInv'
  BY <1>0, <1>11, ThreadFrame DEF Write, Live, Go, storeVars, threadVars,
     actorVars
<1>12. ASSUME NEW a \in Actors, Unlock(a) PROVE ThreadInv'
  BY <1>0, <1>12, ThreadFrame DEF Unlock, Live, Go, storeVars, threadVars,
     actorVars
<1>13. ASSUME NEW a \in Actors, Start(a) PROVE ThreadInv'
  BY <1>0, <1>13, ThreadFrame DEF Start, Live, Go, storeVars, threadVars,
     actorVars, Started
<1>14. ASSUME NEW a \in Actors, Prefix(a) PROVE ThreadInv'
  BY <1>0, <1>14, ThreadFrame DEF Prefix, Live, Go, storeVars, threadVars,
     actorVars, Started
<1>15. ASSUME NEW a \in Actors, Again(a) PROVE ThreadInv'
  <2>1. UNCHANGED <<thread, ipc, in_idle>>
    BY <1>15 DEF Again, threadVars
  <2>2. CASE ~in_idle /\ thread = Nobody
    BY <1>0, <2>1, <2>2 DEF ThreadInv, OneIdleThread, Live
  <2>3. CASE in_idle \/ thread # Nobody
    <3>1. CASE pc' = [pc EXCEPT ![a] = "rejoin"]
      BY <1>0, <2>1, <3>1, ThreadFrame DEF Live
    <3>2. CASE in_idle /\ pc' = [pc EXCEPT ![a] = "create"]
      BY <1>0, <2>1, <3>2 DEF ThreadInv, OneIdleThread, Live
    <3> QED BY <1>15, <2>3, <3>1, <3>2 DEF Again, Go
  <2> QED BY <2>2, <2>3
<1>16. ASSUME NEW a \in Actors, Rejoin(a) PROVE ThreadInv'
  <2>1. thread \in IdleThreads /\ ipc[thread] = "ended"
    BY <1>16 DEF Rejoin, Types, LocksInv, HasThread, StoreTypes
  <2>2. ipc' = [ipc EXCEPT ![thread] = "none"]
    BY <1>16 DEF Rejoin, IGo
  <2>3. \A t \in IdleThreads : ~Live(t)'
    BY <1>0, <2>1, <2>2 DEF ThreadInv, OneIdleThread, Live
  <2> QED BY <2>3 DEF ThreadInv, OneIdleThread
<1>17. ASSUME NEW a \in Actors, Create(a) PROVE ThreadInv'
  <2>1. CASE MayCreate /\ in_idle'
    <3>1. PICK t \in IdleThreads :
            ipc' = [ipc EXCEPT ![t] = "spawned"] /\ thread' = t
      BY <1>17, <2>1 DEF Create, MayCreate, IGo
    <3>2. \A u \in IdleThreads : ~Live(u)
      BY <1>17, <2>1 DEF Create, MayCreate, ThreadInv
    <3>3. OneIdleThread'
      BY <1>0, <3>1, <3>2 DEF OneIdleThread, Live
    <3>4. pc' = [pc EXCEPT ![a] = "await"]
      BY <1>17, <2>1 DEF Create, MayCreate, Go
    <3>5. \A b \in Actors : pc'[b] # "clear"
      BY <1>0, <1>17, <3>4 DEF Create, LocksInv, HasTLock
    <3> QED BY <2>1, <3>3, <3>5 DEF ThreadInv
  <2>2. CASE in_idle
    <3>1. UNCHANGED <<thread, in_idle, ipc>> /\ Started(a)
      BY <1>17, <2>2 DEF Create, MayCreate
    <3> QED BY <1>0, <3>1, ThreadFrame DEF Started, Go, Live
  <2> QED BY <1>17, <2>1, <2>2 DEF Create, MayCreate
<1>18. ASSUME NEW a \in Actors, Await(a) PROVE ThreadInv'
  BY <1>0, <1>18, ThreadFrame DEF Await, Live, Go, storeVars, threadVars,
     actorVars, Started
<1>19. ASSUME NEW t \in IdleThreads, Spawned(t) PROVE ThreadInv'
  BY <1>0, <1>19, ThreadFrame DEF Spawned, Live, Go, IGo, storeVars, threadVars,
     actorVars, Reset, TellCreator
<1>20. ASSUME NEW t \in IdleThreads, BeginIdle(t) PROVE ThreadInv'
  BY <1>0, <1>20, ThreadFrame DEF BeginIdle, Live, Go, IGo, storeVars,
     threadVars, actorVars, Reset, TellCreator
<1>21. ASSUME NEW t \in IdleThreads, Loop(t) PROVE ThreadInv'
  BY <1>0, <1>21, ThreadFrame DEF Loop, Live, Go, IGo, storeVars, threadVars,
     actorVars, Reset, TellCreator
<1>22. ASSUME NEW t \in IdleThreads, Try(t) PROVE ThreadInv'
  BY <1>0, <1>22, ThreadFrame DEF Try, Live, Go, IGo, storeVars, threadVars,
     actorVars, Reset, TellCreator
<1>23. ASSUME NEW t \in IdleThreads, TryFails(t) PROVE ThreadInv'
  BY <1>0, <1>23, ThreadFrame DEF TryFails, Live, Go, IGo, storeVars,
     threadVars, actorVars, Reset, TellCreator
<1>24. ASSUME NEW t \in IdleThreads, Pass(t) PROVE ThreadInv'
  BY <1>0, <1>24, ThreadFrame DEF Pass, Live, Go, IGo, storeVars, threadVars,
     actorVars, Reset, TellCreator
<1>25. ASSUME NEW t \in IdleThreads, Tell(t) PROVE ThreadInv'
  BY <1>0, <1>25, ThreadFrame DEF Tell, Live, Go, IGo, storeVars, threadVars,
     actorVars, Reset, TellCreator
<1>26. ASSUME NEW t \in IdleThreads, Body(t) PROVE ThreadInv'
  BY <1>0, <1>26, ThreadFrame DEF Body, Live, Go, IGo, storeVars, threadVars,
     actorVars, Reset, TellCreator
<1>27. ASSUME NEW t \in IdleThreads, Done(t) PROVE ThreadInv'
  BY <1>0, <1>27, ThreadFrame DEF Done, Live, Go, IGo, storeVars, threadVars,
     actorVars, Reset, TellCreator
<1>28. ASSUME NEW t \in IdleThreads, Decide(t) PROVE ThreadInv'
  BY <1>0, <1>28, ThreadFrame DEF Decide, Live, Go, IGo, storeVars, threadVars,
     actorVars, Reset, TellCreator
<1>29. ASSUME NEW t \in IdleThreads, After(t) PROVE ThreadInv'
  BY <1>0, <1>29, ThreadFrame DEF After, Live, Go, IGo, storeVars, threadVars,
     actorVars, Reset, TellCreator
<1>30. ASSUME NEW t \in IdleThreads, Finish(t) PROVE ThreadInv'
  <2>1. ipc' = [ipc EXCEPT ![t] = "ended"] /\ thread' = thread /\ pc' = pc /\ Live(t)
    BY <1>30 DEF Finish, IGo, actorVars, Live
  <2>2. \A u \in IdleThreads : ~Live(u)'
    BY <1>0, <2>1 DEF ThreadInv, OneIdleThread, Live
  <2> QED BY <2>2 DEF ThreadInv, OneIdleThread
<1>31. CASE StartIfUnlocked
  BY <1>0, <1>31, ThreadFrame DEF StartIfUnlocked, Live, Go, storeVars,
     threadVars, actorVars
<1>32. CASE Close
  BY <1>0, <1>32, ThreadFrame DEF Close, Live, Go, storeVars, threadVars,
     actorVars
<1>33. CASE LetIdleDie
  BY <1>0, <1>33, ThreadFrame DEF LetIdleDie, Live, Go, storeVars, threadVars,
     actorVars
<1>34. CASE Logout
  BY <1>0, <1>34, ThreadFrame DEF Logout, Live, Go, storeVars, threadVars,
     actorVars
<1>35. CASE CloseStreams
  BY <1>0, <1>35, ThreadFrame DEF CloseStreams, Live, Go, storeVars, threadVars,
     actorVars
<1>36. CASE Closed
  BY <1>0, <1>36, ThreadFrame DEF Closed, Live, Go, storeVars, threadVars,
     actorVars
<1>37. ASSUME NEW b \in BOOLEAN, SetPush(b) PROVE ThreadInv'
  BY <1>0, <1>37, ThreadFrame DEF SetPush, Live, Go, storeVars, threadVars,
     actorVars
<1>38. ASSUME NEW b \in BOOLEAN, CanIdle(b) PROVE ThreadInv'
  BY <1>0, <1>38, ThreadFrame DEF CanIdle, Live, Go, storeVars, threadVars,
     actorVars, AfterCall
<1>39. ASSUME NEW l \in Line, Arrive(l) PROVE ThreadInv'
  BY <1>0, <1>39, ThreadFrame DEF Arrive, Live, Go, storeVars, threadVars,
     actorVars
<1>40. CASE UNCHANGED vars
  BY <1>40, ThreadFrame DEF vars, actorVars, storeVars, threadVars, Live
<1> QED BY <1>1, <1>2, <1>3, <1>4, <1>5, <1>6, <1>7, <1>8, <1>9, <1>10, <1>11,
   <1>12, <1>13, <1>14, <1>15, <1>16, <1>17, <1>18, <1>19, <1>20, <1>21, <1>22,
   <1>23, <1>24, <1>25, <1>26, <1>27, <1>28, <1>29, <1>30, <1>31, <1>32, <1>33,
   <1>34, <1>35, <1>36, <1>37, <1>38, <1>39, <1>40
    DEF Next, WorkerStep, MainStep, CloserStep, IdleStep, ActorStep, StopStep, StartStep,
        LockStep, Actors

LEMMA IdleAlways == Spec => []IdleInv
<1>1. Init => IdleInv
  <2> SUFFICES ASSUME Init PROVE IdleInv
    OBVIOUS
  <2> USE DEF Init
  <2>1. Types
    <3>1. LockTypes /\ reasons \in Int
      BY DEF LockTypes
    <3>4. StoreTypes /\ ConfTypes
      BY DEF StoreTypes, ConfTypes
    <3>2. ThreadTypes /\ RespTypes
      BY DEF ThreadTypes, RespTypes, IdlePc
    <3>3. ActorTypes
      BY DEF ActorTypes, ActorPc
    <3>5. WireTypes
      BY DEF WireTypes
    <3>6. HistoryTypes
      BY DEF HistoryTypes
    <3> QED BY <3>1, <3>2, <3>3, <3>4, <3>5, <3>6 DEF Types
  <2>2. LocksInv
    BY DEF LocksInv, HasTLock, HasIdleLock, Starting, HasThread
  <2>3. ConnectInv
    BY IdleAssumption DEF ConnectInv, Stopping, Holding, Actors
  <2>4. ThreadInv
    BY DEF ThreadInv, OneIdleThread, Live
  <2> QED BY <2>1, <2>2, <2>3, <2>4 DEF IdleInv
<1>2. IdleInv /\ [Next]_vars => IdleInv'
  BY TypeStep, LocksStep, ConnectStep, ThreadStep DEF IdleInv
<1> QED BY <1>1, <1>2, PTL DEF Spec

\* Every variable keeps its type.
THEOREM TypeCorrect == Spec => []TypeOK
BY IdleAlways, TypesMeanTypeOK, PTL DEF IdleInv

\* One idle thread at most has the connection, and it is the one that idle_thread
\* points to, however many threads stop and start it.
THEOREM OneIdler == Spec => []OneIdleThread
BY IdleAlways, PTL DEF IdleInv, ThreadInv
=============================================================================
