------------------------ MODULE CamelImapAreaProofs ------------------------
(***************************************************************************)
(* Proofs about CamelImapIdle when no decrement of idle_wait_reasons is    *)
(* lost: the reasons are counted, so that who finds none is alone, and a   *)
(* worker with the connection has no idle thread beside it.  Hence what is *)
(* sent is what the server expects, until an IDLE is renewed, and nothing  *)
(* of what it says is thrown away.                                         *)
(***************************************************************************)
EXTENDS CamelImapIdleProofs

\* The threads about to undo a try that failed.
Loading == {a \in Actors : pc[a] = "load"}

\* What the holder of connect_lock has counted; of Closer's recursions, the first
\* is that of camel_lite_service_disconnect.
Held == IF connect \in Workers THEN depth
        ELSE IF connect = Closer THEN depth - 1 ELSE 0

\* The reasons are counted, and who starts idle found none.
CountInv ==
  /\ \A a \in Actors : pc[a] # "store"
  /\ reasons = Cardinality(Loading) + Held
  /\ \A a \in Actors : pc[a] \in Starting => reasons = 0

\* Between the end of camel_imap_store_stop_idle_connect_lock and the release of
\* the connection.
InArea(a) == \/ pc[a] \in {"clear", "forget", "write", "unlock"}
             \/ (a = Closer /\ pc[a] \in {"logout", "close"})

\* An idle thread has in_idle set and a folder to idle in; nobody in the area has one
\* beside it.
QuietInv ==
  /\ \A t \in IdleThreads : Live(t) => in_idle /\ folder
  /\ \A a \in Actors : pc[a] \in {"again", "rejoin", "create"} => folder
  /\ \A a \in Actors \ {Main} : InArea(a) =>
        \A t \in IdleThreads : ~Live(t)

----------------------------------------------------------------------------
(* The reasons, when no decrement is lost.                                 *)

LEMMA LoadingIsFinite == IsFiniteSet(Loading) /\ Cardinality(Loading) \in Nat
<1>1. IsFiniteSet(Workers \cup {Main} \cup {Closer})
  BY IdleAssumption, FS_AddElement
<1>2. Loading \in SUBSET (Workers \cup {Main} \cup {Closer})
  BY DEF Loading, Actors
<1>3. IsFiniteSet(Loading)
  BY <1>1, <1>2, FS_Subset
<1> QED BY <1>3, FS_CardinalityType

\* Steps of one thread that neither count nor uncount.
Moves(a, to) ==
  /\ pc' = [pc EXCEPT ![a] = to] /\ pc[a] # "load"
  /\ to \notin {"load", "store"} /\ (to \in Starting => reasons = 0)

LEMMA LoadingMoves ==
  ASSUME Types, NEW a \in Actors, NEW to, pc' = [pc EXCEPT ![a] = to],
         to # "load", pc[a] # "load"
  PROVE  Loading' = Loading
BY DEF Types, ActorTypes, Loading

LEMMA LoadingGrows ==
  ASSUME Types, NEW a \in Actors, pc' = [pc EXCEPT ![a] = "load"], pc[a] # "load"
  PROVE  Cardinality(Loading') = Cardinality(Loading) + 1
<1>1. Loading' = Loading \cup {a} /\ a \notin Loading
  BY DEF Types, ActorTypes, Loading
<1> QED BY <1>1, LoadingIsFinite, FS_AddElement

LEMMA LoadingShrinks ==
  ASSUME Types, NEW a \in Actors, pc' = [pc EXCEPT ![a] = "enter"], pc[a] = "load"
  PROVE  Cardinality(Loading') = Cardinality(Loading) - 1
<1>1. Loading' = Loading \ {a} /\ a \in Loading
  BY DEF Types, ActorTypes, Loading
<1> QED BY <1>1, LoadingIsFinite, FS_RemoveElement

LEMMA CountFrame ==
  ASSUME Types, CountInv, UNCHANGED reasons, Held' = Held,
         pc' = pc \/ \E a \in Actors, to \in ActorPc : Moves(a, to)
  PROVE  CountInv'
<1>1. CASE pc' = pc
  <2>1. Loading' = Loading
    BY <1>1 DEF Loading
  <2> QED BY <1>1, <2>1 DEF CountInv
<1>2. ASSUME NEW a \in Actors, NEW to \in ActorPc, Moves(a, to) PROVE CountInv'
  <2>1. Loading' = Loading
    BY <1>2, LoadingMoves DEF Moves
  <2>2. pc \in [Actors -> ActorPc]
    BY DEF Types, ActorTypes
  <2>3. \A b \in Actors : pc'[b] # "store" /\ (pc'[b] \in Starting => reasons = 0)
    BY <1>2, <2>2 DEF Moves, CountInv
  <2> QED BY <2>1, <2>3 DEF CountInv
<1> QED BY <1>1, <1>2

LEMMA HeldIsNat ==
  ASSUME Types, ConnectInv
  PROVE  Held \in Nat
<1>1. depth \in Nat /\ Closer # Nobody
  BY IdleAssumption DEF Types, LockTypes, Actors
<1>2. connect = Closer => depth - 1 \in Nat
  BY <1>1 DEF ConnectInv
<1> QED BY <1>1, <1>2 DEF Held

LEMMA CountStep ==
  ASSUME ~LostUpdates
  PROVE  IdleInv /\ CountInv /\ [Next]_vars => CountInv'
<1> SUFFICES ASSUME IdleInv, CountInv, [Next]_vars PROVE CountInv'
  OBVIOUS
<1>0. /\ Types /\ LocksInv /\ ConnectInv
      /\ pc \in [Actors -> ActorPc] /\ Main \in Actors /\ Closer \in Actors
      /\ Main # Closer /\ Main \notin Workers /\ Closer \notin Workers
      /\ Workers \subseteq Actors /\ Nobody \notin Actors
      /\ Workers \cap IdleThreads = {} /\ Closer \notin IdleThreads
  BY IdleAssumption DEF IdleInv, Types, ActorTypes, Actors
<1>1. ASSUME NEW w \in Workers, Begin(w) PROVE CountInv'
  BY <1>0, <1>1, CountFrame DEF Begin, Held, lockVars, actorVars, Moves,
     Starting, Go, ActorPc
<1>2. ASSUME NEW a \in Workers \cup {Closer}, Enter(a) PROVE CountInv'
  <2>1. pc[a] = "enter" /\ reasons_lock = Nobody /\ a \in Actors
    BY <1>0, <1>2 DEF Enter
  <2>2. \A b \in Actors : pc[b] \notin Starting
    BY <1>0, <2>1 DEF LocksInv
  <2>3. reasons' = reasons + 1
    BY <1>2 DEF Enter
  <2>4. CASE Available(a)
    <3>1. pc' = [pc EXCEPT ![a] = "stop"] /\ connect' = a /\ connect \in {Nobody, a}
      BY <1>2, <2>4 DEF Enter, Go, Connect, Available
    <3>2. depth' = depth + 1 /\ depth \in Nat
      BY <1>0, <1>2, <2>4 DEF Enter, Connect, Types, LockTypes
    <3>3. Held' = Held + 1
      <4>1. CASE a \in Workers /\ connect = Nobody
        <5>1. depth = 0
          BY <1>0, <4>1 DEF ConnectInv
        <5>2. Held = 0 /\ Held' = depth'
          BY <1>0, <3>1, <4>1 DEF Held
        <5> QED BY <3>2, <5>1, <5>2
      <4>2. CASE a \in Workers /\ connect = a
        <5>1. Held = depth /\ Held' = depth'
          BY <3>1, <4>2 DEF Held
        <5> QED BY <3>2, <5>1
      <4>3. CASE a = Closer
        <5>1. connect = Closer
          BY <1>0, <2>1, <4>3 DEF ConnectInv
        <5>2. Held = depth - 1 /\ Held' = depth' - 1
          BY <1>0, <3>1, <4>3, <5>1 DEF Held
        <5> QED BY <3>2, <5>2
      <4> QED BY <3>1, <4>1, <4>2, <4>3
    <3>4. Loading' = Loading
      BY <1>0, <2>1, <3>1, LoadingMoves
    <3>5. \A b \in Actors : pc'[b] # "store" /\ pc'[b] \notin Starting
      BY <1>0, <2>1, <2>2, <3>1 DEF CountInv, Starting
    <3>6. Held \in Int
      BY <3>2 DEF Held
    <3>7. reasons' = Cardinality(Loading') + Held'
      BY <2>3, <3>3, <3>4, <3>6, LoadingIsFinite DEF CountInv
    <3> QED BY <3>5, <3>7 DEF CountInv
  <2>5. CASE ~Available(a)
    <3>1. pc' = [pc EXCEPT ![a] = "load"] /\ UNCHANGED <<connect, depth>>
      BY <1>2, <2>5 DEF Enter, Go
    <3>2. Held' = Held
      BY <3>1 DEF Held
    <3>3. Cardinality(Loading') = Cardinality(Loading) + 1
      BY <1>0, <2>1, <3>1, LoadingGrows
    <3>4. \A b \in Actors : pc'[b] # "store" /\ pc'[b] \notin Starting
      BY <1>0, <2>1, <2>2, <3>1 DEF CountInv, Starting
    <3>5. Held \in Int
      BY <1>0 DEF Held, Types, LockTypes
    <3>6. reasons' = Cardinality(Loading') + Held'
      BY <2>3, <3>2, <3>3, <3>5, LoadingIsFinite DEF CountInv
    <3> QED BY <3>4, <3>6 DEF CountInv
  <2> QED BY <2>4, <2>5
<1>3. ASSUME NEW a \in Workers \cup {Closer}, Load(a) PROVE CountInv'
  <2>1. pc[a] = "load" /\ a \in Actors /\ pc' = [pc EXCEPT ![a] = "enter"]
    BY <1>0, <1>3 DEF Load, Go
  <2>2. reasons' = reasons - 1
    BY <1>3 DEF Load, Uncount
  <2>3. Held' = Held
    BY <1>3 DEF Load, Held, lockVars
  <2>4. Cardinality(Loading') = Cardinality(Loading) - 1
    BY <1>0, <2>1, LoadingShrinks
  <2>5. Held \in Nat
    BY <1>0, HeldIsNat
  <2>6. reasons > 0
    <3>1. Loading # {}
      BY <2>1 DEF Loading
    <3>2. Cardinality(Loading) # 0
      BY <3>1, LoadingIsFinite, FS_EmptySet
    <3> QED BY <2>5, <3>2, LoadingIsFinite DEF CountInv
  <2>7. \A b \in Actors : pc[b] \notin Starting
    BY <2>6 DEF CountInv
  <2>8. \A b \in Actors : pc'[b] # "store" /\ pc'[b] \notin Starting
    BY <1>0, <2>1, <2>7 DEF CountInv, Starting
  <2>9. reasons' = Cardinality(Loading') + Held'
    BY <2>2, <2>3, <2>4, <2>5, LoadingIsFinite DEF CountInv
  <2> QED BY <2>8, <2>9 DEF CountInv
<1>4. ASSUME NEW a \in Workers \cup {Closer}, Store(a) PROVE CountInv'
  BY <1>0, <1>4 DEF Store, CountInv
<1>5. ASSUME NEW a \in Actors, Stop(a) PROVE CountInv'
  BY <1>0, <1>5, CountFrame, StopTarget DEF Stop, Held, lockVars, actorVars,
     Moves, Starting, Go, ActorPc, Stopped
<1>6. ASSUME NEW a \in Actors, Lock(a) PROVE CountInv'
  BY <1>0, <1>6, CountFrame, StopTarget DEF Lock, Held, lockVars, actorVars,
     Moves, Starting, Go, ActorPc, Stopped
<1>7. ASSUME NEW a \in Actors, Send(a) PROVE CountInv'
  BY <1>0, <1>7, CountFrame DEF Send, Held, lockVars, actorVars, Moves,
     Starting, Go, ActorPc
<1>8. ASSUME NEW a \in Actors, Join(a) PROVE CountInv'
  BY <1>0, <1>8, CountFrame DEF Join, Held, lockVars, actorVars, Moves,
     Starting, Go, ActorPc
<1>9. ASSUME NEW a \in Actors, Clear(a) PROVE CountInv'
  BY <1>0, <1>9, CountFrame DEF Clear, Held, lockVars, actorVars, Moves,
     Starting, Go, ActorPc
<1>10. ASSUME NEW a \in Actors, Forget(a) PROVE CountInv'
  BY <1>0, <1>10, CountFrame, StopTarget DEF Forget, Held, lockVars, actorVars,
     Moves, Starting, Go, ActorPc, Stopped
<1>11. ASSUME NEW w \in Workers, Write(w) PROVE CountInv'
  BY <1>0, <1>11, CountFrame DEF Write, Held, lockVars, actorVars, Moves,
     Starting, Go, ActorPc
<1>12. ASSUME NEW a \in Workers \cup {Closer}, Unlock(a) PROVE CountInv'
  <2>1. pc[a] = "unlock" /\ reasons_lock = Nobody /\ a \in Actors /\ connect = a
    BY <1>0, <1>12 DEF Unlock, ConnectInv, Stopping
  <2>2. reasons' = reasons - 1
    BY <1>12 DEF Unlock
  <2>3. connect' = IF depth = 1 THEN Nobody ELSE a
    BY <1>12, <2>1 DEF Unlock, Disconnect
  <2>4. depth' = depth - 1 /\ depth \in Nat /\ depth # 0
    BY <1>0, <1>12, <2>1 DEF Unlock, Disconnect, Types, LockTypes, ConnectInv
  <2>5. Held' = Held - 1 /\ Held \in Int
    <3>1. CASE a \in Workers /\ depth = 1
      <4>1. Held = depth /\ Held' = 0
        BY <1>0, <2>1, <2>3, <3>1 DEF Held
      <4> QED BY <3>1, <4>1
    <3>2. CASE a \in Workers /\ depth # 1
      <4>1. Held = depth /\ Held' = depth'
        BY <2>1, <2>3, <3>2 DEF Held
      <4> QED BY <2>4, <4>1
    <3>3. CASE a = Closer
      <4>1. depth = 2
        BY <1>0, <2>1, <3>3 DEF ConnectInv
      <4>2. connect' = Closer
        BY <2>3, <3>3, <4>1
      <4>3. Held = depth - 1 /\ Held' = depth' - 1
        BY <1>0, <2>1, <3>3, <4>2 DEF Held
      <4> QED BY <2>4, <4>3
    <3> QED BY <3>1, <3>2, <3>3
  <2>6. PICK to \in {"start", "free", "unlock", "leave"} :
          pc' = [pc EXCEPT ![a] = to] /\ (to = "start" => reasons' = 0)
    BY <1>12 DEF Unlock, Go
  <2>7. Loading' = Loading
    BY <1>0, <2>1, <2>6, LoadingMoves
  <2>8. \A b \in Actors : pc[b] \notin Starting
    BY <1>0, <2>1 DEF LocksInv
  <2>9. \A b \in Actors : pc'[b] # "store" /\ (pc'[b] \in Starting => reasons' = 0)
    BY <1>0, <2>1, <2>6, <2>8 DEF CountInv, Starting
  <2>10. reasons' = Cardinality(Loading') + Held'
    BY <2>2, <2>5, <2>7, LoadingIsFinite DEF CountInv
  <2> QED BY <2>9, <2>10 DEF CountInv
<1>13. ASSUME NEW a \in Actors, Start(a) PROVE CountInv'
  BY <1>0, <1>13, CountFrame DEF Start, Held, lockVars, actorVars, Moves,
     Starting, Go, ActorPc, CountInv, Started
<1>14. ASSUME NEW a \in Actors, Prefix(a) PROVE CountInv'
  BY <1>0, <1>14, CountFrame DEF Prefix, Held, lockVars, actorVars, Moves,
     Starting, Go, ActorPc, CountInv, Started
<1>15. ASSUME NEW a \in Actors, Again(a) PROVE CountInv'
  BY <1>0, <1>15, CountFrame DEF Again, Held, lockVars, actorVars, Moves,
     Starting, Go, ActorPc, CountInv
<1>16. ASSUME NEW a \in Actors, Rejoin(a) PROVE CountInv'
  BY <1>0, <1>16, CountFrame DEF Rejoin, Held, lockVars, actorVars, Moves,
     Starting, Go, ActorPc, CountInv
<1>17. ASSUME NEW a \in Actors, Create(a) PROVE CountInv'
  BY <1>0, <1>17, CountFrame DEF Create, Held, lockVars, actorVars, Moves,
     Starting, Go, ActorPc, CountInv, Started
<1>18. ASSUME NEW a \in Actors, Await(a) PROVE CountInv'
  BY <1>0, <1>18, CountFrame DEF Await, Held, lockVars, actorVars, Moves,
     Starting, Go, ActorPc, CountInv, Started
<1>19. ASSUME NEW t \in IdleThreads, Spawned(t) PROVE CountInv'
  BY <1>0, <1>19, CountFrame DEF Spawned, Held, lockVars, actorVars
<1>20. ASSUME NEW t \in IdleThreads, BeginIdle(t) PROVE CountInv'
  BY <1>0, <1>20, CountFrame DEF BeginIdle, Held, lockVars, actorVars
<1>21. ASSUME NEW t \in IdleThreads, Loop(t) PROVE CountInv'
  BY <1>0, <1>21, CountFrame DEF Loop, Held, lockVars, actorVars
<1>22. ASSUME NEW t \in IdleThreads, Try(t) PROVE CountInv'
  <2>1. UNCHANGED <<reasons, pc>>
    BY <1>22 DEF Try, actorVars
  <2>2. connect \notin Actors /\ connect' \notin Actors
    BY <1>0, <1>22, IdleAssumption DEF Try, Available, Connect, ConnectInv
  <2>3. Held' = Held
    BY <1>0, <2>2 DEF Held
  <2> QED BY <1>0, <2>1, <2>3, CountFrame
<1>23. ASSUME NEW t \in IdleThreads, TryFails(t) PROVE CountInv'
  BY <1>0, <1>23, CountFrame DEF TryFails, Held, lockVars, actorVars
<1>24. ASSUME NEW t \in IdleThreads, Pass(t) PROVE CountInv'
  BY <1>0, <1>24, CountFrame DEF Pass, Held, lockVars, actorVars
<1>25. ASSUME NEW t \in IdleThreads, Tell(t) PROVE CountInv'
  BY <1>0, <1>25, CountFrame DEF Tell, Held, lockVars, actorVars
<1>26. ASSUME NEW t \in IdleThreads, Body(t) PROVE CountInv'
  <2>1. UNCHANGED <<reasons, pc>>
    BY <1>26 DEF Body, actorVars
  <2>2. connect \notin Actors /\ connect' \notin Actors
    BY <1>0, <1>26, IdleAssumption DEF Body, Disconnect, ConnectInv, Holding
  <2>3. Held' = Held
    BY <1>0, <2>2 DEF Held
  <2> QED BY <1>0, <2>1, <2>3, CountFrame
<1>27. ASSUME NEW t \in IdleThreads, Done(t) PROVE CountInv'
  BY <1>0, <1>27, CountFrame DEF Done, Held, lockVars, actorVars
<1>28. ASSUME NEW t \in IdleThreads, Decide(t) PROVE CountInv'
  <2>1. UNCHANGED <<reasons, pc>>
    BY <1>28 DEF Decide, actorVars
  <2>2. connect \notin Actors /\ connect' \notin Actors
    BY <1>0, <1>28, IdleAssumption DEF Decide, Disconnect, ConnectInv, Holding
  <2>3. Held' = Held
    BY <1>0, <2>2 DEF Held
  <2> QED BY <1>0, <2>1, <2>3, CountFrame
<1>29. ASSUME NEW t \in IdleThreads, After(t) PROVE CountInv'
  BY <1>0, <1>29, CountFrame DEF After, Held, lockVars, actorVars
<1>30. ASSUME NEW t \in IdleThreads, Finish(t) PROVE CountInv'
  BY <1>0, <1>30, CountFrame DEF Finish, Held, lockVars, actorVars
<1>31. CASE StartIfUnlocked
  BY <1>0, <1>31, CountFrame DEF StartIfUnlocked, Held, lockVars, actorVars,
     Moves, Starting, Go, ActorPc, NoReasons
<1>32. CASE Close
  <2>1. connect = Nobody /\ pc[Closer] = "free" /\ UNCHANGED reasons
    BY <1>32 DEF Close
  <2>2. depth = 0 /\ depth' = depth + 1 /\ connect' = Closer
    BY <1>0, <1>32, <2>1 DEF Close, Connect, ConnectInv
  <2>3. Held' = Held
    <3>1. Held = 0 /\ Held' = depth' - 1
      BY <1>0, <2>1, <2>2 DEF Held
    <3>2. depth' - 1 = 0
      BY <2>2
    <3> QED BY <3>1, <3>2
  <2>4. Moves(Closer, "die")
    BY <1>32, <2>1 DEF Close, Go, Moves, Starting
  <2> QED BY <1>0, <2>1, <2>3, <2>4, CountFrame DEF ActorPc
<1>33. CASE LetIdleDie
  BY <1>0, <1>33, CountFrame DEF LetIdleDie, Held, lockVars, actorVars, Moves,
     Starting, Go, ActorPc
<1>34. CASE Logout
  BY <1>0, <1>34, CountFrame DEF Logout, Held, lockVars, actorVars, Moves,
     Starting, Go, ActorPc
<1>35. CASE CloseStreams
  BY <1>0, <1>35, CountFrame DEF CloseStreams, Held, lockVars, actorVars, Moves,
     Starting, Go, ActorPc
<1>36. CASE Closed
  <2>1. connect = Closer /\ depth = 1 /\ pc[Closer] = "leave" /\ UNCHANGED reasons
    BY <1>0, <1>36 DEF Closed, ConnectInv
  <2>2. connect' = Nobody
    BY <1>36, <2>1 DEF Closed, Disconnect
  <2>3. Held' = Held
    <3>1. Held = depth - 1 /\ Held' = 0
      BY <1>0, <2>1, <2>2 DEF Held
    <3> QED BY <2>1, <3>1
  <2>4. Moves(Closer, "free")
    BY <1>36, <2>1 DEF Closed, Go, Moves, Starting
  <2> QED BY <1>0, <2>1, <2>3, <2>4, CountFrame DEF ActorPc
<1>37. ASSUME NEW b \in BOOLEAN, SetPush(b) PROVE CountInv'
  BY <1>0, <1>37, CountFrame DEF SetPush, Held, lockVars, actorVars, Moves,
     Starting, Go, ActorPc
<1>38. ASSUME NEW b \in BOOLEAN, CanIdle(b) PROVE CountInv'
  BY <1>0, <1>38, CountFrame DEF CanIdle, Held, lockVars, actorVars, Moves,
     Starting, Go, ActorPc, AfterCall
<1>39. ASSUME NEW l \in Line, Arrive(l) PROVE CountInv'
  BY <1>0, <1>39, CountFrame DEF Arrive, Held, lockVars, actorVars
<1>40. CASE UNCHANGED vars
  BY <1>0, <1>40, CountFrame DEF vars, Held, lockVars, actorVars
<1> QED BY <1>1, <1>2, <1>3, <1>4, <1>5, <1>6, <1>7, <1>8, <1>9, <1>10, <1>11,
   <1>12, <1>13, <1>14, <1>15, <1>16, <1>17, <1>18, <1>19, <1>20, <1>21, <1>22,
   <1>23, <1>24, <1>25, <1>26, <1>27, <1>28, <1>29, <1>30, <1>31, <1>32, <1>33,
   <1>34, <1>35, <1>36, <1>37, <1>38, <1>39, <1>40
    DEF Next, WorkerStep, MainStep, CloserStep, IdleStep, ActorStep, StopStep, StartStep,
        LockStep, Actors

----------------------------------------------------------------------------
(* Where a thread has the connection for itself.                           *)

\* Who starts idle has not got connect_lock, and nobody is in the area.
LEMMA StarterIsAlone ==
  ASSUME Types, ConnectInv, CountInv, NEW a \in Actors, pc[a] \in Starting
  PROVE  /\ connect # a
         /\ \A b \in Actors \ {Main} : ~InArea(b)
<1>1. reasons = 0 /\ Held = 0
  BY HeldIsNat, LoadingIsFinite DEF CountInv
<1>2. connect \notin Workers
  BY <1>1, IdleAssumption DEF Held, ConnectInv, Actors
<1>3. ~(connect = Closer /\ depth = 2)
  <2> SUFFICES ASSUME connect = Closer, depth = 2 PROVE FALSE
    OBVIOUS
  <2>1. Held = depth - 1
    BY <1>2 DEF Held
  <2> QED BY <1>1, <2>1
<1>4. \A b \in Workers : ~InArea(b)
  BY <1>2, IdleAssumption DEF ConnectInv, InArea, Stopping
<1>5. ~InArea(Closer)
  BY <1>3 DEF ConnectInv, InArea, Stopping
<1>6. a # Closer
  BY DEF ConnectInv, Starting, Stopping
<1> QED BY <1>2, <1>4, <1>5, <1>6 DEF Actors, ConnectInv

LEMMA QuietFrame ==
  ASSUME QuietInv, UNCHANGED in_idle, folder => folder',
         \A t \in IdleThreads : Live(t)' => Live(t),
         \A a \in Actors : pc'[a] \in {"again", "rejoin", "create"} =>
                          pc[a] \in {"again", "rejoin", "create"} \/ folder,
         \A a \in Actors \ {Main} : InArea(a)' => InArea(a)
  PROVE  QuietInv'
BY DEF QuietInv

\* A step after which no idle thread lives, and that leaves the folder alone.
LEMMA QuietWithout ==
  ASSUME QuietInv, UNCHANGED folder, \A t \in IdleThreads : ~Live(t)',
         \A a \in Actors : pc'[a] \in {"again", "rejoin", "create"} => pc[a] = pc'[a]
  PROVE  QuietInv'
BY DEF QuietInv

LEMMA QuietStep == IdleInv /\ IdleInv' /\ CountInv /\ QuietInv /\ [Next]_vars => QuietInv'
<1> SUFFICES ASSUME IdleInv, IdleInv', CountInv, QuietInv, [Next]_vars PROVE QuietInv'
  OBVIOUS
<1>0. /\ Types /\ LocksInv /\ ConnectInv /\ ThreadInv /\ ThreadInv'
      /\ pc \in [Actors -> ActorPc] /\ ipc \in [IdleThreads -> IdlePc]
      /\ Main \in Actors /\ Closer \in Actors /\ Main # Closer
      /\ Workers \subseteq Actors /\ Nobody \notin Actors /\ Nobody \notin IdleThreads
  BY IdleAssumption DEF IdleInv, Types, ActorTypes, ThreadTypes, Actors
<1>1. ASSUME NEW w \in Workers, Begin(w) PROVE QuietInv'
  BY <1>0, <1>1, QuietFrame DEF Begin, Live, InArea, storeVars, confVars,
     threadVars, actorVars, Go
<1>2. ASSUME NEW a \in Workers \cup {Closer}, Enter(a) PROVE QuietInv'
  BY <1>0, <1>2, QuietFrame DEF Enter, Live, InArea, storeVars, confVars,
     threadVars, actorVars, Go
<1>3. ASSUME NEW a \in Workers \cup {Closer}, Load(a) PROVE QuietInv'
  BY <1>0, <1>3, QuietFrame DEF Load, Live, InArea, storeVars, confVars,
     threadVars, actorVars, Go
<1>4. ASSUME NEW a \in Workers \cup {Closer}, Store(a) PROVE QuietInv'
  BY <1>0, <1>4, QuietFrame DEF Store, Live, InArea, storeVars, confVars,
     threadVars, actorVars, Go
<1>5. ASSUME NEW a \in Actors, Stop(a) PROVE QuietInv'
  <2>1. /\ UNCHANGED <<ipc, folder>> /\ pc[a] = "stop"
        /\ \E to \in ActorPc \ {"again", "rejoin", "create"} :
             pc' = [pc EXCEPT ![a] = to] /\ (folder => to = "lock")
             /\ (in_idle' # in_idle => ~folder)
    BY <1>5, StopTarget DEF Stop, Stopped, Go, threadVars, confVars, ActorPc
  <2>2. CASE folder
    BY <1>0, <2>1, <2>2, QuietFrame DEF Live, InArea
  <2>3. CASE ~folder
    <3>1. \A t \in IdleThreads : ~Live(t)'
      BY <2>1, <2>3 DEF QuietInv, Live
    <3> QED BY <1>0, <2>1, <3>1, QuietWithout
  <2> QED BY <2>2, <2>3
<1>6. ASSUME NEW a \in Actors, Lock(a) PROVE QuietInv'
  <2>1. UNCHANGED <<ipc, folder, in_idle, thread>>
    BY <1>6 DEF Lock, threadVars, confVars
  <2>2. CASE in_idle /\ thread # Nobody
    <3>1. pc' = [pc EXCEPT ![a] = "send"] \/ pc' = [pc EXCEPT ![a] = "join"]
      BY <1>6, <2>2 DEF Lock, Go
    <3> QED BY <1>0, <2>1, <3>1, QuietFrame DEF Live, InArea
  <2>3. CASE ~(in_idle /\ thread # Nobody)
    <3>1. \A t \in IdleThreads : ~Live(t)
      BY <1>0, <2>3 DEF QuietInv, ThreadInv, OneIdleThread
    <3>2. pc' = [pc EXCEPT ![a] = AfterStop(a)]
      BY <1>6, <2>3 DEF Lock, Stopped, Go
    <3> QED BY <1>0, <2>1, <3>1, <3>2, StopTarget, QuietWithout DEF Live
  <2> QED BY <2>2, <2>3
<1>7. ASSUME NEW a \in Actors, Send(a) PROVE QuietInv'
  BY <1>0, <1>7, QuietFrame DEF Send, Live, InArea, storeVars, confVars,
     threadVars, actorVars, Go
<1>8. ASSUME NEW a \in Actors, Join(a) PROVE QuietInv'
  <2>1. pc' = [pc EXCEPT ![a] = "clear"] /\ UNCHANGED folder
    BY <1>8 DEF Join, Go, confVars
  <2>2. \A t \in IdleThreads : ~Live(t)'
    BY <1>0, <2>1 DEF ThreadInv
  <2> QED BY <1>0, <2>1, <2>2, QuietWithout
<1>9. ASSUME NEW a \in Actors, Clear(a) PROVE QuietInv'
  <2>1. pc' = [pc EXCEPT ![a] = "forget"] /\ UNCHANGED <<ipc, folder>> /\ pc[a] = "clear"
    BY <1>9 DEF Clear, Go, confVars, threadVars
  <2>2. \A t \in IdleThreads : ~Live(t)'
    BY <1>0, <2>1 DEF ThreadInv, Live
  <2> QED BY <1>0, <2>1, <2>2, QuietWithout
<1>10. ASSUME NEW a \in Actors, Forget(a) PROVE QuietInv'
  BY <1>0, <1>10, QuietFrame, StopTarget DEF Forget, Live, InArea, storeVars,
     confVars, threadVars, actorVars, Go, Stopped
<1>11. ASSUME NEW w \in Workers, Write(w) PROVE QuietInv'
  BY <1>0, <1>11, QuietFrame DEF Write, Live, InArea, storeVars, confVars,
     threadVars, actorVars, Go
<1>12. ASSUME NEW a \in Workers \cup {Closer}, Unlock(a) PROVE QuietInv'
  BY <1>0, <1>12, QuietFrame DEF Unlock, Live, InArea, storeVars, confVars,
     threadVars, actorVars, Go
<1>13. ASSUME NEW a \in Actors, Start(a) PROVE QuietInv'
  <2>1. connect # a
    BY <1>0, <1>13, StarterIsAlone DEF Start, Starting
  <2>2. UNCHANGED <<in_idle, folder, ipc>>
    BY <1>13 DEF Start, storeVars, confVars, threadVars
  <2>3. pc' = [pc EXCEPT ![a] = "free"] \/ pc' = [pc EXCEPT ![a] = "prefix"]
    BY <1>13, <2>1 DEF Start, Started, Go
  <2> QED BY <1>0, <2>2, <2>3, QuietFrame DEF Live, InArea
<1>14. ASSUME NEW a \in Actors, Prefix(a) PROVE QuietInv'
  <2>1. connect # a
    BY <1>0, <1>14, StarterIsAlone DEF Prefix, Starting
  <2>2. UNCHANGED <<in_idle, folder, ipc>>
    BY <1>14 DEF Prefix, storeVars, confVars, threadVars
  <2>3. pc' = [pc EXCEPT ![a] = "free"]
        \/ (folder /\ pc' = [pc EXCEPT ![a] = "again"])
    BY <1>14, <2>1 DEF Prefix, Started, Go
  <2> QED BY <1>0, <2>2, <2>3, QuietFrame DEF Live, InArea
<1>15. ASSUME NEW a \in Actors, Again(a) PROVE QuietInv'
  BY <1>0, <1>15, QuietFrame DEF Again, Live, InArea, storeVars, confVars,
     threadVars, actorVars, Go
<1>16. ASSUME NEW a \in Actors, Rejoin(a) PROVE QuietInv'
  <2>1. thread \in IdleThreads
    BY <1>0, <1>16 DEF Rejoin, LocksInv, HasThread, Types, StoreTypes
  <2>2. /\ ipc' = [ipc EXCEPT ![thread] = "none"] /\ UNCHANGED <<in_idle, folder>>
        /\ pc[a] = "rejoin" /\ pc' = [pc EXCEPT ![a] = "create"]
    BY <1>16 DEF Rejoin, IGo, Go, confVars
  <2> QED BY <1>0, <2>1, <2>2, QuietFrame DEF Live, InArea
<1>17. ASSUME NEW a \in Actors, Create(a) PROVE QuietInv'
  <2>1. /\ pc[a] = "create" /\ folder /\ UNCHANGED folder /\ connect # a
        /\ \A b \in Actors \ {Main} : ~InArea(b)
    BY <1>0, <1>17, StarterIsAlone DEF Create, QuietInv, Starting, confVars
  <2>2. CASE in_idle' /\ pc' = [pc EXCEPT ![a] = "await"]
    <3>1. \A b \in Actors \ {Main} : ~InArea(b)'
      BY <1>0, <2>1, <2>2 DEF InArea
    <3>2. \A b \in Actors : pc'[b] \in {"again", "rejoin", "create"} => folder'
      BY <2>1
    <3> QED BY <2>1, <2>2, <3>1, <3>2 DEF QuietInv
  <2>3. CASE UNCHANGED <<in_idle, ipc>> /\ pc' = [pc EXCEPT ![a] = "free"]
    BY <1>0, <2>1, <2>3, QuietFrame DEF Live, InArea
  <2> QED BY <1>17, <2>1, <2>2, <2>3 DEF Create, MayCreate, Started, Go
<1>18. ASSUME NEW a \in Actors, Await(a) PROVE QuietInv'
  <2>1. connect # a
    BY <1>0, <1>18, StarterIsAlone DEF Await, Starting
  <2>2. UNCHANGED <<in_idle, folder, ipc>>
    BY <1>18 DEF Await, storeVars, confVars, threadVars
  <2>3. pc' = [pc EXCEPT ![a] = "free"]
    BY <1>18, <2>1 DEF Await, Started, Go
  <2> QED BY <1>0, <2>2, <2>3, QuietFrame DEF Live, InArea
<1>19. ASSUME NEW t \in IdleThreads, Spawned(t) PROVE QuietInv'
  BY <1>0, <1>19, QuietFrame DEF Spawned, Live, InArea, storeVars, confVars,
     threadVars, actorVars, IGo, Reset, TellCreator
<1>20. ASSUME NEW t \in IdleThreads, BeginIdle(t) PROVE QuietInv'
  BY <1>0, <1>20, QuietFrame DEF BeginIdle, Live, InArea, storeVars, confVars,
     threadVars, actorVars, IGo, Reset, TellCreator
<1>21. ASSUME NEW t \in IdleThreads, Loop(t) PROVE QuietInv'
  BY <1>0, <1>21, QuietFrame DEF Loop, Live, InArea, storeVars, confVars,
     threadVars, actorVars, IGo, Reset, TellCreator
<1>22. ASSUME NEW t \in IdleThreads, Try(t) PROVE QuietInv'
  BY <1>0, <1>22, QuietFrame DEF Try, Live, InArea, storeVars, confVars,
     threadVars, actorVars, IGo, Reset, TellCreator
<1>23. ASSUME NEW t \in IdleThreads, TryFails(t) PROVE QuietInv'
  BY <1>0, <1>23, QuietFrame DEF TryFails, Live, InArea, storeVars, confVars,
     threadVars, actorVars, IGo, Reset, TellCreator
<1>24. ASSUME NEW t \in IdleThreads, Pass(t) PROVE QuietInv'
  BY <1>0, <1>24, QuietFrame DEF Pass, Live, InArea, storeVars, confVars,
     threadVars, actorVars, IGo, Reset, TellCreator
<1>25. ASSUME NEW t \in IdleThreads, Tell(t) PROVE QuietInv'
  BY <1>0, <1>25, QuietFrame DEF Tell, Live, InArea, storeVars, confVars,
     threadVars, actorVars, IGo, Reset, TellCreator
<1>26. ASSUME NEW t \in IdleThreads, Body(t) PROVE QuietInv'
  BY <1>0, <1>26, QuietFrame DEF Body, Live, InArea, storeVars, confVars,
     threadVars, actorVars, IGo, Reset, TellCreator
<1>27. ASSUME NEW t \in IdleThreads, Done(t) PROVE QuietInv'
  BY <1>0, <1>27, QuietFrame DEF Done, Live, InArea, storeVars, confVars,
     threadVars, actorVars, IGo, Reset, TellCreator
<1>28. ASSUME NEW t \in IdleThreads, Decide(t) PROVE QuietInv'
  BY <1>0, <1>28, QuietFrame DEF Decide, Live, InArea, storeVars, confVars,
     threadVars, actorVars, IGo, Reset, TellCreator
<1>29. ASSUME NEW t \in IdleThreads, After(t) PROVE QuietInv'
  BY <1>0, <1>29, QuietFrame DEF After, Live, InArea, storeVars, confVars,
     threadVars, actorVars, IGo, Reset, TellCreator
<1>30. ASSUME NEW t \in IdleThreads, Finish(t) PROVE QuietInv'
  <2>1. /\ ipc' = [ipc EXCEPT ![t] = "ended"] /\ pc' = pc /\ UNCHANGED folder
        /\ Live(t)
    BY <1>30 DEF Finish, IGo, actorVars, confVars, Live
  <2>2. \A u \in IdleThreads : ~Live(u)'
    BY <1>0, <2>1 DEF ThreadInv, OneIdleThread, Live
  <2> QED BY <2>1, <2>2, QuietWithout
<1>31. CASE StartIfUnlocked
  BY <1>0, <1>31, QuietFrame DEF StartIfUnlocked, Live, InArea, storeVars,
     confVars, threadVars, actorVars, Go
<1>32. CASE Close
  BY <1>0, <1>32, QuietFrame DEF Close, Live, InArea, storeVars, confVars,
     threadVars, actorVars, Go
<1>33. CASE LetIdleDie
  BY <1>0, <1>33, QuietFrame DEF LetIdleDie, Live, InArea, storeVars, confVars,
     threadVars, actorVars, Go
<1>34. CASE Logout
  BY <1>0, <1>34, QuietFrame DEF Logout, Live, InArea, storeVars, confVars,
     threadVars, actorVars, Go
<1>35. CASE CloseStreams
  <2>1. /\ pc[Closer] = "close" /\ pc' = [pc EXCEPT ![Closer] = "unlock"]
        /\ UNCHANGED <<ipc, in_idle>>
    BY <1>35 DEF CloseStreams, Go, threadVars, storeVars
  <2>2. \A t \in IdleThreads : ~Live(t)'
    BY <1>0, <2>1 DEF QuietInv, InArea, Live
  <2>3. \A a \in Actors : pc[a] \notin Starting
    BY <1>0, <2>1, StarterIsAlone DEF InArea
  <2>4. \A a \in Actors : pc'[a] \notin {"again", "rejoin", "create"}
    BY <1>0, <2>1, <2>3 DEF Starting
  <2> QED BY <2>2, <2>4 DEF QuietInv
<1>36. CASE Closed
  BY <1>0, <1>36, QuietFrame DEF Closed, Live, InArea, storeVars, confVars,
     threadVars, actorVars, Go
<1>37. ASSUME NEW b \in BOOLEAN, SetPush(b) PROVE QuietInv'
  BY <1>0, <1>37, QuietFrame DEF SetPush, Live, InArea, storeVars, confVars,
     threadVars, actorVars, Go
<1>38. ASSUME NEW b \in BOOLEAN, CanIdle(b) PROVE QuietInv'
  BY <1>0, <1>38, QuietFrame DEF CanIdle, Live, InArea, storeVars, confVars,
     threadVars, actorVars, Go, AfterCall
<1>39. ASSUME NEW l \in Line, Arrive(l) PROVE QuietInv'
  BY <1>0, <1>39, QuietFrame DEF Arrive, Live, InArea, storeVars, confVars,
     threadVars, actorVars, Go
<1>40. CASE UNCHANGED vars
  BY <1>0, <1>40, QuietFrame DEF vars, Live, InArea, storeVars, confVars, threadVars,
        actorVars
<1> QED BY <1>1, <1>2, <1>3, <1>4, <1>5, <1>6, <1>7, <1>8, <1>9, <1>10, <1>11,
   <1>12, <1>13, <1>14, <1>15, <1>16, <1>17, <1>18, <1>19, <1>20, <1>21, <1>22,
   <1>23, <1>24, <1>25, <1>26, <1>27, <1>28, <1>29, <1>30, <1>31, <1>32, <1>33,
   <1>34, <1>35, <1>36, <1>37, <1>38, <1>39, <1>40
    DEF Next, WorkerStep, MainStep, CloserStep, IdleStep, ActorStep, StopStep, StartStep,
        LockStep, Actors

LEMMA QuietAlways ==
  ASSUME ~LostUpdates
  PROVE  Spec => [](IdleInv /\ CountInv /\ QuietInv)
<1>1. Init => CountInv /\ QuietInv
  <2> SUFFICES ASSUME Init PROVE CountInv /\ QuietInv
    OBVIOUS
  <2>1. QuietInv
    BY DEF Init, QuietInv, Live, InArea
  <2>2. Loading = {} /\ Held = 0
    BY IdleAssumption DEF Init, Loading, Held, Actors
  <2>3. reasons = Cardinality(Loading) + Held
    BY <2>2, FS_EmptySet DEF Init
  <2> QED BY <2>1, <2>3 DEF Init, CountInv, Starting
<1>2. IdleInv /\ IdleInv' /\ CountInv /\ QuietInv /\ [Next]_vars => CountInv' /\ QuietInv'
  BY CountStep, QuietStep
<1> QED BY <1>1, <1>2, IdleAlways, PTL DEF Spec

\* idle_wait_reasons counts the recursions of the holder of connect_lock and the
\* tries under way, if the unlocked decrement loses nothing.
THEOREM ReasonsAreCounted ==
  ASSUME ~LostUpdates
  PROVE  Spec => []ReasonsCounted
<1>1. IdleInv /\ CountInv => ReasonsCounted
  <2> SUFFICES ASSUME IdleInv, CountInv PROVE ReasonsCounted
    OBVIOUS
  <2>1. pc[Closer] # "load"
    BY DEF IdleInv, ConnectInv, Stopping
  <2> QED BY <2>1 DEF CountInv, Loading, Held, ReasonsCounted
<1> QED BY <1>1, QuietAlways, PTL

\* A worker between entering and leaving has the connection without any idle thread,
\* for any number of workers, idle threads, commands and switches of push.
THEOREM AreaBlocksIdle ==
  ASSUME ~LostUpdates
  PROVE  Spec => []AreaIsQuiet
<1>1. IdleInv /\ QuietInv => AreaIsQuiet
  BY IdleAssumption DEF QuietInv, AreaIsQuiet, InArea, Actors
<1> QED BY <1>1, QuietAlways, PTL

----------------------------------------------------------------------------
(* What idle threads and those who stop them have said and read.           *)

\* Who kills idle has cleared idle_cont; who stops a thread too, and who sends DONE in its
\* place has found it not yet sent, so that the thread has nothing left to be processed.
StopInv ==
  /\ kill => ~cont
  /\ \A a \in Actors :
       /\ pc[a] \in {"send", "join", "reap"} => ~cont
       /\ pc[a] = "send" => a # Main /\ ~done_happened
       /\ pc[a] = "reap" => a # Main /\ resp[thread] = {}

\* Where idle_prefix is NULL: an idle thread is about to be created, or idle is stopped.
Bare(a) == \/ pc[a] \in {"again", "rejoin", "create", "write", "unlock"}
           \/ a = Closer /\ pc[a] \in {"logout", "close"}

\* What is bare stays so: no idle thread lives that might send IDLE.
BareInv ==
  \A a \in Actors :
    /\ pc[a] = "forget" => \A t \in IdleThreads : ~Live(t)
    /\ Bare(a) => prefix = "none"

\* An idle thread that has not copied idle_cont yet.
Fresh(t) == ipc[t] \in {"spawned", "begin"}

\* Until its creator is told, which waits for it, an idle thread has not sent DONE, and
\* not IDLE either if that is still to come.
TellInv ==
  \A t \in IdleThreads :
    /\ Fresh(t) => ~told[t]
    /\ Live(t) /\ ~told[t] =>
         /\ \E a \in Actors : pc[a] = "await"
         /\ ipc[t] \notin {"body", "done", "decide", "finish"}
         /\ ~Fresh(t) => ~done_happened
         /\ first[t] => prefix = "none"

\* my_cont follows idle_cont, which is set for a new thread only: while it is set, the
\* thread keeps the prefix it has set, and has sent DONE only to renew its IDLE.
ContInv ==
  \A t \in IdleThreads :
    /\ Fresh(t) => first[t]
    /\ ipc[t] \in {"try", "pass", "tell", "body", "done", "decide"} => my_cont[t]
    /\ ipc[t] \in {"after", "finish"} \/ (ipc[t] = "loop" /\ ~my_cont[t]) => ~cont
    /\ Live(t) /\ cont /\ (told[t] \/ ipc[t] = "tell" \/ ~first[t]) => prefix # "none"
    /\ Live(t) /\ cont /\ done_happened => Fresh(t) \/ renewed

\* What an idle thread has read and not processed comes with its DONE.
RespInv ==
  /\ \A t \in IdleThreads : ipc[t] \in {"none", "spawned", "begin"} => resp[t] = {}
  /\ thread # Nobody /\ ipc[thread] \notin {"done", "decide"} /\ ~done_happened =>
       resp[thread] = {}

\* Unless an IDLE was renewed: a server in IDLE has an idle thread that will send DONE,
\* and where DONE is still to be sent the server is in IDLE.
WireInv ==
  ~renewed =>
    /\ server = "idling" =>
         /\ prefix = "set" /\ ~kill /\ ~done_happened
         /\ thread # Nobody
         /\ ipc[thread] \in {"loop", "try", "pass", "tell", "body", "done"}
         /\ ~first[thread] /\ my_cont[thread]
    /\ prefix # "none" /\ ~kill =>
         /\ thread # Nobody /\ ~done_happened => server = "idling" \/ ipc[thread] = "decide"
         /\ \A t \in IdleThreads :
              /\ ipc[t] \in {"pass", "tell", "body", "done"} => server = "idling"
              /\ ipc[t] = "try" => server = "idling" \/ \E a \in Actors : pc[a] = "reap"

----------------------------------------------------------------------------
(* Each step keeps it.                                                     *)

\* Who stops an idle thread in place of Main has connect_lock: no idle thread has it.
LEMMA StopperHasConnection ==
  ASSUME Types, ConnectInv, NEW a \in Actors, a # Main, pc[a] \in Stopping,
         NEW t \in IdleThreads
  PROVE  ipc[t] \notin Holding /\ connect = a
<1>1. connect = a
  BY DEF ConnectInv, Actors
<1>2. a # t
  BY IdleAssumption
<1> QED BY <1>1, <1>2 DEF ConnectInv

\* One at a time is between joining an idle thread and creating the next.
LEMMA OneHasTLock ==
  ASSUME LocksInv, NEW a \in Actors, pc[a] \in HasTLock, NEW b \in Actors, b # a
  PROVE  pc[b] \notin HasTLock
BY DEF LocksInv

\* A step that stops no idle thread and starts none.
LEMMA StopFrame ==
  ASSUME StopInv, cont' => cont, kill' => kill \/ ~cont',
         \/ done_happened' => done_happened
         \/ \A a \in Actors : pc'[a] # "send",
         \/ UNCHANGED thread /\ resp'[thread] = resp[thread]
         \/ \A a \in Actors : pc'[a] # "reap",
         \A a \in Actors : pc'[a] \in {"send", "join", "reap"} => pc'[a] = pc[a]
  PROVE  StopInv'
BY DEF StopInv

LEMMA StopInvStep ==
  IdleInv /\ CountInv /\ QuietInv /\ StopInv /\ RespInv /\ [Next]_vars => StopInv'
<1> SUFFICES ASSUME IdleInv, CountInv, QuietInv, StopInv, RespInv, [Next]_vars
             PROVE  StopInv'
  OBVIOUS
<1>0. /\ Types /\ LocksInv /\ ConnectInv /\ ThreadInv
      /\ pc \in [Actors -> ActorPc] /\ ipc \in [IdleThreads -> IdlePc]
      /\ resp \in [IdleThreads \cup Actors -> SUBSET Line]
      /\ Main \in Actors /\ Closer \in Actors /\ Main # Closer
      /\ Workers \subseteq Actors /\ Main \notin Workers /\ Closer \notin Workers
      /\ Nobody \notin Actors /\ Nobody \notin IdleThreads
      /\ \A a \in Actors : a \notin IdleThreads
  BY IdleAssumption DEF IdleInv, Types, ActorTypes, ThreadTypes, RespTypes, Actors
<1>1. ASSUME NEW w \in Workers, Begin(w) PROVE StopInv'
  BY <1>1, <1>0, StopFrame DEF Begin, Go, lockVars, storeVars, confVars, threadVars,
     wireVars, history
<1>2. ASSUME NEW a \in Workers \cup {Closer}, Enter(a) PROVE StopInv'
  BY <1>2, <1>0, StopFrame DEF Enter, Go, Connect, storeVars, confVars, threadVars,
     wireVars, history
<1>3. ASSUME NEW a \in Workers \cup {Closer}, Load(a) PROVE StopInv'
  BY <1>3, <1>0, StopFrame DEF Load, Go, lockVars, storeVars, confVars, threadVars,
     wireVars, history
<1>4. ASSUME NEW a \in Workers \cup {Closer}, Store(a) PROVE StopInv'
  BY <1>4, <1>0, StopFrame DEF Store, Go, lockVars, storeVars, confVars, threadVars,
     wireVars, history
<1>5. ASSUME NEW a \in Actors, Stop(a) PROVE StopInv'
  BY <1>5, <1>0, StopFrame, StopTarget DEF Stop, Go, Stopped, SendDone, confVars,
     threadVars, wireVars
<1>6. ASSUME NEW a \in Actors, Lock(a) PROVE StopInv'

  <2>1. pc[a] = "lock" /\ UNCHANGED <<kill, thread, resp, done_happened>>
    BY <1>6 DEF Lock
  <2>2. CASE in_idle /\ thread # Nobody
    <3>1. ~cont' /\ \E to \in {"send", "join"} :
            pc' = [pc EXCEPT ![a] = to] /\ (to = "send" => a # Main /\ ~done_happened)
      BY <1>6, <2>2 DEF Lock, Go, SendsDone
    <3> QED BY <1>0, <2>1, <3>1 DEF StopInv
  <2>3. CASE ~(in_idle /\ thread # Nobody)
    <3>1. UNCHANGED cont /\ pc' = [pc EXCEPT ![a] = AfterStop(a)]
      BY <1>6, <2>3 DEF Lock, Stopped, Go
    <3> QED BY <1>0, <2>1, <3>1, StopFrame, StopTarget
  <2> QED BY <2>2, <2>3
<1>7. ASSUME NEW a \in Actors, Send(a) PROVE StopInv'

  <2>1. /\ pc[a] = "send" /\ pc' = [pc EXCEPT ![a] = "reap"]
        /\ UNCHANGED <<kill, cont, thread>>
    BY <1>7 DEF Send, Go
  <2>2. a # Main /\ ~done_happened /\ ~cont
    BY <2>1 DEF StopInv
  <2>3. thread \in IdleThreads
    BY <1>0, <2>1 DEF LocksInv, HasThread, Types, StoreTypes
  <2>4. ipc[thread] \notin Holding
    BY <1>0, <2>1, <2>2, <2>3, StopperHasConnection DEF Stopping
  <2>5. resp[thread] = {}
    BY <1>0, <2>2, <2>3, <2>4 DEF RespInv, Holding
  <2>6. resp'[thread] = resp[thread]
    BY <1>7, <1>0, <2>3 DEF Send, Gets, DoSendDone
  <2>7. \A b \in Actors : b # a => pc[b] \notin {"send", "join", "reap"}
    BY <1>0, <2>1, OneHasTLock DEF HasTLock
  <2> QED BY <1>0, <2>1, <2>2, <2>5, <2>6, <2>7 DEF StopInv
<1>8. ASSUME NEW a \in Actors, Join(a) PROVE StopInv'

  <2>1. /\ pc[a] \in {"join", "reap"} /\ pc' = [pc EXCEPT ![a] = "clear"]
        /\ UNCHANGED <<kill, cont, done_happened>>
    BY <1>8 DEF Join, Go, storeVars
  <2>2. \A b \in Actors : b # a => pc[b] # "reap"
    BY <1>0, <2>1, OneHasTLock DEF HasTLock
  <2> QED BY <1>0, <2>1, <2>2, StopFrame
<1>9. ASSUME NEW a \in Actors, Clear(a) PROVE StopInv'

  <2>1. /\ pc[a] \in {"clear"} /\ pc' = [pc EXCEPT ![a] = "forget"]
        /\ UNCHANGED <<kill, cont, done_happened>>
    BY <1>9 DEF Clear, Go, storeVars
  <2>2. \A b \in Actors : b # a => pc[b] # "reap"
    BY <1>0, <2>1, OneHasTLock DEF HasTLock
  <2> QED BY <1>0, <2>1, <2>2, StopFrame
<1>10. ASSUME NEW a \in Actors, Forget(a) PROVE StopInv'
  BY <1>10, <1>0, StopFrame, StopTarget DEF Forget, Go, Stopped, confVars, threadVars,
     wireVars, history
<1>11. ASSUME NEW w \in Workers, Write(w) PROVE StopInv'
  BY <1>11, <1>0, StopFrame DEF Write, Go, SendCommand, lockVars, storeVars,
     threadVars, wireVars
<1>12. ASSUME NEW a \in Workers \cup {Closer}, Unlock(a) PROVE StopInv'
  BY <1>12, <1>0, StopFrame DEF Unlock, Go, storeVars, confVars, threadVars, wireVars,
     history
<1>13. ASSUME NEW a \in Actors, Start(a) PROVE StopInv'
  BY <1>13, <1>0, StopFrame DEF Start, Go, Started, storeVars, confVars, threadVars,
     wireVars, history
<1>14. ASSUME NEW a \in Actors, Prefix(a) PROVE StopInv'
  BY <1>14, <1>0, StopFrame DEF Prefix, Go, Started, storeVars, confVars, threadVars,
     wireVars, history
<1>15. ASSUME NEW a \in Actors, Again(a) PROVE StopInv'
  BY <1>15, <1>0, StopFrame DEF Again, Go, confVars, threadVars, wireVars, history
<1>16. ASSUME NEW a \in Actors, Rejoin(a) PROVE StopInv'

  <2>1. /\ pc[a] \in {"rejoin"} /\ pc' = [pc EXCEPT ![a] = "create"]
        /\ UNCHANGED <<kill, cont, done_happened>>
    BY <1>16 DEF Rejoin, Go, storeVars
  <2>2. \A b \in Actors : b # a => pc[b] # "reap"
    BY <1>0, <2>1, OneHasTLock DEF HasTLock
  <2> QED BY <1>0, <2>1, <2>2, StopFrame
<1>17. ASSUME NEW a \in Actors, Create(a) PROVE StopInv'

  <2>1. /\ pc[a] = "create" /\ (kill' => kill) /\ (cont' => cont \/ ~kill')
        /\ \E to \in {"await", "unlock", "free"} : pc' = [pc EXCEPT ![a] = to]
    BY <1>17 DEF Create, Go, Started
  <2>2. \A b \in Actors : b # a => pc[b] \notin {"send", "join", "reap"}
    BY <1>0, <2>1, OneHasTLock DEF HasTLock
  <2> QED BY <1>0, <2>1, <2>2 DEF StopInv
<1>18. ASSUME NEW a \in Actors, Await(a) PROVE StopInv'
  BY <1>18, <1>0, StopFrame DEF Await, Go, Started, storeVars, confVars, threadVars,
     wireVars, history
<1>19. ASSUME NEW t \in IdleThreads, Spawned(t) PROVE StopInv'
  BY <1>19, <1>0, StopFrame DEF Spawned, IGo, lockVars, storeVars, confVars,
     actorVars, wireVars, history
<1>20. ASSUME NEW t \in IdleThreads, BeginIdle(t) PROVE StopInv'
  BY <1>20, <1>0, StopFrame DEF BeginIdle, IGo, Reset, lockVars, confVars, actorVars,
     wireVars, history
<1>21. ASSUME NEW t \in IdleThreads, Loop(t) PROVE StopInv'
  BY <1>21, <1>0, StopFrame DEF Loop, IGo, lockVars, storeVars, confVars, actorVars,
     wireVars, history
<1>22. ASSUME NEW t \in IdleThreads, Try(t) PROVE StopInv'
  BY <1>22, <1>0, StopFrame DEF Try, IGo, storeVars, confVars, actorVars, wireVars,
     history
<1>23. ASSUME NEW t \in IdleThreads, TryFails(t) PROVE StopInv'
  BY <1>23, <1>0, StopFrame DEF TryFails, IGo, lockVars, storeVars, confVars,
     actorVars, wireVars, history
<1>24. ASSUME NEW t \in IdleThreads, Pass(t) PROVE StopInv'
  BY <1>24, <1>0, StopFrame DEF Pass, IGo, lockVars, confVars, actorVars
<1>25. ASSUME NEW t \in IdleThreads, Tell(t) PROVE StopInv'
  BY <1>25, <1>0, StopFrame DEF Tell, IGo, TellCreator, lockVars, storeVars, confVars,
     actorVars, wireVars, history
<1>26. ASSUME NEW t \in IdleThreads, Body(t) PROVE StopInv'

  <2>1. UNCHANGED <<kill, cont, thread, pc>> /\ ipc[t] \in Holding
    BY <1>26 DEF Body, Holding, storeVars, actorVars
  <2>2. \A b \in Actors : pc[b] \notin {"send", "reap"}
    BY <1>0, <2>1, StopperHasConnection DEF StopInv, Stopping
  <2> QED BY <1>0, <2>1, <2>2, StopFrame
<1>27. ASSUME NEW t \in IdleThreads, Done(t) PROVE StopInv'

  <2>1. UNCHANGED <<kill, cont, thread, pc>> /\ ipc[t] \in Holding
    BY <1>27 DEF Done, Holding, storeVars, actorVars
  <2>2. \A b \in Actors : pc[b] \notin {"send", "reap"}
    BY <1>0, <2>1, StopperHasConnection DEF StopInv, Stopping
  <2> QED BY <1>0, <2>1, <2>2, StopFrame
<1>28. ASSUME NEW t \in IdleThreads, Decide(t) PROVE StopInv'

  <2>1. UNCHANGED <<kill, cont, thread, pc>> /\ ipc[t] \in Holding
    BY <1>28 DEF Decide, Holding, storeVars, actorVars
  <2>2. \A b \in Actors : pc[b] \notin {"send", "reap"}
    BY <1>0, <2>1, StopperHasConnection DEF StopInv, Stopping
  <2> QED BY <1>0, <2>1, <2>2, StopFrame
<1>29. ASSUME NEW t \in IdleThreads, After(t) PROVE StopInv'
  BY <1>29, <1>0, StopFrame DEF After, IGo, TellCreator, lockVars, storeVars,
     confVars, actorVars, wireVars, history
<1>30. ASSUME NEW t \in IdleThreads, Finish(t) PROVE StopInv'
  BY <1>30, <1>0, StopFrame DEF Finish, IGo, lockVars, confVars, actorVars, wireVars,
     history
<1>31. CASE StartIfUnlocked
  BY <1>31, <1>0, StopFrame DEF StartIfUnlocked, Go, storeVars, confVars, threadVars,
     wireVars, history
<1>32. CASE Close
  BY <1>32, <1>0, StopFrame DEF Close, Go, storeVars, confVars, threadVars, wireVars,
     history
<1>33. CASE LetIdleDie
  BY <1>33, <1>0, StopFrame DEF LetIdleDie, Go, SendDone, lockVars, confVars,
     threadVars, wireVars
<1>34. CASE Logout
  BY <1>34, <1>0, StopFrame DEF Logout, Go, SendCommand, lockVars, storeVars,
     confVars, threadVars
<1>35. CASE CloseStreams
  BY <1>35, <1>0, StopFrame DEF CloseStreams, Go, lockVars, storeVars, threadVars,
     history
<1>36. CASE Closed
  BY <1>36, <1>0, StopFrame DEF Closed, Go, storeVars, confVars, threadVars, wireVars,
     history
<1>37. ASSUME NEW b \in BOOLEAN, SetPush(b) PROVE StopInv'
  BY <1>37, <1>0, StopFrame DEF SetPush, Go, lockVars, storeVars, threadVars,
     wireVars, history
<1>38. ASSUME NEW b \in BOOLEAN, CanIdle(b) PROVE StopInv'
  BY <1>38, <1>0, StopFrame DEF CanIdle, Go, AfterCall, lockVars, storeVars,
     threadVars, wireVars, history
<1>39. ASSUME NEW l \in Line, Arrive(l) PROVE StopInv'
  BY <1>39, <1>0, StopFrame DEF Arrive, lockVars, storeVars, confVars, threadVars,
     actorVars, history
<1>40. CASE UNCHANGED vars
  BY <1>40, <1>0, StopFrame DEF vars, lockVars, storeVars, confVars, threadVars,
     actorVars, wireVars, history
<1> QED BY <1>1, <1>2, <1>3, <1>4, <1>5, <1>6, <1>7, <1>8, <1>9, <1>10, <1>11, <1>12,
      <1>13, <1>14, <1>15, <1>16, <1>17, <1>18, <1>19, <1>20, <1>21, <1>22, <1>23,
      <1>24, <1>25, <1>26, <1>27, <1>28, <1>29, <1>30, <1>31, <1>32, <1>33, <1>34,
      <1>35, <1>36, <1>37, <1>38, <1>39, <1>40 DEF Next, WorkerStep, MainStep,
      CloserStep, IdleStep, ActorStep, StopStep, StartStep, LockStep, Actors

\* A step that leaves nobody between joining and creating who was not there before.
LEMMA BareFrame ==
  ASSUME BareInv, prefix = "none" => prefix' = "none",
         \A t \in IdleThreads : Live(t)' => Live(t),
         \A a \in Actors : pc'[a] = "forget" => pc[a] = "forget",
         \A a \in Actors : Bare(a)' => Bare(a) \/ prefix' = "none"
  PROVE  BareInv'
BY DEF BareInv

LEMMA BareInvStep ==
  IdleInv /\ CountInv /\ QuietInv /\ BareInv /\ TellInv /\ ContInv /\ [Next]_vars => BareInv'
<1> SUFFICES ASSUME IdleInv, CountInv, QuietInv, BareInv, TellInv, ContInv, [Next]_vars
             PROVE  BareInv'
  OBVIOUS
<1>0. /\ Types /\ LocksInv /\ ConnectInv /\ ThreadInv
      /\ pc \in [Actors -> ActorPc] /\ ipc \in [IdleThreads -> IdlePc]
      /\ resp \in [IdleThreads \cup Actors -> SUBSET Line]
      /\ Main \in Actors /\ Closer \in Actors /\ Main # Closer
      /\ Workers \subseteq Actors /\ Main \notin Workers /\ Closer \notin Workers
      /\ Nobody \notin Actors /\ Nobody \notin IdleThreads
      /\ \A a \in Actors : a \notin IdleThreads
  BY IdleAssumption DEF IdleInv, Types, ActorTypes, ThreadTypes, RespTypes, Actors
<1>1. ASSUME NEW w \in Workers, Begin(w) PROVE BareInv'
  BY <1>1, <1>0, BareFrame DEF Begin, Go, lockVars, storeVars, confVars, threadVars,
     wireVars, history, Live, Bare
<1>2. ASSUME NEW a \in Workers \cup {Closer}, Enter(a) PROVE BareInv'
  BY <1>2, <1>0, BareFrame DEF Enter, Go, Connect, storeVars, confVars, threadVars,
     wireVars, history, Live, Bare
<1>3. ASSUME NEW a \in Workers \cup {Closer}, Load(a) PROVE BareInv'
  BY <1>3, <1>0, BareFrame DEF Load, Go, lockVars, storeVars, confVars, threadVars,
     wireVars, history, Live, Bare
<1>4. ASSUME NEW a \in Workers \cup {Closer}, Store(a) PROVE BareInv'
  BY <1>4, <1>0, BareFrame DEF Store, Go, lockVars, storeVars, confVars, threadVars,
     wireVars, history, Live, Bare
<1>5. ASSUME NEW a \in Actors, Stop(a) PROVE BareInv'

  <2>1. UNCHANGED ipc /\ pc[a] = "stop" /\ (prefix' = prefix \/ prefix' = "none")
    BY <1>5 DEF Stop, threadVars
  <2>2. \/ pc' = [pc EXCEPT ![a] = "lock"] \/ pc' = [pc EXCEPT ![a] = "free"]
        \/ prefix' = "none" /\ pc' = [pc EXCEPT ![a] = AfterStop(a)]
    BY <1>5, <1>0 DEF Stop, Stopped, Go, Types, StoreTypes
  <2> QED BY <1>0, <2>1, <2>2, StopTarget, BareFrame DEF Live, Bare
<1>6. ASSUME NEW a \in Actors, Lock(a) PROVE BareInv'
  BY <1>6, <1>0, BareFrame, StopTarget DEF Lock, Go, Stopped, SendsDone, confVars,
     threadVars, wireVars, history, Live, Bare
<1>7. ASSUME NEW a \in Actors, Send(a) PROVE BareInv'
  BY <1>7, <1>0, BareFrame DEF Send, Go, Gets, DoSendDone, SendDone, lockVars,
     confVars, threadVars, Live, Bare
<1>8. ASSUME NEW a \in Actors, Join(a) PROVE BareInv'
  BY <1>8, <1>0, BareFrame DEF Join, Go, IGo, Gets, lockVars, storeVars, confVars,
     wireVars, Live, Bare
<1>9. ASSUME NEW a \in Actors, Clear(a) PROVE BareInv'

  <2>1. /\ pc[a] = "clear" /\ pc' = [pc EXCEPT ![a] = "forget"] /\ UNCHANGED ipc
        /\ (prefix = "none" => prefix' = "none")
    BY <1>9 DEF Clear, Go, threadVars
  <2>2. \A t \in IdleThreads : ~Live(t)'
    BY <1>0, <2>1 DEF ThreadInv, Live
  <2> QED BY <1>0, <2>1, <2>2 DEF BareInv, Bare
<1>10. ASSUME NEW a \in Actors, Forget(a) PROVE BareInv'
  BY <1>10, <1>0, BareFrame, StopTarget DEF Forget, Go, Stopped, confVars, threadVars,
     wireVars, history, Live, Bare
<1>11. ASSUME NEW w \in Workers, Write(w) PROVE BareInv'
  BY <1>11, <1>0, BareFrame DEF Write, Go, SendCommand, lockVars, storeVars,
     threadVars, wireVars, Live, Bare
<1>12. ASSUME NEW a \in Workers \cup {Closer}, Unlock(a) PROVE BareInv'
  BY <1>12, <1>0, BareFrame DEF Unlock, Go, storeVars, confVars, threadVars, wireVars,
     history, Live, Bare
<1>13. ASSUME NEW a \in Actors, Start(a) PROVE BareInv'

  <2>1. connect # a
    BY <1>0, <1>13, StarterIsAlone DEF Start, Starting
  <2>2. UNCHANGED <<prefix, ipc>> /\ pc[a] = "start"
    BY <1>13 DEF Start, storeVars, threadVars
  <2>3. \/ pc' = [pc EXCEPT ![a] = "free"] \/ pc' = [pc EXCEPT ![a] = "prefix"]
        \/ pc' = [pc EXCEPT ![a] = "again"] /\ prefix = "none"
    BY <1>13, <2>1 DEF Start, Started, Go
  <2> QED BY <1>0, <2>2, <2>3, BareFrame DEF Live, Bare
<1>14. ASSUME NEW a \in Actors, Prefix(a) PROVE BareInv'

  <2>1. connect # a
    BY <1>0, <1>14, StarterIsAlone DEF Prefix, Starting
  <2>2. UNCHANGED <<prefix, ipc>> /\ pc[a] = "prefix"
    BY <1>14 DEF Prefix, storeVars, threadVars
  <2>3. \/ pc' = [pc EXCEPT ![a] = "free"] \/ pc' = [pc EXCEPT ![a] = "prefix"]
        \/ pc' = [pc EXCEPT ![a] = "again"] /\ prefix = "none"
    BY <1>14, <2>1 DEF Prefix, Started, Go
  <2> QED BY <1>0, <2>2, <2>3, BareFrame DEF Live, Bare
<1>15. ASSUME NEW a \in Actors, Again(a) PROVE BareInv'
  BY <1>15, <1>0, BareFrame DEF Again, Go, confVars, threadVars, wireVars, history,
     Live, Bare
<1>16. ASSUME NEW a \in Actors, Rejoin(a) PROVE BareInv'

  <2>1. thread \in IdleThreads
    BY <1>0, <1>16 DEF Rejoin, LocksInv, HasThread, Types, StoreTypes
  <2>2. /\ ipc' = [ipc EXCEPT ![thread] = "none"] /\ UNCHANGED prefix
        /\ pc[a] = "rejoin" /\ pc' = [pc EXCEPT ![a] = "create"]
    BY <1>16 DEF Rejoin, IGo, Go
  <2> QED BY <1>0, <2>1, <2>2, BareFrame DEF Live, Bare
<1>17. ASSUME NEW a \in Actors, Create(a) PROVE BareInv'

  <2>1. pc[a] = "create" /\ connect # a /\ UNCHANGED prefix
    BY <1>0, <1>17, StarterIsAlone DEF Create, Starting
  <2>2. pc' = [pc EXCEPT ![a] = "await"] \/ pc' = [pc EXCEPT ![a] = "free"]
    BY <1>17, <2>1 DEF Create, Go, Started
  <2>3. \A b \in Actors : pc'[b] # "forget"
    BY <1>0, <2>1, <2>2, OneHasTLock DEF HasTLock
  <2> QED BY <1>0, <2>1, <2>2, <2>3 DEF BareInv, Bare
<1>18. ASSUME NEW a \in Actors, Await(a) PROVE BareInv'

  <2>1. connect # a
    BY <1>0, <1>18, StarterIsAlone DEF Await, Starting
  <2>2. UNCHANGED <<prefix, ipc>> /\ pc[a] = "await"
    BY <1>18 DEF Await, storeVars, threadVars
  <2>3. \/ pc' = [pc EXCEPT ![a] = "free"] \/ pc' = [pc EXCEPT ![a] = "prefix"]
        \/ pc' = [pc EXCEPT ![a] = "again"] /\ prefix = "none"
    BY <1>18, <2>1 DEF Await, Started, Go
  <2> QED BY <1>0, <2>2, <2>3, BareFrame DEF Live, Bare
<1>19. ASSUME NEW t \in IdleThreads, Spawned(t) PROVE BareInv'
  BY <1>19, <1>0, BareFrame DEF Spawned, IGo, lockVars, storeVars, confVars,
     actorVars, wireVars, history, Live, Bare
<1>20. ASSUME NEW t \in IdleThreads, BeginIdle(t) PROVE BareInv'
  BY <1>20, <1>0, BareFrame DEF BeginIdle, IGo, Reset, lockVars, confVars, actorVars,
     wireVars, history, Live, Bare
<1>21. ASSUME NEW t \in IdleThreads, Loop(t) PROVE BareInv'
  BY <1>21, <1>0, BareFrame DEF Loop, IGo, lockVars, storeVars, confVars, actorVars,
     wireVars, history, Live, Bare
<1>22. ASSUME NEW t \in IdleThreads, Try(t) PROVE BareInv'
  BY <1>22, <1>0, BareFrame DEF Try, IGo, storeVars, confVars, actorVars, wireVars,
     history, Live, Bare
<1>23. ASSUME NEW t \in IdleThreads, TryFails(t) PROVE BareInv'
  BY <1>23, <1>0, BareFrame DEF TryFails, IGo, lockVars, storeVars, confVars,
     actorVars, wireVars, history, Live, Bare
<1>24. ASSUME NEW t \in IdleThreads, Pass(t) PROVE BareInv'

  <2>1. ipc[t] = "pass" /\ ipc' = [ipc EXCEPT ![t] = "tell"] /\ UNCHANGED pc
    BY <1>24 DEF Pass, IGo, actorVars
  <2>2. CASE cont /\ first[t] /\ prefix = "none"
    <3>1. ASSUME NEW a \in Actors, pc[a] \in {"again", "rejoin", "create"} PROVE FALSE
      <4>1. ~told[t]
        BY <2>1, <2>2 DEF ContInv, Live
      <4>2. PICK b \in Actors : pc[b] = "await"
        BY <2>1, <4>1 DEF TellInv, Live
      <4>3. idle_lock = a /\ idle_lock = b
        BY <1>0, <3>1, <4>2 DEF LocksInv, HasIdleLock
      <4> QED BY <3>1, <4>2, <4>3
    <3>2. ASSUME NEW a \in Actors, Bare(a), pc[a] \notin {"again", "rejoin", "create"}
          PROVE FALSE
      <4>1. a # Main
        BY <1>0, <3>2 DEF ConnectInv, Stopping, Starting, Bare
      <4> QED BY <2>1, <3>2, <4>1 DEF QuietInv, InArea, Live, Bare
    <3> QED BY <2>1, <3>1, <3>2 DEF BareInv, Bare, Live
  <2>3. CASE ~(cont /\ first[t] /\ prefix = "none")
    <3>1. prefix = "none" => prefix' = "none"
      BY <1>24, <2>3 DEF Pass
    <3> QED BY <1>0, <2>1, <3>1, BareFrame DEF Live, Bare
  <2> QED BY <2>2, <2>3
<1>25. ASSUME NEW t \in IdleThreads, Tell(t) PROVE BareInv'
  BY <1>25, <1>0, BareFrame DEF Tell, IGo, TellCreator, lockVars, storeVars, confVars,
     actorVars, wireVars, history, Live, Bare
<1>26. ASSUME NEW t \in IdleThreads, Body(t) PROVE BareInv'
  BY <1>26, <1>0, BareFrame DEF Body, IGo, Gets, storeVars, confVars, actorVars,
     history, Live, Bare
<1>27. ASSUME NEW t \in IdleThreads, Done(t) PROVE BareInv'
  BY <1>27, <1>0, BareFrame DEF Done, IGo, DoSendDone, SendDone, Gets, lockVars,
     storeVars, confVars, actorVars, Live, Bare
<1>28. ASSUME NEW t \in IdleThreads, Decide(t) PROVE BareInv'
  BY <1>28, <1>0, BareFrame DEF Decide, IGo, Gets, confVars, actorVars, wireVars,
     Live, Bare
<1>29. ASSUME NEW t \in IdleThreads, After(t) PROVE BareInv'
  BY <1>29, <1>0, BareFrame DEF After, IGo, TellCreator, lockVars, storeVars,
     confVars, actorVars, wireVars, history, Live, Bare
<1>30. ASSUME NEW t \in IdleThreads, Finish(t) PROVE BareInv'
  BY <1>30, <1>0, BareFrame DEF Finish, IGo, lockVars, confVars, actorVars, wireVars,
     history, Live, Bare
<1>31. CASE StartIfUnlocked
  BY <1>31, <1>0, BareFrame DEF StartIfUnlocked, Go, storeVars, confVars, threadVars,
     wireVars, history, Live, Bare
<1>32. CASE Close
  BY <1>32, <1>0, BareFrame DEF Close, Go, storeVars, confVars, threadVars, wireVars,
     history, Live, Bare
<1>33. CASE LetIdleDie
  BY <1>33, <1>0, BareFrame DEF LetIdleDie, Go, SendDone, lockVars, confVars,
     threadVars, wireVars, Live, Bare
<1>34. CASE Logout
  BY <1>34, <1>0, BareFrame DEF Logout, Go, SendCommand, lockVars, storeVars,
     confVars, threadVars, Live, Bare
<1>35. CASE CloseStreams
  BY <1>35, <1>0, BareFrame DEF CloseStreams, Go, lockVars, storeVars, threadVars,
     history, Live, Bare
<1>36. CASE Closed
  BY <1>36, <1>0, BareFrame DEF Closed, Go, storeVars, confVars, threadVars, wireVars,
     history, Live, Bare
<1>37. ASSUME NEW b \in BOOLEAN, SetPush(b) PROVE BareInv'
  BY <1>37, <1>0, BareFrame DEF SetPush, Go, lockVars, storeVars, threadVars,
     wireVars, history, Live, Bare
<1>38. ASSUME NEW b \in BOOLEAN, CanIdle(b) PROVE BareInv'
  BY <1>38, <1>0, BareFrame DEF CanIdle, Go, AfterCall, lockVars, storeVars,
     threadVars, wireVars, history, Live, Bare
<1>39. ASSUME NEW l \in Line, Arrive(l) PROVE BareInv'
  BY <1>39, <1>0, BareFrame DEF Arrive, lockVars, storeVars, confVars, threadVars,
     actorVars, history, Live, Bare
<1>40. CASE UNCHANGED vars
  BY <1>40, <1>0, BareFrame DEF vars, lockVars, storeVars, confVars, threadVars,
     actorVars, wireVars, history, Live, Bare
<1> QED BY <1>1, <1>2, <1>3, <1>4, <1>5, <1>6, <1>7, <1>8, <1>9, <1>10, <1>11, <1>12,
      <1>13, <1>14, <1>15, <1>16, <1>17, <1>18, <1>19, <1>20, <1>21, <1>22, <1>23,
      <1>24, <1>25, <1>26, <1>27, <1>28, <1>29, <1>30, <1>31, <1>32, <1>33, <1>34,
      <1>35, <1>36, <1>37, <1>38, <1>39, <1>40 DEF Next, WorkerStep, MainStep,
      CloserStep, IdleStep, ActorStep, StopStep, StartStep, LockStep, Actors

\* A step that leaves the idle threads alone, or ends one.
LEMMA TellFrame ==
  ASSUME TellInv, UNCHANGED <<told, first>>, prefix = "none" => prefix' = "none",
         done_happened' => done_happened,
         \A t \in IdleThreads : ipc'[t] = ipc[t] \/ ~Live(t)',
         \A a \in Actors : pc[a] = "await" => pc'[a] = "await"
  PROVE  TellInv'
BY DEF TellInv, Live, Fresh

\* A step of the idle thread that lives.
LEMMA TellOneStep ==
  ASSUME Types, ThreadInv, TellInv, NEW t \in IdleThreads, Live(t), NEW to,
         ipc' = [ipc EXCEPT ![t] = to],
         \A u \in IdleThreads : u # t => told'[u] = told[u],
         to \in {"spawned", "begin"} => ~told'[t],
         to \in {"none", "ended"} \/ told'[t] \/
           /\ \E a \in Actors : pc'[a] = "await"
           /\ to \notin {"body", "done", "decide", "finish"}
           /\ to \notin {"spawned", "begin"} => ~done_happened'
           /\ first'[t] => prefix' = "none"
  PROVE  TellInv'
<1>1. ipc \in [IdleThreads -> IdlePc]
  BY DEF Types, ThreadTypes
<1>2. \A u \in IdleThreads : u # t => ~Live(u)
  BY DEF ThreadInv, OneIdleThread
<1>3. \A u \in IdleThreads : u # t => ~Live(u)' /\ ~Fresh(u)'
  BY <1>1, <1>2 DEF Live, Fresh
<1> QED BY <1>1, <1>3 DEF TellInv, Live, Fresh

LEMMA TellInvStep ==
  IdleInv /\ StopInv /\ BareInv /\ TellInv /\ [Next]_vars => TellInv'
<1> SUFFICES ASSUME IdleInv, StopInv, BareInv, TellInv, [Next]_vars
             PROVE  TellInv'
  OBVIOUS
<1>0. /\ Types /\ LocksInv /\ ConnectInv /\ ThreadInv
      /\ pc \in [Actors -> ActorPc] /\ ipc \in [IdleThreads -> IdlePc]
      /\ told \in [IdleThreads -> BOOLEAN] /\ first \in [IdleThreads -> BOOLEAN]
      /\ resp \in [IdleThreads \cup Actors -> SUBSET Line]
      /\ Main \in Actors /\ Closer \in Actors /\ Main # Closer
      /\ Workers \subseteq Actors /\ Main \notin Workers /\ Closer \notin Workers
      /\ Nobody \notin Actors /\ Nobody \notin IdleThreads
      /\ \A a \in Actors : a \notin IdleThreads
  BY IdleAssumption DEF IdleInv, Types, ActorTypes, ThreadTypes, RespTypes, Actors
<1>1. ASSUME NEW w \in Workers, Begin(w) PROVE TellInv'
  BY <1>1, <1>0, TellFrame DEF Begin, Go, lockVars, storeVars, confVars, threadVars,
     wireVars, history, Live
<1>2. ASSUME NEW a \in Workers \cup {Closer}, Enter(a) PROVE TellInv'
  BY <1>2, <1>0, TellFrame DEF Enter, Go, Connect, storeVars, confVars, threadVars,
     wireVars, history, Live
<1>3. ASSUME NEW a \in Workers \cup {Closer}, Load(a) PROVE TellInv'
  BY <1>3, <1>0, TellFrame DEF Load, Go, lockVars, storeVars, confVars, threadVars,
     wireVars, history, Live
<1>4. ASSUME NEW a \in Workers \cup {Closer}, Store(a) PROVE TellInv'
  BY <1>4, <1>0, TellFrame DEF Store, Go, lockVars, storeVars, confVars, threadVars,
     wireVars, history, Live
<1>5. ASSUME NEW a \in Actors, Stop(a) PROVE TellInv'
  BY <1>5, <1>0, TellFrame, StopTarget DEF Stop, Go, Stopped, SendDone, confVars,
     threadVars, wireVars, Live
<1>6. ASSUME NEW a \in Actors, Lock(a) PROVE TellInv'
  BY <1>6, <1>0, TellFrame, StopTarget DEF Lock, Go, Stopped, SendsDone, confVars,
     threadVars, wireVars, history, Live
<1>7. ASSUME NEW a \in Actors, Send(a) PROVE TellInv'

  <2>1. pc[a] = "send" /\ pc' = [pc EXCEPT ![a] = "reap"] /\ UNCHANGED <<ipc, told, first, prefix>>
    BY <1>7 DEF Send, Go, threadVars
  <2>2. \A b \in Actors : pc[b] # "await"
    BY <1>0, <2>1, OneHasTLock DEF HasTLock
  <2>3. \A t \in IdleThreads : Live(t) => told[t]
    BY <2>2 DEF TellInv
  <2> QED BY <1>0, <2>1, <2>3 DEF TellInv, Live, Fresh
<1>8. ASSUME NEW a \in Actors, Join(a) PROVE TellInv'

  <2>1. thread \in IdleThreads
    BY <1>0, <1>8 DEF Join, LocksInv, HasThread, Types, StoreTypes
  <2>2. /\ ipc' = [ipc EXCEPT ![thread] = "none"] /\ UNCHANGED <<prefix, told, first, done_happened>>
        /\ pc[a] # "await" /\ pc' = [pc EXCEPT ![a] = "clear"]
    BY <1>8 DEF Join, IGo, Go, storeVars
  <2> QED BY <1>0, <2>1, <2>2, TellFrame DEF Live
<1>9. ASSUME NEW a \in Actors, Clear(a) PROVE TellInv'
  BY <1>9, <1>0, TellFrame DEF Clear, Go, Gets, lockVars, confVars, threadVars,
     wireVars, history, Live
<1>10. ASSUME NEW a \in Actors, Forget(a) PROVE TellInv'
  BY <1>10, <1>0, TellFrame, StopTarget DEF Forget, Go, Stopped, confVars, threadVars,
     wireVars, history, Live
<1>11. ASSUME NEW w \in Workers, Write(w) PROVE TellInv'
  BY <1>11, <1>0, TellFrame DEF Write, Go, SendCommand, lockVars, storeVars,
     threadVars, wireVars, Live
<1>12. ASSUME NEW a \in Workers \cup {Closer}, Unlock(a) PROVE TellInv'
  BY <1>12, <1>0, TellFrame DEF Unlock, Go, storeVars, confVars, threadVars, wireVars,
     history, Live
<1>13. ASSUME NEW a \in Actors, Start(a) PROVE TellInv'
  BY <1>13, <1>0, TellFrame DEF Start, Go, Started, storeVars, confVars, threadVars,
     wireVars, history, Live
<1>14. ASSUME NEW a \in Actors, Prefix(a) PROVE TellInv'
  BY <1>14, <1>0, TellFrame DEF Prefix, Go, Started, storeVars, confVars, threadVars,
     wireVars, history, Live
<1>15. ASSUME NEW a \in Actors, Again(a) PROVE TellInv'
  BY <1>15, <1>0, TellFrame DEF Again, Go, confVars, threadVars, wireVars, history,
     Live
<1>16. ASSUME NEW a \in Actors, Rejoin(a) PROVE TellInv'

  <2>1. thread \in IdleThreads
    BY <1>0, <1>16 DEF Rejoin, LocksInv, HasThread, Types, StoreTypes
  <2>2. /\ ipc' = [ipc EXCEPT ![thread] = "none"] /\ UNCHANGED <<prefix, told, first, done_happened>>
        /\ pc[a] # "await" /\ pc' = [pc EXCEPT ![a] = "create"]
    BY <1>16 DEF Rejoin, IGo, Go
  <2> QED BY <1>0, <2>1, <2>2, TellFrame DEF Live
<1>17. ASSUME NEW a \in Actors, Create(a) PROVE TellInv'

  <2>1. /\ pc[a] = "create" /\ prefix = "none" /\ UNCHANGED <<prefix, done_happened>>
    BY <1>17 DEF Create, BareInv, Bare
  <2>2. CASE pc' = [pc EXCEPT ![a] = "await"] /\ ~in_idle
    <3>1. PICK t \in IdleThreads :
            /\ ipc' = [ipc EXCEPT ![t] = "spawned"] /\ told' = [told EXCEPT ![t] = FALSE]
      BY <1>17, <1>0, <2>2 DEF Create, IGo, Go, Types, StoreTypes
    <3>2. \A u \in IdleThreads : u # t => ~Live(u)
      BY <1>0, <2>1, <2>2 DEF ThreadInv
    <3>3. pc'[a] = "await" /\ ~told'[t] /\ ipc'[t] = "spawned"
      BY <1>0, <2>2, <3>1
    <3>4. \A u \in IdleThreads : u # t => ~Live(u)' /\ ~Fresh(u)'
      BY <1>0, <3>1, <3>2 DEF Live, Fresh
    <3> QED BY <1>0, <2>1, <3>3, <3>4 DEF TellInv, Live, Fresh
  <2>3. CASE pc' # [pc EXCEPT ![a] = "await"] \/ in_idle
    <3>1. UNCHANGED <<ipc, told, first>>
      BY <1>17, <2>3 DEF Create, Go, MayCreate
    <3>2. \E to : pc' = [pc EXCEPT ![a] = to]
      BY <1>17 DEF Create, Go, Started
    <3> QED BY <1>0, <2>1, <3>1, <3>2, TellFrame DEF Live
  <2> QED BY <2>2, <2>3
<1>18. ASSUME NEW a \in Actors, Await(a) PROVE TellInv'

  <2>1. told[thread] /\ UNCHANGED <<ipc, told, first>>
    BY <1>18 DEF Await, threadVars
  <2>2. \A t \in IdleThreads : Live(t) => told[t]
    BY <1>0, <2>1 DEF ThreadInv, OneIdleThread
  <2> QED BY <1>0, <2>1, <2>2 DEF TellInv, Live, Fresh
<1>19. ASSUME NEW t \in IdleThreads, Spawned(t) PROVE TellInv'

  <2>1. Live(t) /\ UNCHANGED pc
    BY <1>19 DEF Spawned, Live, actorVars
  <2>2. PICK to : ipc' = [ipc EXCEPT ![t] = to]
    BY <1>19 DEF Spawned, IGo
  <2> QED BY <1>19, <1>0, <2>1, <2>2, TellOneStep DEF Spawned, IGo, Reset, TellCreator,
        storeVars, TellInv, Live, Fresh
<1>20. ASSUME NEW t \in IdleThreads, BeginIdle(t) PROVE TellInv'

  <2>1. Live(t) /\ UNCHANGED pc
    BY <1>20 DEF BeginIdle, Live, actorVars
  <2>2. PICK to : ipc' = [ipc EXCEPT ![t] = to]
    BY <1>20 DEF BeginIdle, IGo
  <2> QED BY <1>20, <1>0, <2>1, <2>2, TellOneStep DEF BeginIdle, IGo, Reset,
        TellCreator, storeVars, TellInv, Live, Fresh
<1>21. ASSUME NEW t \in IdleThreads, Loop(t) PROVE TellInv'

  <2>1. Live(t) /\ UNCHANGED pc
    BY <1>21 DEF Loop, Live, actorVars
  <2>2. PICK to : ipc' = [ipc EXCEPT ![t] = to]
    BY <1>21 DEF Loop, IGo
  <2> QED BY <1>21, <1>0, <2>1, <2>2, TellOneStep DEF Loop, IGo, Reset, TellCreator,
        storeVars, TellInv, Live, Fresh
<1>22. ASSUME NEW t \in IdleThreads, Try(t) PROVE TellInv'

  <2>1. Live(t) /\ UNCHANGED pc
    BY <1>22 DEF Try, Live, actorVars
  <2>2. PICK to : ipc' = [ipc EXCEPT ![t] = to]
    BY <1>22 DEF Try, IGo
  <2> QED BY <1>22, <1>0, <2>1, <2>2, TellOneStep DEF Try, IGo, Reset, TellCreator,
        storeVars, TellInv, Live, Fresh
<1>23. ASSUME NEW t \in IdleThreads, TryFails(t) PROVE TellInv'

  <2>1. Live(t) /\ UNCHANGED pc
    BY <1>23 DEF TryFails, Live, actorVars
  <2>2. PICK to : ipc' = [ipc EXCEPT ![t] = to]
    BY <1>23 DEF TryFails, IGo
  <2> QED BY <1>23, <1>0, <2>1, <2>2, TellOneStep DEF TryFails, IGo, Reset,
        TellCreator, storeVars, TellInv, Live, Fresh
<1>24. ASSUME NEW t \in IdleThreads, Pass(t) PROVE TellInv'

  <2>1. Live(t) /\ UNCHANGED <<pc, told, done_happened>> /\ ipc[t] = "pass"
        /\ ipc' = [ipc EXCEPT ![t] = "tell"]
    BY <1>24 DEF Pass, IGo, Live, actorVars
  <2>2. first'[t] => first[t] /\ prefix' = prefix
    BY <1>24, <1>0 DEF Pass
  <2> QED BY <1>0, <2>1, <2>2, TellOneStep DEF TellInv, Live, Fresh
<1>25. ASSUME NEW t \in IdleThreads, Tell(t) PROVE TellInv'

  <2>1. Live(t) /\ UNCHANGED pc
    BY <1>25 DEF Tell, Live, actorVars
  <2>2. PICK to : ipc' = [ipc EXCEPT ![t] = to]
    BY <1>25 DEF Tell, IGo
  <2> QED BY <1>25, <1>0, <2>1, <2>2, TellOneStep DEF Tell, IGo, Reset, TellCreator,
        storeVars, TellInv, Live, Fresh
<1>26. ASSUME NEW t \in IdleThreads, Body(t) PROVE TellInv'

  <2>1. Live(t) /\ UNCHANGED pc
    BY <1>26 DEF Body, Live, actorVars
  <2>2. PICK to : ipc' = [ipc EXCEPT ![t] = to]
    BY <1>26 DEF Body, IGo
  <2> QED BY <1>26, <1>0, <2>1, <2>2, TellOneStep DEF Body, IGo, Reset, TellCreator,
        storeVars, TellInv, Live, Fresh
<1>27. ASSUME NEW t \in IdleThreads, Done(t) PROVE TellInv'

  <2>1. Live(t) /\ UNCHANGED pc
    BY <1>27 DEF Done, Live, actorVars
  <2>2. PICK to : ipc' = [ipc EXCEPT ![t] = to]
    BY <1>27 DEF Done, IGo
  <2> QED BY <1>27, <1>0, <2>1, <2>2, TellOneStep DEF Done, IGo, Reset, TellCreator,
        storeVars, TellInv, Live, Fresh
<1>28. ASSUME NEW t \in IdleThreads, Decide(t) PROVE TellInv'

  <2>1. Live(t) /\ UNCHANGED <<pc, told>> /\ ipc[t] = "decide"
        /\ ipc' = [ipc EXCEPT ![t] = "loop"]
    BY <1>28 DEF Decide, IGo, Live, actorVars
  <2>2. told[t]
    BY <2>1 DEF TellInv, Live
  <2> QED BY <1>0, <2>1, <2>2, TellOneStep
<1>29. ASSUME NEW t \in IdleThreads, After(t) PROVE TellInv'

  <2>1. Live(t) /\ UNCHANGED pc
    BY <1>29 DEF After, Live, actorVars
  <2>2. PICK to : ipc' = [ipc EXCEPT ![t] = to]
    BY <1>29 DEF After, IGo
  <2> QED BY <1>29, <1>0, <2>1, <2>2, TellOneStep DEF After, IGo, Reset, TellCreator,
        storeVars, TellInv, Live, Fresh
<1>30. ASSUME NEW t \in IdleThreads, Finish(t) PROVE TellInv'

  <2>1. Live(t) /\ UNCHANGED pc
    BY <1>30 DEF Finish, Live, actorVars
  <2>2. PICK to : ipc' = [ipc EXCEPT ![t] = to]
    BY <1>30 DEF Finish, IGo
  <2> QED BY <1>30, <1>0, <2>1, <2>2, TellOneStep DEF Finish, IGo, Reset, TellCreator,
        storeVars, TellInv, Live, Fresh
<1>31. CASE StartIfUnlocked
  BY <1>31, <1>0, TellFrame DEF StartIfUnlocked, Go, storeVars, confVars, threadVars,
     wireVars, history, Live
<1>32. CASE Close
  BY <1>32, <1>0, TellFrame DEF Close, Go, storeVars, confVars, threadVars, wireVars,
     history, Live
<1>33. CASE LetIdleDie
  BY <1>33, <1>0, TellFrame DEF LetIdleDie, Go, SendDone, lockVars, confVars,
     threadVars, wireVars, Live
<1>34. CASE Logout
  BY <1>34, <1>0, TellFrame DEF Logout, Go, SendCommand, lockVars, storeVars,
     confVars, threadVars, Live
<1>35. CASE CloseStreams
  BY <1>35, <1>0, TellFrame DEF CloseStreams, Go, lockVars, storeVars, threadVars,
     history, Live
<1>36. CASE Closed
  BY <1>36, <1>0, TellFrame DEF Closed, Go, storeVars, confVars, threadVars, wireVars,
     history, Live
<1>37. ASSUME NEW b \in BOOLEAN, SetPush(b) PROVE TellInv'
  BY <1>37, <1>0, TellFrame DEF SetPush, Go, lockVars, storeVars, threadVars,
     wireVars, history, Live
<1>38. ASSUME NEW b \in BOOLEAN, CanIdle(b) PROVE TellInv'
  BY <1>38, <1>0, TellFrame DEF CanIdle, Go, AfterCall, lockVars, storeVars,
     threadVars, wireVars, history, Live
<1>39. ASSUME NEW l \in Line, Arrive(l) PROVE TellInv'
  BY <1>39, <1>0, TellFrame DEF Arrive, lockVars, storeVars, confVars, threadVars,
     actorVars, history, Live
<1>40. CASE UNCHANGED vars
  BY <1>40, <1>0, TellFrame DEF vars, lockVars, storeVars, confVars, threadVars,
     actorVars, wireVars, history, Live
<1> QED BY <1>1, <1>2, <1>3, <1>4, <1>5, <1>6, <1>7, <1>8, <1>9, <1>10, <1>11, <1>12,
      <1>13, <1>14, <1>15, <1>16, <1>17, <1>18, <1>19, <1>20, <1>21, <1>22, <1>23,
      <1>24, <1>25, <1>26, <1>27, <1>28, <1>29, <1>30, <1>31, <1>32, <1>33, <1>34,
      <1>35, <1>36, <1>37, <1>38, <1>39, <1>40 DEF Next, WorkerStep, MainStep,
      CloserStep, IdleStep, ActorStep, StopStep, StartStep, LockStep, Actors

\* The same for what idle_cont says.
LEMMA ContFrame ==
  ASSUME ContInv, UNCHANGED <<told, first, my_cont, renewed>>, cont' => cont,
         prefix' = "none" => prefix = "none" \/ ~cont' \/ \A t \in IdleThreads : ~Live(t),
         done_happened' => done_happened \/ ~cont',
         \A t \in IdleThreads : ipc'[t] = ipc[t] \/ ipc'[t] \in {"none", "ended"}
  PROVE  ContInv'
BY DEF ContInv, Live, Fresh

\* A step of the idle thread that lives.
LEMMA ContOneStep ==
  ASSUME Types, ThreadInv, NEW t \in IdleThreads, Live(t), NEW to,
         ipc' = [ipc EXCEPT ![t] = to],
         to \in {"spawned", "begin"} => first'[t],
         to \in {"try", "pass", "tell", "body", "done", "decide"} => my_cont'[t],
         to \in {"after", "finish"} \/ (to = "loop" /\ ~my_cont'[t]) => ~cont',
         to \notin {"none", "ended"} /\ cont' /\ (told'[t] \/ to = "tell" \/ ~first'[t]) =>
            prefix' # "none",
         to \notin {"none", "ended"} /\ cont' /\ done_happened' =>
            to \in {"spawned", "begin"} \/ renewed'
  PROVE  ContInv'
<1>1. ipc \in [IdleThreads -> IdlePc]
  BY DEF Types, ThreadTypes
<1>2. \A u \in IdleThreads : u # t => ~Live(u)
  BY DEF ThreadInv, OneIdleThread
<1>3. \A u \in IdleThreads : u # t => ipc'[u] \in {"none", "ended"}
  BY <1>1, <1>2 DEF Live
<1> QED BY <1>1, <1>3 DEF ContInv, Live, Fresh

LEMMA ContInvStep ==
  IdleInv /\ QuietInv /\ StopInv /\ BareInv /\ TellInv /\ ContInv /\ [Next]_vars => ContInv'
<1> SUFFICES ASSUME IdleInv, QuietInv, StopInv, BareInv, TellInv, ContInv, [Next]_vars
             PROVE  ContInv'
  OBVIOUS
<1>0. /\ Types /\ LocksInv /\ ConnectInv /\ ThreadInv
      /\ pc \in [Actors -> ActorPc] /\ ipc \in [IdleThreads -> IdlePc]
      /\ told \in [IdleThreads -> BOOLEAN] /\ first \in [IdleThreads -> BOOLEAN]
      /\ my_cont \in [IdleThreads -> BOOLEAN]
      /\ resp \in [IdleThreads \cup Actors -> SUBSET Line]
      /\ Main \in Actors /\ Closer \in Actors /\ Main # Closer
      /\ Workers \subseteq Actors /\ Main \notin Workers /\ Closer \notin Workers
      /\ Nobody \notin Actors /\ Nobody \notin IdleThreads
      /\ \A a \in Actors : a \notin IdleThreads
  BY IdleAssumption DEF IdleInv, Types, ActorTypes, ThreadTypes, RespTypes, Actors
<1>1. ASSUME NEW w \in Workers, Begin(w) PROVE ContInv'
  BY <1>1, <1>0, ContFrame DEF Begin, Go, lockVars, storeVars, confVars, threadVars,
     wireVars, history
<1>2. ASSUME NEW a \in Workers \cup {Closer}, Enter(a) PROVE ContInv'
  BY <1>2, <1>0, ContFrame DEF Enter, Go, Connect, storeVars, confVars, threadVars,
     wireVars, history
<1>3. ASSUME NEW a \in Workers \cup {Closer}, Load(a) PROVE ContInv'
  BY <1>3, <1>0, ContFrame DEF Load, Go, lockVars, storeVars, confVars, threadVars,
     wireVars, history
<1>4. ASSUME NEW a \in Workers \cup {Closer}, Store(a) PROVE ContInv'
  BY <1>4, <1>0, ContFrame DEF Store, Go, lockVars, storeVars, confVars, threadVars,
     wireVars, history
<1>5. ASSUME NEW a \in Actors, Stop(a) PROVE ContInv'

  <2>1. /\ UNCHANGED <<ipc, told, first, my_cont, renewed, done_happened>> /\ ~cont'
    BY <1>5 DEF Stop, threadVars
  <2> QED BY <2>1, ContFrame
<1>6. ASSUME NEW a \in Actors, Lock(a) PROVE ContInv'

  <2>1. /\ UNCHANGED <<ipc, told, first, my_cont, renewed, done_happened>> /\ (cont' => cont)
    BY <1>6 DEF Lock, threadVars, history
  <2>2. prefix' = "none" => prefix = "none" \/ \A t \in IdleThreads : ~Live(t)
    BY <1>6, <1>0 DEF Lock, QuietInv, ThreadInv, OneIdleThread
  <2> QED BY <2>1, <2>2, ContFrame
<1>7. ASSUME NEW a \in Actors, Send(a) PROVE ContInv'

  <2>1. /\ UNCHANGED <<ipc, told, first, my_cont, renewed, cont, prefix>> /\ pc[a] = "send"
    BY <1>7 DEF Send, threadVars
  <2>2. ~cont
    BY <2>1 DEF StopInv
  <2> QED BY <2>1, <2>2, ContFrame
<1>8. ASSUME NEW a \in Actors, Join(a) PROVE ContInv'

  <2>1. thread \in IdleThreads
    BY <1>0, <1>8 DEF Join, LocksInv, HasThread, Types, StoreTypes
  <2>2. /\ ipc' = [ipc EXCEPT ![thread] = "none"]
        /\ UNCHANGED <<prefix, told, first, my_cont, renewed, cont, done_happened>>
    BY <1>8 DEF Join, IGo, storeVars
  <2> QED BY <1>0, <2>1, <2>2, ContFrame
<1>9. ASSUME NEW a \in Actors, Clear(a) PROVE ContInv'
  BY <1>9, <1>0, ContFrame DEF Clear, Go, Gets, lockVars, confVars, threadVars,
     wireVars, history
<1>10. ASSUME NEW a \in Actors, Forget(a) PROVE ContInv'

  <2>1. UNCHANGED <<ipc, told, first, my_cont, renewed, cont, done_happened>> /\ pc[a] = "forget"
    BY <1>10 DEF Forget, threadVars, history
  <2> QED BY <2>1, ContFrame DEF BareInv
<1>11. ASSUME NEW w \in Workers, Write(w) PROVE ContInv'
  BY <1>11, <1>0, ContFrame DEF Write, Go, SendCommand, lockVars, storeVars,
     threadVars, wireVars
<1>12. ASSUME NEW a \in Workers \cup {Closer}, Unlock(a) PROVE ContInv'
  BY <1>12, <1>0, ContFrame DEF Unlock, Go, storeVars, confVars, threadVars, wireVars,
     history
<1>13. ASSUME NEW a \in Actors, Start(a) PROVE ContInv'
  BY <1>13, <1>0, ContFrame DEF Start, Go, Started, storeVars, confVars, threadVars,
     wireVars, history
<1>14. ASSUME NEW a \in Actors, Prefix(a) PROVE ContInv'
  BY <1>14, <1>0, ContFrame DEF Prefix, Go, Started, storeVars, confVars, threadVars,
     wireVars, history
<1>15. ASSUME NEW a \in Actors, Again(a) PROVE ContInv'
  BY <1>15, <1>0, ContFrame DEF Again, Go, confVars, threadVars, wireVars, history
<1>16. ASSUME NEW a \in Actors, Rejoin(a) PROVE ContInv'

  <2>1. thread \in IdleThreads
    BY <1>0, <1>16 DEF Rejoin, LocksInv, HasThread, Types, StoreTypes
  <2>2. /\ ipc' = [ipc EXCEPT ![thread] = "none"]
        /\ UNCHANGED <<prefix, told, first, my_cont, renewed, cont, done_happened>>
    BY <1>16 DEF Rejoin, IGo, history
  <2> QED BY <1>0, <2>1, <2>2, ContFrame
<1>17. ASSUME NEW a \in Actors, Create(a) PROVE ContInv'

  <2>1. CASE ~in_idle /\ pc' = [pc EXCEPT ![a] = "await"]
    <3>1. PICK t \in IdleThreads :
            /\ ipc' = [ipc EXCEPT ![t] = "spawned"] /\ told' = [told EXCEPT ![t] = FALSE]
            /\ first' = [first EXCEPT ![t] = TRUE]
      BY <1>17, <1>0, <2>1 DEF Create, IGo, Go, Types, StoreTypes
    <3>2. \A u \in IdleThreads : u # t => ~Live(u)
      BY <1>0, <1>17, <2>1 DEF ThreadInv, Create
    <3>3. first'[t] /\ ~told'[t] /\ ipc'[t] = "spawned"
      BY <1>0, <3>1
    <3>4. \A u \in IdleThreads : u # t => ipc'[u] \in {"none", "ended"}
      BY <1>0, <3>1, <3>2 DEF Live
    <3> QED BY <1>0, <3>3, <3>4 DEF ContInv, Live, Fresh
  <2>2. CASE ~(~in_idle /\ pc' = [pc EXCEPT ![a] = "await"])
    <3>1. UNCHANGED <<ipc, told, first, my_cont, renewed, cont, done_happened, prefix>>
      BY <1>17, <2>2 DEF Create, Go, MayCreate, history
    <3> QED BY <3>1, ContFrame
  <2> QED BY <2>1, <2>2
<1>18. ASSUME NEW a \in Actors, Await(a) PROVE ContInv'
  BY <1>18, <1>0, ContFrame DEF Await, Go, Started, storeVars, confVars, threadVars,
     wireVars, history
<1>19. ASSUME NEW t \in IdleThreads, Spawned(t) PROVE ContInv'

  <2>1. Live(t)
    BY <1>19 DEF Spawned, Live
  <2>2. PICK to : ipc' = [ipc EXCEPT ![t] = to]
    BY <1>19 DEF Spawned, IGo
  <2>3. ipc'[t] = to
    BY <1>0, <2>2
  <2> QED BY <1>19, <1>0, <2>1, <2>2, <2>3, ContOneStep DEF Spawned, IGo, Reset,
        TellCreator, storeVars,
        TellInv, ContInv, StopInv, Live, Fresh, history
<1>20. ASSUME NEW t \in IdleThreads, BeginIdle(t) PROVE ContInv'

  <2>1. Live(t)
    BY <1>20 DEF BeginIdle, Live
  <2>2. PICK to : ipc' = [ipc EXCEPT ![t] = to]
    BY <1>20 DEF BeginIdle, IGo
  <2>3. ipc'[t] = to
    BY <1>0, <2>2
  <2> QED BY <1>20, <1>0, <2>1, <2>2, <2>3, ContOneStep DEF BeginIdle, IGo, Reset,
        TellCreator, storeVars,
        TellInv, ContInv, StopInv, Live, Fresh, history
<1>21. ASSUME NEW t \in IdleThreads, Loop(t) PROVE ContInv'

  <2>1. Live(t)
    BY <1>21 DEF Loop, Live
  <2>2. PICK to : ipc' = [ipc EXCEPT ![t] = to]
    BY <1>21 DEF Loop, IGo
  <2>3. ipc'[t] = to
    BY <1>0, <2>2
  <2> QED BY <1>21, <1>0, <2>1, <2>2, <2>3, ContOneStep DEF Loop, IGo, Reset,
        TellCreator, storeVars,
        TellInv, ContInv, StopInv, Live, Fresh, history
<1>22. ASSUME NEW t \in IdleThreads, Try(t) PROVE ContInv'

  <2>1. Live(t)
    BY <1>22 DEF Try, Live
  <2>2. PICK to : ipc' = [ipc EXCEPT ![t] = to]
    BY <1>22 DEF Try, IGo
  <2>3. ipc'[t] = to
    BY <1>0, <2>2
  <2> QED BY <1>22, <1>0, <2>1, <2>2, <2>3, ContOneStep DEF Try, IGo, Reset,
        TellCreator, storeVars,
        TellInv, ContInv, StopInv, Live, Fresh, history
<1>23. ASSUME NEW t \in IdleThreads, TryFails(t) PROVE ContInv'

  <2>1. Live(t)
    BY <1>23 DEF TryFails, Live
  <2>2. PICK to : ipc' = [ipc EXCEPT ![t] = to]
    BY <1>23 DEF TryFails, IGo
  <2>3. ipc'[t] = to
    BY <1>0, <2>2
  <2> QED BY <1>23, <1>0, <2>1, <2>2, <2>3, ContOneStep DEF TryFails, IGo, Reset,
        TellCreator, storeVars,
        TellInv, ContInv, StopInv, Live, Fresh, history
<1>24. ASSUME NEW t \in IdleThreads, Pass(t) PROVE ContInv'

  <2>1. Live(t)
    BY <1>24 DEF Pass, Live
  <2>2. PICK to : ipc' = [ipc EXCEPT ![t] = to]
    BY <1>24 DEF Pass, IGo
  <2>3. ipc'[t] = to
    BY <1>0, <2>2
  <2> QED BY <1>24, <1>0, <2>1, <2>2, <2>3, ContOneStep DEF Pass, IGo, Reset,
        TellCreator, storeVars,
        TellInv, ContInv, StopInv, Live, Fresh, history
<1>25. ASSUME NEW t \in IdleThreads, Tell(t) PROVE ContInv'

  <2>1. Live(t)
    BY <1>25 DEF Tell, Live
  <2>2. PICK to : ipc' = [ipc EXCEPT ![t] = to]
    BY <1>25 DEF Tell, IGo
  <2>3. ipc'[t] = to
    BY <1>0, <2>2
  <2> QED BY <1>25, <1>0, <2>1, <2>2, <2>3, ContOneStep DEF Tell, IGo, Reset,
        TellCreator, storeVars,
        TellInv, ContInv, StopInv, Live, Fresh, history
<1>26. ASSUME NEW t \in IdleThreads, Body(t) PROVE ContInv'

  <2>1. Live(t)
    BY <1>26 DEF Body, Live
  <2>2. PICK to : ipc' = [ipc EXCEPT ![t] = to]
    BY <1>26 DEF Body, IGo
  <2>3. ipc'[t] = to
    BY <1>0, <2>2
  <2> QED BY <1>26, <1>0, <2>1, <2>2, <2>3, ContOneStep DEF Body, IGo, Reset,
        TellCreator, storeVars,
        TellInv, ContInv, StopInv, Live, Fresh, history
<1>27. ASSUME NEW t \in IdleThreads, Done(t) PROVE ContInv'

  <2>1. Live(t)
    BY <1>27 DEF Done, Live
  <2>2. PICK to : ipc' = [ipc EXCEPT ![t] = to]
    BY <1>27 DEF Done, IGo
  <2>3. ipc'[t] = to
    BY <1>0, <2>2
  <2> QED BY <1>27, <1>0, <2>1, <2>2, <2>3, ContOneStep DEF Done, IGo, Reset,
        TellCreator, storeVars,
        TellInv, ContInv, StopInv, Live, Fresh, history
<1>28. ASSUME NEW t \in IdleThreads, Decide(t) PROVE ContInv'

  <2>1. Live(t)
    BY <1>28 DEF Decide, Live
  <2>2. PICK to : ipc' = [ipc EXCEPT ![t] = to]
    BY <1>28 DEF Decide, IGo
  <2>3. ipc'[t] = to
    BY <1>0, <2>2
  <2> QED BY <1>28, <1>0, <2>1, <2>2, <2>3, ContOneStep DEF Decide, IGo, Reset,
        TellCreator, storeVars,
        TellInv, ContInv, StopInv, Live, Fresh, history
<1>29. ASSUME NEW t \in IdleThreads, After(t) PROVE ContInv'

  <2>1. Live(t)
    BY <1>29 DEF After, Live
  <2>2. PICK to : ipc' = [ipc EXCEPT ![t] = to]
    BY <1>29 DEF After, IGo
  <2>3. ipc'[t] = to
    BY <1>0, <2>2
  <2> QED BY <1>29, <1>0, <2>1, <2>2, <2>3, ContOneStep DEF After, IGo, Reset,
        TellCreator, storeVars,
        TellInv, ContInv, StopInv, Live, Fresh, history
<1>30. ASSUME NEW t \in IdleThreads, Finish(t) PROVE ContInv'

  <2>1. Live(t)
    BY <1>30 DEF Finish, Live
  <2>2. PICK to : ipc' = [ipc EXCEPT ![t] = to]
    BY <1>30 DEF Finish, IGo
  <2>3. ipc'[t] = to
    BY <1>0, <2>2
  <2> QED BY <1>30, <1>0, <2>1, <2>2, <2>3, ContOneStep DEF Finish, IGo, Reset,
        TellCreator, storeVars,
        TellInv, ContInv, StopInv, Live, Fresh, history
<1>31. CASE StartIfUnlocked
  BY <1>31, <1>0, ContFrame DEF StartIfUnlocked, Go, storeVars, confVars, threadVars,
     wireVars, history
<1>32. CASE Close
  BY <1>32, <1>0, ContFrame DEF Close, Go, storeVars, confVars, threadVars, wireVars,
     history
<1>33. CASE LetIdleDie

  <2>1. UNCHANGED <<ipc, told, first, my_cont, renewed, done_happened>> /\ ~cont'
    BY <1>33 DEF LetIdleDie, threadVars
  <2> QED BY <2>1, ContFrame
<1>34. CASE Logout
  BY <1>34, <1>0, ContFrame DEF Logout, Go, SendCommand, lockVars, storeVars,
     confVars, threadVars
<1>35. CASE CloseStreams
  BY <1>35, <1>0, ContFrame DEF CloseStreams, Go, lockVars, storeVars, threadVars,
     history
<1>36. CASE Closed
  BY <1>36, <1>0, ContFrame DEF Closed, Go, storeVars, confVars, threadVars, wireVars,
     history
<1>37. ASSUME NEW b \in BOOLEAN, SetPush(b) PROVE ContInv'
  BY <1>37, <1>0, ContFrame DEF SetPush, Go, lockVars, storeVars, threadVars,
     wireVars, history
<1>38. ASSUME NEW b \in BOOLEAN, CanIdle(b) PROVE ContInv'
  BY <1>38, <1>0, ContFrame DEF CanIdle, Go, AfterCall, lockVars, storeVars,
     threadVars, wireVars, history
<1>39. ASSUME NEW l \in Line, Arrive(l) PROVE ContInv'
  BY <1>39, <1>0, ContFrame DEF Arrive, lockVars, storeVars, confVars, threadVars,
     actorVars, history
<1>40. CASE UNCHANGED vars
  BY <1>40, <1>0, ContFrame DEF vars, lockVars, storeVars, confVars, threadVars,
     actorVars, wireVars, history
<1> QED BY <1>1, <1>2, <1>3, <1>4, <1>5, <1>6, <1>7, <1>8, <1>9, <1>10, <1>11, <1>12,
      <1>13, <1>14, <1>15, <1>16, <1>17, <1>18, <1>19, <1>20, <1>21, <1>22, <1>23,
      <1>24, <1>25, <1>26, <1>27, <1>28, <1>29, <1>30, <1>31, <1>32, <1>33, <1>34,
      <1>35, <1>36, <1>37, <1>38, <1>39, <1>40 DEF Next, WorkerStep, MainStep,
      CloserStep, IdleStep, ActorStep, StopStep, StartStep, LockStep, Actors

\* The same for what has been read.
LEMMA RespFrame ==
  ASSUME Types, RespInv, UNCHANGED <<ipc, thread>>, done_happened => done_happened',
         \A t \in IdleThreads : resp'[t] = resp[t]
  PROVE  RespInv'
<1>1. thread = Nobody \/ thread \in IdleThreads
  BY DEF Types, StoreTypes
<1> QED BY <1>1 DEF RespInv

LEMMA RespInvStep ==
  IdleInv /\ RespInv /\ [Next]_vars => RespInv'
<1> SUFFICES ASSUME IdleInv, RespInv, [Next]_vars
             PROVE  RespInv'
  OBVIOUS
<1>0. /\ Types /\ LocksInv /\ ConnectInv /\ ThreadInv
      /\ pc \in [Actors -> ActorPc] /\ ipc \in [IdleThreads -> IdlePc]
      /\ (thread \in IdleThreads \/ thread = Nobody)
      /\ resp \in [IdleThreads \cup Actors -> SUBSET Line]
      /\ Main \in Actors /\ Closer \in Actors /\ Main # Closer
      /\ Workers \subseteq Actors /\ Main \notin Workers /\ Closer \notin Workers
      /\ Nobody \notin Actors /\ Nobody \notin IdleThreads
      /\ \A a \in Actors : a \notin IdleThreads
  BY IdleAssumption DEF IdleInv, Types, ActorTypes, ThreadTypes, RespTypes, StoreTypes,
        Actors
<1>1. ASSUME NEW w \in Workers, Begin(w) PROVE RespInv'
  BY <1>1, <1>0, RespFrame DEF Begin, Go, lockVars, storeVars, confVars, threadVars,
     wireVars, history
<1>2. ASSUME NEW a \in Workers \cup {Closer}, Enter(a) PROVE RespInv'
  BY <1>2, <1>0, RespFrame DEF Enter, Go, Connect, storeVars, confVars, threadVars,
     wireVars, history
<1>3. ASSUME NEW a \in Workers \cup {Closer}, Load(a) PROVE RespInv'
  BY <1>3, <1>0, RespFrame DEF Load, Go, lockVars, storeVars, confVars, threadVars,
     wireVars, history
<1>4. ASSUME NEW a \in Workers \cup {Closer}, Store(a) PROVE RespInv'
  BY <1>4, <1>0, RespFrame DEF Store, Go, lockVars, storeVars, confVars, threadVars,
     wireVars, history
<1>5. ASSUME NEW a \in Actors, Stop(a) PROVE RespInv'
  BY <1>5, <1>0, RespFrame, StopTarget DEF Stop, Go, Stopped, SendDone, confVars,
     threadVars, wireVars
<1>6. ASSUME NEW a \in Actors, Lock(a) PROVE RespInv'
  BY <1>6, <1>0, RespFrame, StopTarget DEF Lock, Go, Stopped, SendsDone, confVars,
     threadVars, wireVars, history
<1>7. ASSUME NEW a \in Actors, Send(a) PROVE RespInv'
  BY <1>7, <1>0, RespFrame DEF Send, Go, Gets, DoSendDone, SendDone, lockVars,
     confVars, threadVars
<1>8. ASSUME NEW a \in Actors, Join(a) PROVE RespInv'

  <2>1. thread \in IdleThreads
    BY <1>0, <1>8 DEF Join, LocksInv, HasThread, Types, StoreTypes
  <2> QED BY <1>8, <1>0, <2>1 DEF Join, IGo, Gets, RespInv, storeVars
<1>9. ASSUME NEW a \in Actors, Clear(a) PROVE RespInv'

  <2> QED BY <1>9, <1>0 DEF Clear, Gets, RespInv, threadVars
<1>10. ASSUME NEW a \in Actors, Forget(a) PROVE RespInv'
  BY <1>10, <1>0, RespFrame, StopTarget DEF Forget, Go, Stopped, confVars, threadVars,
     wireVars, history
<1>11. ASSUME NEW w \in Workers, Write(w) PROVE RespInv'
  BY <1>11, <1>0, RespFrame DEF Write, Go, SendCommand, lockVars, storeVars,
     threadVars, wireVars
<1>12. ASSUME NEW a \in Workers \cup {Closer}, Unlock(a) PROVE RespInv'
  BY <1>12, <1>0, RespFrame DEF Unlock, Go, storeVars, confVars, threadVars, wireVars,
     history
<1>13. ASSUME NEW a \in Actors, Start(a) PROVE RespInv'
  BY <1>13, <1>0, RespFrame DEF Start, Go, Started, storeVars, confVars, threadVars,
     wireVars, history
<1>14. ASSUME NEW a \in Actors, Prefix(a) PROVE RespInv'
  BY <1>14, <1>0, RespFrame DEF Prefix, Go, Started, storeVars, confVars, threadVars,
     wireVars, history
<1>15. ASSUME NEW a \in Actors, Again(a) PROVE RespInv'
  BY <1>15, <1>0, RespFrame DEF Again, Go, confVars, threadVars, wireVars, history
<1>16. ASSUME NEW a \in Actors, Rejoin(a) PROVE RespInv'

  <2>1. thread \in IdleThreads
    BY <1>0, <1>16 DEF Rejoin, LocksInv, HasThread, Types, StoreTypes
  <2> QED BY <1>16, <1>0, <2>1 DEF Rejoin, IGo, Gets, RespInv, storeVars
<1>17. ASSUME NEW a \in Actors, Create(a) PROVE RespInv'

  <2> QED BY <1>17, <1>0 DEF Create, IGo, RespInv
<1>18. ASSUME NEW a \in Actors, Await(a) PROVE RespInv'
  BY <1>18, <1>0, RespFrame DEF Await, Go, Started, storeVars, confVars, threadVars,
     wireVars, history
<1>19. ASSUME NEW t \in IdleThreads, Spawned(t) PROVE RespInv'

  <2>1. Live(t) /\ thread = t
    BY <1>19, <1>0 DEF Spawned, Live, ThreadInv, OneIdleThread
  <2> QED BY <1>19, <1>0, <2>1 DEF Spawned, IGo, Reset, TellCreator, storeVars, Gets,
        DoSendDone, RespInv
<1>20. ASSUME NEW t \in IdleThreads, BeginIdle(t) PROVE RespInv'

  <2>1. Live(t) /\ thread = t
    BY <1>20, <1>0 DEF BeginIdle, Live, ThreadInv, OneIdleThread
  <2> QED BY <1>20, <1>0, <2>1 DEF BeginIdle, IGo, Reset, TellCreator, storeVars, Gets,
        DoSendDone, RespInv
<1>21. ASSUME NEW t \in IdleThreads, Loop(t) PROVE RespInv'

  <2>1. Live(t) /\ thread = t
    BY <1>21, <1>0 DEF Loop, Live, ThreadInv, OneIdleThread
  <2> QED BY <1>21, <1>0, <2>1 DEF Loop, IGo, Reset, TellCreator, storeVars, Gets,
        DoSendDone, RespInv
<1>22. ASSUME NEW t \in IdleThreads, Try(t) PROVE RespInv'

  <2>1. Live(t) /\ thread = t
    BY <1>22, <1>0 DEF Try, Live, ThreadInv, OneIdleThread
  <2> QED BY <1>22, <1>0, <2>1 DEF Try, IGo, Reset, TellCreator, storeVars, Gets,
        DoSendDone, RespInv
<1>23. ASSUME NEW t \in IdleThreads, TryFails(t) PROVE RespInv'

  <2>1. Live(t) /\ thread = t
    BY <1>23, <1>0 DEF TryFails, Live, ThreadInv, OneIdleThread
  <2> QED BY <1>23, <1>0, <2>1 DEF TryFails, IGo, Reset, TellCreator, storeVars, Gets,
        DoSendDone, RespInv
<1>24. ASSUME NEW t \in IdleThreads, Pass(t) PROVE RespInv'

  <2>1. Live(t) /\ thread = t
    BY <1>24, <1>0 DEF Pass, Live, ThreadInv, OneIdleThread
  <2> QED BY <1>24, <1>0, <2>1 DEF Pass, IGo, Reset, TellCreator, storeVars, Gets,
        DoSendDone, RespInv
<1>25. ASSUME NEW t \in IdleThreads, Tell(t) PROVE RespInv'

  <2>1. Live(t) /\ thread = t
    BY <1>25, <1>0 DEF Tell, Live, ThreadInv, OneIdleThread
  <2> QED BY <1>25, <1>0, <2>1 DEF Tell, IGo, Reset, TellCreator, storeVars, Gets,
        DoSendDone, RespInv
<1>26. ASSUME NEW t \in IdleThreads, Body(t) PROVE RespInv'

  <2>1. Live(t) /\ thread = t
    BY <1>26, <1>0 DEF Body, Live, ThreadInv, OneIdleThread
  <2> QED BY <1>26, <1>0, <2>1 DEF Body, IGo, Reset, TellCreator, storeVars, Gets,
        DoSendDone, RespInv
<1>27. ASSUME NEW t \in IdleThreads, Done(t) PROVE RespInv'

  <2>1. Live(t) /\ thread = t
    BY <1>27, <1>0 DEF Done, Live, ThreadInv, OneIdleThread
  <2> QED BY <1>27, <1>0, <2>1 DEF Done, IGo, Reset, TellCreator, storeVars, Gets,
        DoSendDone, RespInv
<1>28. ASSUME NEW t \in IdleThreads, Decide(t) PROVE RespInv'

  <2>1. Live(t) /\ thread = t
    BY <1>28, <1>0 DEF Decide, Live, ThreadInv, OneIdleThread
  <2> QED BY <1>28, <1>0, <2>1 DEF Decide, IGo, Reset, TellCreator, storeVars, Gets,
        DoSendDone, RespInv
<1>29. ASSUME NEW t \in IdleThreads, After(t) PROVE RespInv'

  <2>1. Live(t) /\ thread = t
    BY <1>29, <1>0 DEF After, Live, ThreadInv, OneIdleThread
  <2> QED BY <1>29, <1>0, <2>1 DEF After, IGo, Reset, TellCreator, storeVars, Gets,
        DoSendDone, RespInv
<1>30. ASSUME NEW t \in IdleThreads, Finish(t) PROVE RespInv'

  <2>1. Live(t) /\ thread = t
    BY <1>30, <1>0 DEF Finish, Live, ThreadInv, OneIdleThread
  <2> QED BY <1>30, <1>0, <2>1 DEF Finish, IGo, Reset, TellCreator, storeVars, Gets,
        DoSendDone, RespInv
<1>31. CASE StartIfUnlocked
  BY <1>31, <1>0, RespFrame DEF StartIfUnlocked, Go, storeVars, confVars, threadVars,
     wireVars, history
<1>32. CASE Close
  BY <1>32, <1>0, RespFrame DEF Close, Go, storeVars, confVars, threadVars, wireVars,
     history
<1>33. CASE LetIdleDie
  BY <1>33, <1>0, RespFrame DEF LetIdleDie, Go, SendDone, lockVars, confVars,
     threadVars, wireVars
<1>34. CASE Logout
  BY <1>34, <1>0, RespFrame DEF Logout, Go, SendCommand, lockVars, storeVars,
     confVars, threadVars
<1>35. CASE CloseStreams
  BY <1>35, <1>0, RespFrame DEF CloseStreams, Go, lockVars, storeVars, threadVars,
     history
<1>36. CASE Closed
  BY <1>36, <1>0, RespFrame DEF Closed, Go, storeVars, confVars, threadVars, wireVars,
     history
<1>37. ASSUME NEW b \in BOOLEAN, SetPush(b) PROVE RespInv'
  BY <1>37, <1>0, RespFrame DEF SetPush, Go, lockVars, storeVars, threadVars,
     wireVars, history
<1>38. ASSUME NEW b \in BOOLEAN, CanIdle(b) PROVE RespInv'
  BY <1>38, <1>0, RespFrame DEF CanIdle, Go, AfterCall, lockVars, storeVars,
     threadVars, wireVars, history
<1>39. ASSUME NEW l \in Line, Arrive(l) PROVE RespInv'
  BY <1>39, <1>0, RespFrame DEF Arrive, lockVars, storeVars, confVars, threadVars,
     actorVars, history
<1>40. CASE UNCHANGED vars
  BY <1>40, <1>0, RespFrame DEF vars, lockVars, storeVars, confVars, threadVars,
     actorVars, wireVars, history
<1> QED BY <1>1, <1>2, <1>3, <1>4, <1>5, <1>6, <1>7, <1>8, <1>9, <1>10, <1>11, <1>12,
      <1>13, <1>14, <1>15, <1>16, <1>17, <1>18, <1>19, <1>20, <1>21, <1>22, <1>23,
      <1>24, <1>25, <1>26, <1>27, <1>28, <1>29, <1>30, <1>31, <1>32, <1>33, <1>34,
      <1>35, <1>36, <1>37, <1>38, <1>39, <1>40 DEF Next, WorkerStep, MainStep,
      CloserStep, IdleStep, ActorStep, StopStep, StartStep, LockStep, Actors

\* While the server idles for an idle thread that has not renewed, that thread lives.
LEMMA IdlingForSomebody ==
  ASSUME Types, WireInv, ~renewed, server = "idling"
  PROVE  /\ thread \in IdleThreads /\ Live(thread) /\ prefix = "set" /\ ~kill
         /\ ~done_happened /\ ~first[thread] /\ my_cont[thread]
         /\ ipc[thread] \in {"loop", "try", "pass", "tell", "body", "done"}
<1>1. thread = Nobody \/ thread \in IdleThreads
  BY DEF Types, StoreTypes
<1> QED BY <1>1 DEF WireInv, Live

\* The same for the server.
LEMMA WireFrame ==
  ASSUME WireInv,
         UNCHANGED <<prefix, kill, done_happened, server, thread, renewed, ipc, first, my_cont>>,
         \A a \in Actors : pc[a] = "reap" => pc'[a] = "reap"
  PROVE  WireInv'
BY DEF WireInv

\* A step after which idle_prefix is NULL or the idle thread has been killed.
LEMMA WireWithout ==
  ASSUME Types, WireInv, UNCHANGED renewed, prefix' = "none" \/ kill',
         server' = "ready" \/ (UNCHANGED server /\ (prefix # "set" \/ kill \/
           \A t \in IdleThreads : ~Live(t)))
  PROVE  WireInv'
<1>1. ~renewed' => server' # "idling"
  BY IdlingForSomebody
<1> QED BY <1>1 DEF WireInv

\* A step of the idle thread that lives.
LEMMA WireOneStep ==
  ASSUME Types, ThreadInv, NEW t \in IdleThreads, Live(t), NEW to, UNCHANGED thread,
         ipc' = [ipc EXCEPT ![t] = to],
         ~renewed' =>
           /\ server' = "idling" =>
                /\ prefix' = "set" /\ ~kill' /\ ~done_happened' /\ ~first'[t] /\ my_cont'[t]
                /\ to \in {"loop", "try", "pass", "tell", "body", "done"}
           /\ prefix' # "none" /\ ~kill' =>
                /\ ~done_happened' => server' = "idling" \/ to = "decide"
                /\ to \in {"pass", "tell", "body", "done"} => server' = "idling"
                /\ to = "try" => server' = "idling" \/ \E a \in Actors : pc'[a] = "reap"
  PROVE  WireInv'
<1>1. ipc \in [IdleThreads -> IdlePc] /\ thread = t /\ t # Nobody
  BY IdleAssumption DEF Types, ThreadTypes, ThreadInv, OneIdleThread
<1>2. \A u \in IdleThreads : u # t => ~Live(u)
  BY DEF ThreadInv, OneIdleThread
<1>3. \A u \in IdleThreads : u # t => ipc'[u] \in {"none", "ended"}
  BY <1>1, <1>2 DEF Live
<1>4. ipc'[t] = to
  BY <1>1
<1> QED BY <1>1, <1>3, <1>4 DEF WireInv

LEMMA WireInvStep ==
  IdleInv /\ CountInv /\ QuietInv /\ StopInv /\ BareInv /\ TellInv /\ ContInv /\ WireInv /\ [Next]_vars => WireInv'
<1> SUFFICES ASSUME IdleInv, CountInv, QuietInv, StopInv, BareInv, TellInv, ContInv, WireInv, [Next]_vars
             PROVE  WireInv'
  OBVIOUS
<1>0. /\ Types /\ LocksInv /\ ConnectInv /\ ThreadInv
      /\ pc \in [Actors -> ActorPc] /\ ipc \in [IdleThreads -> IdlePc]
      /\ (thread \in IdleThreads \/ thread = Nobody)
      /\ first \in [IdleThreads -> BOOLEAN] /\ my_cont \in [IdleThreads -> BOOLEAN]
      /\ told \in [IdleThreads -> BOOLEAN]
      /\ resp \in [IdleThreads \cup Actors -> SUBSET Line]
      /\ Main \in Actors /\ Closer \in Actors /\ Main # Closer
      /\ Workers \subseteq Actors /\ Main \notin Workers /\ Closer \notin Workers
      /\ Nobody \notin Actors /\ Nobody \notin IdleThreads
      /\ \A a \in Actors : a \notin IdleThreads
  BY IdleAssumption DEF IdleInv, Types, ActorTypes, ThreadTypes, RespTypes, StoreTypes,
        Actors
<1>1. ASSUME NEW w \in Workers, Begin(w) PROVE WireInv'
  BY <1>1, <1>0, WireFrame DEF Begin, Go, lockVars, storeVars, confVars, threadVars,
     wireVars, history
<1>2. ASSUME NEW a \in Workers \cup {Closer}, Enter(a) PROVE WireInv'
  BY <1>2, <1>0, WireFrame DEF Enter, Go, Connect, storeVars, confVars, threadVars,
     wireVars, history
<1>3. ASSUME NEW a \in Workers \cup {Closer}, Load(a) PROVE WireInv'
  BY <1>3, <1>0, WireFrame DEF Load, Go, lockVars, storeVars, confVars, threadVars,
     wireVars, history
<1>4. ASSUME NEW a \in Workers \cup {Closer}, Store(a) PROVE WireInv'
  BY <1>4, <1>0, WireFrame DEF Store, Go, lockVars, storeVars, confVars, threadVars,
     wireVars, history
<1>5. ASSUME NEW a \in Actors, Stop(a) PROVE WireInv'

  <2>1. pc[a] = "stop" /\ UNCHANGED renewed
    BY <1>5 DEF Stop
  <2>2. CASE kill'
    <3>1. server' = "ready" \/ (UNCHANGED server /\ (prefix # "set" \/ kill))
      BY <1>5, <2>2 DEF Stop, SendDone, wireVars
    <3> QED BY <1>0, <2>1, <2>2, <3>1, WireWithout
  <2>3. CASE ~kill'
    <3>1. UNCHANGED <<prefix, kill, done_happened, server, thread, renewed, ipc, first, my_cont>>
      BY <1>5, <2>3 DEF Stop, wireVars, threadVars
    <3>2. \E to : pc' = [pc EXCEPT ![a] = to]
      BY <1>5, <2>3 DEF Stop, Go
    <3> QED BY <1>0, <2>1, <3>1, <3>2, WireFrame
  <2> QED BY <2>2, <2>3
<1>6. ASSUME NEW a \in Actors, Lock(a) PROVE WireInv'

  <2>1. pc[a] = "lock" /\ UNCHANGED <<kill, done_happened, server, thread, renewed, ipc, first, my_cont>>
    BY <1>6 DEF Lock, threadVars, wireVars, history
  <2>2. CASE in_idle /\ thread # Nobody
    <3>1. UNCHANGED prefix /\ \E to : pc' = [pc EXCEPT ![a] = to]
      BY <1>6, <2>2 DEF Lock, Go
    <3> QED BY <1>0, <2>1, <3>1, WireFrame
  <2>3. CASE ~(in_idle /\ thread # Nobody)
    <3>1. \A t \in IdleThreads : ~Live(t)
      BY <1>0, <2>3 DEF QuietInv, ThreadInv, OneIdleThread
    <3>2. prefix' = "none"
      BY <1>6, <2>3 DEF Lock
    <3> QED BY <1>0, <2>1, <3>1, <3>2, WireWithout
  <2> QED BY <2>2, <2>3
<1>7. ASSUME NEW a \in Actors, Send(a) PROVE WireInv'

  <2>1. /\ pc[a] = "send" /\ done_happened' /\ pc' = [pc EXCEPT ![a] = "reap"]
        /\ UNCHANGED <<prefix, kill, thread, renewed, ipc>>
    BY <1>7 DEF Send, Go, threadVars
  <2>2. CASE prefix # "none" /\ ~kill
    <3>1. server' = "ready"
      BY <1>7, <2>2 DEF Send, DoSendDone, SendDone
    <3>2. \A t \in IdleThreads : ipc'[t] \notin {"pass", "tell", "body", "done"}
      BY <1>0, <2>1, StopperHasConnection DEF StopInv, Stopping, Holding
    <3>3. pc'[a] = "reap"
      BY <1>0, <2>1
    <3> QED BY <1>0, <2>1, <3>1, <3>2, <3>3 DEF WireInv
  <2>3. CASE ~(prefix # "none" /\ ~kill)
    <3>1. UNCHANGED server
      BY <1>7, <2>3 DEF Send, DoSendDone, wireVars
    <3>2. prefix # "set" \/ kill
      BY <2>3
    <3> QED BY <1>0, <2>1, <2>3, <3>1, <3>2, WireWithout
  <2> QED BY <2>2, <2>3
<1>8. ASSUME NEW a \in Actors, Join(a) PROVE WireInv'

  <2>1. thread \in IdleThreads
    BY <1>0, <1>8 DEF Join, LocksInv, HasThread, Types, StoreTypes
  <2>2. /\ ipc' = [ipc EXCEPT ![thread] = "none"] /\ ipc[thread] = "ended"
        /\ UNCHANGED <<prefix, kill, done_happened, server, thread, renewed, first, my_cont>>
    BY <1>8 DEF Join, IGo, storeVars, wireVars
  <2>3. \A t \in IdleThreads : ~Live(t)
    BY <1>0, <2>2 DEF ThreadInv, OneIdleThread, Live
  <2>4. \A t \in IdleThreads : ipc'[t] \in {"none", "ended"}
    BY <1>0, <2>1, <2>2, <2>3 DEF Live
  <2>5. ~renewed => server # "idling"
    BY <1>0, <2>3, IdlingForSomebody
  <2> QED BY <1>0, <2>1, <2>2, <2>4, <2>5 DEF WireInv
<1>9. ASSUME NEW a \in Actors, Clear(a) PROVE WireInv'

  <2>1. /\ pc[a] = "clear" /\ thread' = Nobody
        /\ UNCHANGED <<kill, done_happened, server, renewed, ipc>>
    BY <1>9 DEF Clear, threadVars, wireVars, history
  <2>2. \A t \in IdleThreads : ~Live(t)
    BY <1>0, <2>1 DEF ThreadInv
  <2>3. ~renewed => server # "idling"
    BY <1>0, <2>2, IdlingForSomebody
  <2> QED BY <1>0, <2>1, <2>2, <2>3 DEF WireInv, Live
<1>10. ASSUME NEW a \in Actors, Forget(a) PROVE WireInv'

  <2>1. /\ pc[a] = "forget" /\ prefix' = "none" /\ UNCHANGED <<server, renewed>>
    BY <1>10 DEF Forget, wireVars, history
  <2> QED BY <1>0, <2>1, WireWithout DEF BareInv
<1>11. ASSUME NEW w \in Workers, Write(w) PROVE WireInv'

  <2>1. prefix = "none" /\ UNCHANGED <<prefix, renewed>>
    BY <1>11, <1>0 DEF Write, BareInv, Bare, storeVars
  <2>2. server' = "ready" \/ UNCHANGED server
    BY <1>11 DEF Write, SendCommand, wireVars
  <2> QED BY <1>0, <2>1, <2>2, WireWithout
<1>12. ASSUME NEW a \in Workers \cup {Closer}, Unlock(a) PROVE WireInv'
  BY <1>12, <1>0, WireFrame DEF Unlock, Go, storeVars, confVars, threadVars, wireVars,
     history
<1>13. ASSUME NEW a \in Actors, Start(a) PROVE WireInv'
  BY <1>13, <1>0, WireFrame DEF Start, Go, Started, storeVars, confVars, threadVars,
     wireVars, history
<1>14. ASSUME NEW a \in Actors, Prefix(a) PROVE WireInv'
  BY <1>14, <1>0, WireFrame DEF Prefix, Go, Started, storeVars, confVars, threadVars,
     wireVars, history
<1>15. ASSUME NEW a \in Actors, Again(a) PROVE WireInv'
  BY <1>15, <1>0, WireFrame DEF Again, Go, confVars, threadVars, wireVars, history
<1>16. ASSUME NEW a \in Actors, Rejoin(a) PROVE WireInv'

  <2>1. prefix = "none" /\ UNCHANGED <<prefix, renewed, server>>
    BY <1>16, <1>0 DEF Rejoin, BareInv, Bare, history, wireVars
  <2> QED BY <1>0, <2>1, WireWithout
<1>17. ASSUME NEW a \in Actors, Create(a) PROVE WireInv'

  <2>1. prefix = "none" /\ UNCHANGED <<prefix, renewed, server>>
    BY <1>17, <1>0 DEF Create, BareInv, Bare, history, wireVars
  <2> QED BY <1>0, <2>1, WireWithout
<1>18. ASSUME NEW a \in Actors, Await(a) PROVE WireInv'
  BY <1>18, <1>0, WireFrame DEF Await, Go, Started, storeVars, confVars, threadVars,
     wireVars, history
<1>19. ASSUME NEW t \in IdleThreads, Spawned(t) PROVE WireInv'

  <2>1. Live(t) /\ thread = t
    BY <1>19, <1>0 DEF Spawned, Live, ThreadInv, OneIdleThread
  <2>2. PICK to : ipc' = [ipc EXCEPT ![t] = to]
    BY <1>19 DEF Spawned, IGo
  <2>3. ipc'[t] = to
    BY <1>0, <2>2
  <2> QED BY <1>19, <1>0, <2>1, <2>2, <2>3, WireOneStep DEF Spawned, IGo, Reset,
        TellCreator, storeVars,
        WireInv, TellInv, ContInv, Live, Fresh, history, wireVars, actorVars
<1>20. ASSUME NEW t \in IdleThreads, BeginIdle(t) PROVE WireInv'

  <2>1. Live(t) /\ thread = t
    BY <1>20, <1>0 DEF BeginIdle, Live, ThreadInv, OneIdleThread
  <2>2. PICK to : ipc' = [ipc EXCEPT ![t] = to]
    BY <1>20 DEF BeginIdle, IGo
  <2>3. ipc'[t] = to
    BY <1>0, <2>2
  <2> QED BY <1>20, <1>0, <2>1, <2>2, <2>3, WireOneStep DEF BeginIdle, IGo, Reset,
        TellCreator, storeVars,
        WireInv, TellInv, ContInv, Live, Fresh, history, wireVars, actorVars
<1>21. ASSUME NEW t \in IdleThreads, Loop(t) PROVE WireInv'

  <2>1. Live(t) /\ thread = t /\ ipc[t] = "loop"
    BY <1>21, <1>0 DEF Loop, Live, ThreadInv, OneIdleThread
  <2>2. /\ UNCHANGED <<prefix, kill, done_happened, server, thread, renewed, first, my_cont>>
    BY <1>21 DEF Loop, storeVars, history, wireVars
  <2>3. CASE my_cont[t] /\ ~kill /\ (cont \/ ~done_happened)
    <3>1. ipc' = [ipc EXCEPT ![t] = "try"]
      BY <1>21, <2>3 DEF Loop, IGo
    <3>2. ~done_happened \/ renewed
      BY <2>1, <2>3 DEF ContInv, Live, Fresh
    <3> QED BY <1>0, <2>1, <2>2, <2>3, <3>1, <3>2, WireOneStep DEF WireInv
  <2>4. CASE ~(my_cont[t] /\ ~kill /\ (cont \/ ~done_happened))
    <3>1. ipc' = [ipc EXCEPT ![t] = "after"]
      BY <1>21, <2>4 DEF Loop, IGo
    <3> QED BY <1>0, <2>1, <2>2, <2>4, <3>1, WireOneStep DEF WireInv
  <2> QED BY <2>3, <2>4
<1>22. ASSUME NEW t \in IdleThreads, Try(t) PROVE WireInv'

  <2>1. Live(t) /\ thread = t /\ ipc[t] = "try" /\ ipc' = [ipc EXCEPT ![t] = "pass"]
    BY <1>22, <1>0 DEF Try, Live, ThreadInv, OneIdleThread, IGo
  <2>2. /\ UNCHANGED <<prefix, kill, done_happened, server, thread, renewed, first, my_cont, pc>>
        /\ connect \notin Actors
    BY <1>22, <1>0 DEF Try, Available, storeVars, history, wireVars, actorVars
  <2>3. \A a \in Actors : pc[a] # "reap"
    BY <1>0, <2>2, StopperHasConnection DEF StopInv, Stopping
  <2> QED BY <1>0, <2>1, <2>2, <2>3, WireOneStep DEF WireInv
<1>23. ASSUME NEW t \in IdleThreads, TryFails(t) PROVE WireInv'

  <2>1. Live(t) /\ thread = t
    BY <1>23, <1>0 DEF TryFails, Live, ThreadInv, OneIdleThread
  <2>2. PICK to : ipc' = [ipc EXCEPT ![t] = to]
    BY <1>23 DEF TryFails, IGo
  <2>3. ipc'[t] = to
    BY <1>0, <2>2
  <2> QED BY <1>23, <1>0, <2>1, <2>2, <2>3, WireOneStep DEF TryFails, IGo, Reset,
        TellCreator, storeVars,
        WireInv, TellInv, ContInv, Live, Fresh, history, wireVars, actorVars
<1>24. ASSUME NEW t \in IdleThreads, Pass(t) PROVE WireInv'

  <2>1. Live(t) /\ thread = t /\ ipc[t] = "pass" /\ ipc' = [ipc EXCEPT ![t] = "tell"]
        /\ UNCHANGED <<thread, my_cont, kill, done_happened>> /\ my_cont[t]
    BY <1>24, <1>0 DEF Pass, Live, ThreadInv, OneIdleThread, IGo, ContInv
  <2>2. CASE cont /\ first[t]
    <3>1. server' = "idling" /\ prefix' = "set" /\ ~kill /\ ~first'[t] /\ renewed' = told[t]
      BY <1>24, <1>0, <2>2 DEF Pass, StopInv
    <3>2. ~told[t] => ~done_happened
      BY <2>1 DEF TellInv, Live, Fresh
    <3> QED BY <1>0, <2>1, <3>1, <3>2, WireOneStep
  <2>3. CASE ~(cont /\ first[t])
    <3>1. UNCHANGED <<prefix, server, first, renewed>>
      BY <1>24, <2>3 DEF Pass
    <3> QED BY <1>0, <2>1, <3>1, WireOneStep DEF WireInv
  <2> QED BY <2>2, <2>3
<1>25. ASSUME NEW t \in IdleThreads, Tell(t) PROVE WireInv'

  <2>1. Live(t) /\ thread = t
    BY <1>25, <1>0 DEF Tell, Live, ThreadInv, OneIdleThread
  <2>2. PICK to : ipc' = [ipc EXCEPT ![t] = to]
    BY <1>25 DEF Tell, IGo
  <2>3. ipc'[t] = to
    BY <1>0, <2>2
  <2> QED BY <1>25, <1>0, <2>1, <2>2, <2>3, WireOneStep DEF Tell, IGo, Reset,
        TellCreator, storeVars,
        WireInv, TellInv, ContInv, Live, Fresh, history, wireVars, actorVars
<1>26. ASSUME NEW t \in IdleThreads, Body(t) PROVE WireInv'

  <2>1. Live(t) /\ thread = t
    BY <1>26, <1>0 DEF Body, Live, ThreadInv, OneIdleThread
  <2>2. PICK to : ipc' = [ipc EXCEPT ![t] = to]
    BY <1>26 DEF Body, IGo
  <2>3. ipc'[t] = to
    BY <1>0, <2>2
  <2> QED BY <1>26, <1>0, <2>1, <2>2, <2>3, WireOneStep DEF Body, IGo, Reset,
        TellCreator, storeVars,
        WireInv, TellInv, ContInv, Live, Fresh, history, wireVars, actorVars
<1>27. ASSUME NEW t \in IdleThreads, Done(t) PROVE WireInv'

  <2>1. Live(t) /\ thread = t /\ ipc[t] = "done" /\ ipc' = [ipc EXCEPT ![t] = "decide"]
        /\ UNCHANGED <<thread, kill, prefix, renewed>>
    BY <1>27, <1>0 DEF Done, Live, ThreadInv, OneIdleThread, IGo, storeVars
  <2>2. ~renewed => server' # "idling"
    <3>1. CASE prefix # "none" /\ ~kill
      BY <1>27, <3>1 DEF Done, DoSendDone, SendDone
    <3>2. CASE ~(prefix # "none" /\ ~kill)
      BY <1>27, <3>2 DEF Done, DoSendDone, wireVars, WireInv
    <3> QED BY <3>1, <3>2
  <2> QED BY <1>0, <2>1, <2>2, WireOneStep
<1>28. ASSUME NEW t \in IdleThreads, Decide(t) PROVE WireInv'

  <2>1. Live(t) /\ thread = t /\ ipc[t] = "decide" /\ ipc' = [ipc EXCEPT ![t] = "loop"]
        /\ UNCHANGED <<thread, kill, prefix, server>> /\ done_happened'
        /\ (~renewed' => ~renewed)
    BY <1>28, <1>0 DEF Decide, Live, ThreadInv, OneIdleThread, IGo, wireVars
  <2>2. ~renewed => server # "idling"
    BY <2>1 DEF WireInv
  <2> QED BY <1>0, <2>1, <2>2, WireOneStep
<1>29. ASSUME NEW t \in IdleThreads, After(t) PROVE WireInv'

  <2>1. Live(t) /\ thread = t
    BY <1>29, <1>0 DEF After, Live, ThreadInv, OneIdleThread
  <2>2. PICK to : ipc' = [ipc EXCEPT ![t] = to]
    BY <1>29 DEF After, IGo
  <2>3. ipc'[t] = to
    BY <1>0, <2>2
  <2> QED BY <1>29, <1>0, <2>1, <2>2, <2>3, WireOneStep DEF After, IGo, Reset,
        TellCreator, storeVars,
        WireInv, TellInv, ContInv, Live, Fresh, history, wireVars, actorVars
<1>30. ASSUME NEW t \in IdleThreads, Finish(t) PROVE WireInv'

  <2>1. Live(t) /\ thread = t
    BY <1>30, <1>0 DEF Finish, Live, ThreadInv, OneIdleThread
  <2>2. PICK to : ipc' = [ipc EXCEPT ![t] = to]
    BY <1>30 DEF Finish, IGo
  <2>3. ipc'[t] = to
    BY <1>0, <2>2
  <2> QED BY <1>30, <1>0, <2>1, <2>2, <2>3, WireOneStep DEF Finish, IGo, Reset,
        TellCreator, storeVars,
        WireInv, TellInv, ContInv, Live, Fresh, history, wireVars, actorVars
<1>31. CASE StartIfUnlocked
  BY <1>31, <1>0, WireFrame DEF StartIfUnlocked, Go, storeVars, confVars, threadVars,
     wireVars, history
<1>32. CASE Close
  BY <1>32, <1>0, WireFrame DEF Close, Go, storeVars, confVars, threadVars, wireVars,
     history
<1>33. CASE LetIdleDie

  <2>1. kill' /\ UNCHANGED renewed
    BY <1>33 DEF LetIdleDie
  <2>2. server' = "ready" \/ (UNCHANGED server /\ prefix # "set")
    BY <1>33 DEF LetIdleDie, SendDone, wireVars
  <2> QED BY <1>0, <2>1, <2>2, WireWithout
<1>34. CASE Logout

  <2>1. prefix = "none" /\ UNCHANGED <<prefix, renewed>>
    BY <1>34, <1>0 DEF Logout, BareInv, Bare, storeVars, history
  <2>2. server' = "ready" \/ UNCHANGED server
    BY <1>34 DEF Logout, SendCommand, wireVars
  <2> QED BY <1>0, <2>1, <2>2, WireWithout
<1>35. CASE CloseStreams

  <2>1. prefix = "none" /\ UNCHANGED <<prefix, renewed>>
    BY <1>35, <1>0 DEF CloseStreams, BareInv, Bare, storeVars, history
  <2>2. server' = "ready" \/ UNCHANGED server
    BY <1>35 DEF CloseStreams, SendCommand, wireVars
  <2> QED BY <1>0, <2>1, <2>2, WireWithout
<1>36. CASE Closed
  BY <1>36, <1>0, WireFrame DEF Closed, Go, storeVars, confVars, threadVars, wireVars,
     history
<1>37. ASSUME NEW b \in BOOLEAN, SetPush(b) PROVE WireInv'
  BY <1>37, <1>0, WireFrame DEF SetPush, Go, lockVars, storeVars, threadVars,
     wireVars, history
<1>38. ASSUME NEW b \in BOOLEAN, CanIdle(b) PROVE WireInv'
  BY <1>38, <1>0, WireFrame DEF CanIdle, Go, AfterCall, lockVars, storeVars,
     threadVars, wireVars, history
<1>39. ASSUME NEW l \in Line, Arrive(l) PROVE WireInv'
  BY <1>39, <1>0, WireFrame DEF Arrive, lockVars, storeVars, confVars, threadVars,
     actorVars, history
<1>40. CASE UNCHANGED vars
  BY <1>40, <1>0, WireFrame DEF vars, lockVars, storeVars, confVars, threadVars,
     actorVars, wireVars, history
<1> QED BY <1>1, <1>2, <1>3, <1>4, <1>5, <1>6, <1>7, <1>8, <1>9, <1>10, <1>11, <1>12,
      <1>13, <1>14, <1>15, <1>16, <1>17, <1>18, <1>19, <1>20, <1>21, <1>22, <1>23,
      <1>24, <1>25, <1>26, <1>27, <1>28, <1>29, <1>30, <1>31, <1>32, <1>33, <1>34,
      <1>35, <1>36, <1>37, <1>38, <1>39, <1>40 DEF Next, WorkerStep, MainStep,
      CloserStep, IdleStep, ActorStep, StopStep, StartStep, LockStep, Actors

\* What is sent out of turn is the last DONE, or follows a renewal.
LEMMA BreachAllowed ==
  ASSUME ProtocolUntilRenewal, NEW sent, NEW wrong, Breach(sent, wrong),
         wrong => sent = "last DONE" \/ renewed
  PROVE  ProtocolUntilRenewal'
<1>1. <<sent, renewed>>[1] = sent /\ <<sent, renewed>>[2] = renewed
  OBVIOUS
<1>2. CASE wrong
  <2>1. breaches' = breaches \cup {<<sent, renewed>>}
    BY <1>2 DEF Breach
  <2> QED BY <1>1, <1>2, <2>1 DEF ProtocolUntilRenewal
<1>3. CASE ~wrong
  BY <1>3 DEF Breach, ProtocolUntilRenewal
<1> QED BY <1>2, <1>3

\* Where a command is sent, no server idles for a thread that has not renewed.
LEMMA CommandIsHeard ==
  ASSUME Types, WireInv, SendCommand, \A t \in IdleThreads : ~Live(t), ProtocolUntilRenewal
  PROVE  ProtocolUntilRenewal'
<1>1. server = "idling" => renewed
  BY IdlingForSomebody
<1> QED BY <1>1, BreachAllowed DEF SendCommand

\* DONE where the server idles, or where the thread has renewed.
LEMMA DoneIsHeard ==
  ASSUME ProtocolUntilRenewal, NEW p, DoSendDone(p),
         prefix # "none" /\ ~kill /\ ~renewed => server = "idling"
  PROVE  ProtocolUntilRenewal'
<1>1. CASE prefix # "none" /\ ~kill
  <2>1. Breach("DONE", server # "idling")
    BY <1>1 DEF DoSendDone, SendDone
  <2> QED BY <1>1, <2>1, BreachAllowed
<1>2. CASE ~(prefix # "none" /\ ~kill)
  BY <1>2 DEF DoSendDone, ProtocolUntilRenewal
<1> QED BY <1>1, <1>2

LEMMA ProtocolStep ==
  IdleInv /\ QuietInv /\ StopInv /\ WireInv /\ ProtocolUntilRenewal /\ [Next]_vars => ProtocolUntilRenewal'
<1> SUFFICES ASSUME IdleInv, QuietInv, StopInv, WireInv, ProtocolUntilRenewal, [Next]_vars
             PROVE  ProtocolUntilRenewal'
  OBVIOUS
<1>0. /\ Types /\ LocksInv /\ ConnectInv /\ ThreadInv
      /\ pc \in [Actors -> ActorPc] /\ ipc \in [IdleThreads -> IdlePc]
      /\ resp \in [IdleThreads \cup Actors -> SUBSET Line]
      /\ Main \in Actors /\ Closer \in Actors /\ Main # Closer
      /\ Workers \subseteq Actors /\ Main \notin Workers /\ Closer \notin Workers
      /\ Nobody \notin Actors /\ Nobody \notin IdleThreads
      /\ \A a \in Actors : a \notin IdleThreads
  BY IdleAssumption DEF IdleInv, Types, ActorTypes, ThreadTypes, RespTypes, Actors
<1>1. ASSUME NEW w \in Workers, Begin(w) PROVE ProtocolUntilRenewal'
  BY <1>1, <1>0 DEF Begin, Go, lockVars, storeVars, confVars, threadVars, wireVars,
     history, ProtocolUntilRenewal
<1>2. ASSUME NEW a \in Workers \cup {Closer}, Enter(a) PROVE ProtocolUntilRenewal'
  BY <1>2, <1>0 DEF Enter, Go, Connect, storeVars, confVars, threadVars, wireVars,
     history, ProtocolUntilRenewal
<1>3. ASSUME NEW a \in Workers \cup {Closer}, Load(a) PROVE ProtocolUntilRenewal'
  BY <1>3, <1>0 DEF Load, Go, lockVars, storeVars, confVars, threadVars, wireVars,
     history, ProtocolUntilRenewal
<1>4. ASSUME NEW a \in Workers \cup {Closer}, Store(a) PROVE ProtocolUntilRenewal'
  BY <1>4, <1>0 DEF Store, Go, lockVars, storeVars, confVars, threadVars, wireVars,
     history, ProtocolUntilRenewal
<1>5. ASSUME NEW a \in Actors, Stop(a) PROVE ProtocolUntilRenewal'

  <2>1. Breach("last DONE", server # "idling") \/ UNCHANGED breaches
    BY <1>5 DEF Stop, SendDone
  <2>2. CASE UNCHANGED breaches
    BY <2>2 DEF ProtocolUntilRenewal
  <2> QED BY <2>1, <2>2, BreachAllowed
<1>6. ASSUME NEW a \in Actors, Lock(a) PROVE ProtocolUntilRenewal'
  BY <1>6, <1>0, StopTarget DEF Lock, Go, Stopped, SendsDone, confVars, threadVars,
     wireVars, history, ProtocolUntilRenewal
<1>7. ASSUME NEW a \in Actors, Send(a) PROVE ProtocolUntilRenewal'

  <2>1. CASE DoSendDone(a)
    <3>1. pc[a] = "send"
      BY <1>7 DEF Send
    <3>2. a # Main /\ ~done_happened /\ thread \in IdleThreads
      BY <1>0, <3>1 DEF StopInv, LocksInv, HasThread, Types, StoreTypes
    <3>3. ipc[thread] # "decide"
      BY <1>0, <3>1, <3>2, StopperHasConnection DEF Stopping, Holding
    <3>4. prefix # "none" /\ ~kill /\ ~renewed => server = "idling"
      BY <1>0, <3>2, <3>3 DEF WireInv
    <3> QED BY <1>0, <2>1, <3>4, DoneIsHeard
  <2>2. CASE UNCHANGED breaches
    BY <2>2 DEF ProtocolUntilRenewal
  <2> QED BY <1>7, <2>1, <2>2 DEF Send
<1>8. ASSUME NEW a \in Actors, Join(a) PROVE ProtocolUntilRenewal'
  BY <1>8, <1>0 DEF Join, Go, IGo, Gets, lockVars, storeVars, confVars, wireVars,
     ProtocolUntilRenewal
<1>9. ASSUME NEW a \in Actors, Clear(a) PROVE ProtocolUntilRenewal'
  BY <1>9, <1>0 DEF Clear, Go, Gets, lockVars, confVars, threadVars, wireVars,
     history, ProtocolUntilRenewal
<1>10. ASSUME NEW a \in Actors, Forget(a) PROVE ProtocolUntilRenewal'
  BY <1>10, <1>0, StopTarget DEF Forget, Go, Stopped, confVars, threadVars, wireVars,
     history, ProtocolUntilRenewal
<1>11. ASSUME NEW w \in Workers, Write(w) PROVE ProtocolUntilRenewal'

  <2>1. pc[w] = "write"
    BY <1>11 DEF Write
  <2>2. \A t \in IdleThreads : ~Live(t)
    BY <1>0, <2>1 DEF QuietInv, InArea
  <2>3. CASE UNCHANGED breaches
    BY <2>3 DEF ProtocolUntilRenewal
  <2> QED BY <1>11, <1>0, <2>2, <2>3, CommandIsHeard DEF Write
<1>12. ASSUME NEW a \in Workers \cup {Closer}, Unlock(a) PROVE ProtocolUntilRenewal'
  BY <1>12, <1>0 DEF Unlock, Go, storeVars, confVars, threadVars, wireVars, history,
     ProtocolUntilRenewal
<1>13. ASSUME NEW a \in Actors, Start(a) PROVE ProtocolUntilRenewal'
  BY <1>13, <1>0 DEF Start, Go, Started, storeVars, confVars, threadVars, wireVars,
     history, ProtocolUntilRenewal
<1>14. ASSUME NEW a \in Actors, Prefix(a) PROVE ProtocolUntilRenewal'
  BY <1>14, <1>0 DEF Prefix, Go, Started, storeVars, confVars, threadVars, wireVars,
     history, ProtocolUntilRenewal
<1>15. ASSUME NEW a \in Actors, Again(a) PROVE ProtocolUntilRenewal'
  BY <1>15, <1>0 DEF Again, Go, confVars, threadVars, wireVars, history,
     ProtocolUntilRenewal
<1>16. ASSUME NEW a \in Actors, Rejoin(a) PROVE ProtocolUntilRenewal'
  BY <1>16, <1>0 DEF Rejoin, Go, IGo, Gets, lockVars, confVars, wireVars, history,
     ProtocolUntilRenewal
<1>17. ASSUME NEW a \in Actors, Create(a) PROVE ProtocolUntilRenewal'
  BY <1>17, <1>0 DEF Create, Go, IGo, Started, MayCreate, confVars, wireVars, history,
     ProtocolUntilRenewal
<1>18. ASSUME NEW a \in Actors, Await(a) PROVE ProtocolUntilRenewal'
  BY <1>18, <1>0 DEF Await, Go, Started, storeVars, confVars, threadVars, wireVars,
     history, ProtocolUntilRenewal
<1>19. ASSUME NEW t \in IdleThreads, Spawned(t) PROVE ProtocolUntilRenewal'
  BY <1>19, <1>0 DEF Spawned, IGo, lockVars, storeVars, confVars, actorVars, wireVars,
     history, ProtocolUntilRenewal
<1>20. ASSUME NEW t \in IdleThreads, BeginIdle(t) PROVE ProtocolUntilRenewal'
  BY <1>20, <1>0 DEF BeginIdle, IGo, Reset, lockVars, confVars, actorVars, wireVars,
     history, ProtocolUntilRenewal
<1>21. ASSUME NEW t \in IdleThreads, Loop(t) PROVE ProtocolUntilRenewal'
  BY <1>21, <1>0 DEF Loop, IGo, lockVars, storeVars, confVars, actorVars, wireVars,
     history, ProtocolUntilRenewal
<1>22. ASSUME NEW t \in IdleThreads, Try(t) PROVE ProtocolUntilRenewal'
  BY <1>22, <1>0 DEF Try, IGo, storeVars, confVars, actorVars, wireVars, history,
     ProtocolUntilRenewal
<1>23. ASSUME NEW t \in IdleThreads, TryFails(t) PROVE ProtocolUntilRenewal'
  BY <1>23, <1>0 DEF TryFails, IGo, lockVars, storeVars, confVars, actorVars,
     wireVars, history, ProtocolUntilRenewal
<1>24. ASSUME NEW t \in IdleThreads, Pass(t) PROVE ProtocolUntilRenewal'

  <2>1. renewed \in BOOLEAN /\ thread = t
    BY <1>24, <1>0 DEF Pass, Live, ThreadInv, OneIdleThread, Types, HistoryTypes
  <2>2. first[t] => renewed \/ server # "idling"
    BY <1>0, <2>1, IdlingForSomebody
  <2>3. CASE Breach("IDLE", server = "idling") /\ first[t]
    BY <2>2, <2>3, BreachAllowed
  <2>4. CASE UNCHANGED breaches
    BY <2>4 DEF ProtocolUntilRenewal
  <2> QED BY <1>24, <2>3, <2>4 DEF Pass
<1>25. ASSUME NEW t \in IdleThreads, Tell(t) PROVE ProtocolUntilRenewal'
  BY <1>25, <1>0 DEF Tell, IGo, TellCreator, lockVars, storeVars, confVars, actorVars,
     wireVars, history, ProtocolUntilRenewal
<1>26. ASSUME NEW t \in IdleThreads, Body(t) PROVE ProtocolUntilRenewal'
  BY <1>26, <1>0 DEF Body, IGo, Gets, storeVars, confVars, actorVars, history,
     ProtocolUntilRenewal
<1>27. ASSUME NEW t \in IdleThreads, Done(t) PROVE ProtocolUntilRenewal'

  <2>1. ipc[t] = "done" /\ DoSendDone(t)
    BY <1>27 DEF Done
  <2> QED BY <1>0, <2>1, DoneIsHeard DEF WireInv
<1>28. ASSUME NEW t \in IdleThreads, Decide(t) PROVE ProtocolUntilRenewal'
  BY <1>28, <1>0 DEF Decide, IGo, Gets, confVars, actorVars, wireVars,
     ProtocolUntilRenewal
<1>29. ASSUME NEW t \in IdleThreads, After(t) PROVE ProtocolUntilRenewal'
  BY <1>29, <1>0 DEF After, IGo, TellCreator, lockVars, storeVars, confVars,
     actorVars, wireVars, history, ProtocolUntilRenewal
<1>30. ASSUME NEW t \in IdleThreads, Finish(t) PROVE ProtocolUntilRenewal'
  BY <1>30, <1>0 DEF Finish, IGo, lockVars, confVars, actorVars, wireVars, history,
     ProtocolUntilRenewal
<1>31. CASE StartIfUnlocked
  BY <1>31, <1>0 DEF StartIfUnlocked, Go, storeVars, confVars, threadVars, wireVars,
     history, ProtocolUntilRenewal
<1>32. CASE Close
  BY <1>32, <1>0 DEF Close, Go, storeVars, confVars, threadVars, wireVars, history,
     ProtocolUntilRenewal
<1>33. CASE LetIdleDie

  <2>1. Breach("last DONE", server # "idling") \/ UNCHANGED breaches
    BY <1>33 DEF LetIdleDie, SendDone
  <2>2. CASE UNCHANGED breaches
    BY <2>2 DEF ProtocolUntilRenewal
  <2> QED BY <2>1, <2>2, BreachAllowed
<1>34. CASE Logout

  <2>1. pc[Closer] = "logout" /\ SendCommand
    BY <1>34 DEF Logout
  <2>2. \A t \in IdleThreads : ~Live(t)
    BY <1>0, <2>1 DEF QuietInv, InArea
  <2> QED BY <1>0, <2>1, <2>2, CommandIsHeard
<1>35. CASE CloseStreams
  BY <1>35, <1>0 DEF CloseStreams, Go, lockVars, storeVars, threadVars, history,
     ProtocolUntilRenewal
<1>36. CASE Closed
  BY <1>36, <1>0 DEF Closed, Go, storeVars, confVars, threadVars, wireVars, history,
     ProtocolUntilRenewal
<1>37. ASSUME NEW b \in BOOLEAN, SetPush(b) PROVE ProtocolUntilRenewal'
  BY <1>37, <1>0 DEF SetPush, Go, lockVars, storeVars, threadVars, wireVars, history,
     ProtocolUntilRenewal
<1>38. ASSUME NEW b \in BOOLEAN, CanIdle(b) PROVE ProtocolUntilRenewal'
  BY <1>38, <1>0 DEF CanIdle, Go, AfterCall, lockVars, storeVars, threadVars,
     wireVars, history, ProtocolUntilRenewal
<1>39. ASSUME NEW l \in Line, Arrive(l) PROVE ProtocolUntilRenewal'
  BY <1>39, <1>0 DEF Arrive, lockVars, storeVars, confVars, threadVars, actorVars,
     history, ProtocolUntilRenewal
<1>40. CASE UNCHANGED vars
  BY <1>40, <1>0 DEF vars, lockVars, storeVars, confVars, threadVars, actorVars,
     wireVars, history, ProtocolUntilRenewal
<1> QED BY <1>1, <1>2, <1>3, <1>4, <1>5, <1>6, <1>7, <1>8, <1>9, <1>10, <1>11, <1>12,
      <1>13, <1>14, <1>15, <1>16, <1>17, <1>18, <1>19, <1>20, <1>21, <1>22, <1>23,
      <1>24, <1>25, <1>26, <1>27, <1>28, <1>29, <1>30, <1>31, <1>32, <1>33, <1>34,
      <1>35, <1>36, <1>37, <1>38, <1>39, <1>40 DEF Next, WorkerStep, MainStep,
      CloserStep, IdleStep, ActorStep, StopStep, StartStep, LockStep, Actors

LEMMA DroppedStep ==
  IdleInv /\ StopInv /\ TellInv /\ ContInv /\ NothingDropped /\ [Next]_vars => NothingDropped'
<1> SUFFICES ASSUME IdleInv, StopInv, TellInv, ContInv, NothingDropped, [Next]_vars
             PROVE  NothingDropped'
  OBVIOUS
<1>1. ASSUME NEW w \in Workers, Begin(w) PROVE NothingDropped'
  BY <1>1 DEF Begin, Go, lockVars, storeVars, confVars, threadVars, wireVars, history,
     NothingDropped
<1>2. ASSUME NEW a \in Workers \cup {Closer}, Enter(a) PROVE NothingDropped'
  BY <1>2 DEF Enter, Go, Connect, storeVars, confVars, threadVars, wireVars, history,
     NothingDropped
<1>3. ASSUME NEW a \in Workers \cup {Closer}, Load(a) PROVE NothingDropped'
  BY <1>3 DEF Load, Go, lockVars, storeVars, confVars, threadVars, wireVars, history,
     NothingDropped
<1>4. ASSUME NEW a \in Workers \cup {Closer}, Store(a) PROVE NothingDropped'
  BY <1>4 DEF Store, Go, lockVars, storeVars, confVars, threadVars, wireVars, history,
     NothingDropped
<1>5. ASSUME NEW a \in Actors, Stop(a) PROVE NothingDropped'
  BY <1>5, StopTarget DEF Stop, Go, Stopped, SendDone, confVars, threadVars, wireVars,
     NothingDropped
<1>6. ASSUME NEW a \in Actors, Lock(a) PROVE NothingDropped'
  BY <1>6, StopTarget DEF Lock, Go, Stopped, SendsDone, confVars, threadVars,
     wireVars, history, NothingDropped
<1>7. ASSUME NEW a \in Actors, Send(a) PROVE NothingDropped'
  BY <1>7 DEF Send, Go, Gets, DoSendDone, SendDone, lockVars, confVars, threadVars,
     NothingDropped
<1>8. ASSUME NEW a \in Actors, Join(a) PROVE NothingDropped'

  <2>1. pc[a] = "reap" => resp[thread] = {}
    BY DEF StopInv
  <2> QED BY <1>8, <2>1 DEF Join, NothingDropped
<1>9. ASSUME NEW a \in Actors, Clear(a) PROVE NothingDropped'
  BY <1>9 DEF Clear, Go, Gets, lockVars, confVars, threadVars, wireVars, history,
     NothingDropped
<1>10. ASSUME NEW a \in Actors, Forget(a) PROVE NothingDropped'
  BY <1>10, StopTarget DEF Forget, Go, Stopped, confVars, threadVars, wireVars,
     history, NothingDropped
<1>11. ASSUME NEW w \in Workers, Write(w) PROVE NothingDropped'
  BY <1>11 DEF Write, Go, SendCommand, lockVars, storeVars, threadVars, wireVars,
     NothingDropped
<1>12. ASSUME NEW a \in Workers \cup {Closer}, Unlock(a) PROVE NothingDropped'
  BY <1>12 DEF Unlock, Go, storeVars, confVars, threadVars, wireVars, history,
     NothingDropped
<1>13. ASSUME NEW a \in Actors, Start(a) PROVE NothingDropped'
  BY <1>13 DEF Start, Go, Started, storeVars, confVars, threadVars, wireVars, history,
     NothingDropped
<1>14. ASSUME NEW a \in Actors, Prefix(a) PROVE NothingDropped'
  BY <1>14 DEF Prefix, Go, Started, storeVars, confVars, threadVars, wireVars,
     history, NothingDropped
<1>15. ASSUME NEW a \in Actors, Again(a) PROVE NothingDropped'
  BY <1>15 DEF Again, Go, confVars, threadVars, wireVars, history, NothingDropped
<1>16. ASSUME NEW a \in Actors, Rejoin(a) PROVE NothingDropped'
  BY <1>16 DEF Rejoin, Go, IGo, Gets, lockVars, confVars, wireVars, history,
     NothingDropped
<1>17. ASSUME NEW a \in Actors, Create(a) PROVE NothingDropped'
  BY <1>17 DEF Create, Go, IGo, Started, MayCreate, confVars, wireVars, history,
     NothingDropped
<1>18. ASSUME NEW a \in Actors, Await(a) PROVE NothingDropped'
  BY <1>18 DEF Await, Go, Started, storeVars, confVars, threadVars, wireVars, history,
     NothingDropped
<1>19. ASSUME NEW t \in IdleThreads, Spawned(t) PROVE NothingDropped'
  BY <1>19 DEF Spawned, IGo, lockVars, storeVars, confVars, actorVars, wireVars,
     history, NothingDropped
<1>20. ASSUME NEW t \in IdleThreads, BeginIdle(t) PROVE NothingDropped'
  BY <1>20 DEF BeginIdle, IGo, Reset, lockVars, confVars, actorVars, wireVars,
     history, NothingDropped
<1>21. ASSUME NEW t \in IdleThreads, Loop(t) PROVE NothingDropped'
  BY <1>21 DEF Loop, IGo, lockVars, storeVars, confVars, actorVars, wireVars, history,
     NothingDropped
<1>22. ASSUME NEW t \in IdleThreads, Try(t) PROVE NothingDropped'
  BY <1>22 DEF Try, IGo, storeVars, confVars, actorVars, wireVars, history,
     NothingDropped
<1>23. ASSUME NEW t \in IdleThreads, TryFails(t) PROVE NothingDropped'
  BY <1>23 DEF TryFails, IGo, lockVars, storeVars, confVars, actorVars, wireVars,
     history, NothingDropped
<1>24. ASSUME NEW t \in IdleThreads, Pass(t) PROVE NothingDropped'
  BY <1>24 DEF Pass, IGo, lockVars, confVars, actorVars, NothingDropped
<1>25. ASSUME NEW t \in IdleThreads, Tell(t) PROVE NothingDropped'
  BY <1>25 DEF Tell, IGo, TellCreator, lockVars, storeVars, confVars, actorVars,
     wireVars, history, NothingDropped
<1>26. ASSUME NEW t \in IdleThreads, Body(t) PROVE NothingDropped'
  BY <1>26 DEF Body, IGo, Gets, storeVars, confVars, actorVars, history,
     NothingDropped
<1>27. ASSUME NEW t \in IdleThreads, Done(t) PROVE NothingDropped'
  BY <1>27 DEF Done, IGo, DoSendDone, SendDone, Gets, lockVars, storeVars, confVars,
     actorVars, NothingDropped
<1>28. ASSUME NEW t \in IdleThreads, Decide(t) PROVE NothingDropped'

  <2>1. told[t]
    BY <1>28 DEF TellInv, Live, Decide
  <2>2. cont => prefix # "none"
    BY <1>28, <2>1 DEF ContInv, Live, Decide
  <2> QED BY <1>28, <2>2 DEF Decide, NothingDropped
<1>29. ASSUME NEW t \in IdleThreads, After(t) PROVE NothingDropped'
  BY <1>29 DEF After, IGo, TellCreator, lockVars, storeVars, confVars, actorVars,
     wireVars, history, NothingDropped
<1>30. ASSUME NEW t \in IdleThreads, Finish(t) PROVE NothingDropped'
  BY <1>30 DEF Finish, IGo, lockVars, confVars, actorVars, wireVars, history,
     NothingDropped
<1>31. CASE StartIfUnlocked
  BY <1>31 DEF StartIfUnlocked, Go, storeVars, confVars, threadVars, wireVars,
     history, NothingDropped
<1>32. CASE Close
  BY <1>32 DEF Close, Go, storeVars, confVars, threadVars, wireVars, history,
     NothingDropped
<1>33. CASE LetIdleDie
  BY <1>33 DEF LetIdleDie, Go, SendDone, lockVars, confVars, threadVars, wireVars,
     NothingDropped
<1>34. CASE Logout
  BY <1>34 DEF Logout, Go, SendCommand, lockVars, storeVars, confVars, threadVars,
     NothingDropped
<1>35. CASE CloseStreams
  BY <1>35 DEF CloseStreams, Go, lockVars, storeVars, threadVars, history,
     NothingDropped
<1>36. CASE Closed
  BY <1>36 DEF Closed, Go, storeVars, confVars, threadVars, wireVars, history,
     NothingDropped
<1>37. ASSUME NEW b \in BOOLEAN, SetPush(b) PROVE NothingDropped'
  BY <1>37 DEF SetPush, Go, lockVars, storeVars, threadVars, wireVars, history,
     NothingDropped
<1>38. ASSUME NEW b \in BOOLEAN, CanIdle(b) PROVE NothingDropped'
  BY <1>38 DEF CanIdle, Go, AfterCall, lockVars, storeVars, threadVars, wireVars,
     history, NothingDropped
<1>39. ASSUME NEW l \in Line, Arrive(l) PROVE NothingDropped'
  BY <1>39 DEF Arrive, lockVars, storeVars, confVars, threadVars, actorVars, history,
     NothingDropped
<1>40. CASE UNCHANGED vars
  BY <1>40 DEF vars, lockVars, storeVars, confVars, threadVars, actorVars, wireVars,
     history, NothingDropped
<1> QED BY <1>1, <1>2, <1>3, <1>4, <1>5, <1>6, <1>7, <1>8, <1>9, <1>10, <1>11, <1>12,
      <1>13, <1>14, <1>15, <1>16, <1>17, <1>18, <1>19, <1>20, <1>21, <1>22, <1>23,
      <1>24, <1>25, <1>26, <1>27, <1>28, <1>29, <1>30, <1>31, <1>32, <1>33, <1>34,
      <1>35, <1>36, <1>37, <1>38, <1>39, <1>40 DEF Next, WorkerStep, MainStep,
      CloserStep, IdleStep, ActorStep, StopStep, StartStep, LockStep, Actors

----------------------------------------------------------------------------
(* All of it at all times, and what it is for.                             *)

WireAll == StopInv /\ BareInv /\ TellInv /\ ContInv /\ RespInv /\ WireInv

LEMMA WireAllStep == IdleInv /\ CountInv /\ QuietInv /\ WireAll /\ [Next]_vars => WireAll'
BY StopInvStep, BareInvStep, TellInvStep, ContInvStep, RespInvStep, WireInvStep DEF WireAll

LEMMA WireAlways ==
  ASSUME ~LostUpdates
  PROVE  Spec => [](IdleInv /\ CountInv /\ QuietInv /\ WireAll)
<1>1. Init => WireAll
  <2> SUFFICES ASSUME Init PROVE WireAll
    OBVIOUS
  <2>1. \A a \in Actors : pc[a] = "free"
    BY DEF Init
  <2>2. \A t \in IdleThreads : ipc[t] = "none" /\ resp[t] = {}
    BY DEF Init
  <2>3. ~kill /\ ~cont /\ ~done_happened /\ prefix = "none" /\ server = "ready" /\ thread = Nobody
    BY DEF Init
  <2>4. StopInv /\ BareInv
    BY <2>1, <2>2, <2>3 DEF StopInv, BareInv, Bare
  <2>5. TellInv /\ ContInv /\ RespInv
    BY <2>2, <2>3 DEF TellInv, ContInv, RespInv, Live, Fresh
  <2> QED BY <2>3, <2>4, <2>5 DEF WireInv, WireAll
<1> QED BY <1>1, WireAllStep, QuietAlways, PTL DEF Spec

\* Until an idle thread renews its IDLE, commands go to a server that listens, DONE to one
\* that idles, IDLE to one that does not: whoever stops, starts, closes or switches push.
THEOREM ListenersListen ==
  ASSUME ~LostUpdates
  PROVE  Spec => []ProtocolUntilRenewal
<1>1. Init => ProtocolUntilRenewal
  BY DEF Init, ProtocolUntilRenewal
<1>2. IdleInv /\ CountInv /\ QuietInv /\ WireAll /\ ProtocolUntilRenewal /\ [Next]_vars =>
        ProtocolUntilRenewal'
  BY ProtocolStep DEF WireAll
<1> QED BY <1>1, <1>2, WireAlways, PTL DEF Spec

\* What the server says while it idles is processed: a thread that renews still has its
\* idle_prefix, and one that is joined after DONE was sent in its place has read nothing.
THEOREM LinesAreProcessed ==
  ASSUME ~LostUpdates
  PROVE  Spec => []NothingDropped
<1>1. Init => NothingDropped
  BY DEF Init, NothingDropped
<1>2. IdleInv /\ CountInv /\ QuietInv /\ WireAll /\ NothingDropped /\ [Next]_vars =>
        NothingDropped'
  BY DroppedStep DEF WireAll
<1> QED BY <1>1, <1>2, WireAlways, PTL DEF Spec
=============================================================================
