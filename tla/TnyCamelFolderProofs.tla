----------------------- MODULE TnyCamelFolderProofs -----------------------
(***************************************************************************)
(* Proofs about TnyCamelFolder, for every set of messages, headers and     *)
(* changes: the types, what reason_to_live counts, where the CamelFolder   *)
(* is loaded and when it is not, and what the list shows in the end.       *)
(*                                                                         *)
(* All of it holds if no update of reason_to_live is lost, which is an     *)
(* assumption of each theorem.                                             *)
(*                                                                         *)
(* The inductive invariant is built in parts, each of which needs those    *)
(* before it: where the threads are and who has which lock, who has        *)
(* counted a reason for a call, which thread delivers an event, that there *)
(* are headers left for what is on its way, who has which change and which *)
(* header, what reason_to_live counts, and where the folder is loaded.     *)
(* What the list shows rests on the order of the changes on their way.     *)
(***************************************************************************)
EXTENDS TnyCamelFolder, FiniteSetTheorems, TLAPS

----------------------------------------------------------------------------
(* Threads, finite sets and the operators of the model.                    *)

\* The three threads are three.
LEMMA ThreadsDiffer ==
  /\ Main # Worker /\ Main # Push /\ Worker # Push
  /\ Nothing # Main /\ Nothing # Worker /\ Nothing # Push
  /\ Nothing \notin Uids /\ Nothing \notin Changes
<1>1. \A x, y : IsFiniteSet({x, y}) /\ Cardinality({x, y}) <= 2
  <2> SUFFICES ASSUME NEW x, NEW y PROVE IsFiniteSet({x, y}) /\ Cardinality({x, y}) <= 2
    OBVIOUS
  <2>1. IsFiniteSet({x}) /\ Cardinality({x}) = 1
    BY FS_Singleton
  <2>2. {x, y} = {x} \cup {y}
    OBVIOUS
  <2>3. /\ IsFiniteSet({x} \cup {y})
        /\ Cardinality({x} \cup {y}) = IF y \in {x} THEN Cardinality({x}) ELSE Cardinality({x}) + 1
    BY <2>1, FS_AddElement
  <2> QED BY <2>1, <2>2, <2>3
<1>2. Cardinality(Threads) = 3
  BY FolderAssumption
<1>3. ~ Cardinality(Threads) <= 2
  BY <1>2
<1>4. Main # Worker
  <2> SUFFICES ASSUME Main = Worker PROVE FALSE
    OBVIOUS
  <2>1. Threads = {Main, Push}
    BY DEF Threads
  <2> QED BY <1>1, <1>3, <2>1
<1>5. Main # Push
  <2> SUFFICES ASSUME Main = Push PROVE FALSE
    OBVIOUS
  <2>1. Threads = {Main, Worker}
    BY DEF Threads
  <2> QED BY <1>1, <1>3, <2>1
<1>6. Worker # Push
  <2> SUFFICES ASSUME Worker = Push PROVE FALSE
    OBVIOUS
  <2>1. Threads = {Main, Worker}
    BY DEF Threads
  <2> QED BY <1>1, <1>3, <2>1
<1> QED BY <1>4, <1>5, <1>6, FolderAssumption DEF Threads

\* The cases of AtZero, one by one.
LEMMA AtZeroCases ==
  ASSUME folder \in BOOLEAN, capable \in BOOLEAN
  PROVE  /\ ~folder \/ (capable /\ KeptByPush) => AtZero = "nothing"
         /\ folder /\ ~capable => AtZero = "uncache_nl"
         /\ folder /\ capable /\ ~KeptByPush => AtZero = "uncache"
<1>1. ~folder \/ (capable /\ KeptByPush) => AtZero = "nothing"
  BY Zenon DEF AtZero
<1>2. folder /\ ~capable => AtZero = "uncache_nl"
  BY Zenon DEF AtZero
<1>3. folder /\ capable /\ ~KeptByPush => AtZero = "uncache"
  BY Zenon DEF AtZero
<1> QED BY <1>1, <1>2, <1>3

\* A function into a finite set that is injective exists if the set is large enough.
LEMMA InjectionExists ==
  ASSUME NEW S, NEW T, IsFiniteSet(S), IsFiniteSet(T), Cardinality(S) <= Cardinality(T)
  PROVE  \E g \in [S -> T] : \A u, v \in S : u # v => g[u] # g[v]
<1>1. /\ Cardinality(S) \in Nat /\ Cardinality(T) \in Nat
      /\ ExistsBijection(1..Cardinality(S), S) /\ ExistsBijection(1..Cardinality(T), T)
  BY FS_CardinalityType
<1> DEFINE m == Cardinality(S)
<1> DEFINE n == Cardinality(T)
<1>2. PICK b : b \in Bijection(1..m, S)
  BY <1>1 DEF ExistsBijection
<1>3. PICK c : c \in Bijection(1..n, T)
  BY <1>1 DEF ExistsBijection
<1>4. m \in Nat /\ n \in Nat /\ m <= n
  BY <1>1
<1> HIDE DEF m, n
<1>5. /\ b \in [1..m -> S] /\ \A s \in S : \E i \in 1..m : b[i] = s
  BY <1>2 DEF Bijection, Injection, Surjection, IsInjective
<1>6. /\ c \in [1..n -> T] /\ \A i, j \in 1..n : c[i] = c[j] => i = j
  BY <1>3 DEF Bijection, Injection, Surjection, IsInjective
<1> DEFINE at(s) == CHOOSE i \in 1..m : b[i] = s
<1>7. \A s \in S : at(s) \in 1..m /\ b[at(s)] = s
  BY <1>5
<1>8. \A s \in S : at(s) \in 1..n
  BY <1>4, <1>7
<1>9. \A u, v \in S : u # v => at(u) # at(v)
  BY <1>7
<1> HIDE DEF at
<1> DEFINE g == [s \in S |-> c[at(s)]]
<1>10. g \in [S -> T]
  BY <1>6, <1>8
<1>11. \A u, v \in S : u # v => g[u] # g[v]
  BY <1>6, <1>8, <1>9
<1> HIDE DEF g
<1> QED BY <1>10, <1>11

\* PickFresh picks a header for each message if there are enough left.
LEMMA PickFreshFacts ==
  ASSUME NEW us \in SUBSET Uids, Enough(Cardinality(us))
  PROVE  /\ PickFresh(us) \in [us -> Headers \ Alive]
         /\ \A u, v \in us : u # v => PickFresh(us)[u] # PickFresh(us)[v]
<1> DEFINE S == us
           T == Headers \ Alive
<1>1. IsFiniteSet(S) /\ Cardinality(S) \in Nat
  BY FolderAssumption, FS_Subset, FS_CardinalityType
<1>2. IsFiniteSet(T) /\ Cardinality(T) \in Nat
  BY FolderAssumption, FS_Difference, FS_CardinalityType
<1>3. Cardinality(S) <= Cardinality(T)
  BY <1>1, <1>2 DEF Enough
<1>4. \E g \in [S -> T] : \A u, v \in S : u # v => g[u] # g[v]
  BY <1>1, <1>2, <1>3, InjectionExists
<1> QED BY <1>4 DEF PickFresh

\* What is true of headers that are born: they are new, and as many as the messages.
LEMMA BornFacts ==
  ASSUME uid \in [Headers -> Uids \cup {Nothing}], NEW us \in SUBSET Uids,
         NEW g \in [us -> Headers \ Alive], \A u, v \in us : u # v => g[u] # g[v],
         uid' = Born(g)
  PROVE  /\ uid' \in [Headers -> Uids \cup {Nothing}]
         /\ Range(g) \subseteq Headers \ Alive
         /\ \A u \in us : uid'[g[u]] = u
         /\ \A h \in Headers \ Range(g) : uid'[h] = uid[h]
         /\ Alive' = Alive \cup Range(g)
<1>1. Range(g) = {g[u] : u \in us} /\ DOMAIN g = us
  BY DEF Range
<1>2. \A u \in us : g[u] \in Headers \ Alive
  OBVIOUS
<1>3. Range(g) \subseteq Headers \ Alive
  BY <1>1, <1>2
<1>4. \A u \in us : (CHOOSE v \in us : g[v] = g[u]) = u
  <2> SUFFICES ASSUME NEW u \in us PROVE (CHOOSE v \in us : g[v] = g[u]) = u
    OBVIOUS
  <2>1. \E v \in us : g[v] = g[u]
    OBVIOUS
  <2>2. /\ (CHOOSE v \in us : g[v] = g[u]) \in us
        /\ g[CHOOSE v \in us : g[v] = g[u]] = g[u]
    BY <2>1
  <2> QED BY <2>2
<1>5. uid' = [h \in Headers |-> IF h \in Range(g) THEN CHOOSE u \in us : g[u] = h ELSE uid[h]]
  BY <1>1 DEF Born
<1>6. \A u \in us : uid'[g[u]] = u
  BY <1>1, <1>2, <1>4, <1>5
<1>7. \A h \in Headers \ Range(g) : uid'[h] = uid[h]
  BY <1>5
<1>8. uid' \in [Headers -> Uids \cup {Nothing}]
  <2>1. \A h \in Headers : uid'[h] \in Uids \cup {Nothing}
    <3> SUFFICES ASSUME NEW h \in Headers PROVE uid'[h] \in Uids \cup {Nothing}
      OBVIOUS
    <3>1. CASE h \in Range(g)
      BY <1>1, <1>6, <3>1
    <3>2. CASE h \notin Range(g)
      BY <1>7, <3>2
    <3> QED BY <3>1, <3>2
  <2>2. uid' = [h \in Headers |-> uid'[h]]
    BY <1>5
  <2> QED BY <2>1, <2>2
<1>9. Alive' = Alive \cup Range(g)
  <2>1. \A h \in Range(g) : uid'[h] # Nothing
    BY <1>1, <1>6, ThreadsDiffer
  <2>2. \A h \in Headers : h \in Alive' <=> h \in Alive \/ h \in Range(g)
    BY <1>3, <1>7, <2>1 DEF Alive
  <2> QED BY <1>3, <2>2 DEF Alive
<1> QED BY <1>3, <1>6, <1>7, <1>8, <1>9

\* How many they are.
LEMMA BornCount ==
  ASSUME NEW us \in SUBSET Uids, NEW g \in [us -> Headers \ Alive],
         \A u, v \in us : u # v => g[u] # g[v], Alive' = Alive \cup Range(g)
  PROVE  /\ Cardinality(Range(g)) = Cardinality(us)
         /\ Cardinality(Range(g)) \in Nat
         /\ Cardinality(Alive') = Cardinality(Alive) + Cardinality(us)
         /\ Cardinality(Headers \ Alive') = Cardinality(Headers \ Alive) - Cardinality(us)
<1>1. IsFiniteSet(us) /\ Cardinality(us) \in Nat
  BY FolderAssumption, FS_Subset, FS_CardinalityType
<1>2. Range(g) = {g[u] : u \in us} /\ DOMAIN g = us
  BY DEF Range
<1>3. g \in Bijection(us, Range(g))
  BY <1>2 DEF Bijection, Injection, Surjection, IsInjective
<1>4. IsFiniteSet(Range(g)) /\ Cardinality(Range(g)) = Cardinality(us)
  <2>1. ExistsBijection(us, Range(g))
    BY <1>3 DEF ExistsBijection
  <2> QED BY <1>1, <2>1, FS_Bijection
<1>5. Range(g) \subseteq Headers \ Alive
  BY <1>2
<1>6. IsFiniteSet(Alive) /\ Cardinality(Alive) \in Nat
  <2>1. Alive \in SUBSET Headers
    BY DEF Alive
  <2> QED BY <2>1, FolderAssumption, FS_Subset, FS_CardinalityType
<1>7. IsFiniteSet(Headers \ Alive) /\ Cardinality(Headers \ Alive) \in Nat
  BY FolderAssumption, FS_Difference, FS_CardinalityType
<1>8. Cardinality(Alive \cup Range(g)) = Cardinality(Alive) + Cardinality(us)
  <2>1. Cardinality(Alive \cup Range(g))
          = Cardinality(Alive) + Cardinality(Range(g)) - Cardinality(Alive \cap Range(g))
    BY <1>4, <1>6, FS_Union
  <2>2. Alive \cap Range(g) = {}
    BY <1>5
  <2>3. Cardinality(Alive \cap Range(g)) = 0
    BY <2>2, FS_EmptySet
  <2> QED BY <1>1, <1>4, <1>6, <2>1, <2>3
<1>9. Cardinality(Headers \ (Alive \cup Range(g))) = Cardinality(Headers \ Alive) - Cardinality(us)
  <2> DEFINE F == Headers \ Alive
  <2>1. Cardinality(F \ Range(g)) = Cardinality(F) - Cardinality(F \cap Range(g))
    BY <1>7, FS_Difference
  <2>2. F \cap Range(g) = Range(g)
    BY <1>5
  <2>3. F \ Range(g) = Headers \ (Alive \cup Range(g))
    OBVIOUS
  <2> QED BY <1>4, <2>1, <2>2, <2>3
<1> QED BY <1>1, <1>4, <1>8, <1>9

----------------------------------------------------------------------------
(* Who is where, and who has which lock.                                   *)

\* TypeOK in the parts that belong together; depth is an integer first, and
\* reason_to_live is not known to be one but by what it counts.  No update of it is lost.
LifeTypes == /\ ~LostUpdates
             /\ folder \in BOOLEAN /\ capable \in BOOLEAN /\ push \in BOOLEAN
             /\ dont_fkill \in BOOLEAN /\ handle_changes \in BOOLEAN
             /\ old \in [Threads -> BOOLEAN]
LockTypes == /\ reason_lock \in Threads \cup {Nothing}
             /\ folder_lock \in Threads \cup {Nothing} /\ depth \in Int
ThreadTypes ==
  /\ pc \in [Threads -> ThreadPc] /\ after \in [Threads -> ThreadPc]
  /\ then \in [Threads -> ThreadPc] /\ wanted \in [Threads -> Ask \cup {"none"}]
  /\ reasoned \subseteq Threads /\ request \in {"none", "queued", "running", "done"}

\* A thread that counts a reason down is unloading the folder; one in a call or
\* a request has folder_lock for it.
Unloading(t) == pc[t] \in {"uncache", "join"}
FreesHeaders(t) == pc[t] = "finalize" \/ (Unloading(t) /\ then[t] = "finalize")
InCall(t) ==
  /\ t # Push
  /\ \/ pc[t] \in {"load", "reason", "refresh", "fill", "lower", "unlock"}
     \/ Delivering(t)
     \/ Unloading(t) /\ then[t] = "unlock"
Inner(t) == pc[t] \in {"build", "join"}
Holds(t) == (IF InCall(t) THEN 1 ELSE 0) + (IF Inner(t) THEN 1 ELSE 0)

LocksInv ==
  /\ folder_lock = Nothing => depth = 0
  /\ \A t \in Threads : folder_lock = t <=> InCall(t) \/ Inner(t)
  /\ \A t \in Threads : folder_lock = t => depth = Holds(t)
  /\ \A t \in Threads : reason_lock = t <=> Unloading(t)

\* Where a thread goes on after it has freed headers or unloaded the folder.
PlacesInv ==
  /\ ~capable => pc[Push] = "free"
  /\ \A t \in Threads :
    /\ FreesHeaders(t) => after[t] \in {"restore", "settle", "free"}
    /\ pc[t] = "restore" => after[t] = "restore"
    /\ pc[t] = "settle" => after[t] = "settle"
    /\ ~FreesHeaders(t) /\ pc[t] \notin {"restore", "settle"} => after[t] = "free"
    /\ Unloading(t) => then[t] \in {"finalize", "unlock", "free"}
    /\ t # Main => /\ pc[t] \notin {"settle", "flag", "size", "measure"} /\ (Unloading(t) => then[t] # "free")
                   /\ (FreesHeaders(t) => after[t] = "restore")
    /\ t = Push => /\ pc[t] \notin {"lock", "load", "reason", "refresh", "fill", "lower",
                                    "unlock"}
                   /\ (Unloading(t) => then[t] = "finalize")
    /\ ~capable => ~Unloading(t)

ControlTypes == LifeTypes /\ LockTypes /\ ThreadTypes
ControlInv   == ControlTypes /\ LocksInv /\ PlacesInv

\* What _tny_camel_folder_unreason does: it keeps the folder, unloads it without the
\* lock, or goes on to unload it with the lock.
LEMMA UnreasonCases ==
  ASSUME LifeTypes, NEW t, NEW to, Unreason(t, to)
  PROVE  /\ reason_lock = Nothing /\ reason_to_live' = reason_to_live - 1
         /\ UNCHANGED <<capable, push, dont_fkill, folder_lock, depth>>
         /\ \/ /\ reason_lock' = t /\ Go(t, "uncache") /\ then' = [then EXCEPT ![t] = to]
               /\ UNCHANGED folder /\ capable /\ folder /\ reason_to_live' = 0
            \/ /\ Go(t, to) /\ UNCHANGED <<reason_lock, then>>
               /\ \/ reason_to_live' # 0 /\ UNCHANGED folder
                  \/ (~folder \/ capable) /\ UNCHANGED folder
                  \/ reason_to_live' = 0 /\ folder /\ ~capable /\ folder' = dont_fkill
<1>1. folder \in BOOLEAN /\ capable \in BOOLEAN
  BY DEF LifeTypes
<1>2. /\ reason_lock = Nothing /\ reason_to_live' = reason_to_live - 1
      /\ UNCHANGED <<capable, push, dont_fkill, folder_lock, depth>>
  BY DEF Unreason, LifeTypes
<1> DEFINE does == IF reason_to_live' = 0 THEN AtZero ELSE "nothing"
<1>3. IF does = "uncache"
      THEN /\ reason_lock' = t /\ Go(t, "uncache") /\ then' = [then EXCEPT ![t] = to]
           /\ UNCHANGED folder
      ELSE /\ folder' = IF does = "uncache_nl" THEN dont_fkill ELSE folder
           /\ Go(t, to) /\ UNCHANGED <<reason_lock, then>>
  BY Zenon DEF Unreason
<1>4. CASE reason_to_live' # 0
  <2>1. does = "nothing"
    BY <1>1, <1>2, <1>4
  <2> HIDE DEF does
  <2> QED BY <1>2, <1>3, <1>4, <2>1
<1>5. CASE reason_to_live' = 0 /\ (~folder \/ (capable /\ KeptByPush))
  <2>1. AtZero = "nothing"
    BY <1>1, <1>5, AtZeroCases
  <2>2. does = "nothing"
    BY <2>1
  <2> HIDE DEF does
  <2> QED BY <1>2, <1>3, <1>5, <2>2
<1>6. CASE reason_to_live' = 0 /\ folder /\ ~capable
  <2>1. AtZero = "uncache_nl"
    BY <1>1, <1>6, AtZeroCases
  <2>2. does = "uncache_nl"
    BY <1>1, <1>2, <1>6, <2>1
  <2> HIDE DEF does
  <2> QED BY <1>2, <1>3, <1>6, <2>2
<1>7. CASE reason_to_live' = 0 /\ folder /\ capable /\ ~KeptByPush
  <2>1. AtZero = "uncache"
    BY <1>1, <1>7, AtZeroCases
  <2>2. does = "uncache"
    BY <1>1, <1>2, <1>7, <2>1
  <2> HIDE DEF does
  <2> QED BY <1>2, <1>3, <1>7, <2>2
<1> QED BY <1>1, <1>4, <1>5, <1>6, <1>7

\* What _tny_camel_folder_reason does.
LEMMA ReasonIs ==
  ASSUME LifeTypes, NEW n, Reason(n)
  PROVE  reason_to_live' = reason_to_live + n
BY DEF LifeTypes, Reason

\* A call reads the size of the folder after it has freed the lock.
LEMMA SizeCases ==
  ASSUME NEW t, LocalSize(t) \/ Measure(t)
  PROVE  /\ pc[t] \in {"size", "measure"}
         /\ UNCHANGED <<folder, capable, push, dont_fkill, handle_changes>>
         /\ UNCHANGED <<reason_lock, folder_lock, depth>>
         /\ UNCHANGED <<content, known, view, list, uid, added, expunged>>
         /\ UNCHANGED <<request, reasoned, after, then, event, change, old, missed, dropped>>
         /\ \/ /\ Go(t, "measure") /\ folder
               /\ UNCHANGED <<wanted, reason_to_live, pending>>
            \/ /\ Go(t, "free") /\ wanted' = [wanted EXCEPT ![t] = "none"]
               /\ Notice(Nothing) \/ UNCHANGED <<reason_to_live, pending>>
<1> USE DEF lifeVars, lockVars, mailVars, viewVars, headerVars, eventVars
<1>1. CASE Measure(t)
  BY <1>1 DEF Measure, Returns
<1>2. CASE LocalSize(t) /\ folder
  BY <1>2 DEF LocalSize
<1>3. CASE LocalSize(t) /\ ~folder
  BY <1>3 DEF LocalSize, Returns
<1> QED BY <1>1, <1>2, <1>3

\* A refresh finds a change or none.
LEMMA RefreshCases ==
  ASSUME NEW t, Refresh(t)
  PROVE  /\ pc[t] = "refresh" /\ pc[Push] = "free"
         /\ Go(t, "tell") \/ Go(t, GoesOn(t))
BY DEF Refresh, Change

\* Every step keeps the types of what controls the threads.
LEMMA ControlTypesStep == ControlTypes /\ [Next]_vars => ControlTypes'
<1> SUFFICES ASSUME ControlTypes, [Next]_vars PROVE ControlTypes'
  OBVIOUS
<1>1. ASSUME Open PROVE ControlTypes'
  BY <1>1, ThreadsDiffer DEF Open, lockVars, lifeVars, askVars, eventVars, ControlTypes,
     LifeTypes, LockTypes, ThreadTypes, ThreadPc, Ask, Threads
<1>2. ASSUME Close PROVE ControlTypes'
  BY <1>2, ThreadsDiffer DEF Close, Go, lockVars, lifeVars, askVars, eventVars,
     ControlTypes, LifeTypes, LockTypes, ThreadTypes, ThreadPc, Ask, Threads
<1>3. ASSUME SetFlag PROVE ControlTypes'
  BY <1>3, ThreadsDiffer DEF SetFlag, Go, lockVars, lifeVars, askVars, eventVars,
     ControlTypes, LifeTypes, LockTypes, ThreadTypes, ThreadPc, Ask, Threads
<1>4. ASSUME NEW kind \in Ask, Launch(kind) PROVE ControlTypes'
  BY <1>4, ThreadsDiffer DEF Launch, Wish, Reason, lockVars, lifeVars, eventVars,
     ControlTypes, LifeTypes, LockTypes, ThreadTypes, ThreadPc, Ask, Threads
<1>5. ASSUME NEW kind \in Ask, Call(kind) PROVE ControlTypes'
  BY <1>5, ThreadsDiffer DEF Call, Wish, Go, lockVars, lifeVars, eventVars,
     ControlTypes, LifeTypes, LockTypes, ThreadTypes, ThreadPc, Ask, Threads
<1>6. ASSUME PushEvent PROVE ControlTypes'
  BY <1>6, ThreadsDiffer DEF PushEvent, Change, Go, lockVars, lifeVars, askVars,
     ControlTypes, LifeTypes, LockTypes, ThreadTypes, ThreadPc, Ask, Threads
<1>7. ASSUME Notify PROVE ControlTypes'
  BY <1>7, ThreadsDiffer DEF Notify, Go, lockVars, lifeVars, askVars, eventVars,
     ControlTypes, LifeTypes, LockTypes, ThreadTypes, ThreadPc, Ask, Threads
<1>8. ASSUME Done PROVE ControlTypes'
  BY <1>8, ThreadsDiffer DEF Done, Go, lockVars, lifeVars, eventVars, ControlTypes,
     LifeTypes, LockTypes, ThreadTypes, ThreadPc, Ask, Threads
<1>9. ASSUME NEW t \in Threads, Lock(t) PROVE ControlTypes'
  BY <1>9, ThreadsDiffer DEF Lock, Go, TakeLock, MayLock, lifeVars, askVars, eventVars,
     ControlTypes, LifeTypes, LockTypes, ThreadTypes, ThreadPc, Ask, Threads
<1>10. ASSUME NEW t \in Threads, Load(t) PROVE ControlTypes'
  BY <1>10, ThreadsDiffer DEF Load, Go, lockVars, askVars, eventVars, ControlTypes,
     LifeTypes, LockTypes, ThreadTypes, ThreadPc, Ask, Threads, Watching
<1>11. ASSUME NEW t \in Threads, LoadFails(t) PROVE ControlTypes'
  BY <1>11, ThreadsDiffer DEF LoadFails, Go, lockVars, lifeVars, eventVars,
     ControlTypes, LifeTypes, LockTypes, ThreadTypes, ThreadPc, Ask, Threads
<1>12. ASSUME NEW t \in Threads, CountCall(t) PROVE ControlTypes'
  BY <1>12, ThreadsDiffer DEF CountCall, Go, Reason, lockVars, lifeVars, eventVars,
     ControlTypes, LifeTypes, LockTypes, ThreadTypes, ThreadPc, Ask, Threads
<1>13. ASSUME NEW t \in Threads, Refresh(t) PROVE ControlTypes'
  BY <1>13, ThreadsDiffer, RefreshCases DEF Refresh, Go, GoesOn, lockVars, lifeVars,
     askVars, ControlTypes, LifeTypes, LockTypes, ThreadTypes, ThreadPc, Ask, Threads
<1>14. ASSUME NEW t \in Threads, Fill(t) PROVE ControlTypes'
  BY <1>14, ThreadsDiffer DEF Fill, Go, lockVars, lifeVars, askVars,
     eventVars, ControlTypes, LifeTypes, LockTypes, ThreadTypes, ThreadPc, Ask, Threads
<1>15. ASSUME NEW t \in Threads, Lower(t) PROVE ControlTypes'
  <2>1. /\ Unreason(t, "unlock") /\ pc[t] = "lower" /\ reasoned' = reasoned \ {t}
        /\ UNCHANGED <<handle_changes, request, wanted, after, old>>
    BY <1>15 DEF Lower, eventVars
  <2> QED
    BY <2>1, UnreasonCases, ThreadsDiffer DEF Go, ControlTypes, LifeTypes, LockTypes,
       ThreadTypes, ThreadPc, Ask, Threads
<1>16. ASSUME NEW t \in Threads, Unlock(t) PROVE ControlTypes'
  BY <1>16, ThreadsDiffer DEF Unlock, Go, FreeLock, lifeVars, eventVars,
     ControlTypes, LifeTypes, LockTypes, ThreadTypes, ThreadPc, Ask, Threads
<1>17. ASSUME NEW t \in Threads, Tell(t) PROVE ControlTypes'
  BY <1>17, ThreadsDiffer DEF Tell, Go, GoesOn, lockVars, lifeVars, askVars,
     ControlTypes, LifeTypes, LockTypes, ThreadTypes, ThreadPc, Ask, Threads
<1>18. ASSUME NEW t \in Threads, TryLock(t) PROVE ControlTypes'
  BY <1>18, ThreadsDiffer DEF TryLock, Go, GoesOn, TakeLock, MayLock, lifeVars, askVars,
     ControlTypes, LifeTypes, LockTypes, ThreadTypes, ThreadPc, Ask, Threads
<1>19. ASSUME NEW t \in Threads, Build(t) PROVE ControlTypes'
  BY <1>19, ThreadsDiffer DEF Build, Go, FreeLock, lifeVars, askVars,
     ControlTypes, LifeTypes, LockTypes, ThreadTypes, ThreadPc, Ask, Threads
<1>20. ASSUME NEW t \in Threads, Keep(t) PROVE ControlTypes'
  BY <1>20, ThreadsDiffer DEF Keep, Go, lockVars, askVars, eventVars, ControlTypes,
     LifeTypes, LockTypes, ThreadTypes, ThreadPc, Ask, Threads
<1>21. ASSUME NEW t \in Threads, Post(t) PROVE ControlTypes'
  BY <1>21, ThreadsDiffer DEF Post, Go, Notice, Reason, lockVars, lifeVars, askVars,
     eventVars, ControlTypes, LifeTypes, LockTypes, ThreadTypes, ThreadPc, Ask, Threads
<1>22. ASSUME NEW t \in Threads, Drop(t) PROVE ControlTypes'
  BY <1>22, ThreadsDiffer DEF Drop, Go, lockVars, lifeVars, askVars, ControlTypes,
     LifeTypes, LockTypes, ThreadTypes, ThreadPc, Ask, Threads
<1>23. ASSUME NEW t \in Threads, Restore(t) PROVE ControlTypes'
  BY <1>23, ThreadsDiffer DEF Restore, Go, GoesOn, lockVars, askVars, eventVars,
     ControlTypes, LifeTypes, LockTypes, ThreadTypes, ThreadPc, Ask, Threads
<1>24. ASSUME NEW t \in Threads, Finalize(t) PROVE ControlTypes'
  <2>1. CASE dropped[t] = {}
    <3>1. after[t] \in ThreadPc /\ pc' = [pc EXCEPT ![t] = after[t]]
      BY <1>24, <2>1 DEF Finalize, Go, ControlTypes, ThreadTypes
    <3>2. ThreadTypes'
      BY <1>24, <2>1, <3>1 DEF Finalize, ControlTypes, ThreadTypes, askVars
    <3> QED
      BY <1>24, <2>1, <3>2 DEF Finalize, ControlTypes, LifeTypes, LockTypes, lifeVars,
         lockVars,
         eventVars
  <2>2. CASE dropped[t] # {}
    <3>1. /\ Unreason(t, "finalize") /\ pc[t] = "finalize"
          /\ UNCHANGED <<handle_changes, askVars, after, old>>
      BY <1>24, <2>2 DEF Finalize, eventVars
    <3> QED
      BY <3>1, UnreasonCases, ThreadsDiffer DEF Go, askVars, ControlTypes, LifeTypes,
         LockTypes, ThreadTypes, ThreadPc, Ask, Threads
  <2> QED BY <2>1, <2>2
<1>25. ASSUME NEW t \in Threads, Uncache(t) PROVE ControlTypes'
  BY <1>25, ThreadsDiffer DEF Uncache, Go, TakeLock, MayLock, lifeVars, askVars,
     eventVars, ControlTypes, LifeTypes, LockTypes, ThreadTypes, ThreadPc, Ask, Threads
<1>26. ASSUME NEW t \in Threads, Join(t) PROVE ControlTypes'
  <2>1. then[t] \in ThreadPc /\ pc' = [pc EXCEPT ![t] = then[t]]
    BY <1>26 DEF Join, Go, ControlTypes, ThreadTypes
  <2>2. ThreadTypes'
    BY <1>26, <2>1 DEF Join, ControlTypes, ThreadTypes, askVars
  <2>3. LifeTypes'
    BY <1>26 DEF Join, ControlTypes, LifeTypes, eventVars
  <2>4. LockTypes'
    BY <1>26 DEF Join, FreeLock, ControlTypes, LockTypes
  <2> QED
    BY <2>2, <2>3, <2>4 DEF ControlTypes
<1>27. ASSUME Settle PROVE ControlTypes'
  <2>1. /\ Unreason(Main, "free") /\ pc[Main] = "settle" /\ Main \in Threads
        /\ after' = [after EXCEPT ![Main] = "free"]
        /\ UNCHANGED <<handle_changes, askVars, old>>
    BY <1>27 DEF Settle, Threads, eventVars
  <2> QED
    BY <2>1, UnreasonCases, ThreadsDiffer DEF Go, askVars, ControlTypes, LifeTypes,
       LockTypes, ThreadTypes, ThreadPc, Ask, Threads
<1>28. ASSUME FlagSet PROVE ControlTypes'
  BY <1>28, ThreadsDiffer DEF FlagSet, Go, Notice, Reason, lockVars, lifeVars, askVars,
     eventVars, ControlTypes, LifeTypes, LockTypes, ThreadTypes, ThreadPc, Ask, Threads
<1>29. ASSUME Begin PROVE ControlTypes'
  BY <1>29, ThreadsDiffer DEF Begin, Go, lockVars, lifeVars, eventVars, ControlTypes,
     LifeTypes, LockTypes, ThreadTypes, ThreadPc, Ask, Threads
<1>30. ASSUME UNCHANGED vars PROVE ControlTypes'
  BY <1>30 DEF vars, lockVars, lifeVars, askVars, eventVars, ControlTypes, LifeTypes,
     LockTypes, ThreadTypes, ThreadPc, Ask, Threads
<1>31. ASSUME NEW t \in Threads, LocalSize(t) \/ Measure(t) PROVE ControlTypes'
  BY <1>31, SizeCases, ThreadsDiffer DEF Go, Notice, Reason, eventVars,
     ControlTypes, LifeTypes, LockTypes, ThreadTypes, ThreadPc, Ask, Threads
<1> QED
  BY <1>1, <1>2, <1>3, <1>4, <1>5, <1>6, <1>7, <1>8, <1>9, <1>10, <1>11, <1>12, <1>13,
     <1>14, <1>15, <1>16, <1>17, <1>18, <1>19, <1>20, <1>21, <1>22, <1>23, <1>24, <1>25,
     <1>26, <1>27, <1>28, <1>29, <1>30, <1>31 DEF Next, User, Step

\* Every step keeps who has which lock.
LEMMA LocksInvStep == ControlTypes /\ LocksInv /\ PlacesInv /\ [Next]_vars => LocksInv'
<1> SUFFICES ASSUME ControlTypes, LocksInv, PlacesInv, [Next]_vars PROVE LocksInv'
  OBVIOUS
<1>1. ASSUME Open PROVE LocksInv'
  BY <1>1, ThreadsDiffer DEF Open, lockVars, lifeVars, askVars, ControlTypes, LifeTypes,
     LockTypes, ThreadTypes, LocksInv, PlacesInv, FreesHeaders, Delivering, Unloading,
     InCall, Inner, Holds, Threads
<1>2. ASSUME Close PROVE LocksInv'
  BY <1>2, ThreadsDiffer DEF Close, Go, lockVars, lifeVars, askVars, ControlTypes,
     LifeTypes, LockTypes, ThreadTypes, LocksInv, PlacesInv, FreesHeaders, Delivering,
     Unloading, InCall, Inner, Holds, Threads
<1>3. ASSUME SetFlag PROVE LocksInv'
  BY <1>3, ThreadsDiffer DEF SetFlag, Go, lockVars, lifeVars, askVars, ControlTypes,
     LifeTypes, LockTypes, ThreadTypes, LocksInv, PlacesInv, FreesHeaders, Delivering,
     Unloading, InCall, Inner, Holds, Threads
<1>4. ASSUME NEW kind \in Ask, Launch(kind) PROVE LocksInv'
  BY <1>4, ThreadsDiffer DEF Launch, Wish, Reason, lockVars, lifeVars, ControlTypes,
     LifeTypes, LockTypes, ThreadTypes, LocksInv, PlacesInv, FreesHeaders, Delivering,
     Unloading, InCall, Inner, Holds, Threads
<1>5. ASSUME NEW kind \in Ask, Call(kind) PROVE LocksInv'
  BY <1>5, ThreadsDiffer DEF Call, Wish, Go, lockVars, lifeVars, ControlTypes,
     LifeTypes, LockTypes, ThreadTypes, LocksInv, PlacesInv, FreesHeaders, Delivering,
     Unloading, InCall, Inner, Holds, Threads
<1>6. ASSUME PushEvent PROVE LocksInv'
  BY <1>6, ThreadsDiffer DEF PushEvent, Change, Go, lockVars, lifeVars, askVars,
     ControlTypes, LifeTypes, LockTypes, ThreadTypes, LocksInv, PlacesInv, FreesHeaders,
     Delivering, Unloading, InCall, Inner, Holds, Threads
<1>7. ASSUME Notify PROVE LocksInv'
  BY <1>7, ThreadsDiffer DEF Notify, Go, lockVars, lifeVars, askVars, ControlTypes,
     LifeTypes, LockTypes, ThreadTypes, LocksInv, PlacesInv, FreesHeaders, Delivering,
     Unloading, InCall, Inner, Holds, Threads
<1>8. ASSUME Done PROVE LocksInv'
  BY <1>8, ThreadsDiffer DEF Done, Go, lockVars, lifeVars, ControlTypes, LifeTypes,
     LockTypes, ThreadTypes, LocksInv, PlacesInv, FreesHeaders, Delivering, Unloading,
     InCall, Inner, Holds, Threads
<1>9. ASSUME NEW t \in Threads, Lock(t) PROVE LocksInv'
  BY <1>9, ThreadsDiffer DEF Lock, Go, TakeLock, MayLock, lifeVars, askVars,
     ControlTypes, LifeTypes, LockTypes, ThreadTypes, LocksInv, PlacesInv, FreesHeaders,
     Delivering, Unloading, InCall, Inner, Holds, Threads
<1>10. ASSUME NEW t \in Threads, Load(t) PROVE LocksInv'
  BY <1>10, ThreadsDiffer DEF Load, Go, lockVars, askVars, ControlTypes, LifeTypes,
     LockTypes, ThreadTypes, LocksInv, PlacesInv, FreesHeaders, Delivering, Unloading,
     InCall, Inner, Holds, Threads
<1>11. ASSUME NEW t \in Threads, LoadFails(t) PROVE LocksInv'
  BY <1>11, ThreadsDiffer DEF LoadFails, Go, lockVars, lifeVars, ControlTypes,
     LifeTypes, LockTypes, ThreadTypes, LocksInv, PlacesInv, FreesHeaders, Delivering,
     Unloading, InCall, Inner, Holds, Threads
<1>12. ASSUME NEW t \in Threads, CountCall(t) PROVE LocksInv'
  BY <1>12, ThreadsDiffer DEF CountCall, Go, Reason, lockVars, lifeVars, ControlTypes,
     LifeTypes, LockTypes, ThreadTypes, LocksInv, PlacesInv, FreesHeaders, Delivering,
     Unloading, InCall, Inner, Holds, Threads
<1>13. ASSUME NEW t \in Threads, Refresh(t) PROVE LocksInv'
  BY <1>13, ThreadsDiffer, RefreshCases DEF Refresh, Go, GoesOn, lockVars, lifeVars,
     askVars, ControlTypes, LifeTypes, LockTypes, ThreadTypes, LocksInv, PlacesInv,
     FreesHeaders, Delivering, Unloading, InCall, Inner, Holds, Threads
<1>14. ASSUME NEW t \in Threads, Fill(t) PROVE LocksInv'
  BY <1>14, ThreadsDiffer DEF Fill, Go, Counts, Reason, lockVars, lifeVars, askVars,
     ControlTypes, LifeTypes, LockTypes, ThreadTypes, LocksInv, PlacesInv, FreesHeaders,
     Delivering, Unloading, InCall, Inner, Holds, Threads
<1>15. ASSUME NEW t \in Threads, Lower(t) PROVE LocksInv'
  <2>1. /\ Unreason(t, "unlock") /\ pc[t] = "lower" /\ reasoned' = reasoned \ {t}
        /\ UNCHANGED <<handle_changes, request, wanted, after, old>>
    BY <1>15 DEF Lower, eventVars
  <2> QED
    BY <2>1, UnreasonCases, ThreadsDiffer DEF Go, ControlTypes, LifeTypes, LockTypes,
       ThreadTypes, LocksInv, PlacesInv, FreesHeaders, Delivering, Unloading, InCall,
       Inner, Holds, Threads
<1>16. ASSUME NEW t \in Threads, Unlock(t) PROVE LocksInv'
  BY <1>16, ThreadsDiffer DEF Unlock, Go, FreeLock, lifeVars,
     ControlTypes, LifeTypes, LockTypes, ThreadTypes, LocksInv, PlacesInv, FreesHeaders,
     Delivering, Unloading, InCall, Inner, Holds, Threads
<1>17. ASSUME NEW t \in Threads, Tell(t) PROVE LocksInv'
  BY <1>17, ThreadsDiffer DEF Tell, Go, GoesOn, lockVars, lifeVars, askVars,
     ControlTypes, LifeTypes, LockTypes, ThreadTypes, LocksInv, PlacesInv, FreesHeaders,
     Delivering, Unloading, InCall, Inner, Holds, Threads
<1>18. ASSUME NEW t \in Threads, TryLock(t) PROVE LocksInv'
  BY <1>18, ThreadsDiffer DEF TryLock, Go, GoesOn, TakeLock, MayLock, lifeVars, askVars,
     ControlTypes, LifeTypes, LockTypes, ThreadTypes, LocksInv, PlacesInv, FreesHeaders,
     Delivering, Unloading, InCall, Inner, Holds, Threads
<1>19. ASSUME NEW t \in Threads, Build(t) PROVE LocksInv'
  BY <1>19, ThreadsDiffer DEF Build, Go, Counts, Reason, FreeLock, lifeVars, askVars,
     ControlTypes, LifeTypes, LockTypes, ThreadTypes, LocksInv, PlacesInv, FreesHeaders,
     Delivering, Unloading, InCall, Inner, Holds, Threads
<1>20. ASSUME NEW t \in Threads, Keep(t) PROVE LocksInv'
  BY <1>20, ThreadsDiffer DEF Keep, Go, lockVars, askVars, ControlTypes, LifeTypes,
     LockTypes, ThreadTypes, LocksInv, PlacesInv, FreesHeaders, Delivering, Unloading,
     InCall, Inner, Holds, Threads
<1>21. ASSUME NEW t \in Threads, Post(t) PROVE LocksInv'
  BY <1>21, ThreadsDiffer DEF Post, Go, Notice, Reason, lockVars, lifeVars, askVars,
     ControlTypes, LifeTypes, LockTypes, ThreadTypes, LocksInv, PlacesInv, FreesHeaders,
     Delivering, Unloading, InCall, Inner, Holds, Threads
<1>22. ASSUME NEW t \in Threads, Drop(t) PROVE LocksInv'
  BY <1>22, ThreadsDiffer DEF Drop, Go, lockVars, lifeVars, askVars, ControlTypes,
     LifeTypes, LockTypes, ThreadTypes, LocksInv, PlacesInv, FreesHeaders, Delivering,
     Unloading, InCall, Inner, Holds, Threads
<1>23. ASSUME NEW t \in Threads, Restore(t) PROVE LocksInv'
  BY <1>23, ThreadsDiffer DEF Restore, Go, GoesOn, lockVars, askVars, ControlTypes,
     LifeTypes, LockTypes, ThreadTypes, LocksInv, PlacesInv, FreesHeaders, Delivering,
     Unloading, InCall, Inner, Holds, Threads
<1>24. ASSUME NEW t \in Threads, Finalize(t) PROVE LocksInv'
  <2>1. CASE dropped[t] = {}
    BY <1>24, <2>1, ThreadsDiffer DEF Finalize, Go, lifeVars, lockVars, askVars,
       ControlTypes, LifeTypes, LockTypes, ThreadTypes, LocksInv, PlacesInv, FreesHeaders,
       Delivering, Unloading, InCall, Inner, Holds, Threads
  <2>2. CASE dropped[t] # {}
    <3>1. /\ Unreason(t, "finalize") /\ pc[t] = "finalize"
          /\ UNCHANGED <<handle_changes, askVars, after, old>>
      BY <1>24, <2>2 DEF Finalize, eventVars
    <3> QED
      BY <3>1, UnreasonCases, ThreadsDiffer DEF Go, askVars, ControlTypes, LifeTypes,
         LockTypes, ThreadTypes, LocksInv, PlacesInv, FreesHeaders, Delivering, Unloading,
         InCall, Inner, Holds, Threads
  <2> QED BY <2>1, <2>2
<1>25. ASSUME NEW t \in Threads, Uncache(t) PROVE LocksInv'
  BY <1>25, ThreadsDiffer DEF Uncache, Go, TakeLock, MayLock, lifeVars, askVars,
     ControlTypes, LifeTypes, LockTypes, ThreadTypes, LocksInv, PlacesInv, FreesHeaders,
     Delivering, Unloading, InCall, Inner, Holds, Threads
<1>26. ASSUME NEW t \in Threads, Join(t) PROVE LocksInv'
  BY <1>26, ThreadsDiffer DEF Join, Go, FreeLock, askVars, ControlTypes, LifeTypes,
     LockTypes, ThreadTypes, LocksInv, PlacesInv, FreesHeaders, Delivering, Unloading,
     InCall, Inner, Holds, Threads
<1>27. ASSUME Settle PROVE LocksInv'
  <2>1. /\ Unreason(Main, "free") /\ pc[Main] = "settle" /\ Main \in Threads
        /\ after' = [after EXCEPT ![Main] = "free"]
        /\ UNCHANGED <<handle_changes, askVars, old>>
    BY <1>27 DEF Settle, Threads, eventVars
  <2> QED
    BY <2>1, UnreasonCases, ThreadsDiffer DEF Go, askVars, ControlTypes, LifeTypes,
       LockTypes, ThreadTypes, LocksInv, PlacesInv, FreesHeaders, Delivering, Unloading,
       InCall, Inner, Holds, Threads
<1>28. ASSUME FlagSet PROVE LocksInv'
  BY <1>28, ThreadsDiffer DEF FlagSet, Go, Notice, Reason, lockVars, lifeVars, askVars,
     ControlTypes, LifeTypes, LockTypes, ThreadTypes, LocksInv, PlacesInv, FreesHeaders,
     Delivering, Unloading, InCall, Inner, Holds, Threads
<1>29. ASSUME Begin PROVE LocksInv'
  BY <1>29, ThreadsDiffer DEF Begin, Go, lockVars, lifeVars, ControlTypes, LifeTypes,
     LockTypes, ThreadTypes, LocksInv, PlacesInv, FreesHeaders, Delivering, Unloading,
     InCall, Inner, Holds, Threads
<1>30. ASSUME UNCHANGED vars PROVE LocksInv'
  BY <1>30 DEF vars, lockVars, lifeVars, askVars, ControlTypes, LifeTypes, LockTypes,
     ThreadTypes, LocksInv, PlacesInv, FreesHeaders, Delivering, Unloading, InCall,
     Inner, Holds, Threads
<1>31. ASSUME NEW t \in Threads, LocalSize(t) \/ Measure(t) PROVE LocksInv'
  BY <1>31, SizeCases, ThreadsDiffer DEF Go, Notice, Reason,
     ControlTypes, LifeTypes, LockTypes, ThreadTypes, LocksInv, PlacesInv, FreesHeaders,
     Delivering, Unloading, InCall, Inner, Holds, Threads
<1> QED
  BY <1>1, <1>2, <1>3, <1>4, <1>5, <1>6, <1>7, <1>8, <1>9, <1>10, <1>11, <1>12, <1>13,
     <1>14, <1>15, <1>16, <1>17, <1>18, <1>19, <1>20, <1>21, <1>22, <1>23, <1>24, <1>25,
     <1>26, <1>27, <1>28, <1>29, <1>30, <1>31 DEF Next, User, Step

\* Every step keeps where the threads may be, and go on.
LEMMA PlacesInvStep == ControlTypes /\ LocksInv /\ PlacesInv /\ [Next]_vars => PlacesInv'
<1> SUFFICES ASSUME ControlTypes, LocksInv, PlacesInv, [Next]_vars PROVE PlacesInv'
  OBVIOUS
<1>1. ASSUME Open PROVE PlacesInv'
  BY <1>1, ThreadsDiffer DEF Open, lockVars, lifeVars, askVars, ControlTypes, LifeTypes,
     LockTypes, ThreadTypes, LocksInv, PlacesInv, FreesHeaders, Delivering, Unloading,
     InCall, Inner, Holds, Threads
<1>2. ASSUME Close PROVE PlacesInv'
  BY <1>2, ThreadsDiffer DEF Close, Go, lockVars, lifeVars, askVars, ControlTypes,
     LifeTypes, LockTypes, ThreadTypes, LocksInv, PlacesInv, FreesHeaders, Delivering,
     Unloading, InCall, Inner, Holds, Threads
<1>3. ASSUME SetFlag PROVE PlacesInv'
  BY <1>3, ThreadsDiffer DEF SetFlag, Go, lockVars, lifeVars, askVars, ControlTypes,
     LifeTypes, LockTypes, ThreadTypes, LocksInv, PlacesInv, FreesHeaders, Delivering,
     Unloading, InCall, Inner, Holds, Threads
<1>4. ASSUME NEW kind \in Ask, Launch(kind) PROVE PlacesInv'
  BY <1>4, ThreadsDiffer DEF Launch, Wish, Reason, lockVars, lifeVars, ControlTypes,
     LifeTypes, LockTypes, ThreadTypes, LocksInv, PlacesInv, FreesHeaders, Delivering,
     Unloading, InCall, Inner, Holds, Threads
<1>5. ASSUME NEW kind \in Ask, Call(kind) PROVE PlacesInv'
  BY <1>5, ThreadsDiffer DEF Call, Wish, Go, lockVars, lifeVars, ControlTypes,
     LifeTypes, LockTypes, ThreadTypes, LocksInv, PlacesInv, FreesHeaders, Delivering,
     Unloading, InCall, Inner, Holds, Threads
<1>6. ASSUME PushEvent PROVE PlacesInv'
  BY <1>6, ThreadsDiffer DEF PushEvent, Change, Go, lockVars, lifeVars, askVars,
     ControlTypes, LifeTypes, LockTypes, ThreadTypes, LocksInv, PlacesInv, FreesHeaders,
     Delivering, Unloading, InCall, Inner, Holds, Threads
<1>7. ASSUME Notify PROVE PlacesInv'
  BY <1>7, ThreadsDiffer DEF Notify, Go, lockVars, lifeVars, askVars, ControlTypes,
     LifeTypes, LockTypes, ThreadTypes, LocksInv, PlacesInv, FreesHeaders, Delivering,
     Unloading, InCall, Inner, Holds, Threads
<1>8. ASSUME Done PROVE PlacesInv'
  BY <1>8, ThreadsDiffer DEF Done, Go, lockVars, lifeVars, ControlTypes, LifeTypes,
     LockTypes, ThreadTypes, LocksInv, PlacesInv, FreesHeaders, Delivering, Unloading,
     InCall, Inner, Holds, Threads
<1>9. ASSUME NEW t \in Threads, Lock(t) PROVE PlacesInv'
  BY <1>9, ThreadsDiffer DEF Lock, Go, TakeLock, MayLock, lifeVars, askVars,
     ControlTypes, LifeTypes, LockTypes, ThreadTypes, LocksInv, PlacesInv, FreesHeaders,
     Delivering, Unloading, InCall, Inner, Holds, Threads
<1>10. ASSUME NEW t \in Threads, Load(t) PROVE PlacesInv'
  BY <1>10, ThreadsDiffer DEF Load, Go, lockVars, askVars, ControlTypes, LifeTypes,
     LockTypes, ThreadTypes, LocksInv, PlacesInv, FreesHeaders, Delivering, Unloading,
     InCall, Inner, Holds, Threads
<1>11. ASSUME NEW t \in Threads, LoadFails(t) PROVE PlacesInv'
  BY <1>11, ThreadsDiffer DEF LoadFails, Go, lockVars, lifeVars, ControlTypes,
     LifeTypes, LockTypes, ThreadTypes, LocksInv, PlacesInv, FreesHeaders, Delivering,
     Unloading, InCall, Inner, Holds, Threads
<1>12. ASSUME NEW t \in Threads, CountCall(t) PROVE PlacesInv'
  BY <1>12, ThreadsDiffer DEF CountCall, Go, Reason, lockVars, lifeVars, ControlTypes,
     LifeTypes, LockTypes, ThreadTypes, LocksInv, PlacesInv, FreesHeaders, Delivering,
     Unloading, InCall, Inner, Holds, Threads
<1>13. ASSUME NEW t \in Threads, Refresh(t) PROVE PlacesInv'
  BY <1>13, ThreadsDiffer, RefreshCases DEF Refresh, Go, GoesOn, lockVars, lifeVars,
     askVars, ControlTypes, LifeTypes, LockTypes, ThreadTypes, LocksInv, PlacesInv,
     FreesHeaders, Delivering, Unloading, InCall, Inner, Holds, Threads
<1>14. ASSUME NEW t \in Threads, Fill(t) PROVE PlacesInv'
  BY <1>14, ThreadsDiffer DEF Fill, Go, Counts, Reason, lockVars, lifeVars, askVars,
     ControlTypes, LifeTypes, LockTypes, ThreadTypes, LocksInv, PlacesInv, FreesHeaders,
     Delivering, Unloading, InCall, Inner, Holds, Threads
<1>15. ASSUME NEW t \in Threads, Lower(t) PROVE PlacesInv'
  <2>1. /\ Unreason(t, "unlock") /\ pc[t] = "lower" /\ reasoned' = reasoned \ {t}
        /\ UNCHANGED <<handle_changes, request, wanted, after, old>>
    BY <1>15 DEF Lower, eventVars
  <2> QED
    BY <2>1, UnreasonCases, ThreadsDiffer DEF Go, ControlTypes, LifeTypes, LockTypes,
       ThreadTypes, LocksInv, PlacesInv, FreesHeaders, Delivering, Unloading, InCall,
       Inner, Holds, Threads
<1>16. ASSUME NEW t \in Threads, Unlock(t) PROVE PlacesInv'
  BY <1>16, ThreadsDiffer DEF Unlock, Go, FreeLock, lifeVars,
     ControlTypes, LifeTypes, LockTypes, ThreadTypes, LocksInv, PlacesInv, FreesHeaders,
     Delivering, Unloading, InCall, Inner, Holds, Threads
<1>17. ASSUME NEW t \in Threads, Tell(t) PROVE PlacesInv'
  BY <1>17, ThreadsDiffer DEF Tell, Go, GoesOn, lockVars, lifeVars, askVars,
     ControlTypes, LifeTypes, LockTypes, ThreadTypes, LocksInv, PlacesInv, FreesHeaders,
     Delivering, Unloading, InCall, Inner, Holds, Threads
<1>18. ASSUME NEW t \in Threads, TryLock(t) PROVE PlacesInv'
  BY <1>18, ThreadsDiffer DEF TryLock, Go, GoesOn, TakeLock, MayLock, lifeVars, askVars,
     ControlTypes, LifeTypes, LockTypes, ThreadTypes, LocksInv, PlacesInv, FreesHeaders,
     Delivering, Unloading, InCall, Inner, Holds, Threads
<1>19. ASSUME NEW t \in Threads, Build(t) PROVE PlacesInv'
  BY <1>19, ThreadsDiffer DEF Build, Go, Counts, Reason, FreeLock, lifeVars, askVars,
     ControlTypes, LifeTypes, LockTypes, ThreadTypes, LocksInv, PlacesInv, FreesHeaders,
     Delivering, Unloading, InCall, Inner, Holds, Threads
<1>20. ASSUME NEW t \in Threads, Keep(t) PROVE PlacesInv'
  BY <1>20, ThreadsDiffer DEF Keep, Go, lockVars, askVars, ControlTypes, LifeTypes,
     LockTypes, ThreadTypes, LocksInv, PlacesInv, FreesHeaders, Delivering, Unloading,
     InCall, Inner, Holds, Threads
<1>21. ASSUME NEW t \in Threads, Post(t) PROVE PlacesInv'
  BY <1>21, ThreadsDiffer DEF Post, Go, Notice, Reason, lockVars, lifeVars, askVars,
     ControlTypes, LifeTypes, LockTypes, ThreadTypes, LocksInv, PlacesInv, FreesHeaders,
     Delivering, Unloading, InCall, Inner, Holds, Threads
<1>22. ASSUME NEW t \in Threads, Drop(t) PROVE PlacesInv'
  BY <1>22, ThreadsDiffer DEF Drop, Go, lockVars, lifeVars, askVars, ControlTypes,
     LifeTypes, LockTypes, ThreadTypes, LocksInv, PlacesInv, FreesHeaders, Delivering,
     Unloading, InCall, Inner, Holds, Threads
<1>23. ASSUME NEW t \in Threads, Restore(t) PROVE PlacesInv'
  BY <1>23, ThreadsDiffer DEF Restore, Go, GoesOn, lockVars, askVars, ControlTypes,
     LifeTypes, LockTypes, ThreadTypes, LocksInv, PlacesInv, FreesHeaders, Delivering,
     Unloading, InCall, Inner, Holds, Threads
<1>24. ASSUME NEW t \in Threads, Finalize(t) PROVE PlacesInv'
  <2>1. CASE dropped[t] = {}
    BY <1>24, <2>1, ThreadsDiffer DEF Finalize, Go, lifeVars, lockVars, askVars,
       ControlTypes, LifeTypes, LockTypes, ThreadTypes, LocksInv, PlacesInv, FreesHeaders,
       Delivering, Unloading, InCall, Inner, Holds, Threads
  <2>2. CASE dropped[t] # {}
    <3>1. /\ Unreason(t, "finalize") /\ pc[t] = "finalize"
          /\ UNCHANGED <<handle_changes, askVars, after, old>>
      BY <1>24, <2>2 DEF Finalize, eventVars
    <3> QED
      BY <3>1, UnreasonCases, ThreadsDiffer DEF Go, askVars, ControlTypes, LifeTypes,
         LockTypes, ThreadTypes, LocksInv, PlacesInv, FreesHeaders, Delivering, Unloading,
         InCall, Inner, Holds, Threads
  <2> QED BY <2>1, <2>2
<1>25. ASSUME NEW t \in Threads, Uncache(t) PROVE PlacesInv'
  BY <1>25, ThreadsDiffer DEF Uncache, Go, TakeLock, MayLock, lifeVars, askVars,
     ControlTypes, LifeTypes, LockTypes, ThreadTypes, LocksInv, PlacesInv, FreesHeaders,
     Delivering, Unloading, InCall, Inner, Holds, Threads
<1>26. ASSUME NEW t \in Threads, Join(t) PROVE PlacesInv'
  BY <1>26, ThreadsDiffer DEF Join, Go, FreeLock, askVars, ControlTypes, LifeTypes,
     LockTypes, ThreadTypes, LocksInv, PlacesInv, FreesHeaders, Delivering, Unloading,
     InCall, Inner, Holds, Threads
<1>27. ASSUME Settle PROVE PlacesInv'
  <2>1. /\ Unreason(Main, "free") /\ pc[Main] = "settle" /\ Main \in Threads
        /\ after' = [after EXCEPT ![Main] = "free"]
        /\ UNCHANGED <<handle_changes, askVars, old>>
    BY <1>27 DEF Settle, Threads, eventVars
  <2> QED
    BY <2>1, UnreasonCases, ThreadsDiffer DEF Go, askVars, ControlTypes, LifeTypes,
       LockTypes, ThreadTypes, LocksInv, PlacesInv, FreesHeaders, Delivering, Unloading,
       InCall, Inner, Holds, Threads
<1>28. ASSUME FlagSet PROVE PlacesInv'
  BY <1>28, ThreadsDiffer DEF FlagSet, Go, Notice, Reason, lockVars, lifeVars, askVars,
     ControlTypes, LifeTypes, LockTypes, ThreadTypes, LocksInv, PlacesInv, FreesHeaders,
     Delivering, Unloading, InCall, Inner, Holds, Threads
<1>29. ASSUME Begin PROVE PlacesInv'
  BY <1>29, ThreadsDiffer DEF Begin, Go, lockVars, lifeVars, ControlTypes, LifeTypes,
     LockTypes, ThreadTypes, LocksInv, PlacesInv, FreesHeaders, Delivering, Unloading,
     InCall, Inner, Holds, Threads
<1>30. ASSUME UNCHANGED vars PROVE PlacesInv'
  BY <1>30 DEF vars, lockVars, lifeVars, askVars, ControlTypes, LifeTypes, LockTypes,
     ThreadTypes, LocksInv, PlacesInv, FreesHeaders, Delivering, Unloading, InCall,
     Inner, Holds, Threads
<1>31. ASSUME NEW t \in Threads, LocalSize(t) \/ Measure(t) PROVE PlacesInv'
  BY <1>31, SizeCases, ThreadsDiffer DEF Go, Notice, Reason,
     ControlTypes, LifeTypes, LockTypes, ThreadTypes, LocksInv, PlacesInv, FreesHeaders,
     Delivering, Unloading, InCall, Inner, Holds, Threads
<1> QED
  BY <1>1, <1>2, <1>3, <1>4, <1>5, <1>6, <1>7, <1>8, <1>9, <1>10, <1>11, <1>12, <1>13,
     <1>14, <1>15, <1>16, <1>17, <1>18, <1>19, <1>20, <1>21, <1>22, <1>23, <1>24, <1>25,
     <1>26, <1>27, <1>28, <1>29, <1>30, <1>31 DEF Next, User, Step

----------------------------------------------------------------------------
(* Who has counted a reason, who asks for headers, and who delivers.       *)

\* Between its CountCall and its Lower a call is a reason; the queue's refresh has
\* the reason of its request only.
Counting(t) == pc[t] \in {"refresh", "fill", "lower"} \/ Delivering(t)
CountedInv ==
  /\ wanted[Push] = "none" /\ reasoned \subseteq {Main, Worker}
  /\ request = "running" <=> pc[Worker] # "free"
  /\ \A t \in reasoned : Counting(t)
  /\ \A t \in {Main, Worker} :
       /\ Counting(t) => t \in reasoned \/ (t = Worker /\ wanted[t] = "refresh")
       /\ pc[t] = "fill" => t \in reasoned /\ wanted[t] = "headers"
       /\ pc[t] = "lower" => t \in reasoned

\* Headers are asked for by one thread at a time, until it has filled the list.
Asking(t) == /\ wanted[t] = "headers"
             /\ \/ pc[t] \in {"lock", "load", "reason", "refresh", "fill"}
                \/ Delivering(t)
                \/ t = Worker /\ request = "queued"
AskingInv ==
  /\ \A t \in Threads : Asking(t) => view = "asked"
  /\ \A t, u \in Threads : Asking(t) /\ Asking(u) => t = u
  /\ request \in {"none", "done"} => wanted[Worker] = "none"

\* One thread delivers an event at a time, so that dont_fkill is FALSE when it begins.
Keeping(t) == Delivering(t) /\ pc[t] \notin {"tell", "event", "build", "keep"}
DeliveryInv ==
  /\ \A t, u \in Threads : Delivering(t) /\ Delivering(u) => t = u
  /\ dont_fkill => \E t \in Threads : Keeping(t)
  /\ \A t \in Threads : Delivering(t) /\ pc[t] # "tell" => ~old[t]

\* Every step keeps who has counted a reason.
LEMMA CountedStep == ControlInv /\ CountedInv /\ [Next]_vars => CountedInv'
<1> SUFFICES ASSUME ControlInv, CountedInv, [Next]_vars PROVE CountedInv'
  OBVIOUS
<1>1. ASSUME Open PROVE CountedInv'
  BY <1>1, ThreadsDiffer DEF Open, lockVars, lifeVars, askVars, eventVars, ControlInv,
     ControlTypes, LifeTypes, LockTypes, ThreadTypes, LocksInv, PlacesInv, FreesHeaders,
     Delivering, Unloading, InCall, Inner, Threads, Ask, CountedInv, Counting
<1>2. ASSUME Close PROVE CountedInv'
  BY <1>2, ThreadsDiffer DEF Close, Go, lockVars, lifeVars, askVars, eventVars,
     ControlInv, ControlTypes, LifeTypes, LockTypes, ThreadTypes, LocksInv, PlacesInv,
     FreesHeaders, Delivering, Unloading, InCall, Inner, Threads, Ask, CountedInv,
     Counting
<1>3. ASSUME SetFlag PROVE CountedInv'
  BY <1>3, ThreadsDiffer DEF SetFlag, Go, lockVars, lifeVars, askVars, eventVars,
     viewVars, ControlInv, ControlTypes, LifeTypes, LockTypes, ThreadTypes, LocksInv,
     PlacesInv, FreesHeaders, Delivering, Unloading, InCall, Inner, Threads, Ask,
     CountedInv, Counting
<1>4. ASSUME NEW kind \in Ask, Launch(kind) PROVE CountedInv'
  BY <1>4, ThreadsDiffer DEF Launch, Wish, Reason, lockVars, lifeVars, eventVars,
     ControlInv, ControlTypes, LifeTypes, LockTypes, ThreadTypes, LocksInv, PlacesInv,
     FreesHeaders, Delivering, Unloading, InCall, Inner, Threads, Ask, CountedInv,
     Counting
<1>5. ASSUME NEW kind \in Ask, Call(kind) PROVE CountedInv'
  BY <1>5, ThreadsDiffer DEF Call, Wish, Go, lockVars, lifeVars, eventVars, ControlInv,
     ControlTypes, LifeTypes, LockTypes, ThreadTypes, LocksInv, PlacesInv, FreesHeaders,
     Delivering, Unloading, InCall, Inner, Threads, Ask, CountedInv, Counting
<1>6. ASSUME PushEvent PROVE CountedInv'
  BY <1>6, ThreadsDiffer DEF PushEvent, Change, Go, lockVars, lifeVars, askVars,
     viewVars, ControlInv, ControlTypes, LifeTypes, LockTypes, ThreadTypes, LocksInv,
     PlacesInv, FreesHeaders, Delivering, Unloading, InCall, Inner, Threads, Ask,
     CountedInv, Counting
<1>7. ASSUME Notify PROVE CountedInv'
  BY <1>7, ThreadsDiffer DEF Notify, Go, lockVars, lifeVars, askVars, eventVars,
     ControlInv, ControlTypes, LifeTypes, LockTypes, ThreadTypes, LocksInv, PlacesInv,
     FreesHeaders, Delivering, Unloading, InCall, Inner, Threads, Ask, CountedInv,
     Counting
<1>8. ASSUME Done PROVE CountedInv'
  BY <1>8, ThreadsDiffer DEF Done, Go, lockVars, lifeVars, eventVars, viewVars,
     ControlInv, ControlTypes, LifeTypes, LockTypes, ThreadTypes, LocksInv, PlacesInv,
     FreesHeaders, Delivering, Unloading, InCall, Inner, Threads, Ask, CountedInv,
     Counting
<1>9. ASSUME NEW t \in Threads, Lock(t) PROVE CountedInv'
  BY <1>9, ThreadsDiffer DEF Lock, Go, TakeLock, MayLock, lifeVars, askVars, eventVars,
     viewVars, ControlInv, ControlTypes, LifeTypes, LockTypes, ThreadTypes, LocksInv,
     PlacesInv, FreesHeaders, Delivering, Unloading, InCall, Inner, Threads, Ask,
     CountedInv, Counting
<1>10. ASSUME NEW t \in Threads, Load(t) PROVE CountedInv'
  BY <1>10, ThreadsDiffer DEF Load, Go, lockVars, askVars, eventVars, viewVars,
     ControlInv, ControlTypes, LifeTypes, LockTypes, ThreadTypes, LocksInv, PlacesInv,
     FreesHeaders, Delivering, Unloading, InCall, Inner, Threads, Ask, CountedInv,
     Counting
<1>11. ASSUME NEW t \in Threads, LoadFails(t) PROVE CountedInv'
  BY <1>11, ThreadsDiffer DEF LoadFails, Go, lockVars, lifeVars, eventVars, ControlInv,
     ControlTypes, LifeTypes, LockTypes, ThreadTypes, LocksInv, PlacesInv, FreesHeaders,
     Delivering, Unloading, InCall, Inner, Threads, Ask, CountedInv, Counting
<1>12. ASSUME NEW t \in Threads, CountCall(t) PROVE CountedInv'
  BY <1>12, ThreadsDiffer DEF CountCall, Go, Reason, lockVars, lifeVars, eventVars,
     viewVars, ControlInv, ControlTypes, LifeTypes, LockTypes, ThreadTypes, LocksInv,
     PlacesInv, FreesHeaders, Delivering, Unloading, InCall, Inner, Threads, Ask,
     CountedInv, Counting
<1>13. ASSUME NEW t \in Threads, Refresh(t) PROVE CountedInv'
  BY <1>13, ThreadsDiffer, RefreshCases DEF Refresh, Go, GoesOn, lockVars, lifeVars,
     askVars, viewVars, ControlInv, ControlTypes, LifeTypes, LockTypes, ThreadTypes,
     LocksInv, PlacesInv, FreesHeaders, Delivering, Unloading, InCall, Inner, Threads,
     Ask, CountedInv, Counting
<1>14. ASSUME NEW t \in Threads, Fill(t) PROVE CountedInv'
  BY <1>14, ThreadsDiffer DEF Fill, Go, Counts, Reason, lockVars, lifeVars, askVars,
     eventVars, ControlInv, ControlTypes, LifeTypes, LockTypes, ThreadTypes, LocksInv,
     PlacesInv, FreesHeaders, Delivering, Unloading, InCall, Inner, Threads, Ask,
     CountedInv, Counting
<1>15. ASSUME NEW t \in Threads, Lower(t) PROVE CountedInv'
  <2>1. /\ Unreason(t, "unlock") /\ pc[t] = "lower" /\ reasoned' = reasoned \ {t}
        /\ UNCHANGED <<handle_changes, request, wanted, after, old, view>>
    BY <1>15 DEF Lower, eventVars, viewVars
  <2> QED
    BY <2>1, UnreasonCases, ThreadsDiffer DEF Go, ControlInv, ControlTypes, LifeTypes,
       LockTypes, ThreadTypes, LocksInv, PlacesInv, FreesHeaders, Delivering, Unloading,
       InCall, Inner, Threads, Ask, CountedInv, Counting
<1>16. ASSUME NEW t \in Threads, Unlock(t) PROVE CountedInv'
  BY <1>16, ThreadsDiffer DEF Unlock, Go, FreeLock, lifeVars, eventVars,
     viewVars, ControlInv, ControlTypes, LifeTypes, LockTypes, ThreadTypes, LocksInv,
     PlacesInv, FreesHeaders, Delivering, Unloading, InCall, Inner, Threads, Ask,
     CountedInv, Counting
<1>17. ASSUME NEW t \in Threads, Tell(t) PROVE CountedInv'
  BY <1>17, ThreadsDiffer DEF Tell, Go, GoesOn, lockVars, lifeVars, askVars, viewVars,
     ControlInv, ControlTypes, LifeTypes, LockTypes, ThreadTypes, LocksInv, PlacesInv,
     FreesHeaders, Delivering, Unloading, InCall, Inner, Threads, Ask, CountedInv,
     Counting
<1>18. ASSUME NEW t \in Threads, TryLock(t) PROVE CountedInv'
  BY <1>18, ThreadsDiffer DEF TryLock, Go, GoesOn, TakeLock, MayLock, lifeVars, askVars,
     viewVars, ControlInv, ControlTypes, LifeTypes, LockTypes, ThreadTypes, LocksInv,
     PlacesInv, FreesHeaders, Delivering, Unloading, InCall, Inner, Threads, Ask,
     CountedInv, Counting
<1>19. ASSUME NEW t \in Threads, Build(t) PROVE CountedInv'
  BY <1>19, ThreadsDiffer DEF Build, Go, Counts, Reason, FreeLock, lifeVars, askVars,
     viewVars, ControlInv, ControlTypes, LifeTypes, LockTypes, ThreadTypes, LocksInv,
     PlacesInv, FreesHeaders, Delivering, Unloading, InCall, Inner, Threads, Ask,
     CountedInv, Counting
<1>20. ASSUME NEW t \in Threads, Keep(t) PROVE CountedInv'
  BY <1>20, ThreadsDiffer DEF Keep, Go, lockVars, askVars, eventVars, viewVars,
     ControlInv, ControlTypes, LifeTypes, LockTypes, ThreadTypes, LocksInv, PlacesInv,
     FreesHeaders, Delivering, Unloading, InCall, Inner, Threads, Ask, CountedInv,
     Counting
<1>21. ASSUME NEW t \in Threads, Post(t) PROVE CountedInv'
  BY <1>21, ThreadsDiffer DEF Post, Go, Notice, Reason, lockVars, lifeVars, askVars,
     eventVars, viewVars, ControlInv, ControlTypes, LifeTypes, LockTypes, ThreadTypes,
     LocksInv, PlacesInv, FreesHeaders, Delivering, Unloading, InCall, Inner, Threads,
     Ask, CountedInv, Counting
<1>22. ASSUME NEW t \in Threads, Drop(t) PROVE CountedInv'
  BY <1>22, ThreadsDiffer DEF Drop, Go, lockVars, lifeVars, askVars, viewVars,
     ControlInv, ControlTypes, LifeTypes, LockTypes, ThreadTypes, LocksInv, PlacesInv,
     FreesHeaders, Delivering, Unloading, InCall, Inner, Threads, Ask, CountedInv,
     Counting
<1>23. ASSUME NEW t \in Threads, Restore(t) PROVE CountedInv'
  BY <1>23, ThreadsDiffer DEF Restore, Go, GoesOn, lockVars, askVars, eventVars,
     viewVars, ControlInv, ControlTypes, LifeTypes, LockTypes, ThreadTypes, LocksInv,
     PlacesInv, FreesHeaders, Delivering, Unloading, InCall, Inner, Threads, Ask,
     CountedInv, Counting
<1>24. ASSUME NEW t \in Threads, Finalize(t) PROVE CountedInv'
  <2>1. CASE dropped[t] = {}
    BY <1>24, <2>1, ThreadsDiffer DEF Finalize, Go, lifeVars, lockVars, askVars,
       eventVars, ControlInv, ControlTypes, LifeTypes, LockTypes, ThreadTypes, LocksInv,
       PlacesInv, FreesHeaders, Delivering, Unloading, InCall, Inner, Threads, Ask,
       CountedInv, Counting
  <2>2. CASE dropped[t] # {}
    <3>1. /\ Unreason(t, "finalize") /\ pc[t] = "finalize"
          /\ UNCHANGED <<handle_changes, askVars, after, old, view>>
      BY <1>24, <2>2 DEF Finalize, eventVars, viewVars
    <3> QED
      BY <3>1, UnreasonCases, ThreadsDiffer DEF Go, askVars, ControlInv, ControlTypes,
         LifeTypes, LockTypes, ThreadTypes, LocksInv, PlacesInv, FreesHeaders, Delivering,
         Unloading, InCall, Inner, Threads, Ask, CountedInv, Counting
  <2> QED BY <2>1, <2>2
<1>25. ASSUME NEW t \in Threads, Uncache(t) PROVE CountedInv'
  BY <1>25, ThreadsDiffer DEF Uncache, Go, TakeLock, MayLock, lifeVars, askVars,
     eventVars, viewVars, ControlInv, ControlTypes, LifeTypes, LockTypes, ThreadTypes,
     LocksInv, PlacesInv, FreesHeaders, Delivering, Unloading, InCall, Inner, Threads,
     Ask, CountedInv, Counting
<1>26. ASSUME NEW t \in Threads, Join(t) PROVE CountedInv'
  BY <1>26, ThreadsDiffer DEF Join, Go, FreeLock, askVars, eventVars, viewVars,
     ControlInv, ControlTypes, LifeTypes, LockTypes, ThreadTypes, LocksInv, PlacesInv,
     FreesHeaders, Delivering, Unloading, InCall, Inner, Threads, Ask, CountedInv,
     Counting
<1>27. ASSUME Settle PROVE CountedInv'
  <2>1. /\ Unreason(Main, "free") /\ pc[Main] = "settle" /\ Main \in Threads
        /\ after' = [after EXCEPT ![Main] = "free"]
        /\ UNCHANGED <<handle_changes, askVars, old, view>>
    BY <1>27 DEF Settle, Threads, eventVars, viewVars
  <2> QED
    BY <2>1, UnreasonCases, ThreadsDiffer DEF Go, askVars, ControlInv, ControlTypes,
       LifeTypes, LockTypes, ThreadTypes, LocksInv, PlacesInv, FreesHeaders, Delivering,
       Unloading, InCall, Inner, Threads, Ask, CountedInv, Counting
<1>28. ASSUME FlagSet PROVE CountedInv'
  BY <1>28, ThreadsDiffer DEF FlagSet, Go, Notice, Reason, lockVars, lifeVars, askVars,
     eventVars, viewVars, ControlInv, ControlTypes, LifeTypes, LockTypes, ThreadTypes,
     LocksInv, PlacesInv, FreesHeaders, Delivering, Unloading, InCall, Inner, Threads,
     Ask, CountedInv, Counting
<1>29. ASSUME Begin PROVE CountedInv'
  BY <1>29, ThreadsDiffer DEF Begin, Go, lockVars, lifeVars, eventVars, viewVars,
     ControlInv, ControlTypes, LifeTypes, LockTypes, ThreadTypes, LocksInv, PlacesInv,
     FreesHeaders, Delivering, Unloading, InCall, Inner, Threads, Ask, CountedInv,
     Counting
<1>30. ASSUME UNCHANGED vars PROVE CountedInv'
  BY <1>30 DEF vars, lockVars, lifeVars, askVars, eventVars, viewVars, ControlInv,
     ControlTypes, LifeTypes, LockTypes, ThreadTypes, LocksInv, PlacesInv, FreesHeaders,
     Delivering, Unloading, InCall, Inner, Threads, Ask, CountedInv, Counting
<1>31. ASSUME NEW t \in Threads, LocalSize(t) \/ Measure(t) PROVE CountedInv'
  BY <1>31, SizeCases, ThreadsDiffer DEF Go, Notice, Reason, eventVars,
     viewVars, ControlInv, ControlTypes, LifeTypes, LockTypes, ThreadTypes, LocksInv,
     PlacesInv, FreesHeaders, Delivering, Unloading, InCall, Inner, Threads, Ask,
     CountedInv, Counting
<1> QED
  BY <1>1, <1>2, <1>3, <1>4, <1>5, <1>6, <1>7, <1>8, <1>9, <1>10, <1>11, <1>12, <1>13,
     <1>14, <1>15, <1>16, <1>17, <1>18, <1>19, <1>20, <1>21, <1>22, <1>23, <1>24, <1>25,
     <1>26, <1>27, <1>28, <1>29, <1>30, <1>31 DEF Next, User, Step

\* Every step keeps that one thread asks for headers.
LEMMA AskingStep == ControlInv /\ CountedInv /\ AskingInv /\ [Next]_vars => AskingInv'
<1> SUFFICES ASSUME ControlInv, CountedInv, AskingInv, [Next]_vars PROVE AskingInv'
  OBVIOUS
<1>1. ASSUME Open PROVE AskingInv'
  BY <1>1, ThreadsDiffer DEF Open, lockVars, lifeVars, askVars, eventVars, ControlInv,
     ControlTypes, LifeTypes, LockTypes, ThreadTypes, LocksInv, PlacesInv, FreesHeaders,
     Delivering, Unloading, InCall, Inner, Threads, Ask, CountedInv, Counting,
     AskingInv, Asking
<1>2. ASSUME Close PROVE AskingInv'
  BY <1>2, ThreadsDiffer DEF Close, Go, lockVars, lifeVars, askVars, eventVars,
     ControlInv, ControlTypes, LifeTypes, LockTypes, ThreadTypes, LocksInv, PlacesInv,
     FreesHeaders, Delivering, Unloading, InCall, Inner, Threads, Ask, CountedInv,
     Counting, AskingInv, Asking
<1>3. ASSUME SetFlag PROVE AskingInv'
  BY <1>3, ThreadsDiffer DEF SetFlag, Go, lockVars, lifeVars, askVars, eventVars,
     viewVars, ControlInv, ControlTypes, LifeTypes, LockTypes, ThreadTypes, LocksInv,
     PlacesInv, FreesHeaders, Delivering, Unloading, InCall, Inner, Threads, Ask,
     CountedInv, Counting, AskingInv, Asking
<1>4. ASSUME NEW kind \in Ask, Launch(kind) PROVE AskingInv'
  BY <1>4, ThreadsDiffer DEF Launch, Wish, Reason, lockVars, lifeVars, eventVars,
     ControlInv, ControlTypes, LifeTypes, LockTypes, ThreadTypes, LocksInv, PlacesInv,
     FreesHeaders, Delivering, Unloading, InCall, Inner, Threads, Ask, CountedInv,
     Counting, AskingInv, Asking
<1>5. ASSUME NEW kind \in Ask, Call(kind) PROVE AskingInv'
  BY <1>5, ThreadsDiffer DEF Call, Wish, Go, lockVars, lifeVars, eventVars, ControlInv,
     ControlTypes, LifeTypes, LockTypes, ThreadTypes, LocksInv, PlacesInv, FreesHeaders,
     Delivering, Unloading, InCall, Inner, Threads, Ask, CountedInv, Counting,
     AskingInv, Asking
<1>6. ASSUME PushEvent PROVE AskingInv'
  BY <1>6, ThreadsDiffer DEF PushEvent, Change, Go, lockVars, lifeVars, askVars,
     viewVars, ControlInv, ControlTypes, LifeTypes, LockTypes, ThreadTypes, LocksInv,
     PlacesInv, FreesHeaders, Delivering, Unloading, InCall, Inner, Threads, Ask,
     CountedInv, Counting, AskingInv, Asking
<1>7. ASSUME Notify PROVE AskingInv'
  BY <1>7, ThreadsDiffer DEF Notify, Go, lockVars, lifeVars, askVars, eventVars,
     ControlInv, ControlTypes, LifeTypes, LockTypes, ThreadTypes, LocksInv, PlacesInv,
     FreesHeaders, Delivering, Unloading, InCall, Inner, Threads, Ask, CountedInv,
     Counting, AskingInv, Asking
<1>8. ASSUME Done PROVE AskingInv'
  BY <1>8, ThreadsDiffer DEF Done, Go, lockVars, lifeVars, eventVars, viewVars,
     ControlInv, ControlTypes, LifeTypes, LockTypes, ThreadTypes, LocksInv, PlacesInv,
     FreesHeaders, Delivering, Unloading, InCall, Inner, Threads, Ask, CountedInv,
     Counting, AskingInv, Asking
<1>9. ASSUME NEW t \in Threads, Lock(t) PROVE AskingInv'
  BY <1>9, ThreadsDiffer DEF Lock, Go, TakeLock, MayLock, lifeVars, askVars, eventVars,
     viewVars, ControlInv, ControlTypes, LifeTypes, LockTypes, ThreadTypes, LocksInv,
     PlacesInv, FreesHeaders, Delivering, Unloading, InCall, Inner, Threads, Ask,
     CountedInv, Counting, AskingInv, Asking
<1>10. ASSUME NEW t \in Threads, Load(t) PROVE AskingInv'
  BY <1>10, ThreadsDiffer DEF Load, Go, lockVars, askVars, eventVars, viewVars,
     ControlInv, ControlTypes, LifeTypes, LockTypes, ThreadTypes, LocksInv, PlacesInv,
     FreesHeaders, Delivering, Unloading, InCall, Inner, Threads, Ask, CountedInv,
     Counting, AskingInv, Asking
<1>11. ASSUME NEW t \in Threads, LoadFails(t) PROVE AskingInv'
  BY <1>11, ThreadsDiffer DEF LoadFails, Go, lockVars, lifeVars, eventVars, ControlInv,
     ControlTypes, LifeTypes, LockTypes, ThreadTypes, LocksInv, PlacesInv, FreesHeaders,
     Delivering, Unloading, InCall, Inner, Threads, Ask, CountedInv, Counting,
     AskingInv, Asking
<1>12. ASSUME NEW t \in Threads, CountCall(t) PROVE AskingInv'
  BY <1>12, ThreadsDiffer DEF CountCall, Go, Reason, lockVars, lifeVars, eventVars,
     viewVars, ControlInv, ControlTypes, LifeTypes, LockTypes, ThreadTypes, LocksInv,
     PlacesInv, FreesHeaders, Delivering, Unloading, InCall, Inner, Threads, Ask,
     CountedInv, Counting, AskingInv, Asking
<1>13. ASSUME NEW t \in Threads, Refresh(t) PROVE AskingInv'
  BY <1>13, ThreadsDiffer, RefreshCases DEF Refresh, Go, GoesOn, lockVars, lifeVars,
     askVars, viewVars, ControlInv, ControlTypes, LifeTypes, LockTypes, ThreadTypes,
     LocksInv, PlacesInv, FreesHeaders, Delivering, Unloading, InCall, Inner, Threads,
     Ask, CountedInv, Counting, AskingInv, Asking
<1>14. ASSUME NEW t \in Threads, Fill(t) PROVE AskingInv'
  BY <1>14, ThreadsDiffer DEF Fill, Go, Counts, Reason, lockVars, lifeVars, askVars,
     eventVars, ControlInv, ControlTypes, LifeTypes, LockTypes, ThreadTypes, LocksInv,
     PlacesInv, FreesHeaders, Delivering, Unloading, InCall, Inner, Threads, Ask,
     CountedInv, Counting, AskingInv, Asking
<1>15. ASSUME NEW t \in Threads, Lower(t) PROVE AskingInv'
  <2>1. /\ Unreason(t, "unlock") /\ pc[t] = "lower" /\ reasoned' = reasoned \ {t}
        /\ UNCHANGED <<handle_changes, request, wanted, after, old, view>>
    BY <1>15 DEF Lower, eventVars, viewVars
  <2> QED
    BY <2>1, UnreasonCases, ThreadsDiffer DEF Go, ControlInv, ControlTypes, LifeTypes,
       LockTypes, ThreadTypes, LocksInv, PlacesInv, FreesHeaders, Delivering, Unloading,
       InCall, Inner, Threads, Ask, CountedInv, Counting, AskingInv, Asking
<1>16. ASSUME NEW t \in Threads, Unlock(t) PROVE AskingInv'
  BY <1>16, ThreadsDiffer DEF Unlock, Go, FreeLock, lifeVars, eventVars,
     viewVars, ControlInv, ControlTypes, LifeTypes, LockTypes, ThreadTypes, LocksInv,
     PlacesInv, FreesHeaders, Delivering, Unloading, InCall, Inner, Threads, Ask,
     CountedInv, Counting, AskingInv, Asking
<1>17. ASSUME NEW t \in Threads, Tell(t) PROVE AskingInv'
  BY <1>17, ThreadsDiffer DEF Tell, Go, GoesOn, lockVars, lifeVars, askVars, viewVars,
     ControlInv, ControlTypes, LifeTypes, LockTypes, ThreadTypes, LocksInv, PlacesInv,
     FreesHeaders, Delivering, Unloading, InCall, Inner, Threads, Ask, CountedInv,
     Counting, AskingInv, Asking
<1>18. ASSUME NEW t \in Threads, TryLock(t) PROVE AskingInv'
  BY <1>18, ThreadsDiffer DEF TryLock, Go, GoesOn, TakeLock, MayLock, lifeVars, askVars,
     viewVars, ControlInv, ControlTypes, LifeTypes, LockTypes, ThreadTypes, LocksInv,
     PlacesInv, FreesHeaders, Delivering, Unloading, InCall, Inner, Threads, Ask,
     CountedInv, Counting, AskingInv, Asking
<1>19. ASSUME NEW t \in Threads, Build(t) PROVE AskingInv'
  BY <1>19, ThreadsDiffer DEF Build, Go, Counts, Reason, FreeLock, lifeVars, askVars,
     viewVars, ControlInv, ControlTypes, LifeTypes, LockTypes, ThreadTypes, LocksInv,
     PlacesInv, FreesHeaders, Delivering, Unloading, InCall, Inner, Threads, Ask,
     CountedInv, Counting, AskingInv, Asking
<1>20. ASSUME NEW t \in Threads, Keep(t) PROVE AskingInv'
  BY <1>20, ThreadsDiffer DEF Keep, Go, lockVars, askVars, eventVars, viewVars,
     ControlInv, ControlTypes, LifeTypes, LockTypes, ThreadTypes, LocksInv, PlacesInv,
     FreesHeaders, Delivering, Unloading, InCall, Inner, Threads, Ask, CountedInv,
     Counting, AskingInv, Asking
<1>21. ASSUME NEW t \in Threads, Post(t) PROVE AskingInv'
  BY <1>21, ThreadsDiffer DEF Post, Go, Notice, Reason, lockVars, lifeVars, askVars,
     eventVars, viewVars, ControlInv, ControlTypes, LifeTypes, LockTypes, ThreadTypes,
     LocksInv, PlacesInv, FreesHeaders, Delivering, Unloading, InCall, Inner, Threads,
     Ask, CountedInv, Counting, AskingInv, Asking
<1>22. ASSUME NEW t \in Threads, Drop(t) PROVE AskingInv'
  BY <1>22, ThreadsDiffer DEF Drop, Go, lockVars, lifeVars, askVars, viewVars,
     ControlInv, ControlTypes, LifeTypes, LockTypes, ThreadTypes, LocksInv, PlacesInv,
     FreesHeaders, Delivering, Unloading, InCall, Inner, Threads, Ask, CountedInv,
     Counting, AskingInv, Asking
<1>23. ASSUME NEW t \in Threads, Restore(t) PROVE AskingInv'
  BY <1>23, ThreadsDiffer DEF Restore, Go, GoesOn, lockVars, askVars, eventVars,
     viewVars, ControlInv, ControlTypes, LifeTypes, LockTypes, ThreadTypes, LocksInv,
     PlacesInv, FreesHeaders, Delivering, Unloading, InCall, Inner, Threads, Ask,
     CountedInv, Counting, AskingInv, Asking
<1>24. ASSUME NEW t \in Threads, Finalize(t) PROVE AskingInv'
  <2>1. CASE dropped[t] = {}
    <3>1. \A u \in Threads : Asking(u)' => Asking(u)
      BY <1>24, <2>1, ThreadsDiffer DEF Finalize, Go, askVars, ControlInv, ControlTypes,
         LifeTypes, LockTypes, ThreadTypes, LocksInv, PlacesInv, FreesHeaders, Delivering,
         Unloading, InCall, Inner, Threads, Ask, CountedInv, Counting, AskingInv, Asking
    <3> QED
      BY <1>24, <2>1, <3>1 DEF Finalize, askVars, viewVars, AskingInv
  <2>2. CASE dropped[t] # {}
    <3>1. /\ Unreason(t, "finalize") /\ pc[t] = "finalize"
          /\ UNCHANGED <<handle_changes, askVars, after, old, view>>
      BY <1>24, <2>2 DEF Finalize, eventVars, viewVars
    <3> QED
      BY <3>1, UnreasonCases, ThreadsDiffer DEF Go, askVars, ControlInv, ControlTypes,
         LifeTypes, LockTypes, ThreadTypes, LocksInv, PlacesInv, FreesHeaders, Delivering,
         Unloading, InCall, Inner, Threads, Ask, CountedInv, Counting, AskingInv, Asking
  <2> QED BY <2>1, <2>2
<1>25. ASSUME NEW t \in Threads, Uncache(t) PROVE AskingInv'
  BY <1>25, ThreadsDiffer DEF Uncache, Go, TakeLock, MayLock, lifeVars, askVars,
     eventVars, viewVars, ControlInv, ControlTypes, LifeTypes, LockTypes, ThreadTypes,
     LocksInv, PlacesInv, FreesHeaders, Delivering, Unloading, InCall, Inner, Threads,
     Ask, CountedInv, Counting, AskingInv, Asking
<1>26. ASSUME NEW t \in Threads, Join(t) PROVE AskingInv'
  BY <1>26, ThreadsDiffer DEF Join, Go, FreeLock, askVars, eventVars, viewVars,
     ControlInv, ControlTypes, LifeTypes, LockTypes, ThreadTypes, LocksInv, PlacesInv,
     FreesHeaders, Delivering, Unloading, InCall, Inner, Threads, Ask, CountedInv,
     Counting, AskingInv, Asking
<1>27. ASSUME Settle PROVE AskingInv'
  <2>1. /\ Unreason(Main, "free") /\ pc[Main] = "settle" /\ Main \in Threads
        /\ after' = [after EXCEPT ![Main] = "free"]
        /\ UNCHANGED <<handle_changes, askVars, old, view>>
    BY <1>27 DEF Settle, Threads, eventVars, viewVars
  <2> QED
    BY <2>1, UnreasonCases, ThreadsDiffer DEF Go, askVars, ControlInv, ControlTypes,
       LifeTypes, LockTypes, ThreadTypes, LocksInv, PlacesInv, FreesHeaders, Delivering,
       Unloading, InCall, Inner, Threads, Ask, CountedInv, Counting, AskingInv, Asking
<1>28. ASSUME FlagSet PROVE AskingInv'
  BY <1>28, ThreadsDiffer DEF FlagSet, Go, Notice, Reason, lockVars, lifeVars, askVars,
     eventVars, viewVars, ControlInv, ControlTypes, LifeTypes, LockTypes, ThreadTypes,
     LocksInv, PlacesInv, FreesHeaders, Delivering, Unloading, InCall, Inner, Threads,
     Ask, CountedInv, Counting, AskingInv, Asking
<1>29. ASSUME Begin PROVE AskingInv'
  BY <1>29, ThreadsDiffer DEF Begin, Go, lockVars, lifeVars, eventVars, viewVars,
     ControlInv, ControlTypes, LifeTypes, LockTypes, ThreadTypes, LocksInv, PlacesInv,
     FreesHeaders, Delivering, Unloading, InCall, Inner, Threads, Ask, CountedInv,
     Counting, AskingInv, Asking
<1>30. ASSUME UNCHANGED vars PROVE AskingInv'
  BY <1>30 DEF vars, lockVars, lifeVars, askVars, eventVars, viewVars, ControlInv,
     ControlTypes, LifeTypes, LockTypes, ThreadTypes, LocksInv, PlacesInv, FreesHeaders,
     Delivering, Unloading, InCall, Inner, Threads, Ask, CountedInv, Counting,
     AskingInv, Asking
<1>31. ASSUME NEW t \in Threads, LocalSize(t) \/ Measure(t) PROVE AskingInv'
  BY <1>31, SizeCases, ThreadsDiffer DEF Go, Notice, Reason, eventVars,
     viewVars, ControlInv, ControlTypes, LifeTypes, LockTypes, ThreadTypes, LocksInv,
     PlacesInv, FreesHeaders, Delivering, Unloading, InCall, Inner, Threads, Ask,
     CountedInv, Counting, AskingInv, Asking
<1> QED
  BY <1>1, <1>2, <1>3, <1>4, <1>5, <1>6, <1>7, <1>8, <1>9, <1>10, <1>11, <1>12, <1>13,
     <1>14, <1>15, <1>16, <1>17, <1>18, <1>19, <1>20, <1>21, <1>22, <1>23, <1>24, <1>25,
     <1>26, <1>27, <1>28, <1>29, <1>30, <1>31 DEF Next, User, Step

\* Every step keeps that one thread delivers.
LEMMA DeliveryStep == ControlInv /\ CountedInv /\ DeliveryInv /\ [Next]_vars => DeliveryInv'
<1> SUFFICES ASSUME ControlInv, CountedInv, DeliveryInv, [Next]_vars PROVE DeliveryInv'
  OBVIOUS
<1>1. ASSUME Open PROVE DeliveryInv'
  BY <1>1, ThreadsDiffer DEF Open, lockVars, lifeVars, askVars, eventVars, ControlInv,
     ControlTypes, LifeTypes, LockTypes, ThreadTypes, LocksInv, PlacesInv, FreesHeaders,
     Delivering, Unloading, InCall, Inner, Threads, Ask, CountedInv, Counting,
     DeliveryInv, Keeping
<1>2. ASSUME Close PROVE DeliveryInv'
  BY <1>2, ThreadsDiffer DEF Close, Go, lockVars, lifeVars, askVars, eventVars,
     ControlInv, ControlTypes, LifeTypes, LockTypes, ThreadTypes, LocksInv, PlacesInv,
     FreesHeaders, Delivering, Unloading, InCall, Inner, Threads, Ask, CountedInv,
     Counting, DeliveryInv, Keeping
<1>3. ASSUME SetFlag PROVE DeliveryInv'
  BY <1>3, ThreadsDiffer DEF SetFlag, Go, lockVars, lifeVars, askVars, eventVars,
     viewVars, ControlInv, ControlTypes, LifeTypes, LockTypes, ThreadTypes, LocksInv,
     PlacesInv, FreesHeaders, Delivering, Unloading, InCall, Inner, Threads, Ask,
     CountedInv, Counting, DeliveryInv, Keeping
<1>4. ASSUME NEW kind \in Ask, Launch(kind) PROVE DeliveryInv'
  BY <1>4, ThreadsDiffer DEF Launch, Wish, Reason, lockVars, lifeVars, eventVars,
     ControlInv, ControlTypes, LifeTypes, LockTypes, ThreadTypes, LocksInv, PlacesInv,
     FreesHeaders, Delivering, Unloading, InCall, Inner, Threads, Ask, CountedInv,
     Counting, DeliveryInv, Keeping
<1>5. ASSUME NEW kind \in Ask, Call(kind) PROVE DeliveryInv'
  BY <1>5, ThreadsDiffer DEF Call, Wish, Go, lockVars, lifeVars, eventVars, ControlInv,
     ControlTypes, LifeTypes, LockTypes, ThreadTypes, LocksInv, PlacesInv, FreesHeaders,
     Delivering, Unloading, InCall, Inner, Threads, Ask, CountedInv, Counting,
     DeliveryInv, Keeping
<1>6. ASSUME PushEvent PROVE DeliveryInv'
  BY <1>6, ThreadsDiffer DEF PushEvent, Change, Go, lockVars, lifeVars, askVars,
     viewVars, ControlInv, ControlTypes, LifeTypes, LockTypes, ThreadTypes, LocksInv,
     PlacesInv, FreesHeaders, Delivering, Unloading, InCall, Inner, Threads, Ask,
     CountedInv, Counting, DeliveryInv, Keeping
<1>7. ASSUME Notify PROVE DeliveryInv'
  BY <1>7, ThreadsDiffer DEF Notify, Go, lockVars, lifeVars, askVars, eventVars,
     ControlInv, ControlTypes, LifeTypes, LockTypes, ThreadTypes, LocksInv, PlacesInv,
     FreesHeaders, Delivering, Unloading, InCall, Inner, Threads, Ask, CountedInv,
     Counting, DeliveryInv, Keeping
<1>8. ASSUME Done PROVE DeliveryInv'
  BY <1>8, ThreadsDiffer DEF Done, Go, lockVars, lifeVars, eventVars, viewVars,
     ControlInv, ControlTypes, LifeTypes, LockTypes, ThreadTypes, LocksInv, PlacesInv,
     FreesHeaders, Delivering, Unloading, InCall, Inner, Threads, Ask, CountedInv,
     Counting, DeliveryInv, Keeping
<1>9. ASSUME NEW t \in Threads, Lock(t) PROVE DeliveryInv'
  BY <1>9, ThreadsDiffer DEF Lock, Go, TakeLock, MayLock, lifeVars, askVars, eventVars,
     viewVars, ControlInv, ControlTypes, LifeTypes, LockTypes, ThreadTypes, LocksInv,
     PlacesInv, FreesHeaders, Delivering, Unloading, InCall, Inner, Threads, Ask,
     CountedInv, Counting, DeliveryInv, Keeping
<1>10. ASSUME NEW t \in Threads, Load(t) PROVE DeliveryInv'
  BY <1>10, ThreadsDiffer DEF Load, Go, lockVars, askVars, eventVars, viewVars,
     ControlInv, ControlTypes, LifeTypes, LockTypes, ThreadTypes, LocksInv, PlacesInv,
     FreesHeaders, Delivering, Unloading, InCall, Inner, Threads, Ask, CountedInv,
     Counting, DeliveryInv, Keeping
<1>11. ASSUME NEW t \in Threads, LoadFails(t) PROVE DeliveryInv'
  BY <1>11, ThreadsDiffer DEF LoadFails, Go, lockVars, lifeVars, eventVars, ControlInv,
     ControlTypes, LifeTypes, LockTypes, ThreadTypes, LocksInv, PlacesInv, FreesHeaders,
     Delivering, Unloading, InCall, Inner, Threads, Ask, CountedInv, Counting,
     DeliveryInv, Keeping
<1>12. ASSUME NEW t \in Threads, CountCall(t) PROVE DeliveryInv'
  BY <1>12, ThreadsDiffer DEF CountCall, Go, Reason, lockVars, lifeVars, eventVars,
     viewVars, ControlInv, ControlTypes, LifeTypes, LockTypes, ThreadTypes, LocksInv,
     PlacesInv, FreesHeaders, Delivering, Unloading, InCall, Inner, Threads, Ask,
     CountedInv, Counting, DeliveryInv, Keeping
<1>13. ASSUME NEW t \in Threads, Refresh(t) PROVE DeliveryInv'
  BY <1>13, ThreadsDiffer, RefreshCases DEF Refresh, Go, GoesOn, lockVars, lifeVars,
     askVars, viewVars, ControlInv, ControlTypes, LifeTypes, LockTypes, ThreadTypes,
     LocksInv, PlacesInv, FreesHeaders, Delivering, Unloading, InCall, Inner, Threads,
     Ask, CountedInv, Counting, DeliveryInv, Keeping
<1>14. ASSUME NEW t \in Threads, Fill(t) PROVE DeliveryInv'
  BY <1>14, ThreadsDiffer DEF Fill, Go, Counts, Reason, lockVars, lifeVars, askVars,
     eventVars, ControlInv, ControlTypes, LifeTypes, LockTypes, ThreadTypes, LocksInv,
     PlacesInv, FreesHeaders, Delivering, Unloading, InCall, Inner, Threads, Ask,
     CountedInv, Counting, DeliveryInv, Keeping
<1>15. ASSUME NEW t \in Threads, Lower(t) PROVE DeliveryInv'
  <2>1. /\ Unreason(t, "unlock") /\ pc[t] = "lower" /\ reasoned' = reasoned \ {t}
        /\ UNCHANGED <<handle_changes, request, wanted, after, old, view>>
    BY <1>15 DEF Lower, eventVars, viewVars
  <2> QED
    BY <2>1, UnreasonCases, ThreadsDiffer DEF Go, ControlInv, ControlTypes, LifeTypes,
       LockTypes, ThreadTypes, LocksInv, PlacesInv, FreesHeaders, Delivering, Unloading,
       InCall, Inner, Threads, Ask, CountedInv, Counting, DeliveryInv, Keeping
<1>16. ASSUME NEW t \in Threads, Unlock(t) PROVE DeliveryInv'
  BY <1>16, ThreadsDiffer DEF Unlock, Go, FreeLock, lifeVars, eventVars,
     viewVars, ControlInv, ControlTypes, LifeTypes, LockTypes, ThreadTypes, LocksInv,
     PlacesInv, FreesHeaders, Delivering, Unloading, InCall, Inner, Threads, Ask,
     CountedInv, Counting, DeliveryInv, Keeping
<1>17. ASSUME NEW t \in Threads, Tell(t) PROVE DeliveryInv'
  BY <1>17, ThreadsDiffer DEF Tell, Go, GoesOn, lockVars, lifeVars, askVars, viewVars,
     ControlInv, ControlTypes, LifeTypes, LockTypes, ThreadTypes, LocksInv, PlacesInv,
     FreesHeaders, Delivering, Unloading, InCall, Inner, Threads, Ask, CountedInv,
     Counting, DeliveryInv, Keeping
<1>18. ASSUME NEW t \in Threads, TryLock(t) PROVE DeliveryInv'
  BY <1>18, ThreadsDiffer DEF TryLock, Go, GoesOn, TakeLock, MayLock, lifeVars, askVars,
     viewVars, ControlInv, ControlTypes, LifeTypes, LockTypes, ThreadTypes, LocksInv,
     PlacesInv, FreesHeaders, Delivering, Unloading, InCall, Inner, Threads, Ask,
     CountedInv, Counting, DeliveryInv, Keeping
<1>19. ASSUME NEW t \in Threads, Build(t) PROVE DeliveryInv'
  BY <1>19, ThreadsDiffer DEF Build, Go, Counts, Reason, FreeLock, lifeVars, askVars,
     viewVars, ControlInv, ControlTypes, LifeTypes, LockTypes, ThreadTypes, LocksInv,
     PlacesInv, FreesHeaders, Delivering, Unloading, InCall, Inner, Threads, Ask,
     CountedInv, Counting, DeliveryInv, Keeping
<1>20. ASSUME NEW t \in Threads, Keep(t) PROVE DeliveryInv'
  BY <1>20, ThreadsDiffer DEF Keep, Go, lockVars, askVars, eventVars, viewVars,
     ControlInv, ControlTypes, LifeTypes, LockTypes, ThreadTypes, LocksInv, PlacesInv,
     FreesHeaders, Delivering, Unloading, InCall, Inner, Threads, Ask, CountedInv,
     Counting, DeliveryInv, Keeping
<1>21. ASSUME NEW t \in Threads, Post(t) PROVE DeliveryInv'
  BY <1>21, ThreadsDiffer DEF Post, Go, Notice, Reason, lockVars, lifeVars, askVars,
     eventVars, viewVars, ControlInv, ControlTypes, LifeTypes, LockTypes, ThreadTypes,
     LocksInv, PlacesInv, FreesHeaders, Delivering, Unloading, InCall, Inner, Threads,
     Ask, CountedInv, Counting, DeliveryInv, Keeping
<1>22. ASSUME NEW t \in Threads, Drop(t) PROVE DeliveryInv'
  BY <1>22, ThreadsDiffer DEF Drop, Go, lockVars, lifeVars, askVars, viewVars,
     ControlInv, ControlTypes, LifeTypes, LockTypes, ThreadTypes, LocksInv, PlacesInv,
     FreesHeaders, Delivering, Unloading, InCall, Inner, Threads, Ask, CountedInv,
     Counting, DeliveryInv, Keeping
<1>23. ASSUME NEW t \in Threads, Restore(t) PROVE DeliveryInv'
  BY <1>23, ThreadsDiffer DEF Restore, Go, GoesOn, lockVars, askVars, eventVars,
     viewVars, ControlInv, ControlTypes, LifeTypes, LockTypes, ThreadTypes, LocksInv,
     PlacesInv, FreesHeaders, Delivering, Unloading, InCall, Inner, Threads, Ask,
     CountedInv, Counting, DeliveryInv, Keeping
<1>24. ASSUME NEW t \in Threads, Finalize(t) PROVE DeliveryInv'
  <2>1. CASE dropped[t] = {}
    BY <1>24, <2>1, ThreadsDiffer DEF Finalize, Go, lifeVars, lockVars, askVars,
       eventVars, ControlInv, ControlTypes, LifeTypes, LockTypes, ThreadTypes, LocksInv,
       PlacesInv, FreesHeaders, Delivering, Unloading, InCall, Inner, Threads, Ask,
       CountedInv, Counting, DeliveryInv, Keeping
  <2>2. CASE dropped[t] # {}
    <3>1. /\ Unreason(t, "finalize") /\ pc[t] = "finalize"
          /\ UNCHANGED <<handle_changes, askVars, after, old, view>>
      BY <1>24, <2>2 DEF Finalize, eventVars, viewVars
    <3> QED
      BY <3>1, UnreasonCases, ThreadsDiffer DEF Go, askVars, ControlInv, ControlTypes,
         LifeTypes, LockTypes, ThreadTypes, LocksInv, PlacesInv, FreesHeaders, Delivering,
         Unloading, InCall, Inner, Threads, Ask, CountedInv, Counting, DeliveryInv,
         Keeping
  <2> QED BY <2>1, <2>2
<1>25. ASSUME NEW t \in Threads, Uncache(t) PROVE DeliveryInv'
  BY <1>25, ThreadsDiffer DEF Uncache, Go, TakeLock, MayLock, lifeVars, askVars,
     eventVars, viewVars, ControlInv, ControlTypes, LifeTypes, LockTypes, ThreadTypes,
     LocksInv, PlacesInv, FreesHeaders, Delivering, Unloading, InCall, Inner, Threads,
     Ask, CountedInv, Counting, DeliveryInv, Keeping
<1>26. ASSUME NEW t \in Threads, Join(t) PROVE DeliveryInv'
  BY <1>26, ThreadsDiffer DEF Join, Go, FreeLock, askVars, eventVars, viewVars,
     ControlInv, ControlTypes, LifeTypes, LockTypes, ThreadTypes, LocksInv, PlacesInv,
     FreesHeaders, Delivering, Unloading, InCall, Inner, Threads, Ask, CountedInv,
     Counting, DeliveryInv, Keeping
<1>27. ASSUME Settle PROVE DeliveryInv'
  <2>1. /\ Unreason(Main, "free") /\ pc[Main] = "settle" /\ Main \in Threads
        /\ after' = [after EXCEPT ![Main] = "free"]
        /\ UNCHANGED <<handle_changes, askVars, old, view>>
    BY <1>27 DEF Settle, Threads, eventVars, viewVars
  <2> QED
    BY <2>1, UnreasonCases, ThreadsDiffer DEF Go, askVars, ControlInv, ControlTypes,
       LifeTypes, LockTypes, ThreadTypes, LocksInv, PlacesInv, FreesHeaders, Delivering,
       Unloading, InCall, Inner, Threads, Ask, CountedInv, Counting, DeliveryInv, Keeping
<1>28. ASSUME FlagSet PROVE DeliveryInv'
  BY <1>28, ThreadsDiffer DEF FlagSet, Go, Notice, Reason, lockVars, lifeVars, askVars,
     eventVars, viewVars, ControlInv, ControlTypes, LifeTypes, LockTypes, ThreadTypes,
     LocksInv, PlacesInv, FreesHeaders, Delivering, Unloading, InCall, Inner, Threads,
     Ask, CountedInv, Counting, DeliveryInv, Keeping
<1>29. ASSUME Begin PROVE DeliveryInv'
  BY <1>29, ThreadsDiffer DEF Begin, Go, lockVars, lifeVars, eventVars, viewVars,
     ControlInv, ControlTypes, LifeTypes, LockTypes, ThreadTypes, LocksInv, PlacesInv,
     FreesHeaders, Delivering, Unloading, InCall, Inner, Threads, Ask, CountedInv,
     Counting, DeliveryInv, Keeping
<1>30. ASSUME UNCHANGED vars PROVE DeliveryInv'
  BY <1>30 DEF vars, lockVars, lifeVars, askVars, eventVars, viewVars, ControlInv,
     ControlTypes, LifeTypes, LockTypes, ThreadTypes, LocksInv, PlacesInv, FreesHeaders,
     Delivering, Unloading, InCall, Inner, Threads, Ask, CountedInv, Counting,
     DeliveryInv, Keeping
<1>31. ASSUME NEW t \in Threads, LocalSize(t) \/ Measure(t) PROVE DeliveryInv'
  BY <1>31, SizeCases, ThreadsDiffer DEF Go, Notice, Reason, eventVars,
     viewVars, ControlInv, ControlTypes, LifeTypes, LockTypes, ThreadTypes, LocksInv,
     PlacesInv, FreesHeaders, Delivering, Unloading, InCall, Inner, Threads, Ask,
     CountedInv, Counting, DeliveryInv, Keeping
<1> QED
  BY <1>1, <1>2, <1>3, <1>4, <1>5, <1>6, <1>7, <1>8, <1>9, <1>10, <1>11, <1>12, <1>13,
     <1>14, <1>15, <1>16, <1>17, <1>18, <1>19, <1>20, <1>21, <1>22, <1>23, <1>24, <1>25,
     <1>26, <1>27, <1>28, <1>29, <1>30, <1>31 DEF Next, User, Step

----------------------------------------------------------------------------
(* Messages, headers and changes.                                          *)

MailTypes ==
  /\ content \subseteq known /\ known \subseteq Uids /\ missed \in BOOLEAN
  /\ view \in {"closed", "empty", "asked", "filled"}
  /\ event \in [Threads -> [added : SUBSET Uids, removed : SUBSET Uids]]
HeaderTypes ==
  /\ list \subseteq Headers /\ uid \in [Headers -> Uids \cup {Nothing}]
  /\ added \in [Changes -> SUBSET Headers] /\ expunged \in [Changes -> SUBSET Headers]
  /\ change \in [Threads -> Changes \cup {Nothing}]
  /\ dropped \in [Threads -> SUBSET Headers] /\ pending \in Seq(Changes \cup {Nothing})

\* There are headers left for what is asked for and for the events on their way.
RoomInv == Enough(Reserved)

\* A change is being made, posted, or both, by the thread that delivers; it is posted
\* once, and there was one free for each event on its way.
ChangesInv ==
  /\ \A t \in Threads :
       /\ change[t] # Nothing <=> pc[t] \in {"keep", "post", "drop"}
       /\ event[t] # NoEvent => pc[t] \in {"tell", "event", "build"}
       /\ pc[t] \in {"tell", "event", "build"} => FreeChanges # {}
       /\ pc[t] \in {"keep", "post"} => change[t] \notin Posted
  /\ \A i, j \in 1..Len(pending) : pending[i] = pending[j] /\ pending[i] # Nothing => i = j

Event == [added : SUBSET Uids, removed : SUBSET Uids]

\* How much room an event needs.
LEMMA SizeFacts ==
  /\ Size(NoEvent) = 0
  /\ \A e \in Event : Size(e) \in Nat
  /\ Cardinality(Uids) \in Nat
  /\ \A e \in Event : \A a \in SUBSET e.added :
       Cardinality(a \cup e.removed) \in Nat /\ Cardinality(a \cup e.removed) <= Size(e)
<1>1. Size(NoEvent) = 0
  BY FS_EmptySet DEF Size, NoEvent
<1>2. Cardinality(Uids) \in Nat
  BY FolderAssumption, FS_CardinalityType
<1>3. \A s \in SUBSET Uids : IsFiniteSet(s) /\ Cardinality(s) \in Nat
  BY FolderAssumption, FS_Subset, FS_CardinalityType
<1>4. ASSUME NEW e \in Event PROVE Size(e) \in Nat
  BY <1>3 DEF Size, Event
<1>5. ASSUME NEW e \in Event, NEW a \in SUBSET e.added
      PROVE  Cardinality(a \cup e.removed) \in Nat /\ Cardinality(a \cup e.removed) <= Size(e)
  <2>1. e.added \in SUBSET Uids /\ e.removed \in SUBSET Uids /\ a \in SUBSET Uids
    BY DEF Event
  <2>2. /\ IsFiniteSet(a) /\ IsFiniteSet(e.removed) /\ IsFiniteSet(e.added)
        /\ Cardinality(a) \in Nat /\ Cardinality(e.removed) \in Nat
        /\ Cardinality(e.added) \in Nat
    BY <1>3, <2>1
  <2>3. Cardinality(a) <= Cardinality(e.added)
    BY <2>2, FS_Subset
  <2>4. Cardinality(a \cup e.removed)
          = Cardinality(a) + Cardinality(e.removed) - Cardinality(a \cap e.removed)
    BY <2>2, FS_Union
  <2>5. Cardinality(a \cap e.removed) \in Nat /\ Cardinality(a \cup e.removed) \in Nat
    <3>1. a \cap e.removed \in SUBSET Uids /\ a \cup e.removed \in SUBSET Uids
      BY <2>1
    <3> QED BY <1>3, <3>1
  <2> QED BY <2>2, <2>3, <2>4, <2>5 DEF Size
<1> QED BY <1>1, <1>2, <1>4, <1>5

\* How the reserve changes with the event of one thread.
LEMMA ReservedChanges ==
  ASSUME MailTypes, NEW t \in Threads, NEW e \in Event, event' = [event EXCEPT ![t] = e]
  PROVE  LET asked == IF view = "asked" THEN Cardinality(Uids) ELSE 0
             askedNext == IF view' = "asked" THEN Cardinality(Uids) ELSE 0
         IN /\ Reserved \in Nat /\ Reserved' \in Nat
            /\ Reserved' = Reserved + Size(e) - Size(event[t]) + askedNext - asked
<1> DEFINE asked == IF view = "asked" THEN Cardinality(Uids) ELSE 0
           askedNext == IF view' = "asked" THEN Cardinality(Uids) ELSE 0
<1>1. asked \in Nat /\ askedNext \in Nat
  BY SizeFacts
<1>2. \A u \in Threads : event[u] \in Event /\ Size(event[u]) \in Nat
  BY SizeFacts DEF MailTypes, Event
<1>3. Size(e) \in Nat
  BY SizeFacts
<1>4. \A u \in Threads : event'[u] = IF u = t THEN e ELSE event[u]
  BY DEF MailTypes
<1>5. Reserved = asked + Size(event[Main]) + Size(event[Worker]) + Size(event[Push])
  BY DEF Reserved
<1>6. Reserved' = askedNext + Size(event'[Main]) + Size(event'[Worker]) + Size(event'[Push])
  BY DEF Reserved, Size
<1> HIDE DEF asked, askedNext
<1>7. Main \in Threads /\ Worker \in Threads /\ Push \in Threads
  BY DEF Threads
<1>8. CASE t = Main
  <2>1. event'[Main] = e /\ event'[Worker] = event[Worker] /\ event'[Push] = event[Push]
    BY <1>4, <1>7, <1>8, ThreadsDiffer
  <2> QED BY <1>1, <1>2, <1>3, <1>5, <1>6, <1>7, <1>8, <2>1 DEF asked, askedNext
<1>9. CASE t = Worker
  <2>1. event'[Worker] = e /\ event'[Main] = event[Main] /\ event'[Push] = event[Push]
    BY <1>4, <1>7, <1>9, ThreadsDiffer
  <2> QED BY <1>1, <1>2, <1>3, <1>5, <1>6, <1>7, <1>9, <2>1 DEF asked, askedNext
<1>10. CASE t = Push
  <2>1. event'[Push] = e /\ event'[Main] = event[Main] /\ event'[Worker] = event[Worker]
    BY <1>4, <1>7, <1>10, ThreadsDiffer
  <2> QED BY <1>1, <1>2, <1>3, <1>5, <1>6, <1>7, <1>10, <2>1 DEF asked, askedNext
<1> QED BY <1>8, <1>9, <1>10 DEF Threads

\* The reserve without the event of one thread, or for what is asked for.
LEMMA ReservedParts ==
  ASSUME MailTypes
  PROVE  /\ Reserved \in Nat
         /\ view = "asked" => Cardinality(Uids) <= Reserved
         /\ \A t \in Threads : Size(event[t]) \in Nat /\ Size(event[t]) <= Reserved
<1>1. \A u \in Threads : event[u] \in Event /\ Size(event[u]) \in Nat
  BY SizeFacts DEF MailTypes, Event
<1>2. Main \in Threads /\ Worker \in Threads /\ Push \in Threads
  BY DEF Threads
<1>3. Cardinality(Uids) \in Nat
  BY SizeFacts
<1>4. /\ Size(event[Main]) \in Nat /\ Size(event[Worker]) \in Nat /\ Size(event[Push]) \in Nat
  BY <1>1, <1>2
<1>5. Reserved \in Nat /\ (view = "asked" => Cardinality(Uids) <= Reserved)
  BY <1>3, <1>4 DEF Reserved
<1>6. /\ Size(event[Main]) <= Reserved /\ Size(event[Worker]) <= Reserved
      /\ Size(event[Push]) <= Reserved
  BY <1>3, <1>4 DEF Reserved
<1> QED BY <1>1, <1>5, <1>6 DEF Threads

\* Headers are finitely many.
LEMMA AliveCount ==
  /\ IsFiniteSet(Alive) /\ Cardinality(Alive) \in Nat
  /\ IsFiniteSet(Headers \ Alive) /\ Cardinality(Headers \ Alive) \in Nat
<1>1. Alive \in SUBSET Headers
  BY DEF Alive
<1> QED BY <1>1, FolderAssumption, FS_Subset, FS_Difference, FS_CardinalityType

\* The headers of a change that is built.
NewUids(t) == event[t].added \cap content
\* What is built.
LEMMA BuildFacts ==
  ASSUME LifeTypes, MailTypes, HeaderTypes, RoomInv, ChangesInv, NEW t \in Threads, Build(t)
  PROVE  \E k \in FreeChanges, a \in [NewUids(t) \cup event[t].removed -> Headers \ Alive] :
           /\ \A u, v \in NewUids(t) \cup event[t].removed : u # v => a[u] # a[v]
           /\ uid' = Born(a) /\ reason_to_live' = reason_to_live + Cardinality(Range(a))
           /\ added' = [added EXCEPT ![k] = {a[u] : u \in NewUids(t)}]
           /\ expunged' = [expunged EXCEPT ![k] = {a[u] : u \in event[t].removed}]
           /\ change' = [change EXCEPT ![t] = k]
<1> DEFINE us == NewUids(t) \cup event[t].removed
           a  == PickFresh(us)
           k  == CHOOSE k \in FreeChanges : TRUE
<1>1. event[t] \in Event /\ us \in SUBSET Uids
  BY DEF MailTypes, Event, NewUids
<1>2. k \in FreeChanges
  BY DEF ChangesInv, Build
<1>3. Enough(Cardinality(us))
  <2>1. NewUids(t) \in SUBSET event[t].added
    BY DEF NewUids
  <2>2. Cardinality(us) \in Nat /\ Cardinality(us) <= Size(event[t])
    BY <1>1, <2>1, SizeFacts
  <2>3. Size(event[t]) \in Nat /\ Size(event[t]) <= Reserved /\ Reserved \in Nat
    BY ReservedParts
  <2>4. Cardinality(Headers \ Alive) >= Reserved
    BY DEF RoomInv, Enough
  <2> HIDE DEF us
  <2> QED BY <2>2, <2>3, <2>4, AliveCount DEF Enough
<1>4. a \in [us -> Headers \ Alive] /\ \A u, v \in us : u # v => a[u] # a[v]
  BY <1>1, <1>3, PickFreshFacts
<1>5. /\ uid' = Born(a) /\ reason_to_live' = reason_to_live + Cardinality(Range(a))
      /\ added' = [added EXCEPT ![k] = {a[u] : u \in NewUids(t)}]
      /\ expunged' = [expunged EXCEPT ![k] = {a[u] : u \in event[t].removed}]
      /\ change' = [change EXCEPT ![t] = k]
  BY ReasonIs DEF Build, Counts, NewUids
<1> HIDE DEF a, k
<1> QED BY <1>2, <1>4, <1>5

\* The headers that the list is filled with.
Filling == IF folder THEN content ELSE {}
\* What the list is filled with.
LEMMA FillFacts ==
  ASSUME LifeTypes, MailTypes, RoomInv, view = "asked", NEW t, Fill(t)
  PROVE  \E g \in [Filling -> Headers \ Alive] :
           /\ Filling \in SUBSET Uids /\ \A u, v \in Filling : u # v => g[u] # g[v]
           /\ uid' = Born(g) /\ reason_to_live' = reason_to_live + Cardinality(Range(g))
           /\ list' = list \cup Range(g)
<1> DEFINE g == PickFresh(Filling)
<1>1. Filling \in SUBSET Uids
  BY DEF MailTypes, Filling
<1>2. Enough(Cardinality(Filling))
  <2>1. Cardinality(Filling) \in Nat /\ Cardinality(Filling) <= Cardinality(Uids)
    BY <1>1, FolderAssumption, FS_Subset, FS_CardinalityType
  <2>2. Cardinality(Uids) <= Reserved /\ Reserved \in Nat /\ Cardinality(Uids) \in Nat
    BY ReservedParts, SizeFacts
  <2>3. Cardinality(Headers \ Alive) >= Reserved
    BY DEF RoomInv, Enough
  <2> QED BY <2>1, <2>2, <2>3, AliveCount DEF Enough
<1>3. g \in [Filling -> Headers \ Alive] /\ \A u, v \in Filling : u # v => g[u] # g[v]
  BY <1>1, <1>2, PickFreshFacts
<1>4. /\ uid' = Born(g) /\ reason_to_live' = reason_to_live + Cardinality(Range(g))
      /\ list' = list \cup Range(g)
  BY ReasonIs DEF Fill, Counts, Filling
<1> HIDE DEF g
<1> QED BY <1>1, <1>3, <1>4

\* An event comes, for which there are headers and a change.
LEMMA ChangeFacts ==
  ASSUME MailTypes, NEW t, Change(t)
  PROVE  \E e \in Event :
           /\ Room(Size(e)) /\ FreeChanges # {}
           /\ e.added \in SUBSET (Uids \ known) /\ e.removed \in SUBSET content
           /\ content' = (content \ e.removed) \cup e.added /\ known' = known \cup e.added
           /\ event' = [event EXCEPT ![t] = e] /\ Go(t, "tell")
<1>1. PICK new \in SUBSET (Uids \ known), gone \in SUBSET content :
        LET e == [added |-> new, removed |-> gone]
        IN /\ new \cup gone # {} /\ Room(Size(e)) /\ FreeChanges # {}
           /\ content' = (content \ gone) \cup new /\ known' = known \cup new
           /\ event' = [event EXCEPT ![t] = e] /\ Go(t, "tell")
  BY DEF Change
<1> DEFINE e == [added |-> new, removed |-> gone]
<1>2. e \in Event /\ e.added = new /\ e.removed = gone
  BY DEF MailTypes, Event
<1>3. /\ Room(Size(e)) /\ FreeChanges # {}
      /\ content' = (content \ gone) \cup new /\ known' = known \cup new
      /\ event' = [event EXCEPT ![t] = e] /\ Go(t, "tell")
  BY <1>1
<1> HIDE DEF e
<1> QED BY <1>2, <1>3

\* No event is an event too.
LEMMA NoEventType == NoEvent \in Event
BY DEF NoEvent, Event

\* Every step keeps the types of messages and events.
LEMMA MailTypesStep == MailTypes /\ [Next]_vars => MailTypes'
<1> SUFFICES ASSUME MailTypes, [Next]_vars PROVE MailTypes'
  OBVIOUS
<1>1. ASSUME Open PROVE MailTypes'
  BY <1>1 DEF Open, mailVars, eventVars, MailTypes
<1>2. ASSUME Close PROVE MailTypes'
  BY <1>2 DEF Close, Go, mailVars, eventVars, MailTypes
<1>3. ASSUME SetFlag PROVE MailTypes'
  BY <1>3 DEF SetFlag, Go, mailVars, viewVars, eventVars, MailTypes
<1>4. ASSUME NEW kind \in Ask, Launch(kind) PROVE MailTypes'
  BY <1>4 DEF Launch, Wish, Reason, mailVars, eventVars, MailTypes
<1>5. ASSUME NEW kind \in Ask, Call(kind) PROVE MailTypes'
  BY <1>5 DEF Call, Wish, Go, mailVars, eventVars, MailTypes
<1>6. ASSUME PushEvent PROVE MailTypes'
  <2>1. UNCHANGED <<view, missed>> /\ Push \in Threads
    BY <1>6 DEF PushEvent, viewVars, Threads
  <2>2. PICK e \in Event :
          /\ e.added \in SUBSET (Uids \ known) /\ e.removed \in SUBSET content
          /\ content' = (content \ e.removed) \cup e.added /\ known' = known \cup e.added
          /\ event' = [event EXCEPT ![Push] = e]
    BY <1>6, ChangeFacts DEF PushEvent
  <2> QED BY <2>1, <2>2 DEF MailTypes, Event
<1>7. ASSUME Notify PROVE MailTypes'
  BY <1>7 DEF Notify, Go, mailVars, eventVars, MailTypes
<1>8. ASSUME Done PROVE MailTypes'
  BY <1>8 DEF Done, Go, mailVars, viewVars, eventVars, MailTypes
<1>9. ASSUME NEW t \in Threads, Lock(t) PROVE MailTypes'
  BY <1>9 DEF Lock, Go, TakeLock, MayLock, mailVars, viewVars, eventVars, MailTypes
<1>10. ASSUME NEW t \in Threads, Load(t) PROVE MailTypes'
  BY <1>10 DEF Load, Go, mailVars, viewVars, eventVars, MailTypes
<1>11. ASSUME NEW t \in Threads, LoadFails(t) PROVE MailTypes'
  BY <1>11 DEF LoadFails, Go, mailVars, eventVars, MailTypes
<1>12. ASSUME NEW t \in Threads, CountCall(t) PROVE MailTypes'
  BY <1>12 DEF CountCall, Go, Reason, mailVars, viewVars, eventVars, MailTypes
<1>13. ASSUME NEW t \in Threads, Refresh(t) PROVE MailTypes'
  <2>1. UNCHANGED <<view, missed>>
    BY <1>13 DEF Refresh, viewVars
  <2>2. CASE Change(t)
    <3>1. PICK e \in Event :
            /\ e.added \in SUBSET (Uids \ known) /\ e.removed \in SUBSET content
            /\ content' = (content \ e.removed) \cup e.added /\ known' = known \cup e.added
            /\ event' = [event EXCEPT ![t] = e]
      BY <2>2, ChangeFacts
    <3> QED BY <2>1, <3>1 DEF MailTypes, Event
  <2>3. CASE UNCHANGED <<mailVars, event>>
    BY <2>1, <2>3 DEF MailTypes, mailVars
  <2> QED BY <1>13, <2>2, <2>3 DEF Refresh
<1>14. ASSUME NEW t \in Threads, Fill(t) PROVE MailTypes'
  BY <1>14 DEF Fill, Go, Counts, Reason, mailVars, eventVars, MailTypes
<1>15. ASSUME NEW t \in Threads, Lower(t) PROVE MailTypes'
  BY <1>15 DEF Lower, Go, mailVars, viewVars, eventVars, MailTypes
<1>16. ASSUME NEW t \in Threads, Unlock(t) PROVE MailTypes'
  BY <1>16 DEF Unlock, Go, FreeLock, mailVars, viewVars, eventVars,
     MailTypes
<1>17. ASSUME NEW t \in Threads, Tell(t) PROVE MailTypes'
  BY <1>17, NoEventType DEF Tell, Go, GoesOn, mailVars, viewVars, MailTypes, Event
<1>18. ASSUME NEW t \in Threads, TryLock(t) PROVE MailTypes'
  BY <1>18, NoEventType DEF TryLock, Go, GoesOn, TakeLock, MayLock, mailVars, viewVars,
     MailTypes, Event
<1>19. ASSUME NEW t \in Threads, Build(t) PROVE MailTypes'
  BY <1>19, NoEventType DEF Build, Go, Counts, Reason, FreeLock, mailVars, viewVars,
     MailTypes, Event
<1>20. ASSUME NEW t \in Threads, Keep(t) PROVE MailTypes'
  BY <1>20 DEF Keep, Go, mailVars, viewVars, eventVars, MailTypes
<1>21. ASSUME NEW t \in Threads, Post(t) PROVE MailTypes'
  BY <1>21 DEF Post, Go, Notice, Reason, mailVars, viewVars, eventVars, MailTypes
<1>22. ASSUME NEW t \in Threads, Drop(t) PROVE MailTypes'
  BY <1>22 DEF Drop, Go, mailVars, viewVars, MailTypes
<1>23. ASSUME NEW t \in Threads, Restore(t) PROVE MailTypes'
  BY <1>23 DEF Restore, Go, GoesOn, mailVars, viewVars, eventVars, MailTypes
<1>24. ASSUME NEW t \in Threads, Finalize(t) PROVE MailTypes'
  <2>1. UNCHANGED <<content, known, missed, view, event>>
    BY <1>24 DEF Finalize, mailVars, viewVars, eventVars
  <2> QED BY <2>1 DEF MailTypes
<1>25. ASSUME NEW t \in Threads, Uncache(t) PROVE MailTypes'
  BY <1>25 DEF Uncache, Go, TakeLock, MayLock, mailVars, viewVars, eventVars, MailTypes
<1>26. ASSUME NEW t \in Threads, Join(t) PROVE MailTypes'
  BY <1>26 DEF Join, Go, FreeLock, mailVars, viewVars, eventVars, MailTypes
<1>27. ASSUME Settle PROVE MailTypes'
  BY <1>27 DEF Settle, Go, mailVars, viewVars, eventVars, MailTypes
<1>28. ASSUME FlagSet PROVE MailTypes'
  BY <1>28 DEF FlagSet, Go, Notice, Reason, mailVars, viewVars, eventVars, MailTypes
<1>29. ASSUME Begin PROVE MailTypes'
  BY <1>29 DEF Begin, Go, mailVars, viewVars, eventVars, MailTypes
<1>30. ASSUME UNCHANGED vars PROVE MailTypes'
  BY <1>30 DEF vars, mailVars, viewVars, eventVars, MailTypes
<1>31. ASSUME NEW t \in Threads, LocalSize(t) \/ Measure(t) PROVE MailTypes'
  BY <1>31, SizeCases DEF MailTypes
<1> QED
  BY <1>1, <1>2, <1>3, <1>4, <1>5, <1>6, <1>7, <1>8, <1>9, <1>10, <1>11, <1>12, <1>13,
     <1>14, <1>15, <1>16, <1>17, <1>18, <1>19, <1>20, <1>21, <1>22, <1>23, <1>24, <1>25,
     <1>26, <1>27, <1>28, <1>29, <1>30, <1>31 DEF Next, User, Step

\* Every step keeps the types of headers and changes.
LEMMA HeaderTypesStep ==
  ControlInv /\ CountedInv /\ AskingInv /\ MailTypes /\ HeaderTypes /\ RoomInv /\ ChangesInv
    /\ [Next]_vars
    => HeaderTypes'
<1> SUFFICES ASSUME ControlInv, CountedInv, AskingInv, MailTypes, HeaderTypes, RoomInv,
                    ChangesInv, [Next]_vars
             PROVE  HeaderTypes'
  OBVIOUS
<1>1. ASSUME Open PROVE HeaderTypes'
  BY <1>1 DEF Open, headerVars, eventVars, HeaderTypes
<1>2. ASSUME Close PROVE HeaderTypes'
  <2>1. list \ UNION {HeadersOf(k) : k \in {k \in Changes : Live(k)}} \in SUBSET Headers
    BY DEF HeaderTypes
  <2>2. Main \in Threads
    BY DEF Threads
  <2> QED BY <1>2, <2>1, <2>2 DEF Close, HeaderTypes, headerVars, eventVars
<1>3. ASSUME SetFlag PROVE HeaderTypes'
  BY <1>3 DEF SetFlag, Go, viewVars, headerVars, eventVars, HeaderTypes
<1>4. ASSUME NEW kind \in Ask, Launch(kind) PROVE HeaderTypes'
  BY <1>4 DEF Launch, Wish, Reason, headerVars, eventVars, HeaderTypes
<1>5. ASSUME NEW kind \in Ask, Call(kind) PROVE HeaderTypes'
  BY <1>5 DEF Call, Wish, Go, headerVars, eventVars, HeaderTypes
<1>6. ASSUME PushEvent PROVE HeaderTypes'
  BY <1>6 DEF PushEvent, Change, Go, viewVars, headerVars, HeaderTypes
<1>7. ASSUME Notify PROVE HeaderTypes'
  <2> DEFINE k == Head(pending)
  <2>1. k \in Changes \cup {Nothing} /\ Tail(pending) \in Seq(Changes \cup {Nothing})
    BY <1>7 DEF Notify, HeaderTypes
  <2>2. HeadersOf(k) \in SUBSET Headers /\ (k # Nothing => added[k] \in SUBSET Headers)
    BY <2>1 DEF HeaderTypes, HeadersOf
  <2>3. Updated(k) \in SUBSET Headers
    BY <2>2 DEF Updated, HeaderTypes
  <2>4. list' \in SUBSET Headers /\ pending' = Tail(pending)
    BY <1>7, <2>3 DEF Notify
  <2>5. dropped' \in [Threads -> SUBSET Headers]
    <3>1. PICK s : dropped' = [dropped EXCEPT ![Main] = (list \cup HeadersOf(k)) \ s]
      BY <1>7 DEF Notify
    <3> QED BY <2>2, <3>1 DEF HeaderTypes
  <2> QED BY <1>7, <2>1, <2>4, <2>5 DEF Notify, HeaderTypes, headerVars, eventVars
<1>8. ASSUME Done PROVE HeaderTypes'
  BY <1>8 DEF Done, Go, viewVars, headerVars, eventVars, HeaderTypes
<1>9. ASSUME NEW t \in Threads, Lock(t) PROVE HeaderTypes'
  BY <1>9 DEF Lock, Go, TakeLock, MayLock, viewVars, headerVars, eventVars, HeaderTypes
<1>10. ASSUME NEW t \in Threads, Load(t) PROVE HeaderTypes'
  BY <1>10 DEF Load, Go, viewVars, headerVars, eventVars, HeaderTypes
<1>11. ASSUME NEW t \in Threads, LoadFails(t) PROVE HeaderTypes'
  BY <1>11 DEF LoadFails, Go, headerVars, eventVars, HeaderTypes
<1>12. ASSUME NEW t \in Threads, CountCall(t) PROVE HeaderTypes'
  BY <1>12 DEF CountCall, Go, Reason, viewVars, headerVars, eventVars, HeaderTypes
<1>13. ASSUME NEW t \in Threads, Refresh(t) PROVE HeaderTypes'
  BY <1>13 DEF Refresh, Go, GoesOn, viewVars, headerVars, HeaderTypes
<1>14. ASSUME NEW t \in Threads, Fill(t) PROVE HeaderTypes'
  <2>1. PICK g \in [Filling -> Headers \ Alive] :
          /\ Filling \in SUBSET Uids /\ \A u, v \in Filling : u # v => g[u] # g[v]
          /\ uid' = Born(g) /\ list' = list \cup Range(g)
    <3>1. view = "asked"
      BY <1>14 DEF Fill, CountedInv, AskingInv, Asking, Threads, ControlInv, PlacesInv
    <3> QED BY <1>14, <3>1, FillFacts DEF ControlInv, ControlTypes
  <2>2. uid' \in [Headers -> Uids \cup {Nothing}] /\ Range(g) \subseteq Headers
    BY <2>1, BornFacts DEF HeaderTypes
  <2>3. UNCHANGED <<added, expunged, change, dropped, pending>>
    BY <1>14 DEF Fill, eventVars
  <2> QED BY <2>1, <2>2, <2>3 DEF HeaderTypes
<1>15. ASSUME NEW t \in Threads, Lower(t) PROVE HeaderTypes'
  BY <1>15 DEF Lower, Go, viewVars, headerVars, eventVars, HeaderTypes
<1>16. ASSUME NEW t \in Threads, Unlock(t) PROVE HeaderTypes'
  BY <1>16 DEF Unlock, viewVars, headerVars, eventVars, HeaderTypes
<1>17. ASSUME NEW t \in Threads, Tell(t) PROVE HeaderTypes'
  BY <1>17 DEF Tell, Go, GoesOn, viewVars, headerVars, HeaderTypes
<1>18. ASSUME NEW t \in Threads, TryLock(t) PROVE HeaderTypes'
  BY <1>18 DEF TryLock, Go, GoesOn, TakeLock, MayLock, viewVars, headerVars, HeaderTypes
<1>19. ASSUME NEW t \in Threads, Build(t) PROVE HeaderTypes'
  <2>1. PICK k \in FreeChanges, a \in [NewUids(t) \cup event[t].removed -> Headers \ Alive] :
          /\ \A u, v \in NewUids(t) \cup event[t].removed : u # v => a[u] # a[v]
          /\ uid' = Born(a)
          /\ added' = [added EXCEPT ![k] = {a[u] : u \in NewUids(t)}]
          /\ expunged' = [expunged EXCEPT ![k] = {a[u] : u \in event[t].removed}]
          /\ change' = [change EXCEPT ![t] = k]
    BY <1>19, BuildFacts DEF ControlInv, ControlTypes
  <2>2. NewUids(t) \cup event[t].removed \in SUBSET Uids
    BY DEF MailTypes, NewUids
  <2>3. uid' \in [Headers -> Uids \cup {Nothing}]
    BY <2>1, <2>2, BornFacts DEF HeaderTypes
  <2>4. k \in Changes
    BY DEF FreeChanges
  <2>5. /\ {a[u] : u \in NewUids(t)} \in SUBSET Headers
        /\ {a[u] : u \in event[t].removed} \in SUBSET Headers
    BY <2>1
  <2>6. UNCHANGED <<list, dropped, pending>>
    BY <1>19 DEF Build, viewVars
  <2> QED BY <2>1, <2>3, <2>4, <2>5, <2>6 DEF HeaderTypes
<1>20. ASSUME NEW t \in Threads, Keep(t) PROVE HeaderTypes'
  BY <1>20 DEF Keep, Go, viewVars, headerVars, eventVars, HeaderTypes
<1>21. ASSUME NEW t \in Threads, Post(t) PROVE HeaderTypes'
  BY <1>21 DEF Post, Go, Notice, Reason, viewVars, headerVars, eventVars, HeaderTypes
<1>22. ASSUME NEW t \in Threads, Drop(t) PROVE HeaderTypes'
  <2>1. HeadersOf(change[t]) \in SUBSET Headers
    BY DEF HeaderTypes, HeadersOf
  <2> QED BY <1>22, <2>1 DEF Drop, HeaderTypes, viewVars, headerVars
<1>23. ASSUME NEW t \in Threads, Restore(t) PROVE HeaderTypes'
  BY <1>23 DEF Restore, Go, GoesOn, viewVars, headerVars, eventVars, HeaderTypes
<1>24. ASSUME NEW t \in Threads, Finalize(t) PROVE HeaderTypes'
  <2>1. UNCHANGED <<list, added, expunged, change, pending>>
    BY <1>24 DEF Finalize, viewVars, eventVars
  <2>2. CASE dropped[t] = {}
    BY <1>24, <2>1, <2>2 DEF Finalize, HeaderTypes
  <2>3. CASE dropped[t] # {}
    <3>1. PICK h \in dropped[t] : /\ uid' = [uid EXCEPT ![h] = Nothing]
                                  /\ dropped' = [dropped EXCEPT ![t] = dropped[t] \ {h}]
      BY <1>24, <2>3 DEF Finalize
    <3> QED BY <2>1, <3>1 DEF HeaderTypes
  <2> QED BY <2>2, <2>3
<1>25. ASSUME NEW t \in Threads, Uncache(t) PROVE HeaderTypes'
  BY <1>25 DEF Uncache, Go, TakeLock, MayLock, viewVars, headerVars, eventVars,
     HeaderTypes
<1>26. ASSUME NEW t \in Threads, Join(t) PROVE HeaderTypes'
  BY <1>26 DEF Join, Go, FreeLock, viewVars, headerVars, eventVars, HeaderTypes
<1>27. ASSUME Settle PROVE HeaderTypes'
  BY <1>27 DEF Settle, Go, viewVars, headerVars, eventVars, HeaderTypes
<1>28. ASSUME FlagSet PROVE HeaderTypes'
  BY <1>28 DEF FlagSet, Go, Notice, Reason, viewVars, headerVars, eventVars, HeaderTypes
<1>29. ASSUME Begin PROVE HeaderTypes'
  BY <1>29 DEF Begin, Go, viewVars, headerVars, eventVars, HeaderTypes
<1>30. ASSUME UNCHANGED vars PROVE HeaderTypes'
  BY <1>30 DEF vars, viewVars, headerVars, eventVars, HeaderTypes
<1>31. ASSUME NEW t \in Threads, LocalSize(t) \/ Measure(t) PROVE HeaderTypes'
  <2>1. pending' = pending \/ pending' = Append(pending, Nothing)
    BY <1>31, SizeCases DEF Notice
  <2>2. pending' \in Seq(Changes \cup {Nothing})
    BY <2>1 DEF HeaderTypes
  <2>3. UNCHANGED <<list, uid, added, expunged, change, dropped>>
    BY <1>31, SizeCases
  <2> QED BY <2>2, <2>3 DEF HeaderTypes
<1> QED
  BY <1>1, <1>2, <1>3, <1>4, <1>5, <1>6, <1>7, <1>8, <1>9, <1>10, <1>11, <1>12, <1>13,
     <1>14, <1>15, <1>16, <1>17, <1>18, <1>19, <1>20, <1>21, <1>22, <1>23, <1>24, <1>25,
     <1>26, <1>27, <1>28, <1>29, <1>30, <1>31 DEF Next, User, Step

\* Neither the events nor the headers change, and no headers are asked for.
LEMMA RoomFrame ==
  MailTypes /\ RoomInv /\ UNCHANGED <<uid, event>> /\ (view' = "asked" => view = "asked")
    => RoomInv'
<1> SUFFICES ASSUME MailTypes, RoomInv, UNCHANGED <<uid, event>>, view' = "asked" => view = "asked"
             PROVE  RoomInv'
  OBVIOUS
<1>1. Main \in Threads /\ event[Main] \in Event /\ event' = [event EXCEPT ![Main] = event[Main]]
  BY DEF Threads, MailTypes, Event
<1>2. /\ Reserved \in Nat /\ Reserved' \in Nat
      /\ Reserved' = Reserved + Size(event[Main]) - Size(event[Main])
                     + (IF view' = "asked" THEN Cardinality(Uids) ELSE 0)
                     - (IF view = "asked" THEN Cardinality(Uids) ELSE 0)
  BY <1>1, ReservedChanges
<1>3. Size(event[Main]) \in Nat /\ Cardinality(Uids) \in Nat
  BY <1>1, SizeFacts
<1>4. Reserved' <= Reserved
  BY <1>2, <1>3
<1>5. Alive' = Alive
  BY DEF Alive
<1>6. Cardinality(Headers \ Alive) >= Reserved
  BY DEF RoomInv, Enough
<1> QED BY <1>2, <1>4, <1>5, <1>6, AliveCount DEF RoomInv, Enough

\* An event is gone.
LEMMA RoomGone ==
  ASSUME MailTypes, RoomInv, UNCHANGED <<uid, view>>, NEW t \in Threads,
         event' = [event EXCEPT ![t] = NoEvent]
  PROVE  RoomInv'
<1>1. /\ Reserved \in Nat /\ Reserved' \in Nat
      /\ Reserved' = Reserved + Size(NoEvent) - Size(event[t])
                     + (IF view' = "asked" THEN Cardinality(Uids) ELSE 0)
                     - (IF view = "asked" THEN Cardinality(Uids) ELSE 0)
  BY NoEventType, ReservedChanges
<1>2. Size(NoEvent) = 0 /\ Cardinality(Uids) \in Nat /\ Size(event[t]) \in Nat
  BY SizeFacts DEF MailTypes, Event
<1>3. Reserved' <= Reserved
  BY <1>1, <1>2
<1>4. Alive' = Alive
  BY DEF Alive
<1>5. Cardinality(Headers \ Alive) >= Reserved
  BY DEF RoomInv, Enough
<1> QED BY <1>1, <1>3, <1>4, <1>5, AliveCount DEF RoomInv, Enough

\* An event comes for which there is room.
LEMMA RoomTaken ==
  ASSUME MailTypes, UNCHANGED <<uid, view>>, NEW t \in Threads, event[t] = NoEvent,
         NEW e \in Event, Room(Size(e)), event' = [event EXCEPT ![t] = e]
  PROVE  RoomInv'
<1>1. /\ Reserved \in Nat /\ Reserved' \in Nat
      /\ Reserved' = Reserved + Size(e) - Size(NoEvent)
                     + (IF view' = "asked" THEN Cardinality(Uids) ELSE 0)
                     - (IF view = "asked" THEN Cardinality(Uids) ELSE 0)
  BY ReservedChanges
<1>2. Size(NoEvent) = 0 /\ Cardinality(Uids) \in Nat /\ Size(e) \in Nat
  BY SizeFacts
<1>3. Reserved' = Size(e) + Reserved
  BY <1>1, <1>2
<1>4. Alive' = Alive
  BY DEF Alive
<1>5. Cardinality(Headers \ Alive) >= Size(e) + Reserved
  BY DEF Room, Enough
<1> QED BY <1>1, <1>3, <1>4, <1>5 DEF RoomInv, Enough

\* Headers are asked for for which there is room.
LEMMA RoomAsked ==
  ASSUME MailTypes, RoomInv, UNCHANGED <<uid, event>>, NEW kind, Wish(kind)
  PROVE  RoomInv'
<1>1. CASE kind # "headers"
  BY <1>1, RoomFrame DEF Wish
<1>2. CASE kind = "headers"
  <2>1. view = "empty" /\ view' = "asked" /\ Room(Cardinality(Uids))
    BY <1>2 DEF Wish
  <2>2. Main \in Threads /\ event[Main] \in Event /\ event' = [event EXCEPT ![Main] = event[Main]]
    BY DEF Threads, MailTypes, Event
  <2>3. /\ Reserved \in Nat /\ Reserved' \in Nat
        /\ Reserved' = Reserved + Size(event[Main]) - Size(event[Main])
                       + (IF view' = "asked" THEN Cardinality(Uids) ELSE 0)
                       - (IF view = "asked" THEN Cardinality(Uids) ELSE 0)
    BY <2>2, ReservedChanges
  <2>4. Size(event[Main]) \in Nat /\ Cardinality(Uids) \in Nat
    BY <2>2, SizeFacts
  <2>5. Reserved' = Cardinality(Uids) + Reserved
    BY <2>1, <2>3, <2>4
  <2>6. Alive' = Alive
    BY DEF Alive
  <2>7. Cardinality(Headers \ Alive) >= Cardinality(Uids) + Reserved
    BY <2>1 DEF Room, Enough
  <2> QED BY <2>3, <2>5, <2>6, <2>7 DEF RoomInv, Enough
<1> QED BY <1>1, <1>2

\* Headers are born for an event.
LEMMA RoomBuilt ==
  ASSUME MailTypes, RoomInv, NEW t \in Threads, event' = [event EXCEPT ![t] = NoEvent],
         UNCHANGED view, NEW us \in SUBSET Uids,
         Cardinality(us) <= Size(event[t]),
         Cardinality((Headers \ Alive)') = Cardinality(Headers \ Alive) - Cardinality(us)
  PROVE  RoomInv'
<1>1. /\ Reserved \in Nat /\ Reserved' \in Nat
      /\ Reserved' = Reserved + Size(NoEvent) - Size(event[t])
                     + (IF view' = "asked" THEN Cardinality(Uids) ELSE 0)
                     - (IF view = "asked" THEN Cardinality(Uids) ELSE 0)
  BY NoEventType, ReservedChanges
<1>2. Size(NoEvent) = 0 /\ Cardinality(Uids) \in Nat /\ Size(event[t]) \in Nat
  BY SizeFacts DEF MailTypes, Event
<1>3. Reserved' = Reserved - Size(event[t])
  BY <1>1, <1>2
<1>4. Cardinality(us) \in Nat
  BY FolderAssumption, FS_Subset, FS_CardinalityType
<1>5. Cardinality(Headers \ Alive) >= Reserved
  BY DEF RoomInv, Enough
<1>6. Cardinality(Headers \ Alive') >= Reserved'
  BY <1>1, <1>2, <1>3, <1>4, <1>5, AliveCount
<1> QED BY <1>6 DEF RoomInv, Enough

\* Every step keeps that there is room for what is on its way.
LEMMA RoomStep ==
  ControlInv /\ CountedInv /\ AskingInv /\ MailTypes /\ HeaderTypes /\ RoomInv /\ ChangesInv
    /\ [Next]_vars
    => RoomInv'
<1> SUFFICES ASSUME ControlInv, CountedInv, AskingInv, MailTypes, HeaderTypes, RoomInv,
                    ChangesInv, [Next]_vars
             PROVE  RoomInv'
  OBVIOUS
<1>1. ASSUME Open PROVE RoomInv'
  BY <1>1, RoomFrame DEF Open, headerVars, eventVars
<1>2. ASSUME Close PROVE RoomInv'
  BY <1>2, RoomFrame DEF Close, headerVars, eventVars
<1>3. ASSUME SetFlag PROVE RoomInv'
  BY <1>3, RoomFrame DEF SetFlag, viewVars, headerVars, eventVars
<1>4. ASSUME NEW kind \in Ask, Launch(kind) PROVE RoomInv'
  <2>1. UNCHANGED <<uid, event>> /\ Wish(kind)
    BY <1>4 DEF Launch, headerVars, eventVars
  <2> QED BY <2>1, RoomAsked
<1>5. ASSUME NEW kind \in Ask, Call(kind) PROVE RoomInv'
  <2>1. UNCHANGED <<uid, event>> /\ Wish(kind)
    BY <1>5 DEF Call, headerVars, eventVars
  <2> QED BY <2>1, RoomAsked
<1>6. ASSUME PushEvent PROVE RoomInv'
  <2>1. UNCHANGED <<uid, view>> /\ event[Push] = NoEvent /\ Change(Push) /\ Push \in Threads
    BY <1>6 DEF PushEvent, headerVars, viewVars, ChangesInv, Threads
  <2> QED BY <2>1, ChangeFacts, RoomTaken
<1>7. ASSUME Notify PROVE RoomInv'
  BY <1>7, RoomFrame DEF Notify, headerVars, eventVars
<1>8. ASSUME Done PROVE RoomInv'
  BY <1>8, RoomFrame DEF Done, viewVars, headerVars, eventVars
<1>9. ASSUME NEW t \in Threads, Lock(t) PROVE RoomInv'
  BY <1>9, RoomFrame DEF Lock, viewVars, headerVars, eventVars
<1>10. ASSUME NEW t \in Threads, Load(t) PROVE RoomInv'
  BY <1>10, RoomFrame DEF Load, viewVars, headerVars, eventVars
<1>11. ASSUME NEW t \in Threads, LoadFails(t) PROVE RoomInv'
  BY <1>11, RoomFrame DEF LoadFails, headerVars, eventVars
<1>12. ASSUME NEW t \in Threads, CountCall(t) PROVE RoomInv'
  BY <1>12, RoomFrame DEF CountCall, viewVars, headerVars, eventVars
<1>13. ASSUME NEW t \in Threads, Refresh(t) PROVE RoomInv'
  <2>1. UNCHANGED <<uid, view>> /\ event[t] = NoEvent
    BY <1>13 DEF Refresh, headerVars, viewVars, ChangesInv
  <2>2. CASE Change(t)
    BY <2>1, <2>2, ChangeFacts, RoomTaken
  <2>3. CASE UNCHANGED event
    BY <2>1, <2>3, RoomFrame
  <2> QED BY <1>13, <2>2, <2>3 DEF Refresh
<1>14. ASSUME NEW t \in Threads, Fill(t) PROVE RoomInv'
  <2>1. view = "asked"
    BY <1>14 DEF Fill, CountedInv, AskingInv, Asking, Threads, ControlInv, PlacesInv
  <2>2. PICK g \in [Filling -> Headers \ Alive] :
          /\ Filling \in SUBSET Uids /\ \A u, v \in Filling : u # v => g[u] # g[v]
          /\ uid' = Born(g)
    BY <1>14, <2>1, FillFacts DEF ControlInv, ControlTypes
  <2>3. Alive' = Alive \cup Range(g)
    BY <2>2, BornFacts DEF HeaderTypes
  <2>4. Cardinality(Headers \ Alive') = Cardinality(Headers \ Alive) - Cardinality(Filling)
    BY <2>2, <2>3, BornCount
  <2>5. Main \in Threads /\ event[Main] \in Event /\ event' = [event EXCEPT ![Main] = event[Main]]
    BY <1>14 DEF Fill, eventVars, Threads, MailTypes, Event
  <2>6. /\ Reserved \in Nat /\ Reserved' \in Nat
        /\ Reserved' = Reserved + Size(event[Main]) - Size(event[Main])
                       + (IF view' = "asked" THEN Cardinality(Uids) ELSE 0)
                       - (IF view = "asked" THEN Cardinality(Uids) ELSE 0)
    BY <2>5, ReservedChanges
  <2>7. Size(event[Main]) \in Nat /\ Cardinality(Uids) \in Nat /\ view' = "filled"
    BY <1>14, <2>5, SizeFacts DEF Fill
  <2>8. Reserved' = Reserved - Cardinality(Uids)
    BY <2>1, <2>6, <2>7
  <2>9. Cardinality(Filling) \in Nat /\ Cardinality(Filling) <= Cardinality(Uids)
    BY <2>2, FolderAssumption, FS_Subset, FS_CardinalityType
  <2>10. Cardinality(Headers \ Alive) >= Reserved
    BY DEF RoomInv, Enough
  <2>11. Cardinality(Headers \ Alive') >= Reserved'
    BY <2>4, <2>6, <2>7, <2>8, <2>9, <2>10, AliveCount
  <2> QED BY <2>11 DEF RoomInv, Enough
<1>15. ASSUME NEW t \in Threads, Lower(t) PROVE RoomInv'
  BY <1>15, RoomFrame DEF Lower, viewVars, headerVars, eventVars
<1>16. ASSUME NEW t \in Threads, Unlock(t) PROVE RoomInv'
  BY <1>16, RoomFrame DEF Unlock, viewVars, headerVars, eventVars
<1>17. ASSUME NEW t \in Threads, Tell(t) PROVE RoomInv'
  <2>1. event' = event \/ event' = [event EXCEPT ![t] = NoEvent]
    BY <1>17 DEF Tell
  <2>2. UNCHANGED <<uid, view>>
    BY <1>17 DEF Tell, headerVars, viewVars
  <2> QED BY <2>1, <2>2, RoomFrame, RoomGone
<1>18. ASSUME NEW t \in Threads, TryLock(t) PROVE RoomInv'
  <2>1. event' = event \/ event' = [event EXCEPT ![t] = NoEvent]
    BY <1>18 DEF TryLock
  <2>2. UNCHANGED <<uid, view>>
    BY <1>18 DEF TryLock, headerVars, viewVars
  <2> QED BY <2>1, <2>2, RoomFrame, RoomGone
<1>19. ASSUME NEW t \in Threads, Build(t) PROVE RoomInv'
  <2> DEFINE us == NewUids(t) \cup event[t].removed
  <2>1. PICK k \in FreeChanges, a \in [us -> Headers \ Alive] :
          (\A u, v \in us : u # v => a[u] # a[v]) /\ uid' = Born(a)
    BY <1>19, BuildFacts DEF ControlInv, ControlTypes
  <2>2. event[t] \in Event /\ us \in SUBSET Uids /\ NewUids(t) \in SUBSET event[t].added
    BY DEF MailTypes, Event, NewUids
  <2>3. Cardinality(us) <= Size(event[t])
    BY <2>2, SizeFacts
  <2> HIDE DEF us
  <2>4. Alive' = Alive \cup Range(a)
    BY <2>1, <2>2, BornFacts DEF HeaderTypes
  <2>5. Cardinality(Headers \ Alive') = Cardinality(Headers \ Alive) - Cardinality(us)
    BY <2>1, <2>2, <2>4, BornCount
  <2>6. event' = [event EXCEPT ![t] = NoEvent] /\ UNCHANGED view
    BY <1>19 DEF Build, viewVars
  <2> QED BY <2>2, <2>3, <2>5, <2>6, RoomBuilt
<1>20. ASSUME NEW t \in Threads, Keep(t) PROVE RoomInv'
  BY <1>20, RoomFrame DEF Keep, viewVars, headerVars, eventVars
<1>21. ASSUME NEW t \in Threads, Post(t) PROVE RoomInv'
  BY <1>21, RoomFrame DEF Post, viewVars, headerVars, eventVars
<1>22. ASSUME NEW t \in Threads, Drop(t) PROVE RoomInv'
  BY <1>22, RoomFrame DEF Drop, viewVars, headerVars
<1>23. ASSUME NEW t \in Threads, Restore(t) PROVE RoomInv'
  BY <1>23, RoomFrame DEF Restore, viewVars, headerVars, eventVars
<1>24. ASSUME NEW t \in Threads, Finalize(t) PROVE RoomInv'
  <2>1. UNCHANGED <<event, view>>
    BY <1>24 DEF Finalize, eventVars, viewVars
  <2>2. uid' = uid \/ \E h \in dropped[t] : uid' = [uid EXCEPT ![h] = Nothing]
    BY <1>24 DEF Finalize
  <2>3. Headers \ Alive \subseteq (Headers \ Alive)'
    BY <2>2 DEF Alive, HeaderTypes
  <2>4. IsFiniteSet((Headers \ Alive)') /\ Cardinality((Headers \ Alive)') \in Nat
    BY FolderAssumption, FS_Difference, FS_CardinalityType
  <2>5. Cardinality((Headers \ Alive)') >= Cardinality(Headers \ Alive)
    BY <2>3, <2>4, FS_Subset
  <2>6. Reserved' = Reserved
    BY <2>1 DEF Reserved, Size
  <2> QED BY <2>4, <2>5, <2>6, AliveCount, ReservedParts DEF RoomInv, Enough
<1>25. ASSUME NEW t \in Threads, Uncache(t) PROVE RoomInv'
  BY <1>25, RoomFrame DEF Uncache, viewVars, headerVars, eventVars
<1>26. ASSUME NEW t \in Threads, Join(t) PROVE RoomInv'
  BY <1>26, RoomFrame DEF Join, viewVars, headerVars, eventVars
<1>27. ASSUME Settle PROVE RoomInv'
  BY <1>27, RoomFrame DEF Settle, viewVars, headerVars, eventVars
<1>28. ASSUME FlagSet PROVE RoomInv'
  BY <1>28, RoomFrame DEF FlagSet, viewVars, headerVars, eventVars
<1>29. ASSUME Begin PROVE RoomInv'
  BY <1>29, RoomFrame DEF Begin, viewVars, headerVars, eventVars
<1>30. ASSUME UNCHANGED vars PROVE RoomInv'
  BY <1>30, RoomFrame DEF vars, viewVars, headerVars, eventVars
<1>31. ASSUME NEW t \in Threads, LocalSize(t) \/ Measure(t) PROVE RoomInv'
  BY <1>31, SizeCases, RoomFrame
<1> QED
  BY <1>1, <1>2, <1>3, <1>4, <1>5, <1>6, <1>7, <1>8, <1>9, <1>10, <1>11, <1>12, <1>13,
     <1>14, <1>15, <1>16, <1>17, <1>18, <1>19, <1>20, <1>21, <1>22, <1>23, <1>24, <1>25,
     <1>26, <1>27, <1>28, <1>29, <1>30, <1>31 DEF Next, User, Step

\* What is posted after a change is posted, and after the first is taken.
LEMMA PostedAppend ==
  ASSUME HeaderTypes, NEW k \in Changes \cup {Nothing}, pending' = Append(pending, k)
  PROVE  /\ Posted' = Posted \cup {k} /\ Len(pending') = Len(pending) + 1
         /\ Len(pending) \in Nat
         /\ \A i \in 1..Len(pending') :
              pending'[i] = IF i = Len(pending) + 1 THEN k ELSE pending[i]
<1>1. Len(pending) \in Nat /\ DOMAIN pending = 1..Len(pending)
  BY DEF HeaderTypes
<1>2. /\ Len(pending') = Len(pending) + 1 /\ DOMAIN pending' = 1..Len(pending')
      /\ \A i \in 1..Len(pending') :
           pending'[i] = IF i = Len(pending) + 1 THEN k ELSE pending[i]
  BY DEF HeaderTypes
<1>3. Posted' = Posted \cup {k}
  BY <1>1, <1>2 DEF Posted, Range
<1> QED BY <1>1, <1>2, <1>3

\* What is posted after the first is taken.
LEMMA PostedTail ==
  ASSUME HeaderTypes, pending # <<>>, pending' = Tail(pending)
  PROVE  /\ Posted = Posted' \cup {Head(pending)} /\ Len(pending') = Len(pending) - 1
         /\ Len(pending') \in Nat
         /\ \A i \in 1..Len(pending') : pending'[i] = pending[i + 1]
         /\ Head(pending) = pending[1] /\ Head(pending) \in Changes \cup {Nothing}
<1>1. Len(pending) \in Nat /\ DOMAIN pending = 1..Len(pending) /\ Len(pending) # 0
  BY DEF HeaderTypes
<1>2. /\ Len(pending') = Len(pending) - 1 /\ DOMAIN pending' = 1..Len(pending')
      /\ \A i \in 1..Len(pending') : pending'[i] = pending[i + 1]
      /\ Head(pending) = pending[1] /\ Head(pending) \in Changes \cup {Nothing}
  BY DEF HeaderTypes
<1>3. Posted = Posted' \cup {pending[1]}
  <2>1. \A x \in Posted : x \in Posted' \cup {pending[1]}
    <3> SUFFICES ASSUME NEW i \in 1..Len(pending)
                 PROVE  pending[i] \in Posted' \cup {pending[1]}
      BY <1>1 DEF Posted, Range
    <3>1. CASE i = 1
      BY <3>1
    <3>2. CASE i # 1
      <4>1. i - 1 \in 1..Len(pending') /\ pending'[i - 1] = pending[i]
        BY <1>1, <1>2, <3>2
      <4> QED BY <1>2, <4>1 DEF Posted, Range
    <3> QED BY <3>1, <3>2
  <2>2. \A x \in Posted' \cup {pending[1]} : x \in Posted
    <3>1. pending[1] \in Posted
      BY <1>1 DEF Posted, Range
    <3>2. ASSUME NEW i \in 1..Len(pending') PROVE pending'[i] \in Posted
      <4>1. i + 1 \in 1..Len(pending) /\ pending'[i] = pending[i + 1]
        BY <1>1, <1>2
      <4> QED BY <1>1, <4>1 DEF Posted, Range
    <3> QED BY <1>2, <3>1, <3>2 DEF Posted, Range
  <2> QED BY <2>1, <2>2
<1> QED BY <1>1, <1>2, <1>3

\* The free changes stay with what is made and posted.
LEMMA ChangesFrame ==
  UNCHANGED <<change, pending>> => UNCHANGED <<FreeChanges, Posted>> /\ \A k : Live(k)' = Live(k)
BY DEF FreeChanges, Posted, Live

\* Where the changes stay what and where they are, an event is made or not, and no
\* thread comes to or leaves the places where it has a change.
Making(t) == pc[t] \in {"keep", "post", "drop"}
Coming(t) == pc[t] \in {"tell", "event", "build"}
LEMMA ChangesKept ==
  ASSUME ChangesInv, UNCHANGED <<change, pending, event>>,
         \A t \in Threads : /\ Making(t)' <=> Making(t)
                            /\ Coming(t)' <=> Coming(t)
                            /\ pc'[t] \in {"keep", "post"} => pc[t] \in {"keep", "post"}
  PROVE  ChangesInv'
<1>1. UNCHANGED <<FreeChanges, Posted>>
  BY ChangesFrame
<1> QED BY <1>1 DEF ChangesInv, Making, Coming

\* Every step keeps who has which change.
LEMMA ChangesStep ==
  ControlInv /\ CountedInv /\ DeliveryInv /\ MailTypes /\ HeaderTypes /\ RoomInv
    /\ ChangesInv /\ [Next]_vars
    => ChangesInv'
<1> SUFFICES ASSUME ControlInv, CountedInv, DeliveryInv, MailTypes, HeaderTypes, RoomInv,
                    ChangesInv, [Next]_vars
             PROVE  ChangesInv'
  OBVIOUS
<1>1. ASSUME Open PROVE ChangesInv'
  BY <1>1, ChangesKept DEF Open, Making, Coming, ControlInv, ControlTypes, ThreadTypes,
     headerVars, eventVars
<1>2. ASSUME Close PROVE ChangesInv'
  BY <1>2, ChangesKept DEF Close, Go, Making, Coming, ControlInv, ControlTypes,
     ThreadTypes, headerVars, eventVars
<1>3. ASSUME SetFlag PROVE ChangesInv'
  BY <1>3, ChangesKept DEF SetFlag, Go, Making, Coming, ControlInv, ControlTypes,
     ThreadTypes, headerVars, eventVars
<1>4. ASSUME NEW kind \in Ask, Launch(kind) PROVE ChangesInv'
  BY <1>4, ChangesKept DEF Launch, Making, Coming, ControlInv, ControlTypes, ThreadTypes,
     headerVars, eventVars
<1>5. ASSUME NEW kind \in Ask, Call(kind) PROVE ChangesInv'
  BY <1>5, ChangesKept DEF Call, Go, Making, Coming, ControlInv, ControlTypes, ThreadTypes,
     headerVars, eventVars
<1>6. ASSUME PushEvent PROVE ChangesInv'
  <2>1. PICK e \in Event : event' = [event EXCEPT ![Push] = e] /\ Go(Push, "tell") /\ FreeChanges # {}
    BY <1>6, ChangeFacts DEF PushEvent
  <2>2. UNCHANGED <<change, pending>> /\ pc[Push] = "free"
    BY <1>6 DEF PushEvent
  <2>3. UNCHANGED <<FreeChanges, Posted>>
    BY <2>2, ChangesFrame
  <2> QED
    BY <2>1, <2>2, <2>3 DEF Go, ChangesInv, ControlInv, ControlTypes, ThreadTypes,
       MailTypes,
       Threads
<1>7. ASSUME Notify PROVE ChangesInv'
  <2>1. /\ pc[Main] = "free" /\ Go(Main, "finalize") /\ UNCHANGED <<change, event>>
        /\ pending # <<>> /\ pending' = Tail(pending)
    BY <1>7 DEF Notify, eventVars
  <2>2. /\ Posted = Posted' \cup {Head(pending)} /\ Len(pending') = Len(pending) - 1
        /\ Len(pending') \in Nat
        /\ \A i \in 1..Len(pending') : pending'[i] = pending[i + 1]
    BY <2>1, PostedTail
  <2>3. FreeChanges \subseteq FreeChanges'
    BY <2>1, <2>2 DEF FreeChanges, Live
  <2>4. \A i, j \in 1..Len(pending') : pending'[i] = pending'[j] /\ pending'[i] # Nothing => i = j
    <3> SUFFICES ASSUME NEW i \in 1..Len(pending'), NEW j \in 1..Len(pending'),
                        pending'[i] = pending'[j], pending'[i] # Nothing
                 PROVE  i = j
      OBVIOUS
    <3>1. /\ i + 1 \in 1..Len(pending) /\ j + 1 \in 1..Len(pending)
          /\ pending[i + 1] = pending[j + 1] /\ pending[i + 1] # Nothing
      BY <2>2 DEF HeaderTypes
    <3>2. i + 1 = j + 1
      BY <3>1 DEF ChangesInv
    <3> QED BY <3>2
  <2> QED
    BY <2>1, <2>2, <2>3, <2>4 DEF Go, ChangesInv, ControlInv, ControlTypes, ThreadTypes,
       Threads
<1>8. ASSUME Done PROVE ChangesInv'
  BY <1>8, ChangesKept DEF Done, Go, Making, Coming, ControlInv, ControlTypes, ThreadTypes,
     headerVars, eventVars
<1>9. ASSUME NEW t \in Threads, Lock(t) PROVE ChangesInv'
  BY <1>9, ChangesKept DEF Lock, Go, Making, Coming, ControlInv, ControlTypes, ThreadTypes,
     headerVars, eventVars
<1>10. ASSUME NEW t \in Threads, Load(t) PROVE ChangesInv'
  BY <1>10, ChangesKept DEF Load, Go, Making, Coming, ControlInv, ControlTypes, ThreadTypes,
     headerVars, eventVars
<1>11. ASSUME NEW t \in Threads, LoadFails(t) PROVE ChangesInv'
  BY <1>11, ChangesKept DEF LoadFails, Go, Making, Coming, ControlInv, ControlTypes,
     ThreadTypes, headerVars, eventVars
<1>12. ASSUME NEW t \in Threads, CountCall(t) PROVE ChangesInv'
  BY <1>12, ChangesKept DEF CountCall, Go, Making, Coming, ControlInv, ControlTypes,
     ThreadTypes, headerVars, eventVars
<1>13. ASSUME NEW t \in Threads, Refresh(t) PROVE ChangesInv'
  <2>1. CASE Change(t)
    <3>1. PICK e \in Event : event' = [event EXCEPT ![t] = e] /\ Go(t, "tell") /\ FreeChanges # {}
      BY <2>1, ChangeFacts
    <3>2. UNCHANGED <<change, pending>> /\ pc[t] = "refresh"
      BY <1>13 DEF Refresh
    <3>3. UNCHANGED <<FreeChanges, Posted>>
      BY <3>2, ChangesFrame
    <3> QED
      BY <3>1, <3>2, <3>3 DEF Go, ChangesInv, ControlInv, ControlTypes, ThreadTypes,
         MailTypes
  <2>2. CASE Go(t, GoesOn(t)) /\ UNCHANGED event
    <3>1. UNCHANGED <<change, pending>> /\ pc[t] = "refresh"
      BY <1>13 DEF Refresh
    <3> QED
      BY <2>2, <3>1, ChangesKept DEF Go, GoesOn, Making, Coming, ControlInv, ControlTypes,
         ThreadTypes
  <2> QED BY <1>13, <2>1, <2>2 DEF Refresh
<1>14. ASSUME NEW t \in Threads, Fill(t) PROVE ChangesInv'
  BY <1>14, ChangesKept DEF Fill, Go, Making, Coming, ControlInv, ControlTypes, ThreadTypes,
     eventVars
<1>15. ASSUME NEW t \in Threads, Lower(t) PROVE ChangesInv'
  <2>1. UNCHANGED <<change, pending, event>> /\ pc[t] = "lower"
    BY <1>15 DEF Lower, eventVars
  <2>2. Go(t, "unlock") \/ Go(t, "uncache")
    BY <1>15, UnreasonCases DEF Lower, ControlInv, ControlTypes
  <2> QED
    BY <2>1, <2>2, ChangesKept DEF Go, Making, Coming, ControlInv, ControlTypes, ThreadTypes
<1>16. ASSUME NEW t \in Threads, Unlock(t) PROVE ChangesInv'
  <2>1. /\ UNCHANGED <<change, pending, event>> /\ pc[t] = "unlock"
        /\ Go(t, "free") \/ Go(t, "size")
    BY <1>16 DEF Unlock, eventVars
  <2> QED
    BY <2>1, ChangesKept DEF Go, Making, Coming, ControlInv, ControlTypes, ThreadTypes
<1>17. ASSUME NEW t \in Threads, Tell(t) PROVE ChangesInv'
  <2>1. /\ pc[t] = "tell" /\ UNCHANGED <<change, pending>>
        /\ (Go(t, "event") /\ UNCHANGED event)
             \/ (Go(t, GoesOn(t)) /\ event' = [event EXCEPT ![t] = NoEvent])
    BY <1>17 DEF Tell
  <2>2. UNCHANGED <<FreeChanges, Posted>>
    BY <2>1, ChangesFrame
  <2> QED
    BY <2>1, <2>2 DEF Go, GoesOn, ChangesInv, ControlInv, ControlTypes, ThreadTypes,
       MailTypes
<1>18. ASSUME NEW t \in Threads, TryLock(t) PROVE ChangesInv'
  <2>1. /\ pc[t] = "event" /\ UNCHANGED <<change, pending>>
        /\ (Go(t, "build") /\ UNCHANGED event)
             \/ (Go(t, GoesOn(t)) /\ event' = [event EXCEPT ![t] = NoEvent])
    BY <1>18 DEF TryLock
  <2>2. UNCHANGED <<FreeChanges, Posted>>
    BY <2>1, ChangesFrame
  <2> QED
    BY <2>1, <2>2 DEF Go, GoesOn, ChangesInv, ControlInv, ControlTypes, ThreadTypes,
       MailTypes
<1>19. ASSUME NEW t \in Threads, Build(t) PROVE ChangesInv'
  <2>1. PICK k \in FreeChanges : change' = [change EXCEPT ![t] = k]
    BY <1>19, BuildFacts DEF ControlInv, ControlTypes
  <2>2. /\ pc[t] = "build" /\ Go(t, "keep") /\ UNCHANGED pending
        /\ event' = [event EXCEPT ![t] = NoEvent]
    BY <1>19 DEF Build
  <2>3. \A u \in Threads \ {t} : ~Coming(u) /\ ~Making(u)
    BY <2>2 DEF DeliveryInv, Delivering, Coming, Making
  <2>4. k \in Changes /\ k # Nothing /\ k \notin Posted /\ Posted' = Posted
    BY <2>2, ThreadsDiffer DEF FreeChanges, Live, Posted
  <2> QED
    BY <2>1, <2>2, <2>3, <2>4 DEF Go, ChangesInv, Coming, Making, ControlInv, ControlTypes,
       ThreadTypes, MailTypes, HeaderTypes
<1>20. ASSUME NEW t \in Threads, Keep(t) PROVE ChangesInv'
  BY <1>20, ChangesKept DEF Keep, Go, Making, Coming, ControlInv, ControlTypes, ThreadTypes,
     headerVars, eventVars
<1>21. ASSUME NEW t \in Threads, Post(t) PROVE ChangesInv'
  <2>1. /\ pc[t] = "post" /\ Go(t, "drop") /\ pending' = Append(pending, change[t])
        /\ UNCHANGED <<event, change>>
    BY <1>21 DEF Post, Notice, headerVars, eventVars
  <2>2. change[t] \in Changes /\ change[t] \notin Posted
    BY <2>1 DEF ChangesInv, HeaderTypes
  <2>3. /\ Posted' = Posted \cup {change[t]} /\ Len(pending') = Len(pending) + 1
        /\ Len(pending) \in Nat
        /\ \A i \in 1..Len(pending') :
             pending'[i] = IF i = Len(pending) + 1 THEN change[t] ELSE pending[i]
    BY <2>1, <2>2, PostedAppend
  <2>4. \A u \in Threads \ {t} : ~Coming(u) /\ ~Making(u)
    BY <2>1 DEF DeliveryInv, Delivering, Coming, Making
  <2>5. \A i \in 1..Len(pending) : pending[i] # change[t]
    BY <2>2 DEF Posted, Range, HeaderTypes
  <2>6. \A i, j \in 1..Len(pending') : pending'[i] = pending'[j] /\ pending'[i] # Nothing => i = j
    BY <2>3, <2>5 DEF ChangesInv
  <2> QED
    BY <2>1, <2>4, <2>6 DEF Go, ChangesInv, Coming, Making, ControlInv, ControlTypes,
       ThreadTypes
<1>22. ASSUME NEW t \in Threads, Drop(t) PROVE ChangesInv'
  <2>1. /\ pc[t] = "drop" /\ Go(t, "finalize") /\ change' = [change EXCEPT ![t] = Nothing]
        /\ UNCHANGED <<pending, event>>
    BY <1>22 DEF Drop
  <2>2. Posted' = Posted
    BY <2>1 DEF Posted
  <2>3. \A u \in Threads \ {t} : ~Coming(u) /\ ~Making(u)
    BY <2>1 DEF DeliveryInv, Delivering, Coming, Making
  <2> QED
    BY <2>1, <2>2, <2>3 DEF Go, ChangesInv, Coming, Making, ControlInv, ControlTypes,
       ThreadTypes, HeaderTypes
<1>23. ASSUME NEW t \in Threads, Restore(t) PROVE ChangesInv'
  BY <1>23, ChangesKept DEF Restore, Go, GoesOn, Making, Coming, ControlInv, ControlTypes,
     ThreadTypes, PlacesInv, headerVars, eventVars
<1>24. ASSUME NEW t \in Threads, Finalize(t) PROVE ChangesInv'
  <2>1. UNCHANGED <<change, pending, event>> /\ pc[t] = "finalize"
    BY <1>24 DEF Finalize, eventVars
  <2>2. Go(t, after[t]) \/ Go(t, "uncache") \/ Go(t, "finalize")
    BY <1>24, UnreasonCases DEF Finalize, ControlInv, ControlTypes
  <2>3. after[t] \in {"restore", "settle", "free"}
    BY <2>1 DEF ControlInv, PlacesInv, FreesHeaders
  <2> QED
    BY <2>1, <2>2, <2>3, ChangesKept DEF Go, Making, Coming, ControlInv, ControlTypes,
       ThreadTypes
<1>25. ASSUME NEW t \in Threads, Uncache(t) PROVE ChangesInv'
  <2>1. UNCHANGED <<change, pending, event>> /\ Unloading(t)
    BY <1>25 DEF Uncache, eventVars, Unloading
  <2>2. Go(t, then[t]) \/ Go(t, "join")
    BY <1>25 DEF Uncache
  <2>3. then[t] \in {"finalize", "unlock", "free"}
    BY <2>1 DEF ControlInv, PlacesInv
  <2> QED
    BY <2>1, <2>2, <2>3, ChangesKept DEF Go, Making, Coming, Unloading, ControlInv,
       ControlTypes, ThreadTypes
<1>26. ASSUME NEW t \in Threads, Join(t) PROVE ChangesInv'
  <2>1. UNCHANGED <<change, pending, event>> /\ Unloading(t)
    BY <1>26 DEF Join, eventVars, Unloading
  <2>2. Go(t, then[t])
    BY <1>26 DEF Join
  <2>3. then[t] \in {"finalize", "unlock", "free"}
    BY <2>1 DEF ControlInv, PlacesInv
  <2> QED
    BY <2>1, <2>2, <2>3, ChangesKept DEF Go, Making, Coming, Unloading, ControlInv,
       ControlTypes, ThreadTypes
<1>27. ASSUME Settle PROVE ChangesInv'
  <2>1. UNCHANGED <<change, pending, event>> /\ pc[Main] = "settle"
    BY <1>27 DEF Settle, eventVars
  <2>2. Go(Main, "free") \/ Go(Main, "uncache")
    BY <1>27, UnreasonCases DEF Settle, ControlInv, ControlTypes
  <2> QED
    BY <2>1, <2>2, ChangesKept DEF Go, Making, Coming, ControlInv, ControlTypes, ThreadTypes
<1>28. ASSUME FlagSet PROVE ChangesInv'
  <2>1. UNCHANGED <<event, change>> /\ pending' = Append(pending, Nothing)
    BY <1>28 DEF FlagSet, Notice, eventVars
  <2>2. /\ Posted' = Posted \cup {Nothing} /\ Len(pending') = Len(pending) + 1
        /\ Len(pending) \in Nat
        /\ \A i \in 1..Len(pending') :
             pending'[i] = IF i = Len(pending) + 1 THEN Nothing ELSE pending[i]
    BY <2>1, PostedAppend
  <2>3. \A i, j \in 1..Len(pending') : pending'[i] = pending'[j] /\ pending'[i] # Nothing => i = j
    BY <2>2 DEF ChangesInv
  <2>4. FreeChanges' = FreeChanges
    BY <2>1, <2>2, ThreadsDiffer DEF FreeChanges, Live
  <2>5. pc[Main] = "flag" /\ Go(Main, "free")
    BY <1>28 DEF FlagSet
  <2> QED
    BY <2>1, <2>2, <2>3, <2>4, <2>5, ThreadsDiffer DEF Go, ChangesInv, ControlInv,
       ControlTypes, ThreadTypes, Threads
<1>29. ASSUME Begin PROVE ChangesInv'
  BY <1>29, ChangesKept DEF Begin, Go, Making, Coming, ControlInv, ControlTypes,
     ThreadTypes, headerVars, eventVars
<1>30. ASSUME UNCHANGED vars PROVE ChangesInv'
  BY <1>30, ChangesKept DEF vars, eventVars, Making, Coming
<1>31. ASSUME NEW t \in Threads, LocalSize(t) \/ Measure(t) PROVE ChangesInv'
  <2>1. CASE UNCHANGED pending
    <3>1. /\ UNCHANGED <<change, event>> /\ pc[t] \in {"size", "measure"}
          /\ Go(t, "free") \/ Go(t, "measure")
      BY <1>31, SizeCases
    <3> QED
      BY <2>1, <3>1, ChangesKept DEF Go, Making, Coming, ControlInv, ControlTypes,
         ThreadTypes
  <2>2. CASE pending' = Append(pending, Nothing)
    <3>1. UNCHANGED <<event, change>> /\ pending' = Append(pending, Nothing)
      BY <1>31, <2>2, SizeCases
    <3>2. /\ Posted' = Posted \cup {Nothing} /\ Len(pending') = Len(pending) + 1
          /\ Len(pending) \in Nat
          /\ \A i \in 1..Len(pending') :
               pending'[i] = IF i = Len(pending) + 1 THEN Nothing ELSE pending[i]
      BY <3>1, PostedAppend
    <3>3. \A i, j \in 1..Len(pending') : pending'[i] = pending'[j] /\ pending'[i] # Nothing => i = j
      BY <3>2 DEF ChangesInv
    <3>4. FreeChanges' = FreeChanges
      BY <3>1, <3>2, ThreadsDiffer DEF FreeChanges, Live
    <3>5. pc[t] \in {"size", "measure"} /\ (Go(t, "free") \/ Go(t, "measure"))
      BY <1>31, SizeCases
    <3> QED
      BY <3>1, <3>2, <3>3, <3>4, <3>5, ThreadsDiffer DEF Go, ChangesInv, ControlInv,
         ControlTypes, ThreadTypes, Threads
  <2> QED BY <1>31, <2>1, <2>2, SizeCases DEF Notice
<1> QED
  BY <1>1, <1>2, <1>3, <1>4, <1>5, <1>6, <1>7, <1>8, <1>9, <1>10, <1>11, <1>12, <1>13,
     <1>14, <1>15, <1>16, <1>17, <1>18, <1>19, <1>20, <1>21, <1>22, <1>23, <1>24, <1>25,
     <1>26, <1>27, <1>28, <1>29, <1>30, <1>31 DEF Next, User, Step

----------------------------------------------------------------------------
(* Who has which header.                                                   *)

\* What is on the list or in a change exists; what is about to be freed exists, is
\* nowhere else and is freed by one thread; changes have no header in common.
OwnInv ==
  /\ Held \subseteq Alive
  /\ \A t \in Threads : dropped[t] \subseteq Alive \ Held
  /\ \A t, u \in Threads : t # u => dropped[t] \cap dropped[u] = {}
  /\ \A k, c \in Changes : Live(k) /\ Live(c) /\ k # c => HeadersOf(k) \cap HeadersOf(c) = {}

\* What is on the list or in a change is held.
LEMMA HeldFacts ==
  /\ list \subseteq Held
  /\ \A k \in Changes : Live(k) => HeadersOf(k) \subseteq Held
  /\ \A h \in Held : h \in list \/ \E k \in Changes : Live(k) /\ h \in HeadersOf(k)
BY DEF Held

\* Nothing new is held, and what is not any more may be taken by one thread to be freed.
LEMMA OwnLess ==
  ASSUME OwnInv, HeaderTypes, UNCHANGED <<uid, added, expunged>>,
         \A k \in Changes : Live(k)' => Live(k), Held' \subseteq Held,
         NEW t \in Threads, NEW s, s \subseteq Held \/ s = dropped[t], s \cap Held' = {},
         dropped' = [dropped EXCEPT ![t] = s]
  PROVE  OwnInv'
<1>1. Alive' = Alive /\ \A k : HeadersOf(k)' = HeadersOf(k)
  BY DEF Alive, HeadersOf
<1>2. Held' \subseteq Alive'
  BY <1>1 DEF OwnInv
<1>3. \A u \in Threads : dropped'[u] = IF u = t THEN s ELSE dropped[u]
  BY DEF HeaderTypes
<1>4. \A u \in Threads : dropped'[u] \subseteq Alive' \ Held'
  BY <1>1, <1>3 DEF OwnInv
<1>5. \A u, v \in Threads : u # v => dropped'[u] \cap dropped'[v] = {}
  BY <1>3 DEF OwnInv
<1>6. \A k, c \in Changes : Live(k)' /\ Live(c)' /\ k # c => HeadersOf(k)' \cap HeadersOf(c)' = {}
  BY <1>1 DEF OwnInv
<1> HIDE DEF Held, Alive
<1> QED BY <1>2, <1>4, <1>5, <1>6 DEF OwnInv

\* The same, with nothing to be freed.
LEMMA OwnKept ==
  ASSUME OwnInv, HeaderTypes, UNCHANGED <<uid, added, expunged, dropped, list>>,
         \A k \in Changes : Live(k)' => Live(k)
  PROVE  OwnInv'
<1>1. Held' \subseteq Held
  <2>1. \A k : HeadersOf(k)' = HeadersOf(k)
    BY DEF HeadersOf
  <2> QED BY <2>1 DEF Held
<1>2. Main \in Threads /\ dropped' = [dropped EXCEPT ![Main] = dropped[Main]]
  BY DEF Threads, HeaderTypes
<1>3. dropped[Main] \cap Held' = {}
  BY <1>1, <1>2 DEF OwnInv
<1> QED BY <1>1, <1>2, <1>3, OwnLess

\* Every step keeps who has which header.
LEMMA OwnStep ==
  ControlInv /\ CountedInv /\ AskingInv /\ DeliveryInv /\ MailTypes /\ HeaderTypes
    /\ RoomInv /\ ChangesInv /\ OwnInv /\ [Next]_vars
    => OwnInv'
<1> SUFFICES ASSUME ControlInv, CountedInv, AskingInv, DeliveryInv, MailTypes, HeaderTypes,
                    RoomInv, ChangesInv, OwnInv, [Next]_vars
             PROVE  OwnInv'
  OBVIOUS
<1>1. ASSUME Open PROVE OwnInv'
  <2>1. UNCHANGED <<uid, added, expunged, dropped, list, change, pending>>
    BY <1>1 DEF Open, headerVars, eventVars
  <2>2. \A k : Live(k)' = Live(k)
    BY <2>1, ChangesFrame
  <2> QED BY <2>1, <2>2, OwnKept
<1>2. ASSUME Close PROVE OwnInv'
  <2> DEFINE s == list \ UNION {HeadersOf(k) : k \in {k \in Changes : Live(k)}}
  <2>1. /\ UNCHANGED <<uid, added, expunged, change, pending>> /\ list' = {}
        /\ dropped' = [dropped EXCEPT ![Main] = s] /\ Main \in Threads
    BY <1>2 DEF Close, headerVars, eventVars, Threads
  <2>2. \A k : Live(k)' = Live(k) /\ HeadersOf(k)' = HeadersOf(k)
    BY <2>1, ChangesFrame DEF HeadersOf
  <2>3. Held' = UNION {HeadersOf(k) : k \in {k \in Changes : Live(k)}}
    BY <2>1, <2>2 DEF Held
  <2>4. Held' \subseteq Held /\ s \subseteq Held /\ s \cap Held' = {}
    BY <2>3 DEF Held
  <2> HIDE DEF s
  <2> QED BY <2>1, <2>2, <2>4, OwnLess
<1>3. ASSUME SetFlag PROVE OwnInv'
  <2>1. UNCHANGED <<uid, added, expunged, dropped, list, change, pending>>
    BY <1>3 DEF SetFlag, viewVars, headerVars, eventVars
  <2>2. \A k : Live(k)' = Live(k)
    BY <2>1, ChangesFrame
  <2> QED BY <2>1, <2>2, OwnKept
<1>4. ASSUME NEW kind \in Ask, Launch(kind) PROVE OwnInv'
  <2>1. UNCHANGED <<uid, added, expunged, dropped, list, change, pending>>
    BY <1>4 DEF Launch, headerVars, eventVars
  <2>2. \A k : Live(k)' = Live(k)
    BY <2>1, ChangesFrame
  <2> QED BY <2>1, <2>2, OwnKept
<1>5. ASSUME NEW kind \in Ask, Call(kind) PROVE OwnInv'
  <2>1. UNCHANGED <<uid, added, expunged, dropped, list, change, pending>>
    BY <1>5 DEF Call, headerVars, eventVars
  <2>2. \A k : Live(k)' = Live(k)
    BY <2>1, ChangesFrame
  <2> QED BY <2>1, <2>2, OwnKept
<1>6. ASSUME PushEvent PROVE OwnInv'
  <2>1. UNCHANGED <<uid, added, expunged, dropped, list, change, pending>>
    BY <1>6 DEF PushEvent, viewVars, headerVars
  <2>2. \A k : Live(k)' = Live(k)
    BY <2>1, ChangesFrame
  <2> QED BY <2>1, <2>2, OwnKept
<1>7. ASSUME Notify PROVE OwnInv'
  <2>1. PICK k : k = Head(pending)
    OBVIOUS
  <2>2. PICK lives : lives = {c \in Changes \ {k} : Live(c)}
                             \cup {c \in {k} \ {Nothing} : \E t \in Threads : change[t] = c}
    OBVIOUS
  <2>3. PICK s : s = (list \cup HeadersOf(k)) \ (list' \cup UNION {HeadersOf(c) : c \in lives})
    OBVIOUS
  <2>4. /\ UNCHANGED <<uid, added, expunged, change>> /\ pending # <<>>
        /\ pending' = Tail(pending) /\ list' = Updated(k)
        /\ dropped' = [dropped EXCEPT ![Main] = s] /\ Main \in Threads
    BY <1>7, <2>1, <2>2, <2>3 DEF Notify, headerVars, eventVars, Threads
  <2>5. /\ Posted = Posted' \cup {k} /\ k = pending[1] /\ k \in Changes \cup {Nothing}
        /\ Len(pending') = Len(pending) - 1 /\ Len(pending') \in Nat
        /\ \A i \in 1..Len(pending') : pending'[i] = pending[i + 1]
    BY <2>1, <2>4, PostedTail
  <2>6. k # Nothing => k \notin Posted'
    <3> SUFFICES ASSUME k # Nothing, NEW i \in 1..Len(pending'), pending'[i] = k PROVE FALSE
      BY <2>4 DEF Posted, Range, HeaderTypes
    <3>1. i + 1 \in 1..Len(pending) /\ 1 \in 1..Len(pending) /\ pending[i + 1] = pending[1]
      BY <2>5 DEF HeaderTypes
    <3>2. i + 1 = 1
      BY <2>5, <3>1 DEF ChangesInv
    <3> QED BY <3>2
  <2>7. \A c \in Changes : Live(c)' => Live(c) /\ c \in lives
    BY <2>2, <2>4, <2>5, <2>6, ThreadsDiffer DEF Live
  <2>8. \A c : HeadersOf(c)' = HeadersOf(c)
    BY <2>4 DEF HeadersOf
  <2>9. k # Nothing => k \in Changes /\ Live(k)
    BY <2>5 DEF Live
  <2>10. HeadersOf(k) \subseteq Held
    BY <2>9, HeldFacts DEF HeadersOf
  <2>11. list' \subseteq list \cup HeadersOf(k)
    BY <2>4 DEF Updated, HeadersOf
  <2>12. Held' \subseteq list' \cup UNION {HeadersOf(c) : c \in lives}
    BY <2>7, <2>8 DEF Held
  <2>13. Held' \subseteq Held
    BY <2>7, <2>8, <2>10, <2>11, HeldFacts DEF Held
  <2>14. s \subseteq Held /\ s \cap Held' = {}
    BY <2>3, <2>10, <2>12, HeldFacts
  <2> QED BY <2>4, <2>7, <2>13, <2>14, OwnLess
<1>8. ASSUME Done PROVE OwnInv'
  <2>1. UNCHANGED <<uid, added, expunged, dropped, list, change, pending>>
    BY <1>8 DEF Done, viewVars, headerVars, eventVars
  <2>2. \A k : Live(k)' = Live(k)
    BY <2>1, ChangesFrame
  <2> QED BY <2>1, <2>2, OwnKept
<1>9. ASSUME NEW t \in Threads, Lock(t) PROVE OwnInv'
  <2>1. UNCHANGED <<uid, added, expunged, dropped, list, change, pending>>
    BY <1>9 DEF Lock, viewVars, headerVars, eventVars
  <2>2. \A k : Live(k)' = Live(k)
    BY <2>1, ChangesFrame
  <2> QED BY <2>1, <2>2, OwnKept
<1>10. ASSUME NEW t \in Threads, Load(t) PROVE OwnInv'
  <2>1. UNCHANGED <<uid, added, expunged, dropped, list, change, pending>>
    BY <1>10 DEF Load, viewVars, headerVars, eventVars
  <2>2. \A k : Live(k)' = Live(k)
    BY <2>1, ChangesFrame
  <2> QED BY <2>1, <2>2, OwnKept
<1>11. ASSUME NEW t \in Threads, LoadFails(t) PROVE OwnInv'
  <2>1. UNCHANGED <<uid, added, expunged, dropped, list, change, pending>>
    BY <1>11 DEF LoadFails, headerVars, eventVars
  <2>2. \A k : Live(k)' = Live(k)
    BY <2>1, ChangesFrame
  <2> QED BY <2>1, <2>2, OwnKept
<1>12. ASSUME NEW t \in Threads, CountCall(t) PROVE OwnInv'
  <2>1. UNCHANGED <<uid, added, expunged, dropped, list, change, pending>>
    BY <1>12 DEF CountCall, viewVars, headerVars, eventVars
  <2>2. \A k : Live(k)' = Live(k)
    BY <2>1, ChangesFrame
  <2> QED BY <2>1, <2>2, OwnKept
<1>13. ASSUME NEW t \in Threads, Refresh(t) PROVE OwnInv'
  <2>1. UNCHANGED <<uid, added, expunged, dropped, list, change, pending>>
    BY <1>13 DEF Refresh, viewVars, headerVars
  <2>2. \A k : Live(k)' = Live(k)
    BY <2>1, ChangesFrame
  <2> QED BY <2>1, <2>2, OwnKept
<1>14. ASSUME NEW t \in Threads, Fill(t) PROVE OwnInv'
  <2>1. view = "asked"
    BY <1>14 DEF Fill, CountedInv, AskingInv, Asking, Threads, ControlInv, PlacesInv
  <2>2. PICK g \in [Filling -> Headers \ Alive] :
          /\ Filling \in SUBSET Uids /\ \A u, v \in Filling : u # v => g[u] # g[v]
          /\ uid' = Born(g) /\ list' = list \cup Range(g)
    BY <1>14, <2>1, FillFacts DEF ControlInv, ControlTypes
  <2>3. Alive' = Alive \cup Range(g) /\ Range(g) \subseteq Headers \ Alive
    BY <2>2, BornFacts DEF HeaderTypes
  <2>4. UNCHANGED <<added, expunged, change, dropped, pending>>
    BY <1>14 DEF Fill, eventVars
  <2>5. \A k : Live(k)' = Live(k) /\ HeadersOf(k)' = HeadersOf(k)
    BY <2>4, ChangesFrame DEF HeadersOf
  <2>6. Held' = Held \cup Range(g)
    BY <2>2, <2>5 DEF Held
  <2>7. Held' \subseteq Alive' /\ \A u \in Threads : dropped'[u] \subseteq Alive' \ Held'
    BY <2>3, <2>4, <2>6 DEF OwnInv
  <2> QED BY <2>4, <2>5, <2>7 DEF OwnInv
<1>15. ASSUME NEW t \in Threads, Lower(t) PROVE OwnInv'
  <2>1. UNCHANGED <<uid, added, expunged, dropped, list, change, pending>>
    BY <1>15 DEF Lower, viewVars, headerVars, eventVars
  <2>2. \A k : Live(k)' = Live(k)
    BY <2>1, ChangesFrame
  <2> QED BY <2>1, <2>2, OwnKept
<1>16. ASSUME NEW t \in Threads, Unlock(t) PROVE OwnInv'
  <2>1. UNCHANGED <<uid, added, expunged, dropped, list, change, pending>>
    BY <1>16 DEF Unlock, viewVars, headerVars, eventVars
  <2>2. \A k : Live(k)' = Live(k)
    BY <2>1, ChangesFrame
  <2> QED BY <2>1, <2>2, OwnKept
<1>17. ASSUME NEW t \in Threads, Tell(t) PROVE OwnInv'
  <2>1. UNCHANGED <<uid, added, expunged, dropped, list, change, pending>>
    BY <1>17 DEF Tell, viewVars, headerVars
  <2>2. \A k : Live(k)' = Live(k)
    BY <2>1, ChangesFrame
  <2> QED BY <2>1, <2>2, OwnKept
<1>18. ASSUME NEW t \in Threads, TryLock(t) PROVE OwnInv'
  <2>1. UNCHANGED <<uid, added, expunged, dropped, list, change, pending>>
    BY <1>18 DEF TryLock, viewVars, headerVars
  <2>2. \A k : Live(k)' = Live(k)
    BY <2>1, ChangesFrame
  <2> QED BY <2>1, <2>2, OwnKept
<1>19. ASSUME NEW t \in Threads, Build(t) PROVE OwnInv'
  <2> DEFINE us == NewUids(t) \cup event[t].removed
  <2>1. PICK k \in FreeChanges, a \in [us -> Headers \ Alive] :
          /\ \A u, v \in us : u # v => a[u] # a[v]
          /\ uid' = Born(a)
          /\ added' = [added EXCEPT ![k] = {a[u] : u \in NewUids(t)}]
          /\ expunged' = [expunged EXCEPT ![k] = {a[u] : u \in event[t].removed}]
          /\ change' = [change EXCEPT ![t] = k]
    BY <1>19, BuildFacts DEF ControlInv, ControlTypes
  <2>2. us \in SUBSET Uids
    BY DEF MailTypes, NewUids
  <2>3. Alive' = Alive \cup Range(a) /\ Range(a) \subseteq Headers \ Alive
    BY <2>1, <2>2, BornFacts DEF HeaderTypes
  <2>4. k \in Changes /\ ~Live(k) /\ k # Nothing
    BY ThreadsDiffer DEF FreeChanges
  <2>5. \A c \in Changes : Live(c)' => c = k \/ Live(c)
    <3>1. \A u \in Threads : change'[u] = change[u] \/ change'[u] = k
      BY <2>1 DEF HeaderTypes
    <3>2. Posted' = Posted
      BY <1>19 DEF Build, Posted
    <3> QED BY <3>1, <3>2 DEF Live
  <2>6. \A c \in Changes : HeadersOf(c)' \subseteq IF c = k THEN Range(a) ELSE HeadersOf(c)
    <3>1. added'[k] \subseteq Range(a) /\ expunged'[k] \subseteq Range(a)
      BY <2>1, <2>4 DEF Range, HeaderTypes
    <3> QED BY <2>1, <3>1, ThreadsDiffer DEF HeadersOf, HeaderTypes
  <2>7. UNCHANGED <<list, dropped>>
    BY <1>19 DEF Build, viewVars
  <2>8. Held' \subseteq Held \cup Range(a)
    BY <2>5, <2>6, <2>7, HeldFacts DEF Held
  <2>9. Held' \subseteq Alive'
    BY <2>3, <2>8 DEF OwnInv
  <2>10. \A u \in Threads : dropped'[u] \subseteq Alive' \ Held'
    BY <2>3, <2>7, <2>8 DEF OwnInv
  <2>11. \A c, d \in Changes :
           Live(c)' /\ Live(d)' /\ c # d => HeadersOf(c)' \cap HeadersOf(d)' = {}
    <3> SUFFICES ASSUME NEW c \in Changes, NEW d \in Changes, Live(c)', Live(d)', c # d
                 PROVE  HeadersOf(c)' \cap HeadersOf(d)' = {}
      OBVIOUS
    <3>1. \A e \in Changes : Live(e) => HeadersOf(e) \cap Range(a) = {}
      BY <2>3, HeldFacts DEF OwnInv
    <3>2. CASE c = k
      <4>1. Live(d) /\ HeadersOf(c)' \subseteq Range(a) /\ HeadersOf(d)' \subseteq HeadersOf(d)
        BY <2>5, <2>6, <3>2
      <4> QED BY <3>1, <4>1
    <3>3. CASE d = k
      <4>1. Live(c) /\ HeadersOf(d)' \subseteq Range(a) /\ HeadersOf(c)' \subseteq HeadersOf(c)
        BY <2>5, <2>6, <3>3
      <4> QED BY <3>1, <4>1
    <3>4. CASE c # k /\ d # k
      <4>1. /\ Live(c) /\ HeadersOf(c)' \subseteq HeadersOf(c)
            /\ Live(d) /\ HeadersOf(d)' \subseteq HeadersOf(d)
        BY <2>5, <2>6, <3>4
      <4>2. HeadersOf(c) \cap HeadersOf(d) = {}
        BY <4>1 DEF OwnInv
      <4> QED BY <4>1, <4>2
    <3> QED BY <3>2, <3>3, <3>4
  <2> HIDE DEF us
  <2> QED BY <2>7, <2>9, <2>10, <2>11 DEF OwnInv
<1>20. ASSUME NEW t \in Threads, Keep(t) PROVE OwnInv'
  <2>1. UNCHANGED <<uid, added, expunged, dropped, list, change, pending>>
    BY <1>20 DEF Keep, viewVars, headerVars, eventVars
  <2>2. \A k : Live(k)' = Live(k)
    BY <2>1, ChangesFrame
  <2> QED BY <2>1, <2>2, OwnKept
<1>21. ASSUME NEW t \in Threads, Post(t) PROVE OwnInv'
  <2>1. UNCHANGED <<uid, added, expunged, dropped, list, change>>
    BY <1>21 DEF Post, Go, viewVars, headerVars, eventVars
  <2>2. PICK k : k = change[t]
    OBVIOUS
  <2>3. pending' = pending \/ pending' = Append(pending, k)
    BY <1>21, <2>2 DEF Post, Notice
  <2>4. k \in Changes \cup {Nothing} /\ (k # Nothing => Live(k))
    BY <2>2 DEF HeaderTypes, Live
  <2>5. Posted' \subseteq Posted \cup {k}
    <3>1. CASE pending' = pending
      BY <3>1 DEF Posted
    <3>2. CASE pending' = Append(pending, k)
      BY <2>4, <3>2, PostedAppend
    <3> QED BY <2>3, <3>1, <3>2
  <2>6. \A c \in Changes : Live(c)' => Live(c)
    BY <2>1, <2>4, <2>5, ThreadsDiffer DEF Live
  <2> QED BY <2>1, <2>6, OwnKept
<1>22. ASSUME NEW t \in Threads, Drop(t) PROVE OwnInv'
  <2> DEFINE s == IF change[t] \in Posted THEN {} ELSE HeadersOf(change[t]) \ list
  <2>1. /\ UNCHANGED <<uid, added, expunged, list, pending>> /\ pc[t] = "drop"
        /\ dropped' = [dropped EXCEPT ![t] = s] /\ change' = [change EXCEPT ![t] = Nothing]
    BY <1>22 DEF Drop, headerVars, viewVars
  <2>2. PICK k \in Changes : k = change[t]
    BY <2>1 DEF ChangesInv, HeaderTypes
  <2>3. Live(k) /\ k # Nothing
    BY <2>2, ThreadsDiffer DEF Live
  <2>4. \A c \in Changes : Live(c)' => Live(c) /\ (c = k => k \in Posted)
    <3>1. \A u \in Threads : change'[u] = k => FALSE
      BY <2>1, <2>2, <2>3 DEF HeaderTypes, ChangesInv, DeliveryInv, Delivering
    <3>2. Posted' = Posted
      BY <2>1 DEF Posted
    <3>3. \A u \in Threads : \A c \in Changes : change'[u] = c => change[u] = c
      BY <2>1, ThreadsDiffer DEF HeaderTypes
    <3> QED BY <3>1, <3>2, <3>3 DEF Live
  <2>5. \A c : HeadersOf(c)' = HeadersOf(c)
    BY <2>1 DEF HeadersOf
  <2>6. Held' \subseteq Held
    BY <2>1, <2>4, <2>5 DEF Held
  <2>7. s \subseteq Held
    BY <2>2, <2>3, HeldFacts
  <2>8. s \cap Held' = {}
    <3>1. CASE k \in Posted
      BY <2>2, <3>1
    <3>2. CASE k \notin Posted
      <4>1. \A c \in Changes : Live(c)' => HeadersOf(c) \cap HeadersOf(k) = {}
        BY <2>3, <2>4, <3>2 DEF OwnInv
      <4>2. s = HeadersOf(k) \ list
        BY <2>2, <3>2
      <4> QED BY <2>1, <2>5, <4>1, <4>2 DEF Held
    <3> QED BY <3>1, <3>2
  <2> HIDE DEF s
  <2> QED BY <2>1, <2>4, <2>6, <2>7, <2>8, OwnLess
<1>23. ASSUME NEW t \in Threads, Restore(t) PROVE OwnInv'
  <2>1. UNCHANGED <<uid, added, expunged, dropped, list, change, pending>>
    BY <1>23 DEF Restore, viewVars, headerVars, eventVars
  <2>2. \A k : Live(k)' = Live(k)
    BY <2>1, ChangesFrame
  <2> QED BY <2>1, <2>2, OwnKept
<1>24. ASSUME NEW t \in Threads, Finalize(t) PROVE OwnInv'
  <2>1. UNCHANGED <<list, added, expunged, change, pending>>
    BY <1>24 DEF Finalize, viewVars, eventVars
  <2>2. \A k : Live(k)' = Live(k)
    BY <2>1, ChangesFrame
  <2>3. CASE dropped[t] = {}
    <3>1. UNCHANGED <<uid, dropped>>
      BY <1>24, <2>3 DEF Finalize
    <3> QED BY <2>1, <2>2, <3>1, OwnKept
  <2>4. CASE dropped[t] # {}
    <3>1. PICK h \in dropped[t] : /\ uid' = [uid EXCEPT ![h] = Nothing]
                                  /\ dropped' = [dropped EXCEPT ![t] = dropped[t] \ {h}]
      BY <1>24, <2>4 DEF Finalize
    <3>2. Held' = Held
      <4>1. \A k : HeadersOf(k)' = HeadersOf(k)
        BY <2>1 DEF HeadersOf
      <4> QED BY <2>1, <2>2, <4>1 DEF Held
    <3>3. h \in Headers /\ h \notin Held
      BY DEF OwnInv, HeaderTypes
    <3>4. Alive' = Alive \ {h}
      BY <3>1, <3>3 DEF Alive, HeaderTypes
    <3>5. \A u \in Threads : /\ dropped'[u] \subseteq dropped[u] /\ h \notin dropped'[u]
      BY <3>1 DEF HeaderTypes, OwnInv
    <3>6. \A k : HeadersOf(k)' = HeadersOf(k)
      BY <2>1 DEF HeadersOf
    <3> HIDE DEF Held, Alive
    <3>7. Held' \subseteq Alive' /\ \A u \in Threads : dropped'[u] \subseteq Alive' \ Held'
      BY <3>2, <3>3, <3>4, <3>5 DEF OwnInv
    <3>8. \A u, v \in Threads : u # v => dropped'[u] \cap dropped'[v] = {}
      BY <3>5 DEF OwnInv
    <3>9. \A k, c \in Changes :
            Live(k)' /\ Live(c)' /\ k # c => HeadersOf(k)' \cap HeadersOf(c)' = {}
      BY <2>2, <3>6 DEF OwnInv
    <3> QED BY <3>7, <3>8, <3>9 DEF OwnInv
  <2> QED BY <2>3, <2>4
<1>25. ASSUME NEW t \in Threads, Uncache(t) PROVE OwnInv'
  <2>1. UNCHANGED <<uid, added, expunged, dropped, list, change, pending>>
    BY <1>25 DEF Uncache, viewVars, headerVars, eventVars
  <2>2. \A k : Live(k)' = Live(k)
    BY <2>1, ChangesFrame
  <2> QED BY <2>1, <2>2, OwnKept
<1>26. ASSUME NEW t \in Threads, Join(t) PROVE OwnInv'
  <2>1. UNCHANGED <<uid, added, expunged, dropped, list, change, pending>>
    BY <1>26 DEF Join, viewVars, headerVars, eventVars
  <2>2. \A k : Live(k)' = Live(k)
    BY <2>1, ChangesFrame
  <2> QED BY <2>1, <2>2, OwnKept
<1>27. ASSUME Settle PROVE OwnInv'
  <2>1. UNCHANGED <<uid, added, expunged, dropped, list, change, pending>>
    BY <1>27 DEF Settle, viewVars, headerVars, eventVars
  <2>2. \A k : Live(k)' = Live(k)
    BY <2>1, ChangesFrame
  <2> QED BY <2>1, <2>2, OwnKept
<1>28. ASSUME FlagSet PROVE OwnInv'
  <2>1. UNCHANGED <<uid, added, expunged, dropped, list, change>>
    BY <1>28 DEF FlagSet, Go, viewVars, headerVars, eventVars
  <2>2. PICK k : k = Nothing
    OBVIOUS
  <2>3. pending' = pending \/ pending' = Append(pending, k)
    BY <1>28, <2>2 DEF FlagSet, Notice
  <2>4. k \in Changes \cup {Nothing} /\ (k # Nothing => Live(k))
    BY <2>2 DEF HeaderTypes, Live
  <2>5. Posted' \subseteq Posted \cup {k}
    <3>1. CASE pending' = pending
      BY <3>1 DEF Posted
    <3>2. CASE pending' = Append(pending, k)
      BY <2>4, <3>2, PostedAppend
    <3> QED BY <2>3, <3>1, <3>2
  <2>6. \A c \in Changes : Live(c)' => Live(c)
    BY <2>1, <2>4, <2>5, ThreadsDiffer DEF Live
  <2> QED BY <2>1, <2>6, OwnKept
<1>29. ASSUME Begin PROVE OwnInv'
  <2>1. UNCHANGED <<uid, added, expunged, dropped, list, change, pending>>
    BY <1>29 DEF Begin, viewVars, headerVars, eventVars
  <2>2. \A k : Live(k)' = Live(k)
    BY <2>1, ChangesFrame
  <2> QED BY <2>1, <2>2, OwnKept
<1>30. ASSUME UNCHANGED vars PROVE OwnInv'
  <2>1. UNCHANGED <<uid, added, expunged, dropped, list, change, pending>>
    BY <1>30 DEF vars, viewVars, headerVars, eventVars
  <2>2. \A k : Live(k)' = Live(k)
    BY <2>1, ChangesFrame
  <2> QED BY <2>1, <2>2, OwnKept
<1>31. ASSUME NEW t \in Threads, LocalSize(t) \/ Measure(t) PROVE OwnInv'
  <2>1. UNCHANGED <<uid, added, expunged, dropped, list, change>>
    BY <1>31, SizeCases
  <2>2. PICK k : k = Nothing
    OBVIOUS
  <2>3. pending' = pending \/ pending' = Append(pending, k)
    BY <1>31, <2>2, SizeCases DEF Notice
  <2>4. k \in Changes \cup {Nothing} /\ (k # Nothing => Live(k))
    BY <2>2 DEF HeaderTypes, Live
  <2>5. Posted' \subseteq Posted \cup {k}
    <3>1. CASE pending' = pending
      BY <3>1 DEF Posted
    <3>2. CASE pending' = Append(pending, k)
      BY <2>4, <3>2, PostedAppend
    <3> QED BY <2>3, <3>1, <3>2
  <2>6. \A c \in Changes : Live(c)' => Live(c)
    BY <2>1, <2>4, <2>5, ThreadsDiffer DEF Live
  <2> QED BY <2>1, <2>6, OwnKept
<1> QED
  BY <1>1, <1>2, <1>3, <1>4, <1>5, <1>6, <1>7, <1>8, <1>9, <1>10, <1>11, <1>12, <1>13,
     <1>14, <1>15, <1>16, <1>17, <1>18, <1>19, <1>20, <1>21, <1>22, <1>23, <1>24, <1>25,
     <1>26, <1>27, <1>28, <1>29, <1>30, <1>31 DEF Next, User, Step

----------------------------------------------------------------------------
(* What reason_to_live counts.                                             *)

OfRequest  == IF request = "none" THEN 0 ELSE 1
OfSettling == IF Settling THEN 1 ELSE 0

\* The count is a sum of natural numbers.
LEMMA CountParts ==
  ASSUME ControlTypes, HeaderTypes, ReasonsCounted
  PROVE  /\ Cardinality(Alive) \in Nat /\ Len(pending) \in Nat
         /\ IsFiniteSet(reasoned) /\ Cardinality(reasoned) \in Nat
         /\ OfRequest \in 0..1 /\ OfSettling \in 0..1 /\ reason_to_live \in Nat
         /\ reason_to_live = Cardinality(Alive) + Len(pending) + Cardinality(reasoned)
                             + OfRequest + OfSettling
         /\ Alive # {} => Cardinality(Alive) >= 1
         /\ reasoned # {} => Cardinality(reasoned) >= 1
<1>1. Cardinality(Alive) \in Nat /\ IsFiniteSet(Alive)
  BY AliveCount
<1>2. Len(pending) \in Nat
  BY DEF HeaderTypes
<1>3. IsFiniteSet(reasoned) /\ Cardinality(reasoned) \in Nat
  <2>1. IsFiniteSet(Threads)
    <3>1. IsFiniteSet({Main}) /\ IsFiniteSet({Main} \cup {Worker})
          /\ IsFiniteSet(({Main} \cup {Worker}) \cup {Push})
      BY FS_Singleton, FS_AddElement
    <3>2. Threads = ({Main} \cup {Worker}) \cup {Push}
      BY DEF Threads
    <3> QED BY <3>1, <3>2
  <2>2. reasoned \in SUBSET Threads
    BY DEF ControlTypes, ThreadTypes
  <2> QED BY <2>1, <2>2, FS_Subset, FS_CardinalityType
<1>4. OfRequest \in 0..1 /\ OfSettling \in 0..1
  BY DEF OfRequest, OfSettling
<1>5. reason_to_live = Cardinality(Alive) + Len(pending) + Cardinality(reasoned)
                       + OfRequest + OfSettling
  BY DEF ReasonsCounted, OfRequest, OfSettling
<1>6. Alive # {} => Cardinality(Alive) >= 1
  BY <1>1, FS_EmptySet
<1>7. reasoned # {} => Cardinality(reasoned) >= 1
  BY <1>3, FS_EmptySet
<1> QED BY <1>1, <1>2, <1>3, <1>4, <1>5, <1>6, <1>7

\* The same, where the count is known to be a natural number.
LEMMA UnreasonLast ==
  ASSUME ControlTypes, HeaderTypes, ReasonsCounted, NEW t, NEW to, Unreason(t, to)
  PROVE  /\ reason_lock = Nothing /\ reason_to_live' = reason_to_live - 1
         /\ UNCHANGED <<capable, push, dont_fkill, folder_lock, depth>>
         /\ \/ /\ reason_lock' = t /\ Go(t, "uncache") /\ then' = [then EXCEPT ![t] = to]
               /\ UNCHANGED folder /\ capable /\ folder /\ reason_to_live = 1
            \/ /\ Go(t, to) /\ UNCHANGED <<reason_lock, then>>
               /\ \/ reason_to_live # 1 /\ UNCHANGED folder
                  \/ (~folder \/ capable) /\ UNCHANGED folder
                  \/ reason_to_live = 1 /\ folder /\ ~capable /\ folder' = dont_fkill
<1>1. reason_to_live \in Nat
  BY CountParts
<1>2. reason_to_live' = reason_to_live - 1
  BY UnreasonCases DEF ControlTypes
<1>3. reason_to_live' = 0 <=> reason_to_live = 1
  BY <1>1, <1>2
<1> QED BY <1>3, UnreasonCases DEF ControlTypes

\* The count after a step, in the same parts.
LEMMA CountedPrime ==
  ReasonsCounted' <=>
    reason_to_live' = Cardinality(Alive') + Len(pending') + Cardinality(reasoned')
                      + OfRequest' + OfSettling'
BY DEF ReasonsCounted, OfRequest, OfSettling

\* The count and what it counts stay.
LEMMA CountFrame ==
  ASSUME ReasonsCounted, UNCHANGED <<uid, reason_to_live, reasoned>>, Len(pending') = Len(pending),
         request' = "none" <=> request = "none", Settling' <=> Settling
  PROVE  ReasonsCounted'
<1>1. Alive' = Alive
  BY DEF Alive
<1>2. OfRequest' = OfRequest /\ OfSettling' = OfSettling
  BY DEF OfRequest, OfSettling
<1>3. reason_to_live = Cardinality(Alive) + Len(pending) + Cardinality(reasoned)
                       + OfRequest + OfSettling
  BY DEF ReasonsCounted, OfRequest, OfSettling
<1> QED BY <1>1, <1>2, <1>3, CountedPrime

\* Headers are born and counted.
LEMMA CountBorn ==
  ASSUME ControlTypes, HeaderTypes, ReasonsCounted, UNCHANGED <<pending, reasoned, request>>,
         Settling' <=> Settling, NEW us \in SUBSET Uids, NEW g \in [us -> Headers \ Alive],
         \A u, v \in us : u # v => g[u] # g[v], uid' = Born(g),
         reason_to_live' = reason_to_live + Cardinality(Range(g))
  PROVE  ReasonsCounted'
<1>1. Alive' = Alive \cup Range(g)
  BY BornFacts DEF HeaderTypes
<1>2. /\ Cardinality(Range(g)) = Cardinality(us) /\ Cardinality(Range(g)) \in Nat
      /\ Cardinality(Alive') = Cardinality(Alive) + Cardinality(us)
  BY <1>1, BornCount
<1>3. OfRequest' = OfRequest /\ OfSettling' = OfSettling
  BY DEF OfRequest, OfSettling
<1>4. Len(pending') = Len(pending) /\ Cardinality(reasoned') = Cardinality(reasoned)
  OBVIOUS
<1> QED BY <1>2, <1>3, <1>4, CountParts, CountedPrime

\* A change is posted and counted.
LEMMA CountNotice ==
  ASSUME ControlTypes, HeaderTypes, ReasonsCounted, UNCHANGED <<uid, reasoned>>,
         request' = "none" <=> request = "none", Settling' <=> Settling,
         NEW k \in Changes \cup {Nothing}, Notice(k)
  PROVE  ReasonsCounted'
<1>1. Alive' = Alive
  BY DEF Alive
<1>2. Len(pending') = Len(pending) + 1 /\ reason_to_live' = reason_to_live + 1
  BY PostedAppend, ReasonIs DEF Notice, ControlTypes
<1>3. OfRequest' = OfRequest /\ OfSettling' = OfSettling
  BY DEF OfRequest, OfSettling
<1> QED BY <1>1, <1>2, <1>3, CountParts, CountedPrime

\* Every step keeps that reason_to_live counts what it says: what a step adds or takes
\* away it counts, in the same step or, for what the main loop settles, in a later one.
LEMMA ReasonsStep ==
  ControlInv /\ CountedInv /\ AskingInv /\ DeliveryInv /\ MailTypes /\ HeaderTypes
    /\ RoomInv /\ ChangesInv /\ OwnInv /\ ReasonsCounted /\ [Next]_vars
    => ReasonsCounted'
<1> SUFFICES ASSUME ControlInv, CountedInv, AskingInv, DeliveryInv, MailTypes, HeaderTypes,
                    RoomInv, ChangesInv, OwnInv, ReasonsCounted, [Next]_vars
             PROVE  ReasonsCounted'
  OBVIOUS
<1>1. ASSUME Open PROVE ReasonsCounted'
  <2>1. /\ UNCHANGED <<uid, reason_to_live, reasoned>> /\ Len(pending') = Len(pending)
        /\ (request' = "none" <=> request = "none")
    BY <1>1 DEF Open, headerVars, askVars
  <2>2. Settling' <=> Settling
    BY <1>1, ThreadsDiffer DEF Open, ControlInv, ControlTypes, ThreadTypes, PlacesInv,
       FreesHeaders, Unloading, Settling, Threads
  <2> QED BY <2>1, <2>2, CountFrame
<1>2. ASSUME Close PROVE ReasonsCounted'
  <2>1. /\ UNCHANGED <<uid, reason_to_live, reasoned>> /\ Len(pending') = Len(pending)
        /\ (request' = "none" <=> request = "none")
    BY <1>2 DEF Close, headerVars, askVars
  <2>2. Settling' <=> Settling
    BY <1>2, ThreadsDiffer DEF Close, Go, ControlInv, ControlTypes, ThreadTypes,
       PlacesInv, FreesHeaders, Unloading, Settling, Threads
  <2> QED BY <2>1, <2>2, CountFrame
<1>3. ASSUME SetFlag PROVE ReasonsCounted'
  <2>1. /\ UNCHANGED <<uid, reason_to_live, reasoned>> /\ Len(pending') = Len(pending)
        /\ (request' = "none" <=> request = "none")
    BY <1>3 DEF SetFlag, headerVars, askVars
  <2>2. Settling' <=> Settling
    BY <1>3, ThreadsDiffer DEF SetFlag, Go, ControlInv, ControlTypes, ThreadTypes,
       PlacesInv, FreesHeaders, Unloading, Settling, Threads
  <2> QED BY <2>1, <2>2, CountFrame
<1>4. ASSUME NEW kind \in Ask, Launch(kind) PROVE ReasonsCounted'
  <2>1. /\ UNCHANGED <<uid, reasoned, pending, pc, then, after>> /\ OfRequest = 0 /\ OfRequest' = 1
        /\ reason_to_live' = reason_to_live + 1
    BY <1>4, ReasonIs DEF Launch, OfRequest, headerVars, ControlInv, ControlTypes
  <2>2. OfSettling' = OfSettling /\ Alive' = Alive
    BY <2>1 DEF OfSettling, Settling, Alive
  <2> QED BY <2>1, <2>2, CountParts, CountedPrime DEF ControlInv
<1>5. ASSUME NEW kind \in Ask, Call(kind) PROVE ReasonsCounted'
  <2>1. /\ UNCHANGED <<uid, reason_to_live, reasoned>> /\ Len(pending') = Len(pending)
        /\ (request' = "none" <=> request = "none")
    BY <1>5 DEF Call, headerVars
  <2>2. Settling' <=> Settling
    BY <1>5, ThreadsDiffer DEF Call, Go, ControlInv, ControlTypes, ThreadTypes, PlacesInv,
       FreesHeaders, Unloading, Settling, Threads
  <2> QED BY <2>1, <2>2, CountFrame
<1>6. ASSUME PushEvent PROVE ReasonsCounted'
  <2>1. /\ UNCHANGED <<uid, reason_to_live, reasoned>> /\ Len(pending') = Len(pending)
        /\ (request' = "none" <=> request = "none")
    BY <1>6 DEF PushEvent, headerVars, askVars
  <2>2. Settling' <=> Settling
    BY <1>6, ThreadsDiffer DEF PushEvent, Change, Go, ControlInv, ControlTypes,
       ThreadTypes, PlacesInv, FreesHeaders, Unloading, Settling, Threads
  <2> QED BY <2>1, <2>2, CountFrame
<1>7. ASSUME Notify PROVE ReasonsCounted'
  <2>1. /\ UNCHANGED <<uid, reasoned, request, reason_to_live>> /\ pc[Main] = "free"
        /\ pc' = [pc EXCEPT ![Main] = "finalize"] /\ after' = [after EXCEPT ![Main] = "settle"]
        /\ pending # <<>> /\ pending' = Tail(pending)
    BY <1>7 DEF Notify, headerVars, askVars, Go
  <2>2. Len(pending') = Len(pending) - 1
    BY <2>1, PostedTail
  <2>3. OfSettling = 0 /\ OfSettling' = 1
    BY <2>1 DEF OfSettling, ControlInv, ControlTypes, ThreadTypes, PlacesInv,
       FreesHeaders, Unloading, Settling, Threads
  <2>4. OfRequest' = OfRequest /\ Alive' = Alive
    BY <2>1 DEF OfRequest, Alive
  <2> QED BY <2>1, <2>2, <2>3, <2>4, CountParts, CountedPrime DEF ControlInv
<1>8. ASSUME Done PROVE ReasonsCounted'
  <2>1. /\ UNCHANGED <<uid, reasoned, pending, reason_to_live>> /\ pc[Main] = "free"
        /\ pc' = [pc EXCEPT ![Main] = "settle"]
    BY <1>8 DEF Done, headerVars, Go
  <2>2. OfRequest = 1 /\ OfRequest' = 0
    BY <1>8 DEF Done, OfRequest
  <2>3. OfSettling = 0 /\ OfSettling' = 1
    BY <2>1 DEF OfSettling, ControlInv, ControlTypes, ThreadTypes, PlacesInv,
       FreesHeaders, Unloading, Settling, Threads
  <2>4. Alive' = Alive
    BY <2>1 DEF Alive
  <2> QED BY <2>1, <2>2, <2>3, <2>4, CountParts, CountedPrime DEF ControlInv
<1>9. ASSUME NEW t \in Threads, Lock(t) PROVE ReasonsCounted'
  <2>1. /\ UNCHANGED <<uid, reason_to_live, reasoned>> /\ Len(pending') = Len(pending)
        /\ (request' = "none" <=> request = "none")
    BY <1>9 DEF Lock, headerVars, askVars
  <2>2. Settling' <=> Settling
    BY <1>9, ThreadsDiffer DEF Lock, Go, ControlInv, ControlTypes, ThreadTypes, PlacesInv,
       FreesHeaders, Unloading, Settling, Threads
  <2> QED BY <2>1, <2>2, CountFrame
<1>10. ASSUME NEW t \in Threads, Load(t) PROVE ReasonsCounted'
  <2>1. /\ UNCHANGED <<uid, reason_to_live, reasoned>> /\ Len(pending') = Len(pending)
        /\ (request' = "none" <=> request = "none")
    BY <1>10 DEF Load, headerVars, askVars
  <2>2. Settling' <=> Settling
    BY <1>10, ThreadsDiffer DEF Load, Go, ControlInv, ControlTypes, ThreadTypes,
       PlacesInv, FreesHeaders, Unloading, Settling, Threads
  <2> QED BY <2>1, <2>2, CountFrame
<1>11. ASSUME NEW t \in Threads, LoadFails(t) PROVE ReasonsCounted'
  <2>1. /\ UNCHANGED <<uid, reason_to_live, reasoned>> /\ Len(pending') = Len(pending)
        /\ (request' = "none" <=> request = "none")
    BY <1>11 DEF LoadFails, headerVars
  <2>2. Settling' <=> Settling
    BY <1>11, ThreadsDiffer DEF LoadFails, Go, ControlInv, ControlTypes, ThreadTypes,
       PlacesInv, FreesHeaders, Unloading, Settling, Threads
  <2> QED BY <2>1, <2>2, CountFrame
<1>12. ASSUME NEW t \in Threads, CountCall(t) PROVE ReasonsCounted'
  <2>1. /\ UNCHANGED <<uid, request, pending>> /\ reason_to_live' = reason_to_live + 1
        /\ reasoned' = reasoned \cup {t} /\ pc[t] = "reason"
    BY <1>12, ReasonIs DEF CountCall, headerVars, ControlInv, ControlTypes
  <2>2. t \notin reasoned
    BY <2>1 DEF CountedInv, Counting, Delivering
  <2>3. Cardinality(reasoned') = Cardinality(reasoned) + 1
    BY <2>1, <2>2, CountParts, FS_AddElement DEF ControlInv
  <2>4. Settling' <=> Settling
    BY <1>12, ThreadsDiffer DEF CountCall, Go, ControlInv, ControlTypes, ThreadTypes,
       PlacesInv, FreesHeaders, Unloading, Settling, Threads
  <2>5. OfSettling' = OfSettling /\ OfRequest' = OfRequest /\ Alive' = Alive
    BY <2>1, <2>4 DEF OfSettling, OfRequest, Alive
  <2> QED BY <2>1, <2>3, <2>5, CountParts, CountedPrime DEF ControlInv
<1>13. ASSUME NEW t \in Threads, Refresh(t) PROVE ReasonsCounted'
  <2>1. /\ UNCHANGED <<uid, reason_to_live, reasoned>> /\ Len(pending') = Len(pending)
        /\ (request' = "none" <=> request = "none")
    BY <1>13 DEF Refresh, headerVars, askVars
  <2>2. Settling' <=> Settling
    BY <1>13, ThreadsDiffer DEF Refresh, Go, GoesOn, Change, ControlInv, ControlTypes,
       ThreadTypes, PlacesInv, FreesHeaders, Unloading, Settling, Threads
  <2> QED BY <2>1, <2>2, CountFrame
<1>14. ASSUME NEW t \in Threads, Fill(t) PROVE ReasonsCounted'
  <2>1. view = "asked"
    BY <1>14 DEF Fill, CountedInv, AskingInv, Asking, Threads, ControlInv, PlacesInv
  <2>2. PICK g \in [Filling -> Headers \ Alive] :
          /\ Filling \in SUBSET Uids /\ \A u, v \in Filling : u # v => g[u] # g[v]
          /\ uid' = Born(g) /\ reason_to_live' = reason_to_live + Cardinality(Range(g))
    BY <1>14, <2>1, FillFacts DEF ControlInv, ControlTypes
  <2>3. UNCHANGED <<pending, reasoned, request>>
    BY <1>14 DEF Fill, askVars
  <2>4. Settling' <=> Settling
    BY <1>14, ThreadsDiffer DEF Fill, Go, ControlInv, ControlTypes, ThreadTypes,
       PlacesInv, FreesHeaders, Unloading, Settling, Threads
  <2> QED BY <2>2, <2>3, <2>4, CountBorn DEF ControlInv
<1>15. ASSUME NEW t \in Threads, Lower(t) PROVE ReasonsCounted'
  <2>1. /\ UNCHANGED <<uid, request, pending, after>> /\ reason_to_live' = reason_to_live - 1
        /\ reasoned' = reasoned \ {t} /\ pc[t] = "lower"
        /\ (Go(t, "uncache") /\ then' = [then EXCEPT ![t] = "unlock"])
             \/ (Go(t, "unlock") /\ UNCHANGED then)
    BY <1>15, UnreasonLast DEF Lower, headerVars, ControlInv, ControlTypes
  <2>2. t \in reasoned
    BY <2>1 DEF CountedInv, ControlInv, PlacesInv, Threads
  <2>3. Cardinality(reasoned') = Cardinality(reasoned) - 1
    BY <2>1, <2>2, CountParts, FS_RemoveElement DEF ControlInv
  <2>4. Settling' <=> Settling
    BY <2>1, ThreadsDiffer DEF Go, ControlInv, ControlTypes, ThreadTypes, PlacesInv,
       FreesHeaders, Unloading, Settling, Threads
  <2>5. OfSettling' = OfSettling /\ OfRequest' = OfRequest /\ Alive' = Alive
    BY <2>1, <2>4 DEF OfSettling, OfRequest, Alive
  <2> QED BY <2>1, <2>3, <2>5, CountParts, CountedPrime DEF ControlInv
<1>16. ASSUME NEW t \in Threads, Unlock(t) PROVE ReasonsCounted'
  <2>1. /\ UNCHANGED <<uid, reasoned, reason_to_live>> /\ Len(pending') = Len(pending)
        /\ (request' = "none" <=> request = "none")
    <3>1. t = Worker => request = "running"
      BY <1>16 DEF Unlock, CountedInv
    <3> QED BY <1>16, <3>1 DEF Unlock, headerVars
  <2>2. Settling' <=> Settling
    BY <1>16, ThreadsDiffer DEF Unlock, Go, ControlInv, ControlTypes, ThreadTypes,
       PlacesInv, FreesHeaders, Unloading, Settling, Threads
  <2> QED BY <2>1, <2>2, CountFrame
<1>17. ASSUME NEW t \in Threads, Tell(t) PROVE ReasonsCounted'
  <2>1. /\ UNCHANGED <<uid, reason_to_live, reasoned>> /\ Len(pending') = Len(pending)
        /\ (request' = "none" <=> request = "none")
    BY <1>17 DEF Tell, headerVars, askVars
  <2>2. Settling' <=> Settling
    BY <1>17, ThreadsDiffer DEF Tell, Go, GoesOn, ControlInv, ControlTypes, ThreadTypes,
       PlacesInv, FreesHeaders, Unloading, Settling, Threads
  <2> QED BY <2>1, <2>2, CountFrame
<1>18. ASSUME NEW t \in Threads, TryLock(t) PROVE ReasonsCounted'
  <2>1. /\ UNCHANGED <<uid, reason_to_live, reasoned>> /\ Len(pending') = Len(pending)
        /\ (request' = "none" <=> request = "none")
    BY <1>18 DEF TryLock, headerVars, askVars
  <2>2. Settling' <=> Settling
    BY <1>18, ThreadsDiffer DEF TryLock, Go, GoesOn, ControlInv, ControlTypes,
       ThreadTypes, PlacesInv, FreesHeaders, Unloading, Settling, Threads
  <2> QED BY <2>1, <2>2, CountFrame
<1>19. ASSUME NEW t \in Threads, Build(t) PROVE ReasonsCounted'
  <2>1. PICK k \in FreeChanges, a \in [NewUids(t) \cup event[t].removed -> Headers \ Alive] :
          /\ \A u, v \in NewUids(t) \cup event[t].removed : u # v => a[u] # a[v]
          /\ uid' = Born(a) /\ reason_to_live' = reason_to_live + Cardinality(Range(a))
    BY <1>19, BuildFacts DEF ControlInv, ControlTypes
  <2>2. NewUids(t) \cup event[t].removed \in SUBSET Uids
    BY DEF MailTypes, NewUids
  <2>3. UNCHANGED <<pending, reasoned, request>>
    BY <1>19 DEF Build, askVars
  <2>4. Settling' <=> Settling
    BY <1>19, ThreadsDiffer DEF Build, Go, ControlInv, ControlTypes, ThreadTypes,
       PlacesInv, FreesHeaders, Unloading, Settling, Threads
  <2> QED BY <2>1, <2>2, <2>3, <2>4, CountBorn DEF ControlInv
<1>20. ASSUME NEW t \in Threads, Keep(t) PROVE ReasonsCounted'
  <2>1. /\ UNCHANGED <<uid, reason_to_live, reasoned>> /\ Len(pending') = Len(pending)
        /\ (request' = "none" <=> request = "none")
    BY <1>20 DEF Keep, headerVars, askVars
  <2>2. Settling' <=> Settling
    BY <1>20, ThreadsDiffer DEF Keep, Go, ControlInv, ControlTypes, ThreadTypes,
       PlacesInv, FreesHeaders, Unloading, Settling, Threads
  <2> QED BY <2>1, <2>2, CountFrame
<1>21. ASSUME NEW t \in Threads, Post(t) PROVE ReasonsCounted'
  <2>1. UNCHANGED <<uid, reasoned, request>> /\ Notice(change[t])
    BY <1>21 DEF Post, headerVars, askVars
  <2>2. Settling' <=> Settling
    BY <1>21, ThreadsDiffer DEF Post, Go, ControlInv, ControlTypes, ThreadTypes,
       PlacesInv, FreesHeaders, Unloading, Settling, Threads
  <2>3. change[t] \in Changes \cup {Nothing}
    BY DEF HeaderTypes
  <2> QED BY <2>1, <2>2, <2>3, CountNotice DEF ControlInv
<1>22. ASSUME NEW t \in Threads, Drop(t) PROVE ReasonsCounted'
  <2>1. /\ UNCHANGED <<uid, reason_to_live, reasoned>> /\ Len(pending') = Len(pending)
        /\ (request' = "none" <=> request = "none")
    BY <1>22 DEF Drop, headerVars, askVars
  <2>2. Settling' <=> Settling
    BY <1>22, ThreadsDiffer DEF Drop, Go, ControlInv, ControlTypes, ThreadTypes,
       PlacesInv, FreesHeaders, Unloading, Settling, Threads
  <2> QED BY <2>1, <2>2, CountFrame
<1>23. ASSUME NEW t \in Threads, Restore(t) PROVE ReasonsCounted'
  <2>1. /\ UNCHANGED <<uid, reason_to_live, reasoned>> /\ Len(pending') = Len(pending)
        /\ (request' = "none" <=> request = "none")
    BY <1>23 DEF Restore, headerVars, askVars
  <2>2. Settling' <=> Settling
    BY <1>23, ThreadsDiffer DEF Restore, Go, GoesOn, ControlInv, ControlTypes,
       ThreadTypes, PlacesInv, FreesHeaders, Unloading, Settling, Threads
  <2> QED BY <2>1, <2>2, CountFrame
<1>24. ASSUME NEW t \in Threads, Finalize(t) PROVE ReasonsCounted'
  <2>1. CASE dropped[t] = {}
    <3>1. UNCHANGED <<uid, reason_to_live, reasoned, request, pending, after, then>> /\ Go(t, after[t])
          /\ pc[t] = "finalize"
      BY <1>24, <2>1 DEF Finalize, askVars
    <3>2. Settling' <=> Settling
      BY <3>1, ThreadsDiffer DEF Go, ControlInv, ControlTypes, ThreadTypes, PlacesInv,
         FreesHeaders, Unloading, Settling, Threads
    <3> QED BY <3>1, <3>2, CountFrame
  <2>2. CASE dropped[t] # {}
    <3>1. PICK h \in dropped[t] : uid' = [uid EXCEPT ![h] = Nothing]
      BY <1>24, <2>2 DEF Finalize
    <3>2. /\ UNCHANGED <<reasoned, request, pending, after>> /\ pc[t] = "finalize"
          /\ reason_to_live' = reason_to_live - 1
          /\ (Go(t, "uncache") /\ then' = [then EXCEPT ![t] = "finalize"])
             \/ (Go(t, "finalize") /\ UNCHANGED then)
      BY <1>24, <2>2, UnreasonLast DEF Finalize, askVars, ControlInv, ControlTypes
    <3>3. h \in Headers /\ h \in Alive
      BY DEF OwnInv, HeaderTypes
    <3>4. Alive' = Alive \ {h}
      BY <3>1, <3>3 DEF Alive, HeaderTypes
    <3>5. Cardinality(Alive') = Cardinality(Alive) - 1
      BY <3>3, <3>4, AliveCount, FS_RemoveElement
    <3>6. Settling' <=> Settling
      BY <3>2, ThreadsDiffer DEF Go, ControlInv, ControlTypes, ThreadTypes, PlacesInv,
         FreesHeaders, Unloading, Settling, Threads
    <3>7. OfSettling' = OfSettling /\ OfRequest' = OfRequest
      BY <3>2, <3>6 DEF OfSettling, OfRequest
    <3> QED BY <3>2, <3>5, <3>7, CountParts, CountedPrime DEF ControlInv
  <2> QED BY <2>1, <2>2
<1>25. ASSUME NEW t \in Threads, Uncache(t) PROVE ReasonsCounted'
  <2>1. /\ UNCHANGED <<uid, reason_to_live, reasoned>> /\ Len(pending') = Len(pending)
        /\ (request' = "none" <=> request = "none")
    BY <1>25 DEF Uncache, headerVars, askVars
  <2>2. Settling' <=> Settling
    BY <1>25, ThreadsDiffer DEF Uncache, Go, ControlInv, ControlTypes, ThreadTypes,
       PlacesInv, FreesHeaders, Unloading, Settling, Threads
  <2> QED BY <2>1, <2>2, CountFrame
<1>26. ASSUME NEW t \in Threads, Join(t) PROVE ReasonsCounted'
  <2>1. /\ UNCHANGED <<uid, reason_to_live, reasoned>> /\ Len(pending') = Len(pending)
        /\ (request' = "none" <=> request = "none")
    BY <1>26 DEF Join, headerVars, askVars
  <2>2. Settling' <=> Settling
    BY <1>26, ThreadsDiffer DEF Join, Go, ControlInv, ControlTypes, ThreadTypes,
       PlacesInv, FreesHeaders, Unloading, Settling, Threads
  <2> QED BY <2>1, <2>2, CountFrame
<1>27. ASSUME Settle PROVE ReasonsCounted'
  <2>1. /\ UNCHANGED <<uid, reasoned, pending, request>> /\ pc[Main] = "settle"
        /\ after' = [after EXCEPT ![Main] = "free"] /\ reason_to_live' = reason_to_live - 1
        /\ Go(Main, "uncache") \/ Go(Main, "free")
    BY <1>27, UnreasonLast DEF Settle, headerVars, askVars, ControlInv, ControlTypes
  <2>2. OfSettling = 1 /\ OfSettling' = 0
    BY <2>1 DEF OfSettling, Go, ControlInv, ControlTypes, ThreadTypes, PlacesInv,
       FreesHeaders, Unloading, Settling, Threads
  <2>3. Alive' = Alive /\ OfRequest' = OfRequest
    BY <2>1 DEF Alive, OfRequest
  <2> QED BY <2>1, <2>2, <2>3, CountParts, CountedPrime DEF ControlInv
<1>28. ASSUME FlagSet PROVE ReasonsCounted'
  <2>1. UNCHANGED <<uid, reasoned, request>> /\ Notice(Nothing)
    BY <1>28 DEF FlagSet, headerVars, askVars
  <2>2. Settling' <=> Settling
    BY <1>28, ThreadsDiffer DEF FlagSet, Go, ControlInv, ControlTypes, ThreadTypes,
       PlacesInv, FreesHeaders, Unloading, Settling, Threads
  <2> QED BY <2>1, <2>2, CountNotice DEF ControlInv
<1>29. ASSUME Begin PROVE ReasonsCounted'
  <2>1. /\ UNCHANGED <<uid, reason_to_live, reasoned>> /\ Len(pending') = Len(pending)
        /\ (request' = "none" <=> request = "none")
    BY <1>29 DEF Begin, headerVars
  <2>2. Settling' <=> Settling
    BY <1>29, ThreadsDiffer DEF Begin, Go, ControlInv, ControlTypes, ThreadTypes,
       PlacesInv, FreesHeaders, Unloading, Settling, Threads
  <2> QED BY <2>1, <2>2, CountFrame
<1>30. ASSUME UNCHANGED vars PROVE ReasonsCounted'
  <2>1. /\ UNCHANGED <<uid, reason_to_live, reasoned>> /\ Len(pending') = Len(pending)
        /\ (request' = "none" <=> request = "none")
    BY <1>30 DEF vars, headerVars, askVars
  <2>2. Settling' <=> Settling
    BY <1>30, ThreadsDiffer DEF vars, Settling
  <2> QED BY <2>1, <2>2, CountFrame
<1>31. ASSUME NEW t \in Threads, LocalSize(t) \/ Measure(t) PROVE ReasonsCounted'
  <2>1. UNCHANGED <<uid, reasoned, request>>
    BY <1>31, SizeCases
  <2>2. Settling' <=> Settling
    BY <1>31, SizeCases, ThreadsDiffer DEF Go, ControlInv, ControlTypes, ThreadTypes,
       PlacesInv, FreesHeaders, Unloading, Settling, Threads
  <2>3. CASE Notice(Nothing)
    BY <2>1, <2>2, <2>3, CountNotice DEF ControlInv
  <2>4. CASE UNCHANGED <<reason_to_live, pending>>
    BY <2>1, <2>2, <2>4, CountFrame
  <2> QED BY <1>31, <2>3, <2>4, SizeCases
<1> QED
  BY <1>1, <1>2, <1>3, <1>4, <1>5, <1>6, <1>7, <1>8, <1>9, <1>10, <1>11, <1>12, <1>13,
     <1>14, <1>15, <1>16, <1>17, <1>18, <1>19, <1>20, <1>21, <1>22, <1>23, <1>24, <1>25,
     <1>26, <1>27, <1>28, <1>29, <1>30, <1>31 DEF Next, User, Step

----------------------------------------------------------------------------
(* Where the folder is loaded.                                             *)

\* From its being loaded to the last use in a call, and where the idle thread builds,
\* the folder is loaded; a call that frees headers does not unload it; without push
\* e-mail it is loaded while there are headers.
InUse(t) == \/ pc[t] = "build"
            \/ InCall(t) /\ pc[t] \notin {"load", "unlock"} /\ ~Unloading(t)
LoadedInv ==
  /\ \A t \in Threads : InUse(t) => folder
  /\ \A t \in Threads : InCall(t) /\ Unloading(t) => then[t] = "unlock"
  /\ ~capable /\ Alive # {} => folder

\* Without push e-mail a folder with no reason to live is loaded only if somebody is
\* about to count one.
RestInv == ~capable /\ reason_to_live = 0 /\ folder => \E t \in Threads : pc[t] = "reason"

\* A call in which reasons are counted down by other threads, or in which headers are
\* freed, is a reason of its own.
LEMMA CallIsReason ==
  ASSUME ControlInv, CountedInv, HeaderTypes, ReasonsCounted, NEW t \in Threads, InCall(t),
         Counting(t) \/ t = Worker
  PROVE  /\ reason_to_live >= 1
         /\ Settling \/ Alive # {} => reason_to_live >= 2
<1>1. reasoned # {} \/ OfRequest = 1
  <2>1. CASE t = Worker
    <3>1. pc[Worker] # "free"
      BY <2>1 DEF InCall, Delivering, Unloading
    <3> QED BY <3>1 DEF CountedInv, OfRequest
  <2>2. CASE t = Main
    BY <2>2, ThreadsDiffer DEF CountedInv
  <2> QED BY <2>1, <2>2 DEF Threads, InCall
<1>2. Cardinality(reasoned) + OfRequest >= 1
  BY <1>1, CountParts DEF ControlInv
<1>3. Settling => OfSettling = 1
  BY DEF OfSettling
<1> QED BY <1>2, <1>3, CountParts DEF ControlInv

\* Where a thread counts a reason down: in a call, in the main loop, or the idle thread.
LEMMA OthersWait ==
  ASSUME ControlInv, CountedInv, NEW t \in Threads, NEW u \in Threads, InCall(t), InCall(u)
  PROVE  t = u
BY DEF ControlInv, LocksInv

\* Every step keeps that the folder is loaded where it is used.
LEMMA LoadedStep ==
  ControlInv /\ CountedInv /\ AskingInv /\ DeliveryInv /\ MailTypes /\ HeaderTypes
    /\ RoomInv /\ ChangesInv /\ OwnInv /\ ReasonsCounted /\ LoadedInv /\ [Next]_vars
    => LoadedInv'
<1> SUFFICES ASSUME ControlInv, CountedInv, AskingInv, DeliveryInv, MailTypes, HeaderTypes,
                    RoomInv, ChangesInv, OwnInv, ReasonsCounted, LoadedInv, [Next]_vars
             PROVE  LoadedInv'
  OBVIOUS
<1>1. ASSUME Open PROVE LoadedInv'
  <2>1. UNCHANGED <<folder, capable, uid>>
    BY <1>1 DEF Open, lifeVars, headerVars
  <2>2. \A u \in Threads : /\ (InUse(u)' => InUse(u))
                           /\ (InCall(u)' /\ Unloading(u)' => then'[u] = "unlock")
    BY <1>1, ThreadsDiffer DEF Open, LoadedInv, InUse, InCall, Unloading, Delivering,
       ControlInv, ControlTypes, ThreadTypes, Threads
  <2> QED BY <2>1, <2>2 DEF LoadedInv, Alive
<1>2. ASSUME Close PROVE LoadedInv'
  <2>1. UNCHANGED <<folder, capable, uid>>
    BY <1>2 DEF Close, lifeVars, headerVars
  <2>2. \A u \in Threads : /\ (InUse(u)' => InUse(u))
                           /\ (InCall(u)' /\ Unloading(u)' => then'[u] = "unlock")
    BY <1>2, ThreadsDiffer DEF Close, Go, LoadedInv, InUse, InCall, Unloading, Delivering,
       ControlInv, ControlTypes, ThreadTypes, PlacesInv, FreesHeaders, Threads
  <2> QED BY <2>1, <2>2 DEF LoadedInv, Alive
<1>3. ASSUME SetFlag PROVE LoadedInv'
  <2>1. UNCHANGED <<folder, capable, uid>>
    BY <1>3 DEF SetFlag, lifeVars, headerVars
  <2>2. \A u \in Threads : /\ (InUse(u)' => InUse(u))
                           /\ (InCall(u)' /\ Unloading(u)' => then'[u] = "unlock")
    BY <1>3, ThreadsDiffer DEF SetFlag, Go, LoadedInv, InUse, InCall, Unloading,
       Delivering, ControlInv, ControlTypes, ThreadTypes, Threads
  <2> QED BY <2>1, <2>2 DEF LoadedInv, Alive
<1>4. ASSUME NEW kind \in Ask, Launch(kind) PROVE LoadedInv'
  <2>1. UNCHANGED <<folder, capable, uid>>
    BY <1>4 DEF Launch, lifeVars, headerVars
  <2>2. \A u \in Threads : /\ (InUse(u)' => InUse(u))
                           /\ (InCall(u)' /\ Unloading(u)' => then'[u] = "unlock")
    BY <1>4, ThreadsDiffer DEF Launch, LoadedInv, InUse, InCall, Unloading, Delivering,
       ControlInv, ControlTypes, ThreadTypes, Threads
  <2> QED BY <2>1, <2>2 DEF LoadedInv, Alive
<1>5. ASSUME NEW kind \in Ask, Call(kind) PROVE LoadedInv'
  <2>1. UNCHANGED <<folder, capable, uid>>
    BY <1>5 DEF Call, lifeVars, headerVars
  <2>2. \A u \in Threads : /\ (InUse(u)' => InUse(u))
                           /\ (InCall(u)' /\ Unloading(u)' => then'[u] = "unlock")
    BY <1>5, ThreadsDiffer DEF Call, Go, LoadedInv, InUse, InCall, Unloading, Delivering,
       ControlInv, ControlTypes, ThreadTypes, Threads
  <2> QED BY <2>1, <2>2 DEF LoadedInv, Alive
<1>6. ASSUME PushEvent PROVE LoadedInv'
  <2>1. UNCHANGED <<folder, capable, uid>>
    BY <1>6 DEF PushEvent, lifeVars, headerVars
  <2>2. \A u \in Threads : /\ (InUse(u)' => InUse(u))
                           /\ (InCall(u)' /\ Unloading(u)' => then'[u] = "unlock")
    BY <1>6, ThreadsDiffer DEF PushEvent, Change, Go, LoadedInv, InUse, InCall, Unloading,
       Delivering, ControlInv, ControlTypes, ThreadTypes, Threads
  <2> QED BY <2>1, <2>2 DEF LoadedInv, Alive
<1>7. ASSUME Notify PROVE LoadedInv'
  <2>1. UNCHANGED <<folder, capable, uid>>
    BY <1>7 DEF Notify, lifeVars, headerVars
  <2>2. \A u \in Threads : /\ (InUse(u)' => InUse(u))
                           /\ (InCall(u)' /\ Unloading(u)' => then'[u] = "unlock")
    BY <1>7, ThreadsDiffer DEF Notify, Go, LoadedInv, InUse, InCall, Unloading,
       Delivering, ControlInv, ControlTypes, ThreadTypes, PlacesInv, Threads
  <2> QED BY <2>1, <2>2 DEF LoadedInv, Alive
<1>8. ASSUME Done PROVE LoadedInv'
  <2>1. UNCHANGED <<folder, capable, uid>>
    BY <1>8 DEF Done, lifeVars, headerVars
  <2>2. \A u \in Threads : /\ (InUse(u)' => InUse(u))
                           /\ (InCall(u)' /\ Unloading(u)' => then'[u] = "unlock")
    BY <1>8, ThreadsDiffer DEF Done, Go, LoadedInv, InUse, InCall, Unloading, Delivering,
       ControlInv, ControlTypes, ThreadTypes, Threads
  <2> QED BY <2>1, <2>2 DEF LoadedInv, Alive
<1>9. ASSUME NEW t \in Threads, Lock(t) PROVE LoadedInv'
  <2>1. UNCHANGED <<folder, capable, uid>>
    BY <1>9 DEF Lock, lifeVars, headerVars
  <2>2. \A u \in Threads : /\ (InUse(u)' => InUse(u))
                           /\ (InCall(u)' /\ Unloading(u)' => then'[u] = "unlock")
    BY <1>9, ThreadsDiffer DEF Lock, Go, LoadedInv, InUse, InCall, Unloading, Delivering,
       ControlInv, ControlTypes, ThreadTypes, Threads
  <2> QED BY <2>1, <2>2 DEF LoadedInv, Alive
<1>10. ASSUME NEW t \in Threads, Load(t) PROVE LoadedInv'
  <2>1. folder' = TRUE /\ UNCHANGED <<capable, then, after>> /\ pc[t] = "load"
        /\ (Go(t, "refresh") \/ Go(t, "reason"))
    BY <1>10 DEF Load
  <2>2. \A u \in Threads : InCall(u)' /\ Unloading(u)' => then'[u] = "unlock"
    BY <2>1 DEF Go, LoadedInv, InUse, InCall, Unloading, Delivering, ControlInv,
       ControlTypes, ThreadTypes
  <2> QED BY <2>1, <2>2 DEF LoadedInv
<1>11. ASSUME NEW t \in Threads, LoadFails(t) PROVE LoadedInv'
  <2>1. UNCHANGED <<folder, capable, uid>>
    BY <1>11 DEF LoadFails, lifeVars, headerVars
  <2>2. \A u \in Threads : /\ (InUse(u)' => InUse(u))
                           /\ (InCall(u)' /\ Unloading(u)' => then'[u] = "unlock")
    BY <1>11, ThreadsDiffer DEF LoadFails, Go, LoadedInv, InUse, InCall, Unloading,
       Delivering, ControlInv, ControlTypes, ThreadTypes, Threads
  <2> QED BY <2>1, <2>2 DEF LoadedInv, Alive
<1>12. ASSUME NEW t \in Threads, CountCall(t) PROVE LoadedInv'
  <2>1. UNCHANGED <<folder, capable, uid>>
    BY <1>12 DEF CountCall, lifeVars, headerVars
  <2>2. \A u \in Threads : /\ (InUse(u)' => InUse(u))
                           /\ (InCall(u)' /\ Unloading(u)' => then'[u] = "unlock")
    BY <1>12, ThreadsDiffer DEF CountCall, Go, LoadedInv, InUse, InCall, Unloading,
       Delivering, ControlInv, ControlTypes, ThreadTypes, Threads
  <2> QED BY <2>1, <2>2 DEF LoadedInv, Alive
<1>13. ASSUME NEW t \in Threads, Refresh(t) PROVE LoadedInv'
  <2>1. UNCHANGED <<folder, capable, uid>>
    BY <1>13 DEF Refresh, lifeVars, headerVars
  <2>2. \A u \in Threads : /\ (InUse(u)' => InUse(u))
                           /\ (InCall(u)' /\ Unloading(u)' => then'[u] = "unlock")
    BY <1>13, ThreadsDiffer DEF Refresh, Go, GoesOn, Change, LoadedInv, InUse, InCall,
       Unloading, Delivering, ControlInv, ControlTypes, ThreadTypes, Threads
  <2> QED BY <2>1, <2>2 DEF LoadedInv, Alive
<1>14. ASSUME NEW t \in Threads, Fill(t) PROVE LoadedInv'
  <2>1. UNCHANGED <<folder, capable, then, after>> /\ pc[t] = "fill" /\ Go(t, "lower")
    BY <1>14 DEF Fill, lifeVars
  <2>2. InUse(t)
    BY <2>1 DEF InUse, InCall, Unloading, Delivering, ControlInv, PlacesInv
  <2> QED BY <2>1, <2>2 DEF Go, LoadedInv, InUse, InCall, Unloading, Delivering,
      ControlInv, ControlTypes, ThreadTypes
<1>15. ASSUME NEW t \in Threads, Lower(t) PROVE LoadedInv'
  <2>1. /\ UNCHANGED <<after, capable, uid>> /\ pc[t] = "lower"
        /\ \/ Go(t, "uncache") /\ then' = [then EXCEPT ![t] = "unlock"] /\ UNCHANGED folder
           \/ Go(t, "unlock") /\ UNCHANGED <<then, folder>>
           \/ Go(t, "unlock") /\ UNCHANGED then /\ ~capable /\ reason_to_live = 1
    BY <1>15, UnreasonLast DEF Lower, headerVars, ControlInv, ControlTypes
  <2>2. InCall(t)
    BY <2>1 DEF InCall, ControlInv, PlacesInv
  <2>3. \A u \in Threads : InUse(u)' => InUse(u) /\ u # t
    BY <2>1 DEF Go, LoadedInv, InUse, InCall, Unloading, Delivering, ControlInv,
       ControlTypes, ThreadTypes
  <2>4. \A u \in Threads : InCall(u)' /\ Unloading(u)' => then'[u] = "unlock"
    BY <2>1 DEF Go, LoadedInv, InUse, InCall, Unloading, Delivering, ControlInv,
       ControlTypes, ThreadTypes
  <2>5. CASE UNCHANGED folder
    BY <2>1, <2>3, <2>4, <2>5 DEF LoadedInv, Alive
  <2>6. CASE ~capable /\ reason_to_live = 1
    <3>1. pc[Push] = "free"
      BY <2>6 DEF ControlInv, PlacesInv
    <3>2. \A u \in Threads : ~InUse(u)'
      <4>1. \A u \in Threads \ {t} : ~InCall(u)
        BY <2>2, OthersWait
      <4>2. \A u \in Threads \ {t} : InUse(u) => u = Push
        BY <4>1, <2>2, <2>1 DEF InUse, InCall, Delivering, Threads
      <4> QED BY <2>3, <3>1, <4>2, ThreadsDiffer DEF InUse, InCall
    <3>3. Alive = {}
      <4>1. Alive # {} => reason_to_live >= 2
        BY <2>1, <2>2, CallIsReason DEF Counting
      <4> QED BY <2>6, <4>1
    <3> QED BY <2>1, <2>4, <3>2, <3>3 DEF LoadedInv, Alive
  <2> QED BY <2>1, <2>5, <2>6
<1>16. ASSUME NEW t \in Threads, Unlock(t) PROVE LoadedInv'
  <2>1. UNCHANGED <<folder, capable, uid>>
    BY <1>16 DEF Unlock, lifeVars, headerVars
  <2>2. \A u \in Threads : /\ (InUse(u)' => InUse(u))
                           /\ (InCall(u)' /\ Unloading(u)' => then'[u] = "unlock")
    BY <1>16, ThreadsDiffer DEF Unlock, Go, LoadedInv, InUse, InCall, Unloading,
       Delivering, ControlInv, ControlTypes, ThreadTypes, Threads
  <2> QED BY <2>1, <2>2 DEF LoadedInv, Alive
<1>17. ASSUME NEW t \in Threads, Tell(t) PROVE LoadedInv'
  <2>1. UNCHANGED <<folder, capable, uid>>
    BY <1>17 DEF Tell, lifeVars, headerVars
  <2>2. \A u \in Threads : /\ (InUse(u)' => InUse(u))
                           /\ (InCall(u)' /\ Unloading(u)' => then'[u] = "unlock")
    BY <1>17, ThreadsDiffer DEF Tell, Go, GoesOn, LoadedInv, InUse, InCall, Unloading,
       Delivering, ControlInv, ControlTypes, ThreadTypes, Threads
  <2> QED BY <2>1, <2>2 DEF LoadedInv, Alive
<1>18. ASSUME NEW t \in Threads, TryLock(t) PROVE LoadedInv'
  <2>1. UNCHANGED <<folder, capable, uid, then, after>> /\ pc[t] = "event"
    BY <1>18 DEF TryLock, lifeVars, headerVars
  <2>2. (Go(t, "build") /\ folder) \/ Go(t, GoesOn(t))
    BY <1>18 DEF TryLock
  <2>3. t # Push => InUse(t)
    BY <2>1 DEF InUse, InCall, Delivering, Unloading
  <2>4. \A u \in Threads : /\ (InUse(u)' => InUse(u) \/ folder)
                           /\ (InCall(u)' /\ Unloading(u)' => then'[u] = "unlock")
    BY <2>1, <2>2, <2>3 DEF Go, GoesOn, LoadedInv, InUse, InCall, Unloading, Delivering,
       ControlInv, ControlTypes, ThreadTypes
  <2> QED BY <2>1, <2>4 DEF LoadedInv, Alive
<1>19. ASSUME NEW t \in Threads, Build(t) PROVE LoadedInv'
  <2>1. UNCHANGED <<folder, capable, then, after>> /\ pc[t] = "build" /\ Go(t, "keep")
    BY <1>19 DEF Build, lifeVars
  <2>2. InUse(t)
    BY <2>1 DEF InUse, InCall, Unloading, Delivering, ControlInv, PlacesInv
  <2> QED BY <2>1, <2>2 DEF Go, LoadedInv, InUse, InCall, Unloading, Delivering,
      ControlInv, ControlTypes, ThreadTypes
<1>20. ASSUME NEW t \in Threads, Keep(t) PROVE LoadedInv'
  <2>1. UNCHANGED <<folder, capable, uid>>
    BY <1>20 DEF Keep, headerVars
  <2>2. \A u \in Threads : /\ (InUse(u)' => InUse(u))
                           /\ (InCall(u)' /\ Unloading(u)' => then'[u] = "unlock")
    BY <1>20, ThreadsDiffer DEF Keep, Go, LoadedInv, InUse, InCall, Unloading, Delivering,
       ControlInv, ControlTypes, ThreadTypes, Threads
  <2> QED BY <2>1, <2>2 DEF LoadedInv, Alive
<1>21. ASSUME NEW t \in Threads, Post(t) PROVE LoadedInv'
  <2>1. UNCHANGED <<folder, capable, uid>>
    BY <1>21 DEF Post, lifeVars, headerVars
  <2>2. \A u \in Threads : /\ (InUse(u)' => InUse(u))
                           /\ (InCall(u)' /\ Unloading(u)' => then'[u] = "unlock")
    BY <1>21, ThreadsDiffer DEF Post, Go, LoadedInv, InUse, InCall, Unloading, Delivering,
       ControlInv, ControlTypes, ThreadTypes, Threads
  <2> QED BY <2>1, <2>2 DEF LoadedInv, Alive
<1>22. ASSUME NEW t \in Threads, Drop(t) PROVE LoadedInv'
  <2>1. UNCHANGED <<folder, capable, uid>>
    BY <1>22 DEF Drop, lifeVars, headerVars
  <2>2. \A u \in Threads : /\ (InUse(u)' => InUse(u))
                           /\ (InCall(u)' /\ Unloading(u)' => then'[u] = "unlock")
    BY <1>22, ThreadsDiffer DEF Drop, Go, LoadedInv, InUse, InCall, Unloading, Delivering,
       ControlInv, ControlTypes, ThreadTypes, PlacesInv, Threads
  <2> QED BY <2>1, <2>2 DEF LoadedInv, Alive
<1>23. ASSUME NEW t \in Threads, Restore(t) PROVE LoadedInv'
  <2>1. UNCHANGED <<folder, capable, uid>>
    BY <1>23 DEF Restore, headerVars
  <2>2. \A u \in Threads : /\ (InUse(u)' => InUse(u))
                           /\ (InCall(u)' /\ Unloading(u)' => then'[u] = "unlock")
    BY <1>23, ThreadsDiffer DEF Restore, Go, GoesOn, LoadedInv, InUse, InCall, Unloading,
       Delivering, ControlInv, ControlTypes, ThreadTypes, PlacesInv, Threads
  <2> QED BY <2>1, <2>2 DEF LoadedInv, Alive
<1>24. ASSUME NEW t \in Threads, Finalize(t) PROVE LoadedInv'
  <2>1. CASE dropped[t] = {}
    <3>1. UNCHANGED <<folder, capable, uid, then, after>> /\ pc[t] = "finalize" /\ Go(t, after[t])
      BY <1>24, <2>1 DEF Finalize, lifeVars
    <3>2. after[t] \in {"restore", "settle", "free"}
      BY <3>1 DEF ControlInv, PlacesInv, FreesHeaders
    <3>3. \A u \in Threads : /\ (InUse(u)' => InUse(u))
                             /\ (InCall(u)' /\ Unloading(u)' => then'[u] = "unlock")
      BY <3>1, <3>2 DEF Go, LoadedInv, InUse, InCall, Unloading, Delivering, ControlInv,
         ControlTypes, ThreadTypes
    <3> QED BY <3>1, <3>3 DEF LoadedInv, Alive
  <2>2. CASE dropped[t] # {}
    <3>1. PICK h \in dropped[t] : uid' = [uid EXCEPT ![h] = Nothing]
      BY <1>24, <2>2 DEF Finalize
    <3>2. h \in Headers /\ h \in Alive
      BY DEF OwnInv, HeaderTypes
    <3>3. Alive' = Alive \ {h}
      BY <3>1, <3>2 DEF Alive, HeaderTypes
    <3>4. UNCHANGED <<after, capable, pending, reasoned, request>> /\ pc[t] = "finalize"
      BY <1>24, <2>2, UnreasonLast DEF Finalize, ControlInv, ControlTypes, askVars
    <3>5. InCall(t) => reason_to_live >= 2
      BY <3>2, <3>4, CallIsReason DEF Counting, InCall, Delivering, Unloading
    <3>6. CASE Go(t, "uncache") /\ then' = [then EXCEPT ![t] = "finalize"] /\ UNCHANGED folder
               /\ reason_to_live = 1 /\ capable
      <4>1. ~InCall(t)
        BY <3>5, <3>6, CountParts DEF ControlInv
      <4>2. \A u \in Threads : /\ (InUse(u)' => InUse(u))
                               /\ (InCall(u)' /\ Unloading(u)' => then'[u] = "unlock")
        BY <3>4, <3>6, <4>1 DEF Go, LoadedInv, InUse, InCall, Unloading, Delivering,
           ControlInv, ControlTypes, ThreadTypes
      <4> QED BY <3>4, <3>6, <4>2 DEF LoadedInv
    <3>7. CASE Go(t, "finalize") /\ UNCHANGED then
      <4>1. UNCHANGED pc
        BY <3>4, <3>7 DEF Go, ControlInv, ControlTypes, ThreadTypes
      <4>2. CASE UNCHANGED folder
        BY <3>3, <3>4, <3>7, <4>1, <4>2 DEF LoadedInv, InUse, InCall, Unloading, Delivering
      <4>3. CASE reason_to_live = 1 /\ ~capable
        <5>1. Cardinality(Alive) >= 1
          BY <3>2, CountParts DEF ControlInv
        <5>2. \A u \in Threads : ~InUse(u)
          <6>1. t = Main
            <7>1. t # Push
              BY <3>4, <4>3 DEF ControlInv, PlacesInv
            <7>2. t = Worker => InCall(t)
              BY <3>4, ThreadsDiffer DEF ControlInv, PlacesInv, FreesHeaders, InCall,
                 Delivering
            <7> QED BY <3>5, <4>3, <7>1, <7>2 DEF Threads
          <6>2. ~InCall(Main) /\ ~InCall(Worker)
            BY <3>2, <3>5, <4>3, <6>1, CallIsReason DEF Threads
          <6>3. pc[Push] = "free"
            BY <4>3 DEF ControlInv, PlacesInv
          <6> QED BY <6>2, <6>3, ThreadsDiffer DEF InUse, InCall, Threads, Delivering
        <5>3. Alive' = {}
          <6>1. Cardinality(Alive') = Cardinality(Alive) - 1 /\ IsFiniteSet(Alive')
            BY <3>2, <3>3, AliveCount, FS_RemoveElement
          <6>2. Cardinality(Alive) = 1
            BY <4>3, <5>1, CountParts DEF ControlInv
          <6> QED BY <6>1, <6>2, FS_EmptySet
        <5> QED
          BY <3>4, <3>7, <4>1, <5>2, <5>3 DEF LoadedInv, InUse, InCall, Unloading,
             Delivering
      <4> QED BY <1>24, <2>2, <4>2, <4>3, UnreasonLast DEF Finalize, ControlInv,
          ControlTypes
    <3>8. \/ /\ Go(t, "uncache") /\ then' = [then EXCEPT ![t] = "finalize"] /\ UNCHANGED folder
             /\ reason_to_live = 1 /\ capable
          \/ Go(t, "finalize") /\ UNCHANGED then
      BY <1>24, <2>2, UnreasonLast DEF Finalize, ControlInv, ControlTypes
    <3> QED BY <3>6, <3>7, <3>8
  <2> QED BY <2>1, <2>2
<1>25. ASSUME NEW t \in Threads, Uncache(t) PROVE LoadedInv'
  <2>1. UNCHANGED <<folder, capable, uid, after, then>> /\ pc[t] = "uncache"
        /\ (Go(t, "join") \/ Go(t, then[t]))
    BY <1>25 DEF Uncache, lifeVars, headerVars
  <2>2. then[t] \in {"finalize", "unlock", "free"}
    BY <2>1 DEF ControlInv, PlacesInv, Unloading
  <2>3. InCall(t) => then[t] = "unlock"
    BY <2>1 DEF LoadedInv, Unloading
  <2>4. \A u \in Threads : /\ (InUse(u)' => InUse(u))
                           /\ (InCall(u)' /\ Unloading(u)' => then'[u] = "unlock")
    BY <2>1, <2>2, <2>3 DEF Go, LoadedInv, InUse, InCall, Unloading, Delivering,
       ControlInv, ControlTypes, ThreadTypes
  <2> QED BY <2>1, <2>4 DEF LoadedInv, Alive
<1>26. ASSUME NEW t \in Threads, Join(t) PROVE LoadedInv'
  <2>1. UNCHANGED <<capable, uid, after, then>> /\ pc[t] = "join" /\ Go(t, then[t])
    BY <1>26 DEF Join, headerVars
  <2>2. Unloading(t) /\ Inner(t) /\ capable
    BY <2>1 DEF Unloading, Inner, ControlInv, PlacesInv
  <2>3. \A u \in Threads \ {t} : ~InCall(u) /\ ~Inner(u)
    BY <2>2 DEF ControlInv, LocksInv
  <2>4. \A u \in Threads \ {t} : ~InUse(u)
    BY <2>3 DEF InUse, Inner
  <2>5. then[t] \in {"finalize", "unlock", "free"}
    BY <2>2 DEF ControlInv, PlacesInv
  <2>6. InCall(t) => then[t] = "unlock"
    BY <2>2 DEF LoadedInv
  <2>7. \A u \in Threads : ~InUse(u)'
    BY <2>1, <2>2, <2>4, <2>5, <2>6 DEF Go, LoadedInv, InUse, InCall, Unloading,
       Delivering, ControlInv, ControlTypes, ThreadTypes
  <2>8. \A u \in Threads : InCall(u)' /\ Unloading(u)' => then'[u] = "unlock"
    BY <2>1, <2>5 DEF Go, LoadedInv, InUse, InCall, Unloading, Delivering, ControlInv,
       ControlTypes, ThreadTypes
  <2> QED BY <2>1, <2>2, <2>7, <2>8 DEF LoadedInv
<1>27. ASSUME Settle PROVE LoadedInv'
  <2>1. /\ UNCHANGED <<capable, uid>> /\ pc[Main] = "settle" /\ after' = [after EXCEPT ![Main] = "free"]
        /\ \/ Go(Main, "uncache") /\ then' = [then EXCEPT ![Main] = "free"] /\ UNCHANGED folder
           \/ Go(Main, "free") /\ UNCHANGED <<then, folder>>
           \/ Go(Main, "free") /\ UNCHANGED then /\ ~capable /\ reason_to_live = 1
    BY <1>27, UnreasonLast DEF Settle, headerVars, ControlInv, ControlTypes
  <2>2. \A u \in Threads : /\ (InUse(u)' => InUse(u) /\ u # Main)
                           /\ (InCall(u)' /\ Unloading(u)' => then'[u] = "unlock")
    BY <2>1, ThreadsDiffer DEF Go, Threads, LoadedInv, InUse, InCall, Unloading,
       Delivering, ControlInv, ControlTypes, ThreadTypes
  <2>3. CASE UNCHANGED folder
    BY <2>1, <2>2, <2>3 DEF LoadedInv, Alive
  <2>4. CASE ~capable /\ reason_to_live = 1
    <3>1. Settling
      BY <2>1 DEF Settling
    <3>2. ~InCall(Worker)
      BY <2>4, <3>1, CallIsReason DEF Threads
    <3>3. pc[Push] = "free"
      BY <2>4 DEF ControlInv, PlacesInv
    <3>4. \A u \in Threads : ~InUse(u)'
      BY <2>2, <3>2, <3>3, ThreadsDiffer DEF InUse, InCall, Threads, Delivering
    <3>5. Alive = {}
      <4>1. Cardinality(Alive) = 0
        BY <2>4, <3>1, CountParts DEF OfSettling, ControlInv
      <4> QED BY <4>1, AliveCount, FS_EmptySet
    <3> QED BY <2>1, <2>2, <3>4, <3>5 DEF LoadedInv, Alive
  <2> QED BY <2>1, <2>3, <2>4
<1>28. ASSUME FlagSet PROVE LoadedInv'
  <2>1. UNCHANGED <<folder, capable, uid>>
    BY <1>28 DEF FlagSet, lifeVars, headerVars
  <2>2. \A u \in Threads : /\ (InUse(u)' => InUse(u))
                           /\ (InCall(u)' /\ Unloading(u)' => then'[u] = "unlock")
    BY <1>28, ThreadsDiffer DEF FlagSet, Go, LoadedInv, InUse, InCall, Unloading,
       Delivering, ControlInv, ControlTypes, ThreadTypes, Threads
  <2> QED BY <2>1, <2>2 DEF LoadedInv, Alive
<1>29. ASSUME Begin PROVE LoadedInv'
  <2>1. UNCHANGED <<folder, capable, uid>>
    BY <1>29 DEF Begin, lifeVars, headerVars
  <2>2. \A u \in Threads : /\ (InUse(u)' => InUse(u))
                           /\ (InCall(u)' /\ Unloading(u)' => then'[u] = "unlock")
    BY <1>29, ThreadsDiffer DEF Begin, Go, LoadedInv, InUse, InCall, Unloading,
       Delivering, ControlInv, ControlTypes, ThreadTypes, Threads
  <2> QED BY <2>1, <2>2 DEF LoadedInv, Alive
<1>30. ASSUME UNCHANGED vars PROVE LoadedInv'
  <2>1. UNCHANGED <<folder, capable, uid>>
    BY <1>30 DEF vars, lifeVars, headerVars
  <2>2. \A u \in Threads : /\ (InUse(u)' => InUse(u))
                           /\ (InCall(u)' /\ Unloading(u)' => then'[u] = "unlock")
    BY <1>30, ThreadsDiffer DEF vars, LoadedInv, InUse, InCall, Unloading, Delivering,
       ControlInv, ControlTypes, ThreadTypes
  <2> QED BY <2>1, <2>2 DEF LoadedInv, Alive
<1>31. ASSUME NEW t \in Threads, LocalSize(t) \/ Measure(t) PROVE LoadedInv'
  <2>1. UNCHANGED <<folder, capable, uid, then, after>>
        /\ pc[t] \in {"size", "measure"} /\ (Go(t, "free") \/ Go(t, "measure"))
    BY <1>31, SizeCases
  <2>2. \A u \in Threads : /\ (InUse(u)' => InUse(u))
                           /\ (InCall(u)' /\ Unloading(u)' => then'[u] = "unlock")
    BY <2>1 DEF Go, LoadedInv, InUse, InCall, Unloading, Delivering, ControlInv,
       ControlTypes, ThreadTypes
  <2> QED BY <2>1, <2>2 DEF LoadedInv, Alive
<1> QED
  BY <1>1, <1>2, <1>3, <1>4, <1>5, <1>6, <1>7, <1>8, <1>9, <1>10, <1>11, <1>12, <1>13,
     <1>14, <1>15, <1>16, <1>17, <1>18, <1>19, <1>20, <1>21, <1>22, <1>23, <1>24, <1>25,
     <1>26, <1>27, <1>28, <1>29, <1>30, <1>31 DEF Next, User, Step

\* Where the size of the folder is read it is loaded: in a request, which does not unload
\* it, and without push e-mail in a call.
ReadInv ==
  /\ InCall(Worker) => ~Unloading(Worker)
  /\ pc[Worker] = "unlock" /\ wanted[Worker] # "none" => folder
  /\ pc[Main] = "measure" /\ ~capable => folder

\* The folder stays as it is, and nobody begins to read but who finds it loaded.
LEMMA ReadFrame ==
  ASSUME ReadInv, UNCHANGED <<folder, capable>>,
         InCall(Worker)' => ~Unloading(Worker)',
         pc'[Worker] = "unlock" /\ wanted'[Worker] # "none"
           => InUse(Worker) \/ (pc[Worker] = "unlock" /\ wanted[Worker] # "none"),
         InUse(Worker) => folder,
         pc'[Main] = "measure" => pc[Main] = "measure" \/ folder
  PROVE  ReadInv'
BY DEF ReadInv

\* A request that counts a reason down besides its own does not count the last one down.
LEMMA RequestIsReason ==
  ASSUME ControlInv, CountedInv, HeaderTypes, ReasonsCounted, InCall(Worker),
         pc[Worker] = "lower" \/ Settling \/ Alive # {}
  PROVE  reason_to_live >= 2
<1>1. OfRequest = 1
  BY DEF InCall, Delivering, Unloading, CountedInv, OfRequest
<1>2. pc[Worker] = "lower" => reasoned # {}
  BY DEF CountedInv
<1>3. Settling => OfSettling = 1
  BY DEF OfSettling
<1> QED BY <1>1, <1>2, <1>3, CountParts DEF ControlInv

\* Every step keeps that the folder is loaded where its size is read.
LEMMA ReadStep ==
  ControlInv /\ CountedInv /\ HeaderTypes /\ OwnInv /\ ReasonsCounted /\ LoadedInv /\ ReadInv
    /\ [Next]_vars
    => ReadInv'
<1> SUFFICES ASSUME ControlInv, CountedInv, HeaderTypes, OwnInv, ReasonsCounted, LoadedInv,
                    ReadInv, [Next]_vars
             PROVE  ReadInv'
  OBVIOUS
<1>0. /\ InUse(Worker) => folder
      /\ pc \in [Threads -> ThreadPc] /\ Main \in Threads /\ Worker \in Threads
      /\ wanted \in [Threads -> Ask \cup {"none"}]
      /\ Main # Worker /\ Worker # Push /\ Main # Push
  BY ThreadsDiffer DEF LoadedInv, ControlInv, ControlTypes, ThreadTypes, Threads
<1>1. ASSUME Open PROVE ReadInv'
  BY <1>0, <1>1, ReadFrame DEF Open, Go, GoesOn, lifeVars, askVars, InUse, ReadInv,
     InCall, Unloading, Delivering, ControlInv, PlacesInv, FreesHeaders
<1>2. ASSUME Close PROVE ReadInv'
  BY <1>0, <1>2, ReadFrame DEF Close, Go, GoesOn, lifeVars, askVars, InUse, ReadInv,
     InCall, Unloading, Delivering, ControlInv, PlacesInv, FreesHeaders
<1>3. ASSUME SetFlag PROVE ReadInv'
  BY <1>0, <1>3, ReadFrame DEF SetFlag, Go, GoesOn, lifeVars, askVars, InUse, ReadInv,
     InCall, Unloading, Delivering, ControlInv, PlacesInv, FreesHeaders
<1>4. ASSUME NEW kind \in Ask, Launch(kind) PROVE ReadInv'
  <2>1. /\ UNCHANGED <<folder, capable, pc, after, then>> /\ request = "none"
    BY <1>4 DEF Launch, lifeVars
  <2>2. pc[Worker] = "free"
    BY <2>1 DEF CountedInv
  <2> QED BY <1>0, <2>1, <2>2 DEF ReadInv, InCall, Unloading, Delivering
<1>5. ASSUME NEW kind \in Ask, Call(kind) PROVE ReadInv'
  BY <1>0, <1>5, ReadFrame DEF Call, Go, GoesOn, lifeVars, askVars, InUse, ReadInv,
     InCall, Unloading, Delivering, ControlInv, PlacesInv, FreesHeaders
<1>6. ASSUME PushEvent PROVE ReadInv'
  BY <1>0, <1>6, ReadFrame DEF PushEvent, Change, Go, GoesOn, lifeVars, askVars, InUse,
     ReadInv, InCall, Unloading, Delivering, ControlInv, PlacesInv, FreesHeaders
<1>7. ASSUME Notify PROVE ReadInv'
  BY <1>0, <1>7, ReadFrame DEF Notify, Go, GoesOn, lifeVars, askVars, InUse, ReadInv,
     InCall, Unloading, Delivering, ControlInv, PlacesInv, FreesHeaders
<1>8. ASSUME Done PROVE ReadInv'
  BY <1>0, <1>8, ReadFrame DEF Done, Go, GoesOn, lifeVars, askVars, InUse, ReadInv,
     InCall, Unloading, Delivering, ControlInv, PlacesInv, FreesHeaders
<1>9. ASSUME NEW t \in Threads, Lock(t) PROVE ReadInv'
  BY <1>0, <1>9, ReadFrame DEF Lock, Go, GoesOn, lifeVars, askVars, InUse, ReadInv,
     InCall, Unloading, Delivering, ControlInv, PlacesInv, FreesHeaders
<1>10. ASSUME NEW t \in Threads, Load(t) PROVE ReadInv'
  <2>1. /\ pc[t] = "load" /\ folder' /\ UNCHANGED <<capable, wanted, after, then>>
        /\ Go(t, "refresh") \/ Go(t, "reason")
    BY <1>10 DEF Load, askVars
  <2> QED BY <1>0, <2>1 DEF Go, ReadInv, InCall, Unloading, Delivering
<1>11. ASSUME NEW t \in Threads, LoadFails(t) PROVE ReadInv'
  BY <1>0, <1>11, ReadFrame DEF LoadFails, Go, GoesOn, lifeVars, askVars, InUse, ReadInv,
     InCall, Unloading, Delivering, ControlInv, PlacesInv, FreesHeaders
<1>12. ASSUME NEW t \in Threads, CountCall(t) PROVE ReadInv'
  BY <1>0, <1>12, ReadFrame DEF CountCall, Go, GoesOn, lifeVars, askVars, InUse, ReadInv,
     InCall, Unloading, Delivering, ControlInv, PlacesInv, FreesHeaders
<1>13. ASSUME NEW t \in Threads, Refresh(t) PROVE ReadInv'
  BY <1>0, <1>13, ReadFrame DEF Refresh, Go, GoesOn, Change, lifeVars, askVars, InUse, ReadInv,
     InCall, Unloading, Delivering, ControlInv, PlacesInv, FreesHeaders
<1>14. ASSUME NEW t \in Threads, Fill(t) PROVE ReadInv'
  BY <1>0, <1>14, ReadFrame DEF Fill, Go, GoesOn, lifeVars, askVars, InUse, ReadInv,
     InCall, Unloading, Delivering, ControlInv, PlacesInv, FreesHeaders
<1>15. ASSUME NEW t \in Threads, Lower(t) PROVE ReadInv'
  <2>1. /\ pc[t] = "lower" /\ UNCHANGED <<capable, after, wanted>>
        /\ \/ Go(t, "uncache") /\ UNCHANGED folder /\ reason_to_live = 1
           \/ Go(t, "unlock") /\ UNCHANGED <<folder, then>>
           \/ Go(t, "unlock") /\ UNCHANGED then /\ reason_to_live = 1
    BY <1>15, UnreasonLast DEF Lower, ControlInv, ControlTypes
  <2>2. InCall(t)
    BY <2>1 DEF InCall, ControlInv, PlacesInv
  <2>3. CASE t = Worker
    <3>1. reason_to_live # 1
      BY <2>1, <2>2, <2>3, RequestIsReason
    <3>2. UNCHANGED <<folder, then>> /\ Go(t, "unlock") /\ InUse(Worker)
      BY <2>1, <2>2, <2>3, <3>1 DEF InUse, Unloading
    <3> QED
      BY <1>0, <2>1, <2>3, <3>2, ReadFrame DEF Go, InCall, Unloading, Delivering
  <2>4. CASE t # Worker
    <3>1. t = Main /\ pc'[Main] # "measure" /\ pc'[Worker] = pc[Worker]
      BY <1>0, <2>1, <2>2, <2>4 DEF InCall, Threads, Go
    <3>2. ~InCall(Worker)
      BY <2>2, <2>4, <1>0, OthersWait
    <3>3. pc[Worker] # "unlock" /\ ~InCall(Worker)'
      BY <1>0, <2>1, <3>1, <3>2, UnreasonLast DEF InCall, Delivering, Unloading, ControlInv,
         PlacesInv, FreesHeaders
    <3> QED BY <3>1, <3>3 DEF ReadInv
  <2> QED BY <2>3, <2>4
<1>16. ASSUME NEW t \in Threads, Unlock(t) PROVE ReadInv'
  BY <1>0, <1>16, ReadFrame DEF Unlock, Go, GoesOn, lifeVars, askVars, InUse, ReadInv,
     InCall, Unloading, Delivering, ControlInv, PlacesInv, FreesHeaders
<1>17. ASSUME NEW t \in Threads, Tell(t) PROVE ReadInv'
  BY <1>0, <1>17, ReadFrame DEF Tell, Go, GoesOn, lifeVars, askVars, InUse, ReadInv,
     InCall, Unloading, Delivering, ControlInv, PlacesInv, FreesHeaders
<1>18. ASSUME NEW t \in Threads, TryLock(t) PROVE ReadInv'
  BY <1>0, <1>18, ReadFrame DEF TryLock, Go, GoesOn, lifeVars, askVars, InUse, ReadInv,
     InCall, Unloading, Delivering, ControlInv, PlacesInv, FreesHeaders
<1>19. ASSUME NEW t \in Threads, Build(t) PROVE ReadInv'
  BY <1>0, <1>19, ReadFrame DEF Build, Go, GoesOn, lifeVars, askVars, InUse, ReadInv,
     InCall, Unloading, Delivering, ControlInv, PlacesInv, FreesHeaders
<1>20. ASSUME NEW t \in Threads, Keep(t) PROVE ReadInv'
  BY <1>0, <1>20, ReadFrame DEF Keep, Go, GoesOn, lifeVars, askVars, InUse, ReadInv,
     InCall, Unloading, Delivering, ControlInv, PlacesInv, FreesHeaders
<1>21. ASSUME NEW t \in Threads, Post(t) PROVE ReadInv'
  BY <1>0, <1>21, ReadFrame DEF Post, Go, GoesOn, lifeVars, askVars, InUse, ReadInv,
     InCall, Unloading, Delivering, ControlInv, PlacesInv, FreesHeaders
<1>22. ASSUME NEW t \in Threads, Drop(t) PROVE ReadInv'
  BY <1>0, <1>22, ReadFrame DEF Drop, Go, GoesOn, lifeVars, askVars, InUse, ReadInv,
     InCall, Unloading, Delivering, ControlInv, PlacesInv, FreesHeaders
<1>23. ASSUME NEW t \in Threads, Restore(t) PROVE ReadInv'
  BY <1>0, <1>23, ReadFrame DEF Restore, Go, GoesOn, lifeVars, askVars, InUse, ReadInv,
     InCall, Unloading, Delivering, ControlInv, PlacesInv, FreesHeaders
<1>24. ASSUME NEW t \in Threads, Finalize(t) PROVE ReadInv'
  <2>1. CASE dropped[t] = {}
    <3>1. UNCHANGED <<folder, capable, wanted, then, after>> /\ pc[t] = "finalize" /\ Go(t, after[t])
      BY <1>24, <2>1 DEF Finalize, lifeVars, askVars
    <3>2. after[t] \in {"restore", "settle", "free"}
      BY <3>1 DEF ControlInv, PlacesInv, FreesHeaders
    <3> QED
      BY <1>0, <3>1, <3>2, ReadFrame DEF Go, ReadInv, InCall, Unloading, Delivering
  <2>2. CASE dropped[t] # {}
    <3>1. Alive # {}
      BY <2>2 DEF OwnInv
    <3>2. /\ pc[t] = "finalize" /\ UNCHANGED <<capable, after, wanted>>
          /\ \/ Go(t, "uncache") /\ then' = [then EXCEPT ![t] = "finalize"] /\ UNCHANGED folder
                /\ reason_to_live = 1
             \/ Go(t, "finalize") /\ UNCHANGED <<folder, then>>
             \/ Go(t, "finalize") /\ UNCHANGED then /\ reason_to_live = 1 /\ ~capable
      BY <1>24, <2>2, UnreasonLast DEF Finalize, ControlInv, ControlTypes, askVars
    <3>3. CASE reason_to_live = 1
      <4>1. ~InCall(Worker)
        BY <3>1, <3>3, RequestIsReason
      <4>2. t # Worker
        BY <1>0, <3>2, <4>1 DEF InCall, Delivering, ControlInv, PlacesInv, FreesHeaders
      <4>3. ~capable => t = Main
        BY <3>2, <4>2, <1>0 DEF Threads, ControlInv, PlacesInv
      <4>4. /\ pc'[Worker] = pc[Worker] /\ ~InCall(Worker)' /\ pc[Worker] # "unlock"
            /\ pc'[Main] = "measure" => pc[Main] = "measure" /\ t # Main
        BY <1>0, <3>2, <4>1, <4>2 DEF Go, InCall, Delivering, Unloading, ControlInv,
           PlacesInv, ControlTypes, ThreadTypes
      <4> QED BY <3>2, <4>3, <4>4 DEF ReadInv
    <3>4. CASE UNCHANGED <<folder, then>> /\ Go(t, "finalize")
      <4>1. UNCHANGED pc
        BY <1>0, <3>2, <3>4 DEF Go
      <4> QED BY <1>0, <3>2, <3>4, <4>1 DEF ReadInv, InCall, Unloading, Delivering
    <3> QED BY <3>2, <3>3, <3>4
  <2> QED BY <2>1, <2>2
<1>25. ASSUME NEW t \in Threads, Uncache(t) PROVE ReadInv'
  <2>1. UNCHANGED <<folder, capable, wanted, after, then>> /\ pc[t] = "uncache"
        /\ (Go(t, "join") \/ Go(t, then[t]))
    BY <1>25 DEF Uncache, lifeVars, askVars
  <2>2. then[t] \in {"finalize", "unlock", "free"}
    BY <2>1 DEF ControlInv, PlacesInv, Unloading
  <2>3. t = Worker => then[t] # "unlock" /\ ~InCall(t)
    BY <1>0, <2>1 DEF ReadInv, InCall, Unloading
  <2>4. t # Worker
    BY <2>1, <2>2, <2>3, <1>0 DEF ControlInv, PlacesInv, Unloading, FreesHeaders, InCall,
       Delivering
  <2> QED
    BY <1>0, <2>1, <2>2, <2>4, ReadFrame DEF Go, ReadInv, InCall, Unloading, Delivering,
       ControlInv, ControlTypes, ThreadTypes
<1>26. ASSUME NEW t \in Threads, Join(t) PROVE ReadInv'
  <2>1. UNCHANGED <<capable, wanted, after, then>> /\ pc[t] = "join" /\ Go(t, then[t])
    BY <1>26 DEF Join, askVars
  <2>2. Unloading(t) /\ Inner(t) /\ capable
    BY <2>1 DEF Unloading, Inner, ControlInv, PlacesInv
  <2>3. t = Worker => then[t] # "unlock" /\ ~InCall(t)
    BY <1>0, <2>2 DEF ReadInv, InCall
  <2>4. t # Worker
    BY <1>0, <2>2, <2>3 DEF ControlInv, PlacesInv, Unloading, FreesHeaders, InCall,
       Delivering
  <2>5. ~InCall(Worker)
    BY <1>0, <2>2, <2>4 DEF ControlInv, LocksInv
  <2>6. pc'[Worker] = pc[Worker] /\ pc[Worker] # "unlock" /\ ~InCall(Worker)'
    BY <1>0, <2>1, <2>4, <2>5 DEF Go, InCall, Delivering, Unloading
  <2> QED BY <2>1, <2>2, <2>6 DEF ReadInv
<1>27. ASSUME Settle PROVE ReadInv'
  <2>1. /\ pc[Main] = "settle" /\ UNCHANGED <<capable, wanted>>
        /\ after' = [after EXCEPT ![Main] = "free"]
        /\ \/ Go(Main, "uncache") /\ then' = [then EXCEPT ![Main] = "free"] /\ UNCHANGED folder
           \/ Go(Main, "free") /\ UNCHANGED <<folder, then>>
           \/ Go(Main, "free") /\ UNCHANGED then /\ reason_to_live = 1
    BY <1>27, UnreasonLast DEF Settle, askVars, ControlInv, ControlTypes
  <2>2. /\ pc'[Worker] = pc[Worker] /\ pc'[Main] # "measure"
        /\ InCall(Worker)' => InCall(Worker) /\ (Unloading(Worker)' => Unloading(Worker))
    BY <1>0, <2>1 DEF Go, InCall, Delivering, Unloading, ControlInv, ControlTypes,
       ThreadTypes
  <2>3. CASE UNCHANGED folder
    BY <2>1, <2>2, <2>3 DEF ReadInv
  <2>4. CASE reason_to_live = 1
    <3>1. Settling
      BY <2>1 DEF Settling
    <3>2. ~InCall(Worker)
      BY <2>4, <3>1, RequestIsReason
    <3>3. pc[Worker] # "unlock"
      BY <1>0, <3>2 DEF InCall
    <3> QED BY <2>2, <3>2, <3>3 DEF ReadInv
  <2> QED BY <2>1, <2>3, <2>4
<1>28. ASSUME FlagSet PROVE ReadInv'
  BY <1>0, <1>28, ReadFrame DEF FlagSet, Go, GoesOn, lifeVars, askVars, InUse, ReadInv,
     InCall, Unloading, Delivering, ControlInv, PlacesInv, FreesHeaders
<1>29. ASSUME Begin PROVE ReadInv'
  BY <1>0, <1>29, ReadFrame DEF Begin, Go, GoesOn, lifeVars, askVars, InUse, ReadInv,
     InCall, Unloading, Delivering, ControlInv, PlacesInv, FreesHeaders
<1>30. ASSUME UNCHANGED vars PROVE ReadInv'
  BY <1>0, <1>30, ReadFrame DEF vars, Go, GoesOn, lifeVars, askVars, InUse, ReadInv,
     InCall, Unloading, Delivering, ControlInv, PlacesInv, FreesHeaders
<1>31. ASSUME NEW t \in Threads, LocalSize(t) \/ Measure(t) PROVE ReadInv'
  <2>1. UNCHANGED <<folder, capable, then, after>> /\ pc[t] \in {"size", "measure"}
        /\ (Go(t, "free") \/ (Go(t, "measure") /\ folder))
    BY <1>31, SizeCases
  <2>2. t = Main
    BY <1>0, <2>1 DEF ControlInv, PlacesInv, CountedInv, Threads
  <2> QED
    BY <1>0, <1>31, <2>1, <2>2, SizeCases, ReadFrame DEF Go, ReadInv, InCall, Unloading,
       Delivering
<1> QED
  BY <1>1, <1>2, <1>3, <1>4, <1>5, <1>6, <1>7, <1>8, <1>9, <1>10, <1>11, <1>12, <1>13,
     <1>14, <1>15, <1>16, <1>17, <1>18, <1>19, <1>20, <1>21, <1>22, <1>23, <1>24, <1>25,
     <1>26, <1>27, <1>28, <1>29, <1>30, <1>31 DEF Next, User, Step

\* Nothing that the unloading depends on changes.
LEMMA RestFrame ==
  ASSUME RestInv, UNCHANGED <<folder, capable, reason_to_live>>,
         \A t \in Threads : pc[t] = "reason" => pc'[t] = "reason"
  PROVE  RestInv'
BY DEF RestInv

\* There is a reason.
LEMMA RestUp ==
  ASSUME reason_to_live' # 0
  PROVE  RestInv'
BY DEF RestInv

\* While an event is delivered and the folder is kept, it has a reason besides what is
\* being counted down by others.
LEMMA KeptIsReason ==
  ASSUME ControlInv, CountedInv, DeliveryInv, HeaderTypes, ReasonsCounted, ~capable, dont_fkill
  PROVE  /\ \E t \in Threads : InCall(t) /\ Keeping(t)
         /\ Settling \/ Alive # {} => reason_to_live >= 2
<1>1. PICK t \in Threads : Keeping(t)
  BY DEF DeliveryInv
<1>2. pc[Push] = "free"
  BY DEF ControlInv, PlacesInv
<1>3. InCall(t)
  BY <1>1, <1>2 DEF Keeping, Delivering, InCall
<1>4. Counting(t)
  BY <1>1 DEF Keeping, Counting
<1> QED BY <1>1, <1>3, <1>4, CallIsReason

\* The last reason is counted down.
LEMMA RestDown ==
  ASSUME ControlInv, CountedInv, DeliveryInv, HeaderTypes, ReasonsCounted, NEW t, NEW to,
         Unreason(t, to), RestInv, UNCHANGED capable,
         \A u \in Threads : InCall(u) /\ Keeping(u) => reason_to_live # 1
  PROVE  RestInv'
<1>1. reason_to_live' = reason_to_live - 1 /\ reason_to_live \in Nat
  BY CountParts, UnreasonLast DEF ControlInv, ControlTypes
<1>2. CASE reason_to_live # 1
  BY <1>1, <1>2, RestUp
<1>3. CASE reason_to_live = 1 /\ (~folder \/ capable) /\ UNCHANGED folder
  BY <1>3 DEF RestInv
<1>4. CASE reason_to_live = 1 /\ ~capable /\ folder' = dont_fkill
  <2>1. ~dont_fkill
    BY <1>4, KeptIsReason
  <2> QED BY <1>4, <2>1 DEF RestInv
<1> QED BY <1>2, <1>3, <1>4, UnreasonLast DEF ControlInv, ControlTypes

\* Every step keeps that a folder without a reason is not loaded, or is about to have one.
LEMMA RestStep ==
  ControlInv /\ CountedInv /\ AskingInv /\ DeliveryInv /\ MailTypes /\ HeaderTypes
    /\ RoomInv /\ ChangesInv /\ OwnInv /\ ReasonsCounted /\ LoadedInv /\ RestInv
    /\ [Next]_vars
    => RestInv'
<1> SUFFICES ASSUME ControlInv, CountedInv, AskingInv, DeliveryInv, MailTypes, HeaderTypes,
                    RoomInv, ChangesInv, OwnInv, ReasonsCounted, LoadedInv, RestInv,
                    [Next]_vars
             PROVE  RestInv'
  OBVIOUS
<1>1. ASSUME Open PROVE RestInv'
  BY <1>1, RestFrame DEF Open, lifeVars, ControlInv, ControlTypes, ThreadTypes
<1>2. ASSUME Close PROVE RestInv'
  BY <1>2, RestFrame DEF Close, Go, lifeVars, ControlInv, ControlTypes, ThreadTypes
<1>3. ASSUME SetFlag PROVE RestInv'
  BY <1>3, RestFrame DEF SetFlag, Go, lifeVars, ControlInv, ControlTypes, ThreadTypes
<1>4. ASSUME NEW kind \in Ask, Launch(kind) PROVE RestInv'
  <2>1. reason_to_live' = reason_to_live + 1
    BY <1>4, ReasonIs DEF Launch, ControlInv, ControlTypes
  <2> QED BY <2>1, CountParts, RestUp DEF ControlInv
<1>5. ASSUME NEW kind \in Ask, Call(kind) PROVE RestInv'
  BY <1>5, RestFrame DEF Call, Go, lifeVars, ControlInv, ControlTypes, ThreadTypes
<1>6. ASSUME PushEvent PROVE RestInv'
  BY <1>6, RestFrame DEF PushEvent, Change, Go, lifeVars, ControlInv, ControlTypes,
     ThreadTypes
<1>7. ASSUME Notify PROVE RestInv'
  BY <1>7, RestFrame DEF Notify, Go, lifeVars, ControlInv, ControlTypes, ThreadTypes
<1>8. ASSUME Done PROVE RestInv'
  BY <1>8, RestFrame DEF Done, Go, lifeVars, ControlInv, ControlTypes, ThreadTypes
<1>9. ASSUME NEW t \in Threads, Lock(t) PROVE RestInv'
  BY <1>9, RestFrame DEF Lock, Go, lifeVars, ControlInv, ControlTypes, ThreadTypes
<1>10. ASSUME NEW t \in Threads, Load(t) PROVE RestInv'
  <2>1. UNCHANGED <<capable, reason_to_live>> /\ pc[t] = "load"
    BY <1>10 DEF Load
  <2>2. CASE t = Worker
    <3>1. InCall(t)
      BY <2>1, <2>2, ThreadsDiffer DEF InCall
    <3> QED BY <2>1, <2>2, <3>1, CallIsReason, RestUp
  <2>3. CASE t # Worker
    BY <1>10, <2>3 DEF Load, Go, RestInv, ControlInv, ControlTypes, ThreadTypes
  <2> QED BY <2>2, <2>3
<1>11. ASSUME NEW t \in Threads, LoadFails(t) PROVE RestInv'
  BY <1>11, RestFrame DEF LoadFails, Go, lifeVars, ControlInv, ControlTypes, ThreadTypes
<1>12. ASSUME NEW t \in Threads, CountCall(t) PROVE RestInv'
  <2>1. reason_to_live' = reason_to_live + 1
    BY <1>12, ReasonIs DEF CountCall, ControlInv, ControlTypes
  <2> QED BY <2>1, CountParts, RestUp DEF ControlInv
<1>13. ASSUME NEW t \in Threads, Refresh(t) PROVE RestInv'
  BY <1>13, RestFrame DEF Refresh, Go, GoesOn, Change, lifeVars, ControlInv, ControlTypes,
     ThreadTypes
<1>14. ASSUME NEW t \in Threads, Fill(t) PROVE RestInv'
  <2>1. view = "asked"
    BY <1>14 DEF Fill, CountedInv, AskingInv, Asking, Threads, ControlInv, PlacesInv
  <2>2. PICK g \in [Filling -> Headers \ Alive] :
          /\ Filling \in SUBSET Uids /\ \A u, v \in Filling : u # v => g[u] # g[v]
          /\ uid' = Born(g) /\ reason_to_live' = reason_to_live + Cardinality(Range(g))
    BY <1>14, <2>1, FillFacts DEF ControlInv, ControlTypes
  <2>3. Cardinality(Range(g)) \in Nat
    BY <2>2, BornFacts, BornCount DEF HeaderTypes
  <2>4. InCall(t) /\ Counting(t)
    BY <1>14 DEF Fill, InCall, Counting, ControlInv, PlacesInv
  <2> QED BY <2>2, <2>3, <2>4, CallIsReason, CountParts, RestUp DEF ControlInv
<1>15. ASSUME NEW t \in Threads, Lower(t) PROVE RestInv'
  <2>1. Unreason(t, "unlock") /\ pc[t] = "lower" /\ UNCHANGED capable
    BY <1>15 DEF Lower, Unreason
  <2>2. InCall(t) /\ ~Keeping(t)
    BY <2>1 DEF InCall, Keeping, Delivering, ControlInv, PlacesInv
  <2>3. \A u \in Threads : ~(InCall(u) /\ Keeping(u))
    BY <2>2, OthersWait
  <2> QED BY <2>1, <2>3, RestDown
<1>16. ASSUME NEW t \in Threads, Unlock(t) PROVE RestInv'
  BY <1>16, RestFrame DEF Unlock, Go, lifeVars, ControlInv, ControlTypes, ThreadTypes
<1>17. ASSUME NEW t \in Threads, Tell(t) PROVE RestInv'
  BY <1>17, RestFrame DEF Tell, Go, GoesOn, lifeVars, ControlInv, ControlTypes, ThreadTypes
<1>18. ASSUME NEW t \in Threads, TryLock(t) PROVE RestInv'
  BY <1>18, RestFrame DEF TryLock, Go, GoesOn, lifeVars, ControlInv, ControlTypes,
     ThreadTypes
<1>19. ASSUME NEW t \in Threads, Build(t) PROVE RestInv'
  <2> DEFINE us == NewUids(t) \cup event[t].removed
  <2>1. PICK k \in FreeChanges, a \in [us -> Headers \ Alive] :
          /\ \A u, v \in us : u # v => a[u] # a[v]
          /\ uid' = Born(a) /\ reason_to_live' = reason_to_live + Cardinality(Range(a))
    BY <1>19, BuildFacts DEF ControlInv, ControlTypes
  <2>2. us \in SUBSET Uids
    BY DEF MailTypes, NewUids
  <2> HIDE DEF us
  <2>3. Cardinality(Range(a)) \in Nat
    BY <2>1, <2>2, BornFacts, BornCount DEF HeaderTypes
  <2>4. UNCHANGED capable /\ pc[t] = "build"
    BY <1>19 DEF Build, lifeVars
  <2>5. CASE capable
    BY <2>4, <2>5 DEF RestInv
  <2>6. CASE ~capable
    <3>1. InCall(t) /\ Counting(t)
      BY <2>4, <2>6 DEF InCall, Counting, Delivering, ControlInv, PlacesInv
    <3> QED BY <2>1, <2>3, <3>1, CallIsReason, CountParts, RestUp DEF ControlInv
  <2> QED BY <2>5, <2>6
<1>20. ASSUME NEW t \in Threads, Keep(t) PROVE RestInv'
  BY <1>20, RestFrame DEF Keep, Go, ControlInv, ControlTypes, ThreadTypes
<1>21. ASSUME NEW t \in Threads, Post(t) PROVE RestInv'
  <2>1. reason_to_live' = reason_to_live + 1
    BY <1>21, ReasonIs DEF Post, Notice, ControlInv, ControlTypes
  <2> QED BY <2>1, CountParts, RestUp DEF ControlInv
<1>22. ASSUME NEW t \in Threads, Drop(t) PROVE RestInv'
  BY <1>22, RestFrame DEF Drop, Go, lifeVars, ControlInv, ControlTypes, ThreadTypes
<1>23. ASSUME NEW t \in Threads, Restore(t) PROVE RestInv'
  BY <1>23, RestFrame DEF Restore, Go, GoesOn, ControlInv, ControlTypes, ThreadTypes
<1>24. ASSUME NEW t \in Threads, Finalize(t) PROVE RestInv'
  <2>1. CASE dropped[t] = {}
    BY <1>24, <2>1, RestFrame DEF Finalize, Go, lifeVars, ControlInv, ControlTypes,
       ThreadTypes
  <2>2. CASE dropped[t] # {}
    <3>1. Unreason(t, "finalize")
      BY <1>24, <2>2 DEF Finalize
    <3>2. Alive # {}
      BY <2>2 DEF OwnInv
    <3>3. \A u \in Threads : InCall(u) /\ Keeping(u) => reason_to_live # 1
      BY <3>2, CallIsReason DEF Counting, Keeping
    <3>4. UNCHANGED capable
      BY <3>1 DEF Unreason
    <3> QED BY <3>1, <3>3, <3>4, RestDown
  <2> QED BY <2>1, <2>2
<1>25. ASSUME NEW t \in Threads, Uncache(t) PROVE RestInv'
  BY <1>25, RestFrame DEF Uncache, Go, lifeVars, ControlInv, ControlTypes, ThreadTypes
<1>26. ASSUME NEW t \in Threads, Join(t) PROVE RestInv'
  <2>1. capable /\ UNCHANGED capable
    BY <1>26 DEF Join, ControlInv, PlacesInv, Unloading
  <2> QED BY <2>1 DEF RestInv
<1>27. ASSUME Settle PROVE RestInv'
  <2>1. Unreason(Main, "free") /\ Settling /\ UNCHANGED capable
    BY <1>27 DEF Settle, Settling, Unreason
  <2>2. \A u \in Threads : InCall(u) /\ Keeping(u) => reason_to_live # 1
    BY <2>1, CallIsReason DEF Counting, Keeping
  <2> QED BY <2>1, <2>2, RestDown
<1>28. ASSUME FlagSet PROVE RestInv'
  <2>1. reason_to_live' = reason_to_live + 1
    BY <1>28, ReasonIs DEF FlagSet, Notice, ControlInv, ControlTypes
  <2> QED BY <2>1, CountParts, RestUp DEF ControlInv
<1>29. ASSUME Begin PROVE RestInv'
  BY <1>29, RestFrame DEF Begin, Go, lifeVars, ControlInv, ControlTypes, ThreadTypes
<1>30. ASSUME UNCHANGED vars PROVE RestInv'
  BY <1>30, RestFrame DEF vars, lifeVars
<1>31. ASSUME NEW t \in Threads, LocalSize(t) \/ Measure(t) PROVE RestInv'
  <2>1. CASE Notice(Nothing)
    <3>1. reason_to_live' = reason_to_live + 1
      BY <2>1, ReasonIs DEF Notice, ControlInv, ControlTypes
    <3> QED BY <3>1, CountParts, RestUp DEF ControlInv
  <2>2. CASE UNCHANGED reason_to_live
    BY <1>31, <2>2, SizeCases, RestFrame DEF Go, ControlInv, ControlTypes, ThreadTypes
  <2> QED BY <1>31, <2>1, <2>2, SizeCases
<1> QED
  BY <1>1, <1>2, <1>3, <1>4, <1>5, <1>6, <1>7, <1>8, <1>9, <1>10, <1>11, <1>12, <1>13,
     <1>14, <1>15, <1>16, <1>17, <1>18, <1>19, <1>20, <1>21, <1>22, <1>23, <1>24, <1>25,
     <1>26, <1>27, <1>28, <1>29, <1>30, <1>31 DEF Next, User, Step

----------------------------------------------------------------------------
(* The inductive invariant, and the theorems that follow from it.           *)

\* All of the above.
FolderInv ==
  /\ ControlInv /\ CountedInv /\ AskingInv /\ DeliveryInv
  /\ MailTypes /\ HeaderTypes /\ RoomInv /\ ChangesInv
  /\ OwnInv /\ ReasonsCounted /\ LoadedInv /\ ReadInv /\ RestInv

\* It holds in the beginning.
LEMMA FolderInit ==
  ASSUME ~LostUpdates
  PROVE  Init => FolderInv
<1> SUFFICES ASSUME Init PROVE FolderInv
  OBVIOUS
<1>1. ControlInv
  <2>1. LifeTypes /\ LockTypes
    <3>1. LifeTypes
      <4>1. /\ folder \in BOOLEAN /\ capable \in BOOLEAN /\ push \in BOOLEAN
            /\ dont_fkill \in BOOLEAN /\ handle_changes \in BOOLEAN
        BY Zenon DEF Init
      <4>2. reason_to_live \in Int /\ old \in [Threads -> BOOLEAN]
        BY DEF Init
      <4> QED BY <4>1, <4>2 DEF LifeTypes
    <3>2. LockTypes
      BY DEF Init, LockTypes
    <3> QED BY <3>1, <3>2
  <2>2. ThreadTypes
    BY DEF Init, ThreadTypes, ThreadPc
  <2>3. \A t \in Threads : pc[t] = "free" /\ after[t] = "free"
    BY DEF Init
  <2>4. \A t \in Threads : ~Unloading(t) /\ ~Delivering(t) /\ ~FreesHeaders(t)
    BY <2>3 DEF Unloading, Delivering, FreesHeaders
  <2>5. LocksInv
    BY <2>3, <2>4, FolderAssumption DEF Init, LocksInv, InCall, Inner
  <2>6. PlacesInv
    BY <2>3, <2>4 DEF PlacesInv, Threads
  <2> QED BY <2>1, <2>2, <2>5, <2>6 DEF ControlInv, ControlTypes
<1>2. CountedInv /\ AskingInv /\ DeliveryInv
  BY ThreadsDiffer DEF Init, CountedInv, Counting, AskingInv, Asking, DeliveryInv, Keeping,
     Delivering, Threads
<1>3. MailTypes
  BY DEF Init, MailTypes, NoEvent
<1>4. HeaderTypes
  BY DEF Init, HeaderTypes
<1>5. Alive = {}
  BY DEF Init, Alive
<1>6. RoomInv
  <2>1. Main \in Threads /\ Worker \in Threads /\ Push \in Threads
    BY DEF Threads
  <2>2. Reserved = 0
    BY <2>1, SizeFacts DEF Init, Reserved
  <2> QED BY <2>2, AliveCount DEF RoomInv, Enough
<1>7. Posted = {} /\ Len(pending) = 0
  BY DEF Init, Posted, Range
<1>8. ChangesInv
  BY <1>7 DEF Init, ChangesInv
<1>9. \A k \in Changes : ~Live(k)
  BY <1>7, ThreadsDiffer DEF Init, Live
<1>10. OwnInv
  <2>1. Held = {}
    BY <1>9 DEF Init, Held
  <2> QED BY <1>5, <1>9, <2>1 DEF Init, OwnInv
<1>11. ReasonsCounted
  <2>1. ~Settling /\ reasoned = {} /\ request = "none" /\ reason_to_live = 0
    BY DEF Init, Settling, Threads
  <2>2. Cardinality(Alive) = 0 /\ Cardinality(reasoned) = 0
    BY <1>5, <2>1, FS_EmptySet
  <2> QED BY <1>7, <2>1, <2>2 DEF ReasonsCounted
<1>12. LoadedInv /\ ReadInv /\ RestInv
  BY <1>5 DEF Init, LoadedInv, ReadInv, RestInv, InUse, InCall, Unloading, Delivering, Threads
<1> QED BY <1>1, <1>2, <1>3, <1>4, <1>6, <1>8, <1>10, <1>11, <1>12 DEF FolderInv

\* Every step keeps it.
LEMMA FolderNext == FolderInv /\ [Next]_vars => FolderInv'
<1> SUFFICES ASSUME FolderInv, [Next]_vars PROVE FolderInv'
  OBVIOUS
<1>1. /\ ControlInv /\ ControlTypes /\ LocksInv /\ PlacesInv /\ CountedInv /\ AskingInv
      /\ DeliveryInv /\ MailTypes /\ HeaderTypes /\ RoomInv /\ ChangesInv /\ OwnInv
      /\ ReasonsCounted /\ LoadedInv /\ ReadInv /\ RestInv
  BY DEF FolderInv, ControlInv
<1>2. ControlInv'
  BY <1>1, ControlTypesStep, LocksInvStep, PlacesInvStep DEF ControlInv
<1>3. CountedInv' /\ AskingInv' /\ DeliveryInv'
  BY <1>1, CountedStep, AskingStep, DeliveryStep
<1>4. MailTypes' /\ HeaderTypes' /\ RoomInv' /\ ChangesInv'
  BY <1>1, MailTypesStep, HeaderTypesStep, RoomStep, ChangesStep
<1>5. OwnInv' /\ ReasonsCounted'
  BY <1>1, OwnStep, ReasonsStep
<1>6. LoadedInv' /\ ReadInv' /\ RestInv'
  BY <1>1, LoadedStep, ReadStep, RestStep
<1> QED BY <1>2, <1>3, <1>4, <1>5, <1>6 DEF FolderInv

\* It holds at all times.
LEMMA FolderInvariant ==
  ASSUME ~LostUpdates
  PROVE  Spec => []FolderInv
<1>1. Init => FolderInv
  BY FolderInit
<1> QED BY <1>1, FolderNext, PTL DEF Spec

\* Unless an update of reason_to_live is lost, every variable keeps its type; that count
\* and how often folder_lock is held do not fall below zero.
THEOREM FolderTypes ==
  ASSUME ~LostUpdates
  PROVE  Spec => []TypeOK
<1>1. FolderInv => TypeOK
  <2> SUFFICES ASSUME FolderInv PROVE TypeOK
    OBVIOUS
  <2>1. ControlTypes /\ LocksInv /\ MailTypes /\ HeaderTypes /\ ReasonsCounted
    BY DEF FolderInv, ControlInv
  <2>2. reason_to_live \in Nat
    BY <2>1, CountParts
  <2>3. depth \in Nat
    <3>1. CASE folder_lock = Nothing
      BY <2>1, <3>1 DEF LocksInv
    <3>2. CASE folder_lock \in Threads
      BY <2>1, <3>2 DEF LocksInv, Holds
    <3> QED BY <2>1, <3>1, <3>2 DEF ControlTypes, LockTypes
  <2>4. Range(pending) \subseteq Changes \cup {Nothing}
    BY <2>1 DEF HeaderTypes, Range
  <2>5. /\ {folder, capable, push, dont_fkill, handle_changes, missed} \subseteq BOOLEAN
        /\ old \in [Threads -> BOOLEAN]
    BY <2>1 DEF ControlTypes, LifeTypes, MailTypes
  <2>6. /\ {reason_lock, folder_lock} \subseteq Threads \cup {Nothing}
        /\ request \in {"none", "queued", "running", "done"}
        /\ wanted \in [Threads -> Ask \cup {"none"}] /\ reasoned \subseteq Threads
        /\ {pc, after, then} \subseteq [Threads -> ThreadPc]
    BY <2>1 DEF ControlTypes, LockTypes, ThreadTypes
  <2> QED BY <2>1, <2>2, <2>3, <2>4, <2>5, <2>6 DEF TypeOK, MailTypes, HeaderTypes
<1>2. Spec => []FolderInv
  BY FolderInvariant
<1> QED BY <1>1, <1>2, PTL

\* _tny_camel_folder_reason and _unreason are called in pairs: reason_to_live counts every
\* header, posted change, request and call once.  This is about who calls them when; that
\* the increment of one thread, which has no lock, and the decrement of another do not
\* come at once is assumed, and if they may it is false.
THEOREM FolderReasons ==
  ASSUME ~LostUpdates
  PROVE  Spec => []ReasonsCounted
<1>1. FolderInv => ReasonsCounted
  BY DEF FolderInv
<1>2. Spec => []FolderInv
  BY FolderInvariant
<1> QED BY <1>1, <1>2, PTL

\* Where refresh_info, folder_changed, add_message_with_uid and what reads the counts use
\* the CamelFolder it is loaded, and where reset_local_size uses it too, but for a call's
\* with push e-mail: it has no lock and no reason.  No update of the count is lost.
THEOREM FolderInUse ==
  ASSUME ~LostUpdates
  PROVE  Spec => []InUseLoaded
<1>1. FolderInv => InUseLoaded
  <2> SUFFICES ASSUME FolderInv, NEW t \in Threads,
                      \/ pc[t] \in {"reason", "refresh", "build", "fill", "lower"}
                      \/ t = Worker /\ pc[t] = "unlock" /\ wanted[t] # "none"
                      \/ pc[t] = "measure" /\ ~capable
               PROVE  folder
    BY DEF InUseLoaded
  <2>1. CASE pc[t] \in {"reason", "refresh", "build", "fill", "lower"}
    <3>1. InUse(t)
      BY <2>1 DEF FolderInv, ControlInv, PlacesInv, InUse, InCall, Unloading
    <3> QED BY <3>1 DEF FolderInv, LoadedInv
  <2>2. CASE t = Worker /\ pc[t] = "unlock" /\ wanted[t] # "none"
    BY <2>2 DEF FolderInv, ReadInv
  <2>3. CASE pc[t] = "measure" /\ ~capable
    <3>1. t = Main
      BY <2>3 DEF FolderInv, ControlInv, PlacesInv
    <3> QED BY <2>3, <3>1 DEF FolderInv, ReadInv
  <2> QED BY <2>1, <2>2, <2>3
<1>2. Spec => []FolderInv
  BY FolderInvariant
<1> QED BY <1>1, <1>2, PTL

\* Without push e-mail no header that the application or a change has outlives its folder,
\* unless an update of reason_to_live is lost.
THEOREM FolderBacked ==
  ASSUME ~LostUpdates
  PROVE  Spec => []HeadersBacked
<1>1. FolderInv => HeadersBacked
  BY DEF FolderInv, LoadedInv, OwnInv, HeadersBacked
<1>2. Spec => []FolderInv
  BY FolderInvariant
<1> QED BY <1>1, <1>2, PTL

\* Without push e-mail a folder without reasons to live is unloaded once all threads rest,
\* unless an update of reason_to_live is lost.
THEOREM FolderAtRest ==
  ASSUME ~LostUpdates
  PROVE  Spec => []UnloadedAtRest
<1>1. FolderInv => UnloadedAtRest
  BY DEF FolderInv, RestInv, UnloadedAtRest, Idle
<1>2. Spec => []FolderInv
  BY FolderInvariant
<1> QED BY <1>1, <1>2, PTL

----------------------------------------------------------------------------
(* What the list shows, and what is on its way to it.                      *)

\* A change is on its way until the main loop takes it.
Maker(t)    == pc[t] \in {"keep", "post"}
Incoming(k) == k \in Posted \/ \E t \in Threads : Maker(t) /\ change[t] = k

\* The uids that a change brings and takes, and that are on their way at all.
AddUids(k) == IF k = Nothing THEN {} ELSE {uid[h] : h \in added[k]}
DelUids(k) == IF k = Nothing THEN {} ELSE {uid[h] : h \in expunged[k]}
AddComing(u) == \/ \E k \in Changes : Incoming(k) /\ u \in AddUids(k)
                \/ \E t \in Threads : u \in event[t].added
DelComing(u) == \/ \E k \in Changes : Incoming(k) /\ u \in DelUids(k)
                \/ \E t \in Threads : u \in event[t].removed

\* What is shown or on its way has been in the folder, what is taken is not any more.
KnownInv ==
  /\ Shown \subseteq known /\ (view = "closed" => list = {})
  /\ \A k \in Changes : Incoming(k) => AddUids(k) \subseteq known /\ DelUids(k) \subseteq known \ content
  /\ \A t \in Threads : /\ event[t].added \subseteq content
                        /\ event[t].removed \subseteq known \ content

\* Nothing brings what something before it has taken.
OrderInv ==
  \A i \in 1..Len(pending) :
    /\ \A j \in 1..Len(pending) : i < j => DelUids(pending[i]) \cap AddUids(pending[j]) = {}
    /\ \A t \in Threads : /\ Maker(t) => DelUids(pending[i]) \cap AddUids(change[t]) = {}
                          /\ DelUids(pending[i]) \cap event[t].added = {}

\* While no event was missed: what is shown or comes, and is not taken, is in the
\* folder; and what is in the folder is shown or comes, once the list is filled.
ComesInv ==
  ~missed =>
    /\ \A u \in Uids : (u \in Shown \/ AddComing(u)) /\ ~DelComing(u) => u \in content
    /\ view = "filled" => \A u \in content : u \in Shown \/ AddComing(u)

ListInv == KnownInv /\ OrderInv /\ ComesInv

\* What is on its way is live.
LEMMA IncomingLive ==
  \A k : Incoming(k) => Live(k)
BY DEF Incoming, Live

\* The uids of what is held stay.
LEMMA UidsKept ==
  ASSUME UNCHANGED <<added, expunged>>, \A h \in Held : uid'[h] = uid[h]
  PROVE  /\ \A k \in Changes : Live(k) => /\ AddUids(k)' = AddUids(k)
                                          /\ DelUids(k)' = DelUids(k)
         /\ AddUids(Nothing)' = {} /\ DelUids(Nothing)' = {}
         /\ AddUids(Nothing) = {} /\ DelUids(Nothing) = {}
         /\ {uid'[h] : h \in list} = Shown
<1>1. \A k \in Changes : Live(k) /\ k # Nothing =>
        \A h \in added[k] \cup expunged[k] : uid'[h] = uid[h]
  BY HeldFacts DEF HeadersOf
<1>2. \A h \in list : uid'[h] = uid[h]
  BY HeldFacts
<1>3. {uid'[h] : h \in list} = Shown
  BY <1>2 DEF Shown
<1>4. ASSUME NEW k \in Changes, Live(k) PROVE AddUids(k)' = AddUids(k) /\ DelUids(k)' = DelUids(k)
  <2>1. CASE k = Nothing
    BY <2>1 DEF AddUids, DelUids
  <2>2. CASE k # Nothing
    <3>1. \A h \in added[k] : uid'[h] = uid[h]
      BY <1>1, <1>4, <2>2
    <3>2. \A h \in expunged[k] : uid'[h] = uid[h]
      BY <1>1, <1>4, <2>2
    <3>3. {uid'[h] : h \in added[k]} = {uid[h] : h \in added[k]}
      BY <3>1
    <3>4. {uid'[h] : h \in expunged[k]} = {uid[h] : h \in expunged[k]}
      BY <3>2
    <3> QED BY <2>2, <3>3, <3>4 DEF AddUids, DelUids
  <2> QED BY <2>1, <2>2
<1> QED BY <1>3, <1>4 DEF AddUids, DelUids

\* Nothing that the list or what comes depends on changes.
LEMMA ListFrame ==
  ASSUME HeaderTypes, ListInv,
         UNCHANGED <<list, added, expunged, pending, content, known, event, missed>>,
         \A h \in Held : uid'[h] = uid[h], view' = "filled" => view = "filled",
         view' = "closed" => view = "closed",
         \A t \in Threads : (Maker(t)' <=> Maker(t)) /\ (Maker(t) => change'[t] = change[t])
  PROVE  ListInv'
<1>1. Posted' = Posted
  BY DEF Posted
<1>2. \A k : Incoming(k)' <=> Incoming(k)
  BY <1>1 DEF Incoming
<1>3. \A k \in Changes : Live(k) => AddUids(k)' = AddUids(k) /\ DelUids(k)' = DelUids(k)
  BY UidsKept
<1>4. Shown' = Shown
  BY UidsKept DEF Shown
<1>5. \A k \in Changes : Incoming(k) => AddUids(k)' = AddUids(k) /\ DelUids(k)' = DelUids(k)
  BY <1>3, IncomingLive
<1>6. \A u : (AddComing(u)' <=> AddComing(u)) /\ (DelComing(u)' <=> DelComing(u))
  BY <1>2, <1>5 DEF AddComing, DelComing
<1>7. KnownInv'
  BY <1>2, <1>4, <1>5 DEF ListInv, KnownInv
<1>8. OrderInv'
  <2>1. \A i \in 1..Len(pending) : /\ AddUids(pending[i])' = AddUids(pending[i])
                                   /\ DelUids(pending[i])' = DelUids(pending[i])
    <3> SUFFICES ASSUME NEW i \in 1..Len(pending)
                 PROVE  /\ AddUids(pending[i])' = AddUids(pending[i])
                        /\ DelUids(pending[i])' = DelUids(pending[i])
      OBVIOUS
    <3>1. PICK k \in Changes \cup {Nothing} : k = pending[i]
      BY DEF HeaderTypes
    <3>2. k \in Posted
      BY <3>1 DEF Posted, Range, HeaderTypes
    <3>3. AddUids(k)' = AddUids(k) /\ DelUids(k)' = DelUids(k)
      BY <1>5, <3>2, UidsKept DEF Incoming
    <3> QED BY <3>1, <3>3 DEF AddUids, DelUids
  <2>2. \A t \in Threads : Maker(t) => AddUids(change[t])' = AddUids(change[t])
    <3> SUFFICES ASSUME NEW t \in Threads, Maker(t)
                 PROVE  AddUids(change[t])' = AddUids(change[t])
      OBVIOUS
    <3>1. PICK k \in Changes \cup {Nothing} : k = change[t]
      BY DEF HeaderTypes
    <3>2. AddUids(k)' = AddUids(k)
      BY <1>5, <3>1, UidsKept DEF Incoming
    <3>3. change'[t] = change[t]
      OBVIOUS
    <3> QED BY <3>1, <3>2, <3>3 DEF AddUids
  <2> QED BY <2>1, <2>2 DEF ListInv, OrderInv
<1>9. ComesInv'
  BY <1>4, <1>6 DEF ListInv, ComesInv
<1> QED BY <1>7, <1>8, <1>9 DEF ListInv

\* Where no header changes its uid and no change its headers.
LEMMA UidsSame ==
  ASSUME UNCHANGED <<uid, added, expunged>>
  PROVE  \A k : AddUids(k)' = AddUids(k) /\ DelUids(k)' = DelUids(k)
BY DEF AddUids, DelUids

\* What is posted is at a place of the queue.
LEMMA PostedIs ==
  ASSUME HeaderTypes
  PROVE  /\ \A i \in 1..Len(pending) : pending[i] \in Posted /\ pending[i] \in Changes \cup {Nothing}
         /\ \A k \in Posted : \E i \in 1..Len(pending) : k = pending[i]
         /\ Len(pending) \in Nat
BY DEF HeaderTypes, Posted, Range

\* The uids that a posted change takes are known and not in the folder.
LEMMA TakenGone ==
  ASSUME HeaderTypes, KnownInv
  PROVE  \A i \in 1..Len(pending) : DelUids(pending[i]) \subseteq known \ content
<1> SUFFICES ASSUME NEW i \in 1..Len(pending) PROVE DelUids(pending[i]) \subseteq known \ content
  OBVIOUS
<1>1. PICK k \in Changes \cup {Nothing} : k = pending[i] /\ k \in Posted
  BY PostedIs
<1>2. CASE k = Nothing
  BY <1>1, <1>2 DEF DelUids
<1>3. CASE k # Nothing
  BY <1>1, <1>3 DEF KnownInv, Incoming
<1> QED BY <1>2, <1>3

\* Before an event comes nothing is on its way but what is posted.
LEMMA QuietFacts ==
  ASSUME ChangesInv, \A u \in Threads : ~Delivering(u)
  PROVE  /\ \A u \in Threads : event[u] = NoEvent /\ ~Maker(u)
         /\ \A k : Incoming(k) <=> k \in Posted
BY DEF ChangesInv, Delivering, Maker, Incoming

\* An event comes.
LEMMA ListChange ==
  ASSUME MailTypes, HeaderTypes, ChangesInv, ListInv, NEW t \in Threads, Change(t),
         ControlTypes, \A u \in Threads : ~Delivering(u),
         UNCHANGED <<list, uid, added, expunged, pending, view, change, missed>>
  PROVE  ListInv'
<1>1. PICK e \in Event :
        /\ e.added \in SUBSET (Uids \ known) /\ e.removed \in SUBSET content
        /\ content' = (content \ e.removed) \cup e.added /\ known' = known \cup e.added
        /\ event' = [event EXCEPT ![t] = e] /\ Go(t, "tell")
  BY ChangeFacts
<1>2. \A u \in Threads : /\ event'[u] = IF u = t THEN e ELSE NoEvent
                         /\ ~Maker(u) /\ ~Maker(u)' /\ event[u] = NoEvent
  BY <1>1, QuietFacts DEF MailTypes, Go, Maker, ControlTypes, ThreadTypes
<1>3. \A k : AddUids(k)' = AddUids(k) /\ DelUids(k)' = DelUids(k)
  BY UidsSame
<1>4. Posted' = Posted /\ Shown' = Shown
  BY DEF Posted, Shown
<1>5. \A k : Incoming(k)' <=> Incoming(k)
  BY <1>2, <1>4 DEF Incoming
<1>6. NoEvent.added = {} /\ NoEvent.removed = {}
  BY DEF NoEvent
<1>7. \A u : /\ AddComing(u)' <=> AddComing(u) \/ u \in e.added
             /\ DelComing(u)' <=> DelComing(u) \/ u \in e.removed
  <2>1. \A u : (\E v \in Threads : u \in event'[v].added) <=> u \in e.added
    BY <1>2, <1>6
  <2>2. \A u : (\E v \in Threads : u \in event'[v].removed) <=> u \in e.removed
    BY <1>2, <1>6
  <2>3. \A v \in Threads : event[v].added = {} /\ event[v].removed = {}
    BY <1>2, <1>6
  <2> QED BY <1>3, <1>5, <2>1, <2>2, <2>3 DEF AddComing, DelComing
<1>8. KnownInv'
  <2>1. \A k \in Changes : Incoming(k)' => /\ AddUids(k)' \subseteq known'
                                           /\ DelUids(k)' \subseteq known' \ content'
    BY <1>1, <1>3, <1>5 DEF ListInv, KnownInv
  <2>2. \A u \in Threads : /\ event'[u].added \subseteq content'
                           /\ event'[u].removed \subseteq known' \ content'
    BY <1>1, <1>2, <1>6 DEF MailTypes
  <2>3. Shown' \subseteq known' /\ (view' = "closed" => list' = {})
    BY <1>1, <1>4 DEF ListInv, KnownInv
  <2> QED BY <2>1, <2>2, <2>3 DEF KnownInv
<1>9. OrderInv'
  <2>1. \A i \in 1..Len(pending) : DelUids(pending[i]) \cap e.added = {}
    BY <1>1, TakenGone DEF ListInv
  <2>2. \A i \in 1..Len(pending) : \A u \in Threads : DelUids(pending[i]) \cap event'[u].added = {}
    BY <1>2, <1>6, <2>1
  <2> QED BY <1>2, <1>3, <2>2 DEF ListInv, OrderInv
<1>10. ComesInv'
  <2> SUFFICES ASSUME ~missed PROVE ComesInv'
    BY DEF ComesInv
  <2>1. \A u \in Uids : (u \in Shown \/ AddComing(u)') /\ ~DelComing(u)' => u \in content'
    BY <1>1, <1>7 DEF ListInv, ComesInv
  <2>2. view = "filled" => \A u \in content' : u \in Shown \/ AddComing(u)'
    BY <1>1, <1>7 DEF ListInv, ComesInv
  <2> QED BY <1>4, <2>1, <2>2 DEF ComesInv
<1> QED BY <1>8, <1>9, <1>10 DEF ListInv

\* An event is dropped.
LEMMA ListMissed ==
  ASSUME MailTypes, HeaderTypes, ListInv, NEW t \in Threads,
         event' = [event EXCEPT ![t] = NoEvent], missed' = TRUE,
         UNCHANGED <<list, uid, added, expunged, pending, content, known, view, change>>,
         \A u \in Threads : Maker(u)' <=> Maker(u)
  PROVE  ListInv'
<1>1. \A k : AddUids(k)' = AddUids(k) /\ DelUids(k)' = DelUids(k)
  BY UidsSame
<1>2. Posted' = Posted /\ Shown' = Shown
  BY DEF Posted, Shown
<1>3. \A k : Incoming(k)' <=> Incoming(k)
  BY <1>2 DEF Incoming
<1>4. \A u \in Threads : /\ event'[u].added = event[u].added \/ event'[u].added = {}
                         /\ event'[u].removed = event[u].removed \/ event'[u].removed = {}
  BY DEF MailTypes, NoEvent
<1>5. KnownInv'
  BY <1>1, <1>2, <1>3, <1>4 DEF ListInv, KnownInv
<1>6. OrderInv'
  BY <1>1, <1>4 DEF ListInv, OrderInv
<1>7. ComesInv'
  BY DEF ComesInv
<1> QED BY <1>5, <1>6, <1>7 DEF ListInv

\* A change is built.
LEMMA ListBuild ==
  ASSUME ControlInv, DeliveryInv, MailTypes, HeaderTypes, RoomInv, ChangesInv, OwnInv, ListInv,
         NEW t \in Threads, Build(t)
  PROVE  ListInv'
<1> DEFINE us == NewUids(t) \cup event[t].removed
<1>1. PICK k \in FreeChanges, a \in [us -> Headers \ Alive] :
        /\ \A u, v \in us : u # v => a[u] # a[v]
        /\ uid' = Born(a)
        /\ added' = [added EXCEPT ![k] = {a[u] : u \in NewUids(t)}]
        /\ expunged' = [expunged EXCEPT ![k] = {a[u] : u \in event[t].removed}]
        /\ change' = [change EXCEPT ![t] = k]
  BY BuildFacts DEF ControlInv, ControlTypes
<1>2. us \in SUBSET Uids /\ NewUids(t) = event[t].added
  BY DEF MailTypes, NewUids, ListInv, KnownInv
<1>3. /\ Range(a) \subseteq Headers \ Alive /\ \A u \in us : uid'[a[u]] = u
      /\ \A h \in Headers \ Range(a) : uid'[h] = uid[h]
  <2> HIDE DEF us
  <2>1. uid \in [Headers -> Uids \cup {Nothing}] /\ us \in SUBSET Uids
    BY <1>2 DEF HeaderTypes
  <2>2. a \in [us -> Headers \ Alive] /\ uid' = Born(a)
        /\ \A u, v \in us : u # v => a[u] # a[v]
    BY <1>1
  <2> QED BY <2>1, <2>2, BornFacts
<1>4. k \in Changes /\ ~Live(k) /\ k # Nothing
  BY ThreadsDiffer DEF FreeChanges
<1>5. /\ UNCHANGED <<list, pending, content, known, view, missed>> /\ pc[t] = "build"
      /\ Go(t, "keep") /\ event' = [event EXCEPT ![t] = NoEvent]
  BY DEF Build, viewVars, mailVars
<1>6. \A h \in Held : uid'[h] = uid[h]
  BY <1>3 DEF OwnInv, Alive
<1>7. AddUids(k)' = event[t].added /\ DelUids(k)' = event[t].removed
  <2>1. added'[k] = {a[u] : u \in event[t].added} /\ expunged'[k] = {a[u] : u \in event[t].removed}
    BY <1>1, <1>2, <1>4 DEF HeaderTypes
  <2>2. {uid'[h] : h \in added'[k]} = event[t].added
    BY <1>2, <1>3, <2>1
  <2>3. {uid'[h] : h \in expunged'[k]} = event[t].removed
    BY <1>2, <1>3, <2>1
  <2> QED BY <1>4, <2>2, <2>3 DEF AddUids, DelUids
<1> HIDE DEF us
<1>8. \A c \in Changes : Live(c) => AddUids(c)' = AddUids(c) /\ DelUids(c)' = DelUids(c)
  <2> SUFFICES ASSUME NEW c \in Changes, Live(c)
               PROVE  AddUids(c)' = AddUids(c) /\ DelUids(c)' = DelUids(c)
    OBVIOUS
  <2>1. CASE c = Nothing
    BY <2>1 DEF AddUids, DelUids
  <2>2. CASE c # Nothing
    <3>1. added'[c] = added[c] /\ expunged'[c] = expunged[c]
      BY <1>1, <1>4 DEF HeaderTypes
    <3>2. \A h \in added[c] \cup expunged[c] : uid'[h] = uid[h]
      BY <1>6, <2>2, HeldFacts DEF HeadersOf
    <3> QED BY <2>2, <3>1, <3>2 DEF AddUids, DelUids
  <2> QED BY <2>1, <2>2
<1>9. \A u \in Threads : /\ event'[u] = IF u = t THEN NoEvent ELSE event[u]
                         /\ Maker(u)' <=> u = t
                         /\ ~Maker(u) /\ change'[u] = IF u = t THEN k ELSE change[u]
  <2>1. \A u \in Threads \ {t} : ~Delivering(u)
    BY <1>5 DEF DeliveryInv, Delivering
  <2>2. \A u \in Threads : ~Maker(u)
    BY <1>5, <2>1 DEF Maker, Delivering
  <2>3. \A u \in Threads : pc'[u] = IF u = t THEN "keep" ELSE pc[u]
    BY <1>5 DEF Go, ControlInv, ControlTypes, ThreadTypes
  <2> QED BY <1>1, <1>5, <2>2, <2>3 DEF Maker, MailTypes, HeaderTypes
<1>10. Posted' = Posted /\ Shown' = Shown
  <2>1. {uid'[h] : h \in list} = {uid[h] : h \in list}
    BY <1>6, HeldFacts
  <2> QED BY <1>5, <2>1 DEF Posted, Shown
<1>11. \A c \in Changes : /\ Incoming(c) <=> c \in Posted
                          /\ Incoming(c)' <=> c = k \/ Incoming(c)
                          /\ Incoming(c) => c # k
  BY <1>4, <1>9, <1>10 DEF Incoming, Live
<1>12. \A c \in Changes : Incoming(c) => AddUids(c)' = AddUids(c) /\ DelUids(c)' = DelUids(c)
  BY <1>8, IncomingLive
<1>13. NoEvent.added = {} /\ NoEvent.removed = {}
  BY DEF NoEvent
<1>14. \A u : AddComing(u)' <=> AddComing(u)
  <2>1. \A u : (\E v \in Threads : u \in event[v].added)
               <=> u \in event[t].added \/ \E v \in Threads : u \in event'[v].added
    BY <1>9, <1>13
  <2> QED BY <1>4, <1>7, <1>11, <1>12, <2>1 DEF AddComing
<1>15. \A u : DelComing(u)' <=> DelComing(u)
  <2>1. \A u : (\E v \in Threads : u \in event[v].removed)
               <=> u \in event[t].removed \/ \E v \in Threads : u \in event'[v].removed
    BY <1>9, <1>13
  <2> QED BY <1>4, <1>7, <1>11, <1>12, <2>1 DEF DelComing
<1>16. KnownInv'
  <2>1. event[t].added \subseteq known /\ event[t].removed \subseteq known \ content
    BY DEF ListInv, KnownInv, MailTypes
  <2>2. \A c \in Changes : Incoming(c)' => /\ AddUids(c)' \subseteq known
                                           /\ DelUids(c)' \subseteq known \ content
    BY <1>7, <1>11, <1>12, <2>1 DEF ListInv, KnownInv
  <2>3. \A u \in Threads : /\ event'[u].added \subseteq content
                           /\ event'[u].removed \subseteq known \ content
    BY <1>9, <1>13 DEF ListInv, KnownInv
  <2> QED BY <1>5, <1>10, <2>2, <2>3 DEF ListInv, KnownInv
<1>17. OrderInv'
  <2>1. \A i \in 1..Len(pending) : /\ AddUids(pending[i])' = AddUids(pending[i])
                                   /\ DelUids(pending[i])' = DelUids(pending[i])
    <3> SUFFICES ASSUME NEW i \in 1..Len(pending)
                 PROVE  /\ AddUids(pending[i])' = AddUids(pending[i])
                        /\ DelUids(pending[i])' = DelUids(pending[i])
      OBVIOUS
    <3>1. PICK c \in Changes \cup {Nothing} : c = pending[i] /\ c \in Posted
      BY PostedIs
    <3>2. AddUids(c)' = AddUids(c) /\ DelUids(c)' = DelUids(c)
      <4>1. CASE c = Nothing
        BY <4>1 DEF AddUids, DelUids
      <4>2. CASE c # Nothing
        BY <1>11, <1>12, <3>1, <4>2
      <4> QED BY <4>1, <4>2
    <3> QED BY <1>5, <3>1, <3>2 DEF AddUids, DelUids
  <2>2. \A u \in Threads : Maker(u)' => AddUids(change[u])' = event[t].added
    BY <1>7, <1>9 DEF AddUids
  <2>3. \A i \in 1..Len(pending) : \A u \in Threads :
          /\ DelUids(pending[i]) \cap event[u].added = {}
          /\ DelUids(pending[i]) \cap event'[u].added = {}
    BY <1>9, <1>13 DEF ListInv, OrderInv
  <2> QED BY <1>5, <2>1, <2>2, <2>3 DEF ListInv, OrderInv
<1>18. ComesInv'
  BY <1>5, <1>10, <1>14, <1>15 DEF ListInv, ComesInv
<1> QED BY <1>16, <1>17, <1>18 DEF ListInv

\* A change, or one with counts only, is posted after all others.
LEMMA ListAppend ==
  ASSUME HeaderTypes, ListInv, NEW k \in Changes \cup {Nothing}, pending' = Append(pending, k),
         UNCHANGED <<list, uid, added, expunged, content, known, view, event, change, missed>>,
         \A c \in Changes : Incoming(c)' <=> Incoming(c),
         \A u \in Threads : Maker(u)' => Maker(u),
         \A i \in 1..Len(pending) : DelUids(pending[i]) \cap AddUids(k) = {},
         \A u \in Threads : /\ DelUids(k) \cap event[u].added = {}
                            /\ Maker(u)' => DelUids(k) \cap AddUids(change[u]) = {}
  PROVE  ListInv'
<1>1. \A c : AddUids(c)' = AddUids(c) /\ DelUids(c)' = DelUids(c)
  BY UidsSame
<1>2. Shown' = Shown
  BY DEF Shown
<1>3. \A u : (AddComing(u)' <=> AddComing(u)) /\ (DelComing(u)' <=> DelComing(u))
  BY <1>1 DEF AddComing, DelComing
<1>4. KnownInv'
  BY <1>1, <1>2 DEF ListInv, KnownInv
<1>5. OrderInv'
  <2>1. /\ Len(pending) \in Nat /\ Len(pending') = Len(pending) + 1
        /\ \A i \in 1..Len(pending') :
             pending'[i] = IF i = Len(pending) + 1 THEN k ELSE pending[i]
    BY PostedAppend
  <2> SUFFICES ASSUME NEW i \in 1..Len(pending')
               PROVE  /\ \A j \in 1..Len(pending') :
                           i < j => DelUids(pending'[i]) \cap AddUids(pending'[j]) = {}
                      /\ \A u \in Threads :
                           /\ Maker(u)' => DelUids(pending'[i]) \cap AddUids(change[u]) = {}
                           /\ DelUids(pending'[i]) \cap event[u].added = {}
    BY <1>1 DEF OrderInv
  <2>2. CASE i = Len(pending) + 1
    BY <2>1, <2>2
  <2>3. CASE i # Len(pending) + 1
    <3>1. i \in 1..Len(pending) /\ pending'[i] = pending[i]
      BY <2>1, <2>3
    <3>2. ASSUME NEW j \in 1..Len(pending'), i < j
          PROVE  DelUids(pending[i]) \cap AddUids(pending'[j]) = {}
      <4>1. CASE j = Len(pending) + 1
        BY <2>1, <3>1, <4>1
      <4>2. CASE j # Len(pending) + 1
        <5>1. j \in 1..Len(pending) /\ pending'[j] = pending[j]
          BY <2>1, <4>2
        <5> QED BY <3>1, <3>2, <5>1 DEF ListInv, OrderInv
      <4> QED BY <4>1, <4>2
    <3> QED BY <3>1, <3>2 DEF ListInv, OrderInv
  <2> QED BY <2>2, <2>3
<1>6. ComesInv'
  BY <1>2, <1>3 DEF ListInv, ComesInv
<1> QED BY <1>4, <1>5, <1>6 DEF ListInv

\* One with counts only.
LEMMA ListNothing ==
  ASSUME HeaderTypes, ListInv, pending' = Append(pending, Nothing),
         UNCHANGED <<list, uid, added, expunged, content, known, view, event, change, missed>>,
         \A u \in Threads : Maker(u)' <=> Maker(u)
  PROVE  ListInv'
<1>1. Posted' = Posted \cup {Nothing}
  BY PostedAppend
<1>2. \A c \in Changes : Incoming(c)' <=> Incoming(c)
  BY <1>1, ThreadsDiffer DEF Incoming
<1>3. AddUids(Nothing) = {} /\ DelUids(Nothing) = {}
  BY DEF AddUids, DelUids
<1> QED BY <1>2, <1>3, ListAppend

\* The change that a thread has made.
LEMMA ListPost ==
  ASSUME ControlTypes, DeliveryInv, HeaderTypes, ChangesInv, ListInv, NEW t \in Threads, Post(t)
  PROVE  ListInv'
<1>1. /\ UNCHANGED <<list, uid, added, expunged, content, known, view, event, change,
                     missed>>
      /\ pc[t] = "post" /\ Go(t, "drop") /\ pending' = Append(pending, change[t])
  BY DEF Post, Notice, headerVars, mailVars, viewVars, eventVars
<1>2. PICK k \in Changes : k = change[t]
  BY <1>1 DEF ChangesInv, HeaderTypes
<1>3. \A u \in Threads : (Maker(u) <=> u = t) /\ ~Maker(u)'
  BY <1>1 DEF Maker, Go, DeliveryInv, Delivering, ControlTypes, ThreadTypes
<1>4. Posted' = Posted \cup {k}
  BY <1>1, <1>2, PostedAppend
<1>5. \A c \in Changes : Incoming(c)' <=> Incoming(c)
  BY <1>2, <1>3, <1>4 DEF Incoming
<1>6. \A u \in Threads : event[u].added = {}
  <2>1. \A u \in Threads : event[u] = NoEvent
    BY <1>1 DEF ChangesInv, DeliveryInv, Delivering
  <2> QED BY <2>1 DEF NoEvent
<1>7. \A i \in 1..Len(pending) : DelUids(pending[i]) \cap AddUids(k) = {}
  BY <1>2, <1>3 DEF ListInv, OrderInv
<1> QED BY <1>1, <1>2, <1>3, <1>5, <1>6, <1>7, ListAppend

\* The order is kept where the uids of what is held are.
LEMMA OrderKept ==
  ASSUME HeaderTypes, OrderInv, UNCHANGED <<added, expunged, pending, event>>,
         \A h \in Held : uid'[h] = uid[h],
         \A t \in Threads : Maker(t)' => Maker(t) /\ change'[t] = change[t]
  PROVE  OrderInv'
<1>1. \A k \in Changes : Live(k) => AddUids(k)' = AddUids(k) /\ DelUids(k)' = DelUids(k)
  BY UidsKept
<1>2. \A i \in 1..Len(pending) : /\ AddUids(pending[i])' = AddUids(pending[i])
                                 /\ DelUids(pending[i])' = DelUids(pending[i])
  <2> SUFFICES ASSUME NEW i \in 1..Len(pending)
               PROVE  /\ AddUids(pending[i])' = AddUids(pending[i])
                      /\ DelUids(pending[i])' = DelUids(pending[i])
    OBVIOUS
  <2>1. PICK k \in Changes \cup {Nothing} : k = pending[i] /\ k \in Posted
    BY PostedIs
  <2>2. AddUids(k)' = AddUids(k) /\ DelUids(k)' = DelUids(k)
    BY <1>1, <2>1, UidsKept DEF Live
  <2> QED BY <2>1, <2>2 DEF AddUids, DelUids
<1>3. \A t \in Threads : Maker(t)' => Maker(t) /\ AddUids(change[t])' = AddUids(change[t])
                                   /\ change'[t] = change[t]
  <2> SUFFICES ASSUME NEW t \in Threads, Maker(t)'
               PROVE  AddUids(change[t])' = AddUids(change[t])
    OBVIOUS
  <2>1. PICK k \in Changes \cup {Nothing} : k = change[t]
    BY DEF HeaderTypes
  <2>2. AddUids(k)' = AddUids(k)
    BY <1>1, <2>1, UidsKept DEF Live
  <2>3. change'[t] = change[t]
    OBVIOUS
  <2> QED BY <2>1, <2>2, <2>3 DEF AddUids
<1> QED BY <1>2, <1>3 DEF OrderInv

\* The list is filled.
LEMMA ListFill ==
  ASSUME ControlInv, MailTypes, HeaderTypes, RoomInv, OwnInv, LoadedInv, ListInv,
         view = "asked", NEW t \in Threads, Fill(t)
  PROVE  ListInv'
<1>1. PICK g \in [Filling -> Headers \ Alive] :
        /\ Filling \in SUBSET Uids /\ \A u, v \in Filling : u # v => g[u] # g[v]
        /\ uid' = Born(g) /\ list' = list \cup Range(g)
  BY FillFacts DEF ControlInv, ControlTypes
<1>2. /\ UNCHANGED <<added, expunged, pending, content, known, event, change, missed>>
      /\ pc[t] = "fill" /\ Go(t, "lower") /\ view' = "filled"
  BY DEF Fill, mailVars, eventVars
<1>3. Filling = content
  BY <1>2 DEF Filling, LoadedInv, InUse, InCall, Unloading, Delivering, ControlInv,
     PlacesInv
<1>4. /\ Range(g) \subseteq Headers \ Alive /\ \A u \in content : uid'[g[u]] = u
      /\ \A h \in Headers \ Range(g) : uid'[h] = uid[h]
  <2>1. uid \in [Headers -> Uids \cup {Nothing}]
    BY DEF HeaderTypes
  <2>2. /\ Filling \in SUBSET Uids /\ \A u, v \in Filling : u # v => g[u] # g[v]
        /\ uid' = Born(g) /\ g \in [Filling -> Headers \ Alive]
    BY <1>1
  <2>3. /\ Range(g) \subseteq Headers \ Alive /\ \A u \in Filling : uid'[g[u]] = u
        /\ \A h \in Headers \ Range(g) : uid'[h] = uid[h]
    BY <2>1, <2>2, BornFacts
  <2> QED BY <1>3, <2>3
<1>5. \A h \in Held : uid'[h] = uid[h]
  BY <1>4 DEF OwnInv, Alive
<1>6. \A u \in Threads : Maker(u)' <=> Maker(u)
  BY <1>2 DEF Maker, Go, ControlInv, ControlTypes, ThreadTypes
<1>7. Shown' = Shown \cup content
  <2>1. {uid'[h] : h \in list} = Shown
    BY <1>2, <1>5, UidsKept
  <2>2. {uid'[h] : h \in Range(g)} = content
    <3>1. Range(g) = {g[u] : u \in content}
      BY <1>1, <1>3 DEF Range
    <3> QED BY <1>4, <3>1
  <2> QED BY <1>1, <2>1, <2>2 DEF Shown
<1>8. \A k : Incoming(k)' <=> Incoming(k)
  <2>1. Posted' = Posted
    BY <1>2 DEF Posted
  <2> QED BY <1>2, <1>6, <2>1 DEF Incoming
<1>9. \A k \in Changes : Incoming(k) => AddUids(k)' = AddUids(k) /\ DelUids(k)' = DelUids(k)
  BY <1>2, <1>5, UidsKept, IncomingLive
<1>10. \A u : (AddComing(u)' <=> AddComing(u)) /\ (DelComing(u)' <=> DelComing(u))
  BY <1>2, <1>8, <1>9 DEF AddComing, DelComing
<1>11. KnownInv'
  BY <1>2, <1>7, <1>8, <1>9 DEF ListInv, KnownInv, MailTypes
<1>12. OrderInv'
  BY <1>2, <1>5, <1>6, OrderKept DEF ListInv
<1>13. ComesInv'
  BY <1>2, <1>7, <1>10 DEF ListInv, ComesInv
<1> QED BY <1>11, <1>12, <1>13 DEF ListInv

\* The main loop takes the first change.
LEMMA ListNotify ==
  ASSUME ControlTypes, HeaderTypes, ChangesInv, ListInv, Notify
  PROVE  ListInv'
<1>1. PICK k : k = Head(pending)
  OBVIOUS
<1>2. /\ UNCHANGED <<uid, added, expunged, change, content, known, event, missed, view>>
      /\ pending # <<>> /\ pending' = Tail(pending) /\ list' = Updated(k)
      /\ pc[Main] = "free" /\ Go(Main, "finalize")
  BY <1>1 DEF Notify, headerVars, eventVars, mailVars
<1>3. /\ Posted = Posted' \cup {k} /\ k = pending[1] /\ k \in Changes \cup {Nothing}
      /\ Len(pending') = Len(pending) - 1 /\ Len(pending') \in Nat
      /\ \A i \in 1..Len(pending') : pending'[i] = pending[i + 1]
  BY <1>1, <1>2, PostedTail
<1>4. k # Nothing => k \notin Posted'
  <2> SUFFICES ASSUME k # Nothing, NEW i \in 1..Len(pending'), pending'[i] = k PROVE FALSE
    BY <1>2 DEF Posted, Range, HeaderTypes
  <2>1. i + 1 \in 1..Len(pending) /\ 1 \in 1..Len(pending) /\ pending[i + 1] = pending[1]
    BY <1>3 DEF HeaderTypes
  <2>2. i + 1 = 1
    BY <1>3, <2>1 DEF ChangesInv
  <2> QED BY <2>2
<1>5. \A c : AddUids(c)' = AddUids(c) /\ DelUids(c)' = DelUids(c)
  BY <1>2, UidsSame
<1>6. \A u \in Threads : Maker(u)' <=> Maker(u)
  BY <1>2 DEF Maker, Go, ControlTypes, ThreadTypes
<1>7. \A c \in Changes : Incoming(c)' <=> Incoming(c) /\ c # k
  <2>1. \A u \in Threads : Maker(u) => change[u] # k
    BY <1>3 DEF Maker, ChangesInv
  <2> QED BY <1>2, <1>3, <1>4, <1>6, <2>1, ThreadsDiffer DEF Incoming
<1>8. k # Nothing => k \in Changes /\ Incoming(k)
  BY <1>3 DEF Incoming
<1>9. k = Nothing => AddUids(k) = {} /\ DelUids(k) = {}
  BY DEF AddUids, DelUids
<1>10. AddUids(k) \subseteq known /\ DelUids(k) \subseteq known \ content
  BY <1>8, <1>9 DEF ListInv, KnownInv
<1>11. \A u : /\ AddComing(u) <=> AddComing(u)' \/ u \in AddUids(k)
              /\ DelComing(u) <=> DelComing(u)' \/ u \in DelUids(k)
  BY <1>2, <1>5, <1>7, <1>8, <1>9 DEF AddComing, DelComing
<1>12. Shown' = IF Watching THEN (Shown \cup AddUids(k)) \ DelUids(k) ELSE {}
  <2>1. CASE ~Watching
    BY <1>2, <2>1 DEF Updated, Watching, Shown, ListInv, KnownInv
  <2>2. CASE Watching /\ k = Nothing
    BY <1>2, <1>9, <2>2 DEF Updated, Shown
  <2>3. CASE Watching /\ k # Nothing
    <3>1. AddUids(k) = {uid[h] : h \in added[k]} /\ DelUids(k) = {uid[h] : h \in expunged[k]}
      BY <2>3 DEF AddUids, DelUids
    <3>2. list' = {h \in list \cup added[k] : uid[h] \notin DelUids(k)}
      BY <1>2, <2>3, <3>1 DEF Updated
    <3>3. Shown' = {uid[h] : h \in list'}
      BY <1>2 DEF Shown
    <3> QED BY <2>3, <3>1, <3>2, <3>3 DEF Shown
  <2> QED BY <2>1, <2>2, <2>3
<1>13. KnownInv'
  <2>1. Shown' \subseteq known
    BY <1>10, <1>12 DEF ListInv, KnownInv
  <2>2. view = "closed" => list' = {}
    BY <1>2 DEF Updated, Watching, ListInv, KnownInv
  <2> QED BY <1>2, <1>5, <1>7, <2>1, <2>2 DEF ListInv, KnownInv
<1>14. OrderInv'
  <2>1. \A i \in 1..Len(pending') : i + 1 \in 1..Len(pending) /\ pending'[i] = pending[i + 1]
    BY <1>3
  <2> SUFFICES ASSUME NEW i \in 1..Len(pending')
               PROVE  /\ \A j \in 1..Len(pending') :
                           i < j => DelUids(pending'[i]) \cap AddUids(pending'[j]) = {}
                      /\ \A u \in Threads :
                           /\ Maker(u) => DelUids(pending'[i]) \cap AddUids(change[u]) = {}
                           /\ DelUids(pending'[i]) \cap event[u].added = {}
    BY <1>2, <1>5, <1>6 DEF OrderInv
  <2>2. ASSUME NEW j \in 1..Len(pending'), i < j
        PROVE  DelUids(pending'[i]) \cap AddUids(pending'[j]) = {}
    <3>1. i + 1 < j + 1
      BY <1>3, <2>2
    <3> QED BY <2>1, <3>1 DEF ListInv, OrderInv
  <2> QED BY <2>1, <2>2 DEF ListInv, OrderInv
<1>15. \A u : u \in DelUids(k) => ~AddComing(u)'
  <2> SUFFICES ASSUME NEW u, u \in DelUids(k) PROVE ~AddComing(u)'
    OBVIOUS
  <2>1. 1 \in 1..Len(pending)
    BY <1>3
  <2>2. \A v \in Threads : /\ u \notin event[v].added
                           /\ Maker(v) => u \notin AddUids(change[v])
    BY <1>3, <2>1 DEF ListInv, OrderInv
  <2>3. \A c \in Posted' : u \notin AddUids(c)
    <3> SUFFICES ASSUME NEW c \in Posted' PROVE u \notin AddUids(c)
      OBVIOUS
    <3>1. PICK i \in 1..Len(pending') : c = pending'[i]
      BY <1>2 DEF Posted, Range, HeaderTypes
    <3>2. i + 1 \in 1..Len(pending) /\ c = pending[i + 1] /\ 1 < i + 1
      BY <1>3, <3>1
    <3> QED BY <1>3, <2>1, <3>2 DEF ListInv, OrderInv
  <2> QED BY <1>2, <1>5, <1>6, <2>2, <2>3 DEF AddComing, Incoming
<1>16. ComesInv'
  <2> SUFFICES ASSUME ~missed PROVE ComesInv'
    BY <1>2 DEF ComesInv
  <2>1. \A u \in Uids : (u \in Shown' \/ AddComing(u)') /\ ~DelComing(u)' => u \in content
    BY <1>11, <1>12, <1>15 DEF ListInv, ComesInv
  <2>2. view = "filled" => \A u \in content : u \in Shown' \/ AddComing(u)'
    BY <1>10, <1>11, <1>12 DEF ListInv, ComesInv, Watching
  <2> QED BY <1>2, <2>1, <2>2 DEF ComesInv
<1> QED BY <1>13, <1>14, <1>16 DEF ListInv

\* The application closes its list.
LEMMA ListClose ==
  ASSUME ControlTypes, HeaderTypes, ListInv, Close
  PROVE  ListInv'
<1>1. /\ UNCHANGED <<uid, added, expunged, change, pending, content, known, event, missed>>
      /\ view' = "closed" /\ list' = {} /\ pc[Main] = "free" /\ Go(Main, "finalize")
  BY DEF Close, headerVars, eventVars, mailVars
<1>2. \A c : AddUids(c)' = AddUids(c) /\ DelUids(c)' = DelUids(c)
  BY <1>1, UidsSame
<1>3. \A u \in Threads : Maker(u)' <=> Maker(u)
  BY <1>1 DEF Maker, Go, ControlTypes, ThreadTypes
<1>4. \A k : Incoming(k)' <=> Incoming(k)
  <2>1. Posted' = Posted
    BY <1>1 DEF Posted
  <2> QED BY <1>1, <1>3, <2>1 DEF Incoming
<1>5. \A u : (AddComing(u)' <=> AddComing(u)) /\ (DelComing(u)' <=> DelComing(u))
  BY <1>1, <1>2, <1>4 DEF AddComing, DelComing
<1>6. Shown' = {}
  BY <1>1 DEF Shown
<1>7. KnownInv'
  BY <1>1, <1>2, <1>4, <1>6 DEF ListInv, KnownInv
<1>8. OrderInv'
  BY <1>1, <1>2, <1>3 DEF ListInv, OrderInv
<1>9. ComesInv'
  BY <1>1, <1>5, <1>6 DEF ListInv, ComesInv
<1> QED BY <1>7, <1>8, <1>9 DEF ListInv

\* Every step keeps what the list shows and what is on its way to it.
LEMMA ListStep == FolderInv /\ ListInv /\ [Next]_vars => ListInv'
<1> SUFFICES ASSUME ControlInv, ControlTypes, LocksInv, PlacesInv, CountedInv, AskingInv,
                    DeliveryInv, MailTypes, HeaderTypes, RoomInv, ChangesInv, OwnInv,
                    LoadedInv, ListInv, [Next]_vars
             PROVE  ListInv'
  BY DEF FolderInv, ControlInv
<1>1. ASSUME Open PROVE ListInv'
  <2>1. UNCHANGED <<list, added, expunged, pending, content, known, event, missed, uid>>
    BY <1>1 DEF Open, mailVars, headerVars, eventVars
  <2>2. (view' = "filled" => view = "filled") /\ (view' = "closed" => view = "closed")
    BY <1>1 DEF Open
  <2>3. \A u \in Threads : (Maker(u)' <=> Maker(u)) /\ (Maker(u) => change'[u] = change[u])
    BY <1>1 DEF Open, eventVars, Maker, ControlTypes, ThreadTypes, HeaderTypes
  <2> QED BY <2>1, <2>2, <2>3, ListFrame
<1>2. ASSUME Close PROVE ListInv'
  BY <1>2, ListClose
<1>3. ASSUME SetFlag PROVE ListInv'
  <2>1. UNCHANGED <<list, added, expunged, pending, content, known, event, missed, uid>>
    BY <1>3 DEF SetFlag, mailVars, viewVars, headerVars, eventVars
  <2>2. (view' = "filled" => view = "filled") /\ (view' = "closed" => view = "closed")
    BY <1>3 DEF SetFlag, viewVars
  <2>3. \A u \in Threads : (Maker(u)' <=> Maker(u)) /\ (Maker(u) => change'[u] = change[u])
    BY <1>3 DEF SetFlag, eventVars, Go, Maker, ControlTypes, ThreadTypes, HeaderTypes
  <2> QED BY <2>1, <2>2, <2>3, ListFrame
<1>4. ASSUME NEW kind \in Ask, Launch(kind) PROVE ListInv'
  <2>1. UNCHANGED <<list, added, expunged, pending, content, known, event, missed, uid>>
    BY <1>4 DEF Launch, mailVars, headerVars, eventVars
  <2>2. (view' = "filled" => view = "filled") /\ (view' = "closed" => view = "closed")
    BY <1>4 DEF Launch, Wish
  <2>3. \A u \in Threads : (Maker(u)' <=> Maker(u)) /\ (Maker(u) => change'[u] = change[u])
    BY <1>4 DEF Launch, eventVars, Maker, ControlTypes, ThreadTypes, HeaderTypes
  <2> QED BY <2>1, <2>2, <2>3, ListFrame
<1>5. ASSUME NEW kind \in Ask, Call(kind) PROVE ListInv'
  <2>1. UNCHANGED <<list, added, expunged, pending, content, known, event, missed, uid>>
    BY <1>5 DEF Call, mailVars, headerVars, eventVars
  <2>2. (view' = "filled" => view = "filled") /\ (view' = "closed" => view = "closed")
    BY <1>5 DEF Call, Wish
  <2>3. \A u \in Threads : (Maker(u)' <=> Maker(u)) /\ (Maker(u) => change'[u] = change[u])
    BY <1>5 DEF Call, eventVars, Go, Maker, ControlTypes, ThreadTypes, HeaderTypes
  <2> QED BY <2>1, <2>2, <2>3, ListFrame
<1>6. ASSUME PushEvent PROVE ListInv'
  <2>1. /\ Change(Push) /\ Push \in Threads /\ \A u \in Threads : ~Delivering(u)
        /\ UNCHANGED <<list, uid, added, expunged, pending, view, change, missed>>
    BY <1>6 DEF PushEvent, viewVars, headerVars, Threads
  <2> QED BY <2>1, ListChange
<1>7. ASSUME Notify PROVE ListInv'
  BY <1>7, ListNotify
<1>8. ASSUME Done PROVE ListInv'
  <2>1. UNCHANGED <<list, added, expunged, pending, content, known, event, missed, uid>>
    BY <1>8 DEF Done, mailVars, viewVars, headerVars, eventVars
  <2>2. (view' = "filled" => view = "filled") /\ (view' = "closed" => view = "closed")
    BY <1>8 DEF Done, viewVars
  <2>3. \A u \in Threads : (Maker(u)' <=> Maker(u)) /\ (Maker(u) => change'[u] = change[u])
    BY <1>8 DEF Done, eventVars, Go, Maker, ControlTypes, ThreadTypes, HeaderTypes
  <2> QED BY <2>1, <2>2, <2>3, ListFrame
<1>9. ASSUME NEW t \in Threads, Lock(t) PROVE ListInv'
  <2>1. UNCHANGED <<list, added, expunged, pending, content, known, event, missed, uid>>
    BY <1>9 DEF Lock, mailVars, viewVars, headerVars, eventVars
  <2>2. (view' = "filled" => view = "filled") /\ (view' = "closed" => view = "closed")
    BY <1>9 DEF Lock, viewVars
  <2>3. \A u \in Threads : (Maker(u)' <=> Maker(u)) /\ (Maker(u) => change'[u] = change[u])
    BY <1>9 DEF Lock, eventVars, Go, Maker, ControlTypes, ThreadTypes, HeaderTypes
  <2> QED BY <2>1, <2>2, <2>3, ListFrame
<1>10. ASSUME NEW t \in Threads, Load(t) PROVE ListInv'
  <2>1. UNCHANGED <<list, added, expunged, pending, content, known, event, missed, uid>>
    BY <1>10 DEF Load, mailVars, viewVars, headerVars, eventVars
  <2>2. (view' = "filled" => view = "filled") /\ (view' = "closed" => view = "closed")
    BY <1>10 DEF Load, viewVars
  <2>3. \A u \in Threads : (Maker(u)' <=> Maker(u)) /\ (Maker(u) => change'[u] = change[u])
    BY <1>10 DEF Load, eventVars, Go, Maker, ControlTypes, ThreadTypes, HeaderTypes
  <2> QED BY <2>1, <2>2, <2>3, ListFrame
<1>11. ASSUME NEW t \in Threads, LoadFails(t) PROVE ListInv'
  <2>1. UNCHANGED <<list, added, expunged, pending, content, known, event, missed, uid>>
    BY <1>11 DEF LoadFails, mailVars, headerVars, eventVars
  <2>2. (view' = "filled" => view = "filled") /\ (view' = "closed" => view = "closed")
    BY <1>11 DEF LoadFails
  <2>3. \A u \in Threads : (Maker(u)' <=> Maker(u)) /\ (Maker(u) => change'[u] = change[u])
    BY <1>11 DEF LoadFails, eventVars, Go, Maker, ControlTypes, ThreadTypes, HeaderTypes
  <2> QED BY <2>1, <2>2, <2>3, ListFrame
<1>12. ASSUME NEW t \in Threads, CountCall(t) PROVE ListInv'
  <2>1. UNCHANGED <<list, added, expunged, pending, content, known, event, missed, uid>>
    BY <1>12 DEF CountCall, mailVars, viewVars, headerVars, eventVars
  <2>2. (view' = "filled" => view = "filled") /\ (view' = "closed" => view = "closed")
    BY <1>12 DEF CountCall, viewVars
  <2>3. \A u \in Threads : (Maker(u)' <=> Maker(u)) /\ (Maker(u) => change'[u] = change[u])
    BY <1>12 DEF CountCall, eventVars, Go, Maker, ControlTypes, ThreadTypes, HeaderTypes
  <2> QED BY <2>1, <2>2, <2>3, ListFrame
<1>13. ASSUME NEW t \in Threads, Refresh(t) PROVE ListInv'
  <2>1. /\ UNCHANGED <<list, uid, added, expunged, pending, view, change, missed>>
        /\ pc[t] = "refresh" /\ pc[Push] = "free"
    BY <1>13 DEF Refresh, viewVars, headerVars
  <2>2. CASE Change(t)
    <3>1. InCall(t)
      BY <2>1 DEF InCall
    <3>2. \A u \in Threads : ~Delivering(u)
      <4> SUFFICES ASSUME NEW u \in Threads, Delivering(u) PROVE FALSE
        OBVIOUS
      <4>1. u # Push /\ u # t
        BY <2>1 DEF Delivering
      <4>2. InCall(u)
        BY <4>1 DEF InCall
      <4> QED BY <3>1, <4>1, <4>2, OthersWait
    <3> QED BY <2>1, <2>2, <3>2, ListChange
  <2>3. CASE Go(t, GoesOn(t)) /\ UNCHANGED <<mailVars, event>>
    <3>1. \A u \in Threads : Maker(u)' <=> Maker(u)
      BY <2>1, <2>3 DEF Go, GoesOn, Maker, ControlTypes, ThreadTypes
    <3> QED BY <2>1, <2>3, <3>1, ListFrame DEF mailVars
  <2> QED BY <1>13, <2>2, <2>3 DEF Refresh
<1>14. ASSUME NEW t \in Threads, Fill(t) PROVE ListInv'
  <2>1. view = "asked"
    BY <1>14 DEF Fill, CountedInv, AskingInv, Asking, Threads, PlacesInv
  <2> QED BY <1>14, <2>1, ListFill
<1>15. ASSUME NEW t \in Threads, Lower(t) PROVE ListInv'
  <2>1. UNCHANGED <<list, added, expunged, pending, content, known, event, missed, uid,
                    view, change>>
    BY <1>15 DEF Lower, mailVars, viewVars, headerVars, eventVars
  <2>2. pc[t] = "lower" /\ (Go(t, "uncache") \/ Go(t, "unlock"))
    BY <1>15, UnreasonCases DEF Lower, ControlTypes
  <2>3. \A u \in Threads : Maker(u)' <=> Maker(u)
    BY <2>2 DEF Go, Maker, ControlTypes, ThreadTypes
  <2> QED BY <2>1, <2>3, ListFrame
<1>16. ASSUME NEW t \in Threads, Unlock(t) PROVE ListInv'
  <2>1. UNCHANGED <<list, uid, added, expunged, pending, content, known, view, event,
                    change, missed>>
    BY <1>16 DEF Unlock, mailVars, viewVars, headerVars, eventVars
  <2>2. \A u \in Threads : Maker(u)' <=> Maker(u)
    BY <1>16 DEF Unlock, Go, Maker, ControlTypes, ThreadTypes
  <2> QED BY <2>1, <2>2, ListFrame
<1>17. ASSUME NEW t \in Threads, Tell(t) PROVE ListInv'
  <2>1. UNCHANGED <<list, uid, added, expunged, pending, content, known, view, change>>
    BY <1>17 DEF Tell, mailVars, viewVars, headerVars
  <2>2. \A u \in Threads : Maker(u)' <=> Maker(u)
    BY <1>17 DEF Tell, Go, GoesOn, Maker, ControlTypes, ThreadTypes
  <2>3. CASE UNCHANGED <<event, missed>>
    BY <2>1, <2>2, <2>3, ListFrame
  <2>4. CASE event' = [event EXCEPT ![t] = NoEvent] /\ missed' = TRUE
    BY <2>1, <2>2, <2>4, ListMissed
  <2> QED BY <1>17, <2>3, <2>4 DEF Tell
<1>18. ASSUME NEW t \in Threads, TryLock(t) PROVE ListInv'
  <2>1. UNCHANGED <<list, uid, added, expunged, pending, content, known, view, change>>
    BY <1>18 DEF TryLock, mailVars, viewVars, headerVars
  <2>2. \A u \in Threads : Maker(u)' <=> Maker(u)
    BY <1>18 DEF TryLock, Go, GoesOn, Maker, ControlTypes, ThreadTypes
  <2>3. CASE UNCHANGED <<event, missed>>
    BY <2>1, <2>2, <2>3, ListFrame
  <2>4. CASE event' = [event EXCEPT ![t] = NoEvent] /\ missed' = TRUE
    BY <2>1, <2>2, <2>4, ListMissed
  <2> QED BY <1>18, <2>3, <2>4 DEF TryLock
<1>19. ASSUME NEW t \in Threads, Build(t) PROVE ListInv'
  BY <1>19, ListBuild
<1>20. ASSUME NEW t \in Threads, Keep(t) PROVE ListInv'
  <2>1. UNCHANGED <<list, added, expunged, pending, content, known, event, missed, uid>>
    BY <1>20 DEF Keep, mailVars, viewVars, headerVars, eventVars
  <2>2. (view' = "filled" => view = "filled") /\ (view' = "closed" => view = "closed")
    BY <1>20 DEF Keep, viewVars
  <2>3. \A u \in Threads : (Maker(u)' <=> Maker(u)) /\ (Maker(u) => change'[u] = change[u])
    BY <1>20 DEF Keep, eventVars, Go, Maker, ControlTypes, ThreadTypes, HeaderTypes
  <2> QED BY <2>1, <2>2, <2>3, ListFrame
<1>21. ASSUME NEW t \in Threads, Post(t) PROVE ListInv'
  BY <1>21, ListPost
<1>22. ASSUME NEW t \in Threads, Drop(t) PROVE ListInv'
  <2>1. UNCHANGED <<list, added, expunged, pending, content, known, event, missed, uid>>
    BY <1>22 DEF Drop, mailVars, viewVars, headerVars
  <2>2. (view' = "filled" => view = "filled") /\ (view' = "closed" => view = "closed")
    BY <1>22 DEF Drop, viewVars
  <2>3. \A u \in Threads : (Maker(u)' <=> Maker(u)) /\ (Maker(u) => change'[u] = change[u])
    BY <1>22 DEF Drop, Go, Maker, ControlTypes, ThreadTypes, HeaderTypes
  <2> QED BY <2>1, <2>2, <2>3, ListFrame
<1>23. ASSUME NEW t \in Threads, Restore(t) PROVE ListInv'
  <2>1. UNCHANGED <<list, added, expunged, pending, content, known, event, missed, uid>>
    BY <1>23 DEF Restore, mailVars, viewVars, headerVars, eventVars
  <2>2. (view' = "filled" => view = "filled") /\ (view' = "closed" => view = "closed")
    BY <1>23 DEF Restore, viewVars
  <2>3. \A u \in Threads : (Maker(u)' <=> Maker(u)) /\ (Maker(u) => change'[u] = change[u])
    BY <1>23 DEF Restore, eventVars, Go, GoesOn, Maker, ControlTypes, ThreadTypes,
       HeaderTypes
  <2> QED BY <2>1, <2>2, <2>3, ListFrame
<1>24. ASSUME NEW t \in Threads, Finalize(t) PROVE ListInv'
  <2>1. UNCHANGED <<list, added, expunged, pending, content, known, event, missed, view,
                    change>>
    BY <1>24 DEF Finalize, mailVars, viewVars, eventVars
  <2>2. \A h \in Held : uid'[h] = uid[h]
    <3>1. CASE dropped[t] = {}
      BY <1>24, <3>1 DEF Finalize
    <3>2. CASE dropped[t] # {}
      <4>1. PICK d \in dropped[t] : uid' = [uid EXCEPT ![d] = Nothing]
        BY <1>24, <3>2 DEF Finalize
      <4> QED BY <4>1 DEF OwnInv, HeaderTypes
    <3> QED BY <3>1, <3>2
  <2>3. \A u \in Threads : Maker(u)' <=> Maker(u)
    <3>1. FreesHeaders(t) /\ pc[t] = "finalize"
      BY <1>24 DEF Finalize, FreesHeaders
    <3>2. after[t] \in {"restore", "settle", "free"}
      BY <3>1 DEF PlacesInv
    <3>3. Go(t, after[t]) \/ Go(t, "uncache") \/ Go(t, "finalize")
      BY <1>24, UnreasonCases DEF Finalize, ControlTypes
    <3> QED BY <3>1, <3>2, <3>3 DEF Go, Maker, ControlTypes, ThreadTypes
  <2> QED BY <2>1, <2>2, <2>3, ListFrame
<1>25. ASSUME NEW t \in Threads, Uncache(t) PROVE ListInv'
  <2>1. UNCHANGED <<list, added, expunged, pending, content, known, event, missed, uid,
                    view, change>>
    BY <1>25 DEF Uncache, mailVars, viewVars, headerVars, eventVars
  <2>2. then[t] \in {"finalize", "unlock", "free"}
    BY <1>25 DEF Uncache, PlacesInv, Unloading
  <2>3. \A u \in Threads : Maker(u)' <=> Maker(u)
    BY <1>25, <2>2 DEF Uncache, Go, Maker, ControlTypes, ThreadTypes
  <2> QED BY <2>1, <2>3, ListFrame
<1>26. ASSUME NEW t \in Threads, Join(t) PROVE ListInv'
  <2>1. UNCHANGED <<list, added, expunged, pending, content, known, event, missed, uid,
                    view, change>>
    BY <1>26 DEF Join, mailVars, viewVars, headerVars, eventVars
  <2>2. then[t] \in {"finalize", "unlock", "free"}
    BY <1>26 DEF Join, PlacesInv, Unloading
  <2>3. \A u \in Threads : Maker(u)' <=> Maker(u)
    BY <1>26, <2>2 DEF Join, Go, Maker, ControlTypes, ThreadTypes
  <2> QED BY <2>1, <2>3, ListFrame
<1>27. ASSUME Settle PROVE ListInv'
  <2>1. UNCHANGED <<list, added, expunged, pending, content, known, event, missed, uid,
                    view, change>>
    BY <1>27 DEF Settle, mailVars, viewVars, headerVars, eventVars
  <2>2. pc[Main] = "settle" /\ (Go(Main, "uncache") \/ Go(Main, "free"))
    BY <1>27, UnreasonCases DEF Settle, ControlTypes
  <2>3. \A u \in Threads : Maker(u)' <=> Maker(u)
    BY <2>2 DEF Go, Maker, ControlTypes, ThreadTypes
  <2> QED BY <2>1, <2>3, ListFrame
<1>28. ASSUME FlagSet PROVE ListInv'
  <2>1. UNCHANGED <<list, uid, added, expunged, content, known, view, event, change,
                    missed>>
    BY <1>28 DEF FlagSet, mailVars, viewVars, headerVars, eventVars
  <2>2. \A u \in Threads : Maker(u)' <=> Maker(u)
    BY <1>28 DEF FlagSet, Go, Maker, ControlTypes, ThreadTypes
  <2>3. CASE pending' = Append(pending, Nothing)
    BY <2>1, <2>2, <2>3, ListNothing
  <2>4. CASE pending' = pending
    BY <2>1, <2>2, <2>4, ListFrame
  <2> QED BY <1>28, <2>3, <2>4 DEF FlagSet, Notice
<1>29. ASSUME Begin PROVE ListInv'
  <2>1. UNCHANGED <<list, added, expunged, pending, content, known, event, missed, uid>>
    BY <1>29 DEF Begin, mailVars, viewVars, headerVars, eventVars
  <2>2. (view' = "filled" => view = "filled") /\ (view' = "closed" => view = "closed")
    BY <1>29 DEF Begin, viewVars
  <2>3. \A u \in Threads : (Maker(u)' <=> Maker(u)) /\ (Maker(u) => change'[u] = change[u])
    BY <1>29 DEF Begin, eventVars, Go, Maker, ControlTypes, ThreadTypes, HeaderTypes
  <2> QED BY <2>1, <2>2, <2>3, ListFrame
<1>30. ASSUME UNCHANGED vars PROVE ListInv'
  BY <1>30, ListFrame DEF vars, mailVars, viewVars, headerVars, eventVars, Maker
<1>31. ASSUME NEW t \in Threads, LocalSize(t) \/ Measure(t) PROVE ListInv'
  <2>1. UNCHANGED <<list, uid, added, expunged, content, known, view, event, change,
                    missed>>
    BY <1>31, SizeCases
  <2>2. \A u \in Threads : Maker(u)' <=> Maker(u)
    BY <1>31, SizeCases DEF Go, Maker, ControlTypes, ThreadTypes
  <2>3. CASE pending' = Append(pending, Nothing)
    BY <2>1, <2>2, <2>3, ListNothing
  <2>4. CASE pending' = pending
    BY <2>1, <2>2, <2>4, ListFrame
  <2> QED BY <1>31, <2>3, <2>4, SizeCases DEF Notice
<1> QED
  BY <1>1, <1>2, <1>3, <1>4, <1>5, <1>6, <1>7, <1>8, <1>9, <1>10, <1>11, <1>12, <1>13,
     <1>14, <1>15, <1>16, <1>17, <1>18, <1>19, <1>20, <1>21, <1>22, <1>23, <1>24, <1>25,
     <1>26, <1>27, <1>28, <1>29, <1>30, <1>31 DEF Next, User, Step

\* Both hold in the beginning.
LEMMA ListInit == Init => ListInv
<1> SUFFICES ASSUME Init PROVE ListInv
  OBVIOUS
<1>1. /\ pending = <<>> /\ list = {} /\ view = "closed" /\ known = content
      /\ \A t \in Threads : event[t] = NoEvent /\ ~Maker(t)
  BY DEF Init, Maker
<1>2. Posted = {} /\ Shown = {} /\ Len(pending) = 0
  BY <1>1 DEF Posted, Range, Shown
<1>3. \A k : ~Incoming(k)
  BY <1>1, <1>2 DEF Incoming
<1>4. \A u : ~AddComing(u)
  BY <1>1, <1>3 DEF AddComing, NoEvent
<1> QED BY <1>1, <1>2, <1>3, <1>4 DEF ListInv, KnownInv, OrderInv, ComesInv, NoEvent

\* Once all that folder_changed has posted has been delivered, the list that a monitor
\* keeps has the messages of the folder, unless an event was dropped or an update of
\* reason_to_live, at whose fall to zero the folder would go too early, was lost.
THEOREM FolderListConverges ==
  ASSUME ~LostUpdates
  PROVE  Spec => []ListConverges
<1>1. Init => FolderInv /\ ListInv
  BY FolderInit, ListInit
<1>2. (FolderInv /\ ListInv) /\ [Next]_vars => (FolderInv /\ ListInv)'
  BY FolderNext, ListStep
<1>3. FolderInv /\ ListInv => ListConverges
  <2> SUFFICES ASSUME FolderInv, ListInv, view = "filled", Delivered, ~missed
               PROVE  Shown = content
    BY DEF ListConverges
  <2>1. Posted = {}
    BY DEF Delivered, Posted, Range
  <2>2. \A t \in Threads : ~Maker(t) /\ event[t] = NoEvent
    BY QuietFacts DEF Delivered, FolderInv
  <2>3. \A u : ~AddComing(u) /\ ~DelComing(u)
    BY <2>1, <2>2 DEF AddComing, DelComing, Incoming, NoEvent
  <2>4. Shown \subseteq Uids
    BY DEF ListInv, KnownInv, FolderInv, MailTypes
  <2> QED BY <2>3, <2>4 DEF ListInv, ComesInv
<1> QED BY <1>1, <1>2, <1>3, PTL DEF Spec
=============================================================================
