----------------------- MODULE TnyFsStreamCacheProofs -----------------------
(***************************************************************************)
(* Proofs about the stream cache, for any sets of callers, ids, files and  *)
(* streams.                                                                *)
(*                                                                         *)
(* What the callers hold, what the streams are counted as and what the     *)
(* fetching threads write (HoldingInv, WritingInv) is kept by any number   *)
(* of callers.  That what is in the table is on disk under its name, and   *)
(* that there is room for it (TableFits), is kept when one caller at a     *)
(* time calls the cache: two that miss the same id both enter a file for   *)
(* it.                                                                     *)
(***************************************************************************)
EXTENDS TnyFsStreamCache, FiniteSetTheorems, WellFoundedInduction, TLAPS

----------------------------------------------------------------------------
(* NULL, sequences, and the sum of the sizes of a set of files.            *)

\* NULL is none of the objects.
LEMMA NothingElse ==
  /\ Nothing \notin Callers /\ Nothing \notin Ids /\ Nothing \notin Files
  /\ Nothing \notin Inodes /\ IsFiniteSet(Files) /\ IsFiniteSet(Streams)
  /\ \A i \in Ids : SizeOf[i] \in Nat /\ SizeOf[i] > 0
  /\ Surplus \subseteq Nat /\ MaxSizes \subseteq Nat
BY CacheAssumption

\* A sequence of the elements of a set has them all, each once.
LEMMA SeqsFacts ==
  ASSUME NEW S \in SUBSET Files, NEW l \in SetToSeqs(S)
  PROVE  /\ l \in Seq(Files) /\ ToSet(l) = S
         /\ \A m, n \in 1..Len(l) : l[m] = l[n] => m = n
<1> DEFINE n == Cardinality(S)
<1>1. IsFiniteSet(S) /\ n \in Nat
  BY CacheAssumption, FS_Subset, FS_CardinalityType
<1>2. l \in [1..n -> S] /\ \A i, j \in 1..n : i # j => l[i] # l[j]
  BY DEF SetToSeqs
<1> HIDE DEF n
<1>3. l \in Seq(S) /\ Len(l) = n /\ DOMAIN l = 1..n
  BY <1>1, <1>2
<1>4. l \in Injection(1..n, S)
  BY <1>2 DEF Injection, IsInjective
<1>5. IsFiniteSet(1..n) /\ Cardinality(1..n) = n
  BY <1>1, FS_Interval
<1>6. l \in Surjection(1..n, S)
  BY <1>1, <1>4, <1>5, FS_Injection DEF n
<1>7. ToSet(l) = S
  BY <1>2, <1>3, <1>6 DEF ToSet, Surjection
<1> QED BY <1>2, <1>3, <1>7

\* What is left when the first is taken.
LEMMA TailFacts ==
  ASSUME NEW l \in Seq(Files), l # <<>>
  PROVE  /\ Head(l) \in Files /\ Head(l) \in ToSet(l) /\ Tail(l) \in Seq(Files)
         /\ ToSet(Tail(l)) \subseteq ToSet(l)
         /\ (\A m, n \in 1..Len(l) : l[m] = l[n] => m = n) =>
              /\ ToSet(Tail(l)) = ToSet(l) \ {Head(l)}
              /\ \A m, n \in 1..Len(Tail(l)) : Tail(l)[m] = Tail(l)[n] => m = n
<1>1. /\ Len(l) \in Nat \ {0} /\ DOMAIN l = 1..Len(l) /\ Head(l) = l[1]
      /\ Tail(l) \in Seq(Files) /\ Len(Tail(l)) = Len(l) - 1
      /\ DOMAIN Tail(l) = 1..(Len(l) - 1)
      /\ \A m \in 1..(Len(l) - 1) : Tail(l)[m] = l[m + 1]
  OBVIOUS
<1>2. Head(l) \in Files /\ Head(l) \in ToSet(l) /\ ToSet(Tail(l)) \subseteq ToSet(l)
  BY <1>1 DEF ToSet
<1>3. ASSUME \A m, n \in 1..Len(l) : l[m] = l[n] => m = n
      PROVE  /\ ToSet(Tail(l)) = ToSet(l) \ {Head(l)}
             /\ \A m, n \in 1..Len(Tail(l)) : Tail(l)[m] = Tail(l)[n] => m = n
  <2>1. \A m \in 1..(Len(l) - 1) : m + 1 \in 1..Len(l) /\ m + 1 # 1
    BY <1>1
  <2>2. \A m \in 1..Len(l) : m # 1 => m - 1 \in 1..(Len(l) - 1) /\ (m - 1) + 1 = m
    BY <1>1
  <2>3. 1 \in 1..Len(l)
    BY <1>1
  <2>4. ToSet(Tail(l)) \subseteq ToSet(l) \ {Head(l)}
    BY <1>1, <1>3, <2>1, <2>3 DEF ToSet
  <2>5. ToSet(l) \ {Head(l)} \subseteq ToSet(Tail(l))
    <3> SUFFICES ASSUME NEW m \in 1..Len(l), l[m] # Head(l) PROVE l[m] \in ToSet(Tail(l))
      BY <1>1 DEF ToSet
    <3>1. m # 1 /\ m - 1 \in 1..(Len(l) - 1) /\ (m - 1) + 1 = m
      BY <1>1, <2>2
    <3>2. Tail(l)[m - 1] = l[m]
      BY <1>1, <3>1
    <3> QED BY <1>1, <3>1, <3>2 DEF ToSet
  <2>6. \A m, n \in 1..Len(Tail(l)) : Tail(l)[m] = Tail(l)[n] => m = n
    BY <1>1, <1>3, <2>1
  <2> QED BY <2>4, <2>5, <2>6
<1> QED BY <1>1, <1>2, <1>3

\* The larger of two.
LEMMA MaxIs == \A a, b \in Int : Max({a, b}) = IF a >= b THEN a ELSE b
<1> SUFFICES ASSUME NEW a \in Int, NEW b \in Int PROVE Max({a, b}) = IF a >= b THEN a ELSE b
  OBVIOUS
<1>1. \A x : x \in {a, b} /\ (\A y \in {a, b} : x >= y) <=> x = IF a >= b THEN a ELSE b
  OBVIOUS
<1> QED BY <1>1 DEF Max

\* The smaller of two.
LEMMA MinIs == \A a, b \in Int : Min({a, b}) = IF a <= b THEN a ELSE b
<1> SUFFICES ASSUME NEW a \in Int, NEW b \in Int PROVE Min({a, b}) = IF a <= b THEN a ELSE b
  OBVIOUS
<1>1. \A x : x \in {a, b} /\ (\A y \in {a, b} : x <= y) <=> x = IF a <= b THEN a ELSE b
  OBVIOUS
<1> QED BY <1>1 DEF Min

\* There is a least element in a set of numbers.
LEMMA Least ==
  ASSUME NEW T, T \subseteq Nat, T # {}
  PROVE  \E m \in T : \A n \in T : m <= n
<1> DEFINE R == OpToRel(<, Nat)
<1>1. IsWellFoundedOn(R, Nat)
  BY NatLessThanWellFounded
<1>2. \A x, y \in Nat : x < y => <<x, y>> \in R
  BY DEF OpToRel
<1> HIDE DEF R
<1>3. \E x \in T : \A y \in T : ~ (<<y, x>> \in R)
  BY <1>1, WFMin
<1>4. PICK m \in T : \A y \in T : ~ (<<y, m>> \in R)
  BY <1>3
<1>5. ASSUME NEW n \in T PROVE m <= n
  <2>1. m \in Nat /\ n \in Nat
    BY <1>4
  <2>2. ~ (n < m)
    BY <1>2, <1>4, <2>1
  <2> QED BY <2>1, <2>2
<1> QED BY <1>5

\* What MapThenSumSet makes of a function e and a set S.
Picked(S) == CHOOSE x \in S : TRUE
IsSumFcn(it, e, S) ==
  it = [s \in SUBSET S |-> IF s = {} THEN 0
                        ELSE e[CHOOSE x \in s : TRUE] + it[s \ {CHOOSE x \in s : TRUE}]]
SumFcn(e, S) == CHOOSE it : IsSumFcn(it, e, S)
Total(e, S) == SumFcn(e, S)[S]

\* There is such a function on the finite sets
LEMMA SumExists ==
  ASSUME NEW S, IsFiniteSet(S), NEW e
  PROVE  \E it : IsSumFcn(it, e, S)
<1> DEFINE D(n) == {s \in SUBSET S : Cardinality(s) <= n}
           Rest(s) == s \ {CHOOSE x \in s : TRUE}
           Body(s, it) == IF s = {} THEN 0 ELSE e[CHOOSE x \in s : TRUE] + it[Rest(s)]
           Good(n) == \E it : it = [s \in D(n) |-> Body(s, it)]
           Bad == {n \in Nat : ~Good(n)}
<1>1. \A s \in SUBSET S : IsFiniteSet(s) /\ Cardinality(s) \in Nat
  BY FS_Subset, FS_CardinalityType
<1>2. \A s \in SUBSET S : s # {} => /\ Rest(s) \in SUBSET S
                                    /\ Cardinality(Rest(s)) = Cardinality(s) - 1
  <2> SUFFICES ASSUME NEW s \in SUBSET S, s # {}
               PROVE  Rest(s) \in SUBSET S /\ Cardinality(Rest(s)) = Cardinality(s) - 1
    OBVIOUS
  <2>1. PICK x : x = CHOOSE y \in s : TRUE
    OBVIOUS
  <2>2. x \in s
    BY <2>1
  <2>3. Cardinality(s \ {x}) = Cardinality(s) - 1
    BY <1>1, <2>2, FS_RemoveElement
  <2>4. Rest(s) = s \ {x}
    BY <2>1
  <2> QED BY <2>3, <2>4
<1>3. \A s \in D(0) : s = {}
  BY <1>1, FS_EmptySet
<1>4. Good(0)
  <2> DEFINE it == [s \in D(0) |-> 0]
  <2>1. it = [s \in D(0) |-> Body(s, it)]
    BY <1>3
  <2> QED BY <2>1
<1>5. ASSUME NEW n \in Nat, Good(n) PROVE Good(n + 1)
  <2>1. PICK f : f = [s \in D(n) |-> Body(s, f)]
    BY <1>5
  <2>2. D(n) \subseteq D(n + 1) /\ \A s \in D(n + 1) : s # {} => Rest(s) \in D(n)
    BY <1>1, <1>2
  <2> HIDE DEF D, Rest
  <2>3. PICK it : it = [s \in D(n + 1) |-> Body(s, f)]
    OBVIOUS
  <2>4. \A s \in D(n) : it[s] = f[s]
    <3> HIDE DEF Body
    <3> QED BY <2>1, <2>2, <2>3
  <2>5. \A s \in D(n + 1) : Body(s, f) = Body(s, it)
    BY <2>2, <2>4
  <2>6. it = [s \in D(n + 1) |-> Body(s, it)]
    <3> HIDE DEF Body
    <3> QED BY <2>3, <2>5
  <2> QED BY <2>6 DEF D, Rest
<1> HIDE DEF Good
<1>6. Bad = {}
  <2> SUFFICES ASSUME Bad # {} PROVE FALSE
    OBVIOUS
  <2>1. PICK m \in Bad : \A n \in Bad : m <= n
    BY Least
  <2>2. m \in Nat /\ ~Good(m) /\ m # 0
    BY <1>4, <2>1
  <2>3. m - 1 \in Nat /\ m - 1 \notin Bad
    BY <2>1, <2>2
  <2>4. Good((m - 1) + 1)
    BY <1>5, <2>3
  <2> QED BY <2>2, <2>4
<1>7. D(Cardinality(S)) = SUBSET S
  BY <1>1, FS_Subset
<1>8. Good(Cardinality(S))
  BY <1>1, <1>6
<1> QED BY <1>7, <1>8 DEF Good, IsSumFcn

\* It adds up the subsets of S, one element after the other.
LEMMA SumRecurs ==
  ASSUME NEW S, IsFiniteSet(S), NEW e, NEW s \in SUBSET S
  PROVE  SumFcn(e, S)[s] = IF s = {} THEN 0
                           ELSE e[Picked(s)] + SumFcn(e, S)[s \ {Picked(s)}]
<1>1. IsSumFcn(SumFcn(e, S), e, S)
  BY SumExists DEF SumFcn
<1>2. PICK f : f = SumFcn(e, S)
  OBVIOUS
<1>3. f[s] = IF s = {} THEN 0 ELSE e[CHOOSE x \in s : TRUE] + f[s \ {CHOOSE x \in s : TRUE}]
  BY <1>1, <1>2 DEF IsSumFcn
<1> QED BY <1>2, <1>3 DEF Picked

\* Nothing smaller is a counterexample: the finite sets, by their size.
LEMMA Smallest ==
  ASSUME NEW Bad, \A S \in Bad : IsFiniteSet(S), Bad # {}
  PROVE  \E S \in Bad : \A T \in Bad : Cardinality(S) <= Cardinality(T)
<1> DEFINE Sizes == {Cardinality(S) : S \in Bad}
<1>1. Sizes \subseteq Nat /\ Sizes # {}
  BY FS_CardinalityType
<1>2. PICK n \in Sizes : \A m \in Sizes : n <= m
  BY <1>1, Least
<1> QED BY <1>2

\* What is picked leaves a smaller set.
LEMMA PickedLeaves ==
  ASSUME NEW S, IsFiniteSet(S), S # {}
  PROVE  /\ Picked(S) \in S /\ IsFiniteSet(S \ {Picked(S)})
         /\ ~ (Cardinality(S) <= Cardinality(S \ {Picked(S)}))
<1>1. Picked(S) \in S
  BY DEF Picked
<1>2. IsFiniteSet(S \ {Picked(S)}) /\ Cardinality(S \ {Picked(S)}) = Cardinality(S) - 1
  BY <1>1, FS_RemoveElement
<1>3. Cardinality(S) \in Nat
  BY FS_CardinalityType
<1> QED BY <1>1, <1>2, <1>3

\* It does not matter which set a subset is taken from.
LEMMA SumsAgree ==
  ASSUME NEW S, IsFiniteSet(S), NEW e, NEW t \in SUBSET S
  PROVE  SumFcn(e, S)[t] = Total(e, t)
<1> DEFINE Bad == {s \in SUBSET S : \E T, U \in SUBSET S :
                     s \subseteq T /\ s \subseteq U /\ SumFcn(e, T)[s] # SumFcn(e, U)[s]}
<1>1. \A s \in SUBSET S : IsFiniteSet(s)
  BY FS_Subset
<1>2. Bad = {}
  <2> SUFFICES ASSUME Bad # {} PROVE FALSE
    OBVIOUS
  <2>1. PICK s \in Bad : \A u \in Bad : Cardinality(s) <= Cardinality(u)
    BY <1>1, Smallest
  <2>2. PICK T \in SUBSET S, U \in SUBSET S :
          s \subseteq T /\ s \subseteq U /\ SumFcn(e, T)[s] # SumFcn(e, U)[s]
    BY <2>1
  <2>3. IsFiniteSet(T) /\ IsFiniteSet(U) /\ IsFiniteSet(s)
    BY <1>1, <2>1
  <2>4. s # {}
    BY <2>2, <2>3, SumRecurs
  <2> DEFINE r == s \ {Picked(s)}
  <2>5. r \subseteq T /\ r \subseteq U /\ r \subseteq S /\ r \notin Bad
    BY <2>1, <2>2, <2>3, <2>4, PickedLeaves
  <2>6. SumFcn(e, T)[r] = SumFcn(e, U)[r]
    BY <2>5
  <2>7. SumFcn(e, T)[s] = e[Picked(s)] + SumFcn(e, T)[r]
    BY <2>2, <2>3, <2>4, SumRecurs
  <2>8. SumFcn(e, U)[s] = e[Picked(s)] + SumFcn(e, U)[r]
    BY <2>2, <2>3, <2>4, SumRecurs
  <2> QED BY <2>2, <2>6, <2>7, <2>8
<1> QED BY <1>2 DEF Total

\* The total of a set is that of the rest and what is picked.
LEMMA TotalRecurs ==
  ASSUME NEW S, IsFiniteSet(S), NEW e
  PROVE  /\ Total(e, {}) = 0
         /\ S # {} => Total(e, S) = e[Picked(S)] + Total(e, S \ {Picked(S)})
<1>1. Total(e, {}) = 0
  BY FS_EmptySet, SumRecurs DEF Total
<1>2. ASSUME S # {} PROVE Total(e, S) = e[Picked(S)] + Total(e, S \ {Picked(S)})
  <2>1. SumFcn(e, S)[S \ {Picked(S)}] = Total(e, S \ {Picked(S)})
    BY SumsAgree
  <2>2. SumFcn(e, S)[S] = e[Picked(S)] + SumFcn(e, S)[S \ {Picked(S)}]
    BY <1>2, SumRecurs
  <2> QED BY <2>1, <2>2 DEF Total
<1> QED BY <1>1, <1>2

\* The total of numbers is a number.
LEMMA TotalNat ==
  ASSUME NEW S, IsFiniteSet(S), NEW e, \A x \in S : e[x] \in Nat
  PROVE  Total(e, S) \in Nat
<1> DEFINE Bad == {s \in SUBSET S : Total(e, s) \notin Nat}
<1>1. \A s \in SUBSET S : IsFiniteSet(s)
  BY FS_Subset
<1>2. Bad = {}
  <2> SUFFICES ASSUME Bad # {} PROVE FALSE
    OBVIOUS
  <2>1. PICK s \in Bad : \A u \in Bad : Cardinality(s) <= Cardinality(u)
    BY <1>1, Smallest
  <2>2. IsFiniteSet(s) /\ s # {}
    <3>1. Total(e, {}) = 0
      BY FS_EmptySet, TotalRecurs
    <3> QED BY <1>1, <2>1, <3>1
  <2>3. Picked(s) \in s /\ s \ {Picked(s)} \notin Bad
    BY <2>1, <2>2, PickedLeaves
  <2>4. Total(e, s \ {Picked(s)}) \in Nat /\ e[Picked(s)] \in Nat
    BY <2>1, <2>3
  <2>5. Total(e, s) = e[Picked(s)] + Total(e, s \ {Picked(s)})
    BY <2>2, TotalRecurs
  <2> QED BY <2>1, <2>4, <2>5
<1> QED BY <1>2

\* The order does not matter: any element may be the last.
LEMMA TotalAdd ==
  ASSUME NEW S, IsFiniteSet(S), NEW e, \A x \in S : e[x] \in Nat, NEW y \in S
  PROVE  Total(e, S) = e[y] + Total(e, S \ {y})
<1> DEFINE Bad == {s \in SUBSET S : \E z \in s : Total(e, s) # e[z] + Total(e, s \ {z})}
<1>1. \A s \in SUBSET S : IsFiniteSet(s)
  BY FS_Subset
<1>2. \A s \in SUBSET S : Total(e, s) \in Nat
  BY <1>1, TotalNat
<1>3. Bad = {}
  <2> SUFFICES ASSUME Bad # {} PROVE FALSE
    OBVIOUS
  <2>1. PICK s \in Bad : \A u \in Bad : Cardinality(s) <= Cardinality(u)
    BY <1>1, Smallest
  <2>2. PICK z \in s : Total(e, s) # e[z] + Total(e, s \ {z})
    BY <2>1
  <2>3. IsFiniteSet(s) /\ s # {}
    BY <1>1, <2>1, <2>2
  <2>4. PICK p : p = Picked(s)
    OBVIOUS
  <2>5. p \in s /\ Total(e, s) = e[p] + Total(e, s \ {p}) /\ s \ {p} \notin Bad
    BY <2>1, <2>3, <2>4, PickedLeaves, TotalRecurs
  <2>6. p # z
    BY <2>2, <2>5
  <2>7. Total(e, s \ {p}) = e[z] + Total(e, (s \ {p}) \ {z})
    BY <2>1, <2>5, <2>6
  <2>8. s \ {z} \notin Bad
    <3>1. Cardinality(s \ {z}) = Cardinality(s) - 1 /\ Cardinality(s) \in Nat
      BY <2>3, FS_RemoveElement, FS_CardinalityType
    <3> QED BY <2>1, <3>1
  <2>9. Total(e, s \ {z}) = e[p] + Total(e, (s \ {z}) \ {p})
    BY <2>1, <2>5, <2>6, <2>8
  <2>10. Total(e, (s \ {z}) \ {p}) = Total(e, (s \ {p}) \ {z})
    <3>1. (s \ {p}) \ {z} = (s \ {z}) \ {p}
      OBVIOUS
    <3> QED BY <3>1
  <2>11. e[z] \in Nat /\ e[p] \in Nat /\ Total(e, (s \ {p}) \ {z}) \in Nat
    BY <1>2, <2>1, <2>5
  <2> QED BY <2>2, <2>5, <2>7, <2>9, <2>10, <2>11
<1> QED BY <1>3

\* A smaller set of smaller sizes has a smaller total.
LEMMA TotalMono ==
  ASSUME NEW T, IsFiniteSet(T), NEW S \in SUBSET T, NEW e, NEW d,
         \A x \in T : e[x] \in Nat /\ d[x] \in Nat,
         \A x \in S : e[x] <= d[x]
  PROVE  Total(e, S) <= Total(d, T)
<1> DEFINE Bad == {t \in SUBSET T : ~ (Total(e, S \cap t) <= Total(d, t))}
<1>1. \A s \in SUBSET T : IsFiniteSet(s)
  BY FS_Subset
<1>2. \A s \in SUBSET T : Total(e, s) \in Nat /\ Total(d, s) \in Nat
  BY <1>1, TotalNat
<1>3. Bad = {}
  <2> SUFFICES ASSUME Bad # {} PROVE FALSE
    OBVIOUS
  <2>1. PICK t \in Bad : \A u \in Bad : Cardinality(t) <= Cardinality(u)
    BY <1>1, Smallest
  <2>2. IsFiniteSet(t) /\ ~ (Total(e, S \cap t) <= Total(d, t))
    BY <1>1, <2>1
  <2>3. t # {}
    <3> SUFFICES ASSUME t = {} PROVE FALSE
      OBVIOUS
    <3>1. S \cap t = {}
      OBVIOUS
    <3>2. Total(e, {}) = 0 /\ Total(d, {}) = 0
      BY FS_EmptySet, TotalRecurs
    <3> QED BY <2>2, <3>1, <3>2
  <2>4. PICK p : p = Picked(t)
    OBVIOUS
  <2>5. p \in t /\ Total(d, t) = d[p] + Total(d, t \ {p}) /\ t \ {p} \notin Bad
    BY <2>1, <2>2, <2>3, <2>4, PickedLeaves, TotalRecurs
  <2>6. Total(e, S \cap (t \ {p})) <= Total(d, t \ {p})
    BY <2>1, <2>5
  <2>7. d[p] \in Nat /\ Total(e, S \cap (t \ {p})) \in Nat /\ Total(d, t \ {p}) \in Nat
    BY <1>2, <2>1, <2>5
  <2>8. CASE p \in S
    <3>1. Total(e, S \cap t) = e[p] + Total(e, (S \cap t) \ {p})
      BY <1>1, <2>1, <2>5, <2>8, TotalAdd
    <3>2. (S \cap t) \ {p} = S \cap (t \ {p})
      OBVIOUS
    <3>3. e[p] \in Nat /\ e[p] <= d[p]
      BY <2>8
    <3> QED BY <2>2, <2>5, <2>6, <2>7, <3>1, <3>2, <3>3
  <2>9. CASE p \notin S
    <3>1. Total(e, S \cap (t \ {p})) = Total(e, S \cap t)
      <4>1. S \cap (t \ {p}) = S \cap t
        BY <2>9
      <4> QED BY <4>1
    <3> QED BY <2>2, <2>5, <2>6, <2>7, <3>1
  <2> QED BY <2>8, <2>9
<1>4. S \cap T = S
  OBVIOUS
<1> QED BY <1>3, <1>4

\* What the cache counts is such a total.
LEMMA SumIsTotal == \A S : SumOf(S) = Total(expected, S)
BY DEF SumOf, MapThenSumSet, MapThenFoldSet, IsSumFcn, SumFcn, Total

\* And so is what it counts after a step.
LEMMA SumOfNext == SumOf(Entries)' = Total(expected', Entries')
BY DEF SumOf, MapThenSumSet, MapThenFoldSet, IsSumFcn, SumFcn, Total

\* The free space is what the table leaves of max_size.
LEMMA FreeSpaceIs ==
  /\ FreeSpace = max_size - Total(expected, Entries)
  /\ FreeSpace' = max_size' - Total(expected', Entries')
<1>1. FreeSpace = max_size - Total(expected, Entries)
  BY SumIsTotal DEF FreeSpace
<1> QED BY <1>1, SumOfNext DEF FreeSpace

\* It is a number.
LEMMA FreeSpaceInt == TypeOK => FreeSpace \in Int
<1> SUFFICES ASSUME TypeOK PROVE FreeSpace \in Int
  OBVIOUS
<1>1. IsFiniteSet(Entries) /\ \A f \in Entries : expected[f] \in Nat
  <2>1. Entries \in SUBSET Files
    BY DEF Entries, TypeOK
  <2> QED BY <2>1, NothingElse, FS_Subset DEF TypeOK
<1>2. Total(expected, Entries) \in Nat /\ max_size \in Nat
  BY <1>1, TotalNat, NothingElse DEF TypeOK
<1> QED BY <1>2, FreeSpaceIs

----------------------------------------------------------------------------
(* The parts of the invariant that hold for any number of callers.         *)

\* Where a caller uses an id or a file, it has one; the filter that has cache_lock is
\* about to remove its entry.
Held(c) ==
  /\ pc[c] \notin {"mark", "unlink"} => cache_lock # c
  /\ pc[c] \in {"mark", "unlink"} /\ cache_lock = c => want[c] \in Ids
  /\ pc[c] \in {"fetch", "new", "insert"} => want[c] \in Ids
  /\ pc[c] \in {"mark", "unlink", "insert", "choose", "open_tmp", "open_final",
                "register"} => cached_file[c] \in Files /\ id[cached_file[c]] \in Ids
  /\ pc[c] = "insert" => id[cached_file[c]] = want[c]
  /\ \A g \in ToSet(old[c]) : id[g] \in Ids
CallInv == \A c \in Callers : Held(c)

\* An object that is not used yet has no thread and nothing fetched.
ThreadInv ==
  \A f \in Files :
    /\ fpc[f] # "none" => id[f] \in Ids
    /\ id[f] = Nothing => fetched[f] = 0 /\ ~invalid[f] /\ write_fd[f] = Nothing

\* The key of an entry is the id of its file.
KeyInv == \A i \in Ids : cached_files[i] # Nothing => id[cached_files[i]] = i

\* Each open stream on a file is counted.
Reading(f) == {s \in Streams : file[s] = f /\ position[s] # -1}
CountInv == \A f \in Files : Cardinality(Reading(f)) <= active_ops[f]

\* The types in parts.
TableTypes  == /\ cached_files \in [Ids -> Files \cup {Nothing}] /\ max_size \in MaxSizes
               /\ cache_lock \in Callers \cup {Nothing}
FileTypes   == /\ id \in [Files -> Ids \cup {Nothing}]
               /\ expected \in [Files -> Nat] /\ fetched \in [Files -> Nat]
               /\ invalid \in [Files -> BOOLEAN] /\ pending_close \in [Files -> BOOLEAN]
               /\ active_ops \in [Files -> Nat]
ThreadTypes == fpc \in [Files -> FetchPc] /\ write_fd \in [Files -> Inodes \cup {Nothing}]
DiskTypes   == /\ tmp \in [Ids -> Inodes \cup {Nothing}]
               /\ final \in [Ids -> Inodes \cup {Nothing}] /\ data \in [Inodes -> Nat]
               /\ overlap \subseteq Ids
CallerTypes == /\ pc \in [Callers -> CallerPc] /\ want \in [Callers -> Ids \cup {Nothing}]
               /\ required \in [Callers -> Nat]
               /\ cached_file \in [Callers -> Files \cup {Nothing}]
               /\ old \in [Callers -> Seq(Files)] /\ available \in [Callers -> Int]
               /\ new_fd \in [Callers -> Inodes \cup {Nothing}]
StreamTypes == /\ file \in [Streams -> Files \cup {Nothing}]
               /\ fd \in [Streams -> Inodes \cup {Nothing}]
               /\ position \in [Streams -> Int] /\ stuck \subseteq Streams

\* They are TypeOK.
LEMMA TypeParts == TypeOK <=> /\ TableTypes /\ FileTypes /\ ThreadTypes /\ DiskTypes
                              /\ CallerTypes /\ StreamTypes
BY DEF TypeOK, TableTypes, FileTypes, ThreadTypes, DiskTypes, CallerTypes, StreamTypes

\* A caller that returns has forgotten all.
LEMMA ReturnTypes ==
  ASSUME CallerTypes, NEW c \in Callers, Return(c) PROVE CallerTypes'
<1>1. <<>> \in Seq(Files) /\ Nothing \in Ids \cup {Nothing} /\ "free" \in CallerPc
  BY DEF CallerPc
<1> QED BY <1>1 DEF Return, Go, CallerTypes

----------------------------------------------------------------------------
(* What some actions do, without CHOOSE.                                   *)

\* A stream that is not in use is taken.
LEMMA RegisterFacts ==
  ASSUME NEW c \in Callers, Register(c)
  PROVE  \E s \in Streams : /\ file[s] = Nothing
                            /\ file' = [file EXCEPT ![s] = cached_file[c]]
                            /\ fd' = [fd EXCEPT ![s] = new_fd[c]]
                            /\ position' = [position EXCEPT ![s] = 0]
<1>1. \E s \in Streams : file[s] = Nothing
  BY DEF Register
<1>2. PICK s : s = CHOOSE t \in Streams : file[t] = Nothing
  OBVIOUS
<1>3. s \in Streams /\ file[s] = Nothing
  BY <1>1, <1>2
<1> QED BY <1>2, <1>3 DEF Register

\* The file f is new, and has <id>.tmp open, a new inode or no descriptor.
NewFile(c, f) ==
  /\ id[f] = Nothing
  /\ cached_file' = [cached_file EXCEPT ![c] = f] /\ id' = [id EXCEPT ![f] = want[c]]
  /\ expected' = [expected EXCEPT ![f] = required[c]] /\ FGo(f, "loop")
  /\ \/ /\ tmp[want[c]] # Nothing /\ write_fd' = [write_fd EXCEPT ![f] = tmp[want[c]]]
        /\ UNCHANGED <<tmp, data>>
     \/ \E n \in Inodes : /\ UnusedInode(n) /\ tmp[want[c]] = Nothing
                          /\ write_fd' = [write_fd EXCEPT ![f] = n]
                          /\ tmp' = [tmp EXCEPT ![want[c]] = n]
                          /\ data' = [data EXCEPT ![n] = 0]
     \/ write_fd' = [write_fd EXCEPT ![f] = Nothing] /\ UNCHANGED <<tmp, data>>

\* tny_cached_file_new takes an object that is not in use.
LEMMA NewFacts ==
  ASSUME NEW c \in Callers, New(c) PROVE \E f \in Files : NewFile(c, f)
<1>1. PICK f : f = CHOOSE g \in Files : Unused(g)
  OBVIOUS
<1>2. f \in Files /\ id[f] = Nothing
  BY <1>1 DEF New, Unused
<1>3. /\ cached_file' = [cached_file EXCEPT ![c] = f]
      /\ id' = [id EXCEPT ![f] = want[c]]
      /\ expected' = [expected EXCEPT ![f] = required[c]] /\ FGo(f, "loop")
  BY <1>1 DEF New
<1>4. CASE tmp[want[c]] # Nothing /\ write_fd' = [write_fd EXCEPT ![f] = tmp[want[c]]]
           /\ UNCHANGED <<tmp, data>>
  BY <1>2, <1>3, <1>4 DEF NewFile
<1>5. CASE write_fd' = [write_fd EXCEPT ![f] = Nothing] /\ UNCHANGED <<tmp, data>>
  BY <1>2, <1>3, <1>5 DEF NewFile
<1>6. ASSUME tmp[want[c]] = Nothing, \E n \in Inodes : UnusedInode(n),
             NEW n, n = CHOOSE m \in Inodes : UnusedInode(m),
             write_fd' = [write_fd EXCEPT ![f] = n],
             tmp' = [tmp EXCEPT ![want[c]] = n], data' = [data EXCEPT ![n] = 0]
      PROVE  NewFile(c, f)
  <2>1. n \in Inodes /\ UnusedInode(n)
    BY <1>6
  <2> QED BY <1>2, <1>3, <1>6, <2>1 DEF NewFile
<1> QED BY <1>1, <1>2, <1>4, <1>5, <1>6 DEF New

\* fill_from_cache: g gives a file object to each name.
Refilled(g) ==
  /\ IsInjective(g)
  /\ cached_files' = [i \in Ids |-> IF i \in OnDisk THEN g[i] ELSE Nothing]
  /\ id' \in [Files -> Ids \cup {Nothing}] /\ expected' \in [Files -> Nat]
  /\ fetched' = expected'
  /\ \A i \in OnDisk : id'[g[i]] = i /\ expected'[g[i]] = data[final[i]]
  /\ \A f \in Files : id'[f] # Nothing => \E i \in OnDisk : f = g[i]
  /\ \A f \in Files : id'[f] = Nothing => expected'[f] = 0

\* fill_from_cache finds such objects.
LEMMA RestartFacts ==
  ASSUME TypeOK, NEW size \in MaxSizes, Restart(size)
  PROVE  \E g \in [OnDisk -> Files] : Refilled(g)
<1>1. PICK g : g = CHOOSE h \in [OnDisk -> Files] : IsInjective(h)
  OBVIOUS
<1>2. g \in [OnDisk -> Files] /\ IsInjective(g)
  BY <1>1 DEF Restart
<1>3. PICK found : found = Range(g)
  OBVIOUS
<1>4. PICK inv : inv = Inverse(g, OnDisk, found)
  OBVIOUS
<1>5. PICK sizes : sizes = [f \in Files |-> IF f \in found THEN data[final[inv[f]]] ELSE 0]
  OBVIOUS
<1>6. /\ cached_files' = [i \in Ids |-> IF i \in OnDisk THEN g[i] ELSE Nothing]
      /\ id' = [f \in Files |-> IF f \in found THEN inv[f] ELSE Nothing]
      /\ expected' = sizes /\ fetched' = sizes
  BY <1>1, <1>3, <1>4, <1>5 DEF Restart
<1>7. found = {g[i] : i \in OnDisk}
  BY <1>2, <1>3 DEF Range
<1>8. \A i \in OnDisk : inv[g[i]] = i
  <2> SUFFICES ASSUME NEW i \in OnDisk PROVE inv[g[i]] = i
    OBVIOUS
  <2>1. inv[g[i]] = CHOOSE s \in OnDisk : g[i] \in Range(g) => g[s] = g[i]
    BY <1>4, <1>7 DEF Inverse
  <2>2. g[i] \in Range(g)
    BY <1>3, <1>7
  <2>3. PICK k : k = CHOOSE s \in OnDisk : g[i] \in Range(g) => g[s] = g[i]
    OBVIOUS
  <2>4. k \in OnDisk /\ g[k] = g[i]
    BY <2>2, <2>3
  <2> QED BY <1>2, <2>1, <2>3, <2>4 DEF IsInjective
<1>9. OnDisk \subseteq Ids /\ \A i \in OnDisk : final[i] \in Inodes
  BY DEF OnDisk, TypeOK
<1>10. \A f \in found : \E i \in OnDisk : f = g[i] /\ inv[f] = i
  BY <1>7, <1>8
<1>11. id' \in [Files -> Ids \cup {Nothing}] /\ sizes \in [Files -> Nat]
  <2>1. \A f \in found : inv[f] \in Ids /\ data[final[inv[f]]] \in Nat
    BY <1>9, <1>10 DEF TypeOK
  <2> QED BY <1>5, <1>6, <2>1
<1>12. \A i \in OnDisk : g[i] \in Files /\ g[i] \in found
  BY <1>2, <1>7
<1>13. \A i \in OnDisk : id'[g[i]] = i /\ expected'[g[i]] = data[final[i]]
  BY <1>5, <1>6, <1>8, <1>12
<1>14. \A f \in Files : id'[f] # Nothing => \E i \in OnDisk : f = g[i]
  BY <1>6, <1>10
<1>15. \A f \in Files : id'[f] = Nothing => expected'[f] = 0
  <2> SUFFICES ASSUME NEW f \in Files, id'[f] = Nothing PROVE expected'[f] = 0
    OBVIOUS
  <2>1. f \notin found
    BY <1>6, <1>9, <1>10, NothingElse
  <2> QED BY <1>5, <1>6, <2>1
<1> QED BY <1>2, <1>6, <1>11, <1>13, <1>14, <1>15 DEF Refilled

\* They have their types.
LEMMA RefilledFacts ==
  ASSUME NEW g \in [OnDisk -> Files], Refilled(g)
  PROVE  /\ cached_files' \in [Ids -> Files \cup {Nothing}]
         /\ id' \in [Files -> Ids \cup {Nothing}]
         /\ expected' \in [Files -> Nat] /\ fetched' \in [Files -> Nat]
<1>1. \A i \in OnDisk : g[i] \in Files
  OBVIOUS
<1> QED BY <1>1 DEF Refilled

\* What a turn of the eviction loop does.
EvictOne(c) ==
  /\ old[c] # <<>> /\ Go(c, "mark")
  /\ available' = [available EXCEPT ![c] = @ + expected[Head(old[c])]]
  /\ cached_files' = [cached_files EXCEPT ![id[Head(old[c])]] = Nothing]
  /\ cached_file' = [cached_file EXCEPT ![c] = Head(old[c])]
  /\ old' = [old EXCEPT ![c] = Tail(@)]
  /\ UNCHANGED <<want, required, new_fd>>
EvictEnds(c) ==
  /\ available[c] >= required[c] /\ want[c] # Nothing
  /\ old' = [old EXCEPT ![c] = <<>>] /\ Go(c, "new")
  /\ UNCHANGED <<cached_files, want, required, cached_file, available, new_fd>>

\* A turn of the loop returns, ends the loop, finds the list exhausted or evicts.
LEMMA EvictCases ==
  ASSUME NEW c \in Callers, Evict(c)
  PROVE  /\ pc[c] = "evict" /\ cache_lock = Nothing
         /\ UNCHANGED <<max_size, cache_lock, fileVars, threadVars, diskVars, streamVars>>
         /\ \/ want[c] = Nothing /\ Return(c) /\ UNCHANGED cached_files
            \/ EvictEnds(c)
            \/ old[c] = <<>> /\ Go(c, "dead") /\ UNCHANGED <<cached_files, callerVars>>
            \/ EvictOne(c)
<1>1. /\ pc[c] = "evict" /\ cache_lock = Nothing
      /\ UNCHANGED <<max_size, cache_lock, fileVars, threadVars, diskVars, streamVars>>
  BY DEF Evict
<1>2. CASE available[c] >= required[c] /\ want[c] = Nothing
  <2>1. Return(c) /\ UNCHANGED cached_files
    BY <1>2, Zenon DEF Evict
  <2> QED BY <1>1, <1>2, <2>1
<1>3. CASE available[c] >= required[c] /\ want[c] # Nothing
  <2>1. EvictEnds(c)
    BY <1>3, Zenon DEF Evict, EvictEnds
  <2> QED BY <1>1, <2>1
<1>4. CASE ~ (available[c] >= required[c]) /\ old[c] = <<>>
  <2>1. Go(c, "dead") /\ UNCHANGED <<cached_files, callerVars>>
    BY <1>4, Zenon DEF Evict
  <2> QED BY <1>1, <1>4, <2>1
<1>5. CASE ~ (available[c] >= required[c]) /\ old[c] # <<>>
  <2>1. EvictOne(c)
    BY <1>5, Zenon DEF Evict, EvictOne
  <2> QED BY <1>1, <2>1
<1> QED BY <1>2, <1>3, <1>4, <1>5

\* What tny_cached_file_remove leaves to its caller.
LEMMA RemovedCases ==
  ASSUME NEW c \in Callers, Removed(c)
  PROVE  \/ /\ cache_lock = c /\ cache_lock' = Nothing /\ Return(c)
            /\ cached_files' = [cached_files EXCEPT ![want[c]] = Nothing]
         \/ /\ cache_lock # c /\ Go(c, "evict")
            /\ UNCHANGED <<cached_files, cache_lock, callerVars>>
BY Zenon DEF Removed

\* The caller returns without a stream, or opens one of the names.
LEMMA ChooseCases ==
  ASSUME NEW c \in Callers, Choose(c)
  PROVE  /\ pc[c] = "choose"
         /\ UNCHANGED <<cacheVars, fileVars, threadVars, diskVars, streamVars>>
         /\ \/ Return(c)
            \/ (Go(c, "open_tmp") \/ Go(c, "open_final")) /\ UNCHANGED callerVars
<1>1. CASE invalid[cached_file[c]]
  BY <1>1, Zenon DEF Choose
<1>2. CASE ~invalid[cached_file[c]] /\ Fetching(cached_file[c])
  BY <1>2, Zenon DEF Choose
<1>3. CASE ~invalid[cached_file[c]] /\ ~Fetching(cached_file[c])
  BY <1>3, Zenon DEF Choose
<1> QED BY <1>1, <1>2, <1>3

\* What a turn of the fetching thread does.
Writes(f) ==
  /\ write_fd[f] # Nothing /\ fetched' = [fetched EXCEPT ![f] = @ + 1]
  /\ data' = [data EXCEPT ![write_fd[f]] = Max({@, fetched[f] + 1})]
  /\ UNCHANGED <<invalid, fpc>>
Fails(f) ==
  /\ invalid' = [invalid EXCEPT ![f] = TRUE] /\ (FGo(f, "end") \/ FGo(f, "drain"))
  /\ UNCHANGED <<fetched, data>>

\* What is read is written, or the thread gives up.
LEMMA ChunkCases ==
  ASSUME NEW f \in Files, FetchChunk(f)
  PROVE  /\ fpc[f] = "loop" /\ fetched[f] < SizeOf[id[f]]
         /\ UNCHANGED <<cacheVars, id, expected, pending_close, active_ops,
                        write_fd, tmp, final, overlap, pc, callerVars, streamVars>>
         /\ Writes(f) \/ Fails(f)
BY DEF FetchChunk, Writes, Fails

\* The name is gone, or becomes the final one.
LEMMA RenameCases ==
  ASSUME NEW f \in Files, FetchRename(f)
  PROVE  /\ fpc[f] = "rename" /\ FGo(f, "drop")
         /\ UNCHANGED <<cacheVars, id, sizeVars, pending_close, active_ops,
                        write_fd, data, overlap, pc, callerVars, streamVars>>
         /\ \/ /\ tmp[id[f]] = Nothing /\ invalid' = [invalid EXCEPT ![f] = TRUE]
               /\ UNCHANGED <<tmp, final>>
            \/ /\ tmp[id[f]] # Nothing /\ final' = [final EXCEPT ![id[f]] = tmp[id[f]]]
               /\ tmp' = [tmp EXCEPT ![id[f]] = Nothing] /\ UNCHANGED invalid
BY Zenon DEF FetchRename

\* The temporary name goes, or the size that was announced is corrected.
LEMMA DropCases ==
  ASSUME NEW f \in Files, FetchDrop(f)
  PROVE  /\ fpc[f] = "drop" /\ FGo(f, "ended")
         /\ write_fd' = [write_fd EXCEPT ![f] = Nothing]
         /\ UNCHANGED <<cacheVars, id, fetched, flagVars, active_ops, final, data,
                        overlap, pc, callerVars, streamVars>>
         /\ \/ /\ invalid[f] /\ tmp' = [tmp EXCEPT ![id[f]] = Nothing]
               /\ UNCHANGED expected
            \/ /\ ~invalid[f] /\ expected' = [expected EXCEPT ![f] = fetched[f]]
               /\ UNCHANGED tmp
BY Zenon DEF FetchDrop

\* Reading moves a position that is not -1, and nothing else.
LEMMA ReadCases ==
  ASSUME TypeOK, NEW s \in Streams, Read(s)
  PROVE  /\ position[s] # -1
         /\ UNCHANGED <<cacheVars, fileVars, threadVars, diskVars, pc, callerVars, file,
                        fd, stuck>>
         /\ \E p \in Int : position' = [position EXCEPT ![s] = p]
<1>1. file[s] \in Files
  BY DEF Read, TypeOK
<1>2. FetchableSize(file[s]) \in Int /\ position[s] \in Int
  BY <1>1 DEF FetchableSize, TypeOK
<1>3. Min({FetchableSize(file[s]) - position[s], 1}) \in Int
  BY <1>2, MinIs
<1>4. PICK n : n = IF fd[s] = Nothing THEN -1
                   ELSE IF data[fd[s]] > position[s]
                   THEN Min({FetchableSize(file[s]) - position[s], 1}) ELSE 0
  OBVIOUS
<1>5. n \in Int
  BY <1>3, <1>4
<1>6. position' = [position EXCEPT ![s] = @ + n]
  BY <1>4, Zenon DEF Read
<1>7. position[s] + n \in Int /\ position' = [position EXCEPT ![s] = position[s] + n]
  BY <1>2, <1>5, <1>6
<1>8. /\ position[s] # -1
      /\ UNCHANGED <<cacheVars, fileVars, threadVars, diskVars, pc, callerVars, file,
                     fd, stuck>>
  BY DEF Read
<1> QED BY <1>7, <1>8

\* A fetcher that fails, a file that is too large, or one that gets a place.
LEMMA FetchCases ==
  ASSUME TypeOK, NEW c \in Callers, Fetch(c), want[c] \in Ids
  PROVE  /\ pc[c] = "fetch" /\ cache_lock = Nothing
         /\ UNCHANGED <<cacheVars, fileVars, threadVars, diskVars, streamVars>>
         /\ \/ Return(c)
            \/ \E m \in Nat : /\ SizeOf[want[c]] <= m /\ m <= AvailableSize
                              /\ required' = [required EXCEPT ![c] = m] /\ Go(c, "list")
                              /\ UNCHANGED <<want, cached_file, old, available, new_fd>>
<1>1. /\ pc[c] = "fetch" /\ cache_lock = Nothing
      /\ UNCHANGED <<cacheVars, fileVars, threadVars, diskVars, streamVars>>
  BY DEF Fetch
<1>2. ASSUME NEW n \in Surplus, SizeOf[want[c]] + n <= AvailableSize,
             required' = [required EXCEPT ![c] = SizeOf[want[c]] + n], Go(c, "list"),
             UNCHANGED <<want, cached_file, old, available, new_fd>>
      PROVE  \E m \in Nat : /\ SizeOf[want[c]] <= m /\ m <= AvailableSize
                            /\ required' = [required EXCEPT ![c] = m] /\ Go(c, "list")
                            /\ UNCHANGED <<want, cached_file, old, available, new_fd>>
  <2>1. n \in Nat /\ SizeOf[want[c]] \in Nat
    BY NothingElse
  <2>2. PICK m : m = SizeOf[want[c]] + n
    OBVIOUS
  <2>3. m \in Nat /\ SizeOf[want[c]] <= m
    BY <2>1, <2>2
  <2> QED BY <1>2, <2>2, <2>3
<1> QED BY <1>1, <1>2 DEF Fetch

----------------------------------------------------------------------------
(* What a step of one caller leaves alone.                                 *)

\* The other callers are where they were.
Others(c) ==
  \A d \in Callers : d # c =>
    /\ pc'[d] = pc[d] /\ want'[d] = want[d] /\ required'[d] = required[d]
    /\ cached_file'[d] = cached_file[d] /\ old'[d] = old[d] /\ available'[d] = available[d]
    /\ cache_lock' = d <=> cache_lock = d

\* A file that has an id keeps it.
IdsKept == \A g \in Files : id[g] # Nothing => id'[g] = id[g]

\* A return concerns the caller alone.
LEMMA ReturnOthers ==
  ASSUME TypeOK, NEW c \in Callers, Return(c),
         \A d \in Callers : d # c => (cache_lock' = d <=> cache_lock = d)
  PROVE  Others(c)
BY DEF Return, Go, TypeOK, Others

\* And so does a step of its program counter,
LEMMA GoOthers ==
  ASSUME TypeOK, NEW c \in Callers, NEW to, Go(c, to), UNCHANGED <<cache_lock, callerVars>>
  PROVE  Others(c)
BY DEF Go, TypeOK, Others, callerVars

\* the end of tny_cached_file_remove,
LEMMA RemovedOthers ==
  ASSUME TypeOK, NEW c \in Callers, Removed(c)
  PROVE  Others(c)
<1>1. CASE /\ cache_lock = c /\ cache_lock' = Nothing /\ Return(c)
           /\ cached_files' = [cached_files EXCEPT ![want[c]] = Nothing]
  BY <1>1, NothingElse, ReturnOthers
<1>2. CASE /\ cache_lock # c /\ Go(c, "evict")
           /\ UNCHANGED <<cached_files, cache_lock, callerVars>>
  BY <1>2, GoOthers
<1> QED BY <1>1, <1>2, RemovedCases

\* and everything a caller does.
LEMMA OthersKept ==
  ASSUME TypeOK, CallInv, NEW c \in Callers, CallerStep(c) \/ Call(c)
  PROVE  Others(c)
<1>1. ASSUME NEW i \in Ids, Lookup(c, i) PROVE Others(c)
  BY <1>1 DEF Lookup, Go, cacheVars, TypeOK, Others
<1>2. CASE Fetch(c)
  <2>1. CASE Return(c)
    BY <1>2, <2>1, ReturnOthers DEF Fetch, cacheVars
  <2>2. CASE \E n \in Nat : /\ required' = [required EXCEPT ![c] = n] /\ Go(c, "list")
                            /\ UNCHANGED <<want, cached_file, old, available, new_fd>>
    BY <1>2, <2>2 DEF Fetch, Go, cacheVars, TypeOK, Others
  <2> QED BY <1>2, <2>1, <2>2, FetchCases DEF Fetch, CallInv, Held
<1>3. CASE List(c)
  BY <1>3 DEF List, Go, cacheVars, TypeOK, Others
<1>4. CASE Sort(c)
  BY <1>4 DEF Sort, Go, cacheVars, TypeOK, Others
<1>5. CASE Evict(c)
  <2>1. UNCHANGED cache_lock
    BY <1>5, EvictCases
  <2>2. CASE Return(c)
    BY <2>1, <2>2, ReturnOthers
  <2>3. CASE Go(c, "dead") /\ UNCHANGED callerVars
    BY <2>1, <2>3, GoOthers
  <2>4. CASE EvictEnds(c)
    BY <2>1, <2>4 DEF EvictEnds, Go, TypeOK, Others
  <2>5. CASE EvictOne(c)
    BY <2>1, <2>5 DEF EvictOne, Go, TypeOK, Others
  <2> QED BY <1>5, <2>2, <2>3, <2>4, <2>5, EvictCases
<1>6. CASE Mark(c)
  BY <1>6, RemovedOthers, GoOthers DEF Mark
<1>7. CASE Unlink(c)
  BY <1>7, RemovedOthers DEF Unlink
<1>8. ASSUME NEW i \in Ids, Filter(c, i) PROVE Others(c)
  BY <1>8, NothingElse DEF Filter, Go, TypeOK, Others
<1>9. ASSUME NEW size \in MaxSizes, SetMaxSize(c, size) PROVE Others(c)
  BY <1>9 DEF SetMaxSize, Go, TypeOK, Others
<1>10. CASE New(c)
  <2>1. PICK f \in Files : NewFile(c, f)
    BY <1>10, NewFacts
  <2> QED BY <1>10, <2>1 DEF New, NewFile, Go, cacheVars, TypeOK, Others
<1>11. CASE Insert(c)
  BY <1>11, GoOthers DEF Insert
<1>12. CASE Choose(c)
  BY <1>12, ChooseCases, ReturnOthers, GoOthers DEF cacheVars
<1>13. CASE Open(c)
  BY <1>13 DEF Open, Go, cacheVars, TypeOK, Others
<1>14. CASE Register(c)
  BY <1>14, ReturnOthers DEF Register, cacheVars
<1> QED BY <1>1, <1>2, <1>3, <1>4, <1>5, <1>6, <1>7, <1>8, <1>9, <1>10, <1>11, <1>12,
           <1>13, <1>14 DEF CallerStep, Call

\* It is enough to look at the caller that takes the step.
LEMMA HeldFrame ==
  ASSUME TypeOK, CallInv, NEW c \in Callers, Others(c), IdsKept, Held(c)'
  PROVE  CallInv'
<1> SUFFICES ASSUME NEW d \in Callers, d # c PROVE Held(d)'
  BY DEF CallInv
<1>1. Held(d)
  BY DEF CallInv
<1>2. \A g \in Files : id[g] \in Ids => id'[g] \in Ids /\ id'[g] = id[g]
  BY NothingElse DEF IdsKept
<1>3. ToSet(old[d]) \subseteq Files
  BY DEF TypeOK, ToSet
<1> QED BY <1>1, <1>2, <1>3 DEF Others, Held

----------------------------------------------------------------------------
(* The steps keep what the callers and the streams hold.                   *)

\* Every step keeps the types.
LEMMA TypesStep == TypeOK /\ CallInv /\ ThreadInv /\ CountInv /\ [Next]_vars => TypeOK'
<1> SUFFICES ASSUME TypeOK, CallInv, ThreadInv, CountInv, [Next]_vars PROVE TypeOK'
  OBVIOUS
<1>1. ASSUME NEW c \in Callers, NEW i \in Ids, Lookup(c, i) PROVE TypeOK'
  BY <1>1, NothingElse DEF Lookup, Go, cacheVars, flagVars, sizeVars, fileVars,
     threadVars, diskVars, streamVars, TypeOK, CallerPc, FetchPc, CallInv, Held,
     ThreadInv
<1>2. ASSUME NEW c \in Callers, Fetch(c) PROVE TypeOK'
  <2>1. ASSUME Return(c) PROVE TypeOK'
    BY <1>2, <2>1, ReturnTypes DEF Fetch, cacheVars, flagVars, sizeVars, fileVars,
       threadVars, diskVars, streamVars, TypeOK, TableTypes, FileTypes, ThreadTypes,
       DiskTypes, CallerTypes, StreamTypes
  <2>2. ASSUME NEW m \in Surplus, Go(c, "list"),
               required' = [required EXCEPT ![c] = SizeOf[want[c]] + m],
               UNCHANGED <<want, cached_file, old, available, new_fd>>
        PROVE  TypeOK'
    <3>1. SizeOf[want[c]] + m \in Nat
      BY <1>2, NothingElse DEF Fetch, CallInv, Held
    <3> QED BY <1>2, <2>2, <3>1 DEF Fetch, Go, cacheVars, flagVars, sizeVars, fileVars,
       threadVars, diskVars, streamVars, TypeOK, CallerPc
  <2> QED BY <1>2, <2>1, <2>2 DEF Fetch
<1>3. ASSUME NEW c \in Callers, List(c) PROVE TypeOK'
  <2>1. PICK l \in SetToSeqs({f \in Entries : ~Active(f)}) : old' = [old EXCEPT ![c] = l]
    BY <1>3 DEF List
  <2>2. {f \in Entries : ~Active(f)} \in SUBSET Files
    BY DEF Entries, TypeOK
  <2>3. l \in Seq(Files)
    BY <2>2, SeqsFacts
  <2> QED BY <1>3, <2>1, <2>3 DEF List, Go, cacheVars, flagVars, sizeVars, fileVars,
     threadVars, diskVars, streamVars, TypeOK, CallerPc
<1>4. ASSUME NEW c \in Callers, Sort(c) PROVE TypeOK'
  <2>1. PICK l \in SetToSeqs(ToSet(old[c])) : old' = [old EXCEPT ![c] = l]
    BY <1>4 DEF Sort, Sorted
  <2>2. ToSet(old[c]) \in SUBSET Files
    BY DEF ToSet, TypeOK
  <2>3. l \in Seq(Files)
    BY <2>2, SeqsFacts
  <2>4. FreeSpace \in Int
    BY FreeSpaceInt
  <2> QED BY <1>4, <2>1, <2>3, <2>4 DEF Sort, Go, cacheVars, flagVars, sizeVars, fileVars,
     threadVars, diskVars, streamVars, TypeOK, CallerPc
<1>5. ASSUME NEW c \in Callers, Evict(c) PROVE TypeOK'
  <2>1. UNCHANGED <<max_size, cache_lock, fileVars, threadVars, diskVars, streamVars>>
    BY <1>5, EvictCases
  <2>2. ASSUME Return(c), UNCHANGED cached_files PROVE TypeOK'
    BY <2>1, <2>2, ReturnTypes DEF flagVars, sizeVars, fileVars, threadVars, diskVars,
       callerVars, streamVars, TypeOK, TableTypes, FileTypes, ThreadTypes, DiskTypes,
       CallerTypes, StreamTypes
  <2>3. ASSUME EvictEnds(c) PROVE TypeOK'
    BY <2>1, <2>3 DEF EvictEnds, Go, flagVars, sizeVars, fileVars, threadVars, diskVars,
       callerVars, streamVars, TypeOK, CallerPc
  <2>4. ASSUME Go(c, "dead"), UNCHANGED <<cached_files, callerVars>> PROVE TypeOK'
    BY <2>1, <2>4 DEF Go, flagVars, sizeVars, fileVars, threadVars, diskVars, callerVars,
       streamVars, TypeOK, CallerPc
  <2>5. ASSUME EvictOne(c) PROVE TypeOK'
    <3>1. Head(old[c]) \in Files /\ Tail(old[c]) \in Seq(Files)
      BY <2>5, TailFacts DEF TypeOK, EvictOne
    <3>2. available[c] + expected[Head(old[c])] \in Int
      BY <3>1 DEF TypeOK
    <3>3. cached_files' \in [Ids -> Files \cup {Nothing}]
      BY <2>5 DEF EvictOne, TypeOK
    <3>4. CallerTypes'
      BY <2>5, <3>1, <3>2 DEF EvictOne, Go, TypeOK, CallerTypes, CallerPc
    <3> QED BY <2>1, <3>3, <3>4 DEF flagVars, sizeVars, fileVars, threadVars, diskVars,
       callerVars, streamVars, TypeOK, TableTypes, FileTypes, ThreadTypes, DiskTypes,
       CallerTypes, StreamTypes
  <2> QED BY <1>5, <2>2, <2>3, <2>4, <2>5, EvictCases
<1>6. ASSUME NEW c \in Callers, Mark(c) PROVE TypeOK'
  <2>1. invalid' \in [Files -> BOOLEAN]
    BY <1>6 DEF Mark, sizeVars, threadVars, diskVars, callerVars, streamVars, TypeOK,
       CallInv, Held
  <2>2. ASSUME Return(c), cached_files' = [cached_files EXCEPT ![want[c]] = Nothing],
               cache_lock' = Nothing
        PROVE  TypeOK'
    BY <1>6, <2>1, <2>2, ReturnTypes DEF Mark, sizeVars, threadVars, diskVars, callerVars,
       streamVars, TypeOK, TableTypes, FileTypes, ThreadTypes, DiskTypes, CallerTypes,
       StreamTypes
  <2>3. ASSUME UNCHANGED <<cached_files, cache_lock, callerVars>>,
               Go(c, "evict") \/ Go(c, "unlink")
        PROVE  TypeOK'
    BY <1>6, <2>1, <2>3 DEF Mark, Go, sizeVars, threadVars, diskVars, callerVars,
       streamVars, TypeOK, CallerPc
  <2> QED BY <1>6, <2>2, <2>3 DEF Mark, Removed
<1>7. ASSUME NEW c \in Callers, Unlink(c) PROVE TypeOK'
  <2>1. final' \in [Ids -> Inodes \cup {Nothing}] /\ pending_close' \in [Files -> BOOLEAN]
    BY <1>7 DEF Unlink, sizeVars, threadVars, callerVars, streamVars, TypeOK, CallInv, Held
  <2>2. ASSUME Return(c), cached_files' = [cached_files EXCEPT ![want[c]] = Nothing],
               cache_lock' = Nothing
        PROVE  TypeOK'
    BY <1>7, <2>1, <2>2, ReturnTypes DEF Unlink, sizeVars, threadVars, callerVars,
       streamVars, TypeOK, TableTypes, FileTypes, ThreadTypes, DiskTypes, CallerTypes,
       StreamTypes
  <2>3. ASSUME UNCHANGED <<cached_files, cache_lock, callerVars>>,
               Go(c, "evict") \/ Go(c, "unlink")
        PROVE  TypeOK'
    BY <1>7, <2>1, <2>3 DEF Unlink, Go, sizeVars, threadVars, callerVars, streamVars,
       TypeOK, CallerPc
  <2> QED BY <1>7, <2>2, <2>3 DEF Unlink, Removed
<1>8. ASSUME NEW c \in Callers, NEW i \in Ids, Filter(c, i) PROVE TypeOK'
  BY <1>8, NothingElse DEF Filter, Go, flagVars, sizeVars, fileVars, threadVars,
     diskVars, streamVars, TypeOK, CallerPc, FetchPc, CallInv, Held, ThreadInv
<1>9. ASSUME NEW c \in Callers, NEW size \in MaxSizes, SetMaxSize(c, size) PROVE TypeOK'
  BY <1>9, NothingElse DEF SetMaxSize, Go, flagVars, sizeVars, fileVars, threadVars,
     diskVars, streamVars, TypeOK, CallerPc, FetchPc, CallInv, Held, ThreadInv
<1>10. ASSUME NEW c \in Callers, New(c) PROVE TypeOK'
  <2>1. PICK f \in Files : NewFile(c, f)
    BY <1>10, NewFacts
  <2>2. want[c] \in Ids /\ required[c] \in Nat
    BY <1>10 DEF New, CallInv, Held, TypeOK
  <2>3. /\ write_fd' \in [Files -> Inodes \cup {Nothing}]
        /\ tmp' \in [Ids -> Inodes \cup {Nothing}] /\ data' \in [Inodes -> Nat]
    <3>1. CASE /\ tmp[want[c]] # Nothing
                 /\ write_fd' = [write_fd EXCEPT ![f] = tmp[want[c]]]
               /\ UNCHANGED <<tmp, data>>
      BY <2>2, <3>1 DEF TypeOK
    <3>2. ASSUME NEW n \in Inodes, write_fd' = [write_fd EXCEPT ![f] = n],
                 tmp' = [tmp EXCEPT ![want[c]] = n], data' = [data EXCEPT ![n] = 0]
          PROVE  /\ write_fd' \in [Files -> Inodes \cup {Nothing}]
                 /\ tmp' \in [Ids -> Inodes \cup {Nothing}] /\ data' \in [Inodes -> Nat]
      BY <3>2 DEF TypeOK
    <3>3. CASE write_fd' = [write_fd EXCEPT ![f] = Nothing] /\ UNCHANGED <<tmp, data>>
      BY <3>3 DEF TypeOK
    <3> QED BY <2>1, <3>1, <3>2, <3>3 DEF NewFile
  <2>4. /\ cached_file' \in [Callers -> Files \cup {Nothing}]
        /\ id' \in [Files -> Ids \cup {Nothing}] /\ expected' \in [Files -> Nat]
        /\ fpc' \in [Files -> FetchPc] /\ pc' \in [Callers -> CallerPc]
    BY <1>10, <2>1, <2>2 DEF New, NewFile, Go, FGo, TypeOK, FetchPc, CallerPc
  <2>5. UNCHANGED <<cacheVars, fetched, flagVars, active_ops, final, want, required,
                    old, available, new_fd, streamVars>>
    BY <1>10 DEF New
  <2>6. overlap' \subseteq Ids
    BY <1>10, <2>2 DEF New, TypeOK
  <2> QED BY <2>3, <2>4, <2>5, <2>6 DEF cacheVars, flagVars, streamVars, TypeOK
<1>11. ASSUME NEW c \in Callers, Insert(c) PROVE TypeOK'
  BY <1>11, NothingElse DEF Insert, Go, flagVars, sizeVars, fileVars, threadVars,
     diskVars, callerVars, streamVars, TypeOK, CallerPc, FetchPc, CallInv, Held,
     ThreadInv
<1>12. ASSUME NEW c \in Callers, Choose(c) PROVE TypeOK'
  <2>1. ASSUME Return(c) PROVE TypeOK'
    BY <1>12, <2>1, ChooseCases, ReturnTypes DEF cacheVars, flagVars, sizeVars, fileVars,
       threadVars, diskVars, callerVars, streamVars, TypeOK, TableTypes, FileTypes,
       ThreadTypes, DiskTypes, CallerTypes, StreamTypes
  <2>2. ASSUME Go(c, "open_tmp") \/ Go(c, "open_final"), UNCHANGED callerVars
        PROVE  TypeOK'
    BY <1>12, <2>2, ChooseCases DEF Go, cacheVars, flagVars, sizeVars, fileVars, threadVars,
       diskVars, callerVars, streamVars, TypeOK, CallerPc
  <2> QED BY <1>12, <2>1, <2>2, ChooseCases
<1>13. ASSUME NEW c \in Callers, Open(c) PROVE TypeOK'
  BY <1>13, NothingElse DEF Open, Go, cacheVars, flagVars, sizeVars, fileVars,
     threadVars, diskVars, streamVars, TypeOK, CallerPc, FetchPc, CallInv, Held,
     ThreadInv
<1>14. ASSUME NEW c \in Callers, Register(c) PROVE TypeOK'
  <2>1. active_ops' \in [Files -> Nat]
    BY <1>14 DEF Register, TypeOK, CallInv, Held
  <2>2. PICK s \in Streams : /\ file' = [file EXCEPT ![s] = cached_file[c]]
                             /\ fd' = [fd EXCEPT ![s] = new_fd[c]]
                             /\ position' = [position EXCEPT ![s] = 0]
    BY <1>14, RegisterFacts
  <2>3. StreamTypes'
    BY <1>14, <2>2 DEF Register, TypeOK, StreamTypes
  <2>4. CallerTypes'
    BY <1>14, TypeParts, ReturnTypes DEF Register
  <2> QED BY <1>14, <2>1, <2>3, <2>4 DEF Register, cacheVars, flagVars, sizeVars,
     threadVars, diskVars, TypeOK, TableTypes, FileTypes, ThreadTypes, DiskTypes,
     CallerTypes, StreamTypes
<1>15. ASSUME NEW s \in Streams, Read(s) PROVE TypeOK'
  <2>1. PICK p \in Int : position' = [position EXCEPT ![s] = p]
    BY <1>15, ReadCases
  <2>2. position' \in [Streams -> Int]
    BY <2>1 DEF TypeOK
  <2> QED BY <1>15, <2>2, ReadCases DEF cacheVars, flagVars, sizeVars, fileVars, threadVars,
     diskVars, callerVars, TypeOK
<1>16. ASSUME NEW s \in Streams, Close(s) PROVE TypeOK'
  <2>1. file[s] \in Files
    BY <1>16 DEF Close, TypeOK
  <2>2. position[s] # -1 => active_ops[file[s]] - 1 \in Nat
    <3> SUFFICES ASSUME position[s] # -1 PROVE active_ops[file[s]] - 1 \in Nat
      OBVIOUS
    <3>1. Reading(file[s]) # {} /\ IsFiniteSet(Reading(file[s]))
      BY NothingElse, FS_Subset DEF Reading
    <3>2. Cardinality(Reading(file[s])) \in Nat /\ Cardinality(Reading(file[s])) # 0
      BY <3>1, FS_CardinalityType, FS_EmptySet
    <3> QED BY <2>1, <3>2 DEF CountInv, TypeOK
  <2> QED BY <1>16, <2>1, <2>2 DEF Close, cacheVars, flagVars, sizeVars, threadVars,
     diskVars, callerVars, TypeOK
<1>17. ASSUME NEW s \in Streams, Seek(s) PROVE TypeOK'
  BY <1>17, NothingElse DEF Seek, cacheVars, flagVars, sizeVars, fileVars, threadVars,
     diskVars, callerVars, TypeOK, CallerPc, FetchPc, CallInv, Held, ThreadInv
<1>18. ASSUME NEW f \in Files, FetchChunk(f) PROVE TypeOK'
  <2>1. ASSUME Fails(f) PROVE TypeOK'
    BY <1>18, <2>1, ChunkCases DEF Fails, FGo, cacheVars, callerVars, streamVars, TypeOK,
       FetchPc
  <2>2. ASSUME Writes(f) PROVE TypeOK'
    <3>1. write_fd[f] \in Inodes /\ data[write_fd[f]] \in Nat /\ fetched[f] + 1 \in Nat
      BY <2>2 DEF Writes, TypeOK
    <3>2. PICK n : n = Max({data[write_fd[f]], fetched[f] + 1})
      OBVIOUS
    <3>3. n \in Nat
      BY <3>1, <3>2, MaxIs
    <3>4. data' = [data EXCEPT ![write_fd[f]] = n]
      BY <2>2, <3>2 DEF Writes
    <3>5. data' \in [Inodes -> Nat] /\ fetched' \in [Files -> Nat]
      BY <2>2, <3>1, <3>3, <3>4 DEF Writes, TypeOK
    <3> QED BY <1>18, <2>2, <3>5, ChunkCases DEF Writes, cacheVars, callerVars, streamVars,
       TypeOK
  <2> QED BY <1>18, <2>1, <2>2, ChunkCases
<1>19. ASSUME NEW f \in Files, FetchEos(f) PROVE TypeOK'
  BY <1>19, NothingElse DEF FetchEos, FGo, cacheVars, flagVars, sizeVars, fileVars,
     diskVars, callerVars, streamVars, TypeOK, CallerPc, FetchPc, CallInv, Held,
     ThreadInv
<1>20. ASSUME NEW f \in Files, FetchEnd(f) PROVE TypeOK'
  BY <1>20, NothingElse DEF FetchEnd, FGo, cacheVars, flagVars, sizeVars, fileVars,
     diskVars, callerVars, streamVars, TypeOK, CallerPc, FetchPc, CallInv, Held,
     ThreadInv
<1>21. ASSUME NEW f \in Files, FetchCheck(f) PROVE TypeOK'
  BY <1>21, NothingElse DEF FetchCheck, FGo, cacheVars, flagVars, sizeVars, fileVars,
     diskVars, callerVars, streamVars, TypeOK, CallerPc, FetchPc, CallInv, Held,
     ThreadInv
<1>22. ASSUME NEW f \in Files, FetchRename(f) PROVE TypeOK'
  <2>1. id[f] \in Ids
    BY <1>22, RenameCases DEF ThreadInv
  <2>2. CASE invalid' = [invalid EXCEPT ![f] = TRUE] /\ UNCHANGED <<tmp, final>>
    BY <1>22, <2>2, RenameCases DEF FGo, cacheVars, sizeVars, callerVars, streamVars,
       TypeOK, FetchPc
  <2>3. CASE /\ final' = [final EXCEPT ![id[f]] = tmp[id[f]]]
             /\ tmp' = [tmp EXCEPT ![id[f]] = Nothing] /\ UNCHANGED invalid
    <3>1. tmp' \in [Ids -> Inodes \cup {Nothing}]
            /\ final' \in [Ids -> Inodes \cup {Nothing}]
      BY <2>1, <2>3 DEF TypeOK
    <3>2. fpc' \in [Files -> FetchPc]
      BY <1>22, RenameCases DEF FGo, TypeOK, FetchPc
    <3> QED BY <1>22, <2>3, <3>1, <3>2, RenameCases DEF cacheVars, sizeVars, callerVars,
       streamVars, TypeOK
  <2> QED BY <1>22, <2>2, <2>3, RenameCases
<1>23. ASSUME NEW f \in Files, FetchDrop(f) PROVE TypeOK'
  <2>1. tmp' \in [Ids -> Inodes \cup {Nothing}] /\ expected' \in [Files -> Nat]
    BY <1>23, DropCases DEF TypeOK
  <2>2. fpc' \in [Files -> FetchPc] /\ write_fd' \in [Files -> Inodes \cup {Nothing}]
    BY <1>23, DropCases DEF FGo, TypeOK, FetchPc
  <2>3. UNCHANGED <<cacheVars, id, fetched, flagVars, active_ops, final, data,
                    overlap, pc, callerVars, streamVars>>
    BY <1>23, DropCases
  <2> QED BY <2>1, <2>2, <2>3 DEF cacheVars, flagVars, callerVars, streamVars, TypeOK
<1>24. ASSUME NEW size \in MaxSizes, Restart(size) PROVE TypeOK'
  <2>1. PICK g \in [OnDisk -> Files] : Refilled(g)
    BY <1>24, RestartFacts
  <2>2. /\ cached_files' \in [Ids -> Files \cup {Nothing}]
             /\ id' \in [Files -> Ids \cup {Nothing}]
        /\ expected' \in [Files -> Nat] /\ fetched' \in [Files -> Nat]
    BY <2>1, RefilledFacts DEF OnDisk, TypeOK
  <2>3. <<>> \in Seq(Files) /\ "free" \in CallerPc /\ "none" \in FetchPc
    BY DEF CallerPc, FetchPc
  <2>4. TableTypes' /\ FileTypes' /\ ThreadTypes' /\ DiskTypes'
    BY <1>24, <2>2, <2>3 DEF Restart, TypeOK, TableTypes, FileTypes, ThreadTypes, DiskTypes
  <2>5. CallerTypes' /\ StreamTypes'
    BY <1>24, <2>3 DEF Restart, CallerTypes, StreamTypes
  <2> QED BY <2>4, <2>5 DEF TypeOK, TableTypes, FileTypes, ThreadTypes, DiskTypes,
     CallerTypes, StreamTypes
<1>25. CASE UNCHANGED vars
  BY <1>25, NothingElse DEF vars, cacheVars, flagVars, sizeVars, fileVars, threadVars,
     diskVars, callerVars, streamVars, TypeOK, CallerPc, FetchPc, CallInv, Held,
     ThreadInv
<1> QED BY <1>1, <1>2, <1>3, <1>4, <1>5, <1>6, <1>7, <1>8, <1>9, <1>10, <1>11, <1>12, <1>13,
      <1>14, <1>15, <1>16, <1>17, <1>18, <1>19, <1>20, <1>21, <1>22, <1>23, <1>24, <1>25
      DEF Next, Call, CallerStep, FetchStep

\* A caller that has returned holds nothing.
LEMMA ReturnHeld ==
  ASSUME TypeOK, NEW c \in Callers, Return(c), cache_lock' # c PROVE Held(c)'
<1>1. pc'[c] = "free" /\ old'[c] = <<>>
  BY DEF Return, Go, TypeOK
<1>2. ToSet(<<>>) = {}
  BY DEF ToSet
<1> QED BY <1>1, <1>2 DEF Held

\* Every step keeps what a caller has where it uses it.
LEMMA CallStep == TypeOK /\ CallInv /\ KeyInv /\ [Next]_vars => CallInv'
<1> SUFFICES ASSUME TypeOK, CallInv, KeyInv, [Next]_vars PROVE CallInv'
  OBVIOUS
<1>1. ASSUME NEW c \in Callers, NEW i \in Ids, Lookup(c, i) PROVE CallInv'
  <2>1. Others(c)
    BY <1>1, OthersKept DEF Call
  <2>2. IdsKept
    BY <1>1 DEF Lookup, cacheVars, flagVars, sizeVars, fileVars, threadVars, diskVars,
       streamVars, IdsKept
  <2>3. Held(c)'
    BY <1>1, NothingElse DEF Lookup, Go, cacheVars, flagVars, sizeVars, fileVars,
       threadVars, diskVars, streamVars, TypeOK, CallInv, Held, KeyInv
  <2> QED BY <2>1, <2>2, <2>3, HeldFrame
<1>2. ASSUME NEW c \in Callers, Fetch(c) PROVE CallInv'
  <2>1. Others(c)
    BY <1>2, OthersKept DEF CallerStep
  <2>2. IdsKept
    BY <1>2 DEF Fetch, cacheVars, flagVars, sizeVars, fileVars, threadVars, diskVars,
       streamVars, IdsKept
  <2>3. Held(c)'
    <3>1. CASE Return(c)
      BY <1>2, <3>1, ReturnHeld DEF Fetch, cacheVars, CallInv, Held
    <3>2. CASE \E m \in Nat : /\ required' = [required EXCEPT ![c] = m] /\ Go(c, "list")
                              /\ UNCHANGED <<want, cached_file, old, available, new_fd>>
      BY <1>2, <3>2 DEF Fetch, Go, cacheVars, flagVars, sizeVars, fileVars, threadVars,
         diskVars, streamVars, TypeOK, CallInv, Held
    <3>3. want[c] \in Ids
      BY <1>2 DEF Fetch, CallInv, Held
    <3> QED BY <1>2, <3>1, <3>2, <3>3, FetchCases
  <2> QED BY <2>1, <2>2, <2>3, HeldFrame
<1>3. ASSUME NEW c \in Callers, List(c) PROVE CallInv'
  <2>1. Others(c)
    BY <1>3, OthersKept DEF CallerStep
  <2>2. IdsKept
    BY <1>3 DEF List, cacheVars, flagVars, sizeVars, fileVars, threadVars, diskVars,
       streamVars, IdsKept
  <2>3. Held(c)'
    <3>1. PICK l \in SetToSeqs({f \in Entries : ~Active(f)}) : old' = [old EXCEPT ![c] = l]
      BY <1>3 DEF List
    <3>2. {f \in Entries : ~Active(f)} \in SUBSET Files
      BY DEF Entries, TypeOK
    <3>3. ToSet(l) = {f \in Entries : ~Active(f)}
      BY <3>2, SeqsFacts
    <3>4. old'[c] = l /\ \A g \in ToSet(l) : id[g] \in Ids
      BY <3>1, <3>3 DEF Entries, KeyInv, TypeOK
    <3> QED BY <1>3, <3>4 DEF List, Go, cacheVars, flagVars, sizeVars, fileVars, threadVars,
       diskVars, streamVars, TypeOK, CallInv, Held
  <2> QED BY <2>1, <2>2, <2>3, HeldFrame
<1>4. ASSUME NEW c \in Callers, Sort(c) PROVE CallInv'
  <2>1. Others(c)
    BY <1>4, OthersKept DEF CallerStep
  <2>2. IdsKept
    BY <1>4 DEF Sort, cacheVars, flagVars, sizeVars, fileVars, threadVars, diskVars,
       streamVars, IdsKept
  <2>3. Held(c)'
    <3>1. PICK l \in SetToSeqs(ToSet(old[c])) : old' = [old EXCEPT ![c] = l]
      BY <1>4 DEF Sort, Sorted
    <3>2. ToSet(old[c]) \in SUBSET Files
      BY DEF ToSet, TypeOK
    <3>3. ToSet(l) = ToSet(old[c])
      BY <3>2, SeqsFacts
    <3>4. old'[c] = l /\ \A g \in ToSet(l) : id[g] \in Ids
      BY <3>1, <3>3 DEF CallInv, Held, TypeOK
    <3> QED BY <1>4, <3>4 DEF Sort, Go, cacheVars, flagVars, sizeVars, fileVars, threadVars,
       diskVars, streamVars, TypeOK, CallInv, Held
  <2> QED BY <2>1, <2>2, <2>3, HeldFrame
<1>5. ASSUME NEW c \in Callers, Evict(c) PROVE CallInv'
  <2>1. Others(c)
    BY <1>5, OthersKept DEF CallerStep
  <2>2. IdsKept
    BY <1>5 DEF Evict, flagVars, sizeVars, fileVars, threadVars, diskVars, callerVars,
       streamVars, IdsKept
  <2>3. Held(c)'
    <3>1. CASE Return(c)
      BY <1>5, <3>1, ReturnHeld, EvictCases DEF CallInv, Held
    <3>2. CASE EvictEnds(c)
      <4>1. ToSet(old'[c]) = {}
        BY <3>2 DEF EvictEnds, TypeOK, ToSet
      <4> QED BY <1>5, <3>2, <4>1, NothingElse, EvictCases DEF EvictEnds, Go, TypeOK,
         CallInv, Held
    <3>3. CASE Go(c, "dead") /\ UNCHANGED callerVars
      BY <1>5, <3>3, EvictCases DEF Go, flagVars, sizeVars, fileVars, threadVars, diskVars,
         callerVars, streamVars, TypeOK, CallInv, Held
    <3>4. CASE EvictOne(c)
      <4>1. /\ Head(old[c]) \in Files /\ Head(old[c]) \in ToSet(old[c])
            /\ ToSet(Tail(old[c])) \subseteq ToSet(old[c])
        BY <3>4, TailFacts DEF TypeOK, EvictOne
      <4>2. UNCHANGED <<id, cache_lock>> /\ pc[c] = "evict" /\ cache_lock = Nothing
        BY <1>5, EvictCases DEF flagVars, sizeVars, fileVars, threadVars, diskVars,
           callerVars, streamVars
      <4> QED BY <3>4, <4>1, <4>2, NothingElse DEF EvictOne, Go, TypeOK, CallInv, Held
    <3> QED BY <1>5, <3>1, <3>2, <3>3, <3>4, EvictCases
  <2> QED BY <2>1, <2>2, <2>3, HeldFrame
<1>6. ASSUME NEW c \in Callers, Mark(c) PROVE CallInv'
  <2>1. Others(c)
    BY <1>6, OthersKept DEF CallerStep
  <2>2. IdsKept
    BY <1>6 DEF Mark, sizeVars, threadVars, diskVars, callerVars, streamVars, IdsKept
  <2>3. Held(c)'
    <3>1. UNCHANGED id /\ pc[c] \in {"mark", "unlink"}
      BY <1>6 DEF Mark, sizeVars, threadVars, diskVars, callerVars, streamVars
    <3>2. CASE Removed(c)
      <4>1. CASE cache_lock = c /\ cache_lock' = Nothing /\ Return(c)
        BY <4>1, NothingElse, ReturnHeld
      <4>2. CASE /\ cache_lock # c /\ Go(c, "evict")
                 /\ UNCHANGED <<cached_files, cache_lock, callerVars>>
        BY <3>1, <4>2 DEF Go, callerVars, TypeOK, CallInv, Held
      <4> QED BY <3>2, <4>1, <4>2, RemovedCases
    <3>3. CASE Go(c, "unlink") /\ UNCHANGED <<cached_files, cache_lock, callerVars>>
      BY <1>6, <3>1, <3>3 DEF Mark, Go, callerVars, TypeOK, CallInv, Held
    <3> QED BY <1>6, <3>2, <3>3 DEF Mark
  <2> QED BY <2>1, <2>2, <2>3, HeldFrame
<1>7. ASSUME NEW c \in Callers, Unlink(c) PROVE CallInv'
  <2>1. Others(c)
    BY <1>7, OthersKept DEF CallerStep
  <2>2. IdsKept
    BY <1>7 DEF Unlink, sizeVars, threadVars, callerVars, streamVars, IdsKept
  <2>3. Held(c)'
    <3>1. UNCHANGED id /\ pc[c] \in {"mark", "unlink"}
      BY <1>7 DEF Unlink, sizeVars, threadVars, callerVars, streamVars
    <3>2. CASE Removed(c)
      <4>1. CASE cache_lock = c /\ cache_lock' = Nothing /\ Return(c)
        BY <4>1, NothingElse, ReturnHeld
      <4>2. CASE /\ cache_lock # c /\ Go(c, "evict")
                 /\ UNCHANGED <<cached_files, cache_lock, callerVars>>
        BY <3>1, <4>2 DEF Go, callerVars, TypeOK, CallInv, Held
      <4> QED BY <3>2, <4>1, <4>2, RemovedCases
    <3> QED BY <1>7, <3>2 DEF Unlink
  <2> QED BY <2>1, <2>2, <2>3, HeldFrame
<1>8. ASSUME NEW c \in Callers, NEW i \in Ids, Filter(c, i) PROVE CallInv'
  <2>1. Others(c)
    BY <1>8, OthersKept DEF Call
  <2>2. IdsKept
    BY <1>8 DEF Filter, flagVars, sizeVars, fileVars, threadVars, diskVars, streamVars,
       IdsKept
  <2>3. Held(c)'
    BY <1>8, NothingElse DEF Filter, Go, flagVars, sizeVars, fileVars, threadVars, diskVars,
       streamVars, TypeOK, CallInv, Held, KeyInv
  <2> QED BY <2>1, <2>2, <2>3, HeldFrame
<1>9. ASSUME NEW c \in Callers, NEW size \in MaxSizes, SetMaxSize(c, size) PROVE CallInv'
  <2>1. Others(c)
    BY <1>9, OthersKept DEF Call
  <2>2. IdsKept
    BY <1>9 DEF SetMaxSize, flagVars, sizeVars, fileVars, threadVars, diskVars, streamVars,
       IdsKept
  <2>3. Held(c)'
    BY <1>9, NothingElse DEF SetMaxSize, Go, flagVars, sizeVars, fileVars, threadVars,
       diskVars, streamVars, TypeOK, CallInv, Held
  <2> QED BY <2>1, <2>2, <2>3, HeldFrame
<1>10. ASSUME NEW c \in Callers, New(c) PROVE CallInv'
  <2>1. PICK f \in Files : NewFile(c, f)
    BY <1>10, NewFacts
  <2>2. Others(c)
    BY <1>10, OthersKept DEF CallerStep
  <2>3. IdsKept
    BY <1>10, <2>1, NothingElse DEF New, NewFile, TypeOK, IdsKept
  <2>4. ToSet(old[c]) \subseteq Files /\ \A g \in ToSet(old[c]) : id'[g] \in Ids
    <3>1. ToSet(old[c]) \subseteq Files /\ \A g \in ToSet(old[c]) : id[g] \in Ids
      <4>1. old[c] \in Seq(Files) /\ Held(c)
        BY DEF TypeOK, CallInv
      <4> QED BY <4>1 DEF ToSet, Held
    <3> QED BY <3>1, <2>3, NothingElse DEF IdsKept
  <2>5. Held(c)'
    <3>1. want[c] \in Ids /\ cache_lock # c
      BY <1>10 DEF New, CallInv, Held
    <3>2. /\ pc'[c] = "insert" /\ want' = want /\ cached_file'[c] = f /\ old' = old
          /\ cache_lock' = cache_lock /\ id'[f] = want[c]
      BY <1>10, <2>1 DEF New, NewFile, Go, cacheVars, TypeOK
    <3> QED BY <2>1, <2>4, <3>1, <3>2 DEF Held
  <2> QED BY <2>2, <2>3, <2>5, HeldFrame
<1>11. ASSUME NEW c \in Callers, Insert(c) PROVE CallInv'
  <2>1. Others(c)
    BY <1>11, OthersKept DEF CallerStep
  <2>2. IdsKept
    BY <1>11 DEF Insert, flagVars, sizeVars, fileVars, threadVars, diskVars, callerVars,
       streamVars, IdsKept
  <2>3. Held(c)'
    BY <1>11, NothingElse DEF Insert, Go, flagVars, sizeVars, fileVars, threadVars,
       diskVars, callerVars, streamVars, TypeOK, CallInv, Held
  <2> QED BY <2>1, <2>2, <2>3, HeldFrame
<1>12. ASSUME NEW c \in Callers, Choose(c) PROVE CallInv'
  <2>1. Others(c)
    BY <1>12, OthersKept DEF CallerStep
  <2>2. IdsKept
    BY <1>12 DEF Choose, cacheVars, flagVars, sizeVars, fileVars, threadVars, diskVars,
       callerVars, streamVars, IdsKept
  <2>3. Held(c)'
    <3>1. CASE Return(c)
      BY <1>12, <3>1, ReturnHeld, ChooseCases DEF cacheVars, CallInv, Held
    <3>2. CASE (Go(c, "open_tmp") \/ Go(c, "open_final")) /\ UNCHANGED callerVars
      BY <1>12, <3>2, ChooseCases DEF Go, cacheVars, flagVars, sizeVars, fileVars,
         threadVars, diskVars, callerVars, streamVars, TypeOK, CallInv, Held
    <3> QED BY <1>12, <3>1, <3>2, ChooseCases
  <2> QED BY <2>1, <2>2, <2>3, HeldFrame
<1>13. ASSUME NEW c \in Callers, Open(c) PROVE CallInv'
  <2>1. Others(c)
    BY <1>13, OthersKept DEF CallerStep
  <2>2. IdsKept
    BY <1>13 DEF Open, cacheVars, flagVars, sizeVars, fileVars, threadVars, diskVars,
       streamVars, IdsKept
  <2>3. Held(c)'
    BY <1>13, NothingElse DEF Open, Go, cacheVars, flagVars, sizeVars, fileVars, threadVars,
       diskVars, streamVars, TypeOK, CallInv, Held
  <2> QED BY <2>1, <2>2, <2>3, HeldFrame
<1>14. ASSUME NEW c \in Callers, Register(c) PROVE CallInv'
  <2>1. Others(c)
    BY <1>14, OthersKept DEF CallerStep
  <2>2. IdsKept
    BY <1>14 DEF Register, cacheVars, flagVars, sizeVars, threadVars, diskVars, IdsKept
  <2>3. Held(c)'
    BY <1>14, ReturnHeld DEF Register, cacheVars, CallInv, Held
  <2> QED BY <2>1, <2>2, <2>3, HeldFrame
<1>15. ASSUME NEW s \in Streams, Read(s) PROVE CallInv'
  BY <1>15, NothingElse DEF Read, cacheVars, flagVars, sizeVars, fileVars, threadVars,
     diskVars, callerVars, TypeOK, CallInv, Held
<1>16. ASSUME NEW s \in Streams, Close(s) PROVE CallInv'
  BY <1>16, NothingElse DEF Close, cacheVars, flagVars, sizeVars, threadVars, diskVars,
     callerVars, TypeOK, CallInv, Held
<1>17. ASSUME NEW s \in Streams, Seek(s) PROVE CallInv'
  BY <1>17, NothingElse DEF Seek, cacheVars, flagVars, sizeVars, fileVars, threadVars,
     diskVars, callerVars, TypeOK, CallInv, Held
<1>18. ASSUME NEW f \in Files, FetchChunk(f) PROVE CallInv'
  BY <1>18, NothingElse DEF FetchChunk, FGo, cacheVars, callerVars, streamVars, TypeOK,
     CallInv, Held
<1>19. ASSUME NEW f \in Files, FetchEos(f) PROVE CallInv'
  BY <1>19, NothingElse DEF FetchEos, FGo, cacheVars, flagVars, sizeVars, fileVars,
     diskVars, callerVars, streamVars, TypeOK, CallInv, Held
<1>20. ASSUME NEW f \in Files, FetchEnd(f) PROVE CallInv'
  BY <1>20, NothingElse DEF FetchEnd, FGo, cacheVars, flagVars, sizeVars, fileVars,
     diskVars, callerVars, streamVars, TypeOK, CallInv, Held
<1>21. ASSUME NEW f \in Files, FetchCheck(f) PROVE CallInv'
  BY <1>21, NothingElse DEF FetchCheck, FGo, cacheVars, flagVars, sizeVars, fileVars,
     diskVars, callerVars, streamVars, TypeOK, CallInv, Held
<1>22. ASSUME NEW f \in Files, FetchRename(f) PROVE CallInv'
  BY <1>22, NothingElse DEF FetchRename, FGo, cacheVars, sizeVars, callerVars,
     streamVars, TypeOK, CallInv, Held
<1>23. ASSUME NEW f \in Files, FetchDrop(f) PROVE CallInv'
  BY <1>23, NothingElse DEF FetchDrop, FGo, cacheVars, flagVars, callerVars, streamVars,
     TypeOK, CallInv, Held
<1>24. ASSUME NEW size \in MaxSizes, Restart(size) PROVE CallInv'
  <2>1. \A c \in Callers : /\ pc'[c] = "free" /\ cache_lock' = Nothing
                           /\ old'[c] = <<>>
    BY <1>24 DEF Restart
  <2>2. ToSet(<<>>) = {}
    BY DEF ToSet
  <2> QED BY <2>1, <2>2, NothingElse DEF CallInv, Held
<1>25. CASE UNCHANGED vars
  BY <1>25, NothingElse DEF vars, cacheVars, flagVars, sizeVars, fileVars, threadVars,
     diskVars, callerVars, streamVars, TypeOK, CallInv, Held
<1> QED BY <1>1, <1>2, <1>3, <1>4, <1>5, <1>6, <1>7, <1>8, <1>9, <1>10, <1>11, <1>12, <1>13,
      <1>14, <1>15, <1>16, <1>17, <1>18, <1>19, <1>20, <1>21, <1>22, <1>23, <1>24, <1>25
      DEF Next, Call, CallerStep, FetchStep

\* Every step keeps what objects that are not used have.
LEMMA ThreadStep == TypeOK /\ CallInv /\ ThreadInv /\ [Next]_vars => ThreadInv'
<1> SUFFICES ASSUME TypeOK, CallInv, ThreadInv, [Next]_vars PROVE ThreadInv'
  OBVIOUS
<1>1. ASSUME NEW c \in Callers, NEW i \in Ids, Lookup(c, i) PROVE ThreadInv'
  BY <1>1, NothingElse DEF Lookup, Go, cacheVars, flagVars, sizeVars, fileVars,
     threadVars, diskVars, streamVars, TypeOK, ThreadInv
<1>2. ASSUME NEW c \in Callers, Fetch(c) PROVE ThreadInv'
  BY <1>2, NothingElse DEF Fetch, Go, Return, cacheVars, flagVars, sizeVars, fileVars,
     threadVars, diskVars, streamVars, TypeOK, ThreadInv
<1>3. ASSUME NEW c \in Callers, List(c) PROVE ThreadInv'
  BY <1>3, NothingElse DEF List, Go, cacheVars, flagVars, sizeVars, fileVars,
     threadVars, diskVars, streamVars, TypeOK, ThreadInv
<1>4. ASSUME NEW c \in Callers, Sort(c) PROVE ThreadInv'
  BY <1>4, NothingElse DEF Sort, Go, cacheVars, flagVars, sizeVars, fileVars,
     threadVars, diskVars, streamVars, TypeOK, ThreadInv
<1>5. ASSUME NEW c \in Callers, Evict(c) PROVE ThreadInv'
  BY <1>5, NothingElse DEF Evict, Go, Return, flagVars, sizeVars, fileVars, threadVars,
     diskVars, callerVars, streamVars, TypeOK, ThreadInv
<1>6. ASSUME NEW c \in Callers, Mark(c) PROVE ThreadInv'
  <2>1. id[cached_file[c]] \in Ids /\ cached_file[c] \in Files
    BY <1>6 DEF Mark, CallInv, Held
  <2> QED BY <1>6, <2>1, NothingElse DEF Mark, threadVars, sizeVars, TypeOK, ThreadInv
<1>7. ASSUME NEW c \in Callers, Unlink(c) PROVE ThreadInv'
  BY <1>7, NothingElse DEF Unlink, Go, Return, Removed, sizeVars, threadVars,
     callerVars, streamVars, TypeOK, ThreadInv
<1>8. ASSUME NEW c \in Callers, NEW i \in Ids, Filter(c, i) PROVE ThreadInv'
  BY <1>8, NothingElse DEF Filter, Go, flagVars, sizeVars, fileVars, threadVars,
     diskVars, streamVars, TypeOK, ThreadInv
<1>9. ASSUME NEW c \in Callers, NEW size \in MaxSizes, SetMaxSize(c, size) PROVE ThreadInv'
  BY <1>9, NothingElse DEF SetMaxSize, Go, flagVars, sizeVars, fileVars, threadVars,
     diskVars, streamVars, TypeOK, ThreadInv
<1>10. ASSUME NEW c \in Callers, New(c) PROVE ThreadInv'
  <2>1. PICK f \in Files : NewFile(c, f)
    BY <1>10, NewFacts
  <2>2. want[c] \in Ids
    BY <1>10 DEF New, CallInv, Held
  <2>3. /\ id' = [id EXCEPT ![f] = want[c]] /\ fpc' = [fpc EXCEPT ![f] = "loop"]
        /\ UNCHANGED <<fetched, invalid>>
        /\ \A g \in Files : g # f => write_fd'[g] = write_fd[g]
    BY <1>10, <2>1 DEF New, NewFile, FGo, flagVars, TypeOK
  <2> QED BY <2>2, <2>3, NothingElse DEF TypeOK, ThreadInv
<1>11. ASSUME NEW c \in Callers, Insert(c) PROVE ThreadInv'
  BY <1>11, NothingElse DEF Insert, Go, flagVars, sizeVars, fileVars, threadVars,
     diskVars, callerVars, streamVars, TypeOK, ThreadInv
<1>12. ASSUME NEW c \in Callers, Choose(c) PROVE ThreadInv'
  BY <1>12, NothingElse DEF Choose, Go, Return, cacheVars, flagVars, sizeVars, fileVars,
     threadVars, diskVars, callerVars, streamVars, TypeOK, ThreadInv
<1>13. ASSUME NEW c \in Callers, Open(c) PROVE ThreadInv'
  BY <1>13, NothingElse DEF Open, Go, cacheVars, flagVars, sizeVars, fileVars,
     threadVars, diskVars, streamVars, TypeOK, ThreadInv
<1>14. ASSUME NEW c \in Callers, Register(c) PROVE ThreadInv'
  BY <1>14, NothingElse DEF Register, Go, Return, cacheVars, flagVars, sizeVars,
     threadVars, diskVars, TypeOK, ThreadInv
<1>15. ASSUME NEW s \in Streams, Read(s) PROVE ThreadInv'
  BY <1>15, NothingElse DEF Read, cacheVars, flagVars, sizeVars, fileVars, threadVars,
     diskVars, callerVars, TypeOK, ThreadInv
<1>16. ASSUME NEW s \in Streams, Close(s) PROVE ThreadInv'
  BY <1>16, NothingElse DEF Close, cacheVars, flagVars, sizeVars, threadVars, diskVars,
     callerVars, TypeOK, ThreadInv
<1>17. ASSUME NEW s \in Streams, Seek(s) PROVE ThreadInv'
  BY <1>17, NothingElse DEF Seek, cacheVars, flagVars, sizeVars, fileVars, threadVars,
     diskVars, callerVars, TypeOK, ThreadInv
<1>18. ASSUME NEW f \in Files, FetchChunk(f) PROVE ThreadInv'
  BY <1>18, NothingElse DEF FetchChunk, FGo, cacheVars, callerVars, streamVars, TypeOK,
     ThreadInv
<1>19. ASSUME NEW f \in Files, FetchEos(f) PROVE ThreadInv'
  BY <1>19, NothingElse DEF FetchEos, FGo, cacheVars, flagVars, sizeVars, fileVars,
     diskVars, callerVars, streamVars, TypeOK, ThreadInv
<1>20. ASSUME NEW f \in Files, FetchEnd(f) PROVE ThreadInv'
  BY <1>20, NothingElse DEF FetchEnd, FGo, cacheVars, flagVars, sizeVars, fileVars,
     diskVars, callerVars, streamVars, TypeOK, ThreadInv
<1>21. ASSUME NEW f \in Files, FetchCheck(f) PROVE ThreadInv'
  BY <1>21, NothingElse DEF FetchCheck, FGo, cacheVars, flagVars, sizeVars, fileVars,
     diskVars, callerVars, streamVars, TypeOK, ThreadInv
<1>22. ASSUME NEW f \in Files, FetchRename(f) PROVE ThreadInv'
  BY <1>22, NothingElse DEF FetchRename, FGo, cacheVars, sizeVars, callerVars,
     streamVars, TypeOK, ThreadInv
<1>23. ASSUME NEW f \in Files, FetchDrop(f) PROVE ThreadInv'
  BY <1>23, NothingElse DEF FetchDrop, FGo, cacheVars, flagVars, callerVars, streamVars,
     TypeOK, ThreadInv
<1>24. ASSUME NEW size \in MaxSizes, Restart(size) PROVE ThreadInv'
  <2>1. PICK g \in [OnDisk -> Files] : Refilled(g)
    BY <1>24, RestartFacts
  <2> QED BY <1>24, <2>1 DEF Restart, Refilled, ThreadInv
<1>25. CASE UNCHANGED vars
  BY <1>25, NothingElse DEF vars, cacheVars, flagVars, sizeVars, fileVars, threadVars,
     diskVars, callerVars, streamVars, TypeOK, ThreadInv
<1> QED BY <1>1, <1>2, <1>3, <1>4, <1>5, <1>6, <1>7, <1>8, <1>9, <1>10, <1>11, <1>12, <1>13,
      <1>14, <1>15, <1>16, <1>17, <1>18, <1>19, <1>20, <1>21, <1>22, <1>23, <1>24, <1>25
      DEF Next, Call, CallerStep, FetchStep

\* Every step keeps the keys.
LEMMA KeyStep == TypeOK /\ CallInv /\ KeyInv /\ [Next]_vars => KeyInv'
<1> SUFFICES ASSUME TypeOK, CallInv, KeyInv, [Next]_vars PROVE KeyInv'
  OBVIOUS
<1>1. ASSUME NEW c \in Callers, NEW i \in Ids, Lookup(c, i) PROVE KeyInv'
  BY <1>1, NothingElse DEF Lookup, Go, cacheVars, flagVars, sizeVars, fileVars,
     threadVars, diskVars, streamVars, TypeOK, KeyInv
<1>2. ASSUME NEW c \in Callers, Fetch(c) PROVE KeyInv'
  BY <1>2, NothingElse DEF Fetch, Go, Return, cacheVars, flagVars, sizeVars, fileVars,
     threadVars, diskVars, streamVars, TypeOK, KeyInv
<1>3. ASSUME NEW c \in Callers, List(c) PROVE KeyInv'
  BY <1>3, NothingElse DEF List, Go, cacheVars, flagVars, sizeVars, fileVars,
     threadVars, diskVars, streamVars, TypeOK, KeyInv
<1>4. ASSUME NEW c \in Callers, Sort(c) PROVE KeyInv'
  BY <1>4, NothingElse DEF Sort, Go, cacheVars, flagVars, sizeVars, fileVars,
     threadVars, diskVars, streamVars, TypeOK, KeyInv
<1>5. ASSUME NEW c \in Callers, Evict(c) PROVE KeyInv'
  <2>1. ASSUME NEW i \in Ids, cached_files'[i] # Nothing
        PROVE  cached_files'[i] = cached_files[i]
    BY <1>5, <2>1, EvictCases DEF EvictOne, EvictEnds, TypeOK
  <2> QED BY <1>5, <2>1, EvictCases DEF fileVars, TypeOK, KeyInv
<1>6. ASSUME NEW c \in Callers, Mark(c) PROVE KeyInv'
  <2>1. ASSUME NEW i \in Ids, cached_files'[i] # Nothing
        PROVE  cached_files'[i] = cached_files[i]
    BY <1>6, <2>1, RemovedCases DEF Mark, TypeOK
  <2> QED BY <1>6, <2>1 DEF Mark, KeyInv
<1>7. ASSUME NEW c \in Callers, Unlink(c) PROVE KeyInv'
  <2>1. ASSUME NEW i \in Ids, cached_files'[i] # Nothing
        PROVE  cached_files'[i] = cached_files[i]
    BY <1>7, <2>1, RemovedCases DEF Unlink, TypeOK
  <2> QED BY <1>7, <2>1 DEF Unlink, KeyInv
<1>8. ASSUME NEW c \in Callers, NEW i \in Ids, Filter(c, i) PROVE KeyInv'
  BY <1>8, NothingElse DEF Filter, Go, flagVars, sizeVars, fileVars, threadVars,
     diskVars, streamVars, TypeOK, KeyInv
<1>9. ASSUME NEW c \in Callers, NEW size \in MaxSizes, SetMaxSize(c, size) PROVE KeyInv'
  BY <1>9, NothingElse DEF SetMaxSize, Go, flagVars, sizeVars, fileVars, threadVars,
     diskVars, streamVars, TypeOK, KeyInv
<1>10. ASSUME NEW c \in Callers, New(c) PROVE KeyInv'
  <2>1. PICK f \in Files : NewFile(c, f)
    BY <1>10, NewFacts
  <2>2. UNCHANGED cached_files /\ id[f] = Nothing /\ id' = [id EXCEPT ![f] = want[c]]
    BY <1>10, <2>1 DEF New, NewFile, cacheVars
  <2> QED BY <2>2, NothingElse DEF TypeOK, KeyInv
<1>11. ASSUME NEW c \in Callers, Insert(c) PROVE KeyInv'
  <2>1. cached_file[c] \in Files /\ id[cached_file[c]] = want[c]
    BY <1>11 DEF Insert, CallInv, Held
  <2> QED BY <1>11, <2>1 DEF Insert, fileVars, TypeOK, KeyInv
<1>12. ASSUME NEW c \in Callers, Choose(c) PROVE KeyInv'
  BY <1>12, NothingElse DEF Choose, Go, Return, cacheVars, flagVars, sizeVars, fileVars,
     threadVars, diskVars, callerVars, streamVars, TypeOK, KeyInv
<1>13. ASSUME NEW c \in Callers, Open(c) PROVE KeyInv'
  BY <1>13, NothingElse DEF Open, Go, cacheVars, flagVars, sizeVars, fileVars,
     threadVars, diskVars, streamVars, TypeOK, KeyInv
<1>14. ASSUME NEW c \in Callers, Register(c) PROVE KeyInv'
  BY <1>14, NothingElse DEF Register, Go, Return, cacheVars, flagVars, sizeVars,
     threadVars, diskVars, TypeOK, KeyInv
<1>15. ASSUME NEW s \in Streams, Read(s) PROVE KeyInv'
  BY <1>15, NothingElse DEF Read, cacheVars, flagVars, sizeVars, fileVars, threadVars,
     diskVars, callerVars, TypeOK, KeyInv
<1>16. ASSUME NEW s \in Streams, Close(s) PROVE KeyInv'
  BY <1>16, NothingElse DEF Close, cacheVars, flagVars, sizeVars, threadVars, diskVars,
     callerVars, TypeOK, KeyInv
<1>17. ASSUME NEW s \in Streams, Seek(s) PROVE KeyInv'
  BY <1>17, NothingElse DEF Seek, cacheVars, flagVars, sizeVars, fileVars, threadVars,
     diskVars, callerVars, TypeOK, KeyInv
<1>18. ASSUME NEW f \in Files, FetchChunk(f) PROVE KeyInv'
  BY <1>18, NothingElse DEF FetchChunk, FGo, cacheVars, callerVars, streamVars, TypeOK,
     KeyInv
<1>19. ASSUME NEW f \in Files, FetchEos(f) PROVE KeyInv'
  BY <1>19, NothingElse DEF FetchEos, FGo, cacheVars, flagVars, sizeVars, fileVars,
     diskVars, callerVars, streamVars, TypeOK, KeyInv
<1>20. ASSUME NEW f \in Files, FetchEnd(f) PROVE KeyInv'
  BY <1>20, NothingElse DEF FetchEnd, FGo, cacheVars, flagVars, sizeVars, fileVars,
     diskVars, callerVars, streamVars, TypeOK, KeyInv
<1>21. ASSUME NEW f \in Files, FetchCheck(f) PROVE KeyInv'
  BY <1>21, NothingElse DEF FetchCheck, FGo, cacheVars, flagVars, sizeVars, fileVars,
     diskVars, callerVars, streamVars, TypeOK, KeyInv
<1>22. ASSUME NEW f \in Files, FetchRename(f) PROVE KeyInv'
  BY <1>22, NothingElse DEF FetchRename, FGo, cacheVars, sizeVars, callerVars,
     streamVars, TypeOK, KeyInv
<1>23. ASSUME NEW f \in Files, FetchDrop(f) PROVE KeyInv'
  BY <1>23, NothingElse DEF FetchDrop, FGo, cacheVars, flagVars, callerVars, streamVars,
     TypeOK, KeyInv
<1>24. ASSUME NEW size \in MaxSizes, Restart(size) PROVE KeyInv'
  <2>1. PICK g \in [OnDisk -> Files] : Refilled(g)
    BY <1>24, RestartFacts
  <2> QED BY <1>24, <2>1 DEF Refilled, KeyInv
<1>25. CASE UNCHANGED vars
  BY <1>25, NothingElse DEF vars, cacheVars, flagVars, sizeVars, fileVars, threadVars,
     diskVars, callerVars, streamVars, TypeOK, KeyInv
<1> QED BY <1>1, <1>2, <1>3, <1>4, <1>5, <1>6, <1>7, <1>8, <1>9, <1>10, <1>11, <1>12, <1>13,
      <1>14, <1>15, <1>16, <1>17, <1>18, <1>19, <1>20, <1>21, <1>22, <1>23, <1>24, <1>25
      DEF Next, Call, CallerStep, FetchStep

\* The streams can be counted.
LEMMA ReadingFinite ==
  \A f \in Files : IsFiniteSet(Reading(f)) /\ Cardinality(Reading(f)) \in Nat
BY NothingElse, FS_Subset, FS_CardinalityType DEF Reading

\* Every step keeps the streams counted.
LEMMA CountStep == TypeOK /\ CallInv /\ CountInv /\ [Next]_vars => CountInv'
<1> SUFFICES ASSUME TypeOK, CallInv, CountInv, [Next]_vars PROVE CountInv'
  OBVIOUS
<1>1. ASSUME NEW c \in Callers, NEW i \in Ids, Lookup(c, i) PROVE CountInv'
  BY <1>1, NothingElse DEF Lookup, Go, cacheVars, flagVars, sizeVars, fileVars,
     threadVars, diskVars, streamVars, TypeOK, CountInv, Reading
<1>2. ASSUME NEW c \in Callers, Fetch(c) PROVE CountInv'
  BY <1>2, NothingElse DEF Fetch, Go, Return, cacheVars, flagVars, sizeVars, fileVars,
     threadVars, diskVars, streamVars, TypeOK, CountInv, Reading
<1>3. ASSUME NEW c \in Callers, List(c) PROVE CountInv'
  BY <1>3, NothingElse DEF List, Go, cacheVars, flagVars, sizeVars, fileVars,
     threadVars, diskVars, streamVars, TypeOK, CountInv, Reading
<1>4. ASSUME NEW c \in Callers, Sort(c) PROVE CountInv'
  BY <1>4, NothingElse DEF Sort, Go, cacheVars, flagVars, sizeVars, fileVars,
     threadVars, diskVars, streamVars, TypeOK, CountInv, Reading
<1>5. ASSUME NEW c \in Callers, Evict(c) PROVE CountInv'
  BY <1>5, NothingElse DEF Evict, Go, Return, flagVars, sizeVars, fileVars, threadVars,
     diskVars, callerVars, streamVars, TypeOK, CountInv, Reading
<1>6. ASSUME NEW c \in Callers, Mark(c) PROVE CountInv'
  BY <1>6, NothingElse DEF Mark, Go, Return, Removed, sizeVars, threadVars, diskVars,
     callerVars, streamVars, TypeOK, CountInv, Reading
<1>7. ASSUME NEW c \in Callers, Unlink(c) PROVE CountInv'
  BY <1>7, NothingElse DEF Unlink, Go, Return, Removed, sizeVars, threadVars,
     callerVars, streamVars, TypeOK, CountInv, Reading
<1>8. ASSUME NEW c \in Callers, NEW i \in Ids, Filter(c, i) PROVE CountInv'
  BY <1>8, NothingElse DEF Filter, Go, flagVars, sizeVars, fileVars, threadVars,
     diskVars, streamVars, TypeOK, CountInv, Reading
<1>9. ASSUME NEW c \in Callers, NEW size \in MaxSizes, SetMaxSize(c, size) PROVE CountInv'
  BY <1>9, NothingElse DEF SetMaxSize, Go, flagVars, sizeVars, fileVars, threadVars,
     diskVars, streamVars, TypeOK, CountInv, Reading
<1>10. ASSUME NEW c \in Callers, New(c) PROVE CountInv'
  BY <1>10, NothingElse DEF New, Go, FGo, cacheVars, flagVars, streamVars, TypeOK,
     CountInv, Reading
<1>11. ASSUME NEW c \in Callers, Insert(c) PROVE CountInv'
  BY <1>11, NothingElse DEF Insert, Go, flagVars, sizeVars, fileVars, threadVars,
     diskVars, callerVars, streamVars, TypeOK, CountInv, Reading
<1>12. ASSUME NEW c \in Callers, Choose(c) PROVE CountInv'
  BY <1>12, NothingElse DEF Choose, Go, Return, cacheVars, flagVars, sizeVars, fileVars,
     threadVars, diskVars, callerVars, streamVars, TypeOK, CountInv, Reading
<1>13. ASSUME NEW c \in Callers, Open(c) PROVE CountInv'
  BY <1>13, NothingElse DEF Open, Go, cacheVars, flagVars, sizeVars, fileVars,
     threadVars, diskVars, streamVars, TypeOK, CountInv, Reading
<1>14. ASSUME NEW c \in Callers, Register(c) PROVE CountInv'
  <2>1. PICK s \in Streams : /\ file[s] = Nothing
                             /\ file' = [file EXCEPT ![s] = cached_file[c]]
                             /\ position' = [position EXCEPT ![s] = 0]
    BY <1>14, RegisterFacts
  <2>2. PICK f : f = cached_file[c]
    OBVIOUS
  <2>3. f \in Files /\ active_ops' = [active_ops EXCEPT ![f] = active_ops[f] + 1]
    <3>1. Held(c) /\ pc[c] = "register"
      BY <1>14 DEF Register, CallInv
    <3>2. f \in Files
      BY <2>2, <3>1 DEF Held
    <3> QED BY <1>14, <2>2, <3>2 DEF Register
  <2>4. \A g \in Files : g # f => Reading(g)' = Reading(g)
    BY <2>1, <2>2, <2>3, NothingElse DEF Reading, TypeOK
  <2>5. Reading(f)' = Reading(f) \cup {s} /\ s \notin Reading(f)
    BY <2>1, <2>2, <2>3, NothingElse DEF Reading, TypeOK
  <2>6. Cardinality(Reading(f)') = Cardinality(Reading(f)) + 1
    <3>1. IsFiniteSet(Reading(f))
      BY <2>3, ReadingFinite
    <3> QED BY <2>5, <3>1, FS_AddElement
  <2>7. ASSUME NEW g \in Files PROVE Cardinality(Reading(g)') <= active_ops'[g]
    <3>1. CASE g = f
      <4>1. Cardinality(Reading(f)) <= active_ops[f] /\ Cardinality(Reading(f)) \in Nat
        BY <2>3, ReadingFinite DEF CountInv
      <4>2. active_ops'[f] = active_ops[f] + 1 /\ active_ops[f] \in Nat
        BY <2>3 DEF TypeOK
      <4> QED BY <2>6, <3>1, <4>1, <4>2
    <3>2. CASE g # f
      BY <2>3, <2>4, <3>2 DEF CountInv, TypeOK
    <3> QED BY <3>1, <3>2
  <2> QED BY <2>7 DEF CountInv
<1>15. ASSUME NEW s \in Streams, Read(s) PROVE CountInv'
  <2>1. UNCHANGED <<file, active_ops>>
    BY <1>15, ReadCases DEF fileVars
  <2>2. PICK p \in Int : position' = [position EXCEPT ![s] = p]
    BY <1>15, ReadCases
  <2>3. position[s] # -1
    BY <1>15, ReadCases
  <2>4. ASSUME NEW g \in Files PROVE Cardinality(Reading(g)') <= active_ops'[g]
    <3>1. Reading(g)' \subseteq Reading(g)
      BY <2>1, <2>2, <2>3 DEF Reading, TypeOK
    <3>2. Cardinality(Reading(g)') <= Cardinality(Reading(g))
            /\ Cardinality(Reading(g)') \in Nat
      BY <3>1, ReadingFinite, FS_Subset, FS_CardinalityType
    <3> QED BY <2>1, <3>2, ReadingFinite DEF CountInv, TypeOK
  <2> QED BY <2>4 DEF CountInv
<1>16. ASSUME NEW s \in Streams, Close(s) PROVE CountInv'
  <2>1. file[s] \in Files
    BY <1>16 DEF Close, TypeOK
  <2>2. PICK f : f = file[s]
    OBVIOUS
  <2>3. /\ f \in Files /\ file' = [file EXCEPT ![s] = Nothing]
        /\ position' = [position EXCEPT ![s] = -1]
        /\ \A g \in Files : active_ops'[g] =
             IF g = f /\ position[s] # -1 THEN active_ops[g] - 1 ELSE active_ops[g]
    <3>1. file' = [file EXCEPT ![s] = Nothing] /\ position' = [position EXCEPT ![s] = -1]
      BY <1>16 DEF Close
    <3>2. active_ops' = [active_ops EXCEPT ![f] = IF position[s] = -1 THEN active_ops[f]
                                                ELSE active_ops[f] - 1]
      BY <1>16, <2>1, <2>2 DEF Close, TypeOK
    <3>3. \A g \in Files : active_ops'[g] =
            IF g = f /\ position[s] # -1 THEN active_ops[g] - 1 ELSE active_ops[g]
      BY <2>1, <2>2, <3>2 DEF TypeOK
    <3> QED BY <2>1, <2>2, <3>1, <3>3
  <2>4. \A g \in Files : g # f => Reading(g)' = Reading(g)
    BY <2>2, <2>3, NothingElse DEF Reading, TypeOK
  <2>5. Reading(f)' = Reading(f) \ {s} /\ (position[s] # -1 <=> s \in Reading(f))
    BY <2>2, <2>3, NothingElse DEF Reading, TypeOK
  <2>6. CASE position[s] = -1
    <3>1. Reading(f)' = Reading(f)
      BY <2>5, <2>6
    <3>2. \A g \in Files : Reading(g)' = Reading(g) /\ active_ops'[g] = active_ops[g]
      BY <2>3, <2>4, <2>6, <3>1
    <3> QED BY <3>2 DEF CountInv
  <2>7. CASE position[s] # -1
    <3>1. Cardinality(Reading(f)') = Cardinality(Reading(f)) - 1
      <4>1. IsFiniteSet(Reading(f)) /\ s \in Reading(f)
        BY <2>3, <2>5, <2>7, ReadingFinite
      <4> QED BY <2>5, <4>1, FS_RemoveElement
    <3>2. active_ops'[f] = active_ops[f] - 1 /\ \A g \in Files : g # f =>
            active_ops'[g] = active_ops[g]
      BY <2>3, <2>7
    <3>3. ASSUME NEW g \in Files PROVE Cardinality(Reading(g)') <= active_ops'[g]
      <4>1. CASE g = f
        <5>1. Cardinality(Reading(f)) <= active_ops[f] /\ Cardinality(Reading(f)) \in Nat
          BY <2>3, ReadingFinite DEF CountInv
        <5>2. active_ops[f] \in Nat
          BY <2>3 DEF TypeOK
        <5> QED BY <3>1, <3>2, <4>1, <5>1, <5>2
      <4>2. CASE g # f
        BY <2>4, <3>2, <4>2 DEF CountInv
      <4> QED BY <4>1, <4>2
    <3> QED BY <3>3 DEF CountInv
  <2> QED BY <2>6, <2>7
<1>17. ASSUME NEW s \in Streams, Seek(s) PROVE CountInv'
  BY <1>17, NothingElse DEF Seek, cacheVars, flagVars, sizeVars, fileVars, threadVars,
     diskVars, callerVars, TypeOK, CountInv, Reading
<1>18. ASSUME NEW f \in Files, FetchChunk(f) PROVE CountInv'
  BY <1>18, NothingElse DEF FetchChunk, FGo, cacheVars, callerVars, streamVars, TypeOK,
     CountInv, Reading
<1>19. ASSUME NEW f \in Files, FetchEos(f) PROVE CountInv'
  BY <1>19, NothingElse DEF FetchEos, FGo, cacheVars, flagVars, sizeVars, fileVars,
     diskVars, callerVars, streamVars, TypeOK, CountInv, Reading
<1>20. ASSUME NEW f \in Files, FetchEnd(f) PROVE CountInv'
  BY <1>20, NothingElse DEF FetchEnd, FGo, cacheVars, flagVars, sizeVars, fileVars,
     diskVars, callerVars, streamVars, TypeOK, CountInv, Reading
<1>21. ASSUME NEW f \in Files, FetchCheck(f) PROVE CountInv'
  BY <1>21, NothingElse DEF FetchCheck, FGo, cacheVars, flagVars, sizeVars, fileVars,
     diskVars, callerVars, streamVars, TypeOK, CountInv, Reading
<1>22. ASSUME NEW f \in Files, FetchRename(f) PROVE CountInv'
  BY <1>22, NothingElse DEF FetchRename, FGo, cacheVars, sizeVars, callerVars,
     streamVars, TypeOK, CountInv, Reading
<1>23. ASSUME NEW f \in Files, FetchDrop(f) PROVE CountInv'
  BY <1>23, NothingElse DEF FetchDrop, FGo, cacheVars, flagVars, callerVars, streamVars,
     TypeOK, CountInv, Reading
<1>24. ASSUME NEW size \in MaxSizes, Restart(size) PROVE CountInv'
  <2>1. \A g \in Files : Reading(g)' = {} /\ active_ops'[g] = 0
    BY <1>24, NothingElse DEF Restart, Reading
  <2> QED BY <2>1, FS_EmptySet DEF CountInv
<1>25. CASE UNCHANGED vars
  BY <1>25, NothingElse DEF vars, cacheVars, flagVars, sizeVars, fileVars, threadVars,
     diskVars, callerVars, streamVars, TypeOK, CountInv, Reading
<1> QED BY <1>1, <1>2, <1>3, <1>4, <1>5, <1>6, <1>7, <1>8, <1>9, <1>10, <1>11, <1>12, <1>13,
      <1>14, <1>15, <1>16, <1>17, <1>18, <1>19, <1>20, <1>21, <1>22, <1>23, <1>24, <1>25
      DEF Next, Call, CallerStep, FetchStep

----------------------------------------------------------------------------
(* The directory, the descriptors of the fetching threads and their sizes. *)

\* No two ids share an inode.
NamesInv == \A i, j \in Ids : i # j =>
               /\ tmp[i] # Nothing => tmp[i] \notin {tmp[j], final[j]}
               /\ final[i] # Nothing => final[i] # final[j]

\* A thread writes what belongs to its id, and never more than that is long.
WriteInv ==
  /\ \A f, g \in Files : write_fd[f] # Nothing /\ write_fd[g] = write_fd[f] => id[g] = id[f]
  /\ \A f \in Files, i \in Ids : write_fd[f] # Nothing
       /\ write_fd[f] \in {tmp[i], final[i]} =>
       id[f] = i
  /\ \A f \in Files : write_fd[f] # Nothing =>
       fetched[f] <= data[write_fd[f]] /\ data[write_fd[f]] <= SizeOf[id[f]]
  /\ \A i \in Ids : tmp[i] # Nothing => data[tmp[i]] <= SizeOf[i]

\* A caller asks for room for all that will come.
Asks(c) == /\ pc[c] \in {"list", "sort", "evict", "mark", "unlink", "new"}
           /\ want[c] \in Ids /\ cache_lock # c
AskInv == \A c \in Callers : Asks(c) => SizeOf[want[c]] <= required[c]

\* How far the thread of f is, by where it is.
Progress(f) ==
  /\ fpc[f] # "none" => fetched[f] <= SizeOf[id[f]]
  /\ fpc[f] \notin {"none", "ended"} => SizeOf[id[f]] <= expected[f]
  /\ fpc[f] \notin {"none", "ended"} /\ fetched[f] > 0 => write_fd[f] # Nothing
  /\ fpc[f] = "drain" => invalid[f]
  /\ fpc[f] \in {"end", "check", "drop"} /\ ~invalid[f] => fetched[f] = SizeOf[id[f]]
  /\ fpc[f] = "rename" => fetched[f] = SizeOf[id[f]]
  /\ fpc[f] = "ended" /\ ~invalid[f] => fetched[f] = SizeOf[id[f]]
       /\ expected[f] = fetched[f]
ProgressInv == \A f \in Files : Progress(f)

\* The other files are as they were.
OtherFiles(f) ==
  \A g \in Files : g # f =>
    /\ fpc'[g] = fpc[g] /\ write_fd'[g] = write_fd[g] /\ id'[g] = id[g]
    /\ fetched'[g] = fetched[g] /\ expected'[g] = expected[g] /\ invalid'[g] = invalid[g]

\* It is enough to look at the file of the thread that takes the step.
LEMMA ProgressFrame ==
  ASSUME ProgressInv, NEW f \in Files, OtherFiles(f), Progress(f)' PROVE ProgressInv'
BY DEF ProgressInv, Progress, OtherFiles

\* It is enough to look at the caller that takes the step.
LEMMA AskFrame ==
  ASSUME AskInv, NEW c \in Callers, Others(c), Asks(c)' => (SizeOf[want[c]] <= required[c])'
  PROVE  AskInv'
<1> SUFFICES ASSUME NEW d \in Callers, d # c, Asks(d)'
             PROVE  (SizeOf[want[d]] <= required[d])'
  BY DEF AskInv
<1>1. Asks(d) /\ want'[d] = want[d] /\ required'[d] = required[d]
  BY DEF Asks, Others
<1> QED BY <1>1 DEF AskInv

----------------------------------------------------------------------------
(* The steps keep what the threads write.                                  *)

\* Every step keeps the inodes of different ids apart.
LEMMA NamesStep == TypeOK /\ CallInv /\ ThreadInv /\ NamesInv /\ [Next]_vars => NamesInv'
<1> SUFFICES ASSUME TypeOK, CallInv, ThreadInv, NamesInv, [Next]_vars PROVE NamesInv'
  OBVIOUS
<1>1. ASSUME NEW c \in Callers, NEW i \in Ids, Lookup(c, i) PROVE NamesInv'
  BY <1>1, NothingElse DEF Lookup, Go, cacheVars, flagVars, sizeVars, fileVars,
     threadVars, diskVars, streamVars, NamesInv
<1>2. ASSUME NEW c \in Callers, Fetch(c) PROVE NamesInv'
  BY <1>2, NothingElse DEF Fetch, Go, Return, cacheVars, flagVars, sizeVars, fileVars,
     threadVars, diskVars, streamVars, NamesInv
<1>3. ASSUME NEW c \in Callers, List(c) PROVE NamesInv'
  BY <1>3, NothingElse DEF List, Go, cacheVars, flagVars, sizeVars, fileVars,
     threadVars, diskVars, streamVars, NamesInv
<1>4. ASSUME NEW c \in Callers, Sort(c) PROVE NamesInv'
  BY <1>4, NothingElse DEF Sort, Go, cacheVars, flagVars, sizeVars, fileVars,
     threadVars, diskVars, streamVars, NamesInv
<1>5. ASSUME NEW c \in Callers, Evict(c) PROVE NamesInv'
  BY <1>5, NothingElse DEF Evict, Go, Return, flagVars, sizeVars, fileVars, threadVars,
     diskVars, callerVars, streamVars, NamesInv
<1>6. ASSUME NEW c \in Callers, Mark(c) PROVE NamesInv'
  BY <1>6, NothingElse DEF Mark, Go, Return, Removed, sizeVars, threadVars, diskVars,
     callerVars, streamVars, NamesInv
<1>7. ASSUME NEW c \in Callers, Unlink(c) PROVE NamesInv'
  <2>1. UNCHANGED tmp /\ \A i \in Ids : final'[i] \in {final[i], Nothing}
    BY <1>7 DEF Unlink, TypeOK
  <2> QED BY <2>1 DEF NamesInv
<1>8. ASSUME NEW c \in Callers, NEW i \in Ids, Filter(c, i) PROVE NamesInv'
  BY <1>8, NothingElse DEF Filter, Go, flagVars, sizeVars, fileVars, threadVars,
     diskVars, streamVars, NamesInv
<1>9. ASSUME NEW c \in Callers, NEW size \in MaxSizes, SetMaxSize(c, size) PROVE NamesInv'
  BY <1>9, NothingElse DEF SetMaxSize, Go, flagVars, sizeVars, fileVars, threadVars,
     diskVars, streamVars, NamesInv
<1>10. ASSUME NEW c \in Callers, New(c) PROVE NamesInv'
  <2>1. PICK f \in Files : NewFile(c, f)
    BY <1>10, NewFacts
  <2>2. UNCHANGED final /\ want[c] \in Ids
    BY <1>10 DEF New, CallInv, Held
  <2>3. CASE UNCHANGED <<tmp, data>>
    BY <2>2, <2>3 DEF NamesInv
  <2>4. ASSUME NEW n \in Inodes, UnusedInode(n), tmp' = [tmp EXCEPT ![want[c]] = n]
        PROVE  NamesInv'
    <3>1. \A i \in Ids : n # tmp[i] /\ n # final[i]
      BY <2>4 DEF UnusedInode
    <3> QED BY <2>2, <2>4, <3>1, NothingElse DEF TypeOK, NamesInv
  <2> QED BY <2>1, <2>3, <2>4 DEF NewFile
<1>11. ASSUME NEW c \in Callers, Insert(c) PROVE NamesInv'
  BY <1>11, NothingElse DEF Insert, Go, flagVars, sizeVars, fileVars, threadVars,
     diskVars, callerVars, streamVars, NamesInv
<1>12. ASSUME NEW c \in Callers, Choose(c) PROVE NamesInv'
  BY <1>12, NothingElse DEF Choose, Go, Return, cacheVars, flagVars, sizeVars, fileVars,
     threadVars, diskVars, callerVars, streamVars, NamesInv
<1>13. ASSUME NEW c \in Callers, Open(c) PROVE NamesInv'
  BY <1>13, NothingElse DEF Open, Go, cacheVars, flagVars, sizeVars, fileVars,
     threadVars, diskVars, streamVars, NamesInv
<1>14. ASSUME NEW c \in Callers, Register(c) PROVE NamesInv'
  BY <1>14, NothingElse DEF Register, Go, Return, cacheVars, flagVars, sizeVars,
     threadVars, diskVars, NamesInv
<1>15. ASSUME NEW s \in Streams, Read(s) PROVE NamesInv'
  BY <1>15, NothingElse DEF Read, cacheVars, flagVars, sizeVars, fileVars, threadVars,
     diskVars, callerVars, NamesInv
<1>16. ASSUME NEW s \in Streams, Close(s) PROVE NamesInv'
  BY <1>16, NothingElse DEF Close, cacheVars, flagVars, sizeVars, threadVars, diskVars,
     callerVars, NamesInv
<1>17. ASSUME NEW s \in Streams, Seek(s) PROVE NamesInv'
  BY <1>17, NothingElse DEF Seek, cacheVars, flagVars, sizeVars, fileVars, threadVars,
     diskVars, callerVars, NamesInv
<1>18. ASSUME NEW f \in Files, FetchChunk(f) PROVE NamesInv'
  BY <1>18, NothingElse DEF FetchChunk, FGo, cacheVars, callerVars, streamVars, NamesInv
<1>19. ASSUME NEW f \in Files, FetchEos(f) PROVE NamesInv'
  BY <1>19, NothingElse DEF FetchEos, FGo, cacheVars, flagVars, sizeVars, fileVars,
     diskVars, callerVars, streamVars, NamesInv
<1>20. ASSUME NEW f \in Files, FetchEnd(f) PROVE NamesInv'
  BY <1>20, NothingElse DEF FetchEnd, FGo, cacheVars, flagVars, sizeVars, fileVars,
     diskVars, callerVars, streamVars, NamesInv
<1>21. ASSUME NEW f \in Files, FetchCheck(f) PROVE NamesInv'
  BY <1>21, NothingElse DEF FetchCheck, FGo, cacheVars, flagVars, sizeVars, fileVars,
     diskVars, callerVars, streamVars, NamesInv
<1>22. ASSUME NEW f \in Files, FetchRename(f) PROVE NamesInv'
  <2>1. CASE UNCHANGED <<tmp, final>>
    BY <2>1 DEF NamesInv
  <2>2. CASE /\ tmp[id[f]] # Nothing /\ final' = [final EXCEPT ![id[f]] = tmp[id[f]]]
             /\ tmp' = [tmp EXCEPT ![id[f]] = Nothing]
    <3>1. id[f] \in Ids
      BY <1>22, RenameCases DEF ThreadInv
    <3> QED BY <2>2, <3>1 DEF TypeOK, NamesInv
  <2> QED BY <1>22, <2>1, <2>2, RenameCases
<1>23. ASSUME NEW f \in Files, FetchDrop(f) PROVE NamesInv'
  <2>1. UNCHANGED final /\ \A i \in Ids : tmp'[i] \in {tmp[i], Nothing}
    BY <1>23, DropCases DEF TypeOK
  <2> QED BY <2>1 DEF NamesInv
<1>24. ASSUME NEW size \in MaxSizes, Restart(size) PROVE NamesInv'
  BY <1>24, NothingElse DEF Restart, NamesInv
<1>25. CASE UNCHANGED vars
  BY <1>25, NothingElse DEF vars, cacheVars, flagVars, sizeVars, fileVars, threadVars,
     diskVars, callerVars, streamVars, NamesInv
<1> QED BY <1>1, <1>2, <1>3, <1>4, <1>5, <1>6, <1>7, <1>8, <1>9, <1>10, <1>11, <1>12, <1>13,
      <1>14, <1>15, <1>16, <1>17, <1>18, <1>19, <1>20, <1>21, <1>22, <1>23, <1>24, <1>25
      DEF Next, Call, CallerStep, FetchStep

\* A caller that has returned asks for nothing.
LEMMA ReturnAsks ==
  ASSUME TypeOK, NEW c \in Callers, Return(c) PROVE ~Asks(c)'
BY DEF Return, Go, TypeOK, Asks

\* Every step keeps the room asked for large enough.
LEMMA AskStep == TypeOK /\ CallInv /\ AskInv /\ [Next]_vars => AskInv'
<1> SUFFICES ASSUME TypeOK, CallInv, AskInv, [Next]_vars PROVE AskInv'
  OBVIOUS
<1>1. ASSUME NEW c \in Callers, NEW i \in Ids, Lookup(c, i) PROVE AskInv'
  <2>1. Others(c)
    BY <1>1, OthersKept DEF Call
  <2>2. Asks(c)' => (SizeOf[want[c]] <= required[c])'
    BY <1>1, NothingElse DEF Lookup, Go, cacheVars, flagVars, sizeVars, fileVars,
       threadVars, diskVars, streamVars, TypeOK, CallInv, Held, AskInv, Asks
  <2> QED BY <2>1, <2>2, AskFrame
<1>2. ASSUME NEW c \in Callers, Fetch(c) PROVE AskInv'
  <2>1. Others(c)
    BY <1>2, OthersKept DEF CallerStep
  <2>2. Asks(c)' => (SizeOf[want[c]] <= required[c])'
    <3>1. want[c] \in Ids
      BY <1>2 DEF Fetch, CallInv, Held
    <3>2. CASE Return(c)
      BY <3>2, ReturnAsks
    <3>3. CASE \E m \in Nat : /\ SizeOf[want[c]] <= m
                              /\ required' = [required EXCEPT ![c] = m] /\ Go(c, "list")
                              /\ UNCHANGED <<want, cached_file, old, available, new_fd>>
      BY <3>3 DEF TypeOK
    <3> QED BY <1>2, <3>1, <3>2, <3>3, FetchCases
  <2> QED BY <2>1, <2>2, AskFrame
<1>3. ASSUME NEW c \in Callers, List(c) PROVE AskInv'
  <2>1. Others(c)
    BY <1>3, OthersKept DEF CallerStep
  <2>2. Asks(c)' => (SizeOf[want[c]] <= required[c])'
    BY <1>3, NothingElse DEF List, Go, cacheVars, flagVars, sizeVars, fileVars, threadVars,
       diskVars, streamVars, TypeOK, CallInv, Held, AskInv, Asks
  <2> QED BY <2>1, <2>2, AskFrame
<1>4. ASSUME NEW c \in Callers, Sort(c) PROVE AskInv'
  <2>1. Others(c)
    BY <1>4, OthersKept DEF CallerStep
  <2>2. Asks(c)' => (SizeOf[want[c]] <= required[c])'
    BY <1>4, NothingElse DEF Sort, Go, cacheVars, flagVars, sizeVars, fileVars, threadVars,
       diskVars, streamVars, TypeOK, CallInv, Held, AskInv, Asks
  <2> QED BY <2>1, <2>2, AskFrame
<1>5. ASSUME NEW c \in Callers, Evict(c) PROVE AskInv'
  <2>1. Others(c)
    BY <1>5, OthersKept DEF CallerStep
  <2>2. Asks(c)' => (SizeOf[want[c]] <= required[c])'
    <3>1. CASE Return(c)
      BY <3>1, ReturnAsks
    <3>2. CASE UNCHANGED <<cache_lock, want, required>>
      <4>1. Asks(c)' => Asks(c)
        BY <1>5, <3>2, EvictCases, NothingElse DEF Asks
      <4> QED BY <3>2, <4>1 DEF AskInv
    <3> QED BY <1>5, <3>1, <3>2, EvictCases DEF EvictOne, EvictEnds, callerVars
  <2> QED BY <2>1, <2>2, AskFrame
<1>6. ASSUME NEW c \in Callers, Mark(c) PROVE AskInv'
  <2>1. Others(c)
    BY <1>6, OthersKept DEF CallerStep
  <2>2. Asks(c)' => (SizeOf[want[c]] <= required[c])'
    <3>1. CASE Return(c)
      BY <3>1, ReturnAsks
    <3>2. CASE UNCHANGED <<cache_lock, callerVars>>
      <4>1. Asks(c)' => Asks(c)
        BY <1>6, <3>2 DEF Mark, Asks, callerVars
      <4> QED BY <3>2, <4>1 DEF AskInv, callerVars
    <3> QED BY <1>6, <3>1, <3>2, RemovedCases DEF Mark
  <2> QED BY <2>1, <2>2, AskFrame
<1>7. ASSUME NEW c \in Callers, Unlink(c) PROVE AskInv'
  <2>1. Others(c)
    BY <1>7, OthersKept DEF CallerStep
  <2>2. Asks(c)' => (SizeOf[want[c]] <= required[c])'
    <3>1. CASE Return(c)
      BY <3>1, ReturnAsks
    <3>2. CASE UNCHANGED <<cache_lock, callerVars>>
      <4>1. Asks(c)' => Asks(c)
        BY <1>7, <3>2 DEF Unlink, Asks, callerVars
      <4> QED BY <3>2, <4>1 DEF AskInv, callerVars
    <3> QED BY <1>7, <3>1, <3>2, RemovedCases DEF Unlink
  <2> QED BY <2>1, <2>2, AskFrame
<1>8. ASSUME NEW c \in Callers, NEW i \in Ids, Filter(c, i) PROVE AskInv'
  <2>1. Others(c)
    BY <1>8, OthersKept DEF Call
  <2>2. Asks(c)' => (SizeOf[want[c]] <= required[c])'
    BY <1>8, NothingElse DEF Filter, Go, flagVars, sizeVars, fileVars, threadVars, diskVars,
       streamVars, TypeOK, CallInv, Held, AskInv, Asks
  <2> QED BY <2>1, <2>2, AskFrame
<1>9. ASSUME NEW c \in Callers, NEW size \in MaxSizes, SetMaxSize(c, size) PROVE AskInv'
  <2>1. Others(c)
    BY <1>9, OthersKept DEF Call
  <2>2. Asks(c)' => (SizeOf[want[c]] <= required[c])'
    BY <1>9, NothingElse DEF SetMaxSize, Go, flagVars, sizeVars, fileVars, threadVars,
       diskVars, streamVars, TypeOK, CallInv, Held, AskInv, Asks
  <2> QED BY <2>1, <2>2, AskFrame
<1>10. ASSUME NEW c \in Callers, New(c) PROVE AskInv'
  <2>1. Others(c)
    BY <1>10, OthersKept DEF CallerStep
  <2>2. Asks(c)' => (SizeOf[want[c]] <= required[c])'
    BY <1>10, NothingElse DEF New, Go, FGo, cacheVars, flagVars, streamVars, TypeOK,
       CallInv, Held, AskInv, Asks
  <2> QED BY <2>1, <2>2, AskFrame
<1>11. ASSUME NEW c \in Callers, Insert(c) PROVE AskInv'
  <2>1. Others(c)
    BY <1>11, OthersKept DEF CallerStep
  <2>2. Asks(c)' => (SizeOf[want[c]] <= required[c])'
    BY <1>11, NothingElse DEF Insert, Go, flagVars, sizeVars, fileVars, threadVars,
       diskVars, callerVars, streamVars, TypeOK, CallInv, Held, AskInv, Asks
  <2> QED BY <2>1, <2>2, AskFrame
<1>12. ASSUME NEW c \in Callers, Choose(c) PROVE AskInv'
  <2>1. Others(c)
    BY <1>12, OthersKept DEF CallerStep
  <2>2. Asks(c)' => (SizeOf[want[c]] <= required[c])'
    <3>1. CASE Return(c)
      BY <3>1, ReturnAsks
    <3>2. CASE Go(c, "open_tmp") \/ Go(c, "open_final")
      BY <3>2 DEF Go, TypeOK, Asks
    <3> QED BY <1>12, <3>1, <3>2, ChooseCases
  <2> QED BY <2>1, <2>2, AskFrame
<1>13. ASSUME NEW c \in Callers, Open(c) PROVE AskInv'
  <2>1. Others(c)
    BY <1>13, OthersKept DEF CallerStep
  <2>2. Asks(c)' => (SizeOf[want[c]] <= required[c])'
    BY <1>13, NothingElse DEF Open, Go, cacheVars, flagVars, sizeVars, fileVars, threadVars,
       diskVars, streamVars, TypeOK, CallInv, Held, AskInv, Asks
  <2> QED BY <2>1, <2>2, AskFrame
<1>14. ASSUME NEW c \in Callers, Register(c) PROVE AskInv'
  <2>1. Others(c)
    BY <1>14, OthersKept DEF CallerStep
  <2>2. Asks(c)' => (SizeOf[want[c]] <= required[c])'
    BY <1>14, ReturnAsks DEF Register
  <2> QED BY <2>1, <2>2, AskFrame
<1>15. ASSUME NEW s \in Streams, Read(s) PROVE AskInv'
  BY <1>15, NothingElse DEF Read, cacheVars, flagVars, sizeVars, fileVars, threadVars,
     diskVars, callerVars, AskInv, Asks
<1>16. ASSUME NEW s \in Streams, Close(s) PROVE AskInv'
  BY <1>16, NothingElse DEF Close, cacheVars, flagVars, sizeVars, threadVars, diskVars,
     callerVars, AskInv, Asks
<1>17. ASSUME NEW s \in Streams, Seek(s) PROVE AskInv'
  BY <1>17, NothingElse DEF Seek, cacheVars, flagVars, sizeVars, fileVars, threadVars,
     diskVars, callerVars, AskInv, Asks
<1>18. ASSUME NEW f \in Files, FetchChunk(f) PROVE AskInv'
  BY <1>18, NothingElse DEF FetchChunk, FGo, cacheVars, callerVars, streamVars, AskInv,
     Asks
<1>19. ASSUME NEW f \in Files, FetchEos(f) PROVE AskInv'
  BY <1>19, NothingElse DEF FetchEos, FGo, cacheVars, flagVars, sizeVars, fileVars,
     diskVars, callerVars, streamVars, AskInv, Asks
<1>20. ASSUME NEW f \in Files, FetchEnd(f) PROVE AskInv'
  BY <1>20, NothingElse DEF FetchEnd, FGo, cacheVars, flagVars, sizeVars, fileVars,
     diskVars, callerVars, streamVars, AskInv, Asks
<1>21. ASSUME NEW f \in Files, FetchCheck(f) PROVE AskInv'
  BY <1>21, NothingElse DEF FetchCheck, FGo, cacheVars, flagVars, sizeVars, fileVars,
     diskVars, callerVars, streamVars, AskInv, Asks
<1>22. ASSUME NEW f \in Files, FetchRename(f) PROVE AskInv'
  BY <1>22, NothingElse DEF FetchRename, FGo, cacheVars, sizeVars, callerVars,
     streamVars, AskInv, Asks
<1>23. ASSUME NEW f \in Files, FetchDrop(f) PROVE AskInv'
  BY <1>23, NothingElse DEF FetchDrop, FGo, cacheVars, flagVars, callerVars, streamVars,
     AskInv, Asks
<1>24. ASSUME NEW size \in MaxSizes, Restart(size) PROVE AskInv'
  <2>1. \A c \in Callers : pc'[c] = "free"
    BY <1>24 DEF Restart
  <2> QED BY <2>1 DEF AskInv, Asks
<1>25. CASE UNCHANGED vars
  BY <1>25, NothingElse DEF vars, cacheVars, flagVars, sizeVars, fileVars, threadVars,
     diskVars, callerVars, streamVars, AskInv, Asks
<1> QED BY <1>1, <1>2, <1>3, <1>4, <1>5, <1>6, <1>7, <1>8, <1>9, <1>10, <1>11, <1>12, <1>13,
      <1>14, <1>15, <1>16, <1>17, <1>18, <1>19, <1>20, <1>21, <1>22, <1>23, <1>24, <1>25
      DEF Next, Call, CallerStep, FetchStep

\* Every step keeps how far a thread is by where it is.
LEMMA ProgressStep ==
  TypeOK /\ CallInv /\ ThreadInv /\ AskInv /\ ProgressInv /\ [Next]_vars => ProgressInv'
<1> SUFFICES ASSUME TypeOK, CallInv, ThreadInv, AskInv, ProgressInv, [Next]_vars
             PROVE  ProgressInv'
  OBVIOUS
<1>1. ASSUME NEW c \in Callers, NEW i \in Ids, Lookup(c, i) PROVE ProgressInv'
  BY <1>1, NothingElse DEF Lookup, Go, cacheVars, flagVars, sizeVars, fileVars,
     threadVars, diskVars, streamVars, ProgressInv, Progress
<1>2. ASSUME NEW c \in Callers, Fetch(c) PROVE ProgressInv'
  BY <1>2, NothingElse DEF Fetch, Go, Return, cacheVars, flagVars, sizeVars, fileVars,
     threadVars, diskVars, streamVars, ProgressInv, Progress
<1>3. ASSUME NEW c \in Callers, List(c) PROVE ProgressInv'
  BY <1>3, NothingElse DEF List, Go, cacheVars, flagVars, sizeVars, fileVars,
     threadVars, diskVars, streamVars, ProgressInv, Progress
<1>4. ASSUME NEW c \in Callers, Sort(c) PROVE ProgressInv'
  BY <1>4, NothingElse DEF Sort, Go, cacheVars, flagVars, sizeVars, fileVars,
     threadVars, diskVars, streamVars, ProgressInv, Progress
<1>5. ASSUME NEW c \in Callers, Evict(c) PROVE ProgressInv'
  BY <1>5, NothingElse DEF Evict, Go, Return, flagVars, sizeVars, fileVars, threadVars,
     diskVars, callerVars, streamVars, ProgressInv, Progress
<1>6. ASSUME NEW c \in Callers, Mark(c) PROVE ProgressInv'
  <2>1. /\ UNCHANGED <<id, fetched, expected, fpc, write_fd>>
        /\ \A g \in Files : invalid[g] => invalid'[g]
    BY <1>6 DEF Mark, sizeVars, threadVars, TypeOK
  <2> QED BY <2>1 DEF ProgressInv, Progress
<1>7. ASSUME NEW c \in Callers, Unlink(c) PROVE ProgressInv'
  BY <1>7, NothingElse DEF Unlink, Go, Return, Removed, sizeVars, threadVars,
     callerVars, streamVars, ProgressInv, Progress
<1>8. ASSUME NEW c \in Callers, NEW i \in Ids, Filter(c, i) PROVE ProgressInv'
  BY <1>8, NothingElse DEF Filter, Go, flagVars, sizeVars, fileVars, threadVars,
     diskVars, streamVars, ProgressInv, Progress
<1>9. ASSUME NEW c \in Callers, NEW size \in MaxSizes, SetMaxSize(c, size)
      PROVE  ProgressInv'
  BY <1>9, NothingElse DEF SetMaxSize, Go, flagVars, sizeVars, fileVars, threadVars,
     diskVars, streamVars, ProgressInv, Progress
<1>10. ASSUME NEW c \in Callers, New(c) PROVE ProgressInv'
  <2>1. PICK f \in Files : NewFile(c, f)
    BY <1>10, NewFacts
  <2>2. /\ id' = [id EXCEPT ![f] = want[c]] /\ fpc' = [fpc EXCEPT ![f] = "loop"]
        /\ expected' = [expected EXCEPT ![f] = required[c]]
        /\ UNCHANGED <<fetched, invalid>>
        /\ \A g \in Files : g # f => write_fd'[g] = write_fd[g]
    BY <1>10, <2>1 DEF New, NewFile, FGo, flagVars, TypeOK
  <2>3. OtherFiles(f)
    BY <2>2 DEF OtherFiles, TypeOK
  <2>4. want[c] \in Ids /\ SizeOf[want[c]] <= required[c] /\ SizeOf[want[c]] \in Nat
    BY <1>10, NothingElse DEF New, CallInv, Held, AskInv, Asks
  <2>5. fetched'[f] = 0 /\ id'[f] = want[c] /\ fpc'[f] = "loop"
          /\ expected'[f] = required[c]
    BY <2>1, <2>2 DEF NewFile, ThreadInv, TypeOK
  <2>6. Progress(f)'
    BY <2>4, <2>5 DEF Progress
  <2> QED BY <2>3, <2>6, ProgressFrame
<1>11. ASSUME NEW c \in Callers, Insert(c) PROVE ProgressInv'
  BY <1>11, NothingElse DEF Insert, Go, flagVars, sizeVars, fileVars, threadVars,
     diskVars, callerVars, streamVars, ProgressInv, Progress
<1>12. ASSUME NEW c \in Callers, Choose(c) PROVE ProgressInv'
  BY <1>12, NothingElse DEF Choose, Go, Return, cacheVars, flagVars, sizeVars, fileVars,
     threadVars, diskVars, callerVars, streamVars, ProgressInv, Progress
<1>13. ASSUME NEW c \in Callers, Open(c) PROVE ProgressInv'
  BY <1>13, NothingElse DEF Open, Go, cacheVars, flagVars, sizeVars, fileVars,
     threadVars, diskVars, streamVars, ProgressInv, Progress
<1>14. ASSUME NEW c \in Callers, Register(c) PROVE ProgressInv'
  BY <1>14, NothingElse DEF Register, Go, Return, cacheVars, flagVars, sizeVars,
     threadVars, diskVars, ProgressInv, Progress
<1>15. ASSUME NEW s \in Streams, Read(s) PROVE ProgressInv'
  BY <1>15, NothingElse DEF Read, cacheVars, flagVars, sizeVars, fileVars, threadVars,
     diskVars, callerVars, ProgressInv, Progress
<1>16. ASSUME NEW s \in Streams, Close(s) PROVE ProgressInv'
  BY <1>16, NothingElse DEF Close, cacheVars, flagVars, sizeVars, threadVars, diskVars,
     callerVars, ProgressInv, Progress
<1>17. ASSUME NEW s \in Streams, Seek(s) PROVE ProgressInv'
  BY <1>17, NothingElse DEF Seek, cacheVars, flagVars, sizeVars, fileVars, threadVars,
     diskVars, callerVars, ProgressInv, Progress
<1>18. ASSUME NEW f \in Files, FetchChunk(f) PROVE ProgressInv'
  <2>1. UNCHANGED <<id, expected, write_fd>> /\ fpc[f] = "loop"
          /\ fetched[f] < SizeOf[id[f]]
    BY <1>18, ChunkCases
  <2>2. id[f] \in Ids /\ SizeOf[id[f]] \in Nat /\ fetched[f] \in Nat /\ Progress(f)
    BY <2>1, NothingElse DEF ThreadInv, ProgressInv, TypeOK
  <2>3. CASE Writes(f)
    <3>1. OtherFiles(f)
      BY <2>1, <2>3 DEF Writes, OtherFiles, TypeOK
    <3>2. fetched'[f] = fetched[f] + 1 /\ UNCHANGED <<invalid, fpc>>
            /\ write_fd[f] # Nothing
      BY <2>3 DEF Writes, TypeOK
    <3>3. Progress(f)'
      BY <2>1, <2>2, <3>2 DEF Progress
    <3> QED BY <3>1, <3>3, ProgressFrame
  <2>4. CASE Fails(f)
    <3>1. OtherFiles(f)
      BY <2>1, <2>4 DEF Fails, FGo, OtherFiles, TypeOK
    <3>2. invalid'[f] /\ UNCHANGED fetched /\ fpc'[f] \in {"end", "drain"}
      BY <2>4 DEF Fails, FGo, TypeOK
    <3>3. Progress(f)'
      BY <2>1, <2>2, <3>2 DEF Progress
    <3> QED BY <3>1, <3>3, ProgressFrame
  <2> QED BY <1>18, <2>3, <2>4, ChunkCases
<1>19. ASSUME NEW f \in Files, FetchEos(f) PROVE ProgressInv'
  <2>1. OtherFiles(f)
    BY <1>19 DEF FetchEos, FGo, fileVars, sizeVars, flagVars, TypeOK, OtherFiles
  <2>2. Progress(f)
    BY DEF ProgressInv
  <2>3. Progress(f)'
    BY <1>19, <2>2 DEF FetchEos, FGo, fileVars, sizeVars, flagVars, TypeOK, Progress
  <2> QED BY <2>1, <2>3, ProgressFrame
<1>20. ASSUME NEW f \in Files, FetchEnd(f) PROVE ProgressInv'
  <2>1. OtherFiles(f)
    BY <1>20 DEF FetchEnd, FGo, fileVars, sizeVars, flagVars, TypeOK, OtherFiles
  <2>2. Progress(f)
    BY DEF ProgressInv
  <2>3. Progress(f)'
    BY <1>20, <2>2 DEF FetchEnd, FGo, fileVars, sizeVars, flagVars, TypeOK, Progress
  <2> QED BY <2>1, <2>3, ProgressFrame
<1>21. ASSUME NEW f \in Files, FetchCheck(f) PROVE ProgressInv'
  <2>1. OtherFiles(f)
    BY <1>21 DEF FetchCheck, FGo, fileVars, sizeVars, flagVars, TypeOK, OtherFiles
  <2>2. Progress(f)
    BY DEF ProgressInv
  <2>3. Progress(f)'
    BY <1>21, <2>2 DEF FetchCheck, FGo, fileVars, sizeVars, flagVars, TypeOK, Progress
  <2> QED BY <2>1, <2>3, ProgressFrame
<1>22. ASSUME NEW f \in Files, FetchRename(f) PROVE ProgressInv'
  <2>1. OtherFiles(f)
    <3>1. UNCHANGED <<id, expected, fetched, write_fd>> /\ fpc' = [fpc EXCEPT ![f] = "drop"]
      BY <1>22, RenameCases DEF FGo, sizeVars
    <3>2. \A g \in Files : g # f => invalid'[g] = invalid[g]
      <4>1. invalid' = [invalid EXCEPT ![f] = TRUE] \/ UNCHANGED invalid
        BY <1>22, RenameCases
      <4> QED BY <4>1 DEF TypeOK
    <3> QED BY <3>1, <3>2 DEF TypeOK, OtherFiles
  <2>2. Progress(f) /\ UNCHANGED <<id, expected, fetched, write_fd>> /\ fpc[f] = "rename"
        /\ fpc'[f] = "drop"
    BY <1>22, RenameCases DEF ProgressInv, FGo, sizeVars, TypeOK
  <2>3. Progress(f)'
    BY <2>2 DEF Progress
  <2> QED BY <2>1, <2>3, ProgressFrame
<1>23. ASSUME NEW f \in Files, FetchDrop(f) PROVE ProgressInv'
  <2>1. OtherFiles(f)
    <3>1. /\ UNCHANGED <<id, fetched, invalid>> /\ fpc' = [fpc EXCEPT ![f] = "ended"]
          /\ write_fd' = [write_fd EXCEPT ![f] = Nothing]
      BY <1>23, DropCases DEF FGo, flagVars
    <3>2. \A g \in Files : g # f => expected'[g] = expected[g]
      BY <1>23, DropCases DEF TypeOK
    <3> QED BY <3>1, <3>2 DEF TypeOK, OtherFiles
  <2>2. /\ Progress(f) /\ UNCHANGED <<id, fetched, invalid>> /\ fpc[f] = "drop"
        /\ fpc'[f] = "ended" /\ (~invalid[f] => expected'[f] = fetched[f])
    BY <1>23, DropCases DEF ProgressInv, FGo, flagVars, TypeOK
  <2>3. Progress(f)'
    BY <2>2 DEF Progress
  <2> QED BY <2>1, <2>3, ProgressFrame
<1>24. ASSUME NEW size \in MaxSizes, Restart(size) PROVE ProgressInv'
  <2>1. \A f \in Files : fpc'[f] = "none"
    BY <1>24 DEF Restart
  <2> QED BY <2>1 DEF ProgressInv, Progress
<1>25. CASE UNCHANGED vars
  BY <1>25, NothingElse DEF vars, cacheVars, flagVars, sizeVars, fileVars, threadVars,
     diskVars, callerVars, streamVars, ProgressInv, Progress
<1> QED BY <1>1, <1>2, <1>3, <1>4, <1>5, <1>6, <1>7, <1>8, <1>9, <1>10, <1>11, <1>12, <1>13,
      <1>14, <1>15, <1>16, <1>17, <1>18, <1>19, <1>20, <1>21, <1>22, <1>23, <1>24, <1>25
      DEF Next, Call, CallerStep, FetchStep

\* WriteInv in parts.
SharesInv == \A f, g \in Files : write_fd[f] # Nothing /\ write_fd[g] = write_fd[f] =>
               id[g] = id[f]
OwnsInv   == \A f \in Files, i \in Ids :
               write_fd[f] # Nothing /\ write_fd[f] \in {tmp[i], final[i]} => id[f] = i
LengthInv == \A f \in Files : write_fd[f] # Nothing =>
               fetched[f] <= data[write_fd[f]] /\ data[write_fd[f]] <= SizeOf[id[f]]
TmpInv    == \A i \in Ids : tmp[i] # Nothing => data[tmp[i]] <= SizeOf[i]

\* They are WriteInv.
LEMMA WriteParts == SharesInv' /\ OwnsInv' /\ LengthInv' /\ TmpInv' => WriteInv'
BY DEF WriteInv, SharesInv, OwnsInv, LengthInv, TmpInv

\* Every step keeps what the threads write their own.
LEMMA WriteStep ==
  TypeOK /\ CallInv /\ ThreadInv /\ NamesInv /\ WriteInv /\ [Next]_vars => WriteInv'
<1> SUFFICES ASSUME TypeOK, CallInv, ThreadInv, NamesInv, WriteInv, [Next]_vars
             PROVE  WriteInv'
  OBVIOUS
<1>1. ASSUME NEW c \in Callers, NEW i \in Ids, Lookup(c, i) PROVE WriteInv'
  BY <1>1, NothingElse DEF Lookup, Go, cacheVars, flagVars, sizeVars, fileVars,
     threadVars, diskVars, streamVars, WriteInv
<1>2. ASSUME NEW c \in Callers, Fetch(c) PROVE WriteInv'
  BY <1>2, NothingElse DEF Fetch, Go, Return, cacheVars, flagVars, sizeVars, fileVars,
     threadVars, diskVars, streamVars, WriteInv
<1>3. ASSUME NEW c \in Callers, List(c) PROVE WriteInv'
  BY <1>3, NothingElse DEF List, Go, cacheVars, flagVars, sizeVars, fileVars,
     threadVars, diskVars, streamVars, WriteInv
<1>4. ASSUME NEW c \in Callers, Sort(c) PROVE WriteInv'
  BY <1>4, NothingElse DEF Sort, Go, cacheVars, flagVars, sizeVars, fileVars,
     threadVars, diskVars, streamVars, WriteInv
<1>5. ASSUME NEW c \in Callers, Evict(c) PROVE WriteInv'
  BY <1>5, NothingElse DEF Evict, Go, Return, flagVars, sizeVars, fileVars, threadVars,
     diskVars, callerVars, streamVars, WriteInv
<1>6. ASSUME NEW c \in Callers, Mark(c) PROVE WriteInv'
  BY <1>6, NothingElse DEF Mark, Go, Return, Removed, sizeVars, threadVars, diskVars,
     callerVars, streamVars, WriteInv
<1>7. ASSUME NEW c \in Callers, Unlink(c) PROVE WriteInv'
  <2>1. /\ UNCHANGED <<id, fetched, write_fd, tmp, data>>
        /\ \A i \in Ids : final'[i] \in {final[i], Nothing}
    BY <1>7 DEF Unlink, sizeVars, threadVars, TypeOK
  <2> QED BY <2>1, NothingElse DEF WriteInv
<1>8. ASSUME NEW c \in Callers, NEW i \in Ids, Filter(c, i) PROVE WriteInv'
  BY <1>8, NothingElse DEF Filter, Go, flagVars, sizeVars, fileVars, threadVars,
     diskVars, streamVars, WriteInv
<1>9. ASSUME NEW c \in Callers, NEW size \in MaxSizes, SetMaxSize(c, size) PROVE WriteInv'
  BY <1>9, NothingElse DEF SetMaxSize, Go, flagVars, sizeVars, fileVars, threadVars,
     diskVars, streamVars, WriteInv
<1>10. ASSUME NEW c \in Callers, New(c) PROVE WriteInv'
  <2>1. PICK f \in Files : NewFile(c, f)
    BY <1>10, NewFacts
  <2>2. PICK i : i = want[c]
    OBVIOUS
  <2>3. /\ i \in Ids /\ SizeOf[i] \in Nat /\ id[f] = Nothing /\ fetched[f] = 0
        /\ write_fd[f] = Nothing /\ UNCHANGED <<final, fetched>>
        /\ id' = [id EXCEPT ![f] = i]
    BY <1>10, <2>1, <2>2, NothingElse DEF New, NewFile, CallInv, Held, ThreadInv
  <2>4. CASE /\ tmp[i] # Nothing /\ write_fd' = [write_fd EXCEPT ![f] = tmp[i]]
             /\ UNCHANGED <<tmp, data>>
    <3>1. \A g \in Files : write_fd[g] = tmp[i] => id[g] = i
      BY <2>3, <2>4 DEF WriteInv
    <3>2. \A j \in Ids : tmp[i] \in {tmp[j], final[j]} => j = i
      BY <2>3, <2>4 DEF NamesInv
    <3>3. data[tmp[i]] \in Nat /\ data[tmp[i]] <= SizeOf[i]
      BY <2>3, <2>4 DEF WriteInv, TypeOK
    <3>4. SharesInv'
      BY <2>3, <2>4, <3>1, NothingElse DEF SharesInv, WriteInv, TypeOK
    <3>5. OwnsInv'
      BY <2>3, <2>4, <3>2, NothingElse DEF OwnsInv, WriteInv, TypeOK
    <3>6. LengthInv'
      BY <2>3, <2>4, <3>3, NothingElse DEF LengthInv, WriteInv, TypeOK
    <3>7. TmpInv'
      BY <2>4 DEF TmpInv, WriteInv
    <3> QED BY <3>4, <3>5, <3>6, <3>7, WriteParts
  <2>5. ASSUME NEW n \in Inodes, UnusedInode(n), tmp[i] = Nothing,
               write_fd' = [write_fd EXCEPT ![f] = n], tmp' = [tmp EXCEPT ![i] = n],
               data' = [data EXCEPT ![n] = 0]
        PROVE  WriteInv'
    <3>1. /\ \A j \in Ids : n # tmp[j] /\ n # final[j]
          /\ \A g \in Files : n # write_fd[g]
      BY <2>5 DEF UnusedInode
    <3>4. SharesInv'
      BY <2>3, <2>5, <3>1, NothingElse DEF SharesInv, WriteInv, TypeOK
    <3>5. OwnsInv'
      BY <2>3, <2>5, <3>1, NothingElse DEF OwnsInv, WriteInv, TypeOK
    <3>6. LengthInv'
      BY <2>3, <2>5, <3>1, NothingElse DEF LengthInv, WriteInv, TypeOK
    <3>7. TmpInv'
      BY <2>3, <2>5, <3>1, NothingElse DEF TmpInv, WriteInv, TypeOK
    <3> QED BY <3>4, <3>5, <3>6, <3>7, WriteParts
  <2>6. CASE write_fd' = [write_fd EXCEPT ![f] = Nothing] /\ UNCHANGED <<tmp, data>>
    BY <2>3, <2>6 DEF WriteInv, TypeOK
  <2> QED BY <2>1, <2>2, <2>4, <2>5, <2>6 DEF NewFile
<1>11. ASSUME NEW c \in Callers, Insert(c) PROVE WriteInv'
  BY <1>11, NothingElse DEF Insert, Go, flagVars, sizeVars, fileVars, threadVars,
     diskVars, callerVars, streamVars, WriteInv
<1>12. ASSUME NEW c \in Callers, Choose(c) PROVE WriteInv'
  BY <1>12, NothingElse DEF Choose, Go, Return, cacheVars, flagVars, sizeVars, fileVars,
     threadVars, diskVars, callerVars, streamVars, WriteInv
<1>13. ASSUME NEW c \in Callers, Open(c) PROVE WriteInv'
  BY <1>13, NothingElse DEF Open, Go, cacheVars, flagVars, sizeVars, fileVars,
     threadVars, diskVars, streamVars, WriteInv
<1>14. ASSUME NEW c \in Callers, Register(c) PROVE WriteInv'
  BY <1>14, NothingElse DEF Register, Go, Return, cacheVars, flagVars, sizeVars,
     threadVars, diskVars, WriteInv
<1>15. ASSUME NEW s \in Streams, Read(s) PROVE WriteInv'
  BY <1>15, NothingElse DEF Read, cacheVars, flagVars, sizeVars, fileVars, threadVars,
     diskVars, callerVars, WriteInv
<1>16. ASSUME NEW s \in Streams, Close(s) PROVE WriteInv'
  BY <1>16, NothingElse DEF Close, cacheVars, flagVars, sizeVars, threadVars, diskVars,
     callerVars, WriteInv
<1>17. ASSUME NEW s \in Streams, Seek(s) PROVE WriteInv'
  BY <1>17, NothingElse DEF Seek, cacheVars, flagVars, sizeVars, fileVars, threadVars,
     diskVars, callerVars, WriteInv
<1>18. ASSUME NEW f \in Files, FetchChunk(f) PROVE WriteInv'
  <2>1. UNCHANGED <<id, write_fd, tmp, final>> /\ fpc[f] = "loop"
          /\ fetched[f] < SizeOf[id[f]]
    BY <1>18, ChunkCases
  <2>2. CASE Fails(f)
    BY <2>1, <2>2 DEF Fails, WriteInv
  <2>3. CASE Writes(f)
    <3>1. PICK n : n = write_fd[f]
      OBVIOUS
    <3>2. PICK m : m = Max({data[n], fetched[f] + 1})
      OBVIOUS
    <3>3. n \in Inodes /\ data[n] \in Nat /\ fetched[f] \in Nat /\ id[f] \in Ids
            /\ SizeOf[id[f]] \in Nat
      BY <2>1, <2>3, <3>1, NothingElse DEF Writes, ThreadInv, TypeOK
    <3>4. data[n] <= SizeOf[id[f]]
      BY <2>3, <3>1 DEF Writes, WriteInv
    <3>5. m \in Nat /\ data[n] <= m /\ fetched[f] + 1 <= m /\ m <= SizeOf[id[f]]
      BY <2>1, <3>2, <3>3, <3>4, MaxIs
    <3>6. fetched' = [fetched EXCEPT ![f] = fetched[f] + 1]
            /\ data' = [data EXCEPT ![n] = m]
      BY <2>3, <3>1, <3>2 DEF Writes
    <3>7. LengthInv'
      <4> SUFFICES ASSUME NEW g \in Files, write_fd[g] # Nothing
                   PROVE  fetched'[g] <= data'[write_fd[g]]
                     /\ data'[write_fd[g]] <= SizeOf[id[g]]
        BY <2>1 DEF LengthInv
      <4>1. fetched[g] <= data[write_fd[g]] /\ data[write_fd[g]] <= SizeOf[id[g]]
        BY DEF WriteInv
      <4>2. CASE write_fd[g] # n
        BY <3>1, <3>6, <4>1, <4>2 DEF TypeOK
      <4>3. CASE write_fd[g] = n
        <5>1. id[g] = id[f]
          BY <2>3, <3>1, <4>3 DEF Writes, WriteInv
        <5>2. data'[n] = m /\ fetched[g] \in Nat
          BY <3>3, <3>6 DEF TypeOK
        <5>3. fetched'[g] <= m
          BY <3>3, <3>5, <3>6, <4>1, <4>3, <5>2 DEF TypeOK
        <5> QED BY <3>5, <4>3, <5>1, <5>2, <5>3
      <4> QED BY <4>2, <4>3
    <3>8. TmpInv'
      <4> SUFFICES ASSUME NEW i \in Ids, tmp[i] # Nothing PROVE data'[tmp[i]] <= SizeOf[i]
        BY <2>1 DEF TmpInv
      <4>1. CASE tmp[i] # n
        BY <3>6, <4>1 DEF WriteInv, TypeOK
      <4>2. CASE tmp[i] = n
        <5>1. id[f] = i
          BY <2>3, <3>1, <4>2 DEF Writes, WriteInv
        <5>2. data'[n] = m
          BY <3>3, <3>6 DEF TypeOK
        <5> QED BY <3>5, <4>2, <5>1, <5>2
      <4> QED BY <4>1, <4>2
    <3>9. SharesInv' /\ OwnsInv'
      BY <2>1 DEF SharesInv, OwnsInv, WriteInv
    <3> QED BY <3>7, <3>8, <3>9, WriteParts
  <2> QED BY <1>18, <2>2, <2>3, ChunkCases
<1>19. ASSUME NEW f \in Files, FetchEos(f) PROVE WriteInv'
  BY <1>19, NothingElse DEF FetchEos, FGo, cacheVars, flagVars, sizeVars, fileVars,
     diskVars, callerVars, streamVars, WriteInv
<1>20. ASSUME NEW f \in Files, FetchEnd(f) PROVE WriteInv'
  BY <1>20, NothingElse DEF FetchEnd, FGo, cacheVars, flagVars, sizeVars, fileVars,
     diskVars, callerVars, streamVars, WriteInv
<1>21. ASSUME NEW f \in Files, FetchCheck(f) PROVE WriteInv'
  BY <1>21, NothingElse DEF FetchCheck, FGo, cacheVars, flagVars, sizeVars, fileVars,
     diskVars, callerVars, streamVars, WriteInv
<1>22. ASSUME NEW f \in Files, FetchRename(f) PROVE WriteInv'
  <2>1. UNCHANGED <<id, fetched, write_fd, data>>
    BY <1>22, RenameCases DEF sizeVars
  <2>2. CASE UNCHANGED <<tmp, final>>
    BY <2>1, <2>2 DEF WriteInv
  <2>3. CASE /\ tmp[id[f]] # Nothing /\ final' = [final EXCEPT ![id[f]] = tmp[id[f]]]
             /\ tmp' = [tmp EXCEPT ![id[f]] = Nothing]
    <3>1. id[f] \in Ids
      BY <1>22, RenameCases DEF ThreadInv
    <3>2. \A i \in Ids : /\ final'[i] \in {final[i], tmp[i]}
            /\ tmp'[i] \in {tmp[i], Nothing}
      BY <2>3, <3>1 DEF TypeOK
    <3> QED BY <2>1, <3>2 DEF WriteInv
  <2> QED BY <1>22, <2>2, <2>3, RenameCases
<1>23. ASSUME NEW f \in Files, FetchDrop(f) PROVE WriteInv'
  <2>1. /\ UNCHANGED <<id, fetched, final, data>>
        /\ \A i \in Ids : tmp'[i] \in {tmp[i], Nothing}
        /\ \A g \in Files : write_fd'[g] \in {write_fd[g], Nothing}
    BY <1>23, DropCases DEF TypeOK
  <2> QED BY <2>1, NothingElse DEF WriteInv
<1>24. ASSUME NEW size \in MaxSizes, Restart(size) PROVE WriteInv'
  <2>1. (\A f \in Files : write_fd'[f] = Nothing) /\ \A i \in Ids : tmp'[i] = Nothing
    BY <1>24 DEF Restart
  <2> QED BY <2>1 DEF WriteInv
<1>25. CASE UNCHANGED vars
  BY <1>25, NothingElse DEF vars, cacheVars, flagVars, sizeVars, fileVars, threadVars,
     diskVars, callerVars, streamVars, WriteInv
<1> QED BY <1>1, <1>2, <1>3, <1>4, <1>5, <1>6, <1>7, <1>8, <1>9, <1>10, <1>11, <1>12, <1>13,
      <1>14, <1>15, <1>16, <1>17, <1>18, <1>19, <1>20, <1>21, <1>22, <1>23, <1>24, <1>25
      DEF Next, Call, CallerStep, FetchStep

----------------------------------------------------------------------------
(* What a start finds.                                                     *)

\* Of the threads of an id at most one may rename, and nobody else has <id>.tmp.
RenamerInv ==
  /\ \A f, g \in Files : MayRename(f) /\ MayRename(g) /\ id[f] = id[g]
       /\ id[f] \notin overlap => f = g
  /\ \A f \in Files : MayRename(f) /\ write_fd[f] # Nothing /\ id[f] \notin overlap =>
       tmp[id[f]] \in {Nothing, write_fd[f]}
FoundInv == RenamerInv /\ FoundWhole

\* What may rename was started.
LEMMA RenamerIds ==
  ASSUME ThreadInv, NEW f \in Files, MayRename(f) PROVE id[f] \in Ids
BY DEF ThreadInv, MayRename

\* Nobody may rename who might not before, and no name has got a file.
Calmer ==
  /\ \A f \in Files : MayRename(f)' =>
       MayRename(f) /\ id'[f] = id[f] /\ write_fd'[f] = write_fd[f]
  /\ \A i \in Ids : tmp'[i] \in {tmp[i], Nothing} /\ final'[i] \in {final[i], Nothing}
  /\ UNCHANGED <<data, overlap>>

\* Then a start finds what it would have found.
LEMMA FoundFrame ==
  ASSUME TypeOK, ThreadInv, FoundInv, Calmer PROVE FoundInv'
<1>1. ASSUME NEW f \in Files, NEW g \in Files, MayRename(f)', MayRename(g)', id'[f] = id'[g],
             id'[f] \notin overlap'
      PROVE  f = g
  BY <1>1 DEF Calmer, FoundInv, RenamerInv
<1>2. ASSUME NEW f \in Files, MayRename(f)', write_fd'[f] # Nothing, id'[f] \notin overlap'
      PROVE  tmp'[id'[f]] \in {Nothing, write_fd'[f]}
  BY <1>2, RenamerIds DEF Calmer, FoundInv, RenamerInv
<1>3. FoundWhole'
  BY DEF Calmer, FoundInv, FoundWhole
<1> QED BY <1>1, <1>2, <1>3 DEF FoundInv, RenamerInv

\* Every step keeps whole what a start finds, for any number of callers.
LEMMA FoundStep ==
  TypeOK /\ CallInv /\ ThreadInv /\ WriteInv /\ ProgressInv /\ FoundInv /\ [Next]_vars =>
    FoundInv'
<1> SUFFICES ASSUME TypeOK, CallInv, ThreadInv, WriteInv, ProgressInv, FoundInv, [Next]_vars
             PROVE  FoundInv'
  OBVIOUS
<1>0. ASSUME UNCHANGED <<fileVars, threadVars, diskVars>> PROVE FoundInv'
  <2>1. Calmer
    BY <1>0 DEF fileVars, flagVars, threadVars, diskVars, Calmer, MayRename
  <2> QED BY <2>1, FoundFrame
<1>1. ASSUME NEW c \in Callers,
             Call(c) \/ Fetch(c) \/ List(c) \/ Sort(c) \/ Evict(c) \/ Insert(c)
               \/ Choose(c) \/ Open(c)
      PROVE  FoundInv'
  <2>1. UNCHANGED <<fileVars, threadVars, diskVars>>
    BY <1>1 DEF Call, Lookup, Filter, SetMaxSize, Fetch, List, Sort, Evict, Insert, Choose,
       Open
  <2> QED BY <1>0, <2>1
<1>2. ASSUME NEW c \in Callers, Mark(c) \/ Unlink(c) \/ Register(c) PROVE FoundInv'
  <2>1. /\ UNCHANGED <<id, fpc, write_fd, tmp, data, overlap>>
        /\ \A f \in Files : invalid[f] => invalid'[f]
        /\ \A i \in Ids : final'[i] \in {final[i], Nothing}
    <3>1. CASE Mark(c)
      BY <3>1 DEF Mark, threadVars, diskVars, TypeOK
    <3>2. CASE Unlink(c)
      BY <3>2 DEF Unlink, threadVars, TypeOK
    <3>3. CASE Register(c)
      BY <3>3 DEF Register, flagVars, threadVars, diskVars
    <3> QED BY <1>2, <3>1, <3>2, <3>3
  <2>2. Calmer
    BY <2>1 DEF Calmer, MayRename
  <2> QED BY <2>2, FoundFrame
<1>3. ASSUME NEW c \in Callers, New(c) PROVE FoundInv'
  <2>1. PICK f \in Files : NewFile(c, f)
    BY <1>3, NewFacts
  <2>2. PICK i : i = want[c]
    OBVIOUS
  <2>3. /\ i \in Ids /\ id[f] = Nothing /\ UNCHANGED <<final, invalid>>
        /\ id' = [id EXCEPT ![f] = i] /\ fpc' = [fpc EXCEPT ![f] = "loop"]
        /\ overlap' = IF \E g \in Files : id[g] = i /\ MayRename(g)
                      THEN overlap \cup {i} ELSE overlap
    BY <1>3, <2>1, <2>2 DEF New, NewFile, FGo, flagVars, CallInv, Held
  <2>4. /\ id'[f] = i /\ \A g \in Files : g # f => id'[g] = id[g] /\ fpc'[g] = fpc[g]
        /\ \A g \in Files : g # f => (MayRename(g)' <=> MayRename(g))
        /\ \A g \in Files : g # f => write_fd'[g] = write_fd[g]
    BY <2>1, <2>3 DEF NewFile, MayRename, TypeOK
  <2>5. \A j \in Ids : j # i => tmp'[j] = tmp[j]
    BY <2>1, <2>2, <2>3 DEF NewFile, TypeOK
  <2>6. write_fd'[f] # Nothing => tmp'[i] = write_fd'[f]
    BY <2>1, <2>2, <2>3, NothingElse DEF NewFile, TypeOK
  <2>7. \A j \in Ids : final[j] # Nothing => data'[final[j]] = data[final[j]]
    <3>1. ASSUME NEW n \in Inodes, UnusedInode(n), data' = [data EXCEPT ![n] = 0],
                 NEW j \in Ids, final[j] # Nothing
          PROVE  data'[final[j]] = data[final[j]]
      BY <3>1 DEF UnusedInode, TypeOK
    <3> QED BY <2>1, <3>1 DEF NewFile
  <2>8. overlap \subseteq overlap'
        /\ (i \notin overlap' => \A g \in Files : id[g] = i => ~MayRename(g))
    BY <2>3
  <2>9. FoundWhole'
    BY <2>3, <2>7, <2>8 DEF FoundInv, FoundWhole
  <2>10. ASSUME NEW g \in Files, NEW h \in Files, MayRename(g)', MayRename(h)',
                id'[g] = id'[h], id'[g] \notin overlap'
         PROVE  g = h
    <3>1. CASE g # f /\ h # f
      BY <2>4, <2>8, <2>10, <3>1 DEF FoundInv, RenamerInv
    <3>2. CASE g = f \/ h = f
      BY <2>4, <2>8, <2>10, <3>2
    <3> QED BY <3>1, <3>2
  <2>11. ASSUME NEW g \in Files, MayRename(g)', write_fd'[g] # Nothing,
                id'[g] \notin overlap'
         PROVE  tmp'[id'[g]] \in {Nothing, write_fd'[g]}
    <3>1. CASE g = f
      BY <2>4, <2>6, <2>11, <3>1
    <3>2. CASE g # f
      <4>1. MayRename(g) /\ id[g] # i /\ id[g] \notin overlap /\ id[g] \in Ids
        BY <2>4, <2>8, <2>11, <3>2, RenamerIds
      <4> QED BY <2>4, <2>5, <2>11, <3>2, <4>1 DEF FoundInv, RenamerInv
    <3> QED BY <3>1, <3>2
  <2> QED BY <2>9, <2>10, <2>11 DEF FoundInv, RenamerInv
<1>4. ASSUME NEW s \in Streams, Read(s) \/ Close(s) \/ Seek(s) PROVE FoundInv'
  <2>1. UNCHANGED <<id, fpc, write_fd, tmp, final, data, overlap, invalid>>
    BY <1>4 DEF Read, Close, Seek, fileVars, flagVars, threadVars, diskVars
  <2>2. Calmer
    BY <2>1 DEF Calmer, MayRename
  <2> QED BY <2>2, FoundFrame
<1>5. ASSUME NEW f \in Files, FetchEos(f) \/ FetchEnd(f) \/ FetchCheck(f) PROVE FoundInv'
  <2>1. UNCHANGED <<id, write_fd, tmp, final, data, overlap, invalid>>
    BY <1>5 DEF FetchEos, FetchEnd, FetchCheck, fileVars, flagVars, diskVars
  <2>2. \A g \in Files : g # f => fpc'[g] = fpc[g]
    BY <1>5 DEF FetchEos, FetchEnd, FetchCheck, FGo, TypeOK
  <2>3. MayRename(f)' => MayRename(f)
    <3>1. fpc[f] = "drain" => invalid[f]
      BY DEF ProgressInv, Progress
    <3>2. CASE FetchEos(f)
      BY <2>1, <3>1, <3>2 DEF FetchEos, FGo, MayRename, TypeOK
    <3>3. CASE FetchEnd(f)
      BY <2>1, <3>3 DEF FetchEnd, FGo, MayRename, TypeOK
    <3>4. CASE FetchCheck(f)
      BY <2>1, <3>4 DEF FetchCheck, FGo, MayRename, TypeOK
    <3> QED BY <1>5, <3>2, <3>3, <3>4
  <2>4. Calmer
    BY <2>1, <2>2, <2>3 DEF Calmer, MayRename
  <2> QED BY <2>4, FoundFrame
<1>6. ASSUME NEW f \in Files, FetchChunk(f) PROVE FoundInv'
  <2>1. UNCHANGED <<id, write_fd, tmp, final, overlap>> /\ fpc[f] = "loop"
        /\ fetched[f] < SizeOf[id[f]]
    BY <1>6, ChunkCases
  <2>2. CASE Fails(f)
    <3>1. \A g \in Files : MayRename(g)' => MayRename(g)
      BY <2>1, <2>2 DEF Fails, FGo, MayRename, TypeOK
    <3>2. Calmer
      BY <2>1, <2>2, <3>1 DEF Fails, Calmer
    <3> QED BY <3>2, FoundFrame
  <2>3. CASE Writes(f)
    <3>1. PICK n : n = write_fd[f]
      OBVIOUS
    <3>2. PICK m : m = Max({data[n], fetched[f] + 1})
      OBVIOUS
    <3>3. /\ n \in Inodes /\ data[n] \in Nat /\ fetched[f] \in Nat /\ id[f] \in Ids
          /\ SizeOf[id[f]] \in Nat /\ data[n] <= SizeOf[id[f]]
      BY <2>1, <2>3, <3>1, NothingElse DEF Writes, ThreadInv, WriteInv, TypeOK
    <3>4. m \in Nat /\ data[n] <= m /\ m <= SizeOf[id[f]]
      <4>1. m = IF data[n] >= fetched[f] + 1 THEN data[n] ELSE fetched[f] + 1
        BY <3>2, <3>3, MaxIs
      <4> QED BY <2>1, <3>3, <4>1
    <3>5. data' = [data EXCEPT ![n] = m] /\ UNCHANGED <<invalid, fpc>>
      BY <2>3, <3>1, <3>2 DEF Writes
    <3>6. ASSUME NEW i \in Ids, i \notin overlap, final[i] # Nothing
          PROVE  data'[final[i]] = SizeOf[i]
      <4>1. data[final[i]] = SizeOf[i]
        BY <3>6 DEF FoundInv, FoundWhole
      <4>2. CASE final[i] # n
        BY <3>5, <4>1, <4>2 DEF TypeOK
      <4>3. CASE final[i] = n
        <5>1. id[f] = i
          BY <2>3, <3>1, <4>3 DEF Writes, WriteInv
        <5>2. m = SizeOf[i]
          BY <3>3, <3>4, <4>1, <4>3, <5>1
        <5> QED BY <3>3, <3>5, <4>3, <5>2 DEF TypeOK
      <4> QED BY <4>2, <4>3
    <3>7. FoundWhole'
      BY <2>1, <3>6 DEF FoundWhole
    <3>8. RenamerInv'
      BY <2>1, <3>5 DEF FoundInv, RenamerInv, MayRename
    <3> QED BY <3>7, <3>8 DEF FoundInv
  <2> QED BY <1>6, <2>2, <2>3, ChunkCases
<1>7. ASSUME NEW f \in Files, FetchRename(f) PROVE FoundInv'
  <2>1. /\ fpc[f] = "rename" /\ fpc' = [fpc EXCEPT ![f] = "drop"]
        /\ UNCHANGED <<id, write_fd, data, overlap>>
    BY <1>7, RenameCases DEF FGo
  <2>2. MayRename(f) /\ ~MayRename(f)' /\ id[f] \in Ids
    BY <2>1, RenamerIds DEF MayRename, TypeOK
  <2>3. CASE tmp[id[f]] = Nothing /\ invalid' = [invalid EXCEPT ![f] = TRUE]
             /\ UNCHANGED <<tmp, final>>
    <3>1. \A g \in Files : g # f => (MayRename(g)' <=> MayRename(g))
      BY <2>1, <2>3 DEF MayRename, TypeOK
    <3>2. Calmer
      BY <2>1, <2>2, <2>3, <3>1 DEF Calmer
    <3> QED BY <3>2, FoundFrame
  <2>4. CASE /\ tmp[id[f]] # Nothing /\ final' = [final EXCEPT ![id[f]] = tmp[id[f]]]
             /\ tmp' = [tmp EXCEPT ![id[f]] = Nothing] /\ UNCHANGED invalid
    <3>1. \A g \in Files : g # f => (MayRename(g)' <=> MayRename(g))
      BY <2>1, <2>4 DEF MayRename, TypeOK
    <3>2. ASSUME id[f] \notin overlap PROVE data[tmp[id[f]]] = SizeOf[id[f]]
      <4>1. /\ fetched[f] = SizeOf[id[f]] /\ fetched[f] \in Nat /\ SizeOf[id[f]] > 0
            /\ SizeOf[id[f]] \in Nat
        BY <2>1, <2>2, NothingElse DEF ProgressInv, Progress, TypeOK
      <4>2. write_fd[f] # Nothing /\ write_fd[f] \in Inodes
        BY <2>1, <4>1 DEF ProgressInv, Progress, TypeOK
      <4>3. tmp[id[f]] = write_fd[f]
        BY <2>2, <2>4, <3>2, <4>2 DEF FoundInv, RenamerInv
      <4>4. fetched[f] <= data[write_fd[f]] /\ data[write_fd[f]] <= SizeOf[id[f]]
        BY <4>2 DEF WriteInv
      <4>5. data[write_fd[f]] \in Nat
        BY <4>2 DEF TypeOK
      <4> QED BY <4>1, <4>3, <4>4, <4>5
    <3>3. FoundWhole'
      <4> SUFFICES ASSUME NEW i \in Ids, i \notin overlap, final'[i] # Nothing
                   PROVE  data[final'[i]] = SizeOf[i]
        BY <2>1 DEF FoundWhole
      <4>1. CASE i = id[f]
        BY <2>2, <2>4, <3>2, <4>1 DEF TypeOK
      <4>2. CASE i # id[f]
        BY <2>2, <2>4, <4>2 DEF FoundInv, FoundWhole, TypeOK
      <4> QED BY <4>1, <4>2
    <3>4. \A i \in Ids : tmp'[i] \in {tmp[i], Nothing}
      BY <2>2, <2>4 DEF TypeOK
    <3>5. RenamerInv'
      <4>1. ASSUME NEW g \in Files, NEW h \in Files, MayRename(g)', MayRename(h)',
                   id'[g] = id'[h], id'[g] \notin overlap'
            PROVE  g = h
        BY <2>1, <2>2, <3>1, <4>1 DEF FoundInv, RenamerInv
      <4>2. ASSUME NEW g \in Files, MayRename(g)', write_fd'[g] # Nothing,
                   id'[g] \notin overlap'
            PROVE  tmp'[id'[g]] \in {Nothing, write_fd'[g]}
        <5>1. MayRename(g) /\ id[g] \in Ids
          BY <2>2, <3>1, <4>2, RenamerIds
        <5> QED BY <2>1, <3>4, <4>2, <5>1 DEF FoundInv, RenamerInv
      <4> QED BY <4>1, <4>2 DEF RenamerInv
    <3> QED BY <3>3, <3>5 DEF FoundInv
  <2> QED BY <1>7, <2>3, <2>4, RenameCases
<1>8. ASSUME NEW f \in Files, FetchDrop(f) PROVE FoundInv'
  <2>1. /\ fpc[f] = "drop" /\ fpc' = [fpc EXCEPT ![f] = "ended"]
        /\ write_fd' = [write_fd EXCEPT ![f] = Nothing]
        /\ UNCHANGED <<id, invalid, final, data, overlap>>
        /\ \A i \in Ids : tmp'[i] \in {tmp[i], Nothing}
    BY <1>8, DropCases DEF FGo, flagVars, TypeOK
  <2>2. ~MayRename(f)' /\ \A g \in Files : g # f =>
          (MayRename(g)' <=> MayRename(g)) /\ write_fd'[g] = write_fd[g]
    BY <2>1 DEF MayRename, TypeOK
  <2>3. Calmer
    BY <2>1, <2>2 DEF Calmer
  <2> QED BY <2>3, FoundFrame
<1>9. ASSUME NEW size \in MaxSizes, Restart(size) PROVE FoundInv'
  <2>1. /\ \A f \in Files : fpc'[f] = "none"
        /\ \A i \in Ids : tmp'[i] = Nothing
        /\ UNCHANGED <<final, data, overlap>>
    BY <1>9 DEF Restart
  <2>2. Calmer
    BY <2>1 DEF Calmer, MayRename
  <2> QED BY <2>2, FoundFrame
<1>10. CASE UNCHANGED vars
  <2>1. UNCHANGED <<fileVars, threadVars, diskVars>>
    BY <1>10 DEF vars
  <2> QED BY <1>0, <2>1
<1> QED BY <1>1, <1>2, <1>3, <1>4, <1>5, <1>6, <1>7, <1>8, <1>9, <1>10
      DEF Next, CallerStep, FetchStep

----------------------------------------------------------------------------
(* With one caller: the table, and the files that are in it or on their way *)
(* into it.                                                                 *)

SingleCaller == \A a, b \in Callers : a = b

\* The id that a caller did not find is not in the table; an evicted file is not
\* either, and the entry that the filter removes is there until it is removed.
Misses(c) ==
  /\ pc[c] \in {"fetch", "list", "sort", "evict", "mark", "unlink", "new", "insert"}
             /\ want[c] \in Ids /\ cache_lock # c
Missed(c) ==
  /\ Misses(c) => cached_files[want[c]] = Nothing
  /\ pc[c] \in {"mark", "unlink"} /\ cache_lock = c =>
       cached_files[want[c]] = cached_file[c]
  /\ pc[c] \in {"mark", "unlink"} /\ cache_lock # c =>
       cached_files[id[cached_file[c]]] = Nothing
TableInv == \A c \in Callers : Missed(c)

\* What is in the table or about to be.
Current(f) == f \in Entries \/ \E c \in Callers : pc[c] = "insert" /\ cached_file[c] = f

\* Nobody else has <id>.tmp, and what was renamed is whole and stays.
Fine(f) ==
  /\ fpc[f] \in {"loop", "drain", "end", "check", "rename"} /\ write_fd[f] # Nothing =>
       tmp[id[f]] \in {Nothing, write_fd[f]}
  /\ fpc[f] \in {"drop", "ended", "none"} => tmp[id[f]] = Nothing /\ final[id[f]] # Nothing
  /\ fpc[f] \in {"drop", "ended"} => data[final[id[f]]] = SizeOf[id[f]]
  /\ fpc[f] = "none" => /\ data[final[id[f]]] = expected[f] /\ fetched[f] = expected[f]
                        /\ \A g \in Files : write_fd[g] # final[id[f]]
CurrentInv == \A f \in Files : Current(f) /\ ~invalid[f] => Fine(f)

\* What is current has an id.
LEMMA CurrentIds ==
  ASSUME TypeOK, CallInv, KeyInv, NEW f, Current(f) PROVE f \in Files /\ id[f] \in Ids
BY DEF Current, Entries, TypeOK, CallInv, Held, KeyInv

\* A step of a caller other than the last of get_stream removes entries at most.
LEMMA TableKept ==
  ASSUME TypeOK, CallInv, NEW c \in Callers, CallerStep(c) \/ Call(c), ~Insert(c)
  PROVE  \A i \in Ids : cached_files'[i] \in {cached_files[i], Nothing}
<1>1. CASE UNCHANGED cached_files
  BY <1>1
<1>2. ASSUME NEW i, cached_files' = [cached_files EXCEPT ![i] = Nothing]
      PROVE  \A j \in Ids : cached_files'[j] \in {cached_files[j], Nothing}
  BY <1>2 DEF TypeOK
<1>3. CASE Evict(c)
  BY <1>1, <1>2, <1>3, EvictCases DEF EvictEnds, EvictOne
<1>4. CASE Mark(c) \/ Unlink(c)
  BY <1>1, <1>2, <1>4, RemovedCases DEF Mark, Unlink
<1>5. CASE Choose(c)
  BY <1>1, <1>5, ChooseCases DEF cacheVars
<1>6. CASE Fetch(c)
  BY <1>1, <1>6 DEF Fetch, cacheVars
<1>7. CASE List(c) \/ Sort(c) \/ New(c) \/ Open(c) \/ Register(c)
  BY <1>1, <1>7 DEF List, Sort, New, Open, Register, cacheVars
<1>8. CASE Call(c)
  BY <1>1, <1>8 DEF Call, Lookup, Filter, SetMaxSize, cacheVars
<1> QED BY <1>3, <1>4, <1>5, <1>6, <1>7, <1>8 DEF CallerStep

\* So the table loses files at most.
LEMMA EntriesKept ==
  ASSUME TypeOK, \A i \in Ids : cached_files'[i] \in {cached_files[i], Nothing}
  PROVE  Entries' \subseteq Entries
BY DEF Entries

\* Where the caller goes on, if it does not create a file.
LEMMA NotInserting ==
  ASSUME TypeOK, CallInv, NEW c \in Callers, CallerStep(c) \/ Call(c), ~New(c)
  PROVE  pc'[c] # "insert"
<1>1. CASE Return(c)
  BY <1>1 DEF Return, Go, TypeOK
<1>2. ASSUME NEW to, Go(c, to), to # "insert" PROVE pc'[c] # "insert"
  BY <1>2 DEF Go, TypeOK
<1>3. CASE Evict(c)
  BY <1>1, <1>2, <1>3, EvictCases DEF EvictEnds, EvictOne
<1>4. CASE Mark(c) \/ Unlink(c)
  BY <1>1, <1>2, <1>4, RemovedCases DEF Mark, Unlink
<1>5. CASE Choose(c)
  BY <1>1, <1>2, <1>5, ChooseCases
<1>6. CASE Fetch(c)
  <2>1. want[c] \in Ids
    BY <1>6 DEF Fetch, CallInv, Held
  <2> QED BY <1>1, <1>2, <1>6, <2>1, FetchCases
<1>7. CASE List(c) \/ Sort(c) \/ Insert(c) \/ Open(c) \/ Register(c)
  BY <1>1, <1>2, <1>7 DEF List, Sort, Insert, Open, Register
<1>8. CASE Call(c)
  <2>1. ASSUME NEW i \in Ids, Lookup(c, i) PROVE pc'[c] # "insert"
    BY <2>1 DEF Lookup, Go, TypeOK
  <2> QED BY <1>2, <1>8, <2>1 DEF Call, Filter, SetMaxSize
<1> QED BY <1>3, <1>4, <1>5, <1>6, <1>7, <1>8 DEF CallerStep

\* Only New makes a file current.
LEMMA CurrentKept ==
  ASSUME TypeOK, CallInv, NEW c \in Callers, CallerStep(c) \/ Call(c), ~New(c)
  PROVE  \A f : Current(f)' => Current(f)
<1> SUFFICES ASSUME NEW f, Current(f)' PROVE Current(f)
  OBVIOUS
<1>1. CASE \E d \in Callers : pc'[d] = "insert" /\ cached_file'[d] = f
  BY <1>1, OthersKept, NotInserting DEF Others, Current
<1>2. CASE f \in Entries' /\ ~Insert(c)
  BY <1>2, TableKept, EntriesKept DEF Current
<1>3. CASE f \in Entries' /\ Insert(c)
  <2>1. cached_files' = [cached_files EXCEPT ![want[c]] = cached_file[c]]
          /\ pc[c] = "insert"
    BY <1>3 DEF Insert
  <2>2. PICK i \in Ids : f = cached_files'[i] /\ f # Nothing
    BY <1>3 DEF Entries
  <2>3. f = cached_files[i] \/ f = cached_file[c]
    BY <2>1, <2>2 DEF TypeOK
  <2> QED BY <2>1, <2>2, <2>3 DEF Current, Entries
<1> QED BY <1>1, <1>2, <1>3 DEF Current

\* There is only the one caller to look at.
LEMMA MissedFrame ==
  ASSUME SingleCaller, NEW c \in Callers, Missed(c)' PROVE TableInv'
BY DEF SingleCaller, TableInv

\* A caller that has returned looks for nothing.
LEMMA ReturnMissed ==
  ASSUME TypeOK, NEW c \in Callers, Return(c) PROVE Missed(c)'
BY DEF Return, Go, TypeOK, Missed, Misses

\* Where the files and the disk stay as they are, it is enough to look at the table.
LEMMA CurrentShrinks ==
  ASSUME CurrentInv, UNCHANGED <<id, expected, fetched, fpc, write_fd, tmp, final, data>>,
         \A f \in Files : Current(f)' /\ ~invalid'[f] => Current(f) /\ ~invalid[f]
  PROVE  CurrentInv'
BY DEF CurrentInv, Fine

\* What does not hurt a file.
LEMMA FineFrame ==
  ASSUME NEW f \in Files, Fine(f), fpc'[f] = fpc[f], id'[f] = id[f],
    expected'[f] = expected[f],
         fetched'[f] = fetched[f], write_fd'[f] = write_fd[f],
         tmp'[id[f]] \in {tmp[id[f]], Nothing},
         fpc[f] \in {"drop", "ended", "none"} =>
           final'[id[f]] = final[id[f]] /\ data'[final[id[f]]] = data[final[id[f]]],
         fpc[f] = "none" => \A g \in Files : write_fd'[g] # final[id[f]]
  PROVE  Fine(f)'
BY DEF Fine

----------------------------------------------------------------------------
(* The steps of one caller keep the table.                                 *)

\* Every step keeps what was not found out of the table.
LEMMA TableStep ==
  SingleCaller /\ TypeOK /\ CallInv /\ KeyInv /\ TableInv /\ [Next]_vars => TableInv'
<1> SUFFICES ASSUME SingleCaller, TypeOK, CallInv, KeyInv, TableInv, [Next]_vars
             PROVE  TableInv'
  OBVIOUS
<1>1. ASSUME NEW c \in Callers, NEW i \in Ids, Lookup(c, i) PROVE TableInv'
  <2>1. Missed(c)'
    BY <1>1, NothingElse DEF Lookup, Go, cacheVars, flagVars, sizeVars, fileVars,
       threadVars, diskVars, streamVars, TypeOK, CallInv, Held, TableInv, Missed, Misses
  <2> QED BY <2>1, MissedFrame
<1>2. ASSUME NEW c \in Callers, Fetch(c) PROVE TableInv'
  <2>1. Missed(c)'
    <3>1. want[c] \in Ids
      BY <1>2 DEF Fetch, CallInv, Held
    <3>2. CASE Return(c)
      BY <3>2, ReturnMissed
    <3>3. CASE Go(c, "list") /\ UNCHANGED want
      <4>1. UNCHANGED <<cached_files, cache_lock>> /\ pc[c] = "fetch" /\ pc'[c] = "list"
        BY <1>2, <3>3 DEF Fetch, Go, cacheVars, TypeOK
      <4> QED BY <3>3, <4>1 DEF TableInv, Missed, Misses
    <3> QED BY <1>2, <3>1, <3>2, <3>3, FetchCases
  <2> QED BY <2>1, MissedFrame
<1>3. ASSUME NEW c \in Callers, List(c) PROVE TableInv'
  <2>1. Missed(c)'
    BY <1>3, NothingElse DEF List, Go, cacheVars, flagVars, sizeVars, fileVars, threadVars,
       diskVars, streamVars, TypeOK, CallInv, Held, TableInv, Missed, Misses
  <2> QED BY <2>1, MissedFrame
<1>4. ASSUME NEW c \in Callers, Sort(c) PROVE TableInv'
  <2>1. Missed(c)'
    BY <1>4, NothingElse DEF Sort, Go, cacheVars, flagVars, sizeVars, fileVars, threadVars,
       diskVars, streamVars, TypeOK, CallInv, Held, TableInv, Missed, Misses
  <2> QED BY <2>1, MissedFrame
<1>5. ASSUME NEW c \in Callers, Evict(c) PROVE TableInv'
  <2>1. Missed(c)'
    <3>1. CASE Return(c)
      BY <3>1, ReturnMissed
    <3>2. /\ pc[c] = "evict" /\ cache_lock = Nothing /\ cache_lock' = Nothing
          /\ \A i \in Ids : cached_files'[i] \in {cached_files[i], Nothing}
      BY <1>5, EvictCases, TableKept DEF CallerStep, Insert
    <3>3. CASE want' = want /\ pc'[c] \in {"new", "dead"}
      BY <3>2, <3>3 DEF TableInv, Missed, Misses
    <3>4. CASE EvictOne(c)
      <4>1. /\ want' = want /\ pc'[c] = "mark" /\ cached_file'[c] = Head(old[c])
            /\ cached_files' = [cached_files EXCEPT ![id[Head(old[c])]] = Nothing]
        BY <3>4 DEF EvictOne, Go, TypeOK
      <4>2. id[Head(old[c])] \in Ids
        BY <3>4, TailFacts DEF EvictOne, TypeOK, CallInv, Held
      <4>3. UNCHANGED id
        BY <1>5, EvictCases DEF fileVars
      <4>4. cached_files'[id'[cached_file'[c]]] = Nothing
        BY <4>1, <4>2, <4>3 DEF TypeOK
      <4>5. (Misses(c) => cached_files[want[c]] = Nothing)'
        BY <3>2, <4>1 DEF TableInv, Missed, Misses
      <4> QED BY <3>2, <4>4, <4>5, NothingElse DEF Missed
    <3> QED BY <1>5, <3>1, <3>3, <3>4, EvictCases DEF EvictEnds, Go, TypeOK, callerVars
  <2> QED BY <2>1, MissedFrame
<1>6. ASSUME NEW c \in Callers, Mark(c) PROVE TableInv'
  <2>1. Missed(c)'
    <3>1. pc[c] \in {"mark", "unlink"} /\ UNCHANGED id
      BY <1>6 DEF Mark, fileVars
    <3>2. CASE Return(c)
      BY <3>2, ReturnMissed
    <3>3. CASE ((Go(c, "evict") /\ cache_lock # c) \/ Go(c, "unlink"))
               /\ UNCHANGED <<cached_files, cache_lock, callerVars>>
      <4>1. /\ UNCHANGED <<cached_files, cache_lock, want, cached_file>>
            /\ (pc'[c] = "evict" /\ cache_lock # c) \/ pc'[c] = "unlink"
        BY <3>3 DEF Go, callerVars, TypeOK
      <4> QED BY <3>1, <4>1 DEF TableInv, Missed, Misses
    <3> QED BY <1>6, <3>2, <3>3, RemovedCases DEF Mark
  <2> QED BY <2>1, MissedFrame
<1>7. ASSUME NEW c \in Callers, Unlink(c) PROVE TableInv'
  <2>1. Missed(c)'
    <3>1. pc[c] \in {"mark", "unlink"} /\ UNCHANGED id
      BY <1>7 DEF Unlink, fileVars
    <3>2. CASE Return(c)
      BY <3>2, ReturnMissed
    <3>3. CASE ((Go(c, "evict") /\ cache_lock # c) \/ Go(c, "unlink"))
               /\ UNCHANGED <<cached_files, cache_lock, callerVars>>
      <4>1. /\ UNCHANGED <<cached_files, cache_lock, want, cached_file>>
            /\ (pc'[c] = "evict" /\ cache_lock # c) \/ pc'[c] = "unlink"
        BY <3>3 DEF Go, callerVars, TypeOK
      <4> QED BY <3>1, <4>1 DEF TableInv, Missed, Misses
    <3> QED BY <1>7, <3>2, <3>3, RemovedCases DEF Unlink
  <2> QED BY <2>1, MissedFrame
<1>8. ASSUME NEW c \in Callers, NEW i \in Ids, Filter(c, i) PROVE TableInv'
  <2>1. Missed(c)'
    BY <1>8, NothingElse DEF Filter, Go, flagVars, sizeVars, fileVars, threadVars, diskVars,
       streamVars, TypeOK, CallInv, Held, TableInv, Missed, Misses
  <2> QED BY <2>1, MissedFrame
<1>9. ASSUME NEW c \in Callers, NEW size \in MaxSizes, SetMaxSize(c, size) PROVE TableInv'
  <2>1. Missed(c)'
    BY <1>9, NothingElse DEF SetMaxSize, Go, flagVars, sizeVars, fileVars, threadVars,
       diskVars, streamVars, TypeOK, CallInv, Held, TableInv, Missed, Misses
  <2> QED BY <2>1, MissedFrame
<1>10. ASSUME NEW c \in Callers, New(c) PROVE TableInv'
  <2>1. Missed(c)'
    <3>1. UNCHANGED <<cached_files, cache_lock, want>> /\ pc[c] = "new" /\ pc'[c] = "insert"
      BY <1>10 DEF New, Go, cacheVars, TypeOK
    <3> QED BY <3>1 DEF TableInv, Missed, Misses
  <2> QED BY <2>1, MissedFrame
<1>11. ASSUME NEW c \in Callers, Insert(c) PROVE TableInv'
  <2>1. Missed(c)'
    BY <1>11, NothingElse DEF Insert, Go, flagVars, sizeVars, fileVars, threadVars,
       diskVars, callerVars, streamVars, TypeOK, CallInv, Held, TableInv, Missed, Misses
  <2> QED BY <2>1, MissedFrame
<1>12. ASSUME NEW c \in Callers, Choose(c) PROVE TableInv'
  <2>1. Missed(c)'
    <3>1. CASE Return(c)
      BY <3>1, ReturnMissed
    <3>2. CASE Go(c, "open_tmp") \/ Go(c, "open_final")
      BY <3>2 DEF Go, TypeOK, Missed, Misses
    <3> QED BY <1>12, <3>1, <3>2, ChooseCases
  <2> QED BY <2>1, MissedFrame
<1>13. ASSUME NEW c \in Callers, Open(c) PROVE TableInv'
  <2>1. Missed(c)'
    BY <1>13, NothingElse DEF Open, Go, cacheVars, flagVars, sizeVars, fileVars, threadVars,
       diskVars, streamVars, TypeOK, CallInv, Held, TableInv, Missed, Misses
  <2> QED BY <2>1, MissedFrame
<1>14. ASSUME NEW c \in Callers, Register(c) PROVE TableInv'
  <2>1. Missed(c)'
    BY <1>14, ReturnMissed DEF Register
  <2> QED BY <2>1, MissedFrame
<1>15. ASSUME NEW s \in Streams, Read(s) PROVE TableInv'
  BY <1>15, NothingElse DEF Read, cacheVars, flagVars, sizeVars, fileVars, threadVars,
     diskVars, callerVars, TableInv, Missed, Misses
<1>16. ASSUME NEW s \in Streams, Close(s) PROVE TableInv'
  BY <1>16, NothingElse DEF Close, cacheVars, flagVars, sizeVars, threadVars, diskVars,
     callerVars, TableInv, Missed, Misses
<1>17. ASSUME NEW s \in Streams, Seek(s) PROVE TableInv'
  BY <1>17, NothingElse DEF Seek, cacheVars, flagVars, sizeVars, fileVars, threadVars,
     diskVars, callerVars, TableInv, Missed, Misses
<1>18. ASSUME NEW f \in Files, FetchChunk(f) PROVE TableInv'
  BY <1>18, NothingElse DEF FetchChunk, FGo, cacheVars, callerVars, streamVars,
     TableInv, Missed, Misses
<1>19. ASSUME NEW f \in Files, FetchEos(f) PROVE TableInv'
  BY <1>19, NothingElse DEF FetchEos, FGo, cacheVars, flagVars, sizeVars, fileVars,
     diskVars, callerVars, streamVars, TableInv, Missed, Misses
<1>20. ASSUME NEW f \in Files, FetchEnd(f) PROVE TableInv'
  BY <1>20, NothingElse DEF FetchEnd, FGo, cacheVars, flagVars, sizeVars, fileVars,
     diskVars, callerVars, streamVars, TableInv, Missed, Misses
<1>21. ASSUME NEW f \in Files, FetchCheck(f) PROVE TableInv'
  BY <1>21, NothingElse DEF FetchCheck, FGo, cacheVars, flagVars, sizeVars, fileVars,
     diskVars, callerVars, streamVars, TableInv, Missed, Misses
<1>22. ASSUME NEW f \in Files, FetchRename(f) PROVE TableInv'
  BY <1>22, NothingElse DEF FetchRename, FGo, cacheVars, sizeVars, callerVars,
     streamVars, TableInv, Missed, Misses
<1>23. ASSUME NEW f \in Files, FetchDrop(f) PROVE TableInv'
  BY <1>23, NothingElse DEF FetchDrop, FGo, cacheVars, flagVars, callerVars, streamVars,
     TableInv, Missed, Misses
<1>24. ASSUME NEW size \in MaxSizes, Restart(size) PROVE TableInv'
  <2>1. \A c \in Callers : pc'[c] = "free"
    BY <1>24 DEF Restart
  <2> QED BY <2>1 DEF TableInv, Missed, Misses
<1>25. CASE UNCHANGED vars
  BY <1>25, NothingElse DEF vars, cacheVars, flagVars, sizeVars, fileVars, threadVars,
     diskVars, callerVars, streamVars, TableInv, Missed, Misses
<1> QED BY <1>1, <1>2, <1>3, <1>4, <1>5, <1>6, <1>7, <1>8, <1>9, <1>10, <1>11, <1>12, <1>13,
      <1>14, <1>15, <1>16, <1>17, <1>18, <1>19, <1>20, <1>21, <1>22, <1>23, <1>24, <1>25
      DEF Next, Call, CallerStep, FetchStep

\* Every step keeps what is in the table and valid where it belongs.
LEMMA CurrentStep ==
  SingleCaller /\ TypeOK /\ CallInv /\ ThreadInv /\ KeyInv /\ CountInv /\ NamesInv /\ WriteInv
    /\ ProgressInv /\ TableInv /\ CurrentInv /\ [Next]_vars => CurrentInv'
<1> SUFFICES ASSUME SingleCaller, TypeOK, CallInv, ThreadInv, KeyInv, CountInv, NamesInv,
                    WriteInv, ProgressInv, TableInv, CurrentInv, [Next]_vars
             PROVE  CurrentInv'
  OBVIOUS
<1>1. ASSUME NEW c \in Callers, NEW i \in Ids, Lookup(c, i) PROVE CurrentInv'
  <2>1. /\ UNCHANGED <<id, expected, fetched, fpc, write_fd, tmp, final, data>>
        /\ \A f \in Files : invalid[f] => invalid'[f]
    BY <1>1 DEF Lookup, cacheVars, flagVars, sizeVars, fileVars, threadVars, diskVars,
       streamVars, TypeOK
  <2>2. \A f : Current(f)' => Current(f)
    BY <1>1, CurrentKept DEF Call, Lookup, New
  <2> QED BY <2>1, <2>2, CurrentShrinks
<1>2. ASSUME NEW c \in Callers, Fetch(c) PROVE CurrentInv'
  <2>1. /\ UNCHANGED <<id, expected, fetched, fpc, write_fd, tmp, final, data>>
        /\ \A f \in Files : invalid[f] => invalid'[f]
    BY <1>2 DEF Fetch, cacheVars, flagVars, sizeVars, fileVars, threadVars, diskVars,
       streamVars, TypeOK
  <2>2. \A f : Current(f)' => Current(f)
    BY <1>2, CurrentKept DEF CallerStep, Fetch, New
  <2> QED BY <2>1, <2>2, CurrentShrinks
<1>3. ASSUME NEW c \in Callers, List(c) PROVE CurrentInv'
  <2>1. /\ UNCHANGED <<id, expected, fetched, fpc, write_fd, tmp, final, data>>
        /\ \A f \in Files : invalid[f] => invalid'[f]
    BY <1>3 DEF List, cacheVars, flagVars, sizeVars, fileVars, threadVars, diskVars,
       streamVars, TypeOK
  <2>2. \A f : Current(f)' => Current(f)
    BY <1>3, CurrentKept DEF CallerStep, List, New
  <2> QED BY <2>1, <2>2, CurrentShrinks
<1>4. ASSUME NEW c \in Callers, Sort(c) PROVE CurrentInv'
  <2>1. /\ UNCHANGED <<id, expected, fetched, fpc, write_fd, tmp, final, data>>
        /\ \A f \in Files : invalid[f] => invalid'[f]
    BY <1>4 DEF Sort, cacheVars, flagVars, sizeVars, fileVars, threadVars, diskVars,
       streamVars, TypeOK
  <2>2. \A f : Current(f)' => Current(f)
    BY <1>4, CurrentKept DEF CallerStep, Sort, New
  <2> QED BY <2>1, <2>2, CurrentShrinks
<1>5. ASSUME NEW c \in Callers, Evict(c) PROVE CurrentInv'
  <2>1. /\ UNCHANGED <<id, expected, fetched, fpc, write_fd, tmp, final, data>>
        /\ \A f \in Files : invalid[f] => invalid'[f]
    BY <1>5, EvictCases DEF flagVars, sizeVars, fileVars, threadVars, diskVars, callerVars,
       streamVars, TypeOK
  <2>2. \A f : Current(f)' => Current(f)
    BY <1>5, EvictCases, CurrentKept DEF CallerStep, New
  <2> QED BY <2>1, <2>2, CurrentShrinks
<1>6. ASSUME NEW c \in Callers, Mark(c) PROVE CurrentInv'
  <2>1. /\ UNCHANGED <<id, expected, fetched, fpc, write_fd, tmp, final, data>>
        /\ \A f \in Files : invalid[f] => invalid'[f]
    BY <1>6 DEF Mark, sizeVars, threadVars, diskVars, callerVars, streamVars, TypeOK
  <2>2. \A f : Current(f)' => Current(f)
    BY <1>6, CurrentKept DEF CallerStep, Mark, New
  <2> QED BY <2>1, <2>2, CurrentShrinks
<1>7. ASSUME NEW c \in Callers, Unlink(c) PROVE CurrentInv'
  <2>1. PICK x : x = cached_file[c]
    OBVIOUS
  <2>2. /\ pc[c] = "unlink" /\ x \in Files /\ id[x] \in Ids /\ Held(c) /\ Missed(c)
        /\ UNCHANGED <<id, expected, fetched, invalid, fpc, write_fd, tmp, data>>
        /\ UNCHANGED final \/ final' = [final EXCEPT ![id[x]] = Nothing]
    BY <1>7, <2>1 DEF Unlink, sizeVars, threadVars, CallInv, Held, TableInv
  <2>3. \A f : Current(f)' => Current(f)
    BY <1>7, CurrentKept DEF CallerStep, Unlink, New
  <2>4. cached_files'[id[x]] = Nothing
    <3>1. CASE cache_lock = c
      <4>1. cached_files[want[c]] = x /\ want[c] \in Ids
        BY <2>1, <2>2, <3>1 DEF Missed, Held
      <4>2. id[x] = want[c]
        BY <2>2, <4>1, NothingElse DEF KeyInv
      <4>3. cached_files' = [cached_files EXCEPT ![want[c]] = Nothing]
        BY <1>7, <3>1, RemovedCases DEF Unlink
      <4> QED BY <4>1, <4>2, <4>3 DEF TypeOK
    <3>2. CASE cache_lock # c
      <4>1. cached_files[id[x]] = Nothing /\ UNCHANGED cached_files
        BY <1>7, <2>1, <2>2, <3>2, RemovedCases DEF Unlink, Missed
      <4> QED BY <4>1
    <3> QED BY <3>1, <3>2
  <2>5. ASSUME NEW f \in Files, Current(f)', ~invalid'[f] PROVE Fine(f)'
    <3>1. Current(f) /\ ~invalid[f] /\ Fine(f) /\ id[f] \in Ids
      BY <2>2, <2>3, <2>5, CurrentIds DEF CurrentInv
    <3>2. f \in Entries'
      <4>1. SingleCaller /\ pc'[c] # "insert"
        BY <1>7, NotInserting DEF CallerStep, Unlink, New
      <4> QED BY <2>5, <4>1 DEF SingleCaller, Current
    <3>3. f = cached_files'[id[f]]
      <4>1. KeyInv'
        BY <1>7, KeyStep DEF Next, CallerStep, Running, vars
      <4> QED BY <2>2, <3>2, <4>1 DEF Entries, KeyInv
    <3>4. id[f] # id[x]
      BY <2>4, <2>5, <3>3, NothingElse
    <3>5. final'[id[f]] = final[id[f]]
      BY <2>2, <3>1, <3>4 DEF TypeOK
    <3>6. fpc[f] = "none" => \A h \in Files : write_fd[h] # final[id[f]]
      BY <3>1 DEF Fine
    <3> QED BY <2>2, <3>1, <3>5, <3>6, FineFrame
  <2> QED BY <2>5 DEF CurrentInv
<1>8. ASSUME NEW c \in Callers, NEW i \in Ids, Filter(c, i) PROVE CurrentInv'
  <2>1. /\ UNCHANGED <<id, expected, fetched, fpc, write_fd, tmp, final, data>>
        /\ \A f \in Files : invalid[f] => invalid'[f]
    BY <1>8 DEF Filter, flagVars, sizeVars, fileVars, threadVars, diskVars, streamVars,
       TypeOK
  <2>2. \A f : Current(f)' => Current(f)
    BY <1>8, CurrentKept DEF Call, Filter, New
  <2> QED BY <2>1, <2>2, CurrentShrinks
<1>9. ASSUME NEW c \in Callers, NEW size \in MaxSizes, SetMaxSize(c, size) PROVE CurrentInv'
  <2>1. /\ UNCHANGED <<id, expected, fetched, fpc, write_fd, tmp, final, data>>
        /\ \A f \in Files : invalid[f] => invalid'[f]
    BY <1>9 DEF SetMaxSize, flagVars, sizeVars, fileVars, threadVars, diskVars, streamVars,
       TypeOK
  <2>2. \A f : Current(f)' => Current(f)
    BY <1>9, CurrentKept DEF Call, SetMaxSize, New
  <2> QED BY <2>1, <2>2, CurrentShrinks
<1>10. ASSUME NEW c \in Callers, New(c) PROVE CurrentInv'
  <2>1. PICK f \in Files : NewFile(c, f)
    BY <1>10, NewFacts
  <2>2. PICK i : i = want[c]
    OBVIOUS
  <2>3. /\ i \in Ids /\ id[f] = Nothing /\ cached_files[i] = Nothing /\ pc[c] = "new"
        /\ UNCHANGED <<cached_files, fetched, invalid, final>> /\ Held(c)
    BY <1>10, <2>1, <2>2 DEF New, NewFile, cacheVars, flagVars, CallInv, Held, TableInv,
       Missed, Misses
  <2>4. /\ id' = [id EXCEPT ![f] = i] /\ fpc' = [fpc EXCEPT ![f] = "loop"]
        /\ expected' = [expected EXCEPT ![f] = required[c]]
        /\ cached_file' = [cached_file EXCEPT ![c] = f]
    BY <2>1, <2>2 DEF NewFile, FGo
  <2>5. ASSUME NEW g \in Files, Current(g)', g # f
        PROVE  g \in Entries /\ id[g] \in Ids /\ id[g] # i
    <3>1. g \in Entries
      <4>1. Entries' = Entries
        BY <2>3 DEF Entries
      <4>2. \A d \in Callers : cached_file'[d] = f
        BY <2>4 DEF SingleCaller, TypeOK
      <4> QED BY <2>5, <4>1, <4>2 DEF Current
    <3> QED BY <2>3, <3>1, CurrentIds, NothingElse DEF Entries, KeyInv, Current
  <2>6. \A g \in Files : g # f => write_fd'[g] = write_fd[g]
    BY <2>1 DEF NewFile, TypeOK
  <2>7. (Fine(f))'
    <3>1. fpc'[f] = "loop" /\ id'[f] = i
      BY <2>3, <2>4 DEF TypeOK
    <3>2. write_fd'[f] # Nothing => tmp'[i] = write_fd'[f]
      BY <2>1, <2>2, <2>3 DEF NewFile, TypeOK
    <3> QED BY <3>1, <3>2 DEF Fine
  <2>8. ASSUME NEW g \in Files, Current(g)', ~invalid'[g], g # f PROVE Fine(g)'
    <3>1. id[g] \in Ids /\ id[g] # i /\ Fine(g)
      BY <2>3, <2>5, <2>8 DEF CurrentInv, Current
    <3>2. /\ fpc'[g] = fpc[g] /\ id'[g] = id[g] /\ expected'[g] = expected[g]
          /\ fetched'[g] = fetched[g] /\ write_fd'[g] = write_fd[g]
      BY <2>3, <2>4, <2>6, <2>8 DEF TypeOK
    <3>3. tmp'[id[g]] = tmp[id[g]]
      BY <2>1, <2>2, <3>1 DEF NewFile, TypeOK
    <3>4. fpc[g] \in {"drop", "ended", "none"} => data'[final[id[g]]] = data[final[id[g]]]
      <4> SUFFICES ASSUME fpc[g] \in {"drop", "ended", "none"}
                   PROVE  data'[final[id[g]]] = data[final[id[g]]]
        OBVIOUS
      <4>1. final[id[g]] \in Inodes
        BY <3>1 DEF Fine, TypeOK
      <4>2. CASE UNCHANGED data
        BY <4>2
      <4>3. ASSUME NEW n \in Inodes, UnusedInode(n), data' = [data EXCEPT ![n] = 0]
            PROVE  data'[final[id[g]]] = data[final[id[g]]]
        <5>1. n # final[id[g]]
          BY <3>1, <4>3 DEF UnusedInode
        <5> QED BY <4>1, <4>3, <5>1 DEF TypeOK
      <4> QED BY <2>1, <4>2, <4>3 DEF NewFile
    <3>5. ASSUME fpc[g] = "none" PROVE \A h \in Files : write_fd'[h] # final[id[g]]
      <4>1. final[id[g]] # Nothing /\ \A h \in Files : write_fd[h] # final[id[g]]
        BY <3>1, <3>5 DEF Fine
      <4>2. write_fd'[f] # final[id[g]]
        <5>1. \/ tmp[i] # Nothing /\ write_fd'[f] = tmp[i]
              \/ write_fd'[f] = Nothing
              \/ \E n \in Inodes : UnusedInode(n) /\ write_fd'[f] = n
          BY <2>1, <2>2 DEF NewFile, TypeOK
        <5>2. \A n \in Inodes : UnusedInode(n) => n # final[id[g]]
          BY <3>1 DEF UnusedInode
        <5>3. tmp[i] # Nothing => tmp[i] # final[id[g]]
          BY <2>3, <3>1 DEF NamesInv
        <5> QED BY <4>1, <5>1, <5>2, <5>3
      <4> QED BY <2>6, <4>1, <4>2
    <3> QED BY <2>3, <3>1, <3>2, <3>3, <3>4, <3>5, FineFrame
  <2> QED BY <2>7, <2>8 DEF CurrentInv
<1>11. ASSUME NEW c \in Callers, Insert(c) PROVE CurrentInv'
  <2>1. /\ UNCHANGED <<id, expected, fetched, fpc, write_fd, tmp, final, data>>
        /\ \A f \in Files : invalid[f] => invalid'[f]
    BY <1>11 DEF Insert, flagVars, sizeVars, fileVars, threadVars, diskVars, callerVars,
       streamVars, TypeOK
  <2>2. \A f : Current(f)' => Current(f)
    BY <1>11, CurrentKept DEF CallerStep, Insert, New
  <2> QED BY <2>1, <2>2, CurrentShrinks
<1>12. ASSUME NEW c \in Callers, Choose(c) PROVE CurrentInv'
  <2>1. /\ UNCHANGED <<id, expected, fetched, fpc, write_fd, tmp, final, data>>
        /\ \A f \in Files : invalid[f] => invalid'[f]
    BY <1>12, ChooseCases DEF cacheVars, flagVars, sizeVars, fileVars, threadVars, diskVars,
       callerVars, streamVars, TypeOK
  <2>2. \A f : Current(f)' => Current(f)
    BY <1>12, ChooseCases, CurrentKept DEF CallerStep, New
  <2> QED BY <2>1, <2>2, CurrentShrinks
<1>13. ASSUME NEW c \in Callers, Open(c) PROVE CurrentInv'
  <2>1. /\ UNCHANGED <<id, expected, fetched, fpc, write_fd, tmp, final, data>>
        /\ \A f \in Files : invalid[f] => invalid'[f]
    BY <1>13 DEF Open, cacheVars, flagVars, sizeVars, fileVars, threadVars, diskVars,
       streamVars, TypeOK
  <2>2. \A f : Current(f)' => Current(f)
    BY <1>13, CurrentKept DEF CallerStep, Open, New
  <2> QED BY <2>1, <2>2, CurrentShrinks
<1>14. ASSUME NEW c \in Callers, Register(c) PROVE CurrentInv'
  <2>1. /\ UNCHANGED <<id, expected, fetched, fpc, write_fd, tmp, final, data>>
        /\ \A f \in Files : invalid[f] => invalid'[f]
    BY <1>14 DEF Register, cacheVars, flagVars, sizeVars, threadVars, diskVars, TypeOK
  <2>2. \A f : Current(f)' => Current(f)
    BY <1>14, CurrentKept DEF CallerStep, Register, New
  <2> QED BY <2>1, <2>2, CurrentShrinks
<1>15. ASSUME NEW s \in Streams, Read(s) PROVE CurrentInv'
  <2>1. /\ UNCHANGED <<id, expected, fetched, fpc, write_fd, tmp, final, data, invalid>>
        /\ UNCHANGED <<cached_files, pc, cached_file>>
    BY <1>15, ReadCases DEF cacheVars, flagVars, sizeVars, fileVars, threadVars, diskVars,
       callerVars, callerVars
  <2> QED BY <2>1, CurrentShrinks DEF Current, Entries
<1>16. ASSUME NEW s \in Streams, Close(s) PROVE CurrentInv'
  <2>1. /\ UNCHANGED <<id, expected, fetched, fpc, write_fd, tmp, final, data, invalid>>
        /\ UNCHANGED <<cached_files, pc, cached_file>>
    BY <1>16 DEF Close, cacheVars, flagVars, sizeVars, threadVars, diskVars, callerVars,
       callerVars
  <2> QED BY <2>1, CurrentShrinks DEF Current, Entries
<1>17. ASSUME NEW s \in Streams, Seek(s) PROVE CurrentInv'
  <2>1. /\ UNCHANGED <<id, expected, fetched, fpc, write_fd, tmp, final, data, invalid>>
        /\ UNCHANGED <<cached_files, pc, cached_file>>
    BY <1>17 DEF Seek, cacheVars, flagVars, sizeVars, fileVars, threadVars, diskVars,
       callerVars, callerVars
  <2> QED BY <2>1, CurrentShrinks DEF Current, Entries
<1>18. ASSUME NEW f \in Files, FetchChunk(f) PROVE CurrentInv'
  <2>1. (\A g : Current(g)' = Current(g)) /\ id[f] \in Ids /\ UNCHANGED id
    BY <1>18, ChunkCases DEF cacheVars, callerVars, fileVars, ThreadInv, Current, Entries
  <2>2. UNCHANGED <<expected, write_fd, tmp, final>> /\ fpc[f] = "loop"
    BY <1>18, ChunkCases
  <2>3. CASE Fails(f)
    <3>1. invalid'[f] /\ UNCHANGED <<fetched, data>>
          /\ \A g \in Files : g # f => fpc'[g] = fpc[g] /\ invalid'[g] = invalid[g]
      BY <2>3 DEF Fails, FGo, TypeOK
    <3>2. ASSUME NEW g \in Files, Current(g)', ~invalid'[g] PROVE Fine(g)'
      BY <2>1, <2>2, <3>1, <3>2 DEF CurrentInv, Fine
    <3> QED BY <3>2 DEF CurrentInv
  <2>4. CASE Writes(f)
    <3>1. UNCHANGED <<invalid, fpc>> /\ write_fd[f] # Nothing
          /\ \A g \in Files : g # f => fetched'[g] = fetched[g]
      BY <2>4 DEF Writes, TypeOK
    <3>2. \A n \in Inodes : n # write_fd[f] => data'[n] = data[n]
      BY <2>4 DEF Writes, TypeOK
    <3>3. data[write_fd[f]] <= data'[write_fd[f]] /\ data[write_fd[f]] \in Nat
      <4>1. write_fd[f] \in Inodes /\ data[write_fd[f]] \in Nat /\ fetched[f] \in Nat
        BY <3>1 DEF TypeOK
      <4>2. PICK m : m = Max({data[write_fd[f]], fetched[f] + 1})
        OBVIOUS
      <4>3. m >= data[write_fd[f]] /\ m \in Int
        <5>1. PICK x : x = data[write_fd[f]]
          OBVIOUS
        <5>2. PICK y : y = fetched[f] + 1
          OBVIOUS
        <5>3. x \in Int /\ y \in Int /\ m = Max({x, y})
          BY <4>1, <4>2, <5>1, <5>2
        <5>4. m = IF x >= y THEN x ELSE y
          BY <5>3, MaxIs
        <5>5. m >= x /\ m \in Int
          BY <5>3, <5>4
        <5> QED BY <5>1, <5>5
      <4>4. data'[write_fd[f]] = m
        BY <2>4, <4>1, <4>2 DEF Writes, TypeOK
      <4> QED BY <4>1, <4>3, <4>4
    <3>4. data'[write_fd[f]] <= SizeOf[id[f]] /\ data'[write_fd[f]] \in Nat
      <4>1. WriteInv' /\ TypeOK'
        BY <1>18, WriteStep, TypesStep DEF Next, FetchStep, Running
      <4> QED BY <2>1, <2>2, <3>1, <4>1 DEF WriteInv, TypeOK
    <3>5. ASSUME NEW g \in Files, Current(g)', ~invalid'[g] PROVE Fine(g)'
      <4>1. Fine(g) /\ id[g] \in Ids
        BY <2>1, <3>1, <3>5, CurrentIds DEF CurrentInv
      <4>2. CASE g = f
        BY <2>1, <2>2, <3>1, <4>1, <4>2 DEF Fine
      <4>3. CASE g # f
        <5>1. ASSUME fpc[g] \in {"drop", "ended", "none"}
              PROVE  data'[final[id[g]]] = data[final[id[g]]]
          <6>1. final[id[g]] \in Inodes
            BY <4>1, <5>1 DEF Fine, TypeOK
          <6>2. CASE final[id[g]] # write_fd[f]
            BY <3>2, <6>1, <6>2
          <6>3. CASE final[id[g]] = write_fd[f]
            <7>1. fpc[g] # "none" /\ id[g] = id[f]
              BY <3>1, <4>1, <6>3 DEF Fine, WriteInv
            <7>2. data[final[id[g]]] = SizeOf[id[f]]
              BY <4>1, <5>1, <7>1 DEF Fine
            <7>3. data'[write_fd[f]] = data[write_fd[f]]
              BY <3>3, <3>4, <6>3, <7>2
            <7> QED BY <6>3, <7>3
          <6> QED BY <6>2, <6>3
        <5>2. fpc[g] = "none" => \A h \in Files : write_fd'[h] # final[id[g]]
          BY <2>2, <4>1 DEF Fine
        <5> QED BY <2>1, <2>2, <3>1, <4>1, <4>3, <5>1, <5>2, FineFrame
      <4> QED BY <4>2, <4>3
    <3> QED BY <3>5 DEF CurrentInv
  <2> QED BY <1>18, <2>3, <2>4, ChunkCases
<1>19. ASSUME NEW f \in Files, FetchEos(f) PROVE CurrentInv'
  <2>1. (\A g : Current(g)' = Current(g)) /\ id[f] \in Ids /\ UNCHANGED id
    BY <1>19 DEF cacheVars, callerVars, fileVars, ThreadInv, Current, Entries, FetchEos
  <2>2. /\ UNCHANGED <<expected, fetched, invalid, write_fd, tmp, final, data>>
        /\ \A g \in Files : g # f => fpc'[g] = fpc[g]
        /\ ~invalid[f] => fpc[f] \in {"loop", "drain", "end", "check"}
                          /\ fpc'[f] \in {"end", "check", "rename"}
    BY <1>19 DEF FetchEos, FGo, fileVars, sizeVars, flagVars, diskVars, TypeOK
  <2>3. ASSUME NEW g \in Files, Current(g)', ~invalid'[g] PROVE Fine(g)'
    <3>1. Fine(g)
      BY <2>1, <2>2, <2>3 DEF CurrentInv
    <3>2. CASE g = f
      BY <2>1, <2>2, <2>3, <3>1, <3>2 DEF Fine
    <3>3. CASE g # f
      BY <2>1, <2>2, <3>1, <3>3 DEF Fine
    <3> QED BY <3>2, <3>3
  <2> QED BY <2>3 DEF CurrentInv
<1>20. ASSUME NEW f \in Files, FetchEnd(f) PROVE CurrentInv'
  <2>1. (\A g : Current(g)' = Current(g)) /\ id[f] \in Ids /\ UNCHANGED id
    BY <1>20 DEF cacheVars, callerVars, fileVars, ThreadInv, Current, Entries, FetchEnd
  <2>2. /\ UNCHANGED <<expected, fetched, invalid, write_fd, tmp, final, data>>
        /\ \A g \in Files : g # f => fpc'[g] = fpc[g]
        /\ ~invalid[f] => fpc[f] \in {"loop", "drain", "end", "check"}
                          /\ fpc'[f] \in {"end", "check", "rename"}
    BY <1>20 DEF FetchEnd, FGo, fileVars, sizeVars, flagVars, diskVars, TypeOK
  <2>3. ASSUME NEW g \in Files, Current(g)', ~invalid'[g] PROVE Fine(g)'
    <3>1. Fine(g)
      BY <2>1, <2>2, <2>3 DEF CurrentInv
    <3>2. CASE g = f
      BY <2>1, <2>2, <2>3, <3>1, <3>2 DEF Fine
    <3>3. CASE g # f
      BY <2>1, <2>2, <3>1, <3>3 DEF Fine
    <3> QED BY <3>2, <3>3
  <2> QED BY <2>3 DEF CurrentInv
<1>21. ASSUME NEW f \in Files, FetchCheck(f) PROVE CurrentInv'
  <2>1. (\A g : Current(g)' = Current(g)) /\ id[f] \in Ids /\ UNCHANGED id
    BY <1>21 DEF cacheVars, callerVars, fileVars, ThreadInv, Current, Entries, FetchCheck
  <2>2. /\ UNCHANGED <<expected, fetched, invalid, write_fd, tmp, final, data>>
        /\ \A g \in Files : g # f => fpc'[g] = fpc[g]
        /\ ~invalid[f] => fpc[f] \in {"loop", "drain", "end", "check"}
                          /\ fpc'[f] \in {"end", "check", "rename"}
    BY <1>21 DEF FetchCheck, FGo, fileVars, sizeVars, flagVars, diskVars, TypeOK
  <2>3. ASSUME NEW g \in Files, Current(g)', ~invalid'[g] PROVE Fine(g)'
    <3>1. Fine(g)
      BY <2>1, <2>2, <2>3 DEF CurrentInv
    <3>2. CASE g = f
      BY <2>1, <2>2, <2>3, <3>1, <3>2 DEF Fine
    <3>3. CASE g # f
      BY <2>1, <2>2, <3>1, <3>3 DEF Fine
    <3> QED BY <3>2, <3>3
  <2> QED BY <2>3 DEF CurrentInv
<1>22. ASSUME NEW f \in Files, FetchRename(f) PROVE CurrentInv'
  <2>1. (\A g : Current(g)' = Current(g)) /\ id[f] \in Ids /\ UNCHANGED id
    BY <1>22, RenameCases DEF cacheVars, callerVars, fileVars, ThreadInv, Current, Entries
  <2>2. /\ fpc[f] = "rename" /\ fpc' = [fpc EXCEPT ![f] = "drop"]
        /\ UNCHANGED <<expected, fetched, write_fd, data>>
    BY <1>22, RenameCases DEF FGo, sizeVars
  <2>3. CASE UNCHANGED <<tmp, final>> /\ invalid' = [invalid EXCEPT ![f] = TRUE]
    <3>1. invalid'[f] /\ \A g \in Files : g # f => fpc'[g] = fpc[g]
            /\ invalid'[g] = invalid[g]
      BY <2>2, <2>3 DEF TypeOK
    <3>2. ASSUME NEW g \in Files, Current(g)', ~invalid'[g] PROVE Fine(g)'
      BY <2>1, <2>2, <2>3, <3>1, <3>2 DEF CurrentInv, Fine
    <3> QED BY <3>2 DEF CurrentInv
  <2>4. CASE /\ tmp[id[f]] # Nothing /\ final' = [final EXCEPT ![id[f]] = tmp[id[f]]]
             /\ tmp' = [tmp EXCEPT ![id[f]] = Nothing] /\ UNCHANGED invalid
    <3>1. /\ tmp'[id[f]] = Nothing /\ final'[id[f]] = tmp[id[f]]
          /\ \A j \in Ids : j # id[f] => tmp'[j] = tmp[j] /\ final'[j] = final[j]
      BY <2>1, <2>4 DEF TypeOK
    <3>2. ASSUME NEW g \in Files, Current(g)', ~invalid'[g] PROVE Fine(g)'
      <4>1. Fine(g) /\ id[g] \in Ids
        BY <2>1, <2>4, <3>2, CurrentIds DEF CurrentInv
      <4>2. CASE g = f
        <5>1. fetched[f] = SizeOf[id[f]] /\ SizeOf[id[f]] \in Nat /\ SizeOf[id[f]] > 0
          BY <2>1, <2>2, NothingElse DEF ProgressInv, Progress
        <5>2. write_fd[f] # Nothing
          BY <2>2, <5>1 DEF ProgressInv, Progress
        <5>3. tmp[id[f]] = write_fd[f]
          BY <2>2, <2>4, <4>1, <4>2, <5>2 DEF Fine
        <5>4. data[write_fd[f]] \in Nat /\ data[write_fd[f]] = SizeOf[id[f]]
          BY <5>1, <5>2 DEF WriteInv, TypeOK
        <5>5. fpc'[f] = "drop"
          BY <2>2 DEF TypeOK
        <5> QED BY <2>1, <2>2, <2>4, <3>1, <4>2, <5>3, <5>4, <5>5 DEF Fine
      <4>3. CASE g # f
        <5>1. fpc'[g] = fpc[g] /\ tmp'[id[g]] \in {tmp[id[g]], Nothing}
          BY <2>2, <3>1, <4>1, <4>3 DEF TypeOK
        <5>2. fpc[g] \in {"drop", "ended", "none"} => final'[id[g]] = final[id[g]]
          BY <2>4, <3>1, <4>1 DEF Fine
        <5>3. fpc[g] = "none" => \A h \in Files : write_fd'[h] # final[id[g]]
          BY <2>2, <4>1 DEF Fine
        <5> QED BY <2>1, <2>2, <4>1, <5>1, <5>2, <5>3, FineFrame
      <4> QED BY <4>2, <4>3
    <3> QED BY <3>2 DEF CurrentInv
  <2> QED BY <1>22, <2>3, <2>4, RenameCases
<1>23. ASSUME NEW f \in Files, FetchDrop(f) PROVE CurrentInv'
  <2>1. (\A g : Current(g)' = Current(g)) /\ id[f] \in Ids /\ UNCHANGED id
    BY <1>23, DropCases DEF cacheVars, callerVars, fileVars, ThreadInv, Current, Entries
  <2>2. /\ fpc[f] = "drop" /\ fpc'[f] = "ended" /\ \A g \in Files : g # f =>
             fpc'[g] = fpc[g]
        /\ UNCHANGED <<fetched, final, data, invalid>>
        /\ \A g \in Files : write_fd'[g] = IF g = f THEN Nothing ELSE write_fd[g]
    BY <1>23, DropCases DEF FGo, flagVars, TypeOK
  <2>3. /\ \A g \in Files : g # f => expected'[g] = expected[g]
        /\ \A j \in Ids : tmp'[j] \in {tmp[j], Nothing}
    BY <1>23, DropCases DEF TypeOK
  <2>4. ASSUME NEW g \in Files, Current(g)', ~invalid'[g] PROVE Fine(g)'
    <3>1. Fine(g) /\ id[g] \in Ids
      BY <2>1, <2>2, <2>4, CurrentIds DEF CurrentInv
    <3>2. CASE g = f
      BY <2>1, <2>2, <2>3, <3>1, <3>2 DEF Fine
    <3>3. CASE g # f
      <4>1. fpc[g] = "none" => \A h \in Files : write_fd'[h] # final[id[g]]
        BY <2>2, <3>1 DEF Fine
      <4> QED BY <2>1, <2>2, <2>3, <3>1, <3>3, <4>1, FineFrame
    <3> QED BY <3>2, <3>3
  <2> QED BY <2>4 DEF CurrentInv
<1>24. ASSUME NEW size \in MaxSizes, Restart(size) PROVE CurrentInv'
  <2>1. PICK g \in [OnDisk -> Files] : Refilled(g)
    BY <1>24, RestartFacts
  <2>2. /\ \A f \in Files : fpc'[f] = "none" /\ write_fd'[f] = Nothing
        /\ \A i \in Ids : tmp'[i] = Nothing
        /\ UNCHANGED <<final, data>> /\ \A c \in Callers : pc'[c] = "free"
    BY <1>24 DEF Restart
  <2>3. ASSUME NEW f \in Files, Current(f)' PROVE Fine(f)'
    <3>1. f \in Entries'
      BY <2>2, <2>3 DEF Current
    <3>2. PICK i \in OnDisk : f = g[i]
      BY <2>1, <3>1 DEF Refilled, Entries
    <3>3. /\ id'[f] = i /\ expected'[f] = data[final[i]] /\ fetched'[f] = expected'[f]
          /\ i \in Ids /\ final[i] # Nothing
      BY <2>1, <3>2 DEF Refilled, OnDisk
    <3> QED BY <2>2, <3>3 DEF Fine
  <2> QED BY <2>3 DEF CurrentInv
<1>25. CASE UNCHANGED vars
  BY <1>25, CurrentShrinks DEF vars, cacheVars, flagVars, sizeVars, fileVars,
     threadVars, diskVars, callerVars, streamVars, Current, Entries
<1> QED BY <1>1, <1>2, <1>3, <1>4, <1>5, <1>6, <1>7, <1>8, <1>9, <1>10, <1>11, <1>12, <1>13,
      <1>14, <1>15, <1>16, <1>17, <1>18, <1>19, <1>20, <1>21, <1>22, <1>23, <1>24, <1>25
      DEF Next, Call, CallerStep, FetchStep

----------------------------------------------------------------------------
(* With one caller: the room.                                              *)

\* The list of old files is exhausted at the earliest when all that is not in use is
\* gone; what is counted as available is; what was made room for fits.
Distinct(l) == \A m, n \in 1..Len(l) : l[m] = l[n] => m = n
Evicting(c) == pc[c] \in {"evict", "mark", "unlink"} /\ cache_lock # c
Room(c) ==
  /\ Distinct(old[c])
  /\ pc[c] = "sort" \/ Evicting(c) => ToSet(old[c]) \subseteq Entries
  /\ pc[c] = "list" /\ want[c] \in Ids =>
       required[c] <= max_size - Total(expected, {f \in Entries : Active(f)})
  /\ (pc[c] \in {"sort", "dead"} \/ Evicting(c)) /\ want[c] \in Ids =>
       required[c] <= max_size - Total(expected, Entries \ ToSet(old[c]))
  /\ pc[c] = "dead" => old[c] = <<>>
  /\ Evicting(c) => available[c] <= max_size - Total(expected, Entries)
  /\ pc[c] = "new" => required[c] <= max_size - Total(expected, Entries)
  /\ pc[c] = "insert" => /\ cached_file[c] \notin Entries
                         /\ expected[cached_file[c]] <= max_size - Total(expected, Entries)
RoomInv == \A c \in Callers : Room(c)

\* The totals of the files' sizes are numbers.
LEMMA SizesNat ==
  ASSUME NEW e \in [Files -> Nat]
  PROVE  \A S \in SUBSET Files : IsFiniteSet(S) /\ Total(e, S) \in Nat
<1> SUFFICES ASSUME NEW S \in SUBSET Files PROVE IsFiniteSet(S) /\ Total(e, S) \in Nat
  OBVIOUS
<1>1. IsFiniteSet(S) /\ \A x \in S : e[x] \in Nat
  BY NothingElse, FS_Subset
<1> QED BY <1>1, TotalNat

\* Fewer and smaller files have a smaller total.
LEMMA SizesLess ==
  ASSUME NEW e \in [Files -> Nat], NEW d \in [Files -> Nat], NEW T \in SUBSET Files,
         NEW S \in SUBSET T, \A x \in S : e[x] <= d[x]
  PROVE  Total(e, S) <= Total(d, T)
<1>1. IsFiniteSet(T) /\ \A x \in T : e[x] \in Nat /\ d[x] \in Nat
  BY SizesNat
<1> QED BY <1>1, TotalMono

\* The available size is what the active files leave of max_size.
LEMMA AvailableIs == AvailableSize = max_size - Total(expected, {f \in Entries : Active(f)})
BY SumIsTotal DEF AvailableSize

\* The table holds files.
LEMMA EntriesFiles == TypeOK => Entries \in SUBSET Files /\ max_size \in Int
BY NothingElse DEF TypeOK, Entries

\* There is only the one caller to look at.
LEMMA RoomFrame ==
  ASSUME SingleCaller, NEW c \in Callers, Room(c)' PROVE RoomInv'
BY DEF SingleCaller, RoomInv

\* Where there is nothing to say of the room.
LEMMA RoomIdle ==
  ASSUME NEW c \in Callers, Distinct(old'[c]),
         \/ pc'[c] \in {"free", "fetch", "choose", "open_tmp", "open_final", "register"}
         \/ pc'[c] = "list" /\ want'[c] \notin Ids
         \/ pc'[c] \in {"mark", "unlink"} /\ cache_lock' = c
  PROVE  Room(c)'
BY DEF Room, Evicting

\* The empty list.
LEMMA NoneDistinct == Distinct(<<>>) /\ ToSet(<<>>) = {}
BY DEF Distinct, ToSet

\* A caller that has returned needs no room.
LEMMA ReturnRoom ==
  ASSUME TypeOK, NEW c \in Callers, Return(c) PROVE Room(c)'
<1>1. old'[c] = <<>> /\ pc'[c] = "free"
  BY DEF Return, Go, TypeOK
<1> QED BY <1>1, NoneDistinct, RoomIdle

\* Files that become smaller or are closed leave more room.
LEMMA RoomGrows ==
  ASSUME TypeOK, TypeOK', CallInv, RoomInv,
         UNCHANGED <<cached_files, max_size, cache_lock, pc, callerVars>>,
         \A f \in Files : expected'[f] <= expected[f] /\ active_ops'[f] <= active_ops[f]
  PROVE  RoomInv'
<1> SUFFICES ASSUME NEW c \in Callers PROVE Room(c)'
  BY DEF RoomInv
<1>1. /\ Room(c) /\ Entries' = Entries /\ Entries \in SUBSET Files /\ max_size \in Int
      /\ UNCHANGED <<cached_files, max_size, cache_lock, pc, want, required, cached_file,
                     old, available>>
  BY EntriesFiles DEF RoomInv, Entries, callerVars
<1>2. expected \in [Files -> Nat] /\ expected' \in [Files -> Nat]
  BY DEF TypeOK
<1>3. PICK active : active = {f \in Entries : Active(f)}
  OBVIOUS
<1>4. PICK less : less = {f \in Entries : Active(f)'}
  OBVIOUS
<1>5. less \in SUBSET active /\ active \in SUBSET Files
        /\ less = {f \in Entries' : Active(f)'}
  BY <1>1, <1>3, <1>4 DEF Active, TypeOK
<1>6. Total(expected', less) <= Total(expected, active)
  BY <1>2, <1>5, SizesLess
<1>7. Total(expected', Entries) <= Total(expected, Entries)
  BY <1>1, <1>2, SizesLess
<1>8. PICK rest : rest = Entries \ ToSet(old[c])
  OBVIOUS
<1>9. rest \in SUBSET Files
  BY <1>1, <1>8
<1>10. Total(expected', rest) <= Total(expected, rest)
  BY <1>2, <1>9, SizesLess
<1>11. /\ Total(expected, active) \in Nat /\ Total(expected', less) \in Nat
       /\ Total(expected, Entries) \in Nat /\ Total(expected', Entries) \in Nat
       /\ Total(expected, rest) \in Nat /\ Total(expected', rest) \in Nat
  <2>1. less \in SUBSET Files
    BY <1>5
  <2> QED BY <1>1, <1>2, <1>5, <1>9, <2>1, SizesNat
<1>12. required[c] \in Nat /\ available[c] \in Int
  BY DEF TypeOK
<1>13. pc[c] = "insert" => /\ expected'[cached_file[c]] <= expected[cached_file[c]]
                           /\ expected'[cached_file[c]] \in Nat
                           /\ expected[cached_file[c]] \in Nat
  BY <1>2 DEF RoomInv, CallInv, Held
<1> QED BY <1>1, <1>3, <1>5, <1>6, <1>7, <1>8, <1>10, <1>11, <1>12, <1>13 DEF Room, Evicting

----------------------------------------------------------------------------
(* The steps of one caller keep the room.                                  *)

\* Every step keeps the room that was made.
LEMMA RoomStep ==
  SingleCaller /\ TypeOK /\ TypeOK' /\ CallInv /\ ThreadInv /\ KeyInv /\ ProgressInv /\ RoomInv
    /\ [Next]_vars => RoomInv'
<1> SUFFICES ASSUME SingleCaller, TypeOK, TypeOK', CallInv, ThreadInv, KeyInv, ProgressInv,
                    RoomInv, [Next]_vars
             PROVE  RoomInv'
  OBVIOUS
<1>1. ASSUME NEW c \in Callers, NEW i \in Ids, Lookup(c, i) PROVE RoomInv'
  <2>1. Room(c)'
    <3>1. Distinct(old'[c])
      BY <1>1 DEF Lookup, callerVars, RoomInv, Room
    <3> QED BY <1>1, <3>1, NothingElse, RoomIdle DEF Lookup, Go, TypeOK
  <2> QED BY <2>1, RoomFrame
<1>2. ASSUME NEW c \in Callers, Fetch(c) PROVE RoomInv'
  <2>1. Room(c)'
    <3>1. want[c] \in Ids
      BY <1>2 DEF Fetch, CallInv, Held
    <3>2. CASE Return(c)
      BY <3>2, ReturnRoom
    <3>3. CASE \E m \in Nat : /\ m <= AvailableSize
                 /\ required' = [required EXCEPT ![c] = m]
                              /\ Go(c, "list")
                              /\ UNCHANGED <<want, cached_file, old, available, new_fd>>
      <4>1. PICK m \in Nat : /\ m <= AvailableSize /\ required' = [required EXCEPT ![c] = m]
                             /\ Go(c, "list")
                             /\ UNCHANGED <<want, cached_file, old, available, new_fd>>
        BY <3>3
      <4>2. /\ required'[c] = m /\ pc'[c] = "list" /\ UNCHANGED <<max_size, expected>>
            /\ Entries' = Entries /\ \A f : Active(f)' = Active(f)
        BY <1>2, <4>1 DEF Fetch, Go, cacheVars, fileVars, sizeVars, TypeOK, Entries, Active
      <4>3. {f \in Entries : Active(f)}' = {f \in Entries : Active(f)}
        BY <4>2
      <4>4. m <= max_size - Total(expected, {f \in Entries : Active(f)}) /\ Distinct(old[c])
        BY <4>1, AvailableIs DEF RoomInv, Room
      <4> QED BY <4>1, <4>2, <4>3, <4>4 DEF Room, Evicting
    <3> QED BY <1>2, <3>1, <3>2, <3>3, FetchCases
  <2> QED BY <2>1, RoomFrame
<1>3. ASSUME NEW c \in Callers, List(c) PROVE RoomInv'
  <2>1. Room(c)'
    <3>1. PICK inactive : inactive = {f \in Entries : ~Active(f)}
      OBVIOUS
    <3>2. PICK l \in SetToSeqs(inactive) : old' = [old EXCEPT ![c] = l]
      BY <1>3, <3>1 DEF List
    <3>3. inactive \in SUBSET Files
      BY <3>1, EntriesFiles
    <3>4. Distinct(l) /\ ToSet(l) = inactive
      BY <3>2, <3>3, SeqsFacts DEF Distinct
    <3>5. old'[c] = l /\ pc[c] = "list" /\ pc'[c] = "sort"
            /\ UNCHANGED <<max_size, expected, want, required>>
          /\ Entries' = Entries
      BY <1>3, <3>2 DEF List, Go, cacheVars, fileVars, sizeVars, TypeOK, Entries
    <3>6. Entries \ ToSet(l) = {f \in Entries : Active(f)}
      BY <3>1, <3>4
    <3>7. Room(c)
      BY DEF RoomInv
    <3> QED BY <3>1, <3>4, <3>5, <3>6, <3>7 DEF Room, Evicting
  <2> QED BY <2>1, RoomFrame
<1>4. ASSUME NEW c \in Callers, Sort(c) PROVE RoomInv'
  <2>1. Room(c)'
    <3>1. PICK l \in SetToSeqs(ToSet(old[c])) : old' = [old EXCEPT ![c] = l]
      BY <1>4 DEF Sort, Sorted
    <3>2. ToSet(old[c]) \in SUBSET Files
      BY DEF ToSet, TypeOK
    <3>3. Distinct(l) /\ ToSet(l) = ToSet(old[c])
      BY <3>2, SeqsFacts DEF Distinct
    <3>4. /\ old'[c] = l /\ pc[c] = "sort" /\ pc'[c] = "evict" /\ available'[c] = FreeSpace
          /\ UNCHANGED <<max_size, expected, want, required>> /\ Entries' = Entries
      BY <1>4, <3>1 DEF Sort, Go, cacheVars, fileVars, sizeVars, TypeOK, Entries
    <3>5. FreeSpace \in Int /\ FreeSpace = max_size - Total(expected, Entries)
      BY FreeSpaceInt, FreeSpaceIs
    <3>6. Room(c)
      BY DEF RoomInv
    <3> QED BY <3>3, <3>4, <3>5, <3>6 DEF Room, Evicting
  <2> QED BY <2>1, RoomFrame
<1>5. ASSUME NEW c \in Callers, Evict(c) PROVE RoomInv'
  <2>1. Room(c)'
    <3>1. /\ pc[c] = "evict" /\ cache_lock = Nothing /\ cache_lock' = Nothing /\ Room(c)
          /\ cache_lock # c /\ Evicting(c) /\ UNCHANGED <<max_size, expected>>
      BY <1>5, EvictCases, NothingElse DEF fileVars, sizeVars, RoomInv, Evicting
    <3>2. CASE Return(c)
      BY <3>2, ReturnRoom
    <3>3. CASE EvictEnds(c)
      <4>1. /\ old'[c] = <<>> /\ pc'[c] = "new" /\ required' = required
                 /\ Entries' = Entries
            /\ required[c] <= available[c]
        BY <3>3 DEF EvictEnds, Go, TypeOK, Entries
      <4>2. required[c] <= max_size - Total(expected, Entries)
        <5>1. required[c] \in Int /\ available[c] \in Int
                /\ max_size - Total(expected, Entries) \in Int
          BY FreeSpaceInt, FreeSpaceIs DEF TypeOK
        <5>2. PICK x : x = max_size - Total(expected, Entries)
          OBVIOUS
        <5>3. available[c] <= x
          BY <3>1, <5>2 DEF Room
        <5> QED BY <4>1, <5>1, <5>2, <5>3
      <4> QED BY <3>1, <4>1, <4>2, NoneDistinct DEF Room, Evicting
    <3>4. CASE old[c] = <<>> /\ Go(c, "dead") /\ UNCHANGED <<cached_files, callerVars>>
      <4>1. pc'[c] = "dead" /\ UNCHANGED <<old, required, want>> /\ Entries' = Entries
        BY <3>4 DEF Go, callerVars, TypeOK, Entries
      <4> QED BY <3>1, <3>4, <4>1 DEF Room, Evicting
    <3>5. CASE EvictOne(c)
      <4>1. PICK f : f = Head(old[c])
        OBVIOUS
      <4>2. /\ pc'[c] = "mark" /\ UNCHANGED <<want, required>> /\ old'[c] = Tail(old[c])
            /\ available'[c] = available[c] + expected[f] /\ old[c] # <<>>
            /\ cached_files' = [cached_files EXCEPT ![id[f]] = Nothing]
        BY <3>5, <4>1 DEF EvictOne, Go, TypeOK
      <4>3. /\ f \in Files /\ f \in ToSet(old[c]) /\ Distinct(Tail(old[c]))
            /\ ToSet(Tail(old[c])) = ToSet(old[c]) \ {f}
        BY <3>1, <4>1, <4>2, TailFacts DEF TypeOK, Room, Distinct
      <4>4. f \in Entries /\ Entries' = Entries \ {f}
        <5>1. f \in Entries /\ id[f] \in Ids /\ cached_files[id[f]] = f
          BY <3>1, <4>3, NothingElse DEF Room, Entries, KeyInv
        <5>2. \A i \in Ids : i # id[f] => cached_files[i] # f
          BY <4>3, <5>1, NothingElse DEF KeyInv
        <5>3. cached_files'[id[f]] = Nothing /\ \A i \in Ids : i # id[f] =>
                cached_files'[i] = cached_files[i]
          BY <4>2, <5>1 DEF TypeOK
        <5>4. Entries' \subseteq Entries \ {f}
          BY <5>2, <5>3 DEF Entries
        <5>5. Entries \ {f} \subseteq Entries'
          BY <5>1, <5>3 DEF Entries
        <5> QED BY <5>1, <5>4, <5>5
      <4>5. /\ ToSet(old'[c]) \subseteq Entries'
            /\ Entries' \ ToSet(old'[c]) = Entries \ ToSet(old[c])
        BY <3>1, <4>2, <4>3, <4>4 DEF Room
      <4>6. Total(expected, Entries) = expected[f] + Total(expected, Entries')
        <5>1. IsFiniteSet(Entries) /\ expected \in [Files -> Nat]
                /\ Entries \in SUBSET Files
          BY EntriesFiles, SizesNat DEF TypeOK
        <5>2. \A x \in Entries : expected[x] \in Nat
          BY <5>1
        <5>3. Total(expected, Entries) = expected[f] + Total(expected, Entries \ {f})
          BY <4>4, <5>1, <5>2, TotalAdd
        <5> QED BY <4>4, <5>3
      <4>7. available'[c] <= max_size - Total(expected, Entries')
        <5>1. available[c] <= max_size - Total(expected, Entries)
          BY <3>1 DEF Room
        <5>2. expected[f] \in Int /\ available[c] \in Int /\ max_size \in Int
          <6>1. expected[f] \in Nat /\ available[c] \in Int
            BY <4>3 DEF TypeOK
          <6> QED BY <6>1, EntriesFiles
        <5>3. Total(expected, Entries') \in Int
          <6>1. Entries' \in SUBSET Files /\ expected \in [Files -> Nat]
            BY <4>4, EntriesFiles DEF TypeOK
          <6> QED BY <6>1, SizesNat
        <5> QED BY <4>2, <4>6, <5>1, <5>2, <5>3
      <4>8. want[c] \in Ids =>
              required[c] <= max_size - Total(expected, Entries' \ ToSet(old'[c]))
        BY <3>1, <4>5 DEF Room
      <4> QED BY <3>1, <4>2, <4>3, <4>5, <4>7, <4>8 DEF Room, Evicting
    <3> QED BY <1>5, <3>2, <3>3, <3>4, <3>5, EvictCases
  <2> QED BY <2>1, RoomFrame
<1>6. ASSUME NEW c \in Callers, Mark(c) PROVE RoomInv'
  <2>1. Room(c)'
    <3>1. pc[c] \in {"mark", "unlink"} /\ UNCHANGED <<max_size, expected>> /\ Room(c)
      BY <1>6 DEF Mark, sizeVars, RoomInv
    <3>2. CASE Return(c)
      BY <3>2, ReturnRoom
    <3>3. CASE ((Go(c, "evict") /\ cache_lock # c) \/ Go(c, "unlink"))
               /\ UNCHANGED <<cached_files, cache_lock, callerVars>>
      <4>1. /\ UNCHANGED <<cache_lock, want, required, old, available>>
                 /\ Entries' = Entries
            /\ (pc'[c] = "evict" /\ cache_lock # c) \/ pc'[c] = "unlink"
        BY <3>3 DEF Go, callerVars, TypeOK, Entries
      <4>2. Distinct(old'[c])
        BY <3>1, <4>1 DEF Room
      <4>3. CASE cache_lock = c
        BY <4>1, <4>2, <4>3, RoomIdle
      <4>4. CASE cache_lock # c
        <5>1. Evicting(c) /\ Evicting(c)'
          BY <3>1, <4>1, <4>4 DEF Evicting
        <5> QED BY <3>1, <4>1, <5>1 DEF Room
      <4> QED BY <4>3, <4>4
    <3> QED BY <1>6, <3>2, <3>3, RemovedCases DEF Mark
  <2> QED BY <2>1, RoomFrame
<1>7. ASSUME NEW c \in Callers, Unlink(c) PROVE RoomInv'
  <2>1. Room(c)'
    <3>1. pc[c] \in {"mark", "unlink"} /\ UNCHANGED <<max_size, expected>> /\ Room(c)
      BY <1>7 DEF Unlink, sizeVars, RoomInv
    <3>2. CASE Return(c)
      BY <3>2, ReturnRoom
    <3>3. CASE ((Go(c, "evict") /\ cache_lock # c) \/ Go(c, "unlink"))
               /\ UNCHANGED <<cached_files, cache_lock, callerVars>>
      <4>1. /\ UNCHANGED <<cache_lock, want, required, old, available>>
                 /\ Entries' = Entries
            /\ (pc'[c] = "evict" /\ cache_lock # c) \/ pc'[c] = "unlink"
        BY <3>3 DEF Go, callerVars, TypeOK, Entries
      <4>2. Distinct(old'[c])
        BY <3>1, <4>1 DEF Room
      <4>3. CASE cache_lock = c
        BY <4>1, <4>2, <4>3, RoomIdle
      <4>4. CASE cache_lock # c
        <5>1. Evicting(c) /\ Evicting(c)'
          BY <3>1, <4>1, <4>4 DEF Evicting
        <5> QED BY <3>1, <4>1, <5>1 DEF Room
      <4> QED BY <4>3, <4>4
    <3> QED BY <1>7, <3>2, <3>3, RemovedCases DEF Unlink
  <2> QED BY <2>1, RoomFrame
<1>8. ASSUME NEW c \in Callers, NEW i \in Ids, Filter(c, i) PROVE RoomInv'
  <2>1. Room(c)'
    <3>1. Distinct(old'[c])
      BY <1>8 DEF Filter, callerVars, RoomInv, Room
    <3> QED BY <1>8, <3>1, NothingElse, RoomIdle DEF Filter, Go, TypeOK
  <2> QED BY <2>1, RoomFrame
<1>9. ASSUME NEW c \in Callers, NEW size \in MaxSizes, SetMaxSize(c, size) PROVE RoomInv'
  <2>1. Room(c)'
    <3>1. Distinct(old'[c])
      BY <1>9 DEF SetMaxSize, callerVars, RoomInv, Room
    <3> QED BY <1>9, <3>1, NothingElse, RoomIdle DEF SetMaxSize, Go, TypeOK
  <2> QED BY <2>1, RoomFrame
<1>10. ASSUME NEW c \in Callers, New(c) PROVE RoomInv'
  <2>1. Room(c)'
    <3>1. PICK f \in Files : NewFile(c, f)
      BY <1>10, NewFacts
    <3>2. /\ cached_file'[c] = f /\ expected' = [expected EXCEPT ![f] = required[c]]
          /\ id[f] = Nothing /\ pc[c] = "new" /\ pc'[c] = "insert" /\ Room(c)
          /\ UNCHANGED <<max_size, old>> /\ Entries' = Entries
      <4>1. /\ cached_file' = [cached_file EXCEPT ![c] = f]
                 /\ pc' = [pc EXCEPT ![c] = "insert"]
            /\ expected' = [expected EXCEPT ![f] = required[c]] /\ id[f] = Nothing
                 /\ pc[c] = "new"
            /\ UNCHANGED <<max_size, old, cached_files>>
        BY <1>10, <3>1 DEF New, NewFile, Go, cacheVars
      <4> QED BY <4>1 DEF TypeOK, Entries, RoomInv
    <3>3. f \notin Entries /\ Entries \in SUBSET Files /\ max_size \in Int
      BY <3>2, EntriesFiles, NothingElse DEF Entries, KeyInv
    <3>4. expected \in [Files -> Nat] /\ expected' \in [Files -> Nat] /\ required[c] \in Nat
      BY <3>2 DEF TypeOK
    <3>5. \A x \in Entries : expected'[x] <= expected[x]
      <4>1. \A x \in Files : expected[x] \in Nat /\ (x # f => expected'[x] = expected[x])
        BY <3>2, <3>4
      <4> QED BY <3>3, <4>1
    <3>6. Total(expected', Entries) <= Total(expected, Entries)
      BY <3>3, <3>4, <3>5, SizesLess
    <3>7. Total(expected', Entries) \in Nat /\ Total(expected, Entries) \in Nat
      BY <3>3, <3>4, SizesNat
    <3>8. expected'[f] = required[c]
      BY <3>2, <3>4
    <3>9. required[c] <= max_size - Total(expected', Entries)
      <4>1. required[c] <= max_size - Total(expected, Entries)
        BY <3>2 DEF Room
      <4> QED BY <3>3, <3>4, <3>6, <3>7, <4>1
    <3>10. Distinct(old'[c])
      BY <3>2 DEF Room
    <3> QED BY <3>2, <3>3, <3>8, <3>9, <3>10 DEF Room, Evicting
  <2> QED BY <2>1, RoomFrame
<1>11. ASSUME NEW c \in Callers, Insert(c) PROVE RoomInv'
  <2>1. Room(c)'
    <3>1. Distinct(old'[c])
      BY <1>11 DEF Insert, callerVars, RoomInv, Room
    <3> QED BY <1>11, <3>1, RoomIdle DEF Insert, Go, TypeOK
  <2> QED BY <2>1, RoomFrame
<1>12. ASSUME NEW c \in Callers, Choose(c) PROVE RoomInv'
  <2>1. Room(c)'
    <3>1. CASE Return(c)
      BY <3>1, ReturnRoom
    <3>2. CASE (Go(c, "open_tmp") \/ Go(c, "open_final")) /\ UNCHANGED callerVars
      <4>1. Distinct(old'[c]) /\ pc'[c] \in {"open_tmp", "open_final"}
        BY <3>2 DEF Go, TypeOK, callerVars, RoomInv, Room
      <4> QED BY <4>1, RoomIdle
    <3> QED BY <1>12, <3>1, <3>2, ChooseCases
  <2> QED BY <2>1, RoomFrame
<1>13. ASSUME NEW c \in Callers, Open(c) PROVE RoomInv'
  <2>1. Room(c)'
    <3>1. Distinct(old'[c])
      BY <1>13 DEF Open, callerVars, RoomInv, Room
    <3> QED BY <1>13, <3>1, NothingElse, RoomIdle DEF Open, Go, TypeOK
  <2> QED BY <2>1, RoomFrame
<1>14. ASSUME NEW c \in Callers, Register(c) PROVE RoomInv'
  <2>1. Room(c)'
    BY <1>14, ReturnRoom DEF Register
  <2> QED BY <2>1, RoomFrame
<1>15. ASSUME NEW s \in Streams, Read(s) PROVE RoomInv'
  <2>1. UNCHANGED <<cached_files, max_size, cache_lock, pc, callerVars>>
    BY <1>15, ReadCases DEF cacheVars
  <2>2. \A g \in Files : expected'[g] <= expected[g] /\ active_ops'[g] <= active_ops[g]
    <3>1. UNCHANGED <<expected, active_ops>> /\ \A g \in Files : expected[g] \in Nat
            /\ active_ops[g] \in Nat
      BY <1>15, ReadCases DEF fileVars, sizeVars, TypeOK
    <3> QED BY <3>1
  <2> QED BY <2>1, <2>2, RoomGrows
<1>16. ASSUME NEW s \in Streams, Close(s) PROVE RoomInv'
  <2>1. UNCHANGED <<cached_files, max_size, cache_lock, pc, callerVars>>
    BY <1>16 DEF Close, cacheVars
  <2>2. \A g \in Files : expected'[g] <= expected[g] /\ active_ops'[g] <= active_ops[g]
    <3>1. UNCHANGED expected /\ file[s] \in Files
      BY <1>16 DEF Close, sizeVars, TypeOK
    <3>2. \A g \in Files : expected[g] \in Nat /\ active_ops[g] \in Nat
      BY DEF TypeOK
    <3>3. PICK h : h = file[s]
      OBVIOUS
    <3>4. active_ops' = [active_ops EXCEPT ![h] = IF position[s] = -1 THEN active_ops[h]
                                                ELSE active_ops[h] - 1]
      BY <1>16, <3>1, <3>3 DEF Close, TypeOK
    <3>5. \A g \in Files : active_ops'[g] =
            IF g = h /\ position[s] # -1 THEN active_ops[g] - 1 ELSE active_ops[g]
      BY <3>1, <3>3, <3>4 DEF TypeOK
    <3> QED BY <3>1, <3>2, <3>5
  <2> QED BY <2>1, <2>2, RoomGrows
<1>17. ASSUME NEW s \in Streams, Seek(s) PROVE RoomInv'
  <2>1. UNCHANGED <<cached_files, max_size, cache_lock, pc, callerVars>>
    BY <1>17 DEF Seek, cacheVars
  <2>2. \A g \in Files : expected'[g] <= expected[g] /\ active_ops'[g] <= active_ops[g]
    <3>1. UNCHANGED <<expected, active_ops>> /\ \A g \in Files : expected[g] \in Nat
            /\ active_ops[g] \in Nat
      BY <1>17 DEF Seek, fileVars, sizeVars, TypeOK
    <3> QED BY <3>1
  <2> QED BY <2>1, <2>2, RoomGrows
<1>18. ASSUME NEW f \in Files, FetchChunk(f) PROVE RoomInv'
  <2>1. UNCHANGED <<cached_files, max_size, cache_lock, pc, callerVars>>
    BY <1>18, ChunkCases DEF cacheVars
  <2>2. \A g \in Files : expected'[g] <= expected[g] /\ active_ops'[g] <= active_ops[g]
    <3>1. UNCHANGED <<expected, active_ops>> /\ \A g \in Files : expected[g] \in Nat
            /\ active_ops[g] \in Nat
      BY <1>18, ChunkCases DEF fileVars, TypeOK
    <3> QED BY <3>1
  <2> QED BY <2>1, <2>2, RoomGrows
<1>19. ASSUME NEW f \in Files, FetchEos(f) PROVE RoomInv'
  <2>1. UNCHANGED <<cached_files, max_size, cache_lock, pc, callerVars>>
    BY <1>19 DEF FetchEos, cacheVars
  <2>2. \A g \in Files : expected'[g] <= expected[g] /\ active_ops'[g] <= active_ops[g]
    <3>1. UNCHANGED <<expected, active_ops>> /\ \A g \in Files : expected[g] \in Nat
            /\ active_ops[g] \in Nat
      BY <1>19 DEF FetchEos, fileVars, sizeVars, TypeOK
    <3> QED BY <3>1
  <2> QED BY <2>1, <2>2, RoomGrows
<1>20. ASSUME NEW f \in Files, FetchEnd(f) PROVE RoomInv'
  <2>1. UNCHANGED <<cached_files, max_size, cache_lock, pc, callerVars>>
    BY <1>20 DEF FetchEnd, cacheVars
  <2>2. \A g \in Files : expected'[g] <= expected[g] /\ active_ops'[g] <= active_ops[g]
    <3>1. UNCHANGED <<expected, active_ops>> /\ \A g \in Files : expected[g] \in Nat
            /\ active_ops[g] \in Nat
      BY <1>20 DEF FetchEnd, fileVars, sizeVars, TypeOK
    <3> QED BY <3>1
  <2> QED BY <2>1, <2>2, RoomGrows
<1>21. ASSUME NEW f \in Files, FetchCheck(f) PROVE RoomInv'
  <2>1. UNCHANGED <<cached_files, max_size, cache_lock, pc, callerVars>>
    BY <1>21 DEF FetchCheck, cacheVars
  <2>2. \A g \in Files : expected'[g] <= expected[g] /\ active_ops'[g] <= active_ops[g]
    <3>1. UNCHANGED <<expected, active_ops>> /\ \A g \in Files : expected[g] \in Nat
            /\ active_ops[g] \in Nat
      BY <1>21 DEF FetchCheck, fileVars, sizeVars, TypeOK
    <3> QED BY <3>1
  <2> QED BY <2>1, <2>2, RoomGrows
<1>22. ASSUME NEW f \in Files, FetchRename(f) PROVE RoomInv'
  <2>1. UNCHANGED <<cached_files, max_size, cache_lock, pc, callerVars>>
    BY <1>22, RenameCases DEF cacheVars
  <2>2. \A g \in Files : expected'[g] <= expected[g] /\ active_ops'[g] <= active_ops[g]
    <3>1. UNCHANGED <<expected, active_ops>> /\ \A g \in Files : expected[g] \in Nat
            /\ active_ops[g] \in Nat
      BY <1>22, RenameCases DEF sizeVars, TypeOK
    <3> QED BY <3>1
  <2> QED BY <2>1, <2>2, RoomGrows
<1>23. ASSUME NEW f \in Files, FetchDrop(f) PROVE RoomInv'
  <2>1. UNCHANGED <<cached_files, max_size, cache_lock, pc, callerVars>>
    BY <1>23, DropCases DEF cacheVars
  <2>2. \A g \in Files : expected'[g] <= expected[g] /\ active_ops'[g] <= active_ops[g]
    <3>1. active_ops' = active_ops /\ \A g \in Files : expected[g] \in Nat
            /\ active_ops[g] \in Nat
      BY <1>23, DropCases DEF TypeOK
    <3>2. fetched[f] <= expected[f]
      <4>1. /\ fetched[f] <= SizeOf[id[f]] /\ SizeOf[id[f]] <= expected[f] /\ id[f] \in Ids
        BY <1>23, DropCases DEF ProgressInv, Progress, ThreadInv
      <4>2. fetched[f] \in Nat /\ expected[f] \in Nat /\ SizeOf[id[f]] \in Nat
        BY <4>1, NothingElse DEF TypeOK
      <4> QED BY <4>1, <4>2
    <3>3. UNCHANGED expected \/ expected' = [expected EXCEPT ![f] = fetched[f]]
      BY <1>23, DropCases
    <3>4. CASE UNCHANGED expected
      BY <3>1, <3>4
    <3>5. CASE expected' = [expected EXCEPT ![f] = fetched[f]]
      <4>1. \A g \in Files : expected'[g] = IF g = f THEN fetched[f] ELSE expected[g]
        BY <3>5 DEF TypeOK
      <4> QED BY <3>1, <3>2, <4>1
    <3> QED BY <3>3, <3>4, <3>5
  <2> QED BY <2>1, <2>2, RoomGrows
<1>24. ASSUME NEW size \in MaxSizes, Restart(size) PROVE RoomInv'
  <2>1. \A c \in Callers : pc'[c] = "free" /\ old'[c] = <<>>
    BY <1>24 DEF Restart
  <2> QED BY <2>1, NoneDistinct, RoomIdle DEF RoomInv
<1>25. CASE UNCHANGED vars
  <2>1. UNCHANGED <<cached_files, max_size, cache_lock, pc, callerVars, expected, active_ops>>
    BY <1>25 DEF vars, cacheVars, fileVars, sizeVars
  <2>2. \A g \in Files : expected'[g] <= expected[g] /\ active_ops'[g] <= active_ops[g]
    BY <2>1 DEF TypeOK
  <2> QED BY <2>1, <2>2, RoomGrows
<1> QED BY <1>1, <1>2, <1>3, <1>4, <1>5, <1>6, <1>7, <1>8, <1>9, <1>10, <1>11, <1>12, <1>13,
      <1>14, <1>15, <1>16, <1>17, <1>18, <1>19, <1>20, <1>21, <1>22, <1>23, <1>24, <1>25
      DEF Next, Call, CallerStep, FetchStep

----------------------------------------------------------------------------
(* What follows for every behaviour.                                       *)

\* The invariant for any number of callers: who uses an id or a file has one, what
\* is open is counted, and the threads write what is theirs.
HoldingInv == TypeOK /\ CallInv /\ ThreadInv /\ KeyInv /\ CountInv
WritingInv == NamesInv /\ WriteInv /\ AskInv /\ ProgressInv

\* With one caller: what is in the table is where it belongs, and fits.
TableFits  == TableInv /\ CurrentInv /\ RoomInv

\* At the start there are no files, and nobody calls.
LEMMA InitHolding == Init => HoldingInv
<1> SUFFICES ASSUME Init PROVE HoldingInv
  OBVIOUS
<1>1. <<>> \in Seq(Files) /\ "free" \in CallerPc /\ "none" \in FetchPc
  BY DEF CallerPc, FetchPc
<1>2. TableTypes /\ FileTypes /\ ThreadTypes /\ DiskTypes
  BY <1>1, NothingElse DEF Init, TableTypes, FileTypes, ThreadTypes, DiskTypes
<1>3. CallerTypes /\ StreamTypes
  BY <1>1 DEF Init, CallerTypes, StreamTypes
<1>4. CallInv
  <2>1. \A c \in Callers : pc[c] = "free" /\ cache_lock = Nothing /\ old[c] = <<>>
    BY DEF Init
  <2> QED BY <2>1, NoneDistinct, NothingElse DEF CallInv, Held
<1>5. ThreadInv /\ KeyInv
  BY DEF Init, ThreadInv, KeyInv
<1>6. CountInv
  <2>1. \A g \in Files : Reading(g) = {} /\ active_ops[g] = 0
    BY DEF Init, Reading
  <2> QED BY <2>1, FS_EmptySet DEF CountInv
<1> QED BY <1>2, <1>3, <1>4, <1>5, <1>6, TypeParts DEF HoldingInv

\* At the start the directory is empty.
LEMMA InitWriting == Init => WritingInv
BY DEF Init, WritingInv, NamesInv, WriteInv, AskInv, Asks, ProgressInv, Progress

\* At the start the table is empty.
LEMMA InitTable == Init => TableFits
<1> SUFFICES ASSUME Init PROVE TableFits
  OBVIOUS
<1>1. TableInv /\ CurrentInv
  BY DEF Init, TableInv, Missed, Misses, CurrentInv, Current, Entries
<1>2. \A c \in Callers : pc[c] = "free" /\ old[c] = <<>>
  BY DEF Init
<1>3. RoomInv
  BY <1>2, NoneDistinct DEF RoomInv, Room, Evicting
<1> QED BY <1>1, <1>3 DEF TableFits

\* Every step keeps the first.
LEMMA HoldingStep == HoldingInv /\ [Next]_vars => HoldingInv'
BY TypesStep, CallStep, ThreadStep, KeyStep, CountStep DEF HoldingInv

\* Every step keeps the second.
LEMMA WritingStep == HoldingInv /\ WritingInv /\ [Next]_vars => WritingInv'
BY NamesStep, WriteStep, AskStep, ProgressStep DEF HoldingInv, WritingInv

\* Every step of one caller keeps the third.
LEMMA TableFitsStep ==
  SingleCaller /\ HoldingInv /\ WritingInv /\ TableFits /\ [Next]_vars => TableFits'
BY HoldingStep, TableStep, CurrentStep, RoomStep DEF HoldingInv, WritingInv, TableFits

\* All callers, together.
LEMMA Written == Spec => [](HoldingInv /\ WritingInv)
<1>1. Init => HoldingInv /\ WritingInv
  BY InitHolding, InitWriting
<1>2. HoldingInv /\ WritingInv /\ [Next]_vars => (HoldingInv /\ WritingInv)'
  BY HoldingStep, WritingStep
<1> QED BY <1>1, <1>2, PTL DEF Spec

\* One caller.
LEMMA Fitted == ASSUME SingleCaller PROVE Spec => []TableFits
<1>1. Init => HoldingInv /\ WritingInv /\ TableFits
  BY InitHolding, InitWriting, InitTable
<1>2. HoldingInv /\ WritingInv /\ TableFits /\ [Next]_vars =>
        (HoldingInv /\ WritingInv /\ TableFits)'
  BY HoldingStep, WritingStep, TableFitsStep
<1> QED BY <1>1, <1>2, PTL DEF Spec

\* Every variable has its type, for any number of callers: no file has fewer streams
\* counted than are open, no caller removes, opens or reads what is not a file.
THEOREM CacheTypes == Spec => []TypeOK
<1>1. HoldingInv /\ WritingInv => TypeOK
  BY DEF HoldingInv
<1> QED BY <1>1, Written, PTL

\* For any number of callers, threads that share a file on disk fetch the same id,
\* none has open what is the file of another id, and what a thread says it has fetched
\* is there and is never more than the id has: tny_cached_file_new shares an <id>.tmp
\* that it finds, and never that of another id.
THEOREM OwnFiles == Spec => [](NamesInv /\ WriteInv)
<1>1. HoldingInv /\ WritingInv => NamesInv /\ WriteInv
  BY DEF WritingInv
<1> QED BY <1>1, Written, PTL

\* For any number of callers, all that a start takes for fetched is whole, wherever
\* the process ends and whatever fails, but for the ids of which two threads could
\* rename at the same time: async_fetch_stream renames after the last byte, or not.
THEOREM FoundAreWhole == Spec => []FoundWhole
<1>1. Init => HoldingInv /\ WritingInv /\ FoundInv
  <2>1. Init => FoundInv
    BY DEF Init, FoundInv, FoundWhole, RenamerInv, MayRename
  <2> QED BY <2>1, InitHolding, InitWriting
<1>2. HoldingInv /\ WritingInv /\ FoundInv /\ [Next]_vars =>
        (HoldingInv /\ WritingInv /\ FoundInv)'
  BY HoldingStep, WritingStep, FoundStep DEF HoldingInv, WritingInv
<1>3. FoundInv => FoundWhole
  BY DEF FoundInv
<1> QED BY <1>1, <1>2, <1>3, PTL DEF Spec

\* With one caller, what is in the table, is fetched and is not invalid is on disk
\* under its name and as large as the cache counts it, whatever threads are still
\* fetching or cleaning up after earlier files of the id.  What was fetched since the
\* start is counted as all that came; what the start found is counted as what was
\* there, and FoundAreWhole says when that is all.
THEOREM EntriesReadable == ASSUME SingleCaller PROVE Spec => []EntryReadable
<1>1. HoldingInv /\ WritingInv /\ TableFits => EntryReadable
  <2> SUFFICES ASSUME HoldingInv, WritingInv, TableFits, NEW f \in Entries, ~invalid[f],
                      fpc[f] \in {"none", "ended"}
               PROVE  /\ final[id[f]] # Nothing
                      /\ data[final[id[f]]] = expected[f] /\ fetched[f] = expected[f]
    BY DEF EntryReadable
  <2>1. Entries \in SUBSET Files
    BY EntriesFiles DEF HoldingInv
  <2>2. Fine(f) /\ Progress(f)
    BY <2>1 DEF TableFits, CurrentInv, Current, WritingInv, ProgressInv
  <2> QED BY <2>2 DEF Fine, Progress
<1> QED BY <1>1, Written, Fitted, PTL

\* With one caller, remove_old_files comes to the end of its list, and reads through
\* NULL, only if there is room for what was asked for.
THEOREM ExhaustedHasRoom == ASSUME SingleCaller PROVE Spec => []ExhaustedWithRoom
<1>1. HoldingInv /\ WritingInv /\ TableFits => ExhaustedWithRoom
  <2> SUFFICES ASSUME HoldingInv, TableFits, NEW c \in Callers, pc[c] = "dead",
        want[c] # Nothing
               PROVE  required[c] <= FreeSpace
    BY DEF ExhaustedWithRoom
  <2>1. Room(c) /\ want[c] \in Ids
    BY DEF HoldingInv, TableFits, RoomInv, TypeOK
  <2>2. Entries \ ToSet(old[c]) = Entries
    BY <2>1, NoneDistinct DEF Room
  <2> QED BY <2>1, <2>2, FreeSpaceIs DEF Room
<1> QED BY <1>1, Written, Fitted, PTL

\* Only tny_fs_stream_cache_get_stream goes on from where it enters the file.
LEMMA OnlyInsert ==
  ASSUME SingleCaller, TypeOK, [Next]_vars, NEW c \in Callers, pc[c] = "insert",
    pc'[c] = "choose"
  PROVE  Insert(c)
<1>1. ~ (UNCHANGED pc)
  OBVIOUS
<1>2. \A d \in Callers : ~Call(d)
  BY DEF SingleCaller, Call, Lookup, Filter, SetMaxSize
<1>3. \A f \in Files : ~FetchStep(f)
  BY <1>1, ChunkCases, RenameCases, DropCases DEF FetchStep, FetchEos, FetchEnd, FetchCheck
<1>4. \A s \in Streams : ~Read(s) /\ ~Close(s) /\ ~Seek(s)
  BY <1>1 DEF Read, Close, Seek
<1>5. \A size \in MaxSizes : ~Restart(size)
  BY DEF Restart
<1>6. ~ (UNCHANGED vars)
  BY <1>1 DEF vars
<1>7. CallerStep(c)
  BY <1>2, <1>3, <1>4, <1>5, <1>6 DEF SingleCaller, Next
<1> QED BY <1>7 DEF CallerStep, Fetch, List, Sort, Evict, Mark, Unlink, New, Choose, Open,
                    Register

\* With one caller, what tny_fs_stream_cache_get_stream enters fits into max_size
\* together with all that is in the table: nothing that happens between making room
\* and entering the file, no fetching thread and no closed stream, takes it away.
THEOREM InsertsFit == ASSUME SingleCaller PROVE Spec => InsertFits
<1>1. HoldingInv /\ TableFits /\ [Next]_vars =>
        \A c \in Callers : pc[c] = "insert" /\ pc'[c] = "choose" =>
          SumOf(Entries)' <= max_size
  <2> SUFFICES ASSUME HoldingInv, TableFits, [Next]_vars, NEW c \in Callers,
                      pc[c] = "insert", pc'[c] = "choose"
               PROVE  SumOf(Entries)' <= max_size
    OBVIOUS
  <2>1. Insert(c)
    BY OnlyInsert DEF HoldingInv
  <2>2. PICK x : x = cached_file[c]
    OBVIOUS
  <2>3. /\ cached_files' = [cached_files EXCEPT ![want[c]] = x]
             /\ UNCHANGED <<max_size, expected>>
        /\ cache_lock = Nothing
    BY <2>1, <2>2 DEF Insert, fileVars, sizeVars
  <2>4. /\ x \in Files /\ want[c] \in Ids /\ cached_files[want[c]] = Nothing
        /\ x \notin Entries /\ expected[x] <= max_size - Total(expected, Entries)
    BY <2>2, <2>3, NothingElse DEF HoldingInv, CallInv, Held, TableFits, TableInv, Missed,
       Misses,
                                   RoomInv, Room
  <2>5. /\ cached_files'[want[c]] = x
        /\ \A i \in Ids : i # want[c] => cached_files'[i] = cached_files[i]
    BY <2>3, <2>4 DEF HoldingInv, TypeOK
  <2>6. Entries' = Entries \cup {x}
    <3>1. Entries' \subseteq Entries \cup {x}
      BY <2>5 DEF Entries
    <3>2. Entries \subseteq Entries'
      BY <2>4, <2>5 DEF Entries
    <3>3. x \in Entries'
      BY <2>4, <2>5, NothingElse DEF Entries
    <3> QED BY <3>1, <3>2, <3>3
  <2>7. Entries \in SUBSET Files /\ max_size \in Int /\ expected \in [Files -> Nat]
    BY EntriesFiles DEF HoldingInv, TypeOK
  <2>8. Total(expected, Entries') = expected[x] + Total(expected, Entries)
    <3>1. IsFiniteSet(Entries') /\ x \in Entries' /\ \A y \in Entries' : expected[y] \in Nat
      <4>1. Entries' \in SUBSET Files
        BY <2>4, <2>6, <2>7
      <4> QED BY <2>6, <2>7, <4>1, SizesNat
    <3>2. Total(expected, Entries') = expected[x] + Total(expected, Entries' \ {x})
      BY <3>1, TotalAdd
    <3>3. Entries' \ {x} = Entries
      BY <2>4, <2>6
    <3> QED BY <3>2, <3>3
  <2>9. Total(expected, Entries) \in Nat /\ expected[x] \in Nat
    BY <2>4, <2>7, SizesNat
  <2>10. SumOf(Entries)' = Total(expected, Entries')
    BY <2>3, SumOfNext
  <2> QED BY <2>4, <2>7, <2>8, <2>9, <2>10
<1>2. HoldingInv /\ TableFits /\ [Next]_vars =>
        [\A c \in Callers : pc[c] = "insert" /\ pc'[c] = "choose" =>
             SumOf(Entries)' <= max_size]_vars
  BY <1>1
<1>3. HoldingInv /\ WritingInv => HoldingInv
  OBVIOUS
<1> QED BY <1>2, <1>3, Written, Fitted, PTL DEF Spec, InsertFits
=============================================================================
