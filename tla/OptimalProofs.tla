---------------------------- MODULE OptimalProofs ----------------------------
(***************************************************************************)
(* Theorems about the page faults that Paging counts: no choice of pages   *)
(* to replace has fewer than its optimal algorithm.                        *)
(***************************************************************************)
EXTENDS PagingProofs

-----------------------------------------------------------------------------
(* Sets of pages that fit into the frames.                                 *)

Memories ==
  {S \in SUBSET Pages : IsFiniteSet(S) /\ Cardinality(S) <= NUMBER_OF_FRAMES}
Full == {S \in Memories : Cardinality(S) = NUMBER_OF_FRAMES}

(* The memory S with p in the place of q.                                  *)
Swap(S, q, p) == (S \ {q}) \cup {p}

LEMMA EmptyMemory == {} \in Memories
BY FS_EmptySet, PagingAssumption DEF Memories

LEMMA MemoryFacts ==
  ASSUME NEW S \in Memories, NEW p \in Pages, p \notin S
  PROVE  /\ Cardinality(S) \in Nat
         /\ S \notin Full => /\ Cardinality(S) < NUMBER_OF_FRAMES
                             /\ S \cup {p} \in Memories
         /\ S \in Full => S # {} /\ \A q \in S : Swap(S, q, p) \in Full
<1>1. /\ S \in SUBSET Pages /\ IsFiniteSet(S) /\ Cardinality(S) \in Nat
      /\ Cardinality(S) <= NUMBER_OF_FRAMES
  BY FS_CardinalityType DEF Memories
<1>2. ASSUME S \notin Full
      PROVE  Cardinality(S) < NUMBER_OF_FRAMES /\ S \cup {p} \in Memories
  <2>1. Cardinality(S) < NUMBER_OF_FRAMES
    BY <1>1, <1>2, PagingAssumption DEF Full
  <2>2. IsFiniteSet(S \cup {p}) /\ Cardinality(S \cup {p}) = Cardinality(S) + 1
    BY <1>1, FS_AddElement
  <2>. QED BY <1>1, <2>1, <2>2, PagingAssumption DEF Memories
<1>3. ASSUME S \in Full PROVE S # {}
  BY <1>3, FS_EmptySet, PagingAssumption DEF Full
<1>4. ASSUME S \in Full, NEW q \in S PROVE Swap(S, q, p) \in Full
  <2>. DEFINE R == S \ {q}
  <2>1. IsFiniteSet(R) /\ Cardinality(R) = NUMBER_OF_FRAMES - 1
    BY <1>1, <1>4, FS_RemoveElement DEF Full
  <2>2. p \notin R /\ R \in SUBSET Pages
    BY <1>1
  <2>. HIDE DEF R
  <2>3. /\ IsFiniteSet(R \cup {p})
        /\ Cardinality(R \cup {p}) = NUMBER_OF_FRAMES - 1 + 1
    BY <2>1, <2>2, FS_AddElement
  <2>4. R \cup {p} \in Full
    BY <2>2, <2>3, PagingAssumption DEF Memories, Full
  <2>. QED BY <2>4 DEF R, Swap
<1>. QED BY <1>1, <1>2, <1>3, <1>4

-----------------------------------------------------------------------------
(* One reference.                                                          *)

(* The fault for a full memory gives up the page that is best to give up.  *)
LEMMA BestVictim ==
  ASSUME NEW p \in Pages, NEW later, \A S \in Memories : later[S] \in Nat,
         NEW S \in Full, p \notin S
  PROVE  /\ FaultsFrom(p, later)[S] \in Nat
         /\ \A q \in S : FaultsFrom(p, later)[S] <= 1 + later[Swap(S, q, p)]
         /\ \E q \in S : FaultsFrom(p, later)[S] = 1 + later[Swap(S, q, p)]
<1>. DEFINE v == FaultsFrom(p, later)[S]
            C == {later[Swap(S, q, p)] : q \in S}
<1>1. S # {} /\ \A q \in S : Swap(S, q, p) \in Memories
  BY MemoryFacts DEF Full
<1>2. C \in SUBSET Nat /\ C # {}
  BY <1>1
<1>3. v = 1 + Min(C)
  <2>1. ~(Cardinality(S) < NUMBER_OF_FRAMES)
    BY PagingAssumption DEF Full
  <2>. QED BY <2>1 DEF FaultsFrom, Full, Memories, Swap
<1>. HIDE DEF C, v
<1>4. Min(C) \in C /\ \A n \in C : Min(C) <= n
  BY <1>2, MinFacts
<1>5. v \in Nat /\ \A n \in C : v <= 1 + n
  <2>1. Min(C) \in Nat /\ \A n \in C : n \in Nat
    BY <1>2, <1>4
  <2>. QED BY <1>3, <1>4, <2>1
<1>6. PICK q \in S : Min(C) = later[Swap(S, q, p)]
  BY <1>4 DEF C
<1>7. v = 1 + later[Swap(S, q, p)]
  BY <1>3, <1>6
<1>8. \A r \in S : v <= 1 + later[Swap(S, r, p)]
  BY <1>5 DEF C
<1>. QED BY <1>5, <1>7, <1>8 DEF v

LEMMA FaultsFromFacts ==
  ASSUME NEW p \in Pages, NEW later, \A S \in Memories : later[S] \in Nat,
         NEW S \in Memories
  PROVE  LET v == FaultsFrom(p, later)[S] IN
         /\ v \in Nat
         /\ p \in S => v = later[S]
         /\ p \notin S /\ S \notin Full =>
              S \cup {p} \in Memories /\ v = 1 + later[S \cup {p}]
         /\ p \notin S /\ S \in Full =>
              \A q \in S : v <= 1 + later[Swap(S, q, p)]
<1>. DEFINE v == FaultsFrom(p, later)[S]
<1>1. /\ p \in S => v = later[S]
      /\ p \notin S /\ Cardinality(S) < NUMBER_OF_FRAMES =>
           v = 1 + later[S \cup {p}]
  BY DEF FaultsFrom, Memories
<1>2. CASE p \in S
  BY <1>1, <1>2
<1>3. CASE p \notin S /\ S \notin Full
  <2>1. Cardinality(S) < NUMBER_OF_FRAMES /\ S \cup {p} \in Memories
    BY <1>3, MemoryFacts
  <2>2. later[S \cup {p}] \in Nat
    BY <2>1
  <2>. QED BY <1>1, <1>3, <2>1, <2>2
<1>4. CASE p \notin S /\ S \in Full
  <2>. HIDE DEF v
  <2>. QED BY <1>4, BestVictim DEF v
<1>. QED BY <1>2, <1>3, <1>4

(* Two memories that differ in one page differ in one fault at most.       *)
(* The one that has x has no more faults if y, which it has not, is not    *)
(* referenced before x.                                                    *)
LEMMA FaultsFromSwap ==
  ASSUME NEW p \in Pages, NEW later, \A S \in Memories : later[S] \in Nat,
         \A S \in Full : \A y \in S, x \in Pages \ S :
           later[Swap(S, y, x)] <= later[S] + 1,
         NEW S \in Full, NEW y \in S, NEW x \in Pages \ S
  PROVE  LET v == FaultsFrom(p, later) IN
         /\ v[Swap(S, y, x)] <= v[S] + 1
         /\ /\ p # y
            /\ \/ p = x
               \/ \A R \in Full : y \in R /\ x \notin R =>
                    later[Swap(R, y, x)] <= later[R]
            => v[Swap(S, y, x)] <= v[S]
<1>. DEFINE v == FaultsFrom(p, later)
            X == Swap(S, y, x)
            Sooner(R) == later[Swap(R, y, x)] <= later[R]
<1>1. Full \subseteq Memories
  BY DEF Full
<1>2. X \in Full
  BY <1>1, MemoryFacts
<1>3. v[S] \in Nat /\ v[X] \in Nat /\ later[S] \in Nat /\ later[X] \in Nat
  BY <1>1, <1>2, FaultsFromFacts
<1>4. x \in X /\ y \notin X /\ Swap(X, x, y) = S
  BY DEF Swap
<1>5. CASE p \in S /\ p # y
  <2>1. v[S] = later[S] /\ v[X] = later[X]
    <3>1. p \in X
      BY <1>5 DEF Swap
    <3>. QED BY <1>1, <1>2, <1>5, <3>1, FaultsFromFacts
  <2>2. later[X] <= later[S] + 1
    OBVIOUS
  <2>3. p # x
    BY <1>5
  <2>. QED BY <1>3, <2>1, <2>2, <2>3
<1>6. CASE p = y
  <2>1. v[S] = later[S]
    BY <1>1, <1>6, FaultsFromFacts
  <2>2. v[X] <= 1 + later[Swap(X, x, y)]
    BY <1>1, <1>2, <1>4, <1>6, FaultsFromFacts
  <2>. QED BY <1>3, <1>4, <1>6, <2>1, <2>2
<1>7. CASE p = x
  <2>1. v[X] = later[X]
    BY <1>1, <1>2, <1>4, <1>7, FaultsFromFacts
  <2>2. PICK q \in S : v[S] = 1 + later[Swap(S, q, x)]
    BY <1>7, BestVictim
  <2>3. later[X] <= later[Swap(S, q, x)] + 1
    <3>. DEFINE R == Swap(S, q, x)
    <3>1. R \in Full /\ later[R] \in Nat
      BY <1>1, MemoryFacts
    <3>2. CASE q = y
      BY <1>3, <3>2
    <3>3. CASE q # y
      <4>1. y \in R /\ q \notin R /\ q \in Pages /\ Swap(R, y, q) = X
        BY <1>1, <3>3 DEF Swap, Memories
      <4>. QED BY <3>1, <4>1
    <3>. QED BY <3>2, <3>3
  <2>4. later[Swap(S, q, x)] \in Nat
    BY <1>1, MemoryFacts
  <2>. QED BY <1>3, <2>1, <2>2, <2>3, <2>4
<1>8. CASE p \notin S /\ p # x
  <2>1. PICK q \in S : v[S] = 1 + later[Swap(S, q, p)]
    BY <1>8, BestVictim
  <2>. DEFINE R == Swap(S, q, p)
  <2>2. R \in Full /\ later[R] \in Nat
    BY <1>1, <1>8, MemoryFacts
  <2>3. p \notin X
    BY <1>8 DEF Swap
  <2>4. CASE q = y
    <3>1. Swap(X, x, p) = R
      BY <2>4 DEF Swap
    <3>2. v[X] <= 1 + later[Swap(X, x, p)]
      BY <1>1, <1>2, <1>4, <2>3, FaultsFromFacts
    <3>. QED BY <1>3, <2>1, <2>2, <3>1, <3>2
  <2>5. CASE q # y
    <3>1. /\ y \in R /\ x \notin R /\ q \in X
          /\ Swap(X, q, p) = Swap(R, y, x)
      BY <1>8, <2>5 DEF Swap
    <3>2. v[X] <= 1 + later[Swap(X, q, p)]
      BY <1>1, <1>2, <2>3, <3>1, FaultsFromFacts
    <3>3. Swap(R, y, x) \in Full
      BY <1>1, <2>2, <3>1, MemoryFacts
    <3>4. later[Swap(R, y, x)] \in Nat
      BY <1>1, <3>3
    <3>5. later[Swap(R, y, x)] <= later[R] + 1
      BY <2>2, <3>1
    <3>6. v[S] = 1 + later[R] /\ v[X] <= 1 + later[Swap(R, y, x)]
      BY <2>1, <3>1, <3>2
    <3>. HIDE DEF R
    <3>. QED BY <1>3, <1>8, <2>2, <3>1, <3>4, <3>5, <3>6
  <2>. QED BY <2>4, <2>5
<1>. QED BY <1>5, <1>6, <1>7, <1>8

-----------------------------------------------------------------------------
(* All references.                                                         *)

(* The recursive definition of FewestFaults has a solution, as that of     *)
(* QueueAfter.                                                             *)
LEMMA FewestIsDefined ==
  ASSUME addressList \in Seq(Pages)
  PROVE  /\ FewestFaults[0] = [S \in SUBSET Pages |-> 0]
         /\ \A m \in 1 .. Len(addressList) :
              FewestFaults[m] = FaultsFrom(addressList[Len(addressList) + 1 - m],
                                           FewestFaults[m - 1])
<1>. DEFINE none == [S \in SUBSET Pages |-> 0]
            e(v, m) == FaultsFrom(addressList[Len(addressList) + 1 - m], v)
            Solves(g, n) ==
              g = [m \in 0 .. n |-> IF m = 0 THEN none ELSE e(g[m - 1], m)]
            S == {n \in Nat : ~ \E g : Solves(g, n)}
<1>. HIDE DEF e, none
<1>1. S = {}
  <2>. SUFFICES ASSUME S # {} PROVE FALSE
    OBVIOUS
  <2>1. PICK n \in S : \A k \in S : n <= k
    BY LeastElement
  <2>2. n # 0
    <3>. DEFINE h == [i \in 0 .. 0 |-> none]
    <3>1. \A i \in 0 .. 0 : none = IF i = 0 THEN none ELSE e(h[i - 1], i)
      OBVIOUS
    <3>2. Solves(h, 0)
      BY <3>1, Zenon
    <3>. QED BY <2>1, <3>2
  <2>3. n \in Nat /\ n - 1 \in Nat /\ n - 1 \notin S
    <3>1. n \in Nat /\ n - 1 \in Nat
      BY <2>1, <2>2
    <3>. HIDE DEF S
    <3>. QED BY <2>1, <3>1
  <2>4. PICK g : Solves(g, n - 1)
    BY <2>3
  <2>. DEFINE h == [i \in 0 .. n |-> IF i < n THEN g[i] ELSE e(g[n - 1], n)]
  <2>5. Solves(h, n)
    <3>1. ASSUME NEW i \in 0 .. n
          PROVE  h[i] = IF i = 0 THEN none ELSE e(h[i - 1], i)
      <4>1. i < n => g[i] = IF i = 0 THEN none ELSE e(g[i - 1], i)
        BY <2>3, <2>4
      <4>2. i # 0 => i - 1 \in 0 .. n /\ i - 1 < n
        BY <2>3
      <4>. QED BY <2>2, <2>3, <4>1, <4>2
    <3>. QED BY <3>1
  <2>. QED BY <2>1, <2>5
<1>. DEFINE len == Len(addressList)
<1>2. \E g : Solves(g, len)
  BY <1>1
<1>3. Solves(FewestFaults, len)
  <2>. DEFINE Eq(g) ==
         g = [left \in 0 .. len |->
                IF left = 0 THEN [R \in SUBSET Pages |-> 0]
                ELSE FaultsFrom(addressList[len + 1 - left], g[left - 1])]
  <2>1. \E g : Eq(g)
    BY <1>2, Zenon DEF e, none
  <2>2. FewestFaults = CHOOSE g : Eq(g)
    BY Zenon DEF FewestFaults
  <2>. HIDE DEF Eq
  <2>3. Eq(FewestFaults)
    BY <2>1, <2>2, Zenon
  <2>. QED BY <2>3, Zenon DEF Eq, e, none
<1>4. \A m \in 0 .. len :
        FewestFaults[m] = IF m = 0 THEN none ELSE e(FewestFaults[m - 1], m)
  <2>. DEFINE V == FewestFaults
  <2>. HIDE DEF V
  <2>1. V = [m \in 0 .. len |-> IF m = 0 THEN none ELSE e(V[m - 1], m)]
    BY <1>3, Zenon DEF V
  <2>. QED BY <2>1, Zenon DEF V
<1>5. 0 \in 0 .. len /\ \A m \in 1 .. len : m \in 0 .. len /\ m # 0
  OBVIOUS
<1>. HIDE DEF len
<1>6. FewestFaults[0] = none
  BY <1>4, <1>5
<1>7. \A m \in 1 .. len : FewestFaults[m] = e(FewestFaults[m - 1], m)
  BY <1>4, <1>5
<1>. QED BY <1>6, <1>7 DEF len, e, none

(* The reference with which the last m references begin.                   *)
Reference(m) == addressList[Len(addressList) + 1 - m]

LEMMA FewestStep ==
  ASSUME addressList \in Seq(Pages), NEW m \in 1 .. Len(addressList)
  PROVE  /\ Reference(m) \in Pages
         /\ m - 1 \in 0 .. Len(addressList)
         /\ FewestFaults[m] = FaultsFrom(Reference(m), FewestFaults[m - 1])
<1>1. Len(addressList) + 1 - m \in 1 .. Len(addressList)
  OBVIOUS
<1>. QED BY <1>1, FewestIsDefined DEF Reference

LEMMA FewestIsNumber ==
  ASSUME addressList \in Seq(Pages)
  PROVE  \A m \in 0 .. Len(addressList) : \A S \in Memories :
           FewestFaults[m][S] \in Nat
<1>. DEFINE Bad == {m \in 0 .. Len(addressList) :
                      ~ \A S \in Memories : FewestFaults[m][S] \in Nat}
<1>. SUFFICES ASSUME Bad # {} PROVE FALSE
  OBVIOUS
<1>1. PICK m \in Bad : \A k \in Bad : m <= k
  <2>1. Bad \in SUBSET Nat
    OBVIOUS
  <2>. HIDE DEF Bad
  <2>. QED BY <2>1, LeastElement
<1>2. m # 0
  BY <1>1, FewestIsDefined DEF Memories
<1>3. m \in 1 .. Len(addressList)
  BY <1>1, <1>2
<1>4. \A S \in Memories : FewestFaults[m - 1][S] \in Nat
  BY <1>1, <1>3
<1>5. FewestFaults[m] = FaultsFrom(Reference(m), FewestFaults[m - 1])
      /\ Reference(m) \in Pages
  BY <1>3, FewestStep
<1>6. \A S \in Memories : FewestFaults[m][S] \in Nat
  BY <1>4, <1>5, FaultsFromFacts
<1>. QED BY <1>1, <1>6

(* In the last m references, y does not come before x.                     *)
Sooner(m, x, y) ==
  \A j \in Len(addressList) + 1 - m .. Len(addressList) :
    addressList[j] = y =>
      \E i \in Len(addressList) + 1 - m .. j : addressList[i] = x

LEMMA SoonerStep ==
  ASSUME addressList \in Seq(Pages), NEW m \in 1 .. Len(addressList),
         NEW x, NEW y, x # y, Sooner(m, x, y)
  PROVE  Reference(m) # y /\ (Reference(m) = x \/ Sooner(m - 1, x, y))
<1>. DEFINE len == Len(addressList)
            b == len + 1 - m
<1>1. len \in Nat /\ b \in 1 .. len /\ len + 1 - (m - 1) = b + 1
  OBVIOUS
<1>2. \A j \in b .. len : addressList[j] = y =>
        \E i \in b .. j : addressList[i] = x
  BY DEF Sooner
<1>3. Reference(m) = addressList[b]
  BY DEF Reference
<1>. HIDE DEF b, len
<1>4. addressList[b] # y
  <2>1. b \in b .. len /\ \A i \in b .. b : i = b
    BY <1>1
  <2>. QED BY <1>2, <2>1
<1>5. ASSUME addressList[b] # x,
             NEW j \in b + 1 .. len, addressList[j] = y
      PROVE  \E i \in b + 1 .. j : addressList[i] = x
  <2>1. PICK i \in b .. j : addressList[i] = x
    BY <1>1, <1>2, <1>5
  <2>2. i \in b + 1 .. j
    BY <1>1, <1>5, <2>1
  <2>. QED BY <2>1, <2>2
<1>6. addressList[b] = x \/ Sooner(m - 1, x, y)
  BY <1>1, <1>5 DEF Sooner, len
<1>. QED BY <1>3, <1>4, <1>6

(* The exchange of one page costs one fault at most, and none for a page   *)
(* that is referenced sooner.                                              *)
LEMMA Exchange ==
  ASSUME addressList \in Seq(Pages)
  PROVE  \A m \in 0 .. Len(addressList) :
           \A S \in Full : \A y \in S, x \in Pages \ S :
             LET v == FewestFaults[m] IN
             /\ v[Swap(S, y, x)] <= v[S] + 1
             /\ Sooner(m, x, y) => v[Swap(S, y, x)] <= v[S]
<1>. DEFINE Good(m) ==
              \A S \in Full : \A y \in S, x \in Pages \ S :
                /\ FewestFaults[m][Swap(S, y, x)] <= FewestFaults[m][S] + 1
                /\ Sooner(m, x, y) =>
                     FewestFaults[m][Swap(S, y, x)] <= FewestFaults[m][S]
            Bad == {m \in 0 .. Len(addressList) : ~Good(m)}
<1>. SUFFICES ASSUME Bad # {} PROVE FALSE
  OBVIOUS
<1>. HIDE DEF Good
<1>1. PICK m \in Bad : \A k \in Bad : m <= k
  <2>1. Bad \in SUBSET Nat
    OBVIOUS
  <2>. HIDE DEF Bad
  <2>. QED BY <2>1, LeastElement
<1>2. m # 0
  <2>1. ASSUME NEW S \in Full, NEW y \in S, NEW x \in Pages \ S
        PROVE  FewestFaults[0][Swap(S, y, x)] = 0 /\ FewestFaults[0][S] = 0
    <3>1. S \in SUBSET Pages /\ Swap(S, y, x) \in SUBSET Pages
      BY DEF Full, Memories, Swap
    <3>. QED BY <3>1, FewestIsDefined
  <2>2. Good(0)
    BY <2>1 DEF Good
  <2>. QED BY <1>1, <2>2
<1>3. m \in 1 .. Len(addressList) /\ m - 1 \in 0 .. Len(addressList)
      /\ m - 1 \notin Bad
  BY <1>1, <1>2
<1>. DEFINE p == Reference(m)
            later == FewestFaults[m - 1]
<1>4. p \in Pages /\ FewestFaults[m] = FaultsFrom(p, later)
  BY <1>3, FewestStep
<1>5. \A S \in Memories : later[S] \in Nat
  BY <1>3, FewestIsNumber
<1>6. Good(m - 1)
  BY <1>3
<1>7. \A S \in Full : \A y \in S, x \in Pages \ S :
        /\ later[Swap(S, y, x)] <= later[S] + 1
        /\ Sooner(m - 1, x, y) => later[Swap(S, y, x)] <= later[S]
  BY <1>6 DEF Good
<1>. HIDE DEF p, later
<1>8. ASSUME NEW S \in Full, NEW y \in S, NEW x \in Pages \ S
      PROVE  LET v == FewestFaults[m] IN
             /\ v[Swap(S, y, x)] <= v[S] + 1
             /\ Sooner(m, x, y) => v[Swap(S, y, x)] <= v[S]
  <2>. DEFINE v == FaultsFrom(p, later)
  <2>1. /\ v[Swap(S, y, x)] <= v[S] + 1
        /\ /\ p # y
           /\ \/ p = x
              \/ \A R \in Full : y \in R /\ x \notin R =>
                   later[Swap(R, y, x)] <= later[R]
           => v[Swap(S, y, x)] <= v[S]
    BY <1>4, <1>5, <1>7, FaultsFromSwap
  <2>2. Sooner(m, x, y) => p # y /\ (p = x \/ Sooner(m - 1, x, y))
    BY <1>3, SoonerStep DEF p
  <2>3. Sooner(m - 1, x, y) =>
          \A R \in Full : y \in R /\ x \notin R =>
            later[Swap(R, y, x)] <= later[R]
    BY <1>7
  <2>. QED BY <1>4, <2>1, <2>2, <2>3
<1>9. Good(m)
  BY <1>8 DEF Good
<1>. QED BY <1>1, <1>9

-----------------------------------------------------------------------------
(* The frames.                                                             *)

(* No page is in two frames.                                               *)
TLBOnce == \A f, g \in Frames : TLB[f] = TLB[g] /\ TLB[f] # NoPage => f = g

(* The loaded pages fit into the frames, and fill them when no frame is    *)
(* empty.                                                                  *)
LEMMA LoadedFacts ==
  ASSUME TypeOK, TLBOnce
  PROVE  /\ Loaded \in Memories
         /\ (findEmptyFrame = NOT_FOUND) <=> Loaded \in Full
<1>. DEFINE O == {f \in Frames : TLB[f] # NoPage}
<1>1. TLB \in [Frames -> Pages \cup {NoPage}]
  BY DEF TypeOK
<1>2. ExistsBijection(O, Loaded)
  <2>. DEFINE t == [f \in O |-> TLB[f]]
  <2>1. t \in [O -> Loaded]
    BY <1>1 DEF Loaded
  <2>2. \A f, g \in O : t[f] = t[g] => f = g
    BY DEF TLBOnce
  <2>3. \A p \in Loaded : \E f \in O : t[f] = p
    BY <1>1 DEF Loaded
  <2>. HIDE DEF t, O
  <2>4. t \in Bijection(O, Loaded)
    BY <2>1, <2>2, <2>3 DEF Bijection, Injection, Surjection, IsInjective
  <2>. QED BY <2>4 DEF ExistsBijection
<1>3. O \in SUBSET Frames
  OBVIOUS
<1>4. findEmptyFrame = NOT_FOUND <=> O = Frames
  <2>. DEFINE E == {f \in Frames : TLB[f] = NoPage}
  <2>1. findEmptyFrame = NOT_FOUND <=> E = {}
    BY FirstOfFacts DEF findEmptyFrame
  <2>. QED BY <2>1
<1>. HIDE DEF O
<1>5. /\ IsFiniteSet(O) /\ Cardinality(O) <= NUMBER_OF_FRAMES
      /\ Cardinality(O) = NUMBER_OF_FRAMES <=> O = Frames
  BY <1>3, FramesFacts, FS_Subset
<1>6. IsFiniteSet(Loaded) /\ Cardinality(Loaded) = Cardinality(O)
  BY <1>2, <1>5, FS_Bijection
<1>7. Loaded \in SUBSET Pages
  BY <1>1 DEF Loaded
<1>. QED BY <1>4, <1>5, <1>6, <1>7 DEF Memories, Full

(* What a miss does to the loaded pages when the load does not fail.       *)
LEMMA MissSwaps ==
  ASSUME TypeOK, FrameHoldsPage, TLBOnce, page \in Pages, ~Hit,
         NEW frame \in Frames, Load(frame), failures' = 0,
         findEmptyFrame # NOT_FOUND => frame = findEmptyFrame
  PROVE  /\ page \notin Loaded /\ TLBOnce'
         /\ findEmptyFrame # NOT_FOUND =>
              Loaded \notin Full /\ Loaded' = Loaded \cup {page}
         /\ findEmptyFrame = NOT_FOUND =>
              /\ Loaded \in Full /\ TLB[frame] \in Loaded
              /\ Loaded' = Swap(Loaded, TLB[frame], page)
<1>. DEFINE p == page
            e == findEmptyFrame
<1>1. /\ TLB \in [Frames -> Pages \cup {NoPage}] /\ failures \in Nat
      /\ p \in Pages /\ p # NoPage
  BY PagingAssumption DEF TypeOK
<1>2. TLB' = [TLB EXCEPT ![frame] = p]
  BY <1>1, LoadFacts
<1>3. \A f \in Frames : TLB[f] # p
  <2>1. {f \in Frames : TLB[f] = p} = {}
    BY FirstOfFacts DEF Hit, is_PageLoaded
  <2>. QED BY <2>1
<1>4. p \notin Loaded
  BY <1>3 DEF Loaded
<1>5. e = NOT_FOUND <=> Loaded \in Full
  BY LoadedFacts
<1>6. IF e = NOT_FOUND THEN \A f \in Frames : TLB[f] # NoPage
                       ELSE frame = e /\ TLB[e] = NoPage
  BY FirstOfFacts DEF findEmptyFrame
<1>. HIDE DEF p, e
<1>7. TLBOnce'
  BY <1>1, <1>2, <1>3 DEF TLBOnce
<1>8. Loaded' = {TLB'[f] : f \in Frames} \ {NoPage}
  BY DEF Loaded
<1>9. CASE e # NOT_FOUND
  <2>1. Loaded' = Loaded \cup {p}
    BY <1>1, <1>2, <1>6, <1>8, <1>9 DEF Loaded
  <2>. QED BY <1>4, <1>5, <1>7, <1>9, <2>1 DEF p, e
<1>10. CASE e = NOT_FOUND
  <2>1. TLB[frame] \in Loaded
    BY <1>6, <1>10 DEF Loaded
  <2>2. \A f \in Frames : f # frame => TLB[f] # TLB[frame]
    BY <1>6, <1>10 DEF TLBOnce
  <2>3. Loaded' = Swap(Loaded, TLB[frame], p)
    BY <1>1, <1>2, <1>6, <1>8, <1>10, <2>2 DEF Loaded, Swap
  <2>. QED BY <1>4, <1>5, <1>7, <1>10, <2>1, <2>3 DEF p, e
<1>. QED BY <1>9, <1>10

(* The page in the frame that the optimal algorithm picks is not used      *)
(* again before all other pages are.                                       *)
LEMMA FurthestFacts ==
  ASSUME addressList \in Seq(Pages), PC \in 1 .. Len(addressList)
  PROVE  /\ Furthest \in Frames
         /\ \A g \in Frames :
              Sooner(Len(addressList) - PC, TLB[g], TLB[Furthest])
<1>. DEFINE len == Len(addressList)
            unused == {f \in Frames : NextUse(f) = 0}
            last == {f \in Frames : \A g \in Frames : NextUse(g) <= NextUse(f)}
<1>1. len \in Nat /\ PC \in Nat /\ len + 1 - (len - PC) = PC + 1
  OBVIOUS
<1>2. Frames \subseteq Nat /\ 0 \in Frames
  BY PagingAssumption DEF Frames
<1>3. \A f \in Frames : Uses(f) = {j \in PC + 1 .. len : addressList[j] = TLB[f]}
  BY DEF Uses
<1>4. ASSUME NEW f \in Frames
      PROVE  /\ NextUse(f) \in 0 .. len
             /\ NextUse(f) = 0 => Uses(f) = {}
             /\ NextUse(f) # 0 =>
                  NextUse(f) \in Uses(f) /\ \A j \in Uses(f) : NextUse(f) <= j
  <2>1. Uses(f) \in SUBSET Nat /\ Uses(f) \in SUBSET (PC + 1 .. len)
    BY <1>1, <1>3
  <2>. DEFINE U == Uses(f)
  <2>2. NextUse(f) = IF U = {} THEN 0 ELSE Min(U)
    BY DEF NextUse
  <2>. HIDE DEF U
  <2>3. U # {} => Min(U) \in U /\ \A j \in U : Min(U) <= j
    BY <2>1, MinFacts DEF U
  <2>. QED BY <1>1, <2>1, <2>2, <2>3 DEF U
<1>5. Furthest = IF unused # {} THEN Min(unused) ELSE Min(last)
  BY DEF Furthest
<1>6. CASE unused # {}
  <2>1. Furthest \in unused
    BY <1>2, <1>5, <1>6, MinFacts
  <2>2. Uses(Furthest) = {}
    BY <1>4, <2>1
  <2>3. \A j \in PC + 1 .. len : addressList[j] # TLB[Furthest]
    BY <1>3, <2>1, <2>2
  <2>. QED BY <1>1, <2>1, <2>3 DEF Sooner
<1>7. CASE unused = {}
  <2>. DEFINE D == {len - NextUse(f) : f \in Frames}
  <2>1. D \in SUBSET Nat /\ D # {}
    BY <1>1, <1>2, <1>4
  <2>2. PICK d \in D : \A n \in D : d <= n
    <3>. HIDE DEF D
    <3>. QED BY <2>1, LeastElement
  <2>3. PICK f \in Frames : d = len - NextUse(f)
    BY <2>2
  <2>4. ASSUME NEW g \in Frames PROVE NextUse(g) <= NextUse(f)
    <3>1. len - NextUse(f) <= len - NextUse(g)
      BY <2>2, <2>3
    <3>2. NextUse(f) \in Nat /\ NextUse(g) \in Nat
      BY <1>4
    <3>. QED BY <1>1, <3>1, <3>2
  <2>5. last # {}
    BY <2>4
  <2>6. Furthest \in last
    <3>1. last \in SUBSET Nat
      BY <1>2
    <3>. HIDE DEF last
    <3>. QED BY <1>5, <1>7, <2>5, <3>1, MinFacts
  <2>7. ASSUME NEW g \in Frames,
               NEW j \in PC + 1 .. len, addressList[j] = TLB[Furthest]
        PROVE  \E i \in PC + 1 .. j : addressList[i] = TLB[g]
    <3>1. j \in Uses(Furthest)
      BY <1>3, <2>6, <2>7
    <3>2. /\ NextUse(g) \in Uses(g) /\ NextUse(g) \in Nat
          /\ NextUse(Furthest) \in Nat /\ NextUse(Furthest) <= j
      BY <1>4, <1>7, <2>6, <3>1
    <3>3. NextUse(g) <= NextUse(Furthest)
      BY <2>6
    <3>4. NextUse(g) \in PC + 1 .. len /\ addressList[NextUse(g)] = TLB[g]
      BY <1>3, <3>2
    <3>5. NextUse(g) \in PC + 1 .. j
      BY <1>1, <3>2, <3>3, <3>4
    <3>. QED BY <3>4, <3>5
  <2>. QED BY <1>1, <2>6, <2>7 DEF Sooner
<1>. QED BY <1>6, <1>7

-----------------------------------------------------------------------------
(* The faults of a pass.                                                   *)

(* The fewest faults with which the references that are left can be served *)
(* from here, and those for the whole reference string.                    *)
FewestLeft == FewestFaults[Len(addressList) + 1 - PC][Loaded]
FewestInAll == FewestFaults[Len(addressList)][{}]

LEMMA FewestStays ==
  ASSUME addressList' = addressList
  PROVE  FewestFaults' = FewestFaults
BY DEF FewestFaults, FaultsFrom

LEMMA FewestLeftFacts ==
  ASSUME TypeOK, TLBOnce
  PROVE  FewestLeft \in Nat /\ FewestInAll \in Nat
<1>1. /\ Len(addressList) + 1 - PC \in 0 .. Len(addressList)
      /\ Len(addressList) \in 0 .. Len(addressList)
  BY PagingAssumption DEF TypeOK
<1>2. addressList \in Seq(Pages) /\ Loaded \in Memories
  BY LoadedFacts DEF TypeOK
<1>. QED BY <1>1, <1>2, EmptyMemory, FewestIsNumber
         DEF FewestLeft, FewestInAll

LEMMA FewestLeftNext == (TypeOK /\ TLBOnce => FewestLeft \in Nat)'
<1>1. TypeOK /\ TLBOnce => FewestLeft \in Nat
  BY FewestLeftFacts
<1>. QED BY <1>1, PTL

(* The fewest faults for the references after this one.                    *)
Later == FewestFaults[Len(addressList) - PC]

(* A pass serves the first of these references.                            *)
LEMMA PassServes ==
  ASSUME TypeOK, FaultsCounted, NEW a \in Algorithms, Pass(a)
  PROVE  /\ PC \in 1 .. Len(addressList)
         /\ Len(addressList) - PC \in 0 .. Len(addressList)
         /\ addressList \in Seq(Pages)
         /\ \A S \in Memories : Later[S] \in Nat
         /\ FewestLeft = FaultsFrom(page, Later)[Loaded]
         /\ FewestLeft' = Later[Loaded']
         /\ FewestInAll' = FewestInAll
<1>. DEFINE len == Len(addressList)
            m == len + 1 - PC
<1>1. /\ addressList' = addressList /\ PC' = PC + 1
      /\ addressList \in Seq(Pages)
  BY PassFacts DEF TypeOK
<1>2. /\ PC \in 1 .. len /\ len \in Nat /\ m \in 1 .. len
      /\ m - 1 \in 0 .. len /\ m - 1 = len - PC
      /\ len + 1 - m = PC /\ len + 1 - (PC + 1) = m - 1
  <2>1. PC <= len /\ PC \in 1 .. len + 1 /\ len \in Nat
    BY PagingAssumption DEF Pass, TypeOK
  <2>. QED BY <2>1
<1>3. FewestFaults' = FewestFaults
  BY <1>1, FewestStays
<1>4. FewestFaults[m] = FaultsFrom(addressList[PC], FewestFaults[m - 1])
  BY <1>1, <1>2, FewestStep DEF Reference
<1>5. FewestLeft = FaultsFrom(page, Later)[Loaded]
  BY <1>2, <1>4 DEF FewestLeft, Later, page
<1>6. FewestLeft' = Later[Loaded']
  BY <1>1, <1>2, <1>3 DEF FewestLeft, Later
<1>7. FewestInAll' = FewestInAll
  BY <1>1, <1>3 DEF FewestInAll
<1>8. \A S \in Memories : Later[S] \in Nat
  BY <1>1, <1>2, FewestIsNumber DEF Later
<1>. QED BY <1>1, <1>2, <1>5, <1>6, <1>7, <1>8

LEMMA HitCosts ==
  ASSUME TypeOK, FaultsCounted, TLBOnce, NEW a \in Algorithms, Pass(a),
         Hit, Loaded' = Loaded
  PROVE  FewestLeft' = FewestLeft
<1>. DEFINE p == page
<1>1. /\ \A S \in Memories : Later[S] \in Nat
      /\ FewestLeft = FaultsFrom(p, Later)[Loaded]
      /\ FewestLeft' = Later[Loaded']
  BY PassServes
<1>2. p \in Pages /\ Loaded \in Memories
  BY PassFacts, LoadedFacts
<1>3. p \in Loaded
  BY <1>2, HitIsLoaded
<1>. HIDE DEF p
<1>. QED BY <1>1, <1>2, <1>3, FaultsFromFacts

(* A fault leaves at most one fewer to come.                               *)
LEMMA MissCosts ==
  ASSUME TypeOK, FaultsCounted, FrameHoldsPage, TLBOnce,
         NEW a \in Algorithms, Pass(a), ~Hit,
         NEW frame \in Frames, Load(frame), failures' = 0,
         findEmptyFrame # NOT_FOUND => frame = findEmptyFrame
  PROVE  FewestLeft <= 1 + FewestLeft'
<1>. DEFINE p == page
<1>1. /\ \A S \in Memories : Later[S] \in Nat
      /\ FewestLeft = FaultsFrom(p, Later)[Loaded]
      /\ FewestLeft' = Later[Loaded']
  BY PassServes
<1>2. p \in Pages /\ Loaded \in Memories
  BY PassFacts, LoadedFacts
<1>3. /\ p \notin Loaded
      /\ \/ Loaded \notin Full /\ Loaded' = Loaded \cup {p}
         \/ /\ Loaded \in Full /\ TLB[frame] \in Loaded
            /\ Loaded' = Swap(Loaded, TLB[frame], p)
  BY <1>2, MissSwaps
<1>. DEFINE L == Loaded
            next == Loaded'
            q == TLB[frame]
            v == FaultsFrom(p, Later)[L]
<1>. HIDE DEF p, L, next, q
<1>4. L \in Memories /\ p \notin L
  BY <1>2, <1>3 DEF L
<1>5. v <= 1 + Later[next]
  <2>1. CASE L \notin Full /\ next = L \cup {p}
    <3>1. L \cup {p} \in Memories /\ v = 1 + Later[L \cup {p}]
      BY <1>1, <1>2, <1>4, <2>1, FaultsFromFacts
    <3>2. Later[next] \in Nat /\ v = 1 + Later[next]
      BY <1>1, <2>1, <3>1
    <3>. QED BY <3>2
  <2>2. CASE L \in Full /\ q \in L /\ next = Swap(L, q, p)
    <3>1. v <= 1 + Later[Swap(L, q, p)]
      BY <1>1, <1>2, <1>4, <2>2, BestVictim
    <3>. QED BY <2>2, <3>1
  <2>. QED BY <1>3, <2>1, <2>2 DEF L, next, q
<1>. QED BY <1>1, <1>5 DEF L, next

(* The fault of the optimal algorithm leaves one fewer: in place of the    *)
(* page it gives up it would not be better to give up any other.           *)
LEMMA FurthestCosts ==
  ASSUME TypeOK, FaultsCounted, FrameHoldsPage, TLBOnce, Pass("OPTIMUM"), ~Hit,
         NEW frame, Load(frame), failures' = 0,
         frame = IF findEmptyFrame # NOT_FOUND THEN findEmptyFrame ELSE Furthest
  PROVE  FewestLeft = 1 + FewestLeft' /\ TLBOnce'
<1>. DEFINE m == Len(addressList) - PC
            p == page
<1>1. /\ \A S \in Memories : Later[S] \in Nat
      /\ FewestLeft = FaultsFrom(p, Later)[Loaded]
      /\ FewestLeft' = Later[Loaded']
      /\ m \in 0 .. Len(addressList)
      /\ PC \in 1 .. Len(addressList) /\ addressList \in Seq(Pages)
  BY PassServes DEF Algorithms
<1>2. p \in Pages /\ Loaded \in Memories
  BY PassFacts, LoadedFacts DEF Algorithms
<1>3. frame \in Frames
  BY <1>1, FirstOfFacts, FurthestFacts DEF findEmptyFrame
<1>4. /\ p \notin Loaded /\ TLBOnce'
      /\ findEmptyFrame # NOT_FOUND =>
           Loaded \notin Full /\ Loaded' = Loaded \cup {p}
      /\ findEmptyFrame = NOT_FOUND =>
           /\ Loaded \in Full /\ TLB[frame] \in Loaded
           /\ Loaded' = Swap(Loaded, TLB[frame], p)
  BY <1>2, <1>3, MissSwaps
<1>5. CASE findEmptyFrame # NOT_FOUND
  <2>. HIDE DEF p, m
  <2>. QED BY <1>1, <1>2, <1>4, <1>5, FaultsFromFacts
<1>6. CASE findEmptyFrame = NOT_FOUND
  <2>. DEFINE L == Loaded
              y == TLB[frame]
              v == FaultsFrom(p, Later)[L]
  <2>1. \A x \in L : Sooner(m, x, y)
    <3>1. frame = Furthest
      BY <1>6
    <3>2. \A x \in L : \E g \in Frames : x = TLB[g]
      BY DEF Loaded
    <3>. QED BY <1>1, <3>1, <3>2, FurthestFacts
  <2>. HIDE DEF m, p, L, y
  <2>2. /\ L \in Full /\ L \in Memories /\ y \in L /\ p \in Pages /\ p \notin L
        /\ \A x \in L : x \in Pages
    BY <1>2, <1>4, <1>6 DEF L, y, Memories
  <2>3. PICK q \in L : v = 1 + Later[Swap(L, q, p)]
    BY <1>1, <2>2, BestVictim
  <2>4. Swap(L, q, p) \in Full /\ Swap(L, y, p) \in Full
    BY <2>2, MemoryFacts
  <2>5. Later[Swap(L, q, p)] \in Nat /\ Later[Swap(L, y, p)] \in Nat
    BY <1>1, <2>4 DEF Full
  <2>6. v <= 1 + Later[Swap(L, y, p)]
    BY <1>1, <2>2, FaultsFromFacts
  <2>7. Later[Swap(L, y, p)] <= Later[Swap(L, q, p)]
    <3>. DEFINE R == Swap(L, q, p)
    <3>1. CASE q = y
      BY <2>5, <3>1
    <3>2. CASE q # y
      <4>1. y \in R /\ q \in Pages \ R /\ Swap(R, y, q) = Swap(L, y, p)
        BY <2>2, <3>2 DEF Swap
      <4>2. Sooner(m, q, y)
        BY <2>1
      <4>. HIDE DEF R
      <4>3. FewestFaults[m][Swap(R, y, q)] <= FewestFaults[m][R]
        BY <1>1, <2>4, <4>1, <4>2, Exchange DEF R
      <4>. QED BY <4>1, <4>3 DEF R, Later, m
    <3>. QED BY <3>1, <3>2
  <2>8. v = 1 + Later[Swap(L, y, p)]
    <3>. HIDE DEF v
    <3>. QED BY <2>3, <2>5, <2>6, <2>7
  <2>. QED BY <1>1, <1>4, <1>6, <2>8 DEF L, y
<1>. QED BY <1>4, <1>5, <1>6

-----------------------------------------------------------------------------
(* The invariant.                                                          *)

Ended(a) ==
  \/ a = "FIFO" /\ alg \in {"LRU", "OPTIMUM", "done"}
  \/ a = "LRU" /\ alg \in {"OPTIMUM", "done"}

(* Until a load fails: the faults of FIFO and LRU so far, with the fewest  *)
(* from here, are never fewer than the fewest in all; those of the optimal *)
(* algorithm are as many, as long as its hits keep their frames.           *)
HistoryCost ==
  \A a \in {"FIFO", "LRU"} :
    /\ alg = a => FewestInAll <= fault_count[a] + FewestLeft
    /\ Ended(a) => FewestInAll <= fault_count[a]
OptimalCost ==
  alg \in {"OPTIMUM", "done"} /\ ~misplaced =>
    /\ TLBOnce
    /\ fault_count["OPTIMUM"] + FewestLeft = FewestInAll
CostInv ==
  failures = 0 =>
    /\ HistoryCost /\ OptimalCost
    /\ alg = "done" => PC = Len(addressList) + 1

LEMMA CostInvInit == Init => CostInv
<1>. SUFFICES ASSUME Init PROVE CostInv
  OBVIOUS
<1>1. TypeOK /\ alg = "FIFO" /\ PC = 1 /\ fault_count["FIFO"] = 0
  BY PagingInit DEF PInv, Init, Algorithms
<1>2. TLBOnce /\ Loaded = {}
  BY DEF Init, EmptyFrames, TLBOnce, Loaded
<1>3. Len(addressList) + 1 - PC = Len(addressList)
  BY <1>1 DEF TypeOK
<1>4. FewestLeft = FewestInAll
  BY <1>2, <1>3 DEF FewestLeft, FewestInAll
<1>5. FewestInAll <= fault_count["FIFO"] + FewestLeft
  BY <1>1, <1>2, <1>4, FewestLeftFacts
<1>. QED BY <1>1, <1>5 DEF CostInv, HistoryCost, OptimalCost, Ended

(* A pass of FIFO or LRU that pays a fault for what it saves later.        *)
LEMMA HistoryPays ==
  ASSUME PInv, PInv', HistoryCost, NEW a \in {"FIFO", "LRU"}, Pass(a),
         FewestLeft <= (IF Hit THEN 0 ELSE 1) + FewestLeft'
  PROVE  HistoryCost'
<1>1. /\ TypeOK /\ TypeOK' /\ FaultsCounted /\ a \in Algorithms
      /\ TLBOnce /\ alg = a
  BY DEF PInv, Algorithms, PageLoadedOnce, TLBOnce, Pass
<1>2. alg' = a /\ TLBOnce'
  BY <1>1 DEF PInv, PageLoadedOnce, TLBOnce, Pass
<1>3. /\ FewestLeft \in Nat /\ FewestInAll \in Nat /\ FewestLeft' \in Nat
      /\ FewestInAll' = FewestInAll
  BY <1>1, <1>2, FewestLeftFacts, FewestLeftNext, PassServes
<1>. DEFINE fault == IF Hit THEN 0 ELSE 1
<1>4. /\ fault_count[a] \in Nat /\ fault \in Nat
      /\ fault_count'[a] = fault_count[a] + fault
      /\ \A b \in Algorithms \ {a} : fault_count'[b] = fault_count[b]
  BY <1>1 DEF Pass, TypeOK
<1>5. FewestInAll <= fault_count[a] + FewestLeft
  BY <1>1 DEF HistoryCost
<1>6. FewestInAll' <= fault_count'[a] + FewestLeft'
  <2>1. FewestLeft <= fault + FewestLeft'
    OBVIOUS
  <2>2. \A all, before, now, next, n \in Nat :
          all <= before + now /\ now <= n + next => all <= before + n + next
    OBVIOUS
  <2>. HIDE DEF fault
  <2>3. FewestInAll <= fault_count[a] + fault + FewestLeft'
    BY <1>3, <1>4, <1>5, <2>1, <2>2
  <2>. QED BY <1>3, <1>4, <2>3
<1>7. ~Ended(a)' /\ \A b \in {"FIFO", "LRU"} : Ended(b)' = Ended(b)
  BY <1>1, <1>2 DEF Ended
<1>. QED BY <1>1, <1>2, <1>3, <1>4, <1>6, <1>7 DEF HistoryCost, Algorithms

(* The frame of the page at the tail of a full history.                    *)
LEMMA TailHasFrame ==
  ASSUME TypeOK, PageLoadedOnce, HistoryInv, alg \in {"FIFO", "LRU"},
         failures = 0, findEmptyFrame = NOT_FOUND
  PROVE  is_PageLoaded(TailPage(history)) \in Frames
<1>. DEFINE t == TailPage(history)
<1>1. Len(history) = NUMBER_OF_FRAMES /\ history \in Seq(Pages)
  BY HistoryLength DEF TypeOK
<1>2. Len(history) \in DOMAIN history /\ history # <<>>
  BY <1>1, PagingAssumption
<1>3. t \in Loaded
  BY <1>2 DEF TailPage, Last, HistoryInv, ToSet
<1>. HIDE DEF t
<1>4. {f \in Frames : TLB[f] = t} # {}
  BY <1>3 DEF Loaded
<1>. QED BY <1>4, FirstOfFacts DEF is_PageLoaded, t

LEMMA CostInvHistory ==
  ASSUME PInv, PInv', CostInv, PassFIFO \/ PassLRU
  PROVE  CostInv'
<1>. SUFFICES ASSUME failures' = 0 PROVE CostInv'
  BY DEF CostInv
<1>. DEFINE a == alg
<1>1. /\ a \in {"FIFO", "LRU"} /\ Pass(a) /\ alg' = a
      /\ \/ ~Hit /\ SwapByHistory
         \/ Hit /\ Load(is_PageLoaded(page))
  BY DEF PassFIFO, PassLRU, Pass
<1>2. /\ TypeOK /\ FaultsCounted /\ FrameHoldsPage /\ PageLoadedOnce
      /\ HistoryInv /\ TLBOnce /\ a \in Algorithms
  BY <1>1 DEF PInv, PageLoadedOnce, TLBOnce, Algorithms
<1>3. page \in Pages
  BY <1>1, <1>2, PassFacts
<1>4. failures = 0
  BY <1>1, <1>2, <1>3, LoadFacts DEF SwapByHistory
<1>. HIDE DEF a
<1>5. CASE Hit
  <2>1. TLB' = TLB
    BY <1>1, <1>2, <1>3, <1>5, LoadKeepsOnce DEF a
  <2>2. FewestLeft' = FewestLeft /\ FewestLeft \in Nat
    <3>1. Loaded' = Loaded
      BY <2>1 DEF Loaded
    <3>. QED BY <1>1, <1>2, <1>5, <3>1, HitCosts, FewestLeftFacts
  <2>3. HistoryCost'
    BY <1>1, <1>4, <1>5, <2>2, HistoryPays DEF CostInv
  <2>. QED BY <1>1, <2>3 DEF CostInv, OptimalCost
<1>6. CASE ~Hit
  <2>. DEFINE frame == IF findEmptyFrame # NOT_FOUND THEN findEmptyFrame
                       ELSE is_PageLoaded(TailPage(history))
  <2>1. Load(frame)
    BY <1>1, <1>6 DEF SwapByHistory
  <2>2. frame \in Frames
    BY <1>1, <1>2, <1>4, TailHasFrame, FirstOfFacts DEF findEmptyFrame, a
  <2>3. findEmptyFrame # NOT_FOUND => frame = findEmptyFrame
    OBVIOUS
  <2>. HIDE DEF frame
  <2>4. FewestLeft <= 1 + FewestLeft'
    BY <1>1, <1>2, <1>6, <2>1, <2>2, <2>3, MissCosts
  <2>5. HistoryCost'
    BY <1>1, <1>4, <1>6, <2>4, HistoryPays DEF CostInv
  <2>. QED BY <1>1, <2>5 DEF CostInv, OptimalCost
<1>. QED BY <1>5, <1>6

LEMMA CostInvOptimal ==
  ASSUME PInv, PInv', CostInv, PassOptimal
  PROVE  CostInv'
<1>. SUFFICES ASSUME failures' = 0 PROVE CostInv'
  BY DEF CostInv
<1>1. /\ Pass("OPTIMUM") /\ alg = "OPTIMUM" /\ alg' = "OPTIMUM"
      /\ \E frame : Load(frame)
  BY DEF PassOptimal, Pass
<1>2. /\ TypeOK /\ TypeOK' /\ FaultsCounted /\ FrameHoldsPage
      /\ "OPTIMUM" \in Algorithms
  BY DEF PInv, Algorithms
<1>3. page \in Pages
  BY <1>1, <1>2, PassFacts
<1>4. failures = 0
  BY <1>1, <1>2, <1>3, LoadFacts
<1>5. FewestInAll' = FewestInAll
  BY <1>1, <1>2, PassServes
<1>6. /\ fault_count["OPTIMUM"] \in Nat
      /\ fault_count'["OPTIMUM"] =
           fault_count["OPTIMUM"] + (IF Hit THEN 0 ELSE 1)
      /\ \A b \in {"FIFO", "LRU"} : fault_count'[b] = fault_count[b]
  BY <1>1, <1>2 DEF Pass, TypeOK, Algorithms
<1>7. HistoryCost'
  BY <1>1, <1>4, <1>5, <1>6 DEF CostInv, HistoryCost, Ended
<1>8. ASSUME ~misplaced'
      PROVE  /\ TLBOnce'
             /\ fault_count'["OPTIMUM"] + FewestLeft' = FewestInAll'
  <2>1. CASE Hit
    <3>1. ~misplaced /\ TLB' = TLB
      BY <1>8, <2>1 DEF PassOptimal
    <3>2. TLBOnce /\ fault_count["OPTIMUM"] + FewestLeft = FewestInAll
      BY <1>1, <1>4, <3>1 DEF CostInv, OptimalCost
    <3>3. FewestLeft' = FewestLeft
      <4>1. Loaded' = Loaded
        BY <3>1 DEF Loaded
      <4>. QED BY <1>1, <1>2, <2>1, <3>2, <4>1, HitCosts
    <3>4. TLBOnce'
      BY <3>1, <3>2 DEF TLBOnce
    <3>. QED BY <1>5, <1>6, <2>1, <3>2, <3>3, <3>4
  <2>2. CASE ~Hit
    <3>1. misplaced' = misplaced
          /\ Load(IF findEmptyFrame # NOT_FOUND THEN findEmptyFrame
                  ELSE Furthest)
      BY <2>2 DEF PassOptimal
    <3>2. TLBOnce /\ fault_count["OPTIMUM"] + FewestLeft = FewestInAll
      BY <1>1, <1>4, <1>8, <3>1 DEF CostInv, OptimalCost
    <3>3. FewestLeft = 1 + FewestLeft' /\ TLBOnce'
      BY <1>1, <1>2, <2>2, <3>1, <3>2, FurthestCosts
    <3>4. FewestLeft' \in Nat
      BY <1>2, <3>3, FewestLeftNext
    <3>. QED BY <1>5, <1>6, <2>2, <3>2, <3>3, <3>4
  <2>. QED BY <2>1, <2>2
<1>. QED BY <1>1, <1>7, <1>8 DEF CostInv, OptimalCost

(* The end of a run: no reference is left, and the next one begins with    *)
(* all of them and no page.                                                *)
LEMMA CostInvNextRun ==
  ASSUME PInv, PInv', CostInv, NextRun
  PROVE  CostInv'
<1>. SUFFICES ASSUME failures' = 0 PROVE CostInv'
  BY DEF CostInv
<1>1. /\ alg \in {"FIFO", "LRU"} /\ PC = Len(addressList) + 1 /\ PC' = 1
      /\ alg' = IF alg = "FIFO" THEN "LRU" ELSE "OPTIMUM"
      /\ addressList' = addressList /\ TLB' = EmptyFrames
      /\ fault_count' = fault_count /\ failures = 0
  BY DEF NextRun
<1>2. /\ TypeOK /\ FaultsCounted' /\ Len(addressList) \in Nat
      /\ addressList \in Seq(Pages)
      /\ \A b \in Algorithms : fault_count[b] \in Nat
  BY DEF PInv, TypeOK
<1>3. TLBOnce
  BY <1>1 DEF PInv, PageLoadedOnce, TLBOnce
<1>4. TLBOnce' /\ Loaded' = {}
  BY <1>1 DEF TLBOnce, EmptyFrames, Loaded
<1>5. FewestLeft = 0
  <2>1. FewestLeft = FewestFaults[0][Loaded]
    BY <1>1, <1>2 DEF FewestLeft
  <2>2. Loaded \in SUBSET Pages
    BY <1>2, <1>3, LoadedFacts DEF Memories
  <2>. QED BY <1>2, <2>1, <2>2, FewestIsDefined
<1>6. FewestInAll \in Nat /\ FewestInAll' = FewestInAll
      /\ FewestLeft' = FewestInAll
  <2>1. FewestFaults' = FewestFaults
    BY <1>1, FewestStays
  <2>. QED BY <1>1, <1>2, <1>3, <1>4, <2>1, FewestLeftFacts
           DEF FewestLeft, FewestInAll
<1>7. HistoryCost
  BY <1>1 DEF CostInv
<1>8. CASE alg = "FIFO"
  <2>1. FewestInAll <= fault_count["FIFO"]
    BY <1>2, <1>5, <1>6, <1>7, <1>8 DEF HistoryCost, Algorithms
  <2>2. fault_count["LRU"] \in Nat /\ alg' = "LRU"
    BY <1>1, <1>2, <1>8 DEF Algorithms
  <2>3. FewestInAll <= fault_count["LRU"] + FewestInAll
    BY <1>6, <2>2
  <2>. QED BY <1>1, <1>6, <2>1, <2>2, <2>3
           DEF CostInv, HistoryCost, OptimalCost, Ended
<1>9. CASE alg = "LRU"
  <2>1. FewestInAll <= fault_count["LRU"] /\ FewestInAll <= fault_count["FIFO"]
    BY <1>2, <1>5, <1>6, <1>7, <1>9 DEF HistoryCost, Algorithms, Ended
  <2>2. alg' = "OPTIMUM"
    BY <1>1, <1>9
  <2>3. fault_count["OPTIMUM"] = 0
    <3>1. ~NotStarted("OPTIMUM")' /\ NotStarted("OPTIMUM")
      BY <1>9, <2>2 DEF NotStarted
    <3>. QED BY <3>1 DEF PInv, FaultsCounted, Algorithms
  <2>4. fault_count'["OPTIMUM"] + FewestLeft' = FewestInAll'
    BY <1>1, <1>6, <2>3
  <2>. QED BY <1>1, <1>4, <1>6, <2>1, <2>2, <2>4
           DEF CostInv, HistoryCost, OptimalCost, Ended
<1>. QED BY <1>1, <1>8, <1>9

LEMMA CostInvStays ==
  ASSUME CostInv, LastRun \/ UNCHANGED vars \/ HangLRU
  PROVE  CostInv'
<1>1. /\ addressList' = addressList /\ PC' = PC /\ TLB' = TLB
      /\ fault_count' = fault_count /\ failures' = failures
      /\ misplaced' = misplaced
  BY DEF LastRun, HangLRU, vars
<1>2. Loaded' = Loaded
  BY <1>1 DEF Loaded
<1>3. FewestLeft' = FewestLeft /\ FewestInAll' = FewestInAll
  BY <1>1, <1>2, FewestStays DEF FewestLeft, FewestInAll
<1>4. TLBOnce' <=> TLBOnce
  BY <1>1 DEF TLBOnce
<1>5. CASE alg' = alg
  <2>1. \A a \in {"FIFO", "LRU"} : Ended(a)' = Ended(a)
    BY <1>5 DEF Ended
  <2>. QED BY <1>1, <1>3, <1>4, <1>5, <2>1
           DEF CostInv, HistoryCost, OptimalCost
<1>6. CASE LastRun
  <2>1. alg = "OPTIMUM" /\ alg' = "done" /\ PC = Len(addressList) + 1
    BY <1>6 DEF LastRun
  <2>2. \A a \in {"FIFO", "LRU"} : Ended(a) /\ Ended(a)'
    BY <2>1 DEF Ended
  <2>. QED BY <1>1, <1>3, <1>4, <2>1, <2>2
           DEF CostInv, HistoryCost, OptimalCost
<1>. QED BY <1>5, <1>6 DEF HangLRU, vars

LEMMA CostInvStep == PInv /\ PInv' /\ CostInv /\ [Next]_vars => CostInv'
BY CostInvHistory, CostInvOptimal, CostInvNextRun, CostInvStays
DEF Next, Finished

-----------------------------------------------------------------------------
(* The theorem.                                                            *)

(* Until a load fails or a hit loses its frame, the optimal algorithm has  *)
(* the fewest faults with which the reference string can be served from    *)
(* empty frames, whatever page each fault gives up: FIFO and LRU, which    *)
(* main runs on the same references, have as many or more.                 *)
THEOREM OptimalHasFewest == Spec => []OptimalIsOptimal
<1>1. ASSUME PInv, CostInv PROVE OptimalIsOptimal
  <2>. SUFFICES ASSUME alg = "done", failures = 0, ~misplaced
                PROVE  /\ fault_count["OPTIMUM"] = FewestInAll
                       /\ \A a \in Algorithms :
                            fault_count["OPTIMUM"] <= fault_count[a]
    BY DEF OptimalIsOptimal, FewestInAll
  <2>1. /\ TypeOK /\ Len(addressList) \in Nat /\ addressList \in Seq(Pages)
        /\ fault_count["OPTIMUM"] \in Nat
    BY <1>1 DEF PInv, TypeOK, Algorithms
  <2>2. /\ HistoryCost /\ TLBOnce /\ PC = Len(addressList) + 1
        /\ fault_count["OPTIMUM"] + FewestLeft = FewestInAll
    BY <1>1 DEF CostInv, OptimalCost
  <2>3. FewestLeft = 0
    <3>1. FewestLeft = FewestFaults[0][Loaded]
      BY <2>1, <2>2 DEF FewestLeft
    <3>2. Loaded \in SUBSET Pages
      BY <2>1, <2>2, LoadedFacts DEF Memories
    <3>. QED BY <2>1, <3>1, <3>2, FewestIsDefined
  <2>4. fault_count["OPTIMUM"] = FewestInAll
    BY <2>1, <2>2, <2>3
  <2>5. \A a \in {"FIFO", "LRU"} : FewestInAll <= fault_count[a]
    BY <2>2 DEF HistoryCost, Ended
  <2>. QED BY <2>1, <2>4, <2>5 DEF Algorithms
<1>2. Spec => []CostInv
  BY PagingInvariant, CostInvInit, CostInvStep, PTL DEF Spec
<1>. QED BY <1>1, <1>2, PagingInvariant, PTL
=============================================================================
