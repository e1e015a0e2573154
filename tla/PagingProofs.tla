---------------------------- MODULE PagingProofs ----------------------------
(***************************************************************************)
(* Theorems about Paging for any number of frames, any pages and reference *)
(* strings of any length.                                                  *)
(***************************************************************************)
EXTENDS Paging, FiniteSetTheorems, SequenceTheorems, WellFoundedInduction,
        TLAPS

-----------------------------------------------------------------------------
(* Numbers and sets of frames.                                             *)

(* A set of natural numbers that is not empty has a least element.         *)
LEMMA LeastElement ==
  ASSUME NEW S \in SUBSET Nat, S # {}
  PROVE  \E m \in S : \A n \in S : m <= n
<1>1. PICK m \in S : \A n \in S : <<n, m>> \notin OpToRel(<, Nat)
  BY NatLessThanWellFounded, WFMin
<1>2. \A n \in S : ~(n < m)
  BY <1>1 DEF OpToRel
<1>. QED BY <1>2

LEMMA MinFacts ==
  ASSUME NEW S \in SUBSET Nat, S # {}
  PROVE  Min(S) \in S /\ \A n \in S : Min(S) <= n
<1>1. \E m \in S : \A n \in S : m <= n
  BY LeastElement
<1>. QED BY <1>1 DEF Min

LEMMA FirstOfFacts ==
  ASSUME NEW F \in SUBSET Frames
  PROVE  /\ NOT_FOUND \notin Frames
         /\ F = {} => FirstOf(F) = NOT_FOUND
         /\ F # {} => FirstOf(F) \in F
<1>1. NOT_FOUND \notin Frames /\ Frames \subseteq Nat
  BY PagingAssumption DEF NOT_FOUND, Frames
<1>2. F # {} => Min(F) \in F
  BY <1>1, MinFacts
<1>. QED BY <1>1, <1>2 DEF FirstOf

LEMMA FramesFacts ==
  IsFiniteSet(Frames) /\ Cardinality(Frames) = NUMBER_OF_FRAMES
BY FS_Interval, PagingAssumption DEF Frames

-----------------------------------------------------------------------------
(* Lists of pages.                                                         *)

Once(list) == \A i, j \in DOMAIN list : list[i] = list[j] => i = j

LEMMA ListFacts ==
  ASSUME NEW list \in Seq(Pages)
  PROVE  /\ Len(list) \in Nat /\ DOMAIN list = 1 .. Len(list)
         /\ \A i \in 1 .. Len(list) : list[i] \in Pages
         /\ list = <<>> <=> Len(list) = 0
         /\ ToSet(list) = {list[i] : i \in 1 .. Len(list)}
BY DEF ToSet

LEMMA AddToHeadFacts ==
  ASSUME NEW list \in Seq(Pages), NEW p \in Pages
  PROVE  /\ AddToHead(list, p) \in Seq(Pages)
         /\ Len(AddToHead(list, p)) = Len(list) + 1
         /\ AddToHead(list, p)[1] = p
         /\ \A i \in 1 .. Len(list) : AddToHead(list, p)[i + 1] = list[i]
BY DEF AddToHead

LEMMA WithoutTailFacts ==
  ASSUME NEW list \in Seq(Pages)
  PROVE  /\ WithoutTail(list) \in Seq(Pages)
         /\ Len(list) > 1 =>
              /\ Len(WithoutTail(list)) = Len(list) - 1
              /\ \A i \in 1 .. Len(list) - 1 : WithoutTail(list)[i] = list[i]
BY DEF WithoutTail, Front

(* MoveToHead takes the first place of a page and puts it in front.        *)
LEMMA MoveToHeadFacts ==
  ASSUME NEW list \in Seq(Pages), NEW p \in Pages, Contains(list, p)
  PROVE  \E n \in 1 .. Len(list) :
           LET new == MoveToHead(list, p) IN
           /\ list[n] = p
           /\ new \in Seq(Pages) /\ Len(new) = Len(list)
           /\ \A i \in 1 .. Len(list) :
                new[i] = IF i = 1 THEN p
                         ELSE IF i <= n THEN list[i - 1] ELSE list[i]
<1>1. Len(list) \in Nat /\ Len(list) >= 1
  BY DEF Contains
<1>2. CASE Head(list) = p
  <2>1. list[1] = p /\ MoveToHead(list, p) = list
    BY <1>1, <1>2 DEF MoveToHead
  <2>2. 1 \in 1 .. Len(list)
    BY <1>1
  <2>3. \A i \in 1 .. Len(list) :
          list[i] = IF i = 1 THEN p ELSE IF i <= 1 THEN list[i - 1] ELSE list[i]
    BY <1>1, <2>1
  <2>. QED BY <2>1, <2>2, <2>3
<1>3. CASE Head(list) # p
  <2>. DEFINE I == {i \in 1 .. Len(list) : list[i] = p}
              n == Min(I)
              a == SubSeq(list, 1, n - 1)
              b == SubSeq(list, n + 1, Len(list))
  <2>1. I \in SUBSET Nat /\ I # {}
    BY DEF Contains
  <2>2. n \in 1 .. Len(list) /\ list[n] = p
    BY <2>1, MinFacts
  <2>3. MoveToHead(list, p) = <<p>> \o (a \o b)
    <3>1. SelectInSeq(list, LAMBDA v : v = p) = n
      BY <2>1 DEF SelectInSeq
    <3>2. RemoveFirst(list, p) = RemoveAt(list, n)
      BY <3>1, Zenon DEF RemoveFirst, Contains
    <3>3. list # <<>>
      BY <1>1
    <3>. QED BY <1>3, <3>2, <3>3, Zenon DEF MoveToHead, AddToHead, RemoveAt
  <2>. HIDE DEF I, n
  <2>4. /\ a \in Seq(Pages) /\ Len(a) = n - 1
        /\ \A i \in 1 .. n - 1 : a[i] = list[i]
    BY <1>1, <2>2
  <2>5. /\ b \in Seq(Pages) /\ Len(b) = Len(list) - n
        /\ \A i \in 1 .. Len(list) - n : b[i] = list[n + i]
    BY <1>1, <2>2
  <2>. HIDE DEF a, b
  <2>. DEFINE new == <<p>> \o (a \o b)
  <2>6. new \in Seq(Pages) /\ Len(new) = Len(list)
    BY <1>1, <2>2, <2>4, <2>5
  <2>7. ASSUME NEW i \in 1 .. Len(list)
        PROVE  new[i] = IF i = 1 THEN p
                        ELSE IF i <= n THEN list[i - 1] ELSE list[i]
    <3>1. (a \o b) \in Seq(Pages) /\ Len(a \o b) = Len(list) - 1
      <4>1. (a \o b) \in Seq(Pages) /\ Len(a \o b) = Len(a) + Len(b)
        BY <2>4, <2>5, ConcatProperties
      <4>. QED BY <1>1, <2>2, <2>4, <2>5, <4>1
    <3>2. i > 1 => new[i] = (a \o b)[i - 1]
      <4>1. ASSUME NEW s \in Seq(Pages), i > 1, Len(s) = Len(list) - 1
            PROVE  (<<p>> \o s)[i] = s[i - 1]
        BY <1>1, <2>7, <4>1
      <4>. QED BY <3>1, <4>1
    <3>3. i > 1 /\ i <= n => (a \o b)[i - 1] = a[i - 1]
      BY <1>1, <2>2, <2>4, <2>5, <2>7
    <3>4. i > n => (a \o b)[i - 1] = b[i - n]
      BY <1>1, <2>2, <2>4, <2>5, <2>7
    <3>5. i = 1 => new[i] = p
      BY <3>1
    <3>. HIDE DEF new
    <3>6. CASE i = 1
      BY <3>5, <3>6
    <3>7. CASE i > 1 /\ i <= n
      <4>1. a[i - 1] = list[i - 1]
        BY <2>2, <2>4, <2>7, <3>7
      <4>2. new[i] = list[i - 1]
        BY <3>2, <3>3, <3>7, <4>1, Zenon
      <4>3. i # 1
        BY <2>2, <3>7
      <4>. QED BY <3>7, <4>2, <4>3, Zenon
    <3>8. CASE i > n
      <4>1. i - n \in 1 .. Len(list) - n /\ n + (i - n) = i /\ i > 1
        BY <1>1, <2>2, <2>7, <3>8
      <4>2. b[i - n] = list[i]
        BY <2>5, <4>1
      <4>3. new[i] = list[i]
        BY <3>2, <3>4, <3>8, <4>1, <4>2, Zenon
      <4>4. i # 1 /\ ~(i <= n)
        BY <2>2, <2>7, <3>8
      <4>. QED BY <4>3, <4>4, Zenon
    <3>9. i = 1 \/ (i > 1 /\ i <= n) \/ i > n
      BY <2>2, <2>7
    <3>. QED BY <3>6, <3>7, <3>8, <3>9
  <2>. HIDE DEF new
  <2>. QED BY <2>2, <2>3, <2>6, <2>7 DEF new
<1>. QED BY <1>2, <1>3

-----------------------------------------------------------------------------
(* The inductive invariant.                                                *)

(* A run has no more faults than passes, and none before it starts.        *)
NotStarted(a) ==
  \/ a = "LRU" /\ alg = "FIFO"
  \/ a = "OPTIMUM" /\ alg \in {"FIFO", "LRU"}
FaultsCounted ==
  \A a \in Algorithms :
    /\ alg = a => fault_count[a] < PC
    /\ NotStarted(a) => fault_count[a] = 0

(* Without failed loads: the history has each loaded page at one place.    *)
HistoryInv ==
  alg \in {"FIFO", "LRU"} /\ failures = 0 =>
    Once(history) /\ ToSet(history) = Loaded

PInv ==
  /\ TypeOK /\ FaultsCounted
  /\ FrameHoldsPage /\ PageLoadedOnce
  /\ HistoryInv
  /\ HangsOnlyAfterFailure

LEMMA PagingInit == Init => PInv
<1>. SUFFICES ASSUME Init PROVE PInv
  OBVIOUS
<1>1. PICK n \in 1 .. MaxLength : addressList \in [1 .. n -> Pages]
  BY DEF Init
<1>2. addressList \in Seq(Pages) /\ Len(addressList) = n
  BY <1>1, PagingAssumption
<1>3. /\ alg = "FIFO" /\ PC = 1 /\ history = <<>> /\ failures = 0
      /\ TLB = [f \in Frames |-> NoPage]
      /\ physical_memory = [f \in Frames |-> NoPage]
      /\ fault_count = [a \in Algorithms |-> 0]
      /\ misplaced = FALSE /\ hung = FALSE
  BY DEF Init, EmptyFrames
<1>4. TypeOK
  <2>1. Len(addressList) \in 1 .. MaxLength /\ 1 \in 1 .. Len(addressList) + 1
    BY <1>1, <1>2, PagingAssumption
  <2>2. fault_count \in [Algorithms -> 0 .. MaxLength] /\ 0 \in 0 .. MaxFailures
    BY <1>3, PagingAssumption
  <2>3. TLB \in [Frames -> Pages \cup {NoPage}]
    BY <1>3
  <2>4. physical_memory \in [Frames -> Pages \cup {NoPage}]
    BY <1>3
  <2>5. <<>> \in Seq(Pages) /\ "FIFO" \in Algorithms
    BY DEF Algorithms
  <2>. QED BY <1>2, <1>3, <2>1, <2>2, <2>3, <2>4, <2>5, Zenon DEF TypeOK
<1>5. FaultsCounted
  BY <1>3 DEF FaultsCounted, Algorithms, NotStarted
<1>6. FrameHoldsPage /\ PageLoadedOnce
  BY <1>3 DEF FrameHoldsPage, PageLoadedOnce
<1>7. HistoryInv
  BY <1>3 DEF HistoryInv, Once, ToSet, Loaded
<1>8. HangsOnlyAfterFailure
  BY <1>3 DEF HangsOnlyAfterFailure
<1>. QED BY <1>4, <1>5, <1>6, <1>7, <1>8 DEF PInv

-----------------------------------------------------------------------------
(* Parts of a pass.                                                        *)

LEMMA PassFacts ==
  ASSUME TypeOK, FaultsCounted, NEW a \in Algorithms, Pass(a)
  PROVE  /\ page \in Pages
         /\ PC' = PC + 1 /\ PC' \in 1 .. Len(addressList) + 1
         /\ fault_count' \in [Algorithms -> 0 .. MaxLength]
         /\ FaultsCounted'
         /\ alg = a /\ hung = FALSE
         /\ addressList' = addressList /\ alg' = alg /\ hung' = hung
<1>1. /\ alg = a /\ ~hung /\ PC <= Len(addressList) /\ PC' = PC + 1
      /\ fault_count' = [fault_count EXCEPT ![a] = IF Hit THEN @ ELSE @ + 1]
      /\ addressList' = addressList /\ alg' = alg /\ hung' = hung
  BY DEF Pass
<1>2. /\ addressList \in Seq(Pages) /\ Len(addressList) \in 1 .. MaxLength
      /\ PC \in 1 .. Len(addressList) + 1 /\ hung \in BOOLEAN
      /\ fault_count \in [Algorithms -> 0 .. MaxLength]
  BY DEF TypeOK
<1>3. PC \in 1 .. Len(addressList) /\ PC' \in 1 .. Len(addressList) + 1
  BY <1>1, <1>2, PagingAssumption
<1>4. page \in Pages
  BY <1>2, <1>3 DEF page
<1>5. fault_count[a] < PC
  BY <1>1 DEF FaultsCounted
<1>6. \A b \in Algorithms :
        /\ b # a => fault_count'[b] = fault_count[b]
        /\ b = a => fault_count'[b] \in {fault_count[a], fault_count[a] + 1}
  BY <1>1, <1>2
<1>7. fault_count' \in [Algorithms -> 0 .. MaxLength]
  <2>1. \A b \in Algorithms : fault_count'[b] \in 0 .. MaxLength
    BY <1>2, <1>3, <1>5, <1>6, PagingAssumption
  <2>. QED BY <1>1, <1>2, <2>1
<1>8. FaultsCounted'
  <2>1. fault_count'[a] < PC'
    BY <1>1, <1>2, <1>5, <1>6, PagingAssumption
  <2>2. ~NotStarted(a)
    BY <1>1 DEF NotStarted
  <2>. QED BY <1>1, <1>6, <2>1, <2>2 DEF FaultsCounted, NotStarted
<1>9. hung = FALSE
  BY <1>1, <1>2
<1>. QED BY <1>1, <1>3, <1>4, <1>7, <1>8, <1>9

(* Whatever frame is used, the TLB and the memory agree afterwards.        *)
LEMMA LoadFacts ==
  ASSUME TypeOK, FrameHoldsPage, page \in Pages, NEW frame, Load(frame)
  PROVE  /\ TLB' \in [Frames -> Pages \cup {NoPage}]
         /\ physical_memory' \in [Frames -> Pages \cup {NoPage}]
         /\ failures' \in 0 .. MaxFailures
         /\ failures' = 0 => failures = 0
         /\ failures > 0 => failures' > 0
         /\ FrameHoldsPage'
         /\ \/ TLB' = TLB /\ (frame \in Frames => failures' # failures)
            \/ /\ frame \in Frames /\ TLB' = [TLB EXCEPT ![frame] = page]
               /\ failures' = failures
<1>. DEFINE p == page
<1>1. /\ TLB \in [Frames -> Pages \cup {NoPage}]
      /\ physical_memory \in [Frames -> Pages \cup {NoPage}]
      /\ failures \in 0 .. MaxFailures /\ p \in Pages
  BY DEF TypeOK
<1>2. \/ /\ frame \in Frames
         /\ physical_memory' = [physical_memory EXCEPT ![frame] = p]
         /\ TLB' = [TLB EXCEPT ![frame] = p]
         /\ failures' = failures
      \/ /\ frame \in Frames /\ failures < MaxFailures
         /\ failures' = failures + 1
         /\ TLB' = TLB /\ physical_memory' = physical_memory
      \/ /\ frame \notin Frames
         /\ TLB' = TLB /\ physical_memory' = physical_memory
         /\ failures' = failures
  BY DEF Load
<1>. HIDE DEF p
<1>3. CASE /\ frame \in Frames
           /\ physical_memory' = [physical_memory EXCEPT ![frame] = p]
           /\ TLB' = [TLB EXCEPT ![frame] = p]
           /\ failures' = failures
  BY <1>1, <1>3, PagingAssumption DEF FrameHoldsPage, p
<1>4. CASE /\ frame \in Frames /\ failures < MaxFailures
           /\ failures' = failures + 1
           /\ TLB' = TLB /\ physical_memory' = physical_memory
  BY <1>1, <1>4, PagingAssumption DEF FrameHoldsPage
<1>5. CASE /\ frame \notin Frames
           /\ TLB' = TLB /\ physical_memory' = physical_memory
           /\ failures' = failures
  BY <1>1, <1>5, PagingAssumption DEF FrameHoldsPage
<1>. QED BY <1>2, <1>3, <1>4, <1>5

(* A list with each page once is as long as its set of pages.              *)
LEMMA OnceLength ==
  ASSUME NEW list \in Seq(Pages), Once(list)
  PROVE  IsFiniteSet(ToSet(list)) /\ Cardinality(ToSet(list)) = Len(list)
<1>1. /\ list \in [1 .. Len(list) -> ToSet(list)] /\ Len(list) \in Nat
      /\ DOMAIN list = 1 .. Len(list)
  BY DEF ToSet
<1>2. list \in Bijection(1 .. Len(list), ToSet(list))
  BY <1>1 DEF Once, ToSet, Bijection, Injection, Surjection, IsInjective
<1>3. ExistsBijection(1 .. Len(list), ToSet(list))
  BY <1>2 DEF ExistsBijection
<1>4. /\ IsFiniteSet(1 .. Len(list))
      /\ Cardinality(1 .. Len(list)) = Len(list)
  <2>1. ASSUME NEW n \in Nat
        PROVE  IsFiniteSet(1 .. n) /\ Cardinality(1 .. n) = n
    BY FS_Interval
  <2>. QED BY <1>1, <2>1
<1>. QED BY <1>3, <1>4, FS_Bijection

(* The history is as long as there are frames in use, so it is full when   *)
(* no frame is empty, and only then.                                       *)
LEMMA HistoryLength ==
  ASSUME TypeOK, PageLoadedOnce, HistoryInv,
         alg \in {"FIFO", "LRU"}, failures = 0
  PROVE  /\ Len(history) = Cardinality(Loaded)
         /\ Len(history) <= NUMBER_OF_FRAMES
         /\ (findEmptyFrame = NOT_FOUND) <=> (Len(history) = NUMBER_OF_FRAMES)
<1>. DEFINE O == {f \in Frames : TLB[f] # NoPage}
<1>1. /\ TLB \in [Frames -> Pages \cup {NoPage}] /\ history \in Seq(Pages)
      /\ \A f, g \in Frames : TLB[f] = TLB[g] /\ TLB[f] # NoPage => f = g
      /\ Once(history) /\ ToSet(history) = Loaded
  BY DEF TypeOK, PageLoadedOnce, HistoryInv
<1>2. ExistsBijection(O, Loaded)
  <2>. DEFINE t == [f \in O |-> TLB[f]]
  <2>1. t \in [O -> Loaded]
    BY <1>1 DEF Loaded
  <2>2. \A f, g \in O : t[f] = t[g] => f = g
    BY <1>1
  <2>3. \A p \in Loaded : \E f \in O : t[f] = p
    BY <1>1 DEF Loaded
  <2>. HIDE DEF t, O
  <2>4. t \in Bijection(O, Loaded)
    BY <2>1, <2>2, <2>3 DEF Bijection, Injection, Surjection, IsInjective
  <2>. QED BY <2>4 DEF ExistsBijection
<1>3. O \in SUBSET Frames
  OBVIOUS
<1>4. findEmptyFrame = NOT_FOUND <=> O = Frames
  <2>. DEFINE E == {f \in Frames : TLB[f] = NoPage}
  <2>1. findEmptyFrame = NOT_FOUND <=> E = {}
    BY FirstOfFacts DEF findEmptyFrame
  <2>. QED BY <2>1
<1>. HIDE DEF O
<1>5. /\ IsFiniteSet(O) /\ Cardinality(O) <= NUMBER_OF_FRAMES
      /\ Cardinality(O) = NUMBER_OF_FRAMES <=> O = Frames
  BY <1>3, FramesFacts, FS_Subset
<1>6. Cardinality(Loaded) = Cardinality(O)
  BY <1>2, <1>5, FS_Bijection
<1>7. Len(history) = Cardinality(Loaded)
  BY <1>1, OnceLength
<1>. QED BY <1>4, <1>5, <1>6, <1>7

(* What a miss without a failed load leaves in the history, and that its   *)
(* pages are again those in the frames.                                    *)
LEMMA MissFacts ==
  ASSUME TypeOK, FrameHoldsPage, PageLoadedOnce, HistoryInv, page \in Pages,
         alg \in {"FIFO", "LRU"}, ~Hit, SwapByHistory, failures' = 0
  PROVE  LET n == Len(history)
             m == IF n < NUMBER_OF_FRAMES THEN n ELSE n - 1
         IN  /\ failures = 0
             /\ history' \in Seq(Pages) /\ Len(history') = m + 1
             /\ history'[1] = page
             /\ \A i \in 1 .. m : history'[i + 1] = history[i]
             /\ n <= NUMBER_OF_FRAMES
             /\ page \notin ToSet(history)
             /\ Once(history') /\ ToSet(history') = Loaded'
<1>. DEFINE n == Len(history)
            m == IF n < NUMBER_OF_FRAMES THEN n ELSE n - 1
            p == page
<1>1. /\ TLB \in [Frames -> Pages \cup {NoPage}] /\ history \in Seq(Pages)
      /\ failures \in Nat /\ p \in Pages
  BY DEF TypeOK
<1>2. failures = 0
  BY <1>1, LoadFacts DEF SwapByHistory
<1>3. /\ \A f, g \in Frames : TLB[f] = TLB[g] /\ TLB[f] # NoPage => f = g
      /\ Once(history) /\ ToSet(history) = Loaded
  BY <1>2 DEF PageLoadedOnce, HistoryInv
<1>4. p \notin Loaded
  <2>1. {f \in Frames : TLB[f] = p} = {}
    BY FirstOfFacts DEF Hit, is_PageLoaded
  <2>. QED BY <2>1 DEF Loaded
<1>5. /\ n \in Nat /\ n <= NUMBER_OF_FRAMES
      /\ (findEmptyFrame = NOT_FOUND) <=> (n = NUMBER_OF_FRAMES)
  BY <1>1, <1>2, HistoryLength
<1>6. p # NoPage
  BY PagingAssumption
<1>7. CASE findEmptyFrame # NOT_FOUND
  <2>. DEFINE e == findEmptyFrame
  <2>1. history' = AddToHead(history, p) /\ Load(e)
    BY <1>7 DEF SwapByHistory
  <2>2. e \in Frames /\ TLB[e] = NoPage
    BY <1>7, FirstOfFacts DEF findEmptyFrame
  <2>. HIDE DEF e
  <2>3. TLB' = [TLB EXCEPT ![e] = p]
    BY <1>2, <2>1, <2>2, LoadFacts
  <2>4. n < NUMBER_OF_FRAMES /\ m = n
    BY <1>5, <1>7, PagingAssumption
  <2>. HIDE DEF p
  <2>5. /\ history' \in Seq(Pages) /\ Len(history') = n + 1
        /\ history'[1] = p
        /\ \A i \in 1 .. n : history'[i + 1] = history[i]
    BY <1>1, <2>1, AddToHeadFacts
  <2>6. Loaded' = Loaded \cup {p}
    BY <1>1, <1>6, <2>2, <2>3 DEF Loaded
  <2>7. \A i \in 1 .. n + 1 : i # 1 => \E j \in 1 .. n : i = j + 1
    BY <1>5
  <2>. HIDE DEF n
  <2>8. ToSet(history') = ToSet(history) \cup {p}
    <3>1. /\ ToSet(history) = {history[i] : i \in 1 .. n}
          /\ ToSet(history') = {history'[i] : i \in 1 .. n + 1}
      BY <1>1, <2>5, ListFacts DEF n
    <3>2. ASSUME NEW x
          PROVE  x \in ToSet(history') <=> x \in ToSet(history) \/ x = p
      <4>1. ASSUME x \in ToSet(history')
            PROVE  x \in ToSet(history) \/ x = p
        <5>1. PICK i \in 1 .. n + 1 : x = history'[i]
          BY <3>1, <4>1
        <5>. QED BY <2>5, <2>7, <3>1, <5>1
      <4>2. ASSUME x \in ToSet(history) PROVE x \in ToSet(history')
        <5>1. PICK i \in 1 .. n : x = history[i]
          BY <3>1, <4>2
        <5>2. i + 1 \in 1 .. n + 1
          BY <1>5, <5>1
        <5>. QED BY <2>5, <3>1, <5>1, <5>2
      <4>3. p \in ToSet(history')
        <5>1. 1 \in 1 .. n + 1
          BY <1>5
        <5>. QED BY <2>5, <3>1, <5>1
      <4>. QED BY <4>1, <4>2, <4>3
    <3>. QED BY <3>2
  <2>9. Once(history')
    <3>1. DOMAIN history' = 1 .. n + 1 /\ DOMAIN history = 1 .. n
      BY <1>1, <2>5, ListFacts DEF n
    <3>2. \A i \in 1 .. n : history[i] # p
      BY <1>3, <1>4, <3>1 DEF ToSet
    <3>. QED BY <1>3, <2>5, <2>7, <3>1, <3>2, SMTT(30) DEF Once
  <2>. QED BY <1>2, <1>3, <1>4, <1>5, <2>4, <2>5, <2>6, <2>8, <2>9 DEF p, n
<1>8. CASE findEmptyFrame = NOT_FOUND
  <2>. DEFINE t == TailPage(history)
              e == is_PageLoaded(t)
  <2>1. history' = AddToHead(WithoutTail(history), p) /\ Load(e)
    BY <1>8 DEF SwapByHistory
  <2>2. n = NUMBER_OF_FRAMES /\ n > 1 /\ m = n - 1
    BY <1>5, <1>8, PagingAssumption
  <2>3. t = history[n] /\ t \in Loaded
    <3>1. history # <<>>
      BY <2>2
    <3>2. t = history[n]
      BY <3>1 DEF TailPage, Last
    <3>. QED BY <1>1, <1>3, <2>2, <3>2, ListFacts
  <2>. HIDE DEF t
  <2>4. e \in Frames /\ TLB[e] = t
    <3>1. {f \in Frames : TLB[f] = t} # {}
      BY <2>3 DEF Loaded
    <3>. QED BY <3>1, FirstOfFacts DEF is_PageLoaded
  <2>. HIDE DEF e
  <2>5. TLB' = [TLB EXCEPT ![e] = p]
    BY <1>2, <2>1, <2>4, LoadFacts
  <2>. HIDE DEF p
  <2>6. /\ history' \in Seq(Pages) /\ Len(history') = n
        /\ history'[1] = p
        /\ \A i \in 1 .. n - 1 : history'[i + 1] = history[i]
    <3>. DEFINE w == WithoutTail(history)
    <3>1. /\ w \in Seq(Pages) /\ Len(w) = n - 1
          /\ \A i \in 1 .. n - 1 : w[i] = history[i]
      BY <1>1, <2>2, WithoutTailFacts
    <3>. HIDE DEF w
    <3>2. /\ AddToHead(w, p) \in Seq(Pages)
          /\ Len(AddToHead(w, p)) = Len(w) + 1
          /\ AddToHead(w, p)[1] = p
          /\ \A i \in 1 .. Len(w) : AddToHead(w, p)[i + 1] = w[i]
      BY <1>1, <3>1, AddToHeadFacts
    <3>3. history' = AddToHead(w, p)
      BY <2>1 DEF w
    <3>. HIDE DEF n
    <3>. QED BY <1>5, <3>1, <3>2, <3>3
  <2>7. Loaded' = (Loaded \ {t}) \cup {p}
    BY <1>1, <1>3, <1>6, <2>3, <2>4, <2>5 DEF Loaded
  <2>8. /\ \A i \in 1 .. n : i # 1 => \E j \in 1 .. n - 1 : i = j + 1
        /\ \A i \in 1 .. n : i # n => i \in 1 .. n - 1
        /\ \A i \in 1 .. n - 1 : i \in 1 .. n /\ i # n /\ i + 1 \in 1 .. n
        /\ n \in 1 .. n /\ 1 \in 1 .. n
    BY <1>5, <2>2
  <2>. HIDE DEF n
  <2>9. /\ DOMAIN history' = 1 .. n /\ DOMAIN history = 1 .. n
        /\ ToSet(history) = {history[i] : i \in 1 .. n}
        /\ ToSet(history') = {history'[i] : i \in 1 .. n}
    BY <1>1, <2>6, ListFacts DEF n
  <2>10. \A i \in 1 .. n : history[i] = t <=> i = n
    BY <1>3, <2>3, <2>8, <2>9 DEF Once
  <2>11. ToSet(history') = (ToSet(history) \ {t}) \cup {p}
    <3>1. ASSUME NEW x
          PROVE  x \in ToSet(history')
                   <=> (x \in ToSet(history) /\ x # t) \/ x = p
      <4>1. ASSUME x \in ToSet(history')
            PROVE  (x \in ToSet(history) /\ x # t) \/ x = p
        <5>1. PICK i \in 1 .. n : x = history'[i]
          BY <2>9, <4>1
        <5>2. ASSUME i # 1 PROVE x \in ToSet(history) /\ x # t
          <6>1. PICK j \in 1 .. n - 1 : i = j + 1
            BY <2>8, <5>2
          <6>2. x = history[j] /\ j \in 1 .. n /\ j # n
            BY <2>6, <2>8, <5>1, <6>1
          <6>. QED BY <2>9, <2>10, <6>2
        <5>. QED BY <2>6, <5>1, <5>2
      <4>2. ASSUME x \in ToSet(history), x # t PROVE x \in ToSet(history')
        <5>1. PICK i \in 1 .. n : x = history[i] /\ i # n
          BY <2>9, <2>10, <4>2
        <5>. QED BY <2>6, <2>8, <2>9, <5>1
      <4>3. p \in ToSet(history')
        BY <2>6, <2>8, <2>9
      <4>. QED BY <4>1, <4>2, <4>3
    <3>. QED BY <3>1
  <2>12. Once(history')
    <3>1. \A i \in 1 .. n : history[i] # p
      BY <1>3, <1>4, <2>9
    <3>2. \A i, j \in 1 .. n : history[i] = history[j] => i = j
      BY <1>3, <2>9 DEF Once
    <3>3. ASSUME NEW i \in 1 .. n, NEW j \in 1 .. n, history'[i] = history'[j]
          PROVE  i = j
      <4>1. i # 1 => \E k \in 1 .. n : i = k + 1 /\ history'[i] = history[k]
        BY <2>6, <2>8
      <4>2. j # 1 => \E k \in 1 .. n : j = k + 1 /\ history'[j] = history[k]
        BY <2>6, <2>8
      <4>. QED BY <2>6, <3>1, <3>2, <3>3, <4>1, <4>2
    <3>. QED BY <2>9, <3>3 DEF Once
  <2>. QED BY <1>2, <1>3, <1>4, <1>5, <2>2, <2>6, <2>7, <2>11, <2>12 DEF p, n
<1>. QED BY <1>7, <1>8

(* What a hit with LRU leaves in the history: the same pages, each once.   *)
LEMMA HitFacts ==
  ASSUME NEW list \in Seq(Pages), Once(list), NEW p \in Pages,
         p \in ToSet(list)
  PROVE  /\ Once(MoveToHead(list, p))
         /\ ToSet(MoveToHead(list, p)) = ToSet(list)
         /\ MoveToHeadEnds(list, p)
<1>. DEFINE len == Len(list)
            new == MoveToHead(list, p)
<1>1. Contains(list, p)
  BY DEF ToSet, Contains
<1>2. len \in Nat /\ DOMAIN list = 1 .. len
  OBVIOUS
<1>3. PICK n \in 1 .. len :
        /\ list[n] = p
        /\ new \in Seq(Pages) /\ Len(new) = len
        /\ \A i \in 1 .. len :
             new[i] = IF i = 1 THEN p
                      ELSE IF i <= n THEN list[i - 1] ELSE list[i]
  BY <1>1, MoveToHeadFacts
<1>. DEFINE from(i) == IF i = 1 THEN n ELSE IF i <= n THEN i - 1 ELSE i
            to(i) == IF i = n THEN 1 ELSE IF i < n THEN i + 1 ELSE i
<1>4. DOMAIN new = 1 .. len
  BY <1>3
<1>. HIDE DEF len, new
<1>5. \A i \in 1 .. len : from(i) \in 1 .. len /\ new[i] = list[from(i)]
  BY <1>2, <1>3
<1>6. \A i \in 1 .. len : to(i) \in 1 .. len /\ from(to(i)) = i
  BY <1>2, <1>3
<1>7. \A i, j \in 1 .. len : from(i) = from(j) => i = j
  BY <1>2, <1>3
<1>. HIDE DEF from, to
<1>8. Once(new)
  BY <1>2, <1>4, <1>5, <1>7 DEF Once
<1>9. ToSet(new) = ToSet(list)
  BY <1>2, <1>4, <1>5, <1>6 DEF ToSet
<1>10. MoveToHeadEnds(list, p)
  BY <1>1 DEF MoveToHeadEnds, RemoveEnds
<1>. QED BY <1>8, <1>9, <1>10 DEF new

-----------------------------------------------------------------------------
(* Every step keeps the invariant.                                         *)

(* What Load does to the frames if the page is in none of them, or if its  *)
(* own frame is used.                                                      *)
LEMMA LoadKeepsOnce ==
  ASSUME TypeOK, FrameHoldsPage, PageLoadedOnce, page \in Pages,
         alg \in {"FIFO", "LRU"}, NEW frame, Load(frame),
         ~Hit \/ frame = is_PageLoaded(page)
  PROVE  /\ \A f, g \in Frames : TLB'[f] = TLB'[g] /\ TLB'[f] # NoPage => f = g
         /\ Hit => TLB' = TLB
<1>. DEFINE p == page
<1>1. /\ TLB \in [Frames -> Pages \cup {NoPage}] /\ p \in Pages
      /\ \A f, g \in Frames : TLB[f] = TLB[g] /\ TLB[f] # NoPage => f = g
  BY DEF TypeOK, PageLoadedOnce
<1>2. \/ TLB' = TLB
      \/ frame \in Frames /\ TLB' = [TLB EXCEPT ![frame] = p]
  BY LoadFacts
<1>3. IF Hit THEN frame \in Frames => TLB[frame] = p
             ELSE \A f \in Frames : TLB[f] # p
  <2>. DEFINE F == {f \in Frames : TLB[f] = p}
  <2>1. is_PageLoaded(p) = FirstOf(F)
    BY DEF is_PageLoaded
  <2>. QED BY <2>1, FirstOfFacts DEF Hit
<1>. HIDE DEF p
<1>4. CASE Hit
  BY <1>1, <1>2, <1>3, <1>4
<1>5. CASE ~Hit
  BY <1>1, <1>2, <1>3, <1>5
<1>. QED BY <1>4, <1>5

(* A hit is a page in some frame.                                          *)
LEMMA HitIsLoaded ==
  ASSUME page \in Pages, Hit
  PROVE  page \in Loaded
<1>1. is_PageLoaded(page) \in {f \in Frames : TLB[f] = page}
  BY FirstOfFacts DEF Hit, is_PageLoaded
<1>2. page # NoPage
  BY PagingAssumption
<1>. QED BY <1>1, <1>2 DEF Loaded

(* A swap leaves a list of pages, also after failed loads.                 *)
LEMMA SwapIsHistory ==
  ASSUME history \in Seq(Pages), page \in Pages, SwapByHistory
  PROVE  history' \in Seq(Pages)
<1>1. WithoutTail(history) \in Seq(Pages)
  BY WithoutTailFacts
<1>. QED BY <1>1, AddToHeadFacts DEF SwapByHistory

LEMMA PassFIFOKeeps == PInv /\ PassFIFO => PInv'
<1>. SUFFICES ASSUME PInv, PassFIFO PROVE PInv'
  OBVIOUS
<1>1. /\ TypeOK /\ FaultsCounted /\ FrameHoldsPage /\ PageLoadedOnce
      /\ HistoryInv /\ HangsOnlyAfterFailure
  BY DEF PInv
<1>2. Pass("FIFO") /\ misplaced' = misplaced
  BY DEF PassFIFO
<1>3. /\ page \in Pages /\ FaultsCounted'
      /\ PC' \in 1 .. Len(addressList) + 1
      /\ fault_count' \in [Algorithms -> 0 .. MaxLength]
      /\ alg = "FIFO" /\ hung = FALSE
      /\ addressList' = addressList /\ alg' = alg /\ hung' = hung
  BY <1>1, <1>2, PassFacts DEF Algorithms
<1>4. PICK frame :
        /\ Load(frame) /\ (~Hit \/ frame = is_PageLoaded(page))
        /\ \/ ~Hit /\ SwapByHistory
           \/ Hit /\ history' = history
  BY DEF PassFIFO, SwapByHistory
<1>5. /\ TLB' \in [Frames -> Pages \cup {NoPage}]
      /\ physical_memory' \in [Frames -> Pages \cup {NoPage}]
      /\ failures' \in 0 .. MaxFailures
      /\ failures' = 0 => failures = 0
      /\ FrameHoldsPage'
  BY <1>1, <1>3, <1>4, LoadFacts
<1>6. PageLoadedOnce' /\ (Hit => TLB' = TLB)
  <2>1. /\ \A f, g \in Frames :
             TLB'[f] = TLB'[g] /\ TLB'[f] # NoPage => f = g
        /\ Hit => TLB' = TLB
    BY <1>1, <1>3, <1>4, LoadKeepsOnce
  <2>. QED BY <2>1 DEF PageLoadedOnce
<1>7. history' \in Seq(Pages)
  BY <1>1, <1>3, <1>4, SwapIsHistory DEF TypeOK
<1>8. HistoryInv'
  <2>. SUFFICES ASSUME failures' = 0
                PROVE  Once(history') /\ ToSet(history') = Loaded'
    BY DEF HistoryInv
  <2>1. CASE Hit
    <3>1. Loaded' = Loaded
      BY <1>6, <2>1 DEF Loaded
    <3>. QED BY <1>1, <1>3, <1>4, <1>5, <2>1, <3>1 DEF HistoryInv
  <2>2. CASE ~Hit
    BY <1>1, <1>3, <1>4, <2>2, MissFacts
  <2>. QED BY <2>1, <2>2
<1>9. TypeOK'
  BY <1>1, <1>2, <1>3, <1>5, <1>7 DEF TypeOK
<1>10. HangsOnlyAfterFailure'
  BY <1>3 DEF HangsOnlyAfterFailure
<1>. QED BY <1>3, <1>5, <1>6, <1>8, <1>9, <1>10 DEF PInv

LEMMA PassLRUKeeps == PInv /\ PassLRU => PInv'
<1>. SUFFICES ASSUME PInv, PassLRU PROVE PInv'
  OBVIOUS
<1>1. /\ TypeOK /\ FaultsCounted /\ FrameHoldsPage /\ PageLoadedOnce
      /\ HistoryInv /\ HangsOnlyAfterFailure
  BY DEF PInv
<1>2. Pass("LRU") /\ misplaced' = misplaced
  BY DEF PassLRU
<1>3. /\ page \in Pages /\ FaultsCounted'
      /\ PC' \in 1 .. Len(addressList) + 1
      /\ fault_count' \in [Algorithms -> 0 .. MaxLength]
      /\ alg = "LRU" /\ hung = FALSE
      /\ addressList' = addressList /\ alg' = alg /\ hung' = hung
  BY <1>1, <1>2, PassFacts DEF Algorithms
<1>4. PICK frame :
        /\ Load(frame) /\ (~Hit \/ frame = is_PageLoaded(page))
        /\ \/ ~Hit /\ SwapByHistory
           \/ /\ Hit /\ MoveToHeadEnds(history, page)
              /\ history' = MoveToHead(history, page)
  BY DEF PassLRU, SwapByHistory
<1>5. /\ TLB' \in [Frames -> Pages \cup {NoPage}]
      /\ physical_memory' \in [Frames -> Pages \cup {NoPage}]
      /\ failures' \in 0 .. MaxFailures
      /\ failures' = 0 => failures = 0
      /\ FrameHoldsPage'
  BY <1>1, <1>3, <1>4, LoadFacts
<1>6. PageLoadedOnce' /\ (Hit => TLB' = TLB)
  <2>1. /\ \A f, g \in Frames :
             TLB'[f] = TLB'[g] /\ TLB'[f] # NoPage => f = g
        /\ Hit => TLB' = TLB
    BY <1>1, <1>3, <1>4, LoadKeepsOnce
  <2>. QED BY <2>1 DEF PageLoadedOnce
<1>7. history' \in Seq(Pages)
  <2>1. CASE ~Hit
    BY <1>1, <1>3, <1>4, <2>1, SwapIsHistory DEF TypeOK
  <2>2. CASE Hit
    <3>1. history \in Seq(Pages)
      BY <1>1 DEF TypeOK
    <3>2. history = <<>> => history' = history
      BY <1>4, <2>2 DEF MoveToHead
    <3>3. history # <<>> /\ Head(history) = page => history' = history
      BY <1>4, <2>2 DEF MoveToHead
    <3>4. history # <<>> /\ Head(history) # page => Contains(history, page)
      BY <1>4, <2>2 DEF MoveToHeadEnds, RemoveEnds
    <3>5. Contains(history, page) => history' \in Seq(Pages)
      BY <1>3, <1>4, <2>2, <3>1, MoveToHeadFacts
    <3>. QED BY <3>1, <3>2, <3>3, <3>4, <3>5
  <2>. QED BY <2>1, <2>2
<1>8. HistoryInv'
  <2>. SUFFICES ASSUME failures' = 0
                PROVE  Once(history') /\ ToSet(history') = Loaded'
    BY DEF HistoryInv
  <2>1. CASE Hit
    <3>1. Loaded' = Loaded
      BY <1>6, <2>1 DEF Loaded
    <3>2. /\ history \in Seq(Pages) /\ Once(history)
          /\ ToSet(history) = Loaded
      BY <1>1, <1>3, <1>5 DEF HistoryInv, TypeOK
    <3>3. page \in Loaded
      BY <1>3, <2>1, HitIsLoaded
    <3>. QED BY <1>3, <1>4, <2>1, <3>1, <3>2, <3>3, HitFacts
  <2>2. CASE ~Hit
    BY <1>1, <1>3, <1>4, <2>2, MissFacts
  <2>. QED BY <2>1, <2>2
<1>9. TypeOK'
  BY <1>1, <1>2, <1>3, <1>5, <1>7 DEF TypeOK
<1>10. HangsOnlyAfterFailure'
  BY <1>3 DEF HangsOnlyAfterFailure
<1>. QED BY <1>3, <1>5, <1>6, <1>8, <1>9, <1>10 DEF PInv

LEMMA PassOptimalKeeps == PInv /\ PassOptimal => PInv'
<1>. SUFFICES ASSUME PInv, PassOptimal PROVE PInv'
  OBVIOUS
<1>1. /\ TypeOK /\ FaultsCounted /\ FrameHoldsPage
  BY DEF PInv
<1>2. Pass("OPTIMUM") /\ history' = history /\ \E frame : Load(frame)
  BY DEF PassOptimal
<1>3. /\ page \in Pages /\ FaultsCounted'
      /\ PC' \in 1 .. Len(addressList) + 1
      /\ fault_count' \in [Algorithms -> 0 .. MaxLength]
      /\ alg = "OPTIMUM" /\ hung = FALSE
      /\ addressList' = addressList /\ alg' = alg /\ hung' = hung
  BY <1>1, <1>2, PassFacts DEF Algorithms
<1>4. /\ TLB' \in [Frames -> Pages \cup {NoPage}]
      /\ physical_memory' \in [Frames -> Pages \cup {NoPage}]
      /\ failures' \in 0 .. MaxFailures
      /\ FrameHoldsPage'
  BY <1>1, <1>2, <1>3, LoadFacts
<1>5. misplaced' \in BOOLEAN
  BY <1>1 DEF PassOptimal, TypeOK
<1>6. TypeOK'
  BY <1>1, <1>2, <1>3, <1>4, <1>5 DEF TypeOK
<1>7. PageLoadedOnce' /\ HistoryInv' /\ HangsOnlyAfterFailure'
  BY <1>3 DEF PageLoadedOnce, HistoryInv, HangsOnlyAfterFailure
<1>. QED BY <1>3, <1>4, <1>6, <1>7 DEF PInv

(* A hit is a page in the history, so Remove finds it.                     *)
LEMMA HangLRUKeeps == PInv /\ HangLRU => PInv'
<1>. SUFFICES ASSUME PInv, HangLRU PROVE PInv'
  OBVIOUS
<1>1. failures # 0
  <2>. SUFFICES ASSUME failures = 0 PROVE FALSE
    OBVIOUS
  <2>1. /\ history \in Seq(Pages) /\ Once(history)
        /\ ToSet(history) = Loaded
    BY DEF PInv, HistoryInv, TypeOK, HangLRU
  <2>2. page \in Pages
    <3>1. PC \in 1 .. Len(addressList) /\ addressList \in Seq(Pages)
      BY DEF PInv, TypeOK, HangLRU
    <3>. QED BY <3>1 DEF page
  <2>3. Hit /\ ~MoveToHeadEnds(history, page)
    BY DEF HangLRU
  <2>. QED BY <2>1, <2>2, <2>3, HitIsLoaded, HitFacts
<1>2. failures \in 0 .. MaxFailures
  BY DEF PInv, TypeOK
<1>3. HangsOnlyAfterFailure'
  BY <1>1, <1>2, PagingAssumption DEF HangLRU, HangsOnlyAfterFailure
<1>. QED
  BY <1>3 DEF PInv, HangLRU, TypeOK, FaultsCounted, NotStarted, FrameHoldsPage,
              PageLoadedOnce, HistoryInv, Once, Loaded

LEMMA NextRunKeeps == PInv /\ NextRun => PInv'
<1>. SUFFICES ASSUME PInv, NextRun PROVE PInv'
  OBVIOUS
<1>1. /\ TypeOK /\ FaultsCounted /\ hung \in BOOLEAN
      /\ Len(addressList) \in 1 .. MaxLength
  BY DEF PInv, TypeOK
<1>2. /\ alg \in {"FIFO", "LRU"} /\ ~hung /\ hung' = hung
      /\ alg' = IF alg = "FIFO" THEN "LRU" ELSE "OPTIMUM"
      /\ history' = IF alg = "FIFO" THEN <<>> ELSE history
      /\ PC' = 1
      /\ TLB' = [f \in Frames |-> NoPage]
      /\ physical_memory' = [f \in Frames |-> NoPage]
      /\ UNCHANGED <<addressList, fault_count, failures, misplaced>>
  BY DEF NextRun, EmptyFrames
<1>3. TypeOK'
  <2>1. PC' \in 1 .. Len(addressList') + 1
    BY <1>1, <1>2, PagingAssumption
  <2>2. TLB' \in [Frames -> Pages \cup {NoPage}]
    BY <1>2
  <2>3. physical_memory' \in [Frames -> Pages \cup {NoPage}]
    BY <1>2
  <2>4. history' \in Seq(Pages) /\ alg' \in Algorithms \cup {"done"}
    BY <1>1, <1>2 DEF TypeOK, Algorithms
  <2>. QED BY <1>1, <1>2, <2>1, <2>2, <2>3, <2>4 DEF TypeOK
<1>4. FaultsCounted'
  BY <1>1, <1>2 DEF FaultsCounted, NotStarted, Algorithms
<1>5. FrameHoldsPage' /\ PageLoadedOnce'
  BY <1>2 DEF FrameHoldsPage, PageLoadedOnce
<1>6. HistoryInv'
  <2>1. Loaded' = {}
    BY <1>2 DEF Loaded
  <2>. QED BY <1>2, <2>1 DEF HistoryInv, Once, ToSet
<1>7. HangsOnlyAfterFailure'
  BY <1>1, <1>2 DEF HangsOnlyAfterFailure
<1>. QED BY <1>3, <1>4, <1>5, <1>6, <1>7 DEF PInv

LEMMA PagingStep == PInv /\ [Next]_vars => PInv'
<1>. SUFFICES ASSUME PInv, [Next]_vars PROVE PInv'
  OBVIOUS
<1>1. CASE LastRun
  BY <1>1 DEF LastRun, PInv, TypeOK, Algorithms, FaultsCounted, NotStarted,
              FrameHoldsPage, PageLoadedOnce, HistoryInv, Once, Loaded,
              HangsOnlyAfterFailure
<1>2. CASE UNCHANGED vars
  BY <1>2 DEF vars, PInv, TypeOK, FaultsCounted, NotStarted, FrameHoldsPage,
              PageLoadedOnce, HistoryInv, Once, Loaded, HangsOnlyAfterFailure
<1>. QED BY <1>1, <1>2, PassFIFOKeeps, PassLRUKeeps, PassOptimalKeeps,
            HangLRUKeeps, NextRunKeeps DEF Next, Finished

LEMMA PagingInvariant == Spec => []PInv
BY PagingInit, PagingStep, PTL DEF Spec

-----------------------------------------------------------------------------
(* FIFO against the queue of the reference string.                         *)

(* The recursive definition of QueueAfter has a solution: a function that  *)
(* satisfies it up to n exists for every n, as there is no least n without.*)
LEMMA QueueIsDefined ==
  ASSUME addressList \in Seq(Pages)
  PROVE  /\ QueueAfter[0] = <<>>
         /\ \A n \in 1 .. Len(addressList) :
              QueueAfter[n] = Enqueue(QueueAfter[n - 1], addressList[n])
<1>. DEFINE e(q, n) == Enqueue(q, addressList[n])
            Solves(g, n) ==
              g = [i \in 0 .. n |-> IF i = 0 THEN <<>> ELSE e(g[i - 1], i)]
            S == {n \in Nat : ~ \E g : Solves(g, n)}
<1>. HIDE DEF e
<1>1. S = {}
  <2>. SUFFICES ASSUME S # {} PROVE FALSE
    OBVIOUS
  <2>1. PICK m \in S : \A n \in S : m <= n
    BY LeastElement
  <2>2. m # 0
    <3>. DEFINE h == [i \in 0 .. 0 |-> <<>>]
    <3>1. \A i \in 0 .. 0 : <<>> = IF i = 0 THEN <<>> ELSE e(h[i - 1], i)
      OBVIOUS
    <3>2. Solves(h, 0)
      BY <3>1, Zenon
    <3>. QED BY <2>1, <3>2
  <2>3. m \in Nat /\ m - 1 \in Nat /\ m - 1 \notin S
    BY <2>1, <2>2
  <2>4. PICK g : Solves(g, m - 1)
    BY <2>3
  <2>. DEFINE h == [i \in 0 .. m |-> IF i < m THEN g[i] ELSE e(g[m - 1], m)]
  <2>5. Solves(h, m)
    <3>1. ASSUME NEW i \in 0 .. m
          PROVE  h[i] = IF i = 0 THEN <<>> ELSE e(h[i - 1], i)
      <4>1. i < m => g[i] = IF i = 0 THEN <<>> ELSE e(g[i - 1], i)
        BY <2>3, <2>4
      <4>2. i # 0 => i - 1 \in 0 .. m /\ i - 1 < m
        BY <2>3
      <4>. QED BY <2>2, <2>3, <4>1, <4>2
    <3>. QED BY <3>1
  <2>. QED BY <2>1, <2>5
<1>. DEFINE len == Len(addressList)
<1>2. \E g : Solves(g, len)
  BY <1>1
<1>3. Solves(QueueAfter, len)
  <2>. DEFINE Eq(g) ==
         g = [n \in 0 .. len |-> IF n = 0 THEN <<>>
                                 ELSE Enqueue(g[n - 1], addressList[n])]
  <2>1. \E g : Eq(g)
    BY <1>2, Zenon DEF e
  <2>2. QueueAfter = CHOOSE g : Eq(g)
    BY Zenon DEF QueueAfter
  <2>. HIDE DEF Eq
  <2>3. Eq(QueueAfter)
    BY <2>1, <2>2, Zenon
  <2>. QED BY <2>3, Zenon DEF Eq, e
<1>4. \A n \in 0 .. len :
        QueueAfter[n] = IF n = 0 THEN <<>> ELSE e(QueueAfter[n - 1], n)
  <2>. DEFINE Q == QueueAfter
  <2>. HIDE DEF Q
  <2>1. Q = [n \in 0 .. len |-> IF n = 0 THEN <<>> ELSE e(Q[n - 1], n)]
    BY <1>3, Zenon DEF Q
  <2>. QED BY <2>1, Zenon DEF Q
<1>5. 0 \in 0 .. len /\ \A n \in 1 .. len : n \in 0 .. len /\ n # 0
  OBVIOUS
<1>. HIDE DEF len
<1>6. QueueAfter[0] = <<>>
  BY <1>4, <1>5
<1>7. \A n \in 1 .. len : QueueAfter[n] = e(QueueAfter[n - 1], n)
  BY <1>4, <1>5
<1>. QED BY <1>6, <1>7 DEF len, e

(* What the queue becomes when a page enters it.                           *)
LEMMA EnqueueFacts ==
  ASSUME NEW q \in Seq(Pages), NEW p \in Pages, ~Contains(q, p)
  PROVE  LET new == Enqueue(q, p)
             len == Len(q)
         IN  /\ new \in Seq(Pages)
             /\ len < NUMBER_OF_FRAMES =>
                  /\ Len(new) = len + 1 /\ new[len + 1] = p
                  /\ \A i \in 1 .. len : new[i] = q[i]
             /\ len = NUMBER_OF_FRAMES =>
                  /\ Len(new) = len /\ new[len] = p
                  /\ \A i \in 1 .. len - 1 : new[i] = q[i + 1]
<1>. DEFINE len == Len(q)
<1>1. CASE len < NUMBER_OF_FRAMES
  <2>1. Enqueue(q, p) = Append(q, p)
    BY <1>1 DEF Enqueue
  <2>. QED BY <1>1, <2>1, PagingAssumption
<1>2. CASE ~(len < NUMBER_OF_FRAMES)
  <2>. DEFINE t == Tail(q)
  <2>1. Enqueue(q, p) = Append(t, p)
    BY <1>2 DEF Enqueue
  <2>2. /\ t \in Seq(Pages) /\ Len(t) = len - 1 /\ len \in Nat
        /\ \A i \in 1 .. len - 1 : t[i] = q[i + 1]
    BY <1>2, PagingAssumption
  <2>. HIDE DEF t
  <2>3. /\ Append(t, p) \in Seq(Pages) /\ Len(Append(t, p)) = len
        /\ Append(t, p)[len] = p
        /\ \A i \in 1 .. len - 1 : Append(t, p)[i] = t[i]
    BY <2>2
  <2>. QED BY <1>2, <2>1, <2>2, <2>3
<1>. QED BY <1>1, <1>2

(* Without failed loads, FIFO's history is the queue read backwards.       *)
QueueInv ==
  alg = "FIFO" /\ failures = 0 =>
    LET q == QueueAfter[PC - 1]
    IN  /\ q \in Seq(Pages) /\ Len(q) = Len(history)
        /\ \A i \in 1 .. Len(history) : history[i] = q[Len(history) + 1 - i]

LEMMA QueueInvInit == Init => QueueInv
<1>. SUFFICES ASSUME Init PROVE QueueInv
  OBVIOUS
<1>1. TypeOK
  BY PagingInit DEF PInv
<1>2. QueueAfter[PC - 1] = <<>>
  BY <1>1, QueueIsDefined DEF Init, TypeOK
<1>. QED BY <1>2 DEF Init, QueueInv

(* The queue is one for the whole program: the references do not change.   *)
LEMMA QueueStays ==
  ASSUME addressList' = addressList
  PROVE  QueueAfter' = QueueAfter
BY DEF QueueAfter

LEMMA QueueInvPass == PInv /\ QueueInv /\ PassFIFO => QueueInv'
<1>. SUFFICES ASSUME PInv, QueueInv, PassFIFO, failures' = 0 PROVE QueueInv'
  BY DEF QueueInv
<1>1. /\ TypeOK /\ FaultsCounted /\ FrameHoldsPage /\ PageLoadedOnce
      /\ HistoryInv
  BY DEF PInv
<1>2. /\ page \in Pages /\ PC' = PC + 1 /\ alg = "FIFO"
      /\ addressList' = addressList
  BY <1>1, PassFacts DEF PassFIFO, Algorithms
<1>3. PICK frame :
        /\ Load(frame)
        /\ \/ ~Hit /\ SwapByHistory
           \/ Hit /\ history' = history
  BY DEF PassFIFO, SwapByHistory
<1>4. failures = 0
  BY <1>1, <1>2, <1>3, LoadFacts
<1>. DEFINE q == QueueAfter[PC - 1]
            new == QueueAfter[PC]
            n == Len(history)
<1>5. /\ history \in Seq(Pages) /\ q \in Seq(Pages) /\ Len(q) = n /\ n \in Nat
      /\ \A i \in 1 .. n : history[i] = q[n + 1 - i]
      /\ Once(history) /\ ToSet(history) = Loaded
  BY <1>1, <1>2, <1>4 DEF TypeOK, QueueInv, HistoryInv
<1>6. new = Enqueue(q, page)
  <2>1. PC \in 1 .. Len(addressList) /\ addressList \in Seq(Pages)
    BY <1>1 DEF TypeOK, PassFIFO, Pass
  <2>. QED BY <2>1, QueueIsDefined DEF page
<1>7. QueueAfter'[PC' - 1] = new
  <2>1. PC' - 1 = PC
    BY <1>1, <1>2 DEF TypeOK
  <2>. QED BY <1>2, <2>1, QueueStays
<1>8. Contains(q, page) <=> page \in ToSet(history)
  <2>. HIDE DEF q, n
  <2>1. ToSet(history) = {history[i] : i \in 1 .. n}
    BY <1>5, ListFacts DEF n
  <2>2. \A i \in 1 .. n : n + 1 - i \in 1 .. n /\ n + 1 - (n + 1 - i) = i
    BY <1>5
  <2>3. Contains(q, page) <=> \E i \in 1 .. n : q[i] = page
    BY <1>5 DEF Contains
  <2>. QED BY <1>5, <2>1, <2>2, <2>3
<1>. HIDE DEF q
<1>9. CASE Hit
  <2>1. page \in Loaded /\ history' = history
    BY <1>2, <1>3, <1>9, HitIsLoaded
  <2>2. new = q
    BY <1>5, <1>6, <1>8, <2>1 DEF Enqueue
  <2>. HIDE DEF new
  <2>. QED BY <1>2, <1>5, <1>7, <2>1, <2>2 DEF QueueInv
<1>10. CASE ~Hit
  <2>. DEFINE m == IF n < NUMBER_OF_FRAMES THEN n ELSE n - 1
  <2>1. /\ history' \in Seq(Pages) /\ Len(history') = m + 1
        /\ history'[1] = page
        /\ \A i \in 1 .. m : history'[i + 1] = history[i]
        /\ n <= NUMBER_OF_FRAMES
        /\ page \notin ToSet(history)
    BY <1>1, <1>2, <1>3, <1>10, MissFacts
  <2>2. /\ new \in Seq(Pages)
        /\ n < NUMBER_OF_FRAMES =>
             /\ Len(new) = n + 1 /\ new[n + 1] = page
             /\ \A i \in 1 .. n : new[i] = q[i]
        /\ n = NUMBER_OF_FRAMES =>
             /\ Len(new) = n /\ new[n] = page
             /\ \A i \in 1 .. n - 1 : new[i] = q[i + 1]
    BY <1>2, <1>5, <1>6, <1>8, <2>1, EnqueueFacts
  <2>. HIDE DEF new, n
  <2>3. Len(new) = m + 1 /\ m \in Nat /\ new[m + 1] = page
    BY <1>5, <2>1, <2>2, PagingAssumption
  <2>4. ASSUME NEW i \in 1 .. m + 1
        PROVE  history'[i] = new[m + 2 - i]
    <3>1. CASE i = 1
      BY <2>1, <2>3, <3>1
    <3>2. CASE i # 1
      <4>1. /\ i - 1 \in 1 .. m /\ i - 1 \in 1 .. n
            /\ history'[i] = history[i - 1]
        BY <1>5, <2>1, <2>3, <2>4, <3>2
      <4>2. history[i - 1] = q[n + 2 - i]
        <5>1. n + 1 - (i - 1) = n + 2 - i
          BY <1>5, <2>4
        <5>. QED BY <1>5, <4>1, <5>1
      <4>3. new[m + 2 - i] = q[n + 2 - i]
        <5>1. CASE n < NUMBER_OF_FRAMES
          BY <1>5, <2>2, <2>4, <3>2, <5>1
        <5>2. CASE n = NUMBER_OF_FRAMES
          <6>1. m + 2 - i \in 1 .. n - 1 /\ (m + 2 - i) + 1 = n + 2 - i
            BY <1>5, <2>4, <3>2, <5>2, PagingAssumption
          <6>. QED BY <2>2, <5>2, <6>1
        <5>. QED BY <1>5, <2>1, <5>1, <5>2, PagingAssumption
      <4>. QED BY <4>1, <4>2, <4>3
    <3>. QED BY <3>1, <3>2
  <2>. HIDE DEF m
  <2>5. Len(history') + 1 = m + 2
    BY <2>1, <2>3
  <2>. QED BY <1>2, <1>7, <2>1, <2>2, <2>3, <2>4, <2>5 DEF QueueInv
<1>. QED BY <1>9, <1>10

LEMMA QueueInvStep == PInv /\ QueueInv /\ [Next]_vars => QueueInv'
<1>. SUFFICES ASSUME PInv, QueueInv, [Next]_vars PROVE QueueInv'
  OBVIOUS
<1>1. CASE UNCHANGED vars
  BY <1>1, QueueStays DEF vars, QueueInv
<1>2. CASE PassLRU \/ PassOptimal \/ HangLRU \/ NextRun \/ LastRun
  <2>1. alg' # "FIFO"
    BY <1>2
    DEF PassLRU, PassOptimal, Pass, HangLRU, NextRun, LastRun
  <2>. QED BY <2>1 DEF QueueInv
<1>. QED BY <1>1, <1>2, QueueInvPass DEF Next, Finished

-----------------------------------------------------------------------------
(* LRU against the last places of the pages in the reference string.       *)

Used(list, n) == {list[j] : j \in 1 .. n}

(* The last place of a page in the first n references (LastUsed).          *)
LastPlace(list, n, p) ==
  LET s == SubSeq(list, 1, n) IN Max({j \in DOMAIN s : s[j] = p})

(* A set of numbers with a bound has a greatest element.                   *)
LEMMA MaxFacts ==
  ASSUME NEW n \in Nat, NEW S \in SUBSET (1 .. n), S # {}
  PROVE  Max(S) \in S /\ \A x \in S : x <= Max(S)
<1>. DEFINE R == {n - x : x \in S}
<1>1. R \in SUBSET Nat /\ R # {}
  <2>1. \A x \in S : n - x \in Nat
    OBVIOUS
  <2>. QED BY <2>1
<1>2. PICK m \in R : \A x \in R : m <= x
  BY <1>1, LeastElement
<1>3. PICK y \in S : m = n - y
  BY <1>2
<1>4. \A x \in S : y >= x
  BY <1>2, <1>3
<1>5. Max(S) \in S /\ \A x \in S : Max(S) >= x
  BY <1>4 DEF Max
<1>. QED BY <1>5

LEMMA LastPlaceFacts ==
  ASSUME NEW list \in Seq(Pages), NEW n \in 0 .. Len(list),
         NEW p \in Used(list, n)
  PROVE  /\ LastPlace(list, n, p) \in 1 .. n
         /\ list[LastPlace(list, n, p)] = p
         /\ \A j \in 1 .. n : list[j] = p => j <= LastPlace(list, n, p)
<1>. DEFINE s == SubSeq(list, 1, n)
            S == {j \in DOMAIN s : s[j] = p}
<1>1. DOMAIN s = 1 .. n /\ n \in Nat /\ \A j \in 1 .. n : s[j] = list[j]
  OBVIOUS
<1>. HIDE DEF s
<1>2. S = {j \in 1 .. n : list[j] = p}
  BY <1>1
<1>3. S \in SUBSET (1 .. n) /\ S # {}
  BY <1>2 DEF Used
<1>4. LastPlace(list, n, p) = Max(S)
  BY DEF LastPlace, s
<1>. HIDE DEF S
<1>. QED BY <1>1, <1>2, <1>3, <1>4, MaxFacts

(* Reference n moves the last place of its page, and of no other.          *)
LEMMA LastPlaceMoves ==
  ASSUME NEW list \in Seq(Pages), NEW n \in 1 .. Len(list)
  PROVE  /\ Used(list, n) = Used(list, n - 1) \cup {list[n]}
         /\ LastPlace(list, n, list[n]) = n
         /\ \A p \in Used(list, n - 1) :
              /\ p # list[n] =>
                   LastPlace(list, n, p) = LastPlace(list, n - 1, p)
              /\ LastPlace(list, n - 1, p) < n
<1>1. Used(list, n) = Used(list, n - 1) \cup {list[n]}
  <2>1. \A j \in 1 .. n : j = n \/ j \in 1 .. n - 1
    OBVIOUS
  <2>2. n \in 1 .. n /\ \A j \in 1 .. n - 1 : j \in 1 .. n
    OBVIOUS
  <2>. QED BY <2>1, <2>2 DEF Used
<1>2. /\ n \in 0 .. Len(list) /\ n - 1 \in 0 .. Len(list)
      /\ n \in 1 .. n /\ \A j \in 1 .. n - 1 : j \in 1 .. n
  OBVIOUS
<1>3. LastPlace(list, n, list[n]) = n
  <2>1. list[n] \in Used(list, n)
    BY <1>1
  <2>2. /\ LastPlace(list, n, list[n]) \in 1 .. n
        /\ n <= LastPlace(list, n, list[n])
    BY <1>2, <2>1, LastPlaceFacts
  <2>. QED BY <2>2
<1>4. ASSUME NEW p \in Used(list, n - 1)
      PROVE  /\ p # list[n] =>
                   LastPlace(list, n, p) = LastPlace(list, n - 1, p)
             /\ LastPlace(list, n - 1, p) < n
  <2>. DEFINE u == LastPlace(list, n - 1, p)
              v == LastPlace(list, n, p)
  <2>1. /\ u \in 1 .. n - 1 /\ list[u] = p
        /\ \A j \in 1 .. n - 1 : list[j] = p => j <= u
    BY <1>2, LastPlaceFacts
  <2>2. p \in Used(list, n)
    BY <1>1
  <2>3. /\ v \in 1 .. n /\ list[v] = p
        /\ \A j \in 1 .. n : list[j] = p => j <= v
    BY <1>2, <2>2, LastPlaceFacts
  <2>. HIDE DEF u, v
  <2>4. p # list[n] => u = v
    BY <2>1, <2>3
  <2>. QED BY <2>1, <2>4 DEF u, v
<1>. QED BY <1>1, <1>3, <1>4

(* Without failed loads, LRU's history has the pages by their last places, *)
(* the latest first; every page used before that is not in it is older     *)
(* than all of its pages, and the history is full.                         *)
RecentInv ==
  alg = "LRU" /\ failures = 0 =>
    LET last(p) == LastPlace(addressList, PC - 1, p)
    IN  /\ \A i \in 1 .. Len(history) :
             history[i] \in Used(addressList, PC - 1)
        /\ \A i, j \in 1 .. Len(history) :
             i < j => last(history[j]) < last(history[i])
        /\ \A p \in Used(addressList, PC - 1) :
             p \notin ToSet(history) =>
               /\ Len(history) = NUMBER_OF_FRAMES
               /\ \A i \in 1 .. Len(history) : last(p) < last(history[i])

LEMMA RecentInvPass == PInv /\ RecentInv /\ PassLRU => RecentInv'
<1>. SUFFICES ASSUME PInv, RecentInv, PassLRU, failures' = 0
              PROVE  RecentInv'
  BY DEF RecentInv
<1>1. /\ TypeOK /\ FaultsCounted /\ FrameHoldsPage /\ PageLoadedOnce
      /\ HistoryInv
  BY DEF PInv
<1>2. /\ page \in Pages /\ PC' = PC + 1 /\ alg = "LRU"
      /\ addressList' = addressList
  BY <1>1, PassFacts DEF PassLRU, Algorithms
<1>3. PICK frame :
        /\ Load(frame)
        /\ \/ ~Hit /\ SwapByHistory
           \/ Hit /\ history' = MoveToHead(history, page)
  BY DEF PassLRU, SwapByHistory
<1>4. failures = 0
  BY <1>1, <1>2, <1>3, LoadFacts
<1>. DEFINE n == Len(history)
            used == Used(addressList, PC - 1)
            Before(p) == LastPlace(addressList, PC - 1, p)
            After(p) == LastPlace(addressList, PC, p)
<1>5. /\ history \in Seq(Pages) /\ n \in Nat
      /\ Once(history) /\ ToSet(history) = Loaded
      /\ \A i \in 1 .. n : history[i] \in used
      /\ \A i, j \in 1 .. n : i < j => Before(history[j]) < Before(history[i])
      /\ \A p \in used : p \notin ToSet(history) =>
           /\ n = NUMBER_OF_FRAMES
           /\ \A i \in 1 .. n : Before(p) < Before(history[i])
  BY <1>1, <1>2, <1>4 DEF TypeOK, HistoryInv, RecentInv
<1>6. /\ addressList \in Seq(Pages) /\ PC \in 1 .. Len(addressList)
      /\ page = addressList[PC] /\ PC' - 1 = PC
  BY <1>1, <1>2 DEF TypeOK, PassLRU, Pass, page
<1>7. /\ Used(addressList, PC) = used \cup {page}
      /\ After(page) = PC
      /\ \A p \in used : /\ p # page => After(p) = Before(p)
                         /\ Before(p) < PC
  BY <1>6, LastPlaceMoves
<1>8. /\ DOMAIN history = 1 .. n
      /\ ToSet(history) = {history[i] : i \in 1 .. n}
  BY <1>5, ListFacts
<1>9. \A p \in used : Before(p) \in Int /\ PC \in Int
  <2>1. PC - 1 \in 0 .. Len(addressList)
    BY <1>6
  <2>. QED BY <1>6, <2>1, LastPlaceFacts
<1>. HIDE DEF n, used, Before, After
<1>. SUFFICES /\ \A i \in 1 .. Len(history') : history'[i] \in used \cup {page}
              /\ \A i, j \in 1 .. Len(history') :
                   i < j => After(history'[j]) < After(history'[i])
              /\ \A p \in used \cup {page} :
                   p \notin ToSet(history') =>
                     /\ Len(history') = NUMBER_OF_FRAMES
                     /\ \A i \in 1 .. Len(history') :
                          After(p) < After(history'[i])
  BY <1>2, <1>6, <1>7 DEF RecentInv, After
<1>10. CASE Hit
  <2>1. page \in ToSet(history) /\ history' = MoveToHead(history, page)
    BY <1>2, <1>3, <1>5, <1>10, HitIsLoaded
  <2>2. ToSet(history') = ToSet(history)
    BY <1>2, <1>5, <2>1, HitFacts
  <2>3. Contains(history, page)
    BY <1>8, <2>1 DEF Contains, n
  <2>4. PICK k \in 1 .. n :
          /\ history[k] = page
          /\ Len(history') = n
          /\ \A i \in 1 .. n :
               history'[i] = IF i = 1 THEN page
                             ELSE IF i <= k THEN history[i - 1]
                             ELSE history[i]
    BY <1>2, <1>5, <2>1, <2>3, MoveToHeadFacts DEF n
  <2>5. \A i \in 1 .. n : history[i] = page => i = k
    BY <1>5, <1>8, <2>4 DEF Once
  <2>. DEFINE from(i) == IF i <= k THEN i - 1 ELSE i
  <2>6. \A i \in 1 .. n : i # 1 =>
          /\ from(i) \in 1 .. n /\ from(i) # k
          /\ history'[i] = history[from(i)]
    BY <1>5, <2>4
  <2>7. \A i, j \in 1 .. n : i < j /\ i # 1 => from(i) < from(j)
    BY <1>5
  <2>. HIDE DEF from
  <2>8. \A i \in 1 .. n : i # 1 =>
          /\ history'[i] \in used /\ history'[i] # page
          /\ After(history'[i]) = Before(history[from(i)])
    BY <1>5, <1>7, <2>5, <2>6
  <2>9. history'[1] = page /\ After(history'[1]) = PC
    BY <1>5, <1>7, <2>4
  <2>10. \A i \in 1 .. Len(history') : history'[i] \in used \cup {page}
    BY <2>4, <2>8, <2>9
  <2>11. ASSUME NEW i \in 1 .. n, NEW j \in 1 .. n, i < j
         PROVE  After(history'[j]) < After(history'[i])
    <3>1. j # 1
      BY <1>5, <2>11
    <3>2. CASE i = 1
      BY <1>5, <1>7, <2>6, <2>8, <2>9, <3>1, <3>2
    <3>3. CASE i # 1
      BY <1>5, <2>6, <2>7, <2>8, <2>11, <3>1, <3>3
    <3>. QED BY <3>2, <3>3
  <2>12. ASSUME NEW p \in used \cup {page}, p \notin ToSet(history')
         PROVE  /\ n = NUMBER_OF_FRAMES
                /\ \A i \in 1 .. n : After(p) < After(history'[i])
    <3>1. p \in used /\ p # page /\ p \notin ToSet(history)
      BY <2>1, <2>2, <2>12
    <3>2. /\ n = NUMBER_OF_FRAMES /\ After(p) = Before(p) /\ Before(p) < PC
          /\ \A i \in 1 .. n : Before(p) < Before(history[i])
      BY <1>5, <1>7, <3>1
    <3>3. ASSUME NEW i \in 1 .. n PROVE After(p) < After(history'[i])
      <4>1. CASE i = 1
        BY <2>9, <3>2, <4>1
      <4>2. CASE i # 1
        BY <2>6, <2>8, <3>2, <4>2
      <4>. QED BY <4>1, <4>2
    <3>. QED BY <3>2, <3>3
  <2>. QED BY <2>4, <2>10, <2>11, <2>12
<1>11. CASE ~Hit
  <2>. DEFINE m == IF n < NUMBER_OF_FRAMES THEN n ELSE n - 1
  <2>1. /\ history' \in Seq(Pages) /\ Len(history') = m + 1
        /\ history'[1] = page
        /\ \A i \in 1 .. m : history'[i + 1] = history[i]
        /\ n <= NUMBER_OF_FRAMES
        /\ page \notin ToSet(history)
    BY <1>1, <1>2, <1>3, <1>11, MissFacts DEF n
  <2>2. m \in Nat /\ m \in {n, n - 1} /\ (m = n - 1 => n = NUMBER_OF_FRAMES)
        /\ (n = NUMBER_OF_FRAMES => m + 1 = n)
    BY <1>5, <2>1, PagingAssumption
  <2>. HIDE DEF m
  <2>3. \A i \in 1 .. m + 1 : i # 1 =>
          /\ i - 1 \in 1 .. m /\ i - 1 \in 1 .. n
          /\ history'[i] = history[i - 1]
    <3>1. \A i \in 1 .. m + 1 : i # 1 =>
            i - 1 \in 1 .. m /\ i - 1 \in 1 .. n /\ (i - 1) + 1 = i
      BY <1>5, <2>2
    <3>. QED BY <2>1, <3>1
  <2>4. \A i \in 1 .. m + 1 : i # 1 =>
          /\ history'[i] \in used /\ history'[i] # page
          /\ After(history'[i]) = Before(history[i - 1])
    BY <1>5, <1>7, <1>8, <2>1, <2>3
  <2>5. After(history'[1]) = PC
    BY <1>7, <2>1
  <2>6. \A i \in 1 .. m + 1 : history'[i] \in used \cup {page}
    BY <2>1, <2>4
  <2>7. ASSUME NEW i \in 1 .. m + 1, NEW j \in 1 .. m + 1, i < j
        PROVE  After(history'[j]) < After(history'[i])
    <3>1. j # 1
      BY <2>2, <2>7
    <3>2. CASE i = 1
      BY <1>5, <1>7, <2>3, <2>4, <2>5, <3>1, <3>2
    <3>3. CASE i # 1
      <4>1. i - 1 < j - 1
        BY <2>2, <2>7
      <4>. QED BY <1>5, <2>3, <2>4, <3>1, <3>3, <4>1
    <3>. QED BY <3>2, <3>3
  <2>8. ASSUME NEW p \in used \cup {page}, p \notin ToSet(history')
        PROVE  /\ m + 1 = NUMBER_OF_FRAMES
               /\ \A i \in 1 .. m + 1 : After(p) < After(history'[i])
    <3>1. /\ DOMAIN history' = 1 .. m + 1
          /\ ToSet(history') = {history'[i] : i \in 1 .. m + 1}
      BY <2>1, ListFacts
    <3>2. p # page /\ p \in used
      BY <2>1, <2>2, <2>8, <3>1
    <3>3. \A i \in 1 .. m : i + 1 \in 1 .. m + 1
      BY <2>2
    <3>4. \A i \in 1 .. m : history[i] # p
      BY <2>1, <2>8, <3>1, <3>3
    <3>5. /\ n = NUMBER_OF_FRAMES
          /\ \A i \in 1 .. m : Before(p) < Before(history[i])
      <4>1. CASE p \notin ToSet(history)
        BY <1>5, <2>2, <3>2, <4>1
      <4>2. CASE p \in ToSet(history)
        <5>1. PICK k \in 1 .. n : p = history[k]
          BY <1>8, <4>2
        <5>2. k = n /\ m = n - 1
          BY <1>5, <2>2, <3>4, <5>1
        <5>. QED BY <1>5, <2>2, <5>1, <5>2
      <4>. QED BY <4>1, <4>2
    <3>6. After(p) = Before(p) /\ Before(p) < PC
      BY <1>7, <3>2
    <3>7. ASSUME NEW i \in 1 .. m + 1 PROVE After(p) < After(history'[i])
      <4>1. CASE i = 1
        BY <2>5, <3>6, <4>1
      <4>2. CASE i # 1
        BY <2>3, <2>4, <3>5, <3>6, <4>2
      <4>. QED BY <4>1, <4>2
    <3>. QED BY <2>2, <3>5, <3>7
  <2>. QED BY <2>1, <2>6, <2>7, <2>8
<1>. QED BY <1>10, <1>11

LEMMA RecentInvStep == PInv /\ RecentInv /\ [Next]_vars => RecentInv'
<1>. SUFFICES ASSUME PInv, RecentInv, [Next]_vars PROVE RecentInv'
  OBVIOUS
<1>1. CASE UNCHANGED vars
  BY <1>1 DEF vars, RecentInv
<1>2. CASE NextRun
  <2>1. alg' = "LRU" => history' = <<>> /\ PC' - 1 = 0
    BY <1>2 DEF NextRun
  <2>2. Used(addressList', 0) = {}
    BY DEF Used
  <2>. QED BY <2>1, <2>2 DEF RecentInv
<1>3. CASE PassFIFO \/ PassOptimal \/ LastRun
  <2>1. alg' # "LRU"
    BY <1>3 DEF PassFIFO, PassOptimal, Pass, LastRun
  <2>. QED BY <2>1 DEF RecentInv
<1>4. CASE HangLRU
  BY <1>4 DEF HangLRU, RecentInv
<1>. QED BY <1>1, <1>2, <1>3, <1>4, RecentInvPass DEF Next, Finished

(* The pages in the history are those used last: fewer than                *)
(* NUMBER_OF_FRAMES pages were used after each, and as many after others.  *)
LEMMA RecentPages ==
  ASSUME PInv, RecentInv
  PROVE  LRUKeepsRecent
<1>. SUFFICES ASSUME alg = "LRU", failures = 0
              PROVE  Loaded = MostRecent
  BY DEF LRUKeepsRecent
<1>. DEFINE n == Len(history)
            used == Used(addressList, PC - 1)
            last(p) == LastPlace(addressList, PC - 1, p)
            later(p) == {q \in used : last(q) > last(p)}
<1>1. /\ history \in Seq(Pages) /\ n \in Nat
      /\ Once(history) /\ ToSet(history) = Loaded
      /\ \A i \in 1 .. n : history[i] \in used
      /\ \A i, j \in 1 .. n : i < j => last(history[j]) < last(history[i])
      /\ \A p \in used : p \notin ToSet(history) =>
           /\ n = NUMBER_OF_FRAMES
           /\ \A i \in 1 .. n : last(p) < last(history[i])
  BY DEF PInv, TypeOK, HistoryInv, RecentInv
<1>2. /\ DOMAIN history = 1 .. n
      /\ ToSet(history) = {history[i] : i \in 1 .. n}
  BY <1>1, ListFacts
<1>3. /\ PC - 1 \in 0 .. Len(addressList) /\ addressList \in Seq(Pages)
      /\ PC - 1 \in Nat
  BY DEF PInv, TypeOK
<1>4. \A p \in used : last(p) \in Int
  BY <1>3, LastPlaceFacts
<1>5. n <= NUMBER_OF_FRAMES
  BY HistoryLength DEF PInv
<1>6. ToSet(Served) = used /\ \A p : LastUsed(p) = last(p)
  <2>1. \A p : LastUsed(p) = last(p)
    BY DEF LastUsed, Served, LastPlace
  <2>2. /\ DOMAIN Served = 1 .. PC - 1
        /\ \A j \in 1 .. PC - 1 : Served[j] = addressList[j]
    BY <1>3 DEF Served
  <2>. QED BY <2>1, <2>2 DEF ToSet, Used
<1>7. MostRecent = {p \in used : Cardinality(later(p)) < NUMBER_OF_FRAMES}
  BY <1>6 DEF MostRecent
<1>8. IsFiniteSet(used) /\ \A p : IsFiniteSet(later(p))
  <2>. DEFINE k == PC - 1
              t == [j \in 1 .. k |-> addressList[j]]
  <2>1. /\ t \in [1 .. k -> used]
        /\ \A p \in used : \E j \in 1 .. k : t[j] = p
    BY DEF Used
  <2>2. k \in Nat
    BY <1>3
  <2>. HIDE DEF t, k, used
  <2>3. ExistsSurjection(1 .. k, used)
    BY <2>1 DEF ExistsSurjection, Surjection
  <2>4. IsFiniteSet(used)
    BY <2>2, <2>3, FS_NatSurjection
  <2>. QED BY <2>4, FS_Subset
<1>. HIDE DEF used, last
<1>9. ASSUME NEW p \in Loaded PROVE p \in MostRecent
  <2>1. PICK k \in 1 .. n : p = history[k]
    BY <1>1, <1>2, <1>9
  <2>. DEFINE first == SubSeq(history, 1, k - 1)
  <2>2. /\ first \in Seq(Pages) /\ Len(first) = k - 1
        /\ \A i \in 1 .. k - 1 : first[i] = history[i]
    BY <1>1, <2>1
  <2>. HIDE DEF first, n
  <2>3. Once(first)
    BY <1>1, <1>2, <2>1, <2>2 DEF Once
  <2>4. later(p) \subseteq ToSet(first)
    <3>. SUFFICES ASSUME NEW q \in used, last(q) > last(p)
                  PROVE  q \in ToSet(first)
      OBVIOUS
    <3>1. last(p) \in Int /\ last(q) \in Int
      BY <1>1, <1>4, <2>1
    <3>2. q \in ToSet(history)
      BY <1>1, <2>1, <3>1
    <3>3. PICK i \in 1 .. n : q = history[i]
      BY <1>2, <3>2
    <3>4. ~(k <= i)
      BY <1>1, <2>1, <3>1, <3>3
    <3>5. i \in 1 .. k - 1 /\ DOMAIN first = 1 .. k - 1
      BY <1>1, <2>1, <2>2, <3>3, <3>4
    <3>. QED BY <2>2, <3>3, <3>5 DEF ToSet
  <2>5. IsFiniteSet(ToSet(first)) /\ Cardinality(ToSet(first)) = k - 1
    BY <2>2, <2>3, OnceLength
  <2>6. Cardinality(later(p)) <= k - 1 /\ Cardinality(later(p)) \in Nat
    BY <1>8, <2>4, <2>5, FS_Subset, FS_CardinalityType
  <2>7. Cardinality(later(p)) < NUMBER_OF_FRAMES /\ p \in used
    <3>. HIDE DEF later
    <3>. QED BY <1>1, <1>5, <2>1, <2>6, PagingAssumption
  <2>. QED BY <1>7, <2>7
<1>10. ASSUME NEW p \in used, p \notin Loaded
       PROVE  ~(Cardinality(later(p)) < NUMBER_OF_FRAMES)
  <2>1. /\ n = NUMBER_OF_FRAMES
        /\ \A i \in 1 .. n : last(p) < last(history[i])
    BY <1>1, <1>10
  <2>. HIDE DEF n
  <2>2. ToSet(history) \subseteq later(p)
    BY <1>1, <1>2, <1>4, <2>1
  <2>3. Cardinality(ToSet(history)) = n
    BY <1>1, OnceLength DEF n
  <2>4. Cardinality(ToSet(history)) <= Cardinality(later(p))
    BY <1>8, <2>2, FS_Subset
  <2>5. Cardinality(later(p)) \in Nat
    BY <1>8, FS_CardinalityType
  <2>. HIDE DEF later
  <2>. QED BY <2>1, <2>3, <2>4, <2>5, PagingAssumption
<1>. QED BY <1>7, <1>9, <1>10

-----------------------------------------------------------------------------
(* The theorems.                                                           *)

(* The variables keep their types: no run serves more references than      *)
(* there are or counts more faults than passes, and the history stays a    *)
(* list of pages, with one for a full one, too.                            *)
THEOREM TypeCorrect == Spec => []TypeOK
BY PagingInvariant, PTL DEF PInv

(* Whatever loads fail and whatever frame swapPage_Optimal returns, the    *)
(* data of a frame is the page that the TLB has for it.                    *)
THEOREM FramesHoldPages == Spec => []FrameHoldsPage
BY PagingInvariant, PTL DEF PInv

(* FIFO and LRU never have a page in two frames.                           *)
THEOREM PagesLoadedOnce == Spec => []PageLoadedOnce
BY PagingInvariant, PTL DEF PInv

(* Until a load fails, the history lists the loaded pages, each once, so   *)
(* RemoveTail gives a page with a frame and Remove finds its page.         *)
THEOREM HistoryIsTLB == Spec => []HistoryFollowsTLB
<1>1. PInv => HistoryFollowsTLB
  BY HistoryLength DEF PInv, HistoryInv, HistoryFollowsTLB
<1>. QED BY <1>1, PagingInvariant, PTL

(* The endless loop of Remove needs a load that failed before.             *)
THEOREM HangNeedsFailure == Spec => []HangsOnlyAfterFailure
BY PagingInvariant, PTL DEF PInv

(* Until a load fails, the pages that FIFO has in the frames are those of  *)
(* a queue that knows the references alone: the head of the history is the *)
(* page that came last, its tail the one that came first.                  *)
THEOREM FIFOIsQueue == Spec => []FIFOKeepsQueue
<1>1. ASSUME PInv, QueueInv PROVE FIFOKeepsQueue
  <2>. SUFFICES ASSUME alg = "FIFO", failures = 0
                PROVE  Loaded = ToSet(QueueAfter[PC - 1])
    BY DEF FIFOKeepsQueue
  <2>. DEFINE q == QueueAfter[PC - 1]
              n == Len(history)
  <2>1. /\ history \in Seq(Pages) /\ ToSet(history) = Loaded /\ n \in Nat
        /\ q \in Seq(Pages) /\ Len(q) = n
        /\ \A i \in 1 .. n : history[i] = q[n + 1 - i]
    BY <1>1 DEF PInv, TypeOK, HistoryInv, QueueInv
  <2>2. /\ ToSet(history) = {history[i] : i \in 1 .. n}
        /\ ToSet(q) = {q[i] : i \in 1 .. n}
    BY <2>1, ListFacts
  <2>. HIDE DEF q, n
  <2>3. \A i \in 1 .. n : n + 1 - i \in 1 .. n /\ n + 1 - (n + 1 - i) = i
    BY <2>1
  <2>4. ToSet(q) = ToSet(history)
    BY <2>1, <2>2, <2>3
  <2>. QED BY <2>1, <2>4 DEF q
<1>2. Spec => []QueueInv
  BY PagingInvariant, QueueInvInit, QueueInvStep, PTL DEF Spec
<1>. QED BY <1>1, <1>2, PagingInvariant, PTL

(* Until a load fails, the pages that LRU has in the frames are those with *)
(* the latest last uses, as many as there are frames.                      *)
THEOREM LRUIsRecent == Spec => []LRUKeepsRecent
<1>1. Init => RecentInv
  BY DEF Init, RecentInv
<1>2. Spec => []RecentInv
  BY <1>1, PagingInvariant, RecentInvStep, PTL DEF Spec
<1>. QED BY <1>2, RecentPages, PagingInvariant, PTL
=============================================================================
