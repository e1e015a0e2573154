---------------------------- MODULE DiningProofs ----------------------------
(***************************************************************************)
(* Theorems about DiningPhilosophers for every table of two or more and    *)
(* every amount of rice.                                                   *)
(***************************************************************************)
EXTENDS DiningPhilosophers, FiniteSetTheorems, WellFoundedInduction, TLAPS

(* `(who + 1) % MAX_PHILOSOPHER` is the next seat around the table.        *)
LEMMA RightValue ==
  ASSUME NEW i \in Phil
  PROVE  /\ Right(i) = IF i = N - 1 THEN 0 ELSE i + 1
         /\ Right(i) \in Phil
         /\ Right(i) # i
<1>. USE TableAssumption DEF Phil, Right
<1>1. CASE i = N - 1
  <2>1. (i + 1) % N = 0
    BY <1>1
  <2>. QED BY <1>1, <2>1
<1>2. CASE i # N - 1
  <2>1. (i + 1) % N = i + 1
    BY <1>2
  <2>. QED BY <1>2, <2>1
<1>. QED BY <1>1, <1>2

(* The other neighbour, as DiningTable computes it.                        *)
LEMMA LeftNeighbour ==
  ASSUME NEW i \in Phil
  PROVE  (i + N - 1) % N = IF i = 0 THEN N - 1 ELSE i - 1
<1>. USE TableAssumption DEF Phil
<1>1. CASE i = 0
  <2>1. (N - 1) % N = N - 1
    OBVIOUS
  <2>. QED BY <1>1, <2>1
<1>2. CASE i # 0
  <2>1. (i + N - 1) % N = i - 1
    BY <1>2
  <2>. QED BY <1>2, <2>1
<1>. QED BY <1>1, <1>2

(* Whatever the parity, Eat works with the two chopsticks of the seat.     *)
LEMMA ChopsticksOfEat ==
  ASSUME NEW i \in Phil
  PROVE  /\ First(i) \in Chopsticks
         /\ Second(i) \in Chopsticks
         /\ First(i) # Second(i)
         /\ {First(i), Second(i)} = {i, Right(i)}
BY RightValue DEF First, Second, Left, Phil, Chopsticks

(***************************************************************************)
(* Type correctness.                                                       *)
(***************************************************************************)

(* Eat counts at most one pound: pounf_of_rice is 0 until `Rice--`.        *)
PoundStartsAtZero ==
  \A i \in Phil :
    pc[i] \in {"getFirst", "getSecond", "test", "load", "store"}
      => pounf[i] = 0

TypeInv == TypeOK /\ PoundStartsAtZero

USE DEF Goto, SetState

(* No step of a philosopher thread breaks the types.                       *)
LEMMA PhilStepType ==
  ASSUME TypeInv, NEW i \in Phil, PhilStep(i), UNCHANGED mainVars
  PROVE  TypeInv'
<1>. USE TableAssumption
         DEF TypeInv, TypeOK, SharedTypeOK, PhilTypeOK, PoundStartsAtZero,
             Points, eState, sharedVars, mainVars
<1>1. CASE BeginRun(i)
  BY <1>1 DEF BeginRun
<1>2. CASE Digest(i)
  BY <1>2 DEF Digest
<1>3. CASE CallEat(i)
  BY <1>3 DEF CallEat
<1>4. CASE LeaveTable(i)
  BY <1>4 DEF LeaveTable
<1>5. CASE GetFirst(i)
  BY <1>5, ChopsticksOfEat DEF GetFirst, getChopstic
<1>6. CASE GetSecond(i)
  BY <1>6, ChopsticksOfEat DEF GetSecond, getChopstic
<1>7. CASE TestRice(i)
  BY <1>7 DEF TestRice
<1>8. CASE LoadRice(i)
  BY <1>8 DEF LoadRice
<1>9. CASE StoreRice(i)
  BY <1>9 DEF StoreRice
<1>10. CASE PutFirst(i)
  BY <1>10, ChopsticksOfEat DEF PutFirst, putChopstic
<1>11. CASE PutSecond(i)
  BY <1>11, ChopsticksOfEat DEF PutSecond, putChopstic
<1>12. CASE ReturnFromEat(i)
  BY <1>12 DEF ReturnFromEat
<1>. QED
  BY <1>1, <1>2, <1>3, <1>4, <1>5, <1>6, <1>7, <1>8, <1>9, <1>10, <1>11,
     <1>12 DEF PhilStep

(* No step of main breaks the types.                                       *)
LEMMA MainType ==
  ASSUME TypeInv, Main
  PROVE  TypeInv'
<1>. USE TableAssumption
         DEF TypeInv, TypeOK, SharedTypeOK, PhilTypeOK, PoundStartsAtZero,
             Points, eState, MainPoints, sharedVars, philVars, mainVars,
             Phil, Chopsticks
<1>1. CASE MainCreate
  BY <1>1 DEF MainCreate, Create
<1>2. CASE MainCreated
  BY <1>2 DEF MainCreated, MainGoto
<1>3. CASE MainNoMoreRice
  BY <1>3 DEF MainNoMoreRice, MainGoto
<1>4. CASE MainJoin
  BY <1>4 DEF MainJoin
<1>5. CASE MainJoined
  BY <1>5 DEF MainJoined, MainGoto
<1>6. CASE MainSum
  BY <1>6 DEF MainSum
<1>7. CASE MainReturn
  BY <1>7 DEF MainReturn, MainGoto
<1>8. CASE MainDestroy
  BY <1>8 DEF MainDestroy, closeChopstic
<1>9. CASE MainExit
  BY <1>9 DEF MainExit, MainGoto
<1>. QED
  BY <1>1, <1>2, <1>3, <1>4, <1>5, <1>6, <1>7, <1>8, <1>9 DEF Main

(* The inductive type invariant.                                           *)
LEMMA TypeInvariant == Spec => []TypeInv
<1>1. Init => TypeInv
  BY TableAssumption
     DEF Init, TypeInv, TypeOK, SharedInit, PhilInit, SharedTypeOK,
         PhilTypeOK, PoundStartsAtZero, Points, eState, MainPoints, Phil,
         Chopsticks
<1>2. TypeInv /\ [Next]_vars => TypeInv'
  <2>. SUFFICES ASSUME TypeInv, [Next]_vars
                PROVE  TypeInv'
    OBVIOUS
  <2>1. CASE Main
    BY <2>1, MainType
  <2>2. ASSUME NEW i \in Phil, Thread(i)
        PROVE  TypeInv'
    BY <2>2, PhilStepType DEF Thread
  <2>3. CASE UNCHANGED vars
    BY <2>3 DEF vars, sharedVars, philVars, mainVars, TypeInv, TypeOK,
                SharedTypeOK, PhilTypeOK, PoundStartsAtZero
  <2>. QED BY <2>1, <2>2, <2>3 DEF Next, Exited
<1>. QED BY <1>1, <1>2, PTL DEF Spec

(* Every variable keeps its type: the semaphores stay at 0 or 1, Eat       *)
(* returns at most one pound, and main's loops stay within their arrays,   *)
(* at every table.                                                         *)
THEOREM TypeCorrect == Spec => []TypeOK
BY TypeInvariant, PTL DEF TypeInv

(***************************************************************************)
(* Mutual exclusion.  ChopsticksAccounted is inductive once types are      *)
(* known: only the steps that take or put back a chopstick matter.         *)
(***************************************************************************)

(* A wait that takes chopstick d keeps the account.                        *)
LEMMA TakenChopstick ==
  ASSUME TypeOK, ChopsticksAccounted, NEW i \in Phil, NEW d \in Chopsticks,
         getChopstic(d), closed' = closed,
         \A c \in Chopsticks : Holds(i, c)' <=> Holds(i, c) \/ c = d,
         \A j \in Phil \ {i}, c \in Chopsticks : Holds(j, c)' <=> Holds(j, c)
  PROVE  ChopsticksAccounted'
<1>. USE DEF TypeOK, SharedTypeOK, getChopstic
<1>. SUFFICES ASSUME NEW c \in Chopsticks \ closed
              PROVE  /\ \A p, q \in Phil :
                          Holds(p, c)' /\ Holds(q, c)' => p = q
                     /\ (chopstic'[c] = 1) <=> (\A p \in Phil : ~Holds(p, c)')
  BY DEF ChopsticksAccounted
<1>1. CASE c = d
  <2>1. chopstic[d] = 1 /\ chopstic'[d] = 0
    BY <1>1
  <2>2. \A p \in Phil : ~Holds(p, d)
    BY <1>1, <2>1 DEF ChopsticksAccounted
  <2>. QED BY <1>1, <2>1, <2>2
<1>2. CASE c # d
  <2>1. chopstic'[c] = chopstic[c]
    BY <1>2
  <2>2. \A p \in Phil : Holds(p, c)' <=> Holds(p, c)
    BY <1>2
  <2>. QED BY <2>1, <2>2 DEF ChopsticksAccounted
<1>. QED BY <1>1, <1>2

(* A release of chopstick d by its holder keeps the account.               *)
LEMMA ReturnedChopstick ==
  ASSUME TypeOK, ChopsticksAccounted, NEW i \in Phil, NEW d \in Chopsticks,
         Holds(i, d), putChopstic(d), closed' = closed,
         \A c \in Chopsticks : Holds(i, c)' <=> Holds(i, c) /\ c # d,
         \A j \in Phil \ {i}, c \in Chopsticks : Holds(j, c)' <=> Holds(j, c)
  PROVE  ChopsticksAccounted'
<1>. USE DEF TypeOK, SharedTypeOK, putChopstic
<1>. SUFFICES ASSUME NEW c \in Chopsticks \ closed
              PROVE  /\ \A p, q \in Phil :
                          Holds(p, c)' /\ Holds(q, c)' => p = q
                     /\ (chopstic'[c] = 1) <=> (\A p \in Phil : ~Holds(p, c)')
  BY DEF ChopsticksAccounted
<1>1. CASE c = d
  <2>1. chopstic[d] = 0 /\ chopstic'[d] = 1
    BY <1>1 DEF ChopsticksAccounted
  <2>2. \A p \in Phil : Holds(p, d) => p = i
    BY <1>1 DEF ChopsticksAccounted
  <2>3. \A p \in Phil : ~Holds(p, d)'
    BY <2>2
  <2>. QED BY <1>1, <2>1, <2>3
<1>2. CASE c # d
  <2>1. chopstic'[c] = chopstic[c]
    BY <1>2
  <2>2. \A p \in Phil : Holds(p, c)' <=> Holds(p, c)
    BY <1>2
  <2>. QED BY <2>1, <2>2 DEF ChopsticksAccounted
<1>. QED BY <1>1, <1>2

(* The actions that leave every chopstick where it is.                     *)
LEMMA QuietStep ==
  ASSUME TypeOK, NEW i \in Phil,
         \/ BeginRun(i) \/ Digest(i) \/ CallEat(i) \/ LeaveTable(i)
         \/ TestRice(i) \/ LoadRice(i) \/ StoreRice(i) \/ ReturnFromEat(i)
  PROVE  /\ closed' = closed /\ chopstic' = chopstic
         /\ \A j \in Phil, c \in Chopsticks : Holds(j, c)' <=> Holds(j, c)
<1>. USE DEF TypeOK, PhilTypeOK, Holds, HasFirst, HasSecond, sharedVars
<1>1. CASE BeginRun(i)
  BY <1>1 DEF BeginRun
<1>2. CASE Digest(i)
  BY <1>2 DEF Digest
<1>3. CASE CallEat(i)
  BY <1>3 DEF CallEat
<1>4. CASE LeaveTable(i)
  BY <1>4 DEF LeaveTable
<1>5. CASE TestRice(i)
  BY <1>5 DEF TestRice
<1>6. CASE LoadRice(i)
  BY <1>6 DEF LoadRice
<1>7. CASE StoreRice(i)
  BY <1>7 DEF StoreRice
<1>8. CASE ReturnFromEat(i)
  BY <1>8 DEF ReturnFromEat
<1>. QED BY <1>1, <1>2, <1>3, <1>4, <1>5, <1>6, <1>7, <1>8

(* main only closes handles.                                               *)
LEMMA QuietMain ==
  ASSUME TypeOK, Main
  PROVE  /\ closed \subseteq closed' /\ chopstic' = chopstic
         /\ \A j \in Phil, c \in Chopsticks : Holds(j, c)' <=> Holds(j, c)
<1>. USE DEF TypeOK, SharedTypeOK, PhilTypeOK, Holds, HasFirst, HasSecond,
             sharedVars, philVars, MainGoto
<1>1. CASE MainCreate
  BY <1>1 DEF MainCreate, Create
<1>2. CASE MainDestroy
  BY <1>2 DEF MainDestroy, closeChopstic
<1>3. CASE UNCHANGED <<sharedVars, philVars>>
  BY <1>3
<1>. QED
  BY <1>1, <1>2, <1>3
     DEF Main, MainCreated, MainNoMoreRice, MainJoin, MainJoined, MainSum,
         MainReturn, MainExit

(* Every step of a philosopher keeps the account.                          *)
LEMMA PhilStepChopsticks ==
  ASSUME TypeOK, ChopsticksAccounted, NEW i \in Phil, PhilStep(i)
  PROVE  ChopsticksAccounted'
<1>. USE DEF TypeOK, PhilTypeOK, Holds, HasFirst, HasSecond
<1>1. CASE GetFirst(i)
  <2>1. /\ \A c \in Chopsticks : Holds(i, c)' <=> Holds(i, c) \/ c = First(i)
        /\ \A j \in Phil \ {i}, c \in Chopsticks :
             Holds(j, c)' <=> Holds(j, c)
    BY <1>1 DEF GetFirst
  <2>. QED
    BY <1>1, <2>1, ChopsticksOfEat, TakenChopstick DEF GetFirst
<1>2. CASE GetSecond(i)
  <2>1. /\ \A c \in Chopsticks : Holds(i, c)' <=> Holds(i, c) \/ c = Second(i)
        /\ \A j \in Phil \ {i}, c \in Chopsticks :
             Holds(j, c)' <=> Holds(j, c)
    BY <1>2 DEF GetSecond
  <2>. QED
    BY <1>2, <2>1, ChopsticksOfEat, TakenChopstick DEF GetSecond
<1>3. CASE PutFirst(i)
  <2>1. /\ Holds(i, First(i))
        /\ \A c \in Chopsticks : Holds(i, c)' <=> Holds(i, c) /\ c # First(i)
        /\ \A j \in Phil \ {i}, c \in Chopsticks :
             Holds(j, c)' <=> Holds(j, c)
    BY <1>3, ChopsticksOfEat DEF PutFirst
  <2>. QED
    BY <1>3, <2>1, ChopsticksOfEat, ReturnedChopstick DEF PutFirst
<1>4. CASE PutSecond(i)
  <2>1. /\ Holds(i, Second(i))
        /\ \A c \in Chopsticks : Holds(i, c)' <=> Holds(i, c) /\ c # Second(i)
        /\ \A j \in Phil \ {i}, c \in Chopsticks :
             Holds(j, c)' <=> Holds(j, c)
    BY <1>4 DEF PutSecond
  <2>. QED
    BY <1>4, <2>1, ChopsticksOfEat, ReturnedChopstick DEF PutSecond
<1>5. CASE \/ BeginRun(i) \/ Digest(i) \/ CallEat(i) \/ LeaveTable(i)
           \/ TestRice(i) \/ LoadRice(i) \/ StoreRice(i) \/ ReturnFromEat(i)
  <2>1. /\ closed' = closed /\ chopstic' = chopstic
        /\ \A j \in Phil, c \in Chopsticks : Holds(j, c)' <=> Holds(j, c)
    BY <1>5, QuietStep
  <2>. QED BY <2>1 DEF ChopsticksAccounted
<1>. QED BY <1>1, <1>2, <1>3, <1>4, <1>5 DEF PhilStep

(* Nobody holds anything when the semaphores are created.                  *)
LEMMA AccountedInit ==
  ASSUME Init
  PROVE  ChopsticksAccounted
BY DEF Init, SharedInit, PhilInit, ChopsticksAccounted, Holds, HasFirst,
       HasSecond

(* ChopsticksAccounted is inductive relative to the types.                 *)
LEMMA AccountedStep ==
  ASSUME TypeOK, ChopsticksAccounted, [Next]_vars
  PROVE  ChopsticksAccounted'
<1>1. CASE Main
  <2>1. /\ closed \subseteq closed' /\ chopstic' = chopstic
        /\ \A j \in Phil, c \in Chopsticks : Holds(j, c)' <=> Holds(j, c)
    BY <1>1, QuietMain
  <2>. QED BY <2>1 DEF ChopsticksAccounted
<1>2. ASSUME NEW i \in Phil, Thread(i)
      PROVE  ChopsticksAccounted'
  BY <1>2, PhilStepChopsticks DEF Thread
<1>3. CASE UNCHANGED vars
  BY <1>3 DEF vars, sharedVars, philVars, ChopsticksAccounted, Holds,
              HasFirst, HasSecond
<1>. QED BY <1>1, <1>2, <1>3 DEF Next, Exited

(* A chopstick is held by one philosopher at most, and its semaphore knows *)
(* it, at every table and in every interleaving of Eat.                    *)
THEOREM MutualExclusion == Spec => []ChopsticksAccounted
<1>1. TypeOK /\ ChopsticksAccounted /\ [Next]_vars => ChopsticksAccounted'
  BY AccountedStep
<1>. QED BY <1>1, AccountedInit, TypeCorrect, PTL DEF Spec

(***************************************************************************)
(* Deadlock freedom.  If every running philosopher were blocked, the       *)
(* holder h of the chopstick that j waits for would itself be waiting for  *)
(* its second one.  A chopstick that is the second of j and the first of h *)
(* exists only between the last philosopher and philosopher 0, and nobody  *)
(* can then stand in the same relation to h.                               *)
(***************************************************************************)

(* The only chopstick that is one's second and another's first.            *)
LEMMA SecondThenFirst ==
  ASSUME NEW j \in Phil, NEW h \in Phil, First(h) = Second(j)
  PROVE  j = 0 /\ h = N - 1
<1>. USE TableAssumption DEF Phil, First, Second, LeftFirst, Left
<1>1. CASE j % 2 = 1 /\ h % 2 = 1
  <2>1. h = IF j = N - 1 THEN 0 ELSE j + 1
    BY <1>1, RightValue
  <2>. QED BY <1>1, <2>1
<1>2. CASE j % 2 = 1 /\ h % 2 # 1
  <2>1. Right(h) = Right(j)
    BY <1>2
  <2>2. h = j
    BY <2>1, RightValue
  <2>. QED BY <1>2, <2>2
<1>3. CASE j % 2 # 1 /\ h % 2 = 1
  <2>1. h = j
    BY <1>3
  <2>. QED BY <1>3, <2>1
<1>4. CASE j % 2 # 1 /\ h % 2 # 1
  <2>1. Right(h) = j
    BY <1>4
  <2>2. j = IF h = N - 1 THEN 0 ELSE h + 1
    BY <2>1, RightValue
  <2>. QED BY <1>4, <2>2
<1>. QED BY <1>1, <1>2, <1>3, <1>4

(* The state argument for deadlock freedom.                                *)
LEMMA NotAllBlocked ==
  ASSUME TypeOK, ChopsticksAccounted
  PROVE  SomeoneCanMove
<1>. SUFFICES ASSUME NEW i \in Phil, Running(i),
                     \A j \in Phil : Running(j) => Blocked(j)
              PROVE  FALSE
  BY DEF SomeoneCanMove
<1>. USE DEF TypeOK, SharedTypeOK, PhilTypeOK, Phil, Chopsticks
<1>1. ASSUME NEW c \in Chopsticks \ closed, chopstic[c] = 0
      PROVE  \E h \in Phil : pc[h] = "getSecond" /\ First(h) = c
  <2>1. PICK h \in Phil : Holds(h, c)
    BY <1>1 DEF ChopsticksAccounted
  <2>2. Running(h)
    BY <2>1 DEF Holds, HasFirst, HasSecond, Running
  <2>3. pc[h] \in {"getFirst", "getSecond"}
    BY <2>2 DEF Blocked
  <2>. QED BY <2>1, <2>3 DEF Holds, HasFirst, HasSecond
<1>2. ASSUME NEW j \in Phil, pc[j] = "getSecond"
      PROVE  \E h \in Phil : pc[h] = "getSecond" /\ First(h) = Second(j)
  <2>1. Blocked(j)
    BY <1>2 DEF Running
  <2>2. Second(j) \in Chopsticks \ closed /\ chopstic[Second(j)] = 0
    BY <1>2, <2>1, ChopsticksOfEat DEF Blocked
  <2>. QED BY <1>1, <2>2
<1>3. \E j \in Phil : pc[j] = "getSecond"
  <2>1. CASE pc[i] = "getSecond"
    BY <2>1
  <2>2. CASE pc[i] # "getSecond"
    <3>1. Blocked(i)
      OBVIOUS
    <3>2. First(i) \in Chopsticks \ closed /\ chopstic[First(i)] = 0
      BY <2>2, <3>1, ChopsticksOfEat DEF Blocked
    <3>. QED BY <1>1, <3>2
  <2>. QED BY <2>1, <2>2
<1>4. PICK j \in Phil : pc[j] = "getSecond"
  BY <1>3
<1>5. PICK h \in Phil : pc[h] = "getSecond" /\ First(h) = Second(j)
  BY <1>2, <1>4
<1>6. PICK g \in Phil : pc[g] = "getSecond" /\ First(g) = Second(h)
  BY <1>2, <1>5
<1>7. h = N - 1
  BY <1>5, SecondThenFirst
<1>8. h = 0
  BY <1>6, SecondThenFirst
<1>. QED BY <1>7, <1>8, TableAssumption

(* The philosophers never all wait for one another, at every table.        *)
THEOREM DeadlockFree == Spec => []SomeoneCanMove
BY TypeCorrect, MutualExclusion, NotAllBlocked, PTL

(***************************************************************************)
(* Refinement: Eat implements the abstract table.                          *)
(***************************************************************************)

(* Different philosophers have different right neighbours.                 *)
LEMMA RightInjective ==
  ASSUME NEW p \in Phil, NEW q \in Phil, Right(p) = Right(q)
  PROVE  p = q
BY RightValue, TableAssumption DEF Phil

(* Who eats holds the two open chopsticks beside him.                      *)
LEMMA EatersHold ==
  ASSUME NEW p \in Eating
  PROVE  /\ p \in Phil
         /\ \A c \in {p, Right(p)} : c \in Chopsticks \ closed /\ Holds(p, c)
<1>1. /\ p \in Phil /\ HasFirst(p) /\ HasSecond(p)
      /\ First(p) \notin closed /\ Second(p) \notin closed
  BY DEF Eating, HasFirst, HasSecond
<1>2. Holds(p, First(p)) /\ Holds(p, Second(p))
  BY <1>1 DEF Holds
<1>3. \A c \in {First(p), Second(p)} :
        c \in Chopsticks \ closed /\ Holds(p, c)
  BY <1>1, <1>2, ChopsticksOfEat
<1>. QED BY <1>1, <1>3, ChopsticksOfEat

(* Two philosophers side by side do not both eat.                          *)
LEMMA NoTwoNeighbours ==
  ASSUME ChopsticksAccounted, NEW p \in Eating, NEW q \in Eating,
         q = Right(p) \/ p = Right(q)
  PROVE  FALSE
<1>1. \E c \in Chopsticks \ closed : Holds(p, c) /\ Holds(q, c)
  BY EatersHold
<1>2. p \in Phil /\ q \in Phil
  BY DEF Eating
<1>. QED BY <1>1, <1>2, RightValue DEF ChopsticksAccounted

(* The abstract neighbours are the seats left and right.                   *)
LEMMA NeighboursValue ==
  ASSUME NEW p \in Phil, NEW q \in Table!Neighbours(p)
  PROVE  q \in Phil /\ (q = Right(p) \/ p = Right(q))
<1>1. CASE q = (p + 1) % N
  BY <1>1, RightValue DEF Right
<1>2. CASE q = (p + N - 1) % N
  <2>1. q = IF p = 0 THEN N - 1 ELSE p - 1
    BY <1>2, LeftNeighbour
  <2>2. q \in Phil
    BY <2>1, TableAssumption DEF Phil
  <2>3. Right(q) = p
    BY <2>1, <2>2, RightValue, TableAssumption DEF Phil
  <2>. QED BY <2>2, <2>3
<1>. QED BY <1>1, <1>2 DEF Table!Neighbours

(* Every step of the program is a step of the table or a stutter.          *)
LEMMA TableStep ==
  ASSUME TypeOK, ChopsticksAccounted, [Next]_vars
  PROVE  [Table!Next]_Eating
<1>. USE DEF TypeOK, SharedTypeOK, PhilTypeOK
<1>1. ASSUME NEW i \in Phil, GetSecond(i)
      PROVE  [Table!Next]_Eating
  <2>1. CASE i \in Eating'
    <3>1. i \notin Eating /\ Eating' = Eating \cup {i}
      BY <1>1, <2>1 DEF GetSecond, Eating
    <3>2. Table!Neighbours(i) \cap Eating = {}
      <4>. SUFFICES ASSUME NEW q \in Table!Neighbours(i), q \in Eating
                    PROVE  FALSE
        OBVIOUS
      <4>1. q = Right(i) \/ i = Right(q)
        BY NeighboursValue
      <4>2. PICK c \in {i, Right(i)} : c \in {q, Right(q)}
        BY <4>1
      <4>3. c \in Chopsticks \ closed /\ Holds(q, c) /\ q \in Phil /\ q # i
        BY <3>1, <4>2, EatersHold
      <4>4. c = First(i) \/ c = Second(i)
        BY <4>2, ChopsticksOfEat
      <4>5. CASE c = First(i)
        <5>1. Holds(i, c)
          BY <1>1, <4>5 DEF GetSecond, Holds, HasFirst
        <5>. QED BY <4>3, <5>1 DEF ChopsticksAccounted
      <4>6. CASE c = Second(i)
        <5>1. chopstic[c] = 1
          BY <1>1, <4>3, <4>6 DEF GetSecond, getChopstic
        <5>. QED BY <4>3, <5>1 DEF ChopsticksAccounted
      <4>. QED BY <4>4, <4>5, <4>6
    <3>3. Table!Sit(i)
      BY <3>1, <3>2 DEF Table!Sit
    <3>. QED BY <3>3 DEF Table!Next, Table!Seats, Phil
  <2>2. CASE i \notin Eating'
    BY <1>1, <2>2 DEF GetSecond, Eating
  <2>. QED BY <2>1, <2>2
<1>2. ASSUME NEW i \in Phil, PutFirst(i)
      PROVE  [Table!Next]_Eating
  <2>1. Eating' = Eating \ {i}
    BY <1>2 DEF PutFirst, Eating
  <2>2. Table!Leave(i) \/ Eating' = Eating
    BY <2>1 DEF Table!Leave
  <2>. QED BY <2>2 DEF Table!Next, Table!Seats, Phil
<1>3. CASE MainDestroy
  <2>1. k \in Chopsticks
    BY <1>3, TableAssumption DEF MainDestroy, Chopsticks
  <2>2. Eating' = {p \in Eating : k \notin {First(p), Second(p)}}
    BY <1>3 DEF MainDestroy, closeChopstic, Eating, philVars
  <2>3. ASSUME NEW p \in Eating \ Eating', NEW q \in Eating \ Eating'
        PROVE  p = q
    <3>1. p \in Phil /\ q \in Phil
      BY <2>3 DEF Eating
    <3>2. k \in {p, Right(p)} /\ k \in {q, Right(q)}
      BY <2>2, <2>3, <3>1, ChopsticksOfEat
    <3>3. p = q \/ q = Right(p) \/ p = Right(q) \/ Right(p) = Right(q)
      BY <3>2
    <3>4. Right(p) = Right(q) => p = q
      BY <3>1, RightInjective
    <3>. QED BY <2>3, <3>1, <3>3, <3>4, NoTwoNeighbours
  <2>4. CASE Eating' = Eating
    BY <2>4
  <2>5. CASE Eating' # Eating
    <3>1. PICK p \in Eating : p \notin Eating'
      BY <2>2, <2>5
    <3>2. Eating' = Eating \ {p}
      BY <2>2, <2>3, <3>1
    <3>3. Table!Leave(p) /\ p \in Phil
      BY <3>1, <3>2 DEF Table!Leave, Eating
    <3>. QED BY <3>3 DEF Table!Next, Table!Seats, Phil
  <2>. QED BY <2>4, <2>5
<1>4. ASSUME NEW i \in Phil, PhilStep(i), ~GetSecond(i), ~PutFirst(i)
      PROVE  Eating' = Eating
  BY <1>4
     DEF PhilStep, BeginRun, Digest, CallEat, LeaveTable, GetFirst, TestRice,
         LoadRice, StoreRice, PutSecond, ReturnFromEat, Eating, sharedVars
<1>5. ASSUME Main, ~MainDestroy
      PROVE  Eating' = Eating
  <2>1. CASE MainCreate
    BY <2>1 DEF MainCreate, Create, Eating, sharedVars
  <2>2. CASE UNCHANGED <<sharedVars, philVars>>
    BY <2>2 DEF Eating, sharedVars, philVars
  <2>. QED
    BY <1>5, <2>1, <2>2
       DEF Main, MainGoto, MainCreated, MainNoMoreRice, MainJoin,
           MainJoined, MainSum, MainReturn, MainExit
<1>6. CASE UNCHANGED vars
  BY <1>6 DEF vars, sharedVars, philVars, Eating
<1>. QED
  BY <1>1, <1>2, <1>3, <1>4, <1>5, <1>6 DEF Next, Thread, Exited

(* A philosopher starts to eat only while neither neighbour eats: the      *)
(* program refines the abstract table.                                     *)
THEOREM TableRefinement == Spec => ImplementsTable
<1>1. Init => Table!Init
  BY DEF Init, PhilInit, Table!Init, Eating
<1>2. TypeOK /\ ChopsticksAccounted /\ [Next]_vars => [Table!Next]_Eating
  BY TableStep
<1>. QED
  BY <1>1, <1>2, TypeCorrect, MutualExclusion, PTL
     DEF Spec, ImplementsTable, Table!Spec

(***************************************************************************)
(* The rice.                                                               *)
(***************************************************************************)

LEMMA LeastElement ==
  ASSUME NEW S \in SUBSET Nat, S # {}
  PROVE  \E m \in S : \A n \in S : m <= n
<1>1. PICK m \in S : \A n \in S : <<n, m>> \notin OpToRel(<, Nat)
  BY NatLessThanWellFounded, WFMin
<1>2. \A n \in S : ~(n < m)
  BY <1>1 DEF OpToRel
<1>. QED BY <1>2

(* The sum satisfies its recursive equation: otherwise there were a least  *)
(* n up to which no function does.                                         *)
LEMMA SumIsDefined ==
  ASSUME NEW f, NEW last \in Nat
  PROVE  /\ SumUpTo(f, last)[0] = 0
         /\ \A n \in 1 .. last :
              SumUpTo(f, last)[n] = SumUpTo(f, last)[n - 1] + f[n - 1]
<1>. DEFINE Solves(g, m) ==
              g = [n \in 0 .. m |-> IF n = 0 THEN 0 ELSE g[n - 1] + f[n - 1]]
            S == {m \in Nat : \A g : ~Solves(g, m)}
<1>1. ASSUME S # {} PROVE FALSE
  <2>1. PICK m \in S : \A n \in S : m <= n
    BY <1>1, LeastElement
  <2>2. m # 0
    <3>. DEFINE h == [n \in 0 .. 0 |-> 0]
    <3>1. \A n \in 0 .. 0 : 0 = IF n = 0 THEN 0 ELSE h[n - 1] + f[n - 1]
      OBVIOUS
    <3>2. Solves(h, 0)
      BY <3>1, Zenon
    <3>. QED BY <2>1, <3>2
  <2>3. m \in Nat /\ m - 1 \in Nat /\ m - 1 \notin S
    <3>1. m \in Nat
      BY <2>1
    <3>. HIDE DEF S
    <3>. QED BY <2>1, <2>2, <3>1
  <2>4. PICK g : Solves(g, m - 1)
    BY <2>3
  <2>. DEFINE h == [n \in 0 .. m |->
                      IF n < m THEN g[n] ELSE g[m - 1] + f[m - 1]]
  <2>5. Solves(h, m)
    <3>1. ASSUME NEW n \in 0 .. m
          PROVE  h[n] = IF n = 0 THEN 0 ELSE h[n - 1] + f[n - 1]
      <4>1. n < m => g[n] = IF n = 0 THEN 0 ELSE g[n - 1] + f[n - 1]
        BY <2>3, <2>4
      <4>2. n # 0 => n - 1 \in 0 .. m /\ n - 1 < m
        BY <2>3
      <4>. QED BY <2>2, <2>3, <4>1, <4>2
    <3>. QED BY <3>1
  <2>. QED BY <2>1, <2>5
<1>2. \E g : Solves(g, last)
  BY <1>1, ZenonT(40)
<1>3. Solves(SumUpTo(f, last), last)
  <2>. DEFINE Eq(g) ==
         g = [n \in 0 .. last |-> IF n = 0 THEN 0 ELSE g[n - 1] + f[n - 1]]
  <2>1. \E g : Eq(g)
    BY <1>2, Zenon
  <2>2. SumUpTo(f, last) = CHOOSE g : Eq(g)
    BY Zenon DEF SumUpTo
  <2>. HIDE DEF Eq
  <2>3. Eq(SumUpTo(f, last))
    BY <2>1, <2>2, Zenon
  <2>. QED BY <2>3, Zenon DEF Eq
<1>4. \A n \in 0 .. last : SumUpTo(f, last)[n] =
        IF n = 0 THEN 0 ELSE SumUpTo(f, last)[n - 1] + f[n - 1]
  <2>. DEFINE Q == SumUpTo(f, last)
  <2>. HIDE DEF Q
  <2>1. Q = [n \in 0 .. last |-> IF n = 0 THEN 0 ELSE Q[n - 1] + f[n - 1]]
    BY <1>3, Zenon DEF Q
  <2>. QED BY <2>1, Zenon DEF Q
<1>5. 0 \in 0 .. last /\ \A n \in 1 .. last : n \in 0 .. last /\ n # 0
  OBVIOUS
<1>. QED BY <1>4, <1>5

(* One more at one place is one more in the sum.                           *)
LEMMA SumChange ==
  ASSUME NEW f \in [Phil -> Int], NEW g \in [Phil -> Int], NEW i \in Phil,
         NEW d \in Int, g[i] = f[i] + d, \A j \in Phil \ {i} : g[j] = f[j]
  PROVE  SumUpTo(f, N)[N] \in Int /\ SumUpTo(g, N)[N] = SumUpTo(f, N)[N] + d
<1>. DEFINE s == SumUpTo(f, N)
            t == SumUpTo(g, N)
            Agree(n) == s[n] \in Int /\ t[n] = s[n] + IF n > i THEN d ELSE 0
            S == {n \in 0 .. N : ~Agree(n)}
<1>1. /\ s[0] = 0 /\ t[0] = 0 /\ i \in Nat /\ i < N /\ N \in Nat
      /\ \A n \in 1 .. N : s[n] = s[n - 1] + f[n - 1]
      /\ \A n \in 1 .. N : t[n] = t[n - 1] + g[n - 1]
  <2>1. i \in Nat /\ i < N /\ N \in Nat
    BY TableAssumption DEF Phil
  <2>2. s[0] = 0 /\ \A n \in 1 .. N : s[n] = s[n - 1] + f[n - 1]
    BY <2>1, SumIsDefined, Zenon
  <2>3. t[0] = 0 /\ \A n \in 1 .. N : t[n] = t[n - 1] + g[n - 1]
    BY <2>1, SumIsDefined, Zenon
  <2>. QED BY <2>1, <2>2, <2>3
<1>. HIDE DEF s, t
<1>2. ASSUME S # {} PROVE FALSE
  <2>1. PICK n \in S : \A m \in S : n <= m
    <3>1. S \in SUBSET Nat
      OBVIOUS
    <3>. HIDE DEF S
    <3>. QED BY <1>2, <3>1, LeastElement
  <2>2. n # 0
    BY <1>1, <2>1
  <2>3. n \in 1 .. N /\ n - 1 \in 0 .. N /\ n - 1 \notin S /\ n - 1 \in Phil
    <3>1. n \in 0 .. N
      OBVIOUS
    <3>. HIDE DEF S
    <3>. QED BY <1>1, <2>1, <2>2, <3>1 DEF Phil
  <2>4. /\ s[n] = s[n - 1] + f[n - 1] /\ t[n] = t[n - 1] + g[n - 1]
        /\ Agree(n - 1) /\ f[n - 1] \in Int
        /\ g[n - 1] = f[n - 1] + IF n - 1 = i THEN d ELSE 0
    BY <1>1, <2>3
  <2>5. Agree(n)
    BY <1>1, <2>3, <2>4
  <2>. QED BY <2>1, <2>5
<1>3. Agree(N)
  BY <1>1, <1>2
<1>. QED BY <1>1, <1>3 DEF s, t

(***************************************************************************)
(* What is missing from the table was eaten.                               *)
(***************************************************************************)

(* Only Eat counts, and what it counts is added once.                      *)
CountsStartAtZero ==
  \A i \in Phil :
    /\ pc[i] \in {"unborn", "start", "loop"} => pounf[i] = 0
    /\ pc[i] = "unborn" => RiceConsume[i] = 0

(* A store that is still to come takes away no more than its pound.        *)
StoresCounted ==
  \A i \in Phil : pc[i] = "store" => Eaten >= Pounds - loaded[i]

RiceInv == CountsStartAtZero /\ StoresCounted /\ RiceNeverVanishes

LEMMA EatenInt ==
  ASSUME TypeOK
  PROVE  Eaten \in Int
<1>1. /\ RiceConsume \in [Phil -> Int] /\ pounf \in [Phil -> Int]
      /\ 0 \in Phil
  BY TableAssumption DEF TypeOK, PhilTypeOK, Phil
<1>2. SumUpTo(RiceConsume, N)[N] \in Int
  BY <1>1, SumChange
<1>3. SumUpTo(pounf, N)[N] \in Int
  BY <1>1, SumChange
<1>. QED BY <1>2, <1>3 DEF Eaten

(* The steps at which the rice or what is eaten of it may change.          *)
LEMMA RicePhilStep ==
  ASSUME TypeInv, TypeInv', RiceInv, NEW i \in Phil, PhilStep(i)
  PROVE  RiceInv'
<1>1. /\ pc \in [Phil -> Points] /\ loaded \in [Phil -> Int] /\ Rice \in Int
      /\ RiceConsume \in [Phil -> Nat] /\ pounf \in [Phil -> 0 .. 1]
      /\ Eaten \in Int /\ Pounds \in Nat
      /\ RiceConsume \in [Phil -> Int] /\ pounf \in [Phil -> Int]
      /\ RiceConsume' \in [Phil -> Int] /\ pounf' \in [Phil -> Int]
  BY EatenInt, TableAssumption DEF TypeInv, TypeOK, PhilTypeOK, SharedTypeOK
<1>2. CASE BeginRun(i) \/ Digest(i) \/ LeaveTable(i) \/ TestRice(i)
           \/ GetFirst(i) \/ GetSecond(i) \/ PutFirst(i) \/ PutSecond(i)
  <2>1. /\ UNCHANGED <<Rice, RiceConsume, pounf, loaded>>
        /\ \A j \in Phil \ {i} : pc'[j] = pc[j]
        /\ pc'[i] \notin {"store", "unborn"}
        /\ pc'[i] \in {"start", "loop"} => pc[i] \in {"start", "loop"}
    BY <1>1, <1>2 DEF BeginRun, Digest, LeaveTable, TestRice, GetFirst,
         GetSecond, PutFirst, PutSecond, sharedVars
  <2>2. Eaten' = Eaten
    BY <2>1 DEF Eaten
  <2>. QED BY <2>1, <2>2
           DEF RiceInv, CountsStartAtZero, StoresCounted, RiceNeverVanishes
<1>3. CASE CallEat(i)
  <2>1. /\ pc[i] = "loop" /\ pc' = [pc EXCEPT ![i] = "getFirst"]
        /\ pounf' = [pounf EXCEPT ![i] = 0]
        /\ UNCHANGED <<Rice, RiceConsume, loaded>>
    BY <1>3 DEF CallEat, sharedVars
  <2>2. pounf' = pounf
    BY <1>1, <2>1 DEF RiceInv, CountsStartAtZero
  <2>3. Eaten' = Eaten
    BY <2>1, <2>2 DEF Eaten
  <2>. QED BY <1>1, <2>1, <2>2, <2>3
           DEF RiceInv, CountsStartAtZero, StoresCounted, RiceNeverVanishes
<1>4. CASE LoadRice(i)
  <2>1. /\ pc[i] = "load" /\ pc' = [pc EXCEPT ![i] = "store"]
        /\ loaded' = [loaded EXCEPT ![i] = Rice]
        /\ UNCHANGED <<Rice, RiceConsume, pounf>>
    BY <1>4 DEF LoadRice, sharedVars
  <2>2. Eaten' = Eaten
    BY <2>1 DEF Eaten
  <2>. QED BY <1>1, <2>1, <2>2
           DEF RiceInv, CountsStartAtZero, StoresCounted, RiceNeverVanishes
<1>5. CASE StoreRice(i)
  <2>1. /\ pc[i] = "store" /\ pc' = [pc EXCEPT ![i] = "putFirst"]
        /\ Rice' = loaded[i] - 1
        /\ pounf' = [pounf EXCEPT ![i] = pounf[i] + 1]
        /\ UNCHANGED <<RiceConsume, loaded>>
    BY <1>5 DEF StoreRice
  <2>2. /\ pounf'[i] = pounf[i] + 1
        /\ \A j \in Phil \ {i} : pounf'[j] = pounf[j]
    BY <1>1, <2>1
  <2>3. /\ SumUpTo(pounf, N)[N] \in Int
        /\ SumUpTo(pounf', N)[N] = SumUpTo(pounf, N)[N] + 1
    BY <1>1, <2>2, SumChange, SMTT(30)
  <2>4. SumUpTo(RiceConsume, N)[N] \in Int
    BY <1>1, SumChange
  <2>5. Eaten' = Eaten + 1
    BY <2>1, <2>3, <2>4 DEF Eaten
  <2>6. Eaten >= Pounds - loaded[i] /\ loaded[i] \in Int
    BY <1>1, <2>1 DEF RiceInv, StoresCounted
  <2>7. Eaten' >= Pounds - Rice'
    BY <1>1, <2>1, <2>5, <2>6
  <2>8. StoresCounted'
    <3>. SUFFICES ASSUME NEW j \in Phil, pc'[j] = "store"
                  PROVE  Eaten' >= Pounds - loaded[j]
      BY <2>1 DEF StoresCounted
    <3>1. Eaten >= Pounds - loaded[j] /\ loaded[j] \in Int
      BY <1>1, <2>1 DEF RiceInv, StoresCounted
    <3>. QED BY <1>1, <2>5, <3>1
  <2>. QED BY <1>1, <2>1, <2>2, <2>7, <2>8
           DEF RiceInv, CountsStartAtZero, RiceNeverVanishes
<1>6. CASE ReturnFromEat(i)
  <2>1. /\ pc[i] = "return" /\ pc' = [pc EXCEPT ![i] = "loop"]
        /\ RiceConsume' = [RiceConsume EXCEPT ![i] = RiceConsume[i] + pounf[i]]
        /\ pounf' = [pounf EXCEPT ![i] = 0]
        /\ UNCHANGED <<Rice, loaded>>
    BY <1>6 DEF ReturnFromEat, sharedVars
  <2>. DEFINE d == pounf[i]
              e == 0 - pounf[i]
  <2>2. /\ d \in Int /\ e \in Int /\ e = 0 - d
        /\ pounf'[i] = pounf[i] + e
        /\ RiceConsume'[i] = RiceConsume[i] + d
        /\ \A j \in Phil \ {i} : /\ pounf'[j] = pounf[j]
                                 /\ RiceConsume'[j] = RiceConsume[j]
    BY <1>1, <2>1
  <2>. HIDE DEF d, e
  <2>3. /\ SumUpTo(pounf, N)[N] \in Int
        /\ SumUpTo(pounf', N)[N] = SumUpTo(pounf, N)[N] + e
    BY <1>1, <2>2, SumChange
  <2>4. /\ SumUpTo(RiceConsume, N)[N] \in Int
        /\ SumUpTo(RiceConsume', N)[N] = SumUpTo(RiceConsume, N)[N] + d
    BY <1>1, <2>2, SumChange, SMTT(30)
  <2>5. Eaten' = Eaten
    BY <2>2, <2>3, <2>4 DEF Eaten
  <2>. QED BY <1>1, <2>1, <2>5
           DEF RiceInv, CountsStartAtZero, StoresCounted, RiceNeverVanishes
<1>. QED BY <1>2, <1>3, <1>4, <1>5, <1>6 DEF PhilStep

(* main leaves the rice and the counters alone.                            *)
LEMMA RiceMain ==
  ASSUME TypeInv, RiceInv, Main
  PROVE  RiceInv'
<1>1. TypeOK /\ pc \in [Phil -> Points] /\ RiceConsume \in [Phil -> Nat]
  BY DEF TypeInv, TypeOK, PhilTypeOK
<1>2. CASE MainCreate
  <2>1. /\ k \in Phil /\ pc[k] = "unborn" /\ pc' = [pc EXCEPT ![k] = "start"]
        /\ RiceConsume' = [RiceConsume EXCEPT ![k] = 0]
        /\ UNCHANGED <<Rice, pounf, loaded>>
    BY <1>1, <1>2, TableAssumption
       DEF MainCreate, Create, sharedVars, TypeOK, Phil
  <2>2. RiceConsume' = RiceConsume
    BY <1>1, <2>1 DEF RiceInv, CountsStartAtZero
  <2>3. Eaten' = Eaten
    BY <2>1, <2>2 DEF Eaten
  <2>. QED BY <1>1, <2>1, <2>2, <2>3
           DEF RiceInv, CountsStartAtZero, StoresCounted, RiceNeverVanishes
<1>3. CASE ~MainCreate
  <2>1. UNCHANGED <<Rice, pc, RiceConsume, pounf, loaded>>
    BY <1>3
       DEF Main, MainGoto, MainCreated, MainNoMoreRice, MainJoin, MainJoined,
           MainSum, MainReturn, MainExit, MainDestroy, closeChopstic,
           sharedVars, philVars
  <2>2. Eaten' = Eaten
    BY <2>1 DEF Eaten
  <2>. QED BY <2>1, <2>2
           DEF RiceInv, CountsStartAtZero, StoresCounted, RiceNeverVanishes
<1>. QED BY <1>2, <1>3

LEMMA RiceInit == Init => RiceInv
<1>. SUFFICES ASSUME Init PROVE RiceInv
  OBVIOUS
<1>1. /\ Rice = Pounds /\ pc = [i \in Phil |-> "unborn"]
      /\ RiceConsume = [i \in Phil |-> 0] /\ pounf = [i \in Phil |-> 0]
  BY DEF Init, SharedInit, PhilInit
<1>2. \A f : f = [i \in Phil |-> 0] => SumUpTo(f, N)[N] = 0
  <2>. SUFFICES ASSUME NEW f, f = [i \in Phil |-> 0]
                PROVE  SumUpTo(f, N)[N] = 0
    OBVIOUS
  <2>. DEFINE S == {n \in 0 .. N : SumUpTo(f, N)[n] # 0}
  <2>1. S \in SUBSET Nat
    OBVIOUS
  <2>2. ASSUME NEW n \in S, n - 1 \in Phil => SumUpTo(f, N)[n - 1] = 0
        PROVE  FALSE
    <3>1. SumUpTo(f, N)[0] = 0
      BY SumIsDefined, TableAssumption
    <3>2. n \in 1 .. N /\ n - 1 \in Phil
      BY <3>1, TableAssumption DEF Phil
    <3>3. SumUpTo(f, N)[n] = SumUpTo(f, N)[n - 1] + f[n - 1] /\ f[n - 1] = 0
      BY <3>2, SumIsDefined, TableAssumption
    <3>. QED BY <2>2, <3>2, <3>3
  <2>3. S = {}
    <3>. SUFFICES ASSUME S # {} PROVE FALSE
      OBVIOUS
    <3>1. PICK n \in S : \A m \in S : n <= m
      <4>. HIDE DEF S
      <4>. QED BY <2>1, LeastElement
    <3>2. n - 1 \notin S
      <4>. HIDE DEF S
      <4>. QED BY <2>1, <3>1
    <3>. QED BY <2>2, <3>2, TableAssumption DEF Phil
  <2>4. N \in 0 .. N
    BY TableAssumption
  <2>. QED BY <2>3, <2>4
<1>3. Eaten = 0
  BY <1>1, <1>2 DEF Eaten
<1>. QED BY <1>1, <1>3, TableAssumption
         DEF RiceInv, CountsStartAtZero, StoresCounted, RiceNeverVanishes

(* However the decrements of Rice interleave, no rice is lost: what is     *)
(* missing has been eaten by somebody.                                     *)
THEOREM NoRiceVanishes == Spec => []RiceNeverVanishes
<1>1. TypeInv /\ TypeInv' /\ RiceInv /\ [Next]_vars => RiceInv'
  <2>. SUFFICES ASSUME TypeInv, TypeInv', RiceInv, [Next]_vars
                PROVE  RiceInv'
    OBVIOUS
  <2>1. ASSUME NEW i \in Phil, Thread(i) PROVE RiceInv'
    BY <2>1, RicePhilStep DEF Thread
  <2>2. CASE UNCHANGED vars
    <3>1. UNCHANGED <<Rice, pc, RiceConsume, pounf, loaded>>
      BY <2>2 DEF vars, sharedVars, philVars
    <3>2. Eaten' = Eaten
      BY <3>1 DEF Eaten
    <3>. QED BY <3>1, <3>2
             DEF RiceInv, CountsStartAtZero, StoresCounted, RiceNeverVanishes
  <2>. QED BY <2>1, <2>2, RiceMain DEF Next, Exited
<1>2. RiceInv => RiceNeverVanishes
  BY DEF RiceInv
<1>. QED BY <1>1, <1>2, RiceInit, TypeInvariant, PTL DEF Spec

(***************************************************************************)
(* How far below zero the rice goes: binomial coefficients.                *)
(***************************************************************************)

Eaters == N \div 2

(* Functions that grow no faster than others.                              *)
LEMMA Telescope ==
  ASSUME NEW a \in Int, NEW b \in Int, a <= b, NEW f, NEW g,
         \A t \in a .. b : f[t] \in Int /\ g[t] \in Int,
         \A t \in a + 1 .. b : f[t] - f[t - 1] <= g[t] - g[t - 1]
  PROVE  f[b] - f[a] <= g[b] - g[a]
<1>. DEFINE Ok(d) == f[a + d] - f[a] <= g[a + d] - g[a]
            S == {d \in 0 .. b - a : ~Ok(d)}
<1>1. ASSUME S # {} PROVE FALSE
  <2>1. PICK d \in S : \A c \in S : d <= c
    <3>1. S \in SUBSET Nat
      OBVIOUS
    <3>. HIDE DEF S
    <3>. QED BY <1>1, <3>1, LeastElement
  <2>2. d # 0
    BY <2>1
  <2>3. d \in 1 .. b - a /\ d - 1 \in 0 .. b - a /\ d - 1 \notin S
    <3>1. d \in 0 .. b - a
      OBVIOUS
    <3>. HIDE DEF S
    <3>. QED BY <2>1, <2>2, <3>1
  <2>4. Ok(d - 1)
    BY <2>3
  <2>5. a + d \in a + 1 .. b /\ a + (d - 1) = a + d - 1 /\ a + d - 1 \in a .. b
    BY <2>3
  <2>6. Ok(d)
    BY <2>4, <2>5
  <2>. QED BY <2>1, <2>6
<1>2. b - a \in 0 .. b - a /\ a + (b - a) = b
  OBVIOUS
<1>. HIDE DEF S
<1>3. S = {}
  BY <1>1
<1>4. Ok(b - a)
  BY <1>2, <1>3 DEF S
<1>. QED BY <1>2, <1>4

(* Pascal's triangle satisfies its recursive equation, as the sums do.     *)
LEMMA PascalIsDefined ==
  \A n \in 0 .. N + Pounds : \A j \in 0 .. N :
    Pascal[n][j] = IF j = 0 THEN 1
                   ELSE IF n = 0 THEN 0
                   ELSE Pascal[n - 1][j - 1] + Pascal[n - 1][j]
<1>. DEFINE len == N + Pounds
            row(g, n) == [j \in 0 .. N |-> IF j = 0 THEN 1
                                           ELSE IF n = 0 THEN 0
                                           ELSE g[n - 1][j - 1] + g[n - 1][j]]
            e(v, n) == [j \in 0 .. N |-> IF j = 0 THEN 1
                                         ELSE IF n = 0 THEN 0
                                         ELSE v[j - 1] + v[j]]
            Solves(g, m) == g = [n \in 0 .. m |-> e(g[n - 1], n)]
            S == {m \in Nat : \A g : ~Solves(g, m)}
<1>0. len \in Nat
  BY TableAssumption
<1>1. ASSUME S # {} PROVE FALSE
  <2>1. PICK m \in S : \A n \in S : m <= n
    BY <1>1, LeastElement
  <2>2. m # 0
    <3>. DEFINE h == [n \in 0 .. 0 |-> e(<<>>, 0)]
    <3>1. \A v : e(v, 0) = e(<<>>, 0)
      OBVIOUS
    <3>. HIDE DEF e
    <3>2. \A n \in 0 .. 0 : e(<<>>, 0) = e(h[n - 1], n)
      BY <3>1
    <3>3. Solves(h, 0)
      BY <3>2, Zenon
    <3>. QED BY <2>1, <3>3
  <2>. HIDE DEF e
  <2>3. m \in Nat /\ m - 1 \in Nat /\ m - 1 \notin S
    <3>1. m \in Nat
      BY <2>1
    <3>. HIDE DEF S
    <3>. QED BY <2>1, <2>2, <3>1
  <2>4. PICK g : Solves(g, m - 1)
    BY <2>3
  <2>. DEFINE h == [n \in 0 .. m |-> IF n < m THEN g[n] ELSE e(g[m - 1], m)]
  <2>5. Solves(h, m)
    <3>1. ASSUME NEW n \in 0 .. m PROVE h[n] = e(h[n - 1], n)
      <4>1. n < m => g[n] = e(g[n - 1], n)
        BY <2>3, <2>4
      <4>2. n # 0 => n - 1 \in 0 .. m /\ n - 1 < m
        BY <2>3
      <4>3. \A v, w : e(v, 0) = e(w, 0)
        BY DEF e
      <4>. QED BY <2>2, <2>3, <4>1, <4>2, <4>3
    <3>. QED BY <3>1
  <2>. QED BY <2>1, <2>5
<1>2. \E g : Solves(g, len)
  <2>. HIDE DEF Solves, len
  <2>. QED BY <1>0, <1>1, ZenonT(40)
<1>3. Pascal = [n \in 0 .. len |-> row(Pascal, n)]
  <2>. DEFINE Eq(g) == g = [n \in 0 .. len |-> row(g, n)]
  <2>1. \E g : Eq(g)
    BY <1>2, Zenon
  <2>2. Pascal = CHOOSE g : Eq(g)
    BY Zenon DEF Pascal
  <2>. HIDE DEF Eq
  <2>3. Eq(Pascal)
    BY <2>1, <2>2, Zenon
  <2>. QED BY <2>3, Zenon DEF Eq
<1>4. \A n \in 0 .. len : Pascal[n] = row(Pascal, n)
  <2>. DEFINE Q == Pascal
  <2>. HIDE DEF Q, row
  <2>1. Q = [n \in 0 .. len |-> row(Q, n)]
    BY <1>3, Zenon DEF Q
  <2>. QED BY <2>1, Zenon DEF Q
<1>. HIDE DEF len
<1>. QED BY <1>4 DEF len

(* No entry is negative, and the diagonal ends the row.                    *)
LEMMA PascalFacts ==
  \A n \in 0 .. N + Pounds : \A j \in 0 .. N :
    /\ Pascal[n][j] \in Nat
    /\ j > n => Pascal[n][j] = 0
    /\ j = n => Pascal[n][j] = 1
<1>. DEFINE Ok(n) == \A j \in 0 .. N : /\ Pascal[n][j] \in Nat
                                       /\ j > n => Pascal[n][j] = 0
                                       /\ j = n => Pascal[n][j] = 1
            S == {n \in 0 .. N + Pounds : ~Ok(n)}
<1>1. N + Pounds \in Nat /\ N \in Nat
  BY TableAssumption
<1>2. ASSUME S # {} PROVE FALSE
  <2>1. PICK n \in S : \A m \in S : n <= m
    <3>1. S \in SUBSET Nat
      OBVIOUS
    <3>. HIDE DEF S
    <3>. QED BY <1>2, <3>1, LeastElement
  <2>2. n \in 0 .. N + Pounds
    BY <2>1
  <2>3. n # 0 => n - 1 \in 0 .. N + Pounds /\ Ok(n - 1)
    <3>1. n # 0 => n - 1 \in 0 .. N + Pounds /\ n - 1 \notin S
      <4>. HIDE DEF S
      <4>. QED BY <1>1, <2>1, <2>2
    <3>. QED BY <3>1
  <2>4. ASSUME NEW j \in 0 .. N
        PROVE  /\ Pascal[n][j] \in Nat
               /\ j > n => Pascal[n][j] = 0
               /\ j = n => Pascal[n][j] = 1
    <3>1. Pascal[n][j] = IF j = 0 THEN 1
                         ELSE IF n = 0 THEN 0
                         ELSE Pascal[n - 1][j - 1] + Pascal[n - 1][j]
      BY <2>2, PascalIsDefined
    <3>2. j # 0 => j - 1 \in 0 .. N
      BY <1>1
    <3>. QED BY <1>1, <2>2, <2>3, <3>1, <3>2
  <2>. QED BY <2>1, <2>4
<1>. QED BY <1>2

(* The rule of the triangle, and its border, for the debts.                *)
LEMMA DebtFacts ==
  ASSUME NEW e \in Int, e <= Eaters, NEW p \in 0 .. Pounds
  PROVE  /\ Debt(e, p) \in Nat
         /\ p = 0 => Debt(e, p) = IF e < 2 THEN 0 ELSE 1
         /\ p # 0 => Debt(e, p) = Debt(e - 1, p) + Debt(e, p - 1)
<1>1. N \in Nat /\ Pounds \in Nat /\ Eaters \in Nat /\ Eaters <= N
  BY TableAssumption DEF Eaters
<1>2. CASE e < 2
  BY <1>2 DEF Debt
<1>3. CASE e >= 2
  <2>1. /\ e + p - 2 \in 0 .. N + Pounds
        /\ e - 2 \in 0 .. N
        /\ Debt(e, p) = Pascal[e + p - 2][e - 2]
    BY <1>1, <1>3 DEF Debt
  <2>2. p = 0 => Debt(e, p) = 1
    <3>1. p = 0 => e - 2 = e + p - 2
      OBVIOUS
    <3>. QED BY <2>1, <3>1, PascalFacts
  <2>3. ASSUME p # 0
        PROVE  Debt(e, p) = Debt(e - 1, p) + Debt(e, p - 1)
    <3>1. /\ Debt(e, p - 1) = Pascal[e + p - 2 - 1][e - 2]
          /\ e # 2 => Debt(e - 1, p) = Pascal[e + p - 2 - 1][e - 2 - 1]
          /\ e = 2 => Debt(e - 1, p) = 0
      <4>1. e + (p - 1) - 2 = e + p - 2 - 1 /\ (e - 1) + p - 2 = e + p - 2 - 1
            /\ e - 1 - 2 = e - 2 - 1
        OBVIOUS
      <4>. QED BY <1>3, <4>1 DEF Debt
    <3>2. e + p - 2 # 0 /\ e + p - 2 - 1 \in 0 .. N + Pounds
      BY <1>1, <1>3, <2>1, <2>3
    <3>3. e = 2 => Pascal[e + p - 2][e - 2] = 1
                   /\ Pascal[e + p - 2 - 1][e - 2] = 1
      BY <1>1, <2>1, <3>2, PascalIsDefined
    <3>4. e # 2 => Pascal[e + p - 2][e - 2]
                     = Pascal[e + p - 2 - 1][e - 2 - 1]
                       + Pascal[e + p - 2 - 1][e - 2]
      BY <1>1, <1>3, <2>1, <3>2, PascalIsDefined
    <3>. QED BY <2>1, <3>1, <3>3, <3>4
  <2>4. Debt(e, p) \in Nat
    BY <2>1, PascalFacts
  <2>. QED BY <1>3, <2>2, <2>3, <2>4
<1>. QED BY <1>2, <1>3

(* More philosophers can take the rice further down.                       *)
LEMMA DebtMonotone ==
  ASSUME NEW d \in Int, NEW e \in Int, d <= e, e <= Eaters,
         NEW p \in 0 .. Pounds
  PROVE  Debt(d, p) <= Debt(e, p)
<1>. DEFINE f == [t \in d .. e |-> 0]
            g == [t \in d .. e |-> Debt(t, p)]
<1>0. Eaters \in Nat
  BY TableAssumption DEF Eaters
<1>1. \A t \in d .. e : t \in Int /\ t <= Eaters
  BY <1>0
<1>2. \A t \in d .. e : f[t] \in Int /\ g[t] \in Int
  BY <1>1, DebtFacts
<1>3. ASSUME NEW t \in d + 1 .. e
      PROVE  f[t] - f[t - 1] <= g[t] - g[t - 1]
  <2>1. t \in d .. e /\ t - 1 \in d .. e
    OBVIOUS
  <2>2. Debt(t, p) >= Debt(t - 1, p)
    <3>1. Debt(t, p) \in Nat /\ Debt(t - 1, p) \in Nat
      BY <1>1, <2>1, DebtFacts
    <3>2. CASE p = 0
      BY <1>1, <2>1, <3>2, DebtFacts
    <3>3. CASE p # 0
      <4>1. Debt(t, p) = Debt(t - 1, p) + Debt(t, p - 1)
        BY <1>1, <2>1, <3>3, DebtFacts
      <4>2. p - 1 \in 0 .. Pounds
        BY <3>3, TableAssumption
      <4>3. Debt(t, p - 1) \in Nat
        BY <1>1, <2>1, <4>2, DebtFacts
      <4>. QED BY <3>1, <4>1, <4>3
    <3>. QED BY <3>2, <3>3
  <2>3. Debt(t, p) \in Int /\ Debt(t - 1, p) \in Int
    BY <1>1, <2>1, DebtFacts
  <2>. QED BY <2>1, <2>2, <2>3
<1>. HIDE DEF f, g
<1>4. f[e] - f[d] <= g[e] - g[d]
  BY <1>2, <1>3, Telescope
<1>5. d \in d .. e /\ e \in d .. e
  OBVIOUS
<1>. QED BY <1>4, <1>5, <1>1, DebtFacts DEF f, g

(* The first pound, each past the test but one can take again.             *)
LEMMA DebtOne ==
  ASSUME NEW e \in Int, e <= Eaters, Pounds >= 1
  PROVE  Debt(e, 1) >= e - 1
<1>0. Eaters \in Nat /\ 1 \in 0 .. Pounds /\ 0 \in 0 .. Pounds
  BY TableAssumption DEF Eaters
<1>1. CASE e < 2
  BY <1>1 DEF Debt
<1>2. CASE e >= 2
  <2>. DEFINE f == [t \in 1 .. e |-> t]
              g == [t \in 1 .. e |-> Debt(t, 1)]
  <2>1. \A t \in 1 .. e : t \in Int /\ t <= Eaters
    BY <1>0
  <2>2. \A t \in 1 .. e : f[t] \in Int /\ g[t] \in Int
    BY <1>0, <2>1, DebtFacts
  <2>3. ASSUME NEW t \in 1 + 1 .. e
        PROVE  f[t] - f[t - 1] <= g[t] - g[t - 1]
    <3>1. t \in 1 .. e /\ t - 1 \in 1 .. e
      OBVIOUS
    <3>2. Debt(t, 1) = Debt(t - 1, 1) + Debt(t, 0)
      <4>1. Debt(t, 1) = Debt(t - 1, 1) + Debt(t, 1 - 1)
        BY <1>0, <2>1, <3>1, DebtFacts
      <4>. QED BY <4>1
    <3>3. Debt(t, 0) = 1
      BY <1>0, <2>1, <3>1, DebtFacts
    <3>4. Debt(t, 1) \in Int /\ Debt(t - 1, 1) \in Int
      BY <1>0, <2>1, <3>1, DebtFacts
    <3>. QED BY <3>1, <3>2, <3>3, <3>4
  <2>4. /\ 1 \in 1 .. e /\ e \in 1 .. e
        /\ f[e] = e /\ f[1] = 1 /\ g[e] = Debt(e, 1) /\ g[1] = Debt(1, 1)
    BY <1>2
  <2>5. Debt(1, 1) = 0
    BY DEF Debt
  <2>. HIDE DEF f, g
  <2>6. f[e] - f[1] <= g[e] - g[1]
    BY <1>2, <2>2, <2>3, Telescope
  <2>7. Debt(e, 1) \in Nat
    BY <1>0, DebtFacts
  <2>. QED BY <2>4, <2>5, <2>6, <2>7
<1>. QED BY <1>1, <1>2

(* K[t] of those past the test hold the value t or a greater one.  Each of *)
(* the others but one can take the rice from t down as far as they can     *)
(* together with those others who have not stored yet.                     *)
Counts == [1 .. Pounds + 1 -> Nat]
Share(K) == [t \in 0 .. Pounds - 1 |-> Debt(Eaters - 1 - K[t + 1], t + 1)]
Lent(K) == SumUpTo(Share(K), Pounds)

LEMMA LentFacts ==
  ASSUME NEW K \in Counts
  PROVE  /\ Lent(K)[0] = 0
         /\ \A t \in 1 .. Pounds :
              Lent(K)[t] = Lent(K)[t - 1] + Debt(Eaters - 1 - K[t], t)
         /\ \A t \in 1 .. Pounds : Debt(Eaters - 1 - K[t], t) \in Nat
         /\ \A t \in 0 .. Pounds : Lent(K)[t] \in Nat
<1>. DEFINE L == Lent(K)
            S == {t \in 0 .. Pounds : L[t] \notin Nat}
<1>0. Eaters \in Nat /\ Pounds \in Nat
  BY TableAssumption DEF Eaters
<1>1. L[0] = 0 /\ \A t \in 1 .. Pounds : L[t] = L[t - 1] + Share(K)[t - 1]
  BY <1>0, SumIsDefined, Zenon DEF Lent
<1>2. ASSUME NEW t \in 1 .. Pounds
      PROVE  /\ Share(K)[t - 1] = Debt(Eaters - 1 - K[t], t)
             /\ Debt(Eaters - 1 - K[t], t) \in Nat
  <2>1. t - 1 \in 0 .. Pounds - 1 /\ (t - 1) + 1 = t
    BY <1>0
  <2>2. Share(K)[t - 1] = Debt(Eaters - 1 - K[t], t)
    BY <2>1 DEF Share
  <2>3. K[t] \in Nat
    BY <1>0 DEF Counts
  <2>4. Eaters - 1 - K[t] \in Int /\ Eaters - 1 - K[t] <= Eaters
    BY <1>0, <2>3
  <2>. QED BY <2>2, <2>4, DebtFacts
<1>. HIDE DEF L
<1>3. ASSUME S # {} PROVE FALSE
  <2>1. PICK t \in S : \A u \in S : t <= u
    <3>1. S \in SUBSET Nat
      OBVIOUS
    <3>. HIDE DEF S
    <3>. QED BY <1>3, <3>1, LeastElement
  <2>2. t # 0
    BY <1>1, <2>1
  <2>3. t \in 1 .. Pounds /\ t - 1 \in 0 .. Pounds /\ t - 1 \notin S
    <3>1. t \in 0 .. Pounds
      BY <2>1
    <3>. HIDE DEF S
    <3>. QED BY <1>0, <2>1, <2>2, <3>1
  <2>4. L[t] \in Nat
    BY <1>1, <1>2, <2>3
  <2>. QED BY <2>1, <2>4
<1>4. \A t \in 0 .. Pounds : L[t] \in Nat
  BY <1>3
<1>. QED BY <1>1, <1>2, <1>4 DEF L

LEMMA LentGrows ==
  ASSUME NEW K \in Counts, NEW a \in 0 .. Pounds, NEW b \in 0 .. Pounds,
         a <= b
  PROVE  Lent(K)[a] <= Lent(K)[b]
<1>. DEFINE f == [t \in a .. b |-> 0]
            g == Lent(K)
<1>1. \A t \in a .. b : t \in 0 .. Pounds
  BY TableAssumption
<1>2. \A t \in a + 1 .. b : t \in 1 .. Pounds /\ t - 1 \in 0 .. Pounds
                             /\ t \in a .. b /\ t - 1 \in a .. b
  BY TableAssumption
<1>3. \A t \in a .. b : f[t] \in Int /\ g[t] \in Int
  BY <1>1, LentFacts
<1>4. ASSUME NEW t \in a + 1 .. b
      PROVE  f[t] - f[t - 1] <= g[t] - g[t - 1]
  <2>1. g[t] = g[t - 1] + Debt(Eaters - 1 - K[t], t)
        /\ Debt(Eaters - 1 - K[t], t) \in Nat
    BY <1>2, LentFacts
  <2>2. g[t - 1] \in Int /\ f[t] = 0 /\ f[t - 1] = 0
    BY <1>2, <1>3
  <2>. QED BY <2>1, <2>2
<1>5. a \in a .. b /\ b \in a .. b /\ f[a] = 0 /\ f[b] = 0
  OBVIOUS
<1>. HIDE DEF f, g
<1>6. f[b] - f[a] <= g[b] - g[a]
  BY <1>3, <1>4, Telescope
<1>. QED BY <1>3, <1>5, <1>6 DEF g

(* Together, e of them take the rice from b to a no further than they can. *)
LEMMA LentBelow ==
  ASSUME NEW K \in Counts, NEW a \in 0 .. Pounds, NEW b \in 0 .. Pounds,
         a <= b, NEW e \in Int, e <= Eaters,
         \A t \in a + 1 .. b : Eaters - K[t] <= e
  PROVE  Lent(K)[b] - Lent(K)[a] <= Debt(e, b) - Debt(e, a)
<1>. DEFINE f == Lent(K)
            g == [t \in a .. b |-> Debt(e, t)]
<1>0. Eaters \in Nat /\ Pounds \in Nat
  BY TableAssumption DEF Eaters
<1>1. \A t \in a .. b : t \in 0 .. Pounds
  BY TableAssumption
<1>2. \A t \in a + 1 .. b : t \in 1 .. Pounds /\ t - 1 \in 0 .. Pounds
                             /\ t \in a .. b /\ t - 1 \in a .. b /\ t # 0
                             /\ t \in 0 .. Pounds
  BY TableAssumption
<1>3. \A t \in a .. b : f[t] \in Int /\ g[t] \in Int
  BY <1>1, LentFacts, DebtFacts
<1>4. ASSUME NEW t \in a + 1 .. b
      PROVE  f[t] - f[t - 1] <= g[t] - g[t - 1]
  <2>1. f[t] = f[t - 1] + Debt(Eaters - 1 - K[t], t)
        /\ Debt(Eaters - 1 - K[t], t) \in Nat
    BY <1>2, LentFacts
  <2>2. Debt(e, t) = Debt(e - 1, t) + Debt(e, t - 1)
    BY <1>2, DebtFacts
  <2>3. K[t] \in Nat
    BY <1>2, <1>0 DEF Counts
  <2>4. /\ Eaters - 1 - K[t] \in Int /\ e - 1 \in Int
        /\ Eaters - 1 - K[t] <= e - 1 /\ e - 1 <= Eaters
    BY <1>0, <2>3
  <2>5. Debt(Eaters - 1 - K[t], t) <= Debt(e - 1, t)
    BY <1>2, <2>4, DebtMonotone
  <2>6. /\ f[t - 1] \in Int /\ Debt(e - 1, t) \in Nat
        /\ Debt(e, t - 1) \in Nat
        /\ g[t] = Debt(e, t) /\ g[t - 1] = Debt(e, t - 1)
    BY <1>2, <1>3, <2>4, DebtFacts
  <2>. HIDE DEF f, g
  <2>. QED BY <2>1, <2>2, <2>5, <2>6
<1>5. a \in a .. b /\ b \in a .. b
  OBVIOUS
<1>6. g[a] = Debt(e, a) /\ g[b] = Debt(e, b)
  BY <1>5
<1>. HIDE DEF f, g
<1>7. f[b] - f[a] <= g[b] - g[a]
  BY <1>3, <1>4, Telescope
<1>. QED BY <1>6, <1>7 DEF f

(* Only the counts above a matter above a.                                 *)
LEMMA LentSame ==
  ASSUME NEW K \in Counts, NEW J \in Counts, NEW a \in 0 .. Pounds,
         \A t \in a + 1 .. Pounds : J[t] = K[t]
  PROVE  Lent(J)[Pounds] - Lent(J)[a] = Lent(K)[Pounds] - Lent(K)[a]
<1>. DEFINE f == Lent(J)
            g == Lent(K)
<1>0. Pounds \in Nat /\ a <= Pounds
  BY TableAssumption
<1>1. \A t \in a .. Pounds : t \in 0 .. Pounds
  OBVIOUS
<1>2. \A t \in a .. Pounds : f[t] \in Int /\ g[t] \in Int
  BY <1>1, LentFacts
<1>3. ASSUME NEW t \in a + 1 .. Pounds
      PROVE  f[t] - f[t - 1] = g[t] - g[t - 1]
  <2>1. t \in 1 .. Pounds /\ t - 1 \in 0 .. Pounds
    BY TableAssumption
  <2>2. /\ f[t] = f[t - 1] + Debt(Eaters - 1 - J[t], t)
        /\ g[t] = g[t - 1] + Debt(Eaters - 1 - K[t], t)
        /\ Debt(Eaters - 1 - K[t], t) \in Nat
        /\ f[t - 1] \in Nat /\ g[t - 1] \in Nat
    BY <2>1, LentFacts
  <2>. HIDE DEF f, g
  <2>. QED BY <2>2
<1>. HIDE DEF f, g
<1>4. \A t \in a + 1 .. Pounds : /\ f[t] - f[t - 1] <= g[t] - g[t - 1]
                                 /\ g[t] - g[t - 1] <= f[t] - f[t - 1]
  <2>1. \A t \in a + 1 .. Pounds : t \in a .. Pounds /\ t - 1 \in a .. Pounds
    BY TableAssumption
  <2>. QED BY <1>2, <1>3, <2>1
<1>5. f[Pounds] - f[a] <= g[Pounds] - g[a]
  BY <1>0, <1>2, <1>4, Telescope
<1>6. g[Pounds] - g[a] <= f[Pounds] - f[a]
  BY <1>0, <1>2, <1>4, Telescope
<1>7. a \in a .. Pounds /\ Pounds \in a .. Pounds
  BY <1>0
<1>8. f[Pounds] - f[a] = g[Pounds] - g[a]
  BY <1>2, <1>5, <1>6, <1>7
<1>. QED BY <1>8 DEF f, g

(* The floor of the rice and of every value somebody still holds.  r is    *)
(* the rice, load of those past the test have no value yet and low hold    *)
(* one that is not positive.                                               *)
FloorOf(r, load, low, K) ==
  low + (IF r <= 0 THEN load - Debt(Eaters - K[1], 0) ELSE 0)
    - (Lent(K)[Pounds] - Lent(K)[IF r <= 0 THEN 0 ELSE r])

(* The debts that occur in the floor.                                      *)
LEMMA FloorFacts ==
  ASSUME NEW K \in Counts, NEW v \in 1 .. Pounds, K[v] \in Nat
  PROVE  /\ Eaters - K[v] \in Int /\ Eaters - K[v] <= Eaters
         /\ \A t \in 0 .. Pounds : Debt(Eaters - K[v], t) \in Nat
         /\ Lent(K)[v] = Lent(K)[v - 1] + Debt(Eaters - 1 - K[v], v)
         /\ Debt(Eaters - 1 - K[v], v) \in Nat
         /\ Debt(Eaters - K[v], v)
              = Debt(Eaters - 1 - K[v], v) + Debt(Eaters - K[v], v - 1)
<1>0. Eaters \in Nat /\ Pounds \in Nat
  BY TableAssumption DEF Eaters
<1>1. Eaters - K[v] \in Int /\ Eaters - K[v] <= Eaters
      /\ Eaters - K[v] - 1 = Eaters - 1 - K[v] /\ v \in 0 .. Pounds /\ v # 0
  BY <1>0
<1>2. \A t \in 0 .. Pounds : Debt(Eaters - K[v], t) \in Nat
  BY <1>1, DebtFacts
<1>3. Debt(Eaters - K[v], v)
        = Debt(Eaters - K[v] - 1, v) + Debt(Eaters - K[v], v - 1)
  BY <1>1, DebtFacts
<1>. QED BY <1>1, <1>2, <1>3, LentFacts

(* Storing one less than a positive value does not raise the floor, and    *)
(* zero is not below it.                                                   *)
LEMMA StoreLowers ==
  ASSUME NEW K \in Counts, NEW J \in Counts, NEW v \in 1 .. Pounds,
         NEW load \in Nat, NEW low \in Nat, NEW r \in Int, r <= Pounds,
         \A t \in 1 .. Pounds : J[t] = K[t] - IF t <= v THEN 1 ELSE 0,
         \A t \in 1 .. v : K[v] <= K[t],
         K[v] >= 1, load + low + K[1] <= Eaters
  PROVE  /\ FloorOf(v - 1, load, low, J) <= FloorOf(r, load, low, K)
         /\ v = 1 => FloorOf(v - 1, load, low, J) <= 0
<1>. DEFINE S == Lent(K)
            e == Eaters - K[v]
<1>0. Eaters \in Nat /\ Pounds \in Nat /\ Pounds >= 1
  BY TableAssumption DEF Eaters
<1>1. /\ K[v] \in Nat /\ K[1] \in Nat /\ J[v] = K[v] - 1
      /\ 1 \in 1 .. Pounds /\ v \in 0 .. Pounds /\ v - 1 \in 0 .. Pounds
      /\ Pounds \in 0 .. Pounds /\ 0 \in 0 .. Pounds /\ J[1] = K[1] - 1
  BY <1>0 DEF Counts
<1>2. /\ e \in Int /\ e <= Eaters
      /\ \A t \in 0 .. Pounds : Debt(e, t) \in Nat
  BY <1>1, FloorFacts
<1>3. /\ \A t \in 0 .. Pounds : S[t] \in Nat
      /\ \A t \in 0 .. Pounds : Lent(J)[t] \in Nat
      /\ S[0] = 0 /\ Lent(J)[0] = 0
  BY LentFacts
<1>4. Lent(J)[Pounds] - Lent(J)[v - 1] = S[Pounds] - S[v] + Debt(e, v)
  <2>1. \A t \in v + 1 .. Pounds : J[t] = K[t]
    <3>. SUFFICES ASSUME NEW t \in v + 1 .. Pounds PROVE J[t] = K[t]
      OBVIOUS
    <3>1. t \in 1 .. Pounds /\ ~(t <= v) /\ K[t] \in Nat
      BY <1>0 DEF Counts
    <3>. QED BY <3>1
  <2>2. Lent(J)[Pounds] - Lent(J)[v] = S[Pounds] - S[v]
    BY <1>1, <2>1, LentSame
  <2>3. Lent(J)[v] = Lent(J)[v - 1] + Debt(Eaters - 1 - J[v], v)
    BY LentFacts
  <2>4. Eaters - 1 - J[v] = e
    BY <1>0, <1>1
  <2>. HIDE DEF e, S
  <2>. QED BY <1>1, <1>2, <1>3, <2>2, <2>3, <2>4
<1>5. CASE v >= 2
  <2>1. FloorOf(v - 1, load, low, J) = low - (S[Pounds] - S[v] + Debt(e, v))
    <3>1. ~(v - 1 <= 0)
      BY <1>5
    <3>. HIDE DEF e, S
    <3>. QED BY <1>1, <1>2, <1>3, <1>4, <3>1 DEF FloorOf
  <2>2. CASE r >= v
    <3>1. r \in 0 .. Pounds /\ ~(r <= 0) /\ v <= r
      BY <2>2
    <3>2. S[v] <= S[r]
      BY <1>1, <3>1, LentGrows
    <3>3. FloorOf(r, load, low, K) = low - (S[Pounds] - S[r])
      BY <1>1, <1>3, <3>1 DEF FloorOf
    <3>. HIDE DEF e, S
    <3>. QED BY <1>1, <1>2, <1>3, <1>5, <2>1, <3>1, <3>2, <3>3
  <2>3. CASE r < v
    <3>. DEFINE b == IF r <= 0 THEN 0 ELSE r
    <3>1. b \in 0 .. Pounds /\ b <= v
      BY <2>3, <1>0
    <3>2. \A t \in b + 1 .. v : Eaters - K[t] <= e
      <4>. SUFFICES ASSUME NEW t \in b + 1 .. v PROVE Eaters - K[t] <= e
        OBVIOUS
      <4>1. t \in 1 .. v /\ t \in 1 .. Pounds
        <5>. HIDE DEF b
        <5>. QED BY <1>0, <3>1
      <4>2. K[t] \in Nat
        BY <1>0, <4>1 DEF Counts
      <4>. QED BY <1>0, <1>1, <4>1, <4>2
    <3>3. S[v] - S[b] <= Debt(e, v) - Debt(e, b)
      <4>. HIDE DEF b, e
      <4>. QED BY <1>1, <1>2, <3>1, <3>2, LentBelow
    <3>4. CASE r > 0
      <4>1. FloorOf(r, load, low, K) = low - (S[Pounds] - S[r]) /\ b = r
        BY <1>1, <1>3, <3>4 DEF FloorOf
      <4>2. r \in 0 .. Pounds
        BY <3>4
      <4>. HIDE DEF e, S, b
      <4>. QED BY <1>1, <1>2, <1>3, <1>5, <2>1, <3>3, <4>1, <4>2
    <3>5. CASE r <= 0
      <4>1. /\ FloorOf(r, load, low, K)
                = low + (load - Debt(Eaters - K[1], 0)) - S[Pounds]
            /\ b = 0
        <5>1. b = 0
          BY <3>5
        <5>2. Debt(Eaters - K[1], 0) \in Nat
          BY <1>1, FloorFacts
        <5>3. FloorOf(r, load, low, K)
                = low + (load - Debt(Eaters - K[1], 0)) - (S[Pounds] - S[0])
          BY <3>5 DEF FloorOf
        <5>. HIDE DEF S
        <5>. QED BY <1>1, <1>3, <5>1, <5>2, <5>3
      <4>2. Debt(Eaters - K[1], 0) <= Debt(e, 0)
        <5>1. Eaters - K[1] <= e /\ Eaters - K[1] \in Int
          BY <1>0, <1>1
        <5>. QED BY <1>1, <1>2, <5>1, DebtMonotone
      <4>3. Debt(Eaters - K[1], 0) \in Nat
        BY <1>1, FloorFacts
      <4>. HIDE DEF e, S, b
      <4>. QED BY <1>1, <1>2, <1>3, <1>5, <2>1, <3>3, <4>1, <4>2, <4>3
    <3>. QED BY <3>4, <3>5
  <2>. QED BY <1>5, <2>2, <2>3
<1>6. CASE v = 1
  <2>. DEFINE d == Eaters - K[1]
  <2>1. /\ d + 1 \in Int /\ d + 1 <= Eaters /\ d \in Int /\ e = d
        /\ Eaters - J[1] = d + 1 /\ load + low <= d
    BY <1>0, <1>1, <1>6
  <2>2. Debt(d + 1, 1) = Debt(d, 1) + Debt(d + 1, 0)
    <3>1. /\ 1 \in 0 .. Pounds /\ 1 # 0 /\ d + 1 - 1 = d /\ 1 - 1 = 0
      BY <1>0, <2>1
    <3>. HIDE DEF d
    <3>2. Debt(d + 1, 1) = Debt(d + 1 - 1, 1) + Debt(d + 1, 1 - 1)
      BY <2>1, <3>1, DebtFacts
    <3>. QED BY <3>1, <3>2
  <2>3. Debt(d + 1, 1) >= d
    <3>. HIDE DEF d
    <3>1. Debt(d + 1, 1) >= d + 1 - 1
      BY <1>0, <2>1, DebtOne
    <3>. QED BY <2>1, <3>1
  <2>4. /\ Debt(d + 1, 0) \in Nat /\ Debt(d + 1, 1) \in Nat
        /\ Debt(d, 1) \in Nat /\ Debt(d, 0) \in Nat
    <3>1. 1 \in 0 .. Pounds /\ d <= Eaters
      BY <1>0, <2>1
    <3>. HIDE DEF d
    <3>. QED BY <1>1, <2>1, <3>1, DebtFacts
  <2>5. FloorOf(v - 1, load, low, J)
          = low + load - Debt(d + 1, 1) - (S[Pounds] - S[1])
    <3>1. FloorOf(v - 1, load, low, J)
            = low + (load - Debt(Eaters - J[1], 0))
                - (Lent(J)[Pounds] - Lent(J)[0])
      BY <1>6 DEF FloorOf
    <3>2. Lent(J)[Pounds] - Lent(J)[0] = S[Pounds] - S[1] + Debt(d, 1)
      BY <1>4, <1>6, <2>1
    <3>3. S[1] \in Nat /\ S[Pounds] \in Nat
      BY <1>1, <1>3, <1>6
    <3>. HIDE DEF S, d, e
    <3>. QED BY <2>1, <2>2, <2>4, <3>1, <3>2, <3>3
  <2>6. S[1] <= S[Pounds] /\ S[1] \in Nat /\ S[Pounds] \in Nat
    <3>1. 1 \in 0 .. Pounds /\ 1 <= Pounds
      BY <1>0
    <3>. QED BY <1>1, <1>3, <3>1, LentGrows
  <2>7. FloorOf(v - 1, load, low, J) <= 0 - (S[Pounds] - S[1])
    <3>. HIDE DEF S, d, e
    <3>. QED BY <2>1, <2>3, <2>4, <2>5, <2>6
  <2>8. CASE r > 0
    <3>1. r \in 0 .. Pounds /\ 1 <= r /\ 1 \in 0 .. Pounds /\ ~(r <= 0)
      BY <1>0, <2>8
    <3>2. S[1] <= S[r] /\ S[r] \in Nat
      BY <1>3, <3>1, LentGrows
    <3>3. FloorOf(r, load, low, K) = low - (S[Pounds] - S[r])
      BY <1>3, <1>1, <3>1 DEF FloorOf
    <3>. HIDE DEF S, d, e
    <3>4. FloorOf(v - 1, load, low, J) <= FloorOf(r, load, low, K)
      BY <2>1, <2>4, <2>5, <2>6, <2>7, <3>2, <3>3
    <3>5. FloorOf(v - 1, load, low, J) <= 0
      BY <2>1, <2>4, <2>5, <2>6, <2>7
    <3>. QED BY <3>4, <3>5
  <2>9. CASE r <= 0
    <3>1. FloorOf(r, load, low, K) = low + (load - Debt(d, 0)) - S[Pounds]
      <4>1. FloorOf(r, load, low, K)
              = low + (load - Debt(d, 0)) - (S[Pounds] - S[0])
        BY <2>9 DEF FloorOf
      <4>. HIDE DEF S, d
      <4>. QED BY <1>3, <2>6, <4>1
    <3>2. S[1] = Debt(Eaters - 1 - K[1], 1) /\ S[1] \in Nat
      <4>1. S[1] = S[1 - 1] + Debt(Eaters - 1 - K[1], 1)
            /\ Debt(Eaters - 1 - K[1], 1) \in Nat
        BY <1>1, FloorFacts
      <4>2. 1 - 1 = 0
        OBVIOUS
      <4>. HIDE DEF S
      <4>. QED BY <1>3, <4>1, <4>2
    <3>3. Debt(d, 1) = Debt(Eaters - 1 - K[1], 1) + Debt(d, 0)
      <4>1. Debt(d, 1) = Debt(Eaters - 1 - K[1], 1) + Debt(d, 1 - 1)
        BY <1>1, FloorFacts
      <4>2. 1 - 1 = 0
        OBVIOUS
      <4>. QED BY <4>1, <4>2
    <3>4. Debt(d, 1) <= Debt(d + 1, 1)
      <4>1. 1 \in 0 .. Pounds /\ d <= d + 1
        BY <1>0, <2>1
      <4>. HIDE DEF d
      <4>. QED BY <2>1, <4>1, DebtMonotone
    <3>. HIDE DEF S, d, e
    <3>5. FloorOf(v - 1, load, low, J) <= FloorOf(r, load, low, K)
      BY <2>1, <2>4, <2>5, <2>6, <3>1, <3>2, <3>3, <3>4
    <3>6. FloorOf(v - 1, load, low, J) <= 0
      BY <2>1, <2>4, <2>5, <2>6, <2>7
    <3>. QED BY <3>5, <3>6
  <2>. QED BY <2>8, <2>9
<1>7. v >= 2 \/ v = 1
  OBVIOUS
<1>. QED BY <1>5, <1>6, <1>7

(* Storing one less than a value that is not positive lowers the floor.    *)
LEMMA LowStoreLowers ==
  ASSUME NEW K \in Counts, NEW load \in Nat, NEW low \in Nat, low >= 1,
         NEW r \in Int, r <= Pounds, NEW s \in Int, s <= 0,
         load + low + K[1] <= Eaters
  PROVE  FloorOf(s, load, low - 1, K) <= FloorOf(r, load, low, K) - 1
<1>. DEFINE S == Lent(K)
            d == Eaters - K[1]
<1>0. Eaters \in Nat /\ Pounds \in Nat /\ 0 \in 0 .. Pounds
      /\ Pounds \in 0 .. Pounds /\ K[1] \in Nat
  BY TableAssumption DEF Eaters, Counts
<1>1. /\ \A t \in 0 .. Pounds : S[t] \in Nat
      /\ S[0] = 0 /\ S[Pounds] \in Nat
  BY <1>0, LentFacts
<1>2. d \in Int /\ d <= Eaters /\ load + low <= d
  BY <1>0
<1>3. Debt(d, 0) \in Nat
  <2>. HIDE DEF d
  <2>. QED BY <1>0, <1>2, DebtFacts
<1>4. FloorOf(s, load, low - 1, K)
        = low - 1 + (load - Debt(d, 0)) - (S[Pounds] - S[0])
  BY DEF FloorOf
<1>5. CASE r <= 0
  <2>1. FloorOf(r, load, low, K)
          = low + (load - Debt(d, 0)) - (S[Pounds] - S[0])
    BY <1>5 DEF FloorOf
  <2>. HIDE DEF S, d
  <2>. QED BY <1>1, <1>3, <1>4, <2>1
<1>6. CASE r > 0
  <2>1. r \in 0 .. Pounds /\ ~(r <= 0) /\ 1 <= r /\ 1 \in 0 .. Pounds
        /\ 1 \in 1 .. Pounds /\ Pounds >= 1
    BY <1>0, <1>6
  <2>2. FloorOf(r, load, low, K) = low - (S[Pounds] - S[r])
    BY <1>1, <2>1 DEF FloorOf
  <2>3. S[1] <= S[r] /\ S[r] \in Nat
    BY <1>1, <2>1, LentGrows
  <2>4. S[1] = Debt(Eaters - 1 - K[1], 1)
    <3>1. S[1] = S[1 - 1] + Debt(Eaters - 1 - K[1], 1)
          /\ Debt(Eaters - 1 - K[1], 1) \in Nat
      BY <1>0, <2>1, FloorFacts
    <3>2. 1 - 1 = 0
      OBVIOUS
    <3>. HIDE DEF S
    <3>. QED BY <1>1, <3>1, <3>2
  <2>5. Debt(d, 1) = Debt(Eaters - 1 - K[1], 1) + Debt(d, 0)
    <3>1. Debt(d, 1) = Debt(Eaters - 1 - K[1], 1) + Debt(d, 1 - 1)
      BY <1>0, <2>1, FloorFacts
    <3>2. 1 - 1 = 0
      OBVIOUS
    <3>. QED BY <3>1, <3>2
  <2>6. Debt(d, 1) >= d - 1
    <3>. HIDE DEF d
    <3>. QED BY <1>2, <2>1, DebtOne
  <2>7. Debt(Eaters - 1 - K[1], 1) \in Nat
    BY <1>0, <2>1, FloorFacts
  <2>. HIDE DEF S, d
  <2>. QED BY <1>1, <1>2, <1>3, <1>4, <2>2, <2>3, <2>4, <2>5, <2>6, <2>7
<1>. QED BY <1>5, <1>6

(* Past the test: without a value yet, with one that is not positive, and  *)
(* with one that is t or more.                                             *)
Loading == {i \in Phil : pc[i] = "load"}
Low == {i \in Phil : pc[i] = "store" /\ loaded[i] <= 0}
AtLeast(t) == {i \in Phil : pc[i] = "store" /\ loaded[i] >= t}

AtLeastCounts == [t \in 1 .. Pounds + 1 |-> Cardinality(AtLeast(t))]

Floor == FloorOf(Rice, Cardinality(Loading), Cardinality(Low), AtLeastCounts)

(* No value is above what there was or below the floor.                    *)
Overdraft ==
  /\ Rice <= Pounds
  /\ Rice <= 0 => Rice >= Floor
  /\ \A i \in Phil : pc[i] = "store" =>
       /\ loaded[i] <= Pounds
       /\ loaded[i] <= 0 => loaded[i] >= Floor

OverdraftInv == closed = {} => Overdraft

LEMMA PhilFinite ==
  /\ IsFiniteSet(Phil) /\ Cardinality(Phil) = N
  /\ \A S \in SUBSET Phil : IsFiniteSet(S) /\ Cardinality(S) \in Nat
<1>1. 0 \in Int /\ N - 1 \in Int /\ ~(0 > N - 1) /\ N - 1 - 0 + 1 = N
  BY TableAssumption
<1>2. IsFiniteSet(Phil) /\ Cardinality(Phil) = N
  BY <1>1, FS_Interval DEF Phil
<1>. QED BY <1>2, FS_Subset, FS_CardinalityType

LEMMA DisjointCount ==
  ASSUME NEW S \in SUBSET Phil, NEW T \in SUBSET Phil, S \cap T = {}
  PROVE  Cardinality(S \cup T) = Cardinality(S) + Cardinality(T)
<1>1. IsFiniteSet(S) /\ IsFiniteSet(T)
  BY PhilFinite
<1>2. Cardinality(S \cup T)
        = Cardinality(S) + Cardinality(T) - Cardinality(S \cap T)
  BY <1>1, FS_Union
<1>3. Cardinality(S \cap T) = 0
  BY FS_EmptySet
<1>4. Cardinality(S) \in Nat /\ Cardinality(T) \in Nat
  BY PhilFinite
<1>. QED BY <1>2, <1>3, <1>4

(* Of two neighbours one eats at most: at most half of the table is past   *)
(* the test.                                                               *)
LEMMA HalfEat ==
  ASSUME TypeOK, ChopsticksAccounted, closed = {}
  PROVE  Cardinality(Loading) + Cardinality(Low) + Cardinality(AtLeast(1))
           <= Eaters
<1>. DEFINE A == Loading \cup Low \cup AtLeast(1)
            f == [p \in A |-> Right(p)]
            B == {Right(p) : p \in A}
<1>1. /\ Loading \in SUBSET Phil /\ Low \in SUBSET Phil
      /\ AtLeast(1) \in SUBSET Phil /\ A \in SUBSET Phil
  BY DEF Loading, Low, AtLeast
<1>2. A \subseteq Eating
  BY DEF Loading, Low, AtLeast, Eating
<1>3. B \in SUBSET Phil
  BY <1>1, RightValue
<1>4. Cardinality(B) = Cardinality(A)
  <2>1. f \in Bijection(A, B)
    <3>1. f \in [A -> B]
      OBVIOUS
    <3>2. \A p, q \in A : f[p] = f[q] => p = q
      BY <1>1, RightInjective
    <3>3. \A b \in B : \E p \in A : f[p] = b
      OBVIOUS
    <3>. HIDE DEF f, A, B
    <3>. QED BY <3>1, <3>2, <3>3, Zenon
         DEF Bijection, Injection, Surjection, IsInjective
  <2>2. ExistsBijection(A, B)
    BY <2>1, Zenon DEF ExistsBijection
  <2>. HIDE DEF A, B
  <2>. QED BY <1>1, <2>2, PhilFinite, FS_Bijection
<1>5. A \cap B = {}
  <2>. SUFFICES ASSUME NEW p \in A, Right(p) \in A PROVE FALSE
    OBVIOUS
  <2>. HIDE DEF A
  <2>. QED BY <1>2, NoTwoNeighbours
<1>6. Cardinality(A \cup B) = Cardinality(A) + Cardinality(B)
  <2>. HIDE DEF A, B
  <2>. QED BY <1>1, <1>3, <1>5, DisjointCount
<1>7. Cardinality(A \cup B) <= N
  <2>. HIDE DEF A, B
  <2>. QED BY <1>1, <1>3, PhilFinite, FS_Subset
<1>8. Cardinality(A)
        = Cardinality(Loading) + Cardinality(Low) + Cardinality(AtLeast(1))
  <2>1. Loading \cap Low = {} /\ (Loading \cup Low) \cap AtLeast(1) = {}
    <3>1. \A i \in Low : pc[i] # "load" /\ loaded[i] <= 0
      BY DEF Low
    <3>2. ASSUME NEW i \in Low \cap AtLeast(1) PROVE FALSE
      BY <3>2 DEF Low, AtLeast, TypeOK, PhilTypeOK
    <3>. QED BY <3>1, <3>2 DEF Loading, AtLeast
  <2>2. Loading \cup Low \in SUBSET Phil
    BY <1>1
  <2>3. Cardinality(Loading \cup Low) = Cardinality(Loading) + Cardinality(Low)
    BY <1>1, <2>1, DisjointCount
  <2>4. Cardinality((Loading \cup Low) \cup AtLeast(1))
          = Cardinality(Loading \cup Low) + Cardinality(AtLeast(1))
    BY <1>1, <2>1, <2>2, DisjointCount
  <2>. QED BY <2>3, <2>4
<1>9. Cardinality(A) \in Nat /\ Cardinality(A) + Cardinality(A) <= N
  <2>1. Cardinality(A) \in Nat
    <3>. HIDE DEF A
    <3>. QED BY <1>1, PhilFinite
  <2>. HIDE DEF A, B
  <2>. QED BY <1>4, <1>6, <1>7, <2>1, TableAssumption
<1>. HIDE DEF A
<1>10. Cardinality(A) <= N \div 2
  BY <1>9, TableAssumption
<1>. QED BY <1>8, <1>10 DEF Eaters

LEMMA CountsFacts ==
  ASSUME TypeOK
  PROVE  /\ AtLeastCounts \in Counts
         /\ Cardinality(Loading) \in Nat /\ Cardinality(Low) \in Nat
         /\ \A t \in 1 .. Pounds + 1 :
              AtLeastCounts[t] = Cardinality(AtLeast(t))
         /\ \A v \in 1 .. Pounds : \A t \in 1 .. v :
              AtLeastCounts[v] <= AtLeastCounts[t]
<1>1. /\ Loading \in SUBSET Phil /\ Low \in SUBSET Phil
      /\ \A t : AtLeast(t) \in SUBSET Phil
  BY DEF Loading, Low, AtLeast
<1>2. AtLeastCounts \in Counts
  BY <1>1, PhilFinite DEF AtLeastCounts, Counts
<1>3. \A t \in 1 .. Pounds + 1 : AtLeastCounts[t] = Cardinality(AtLeast(t))
  BY DEF AtLeastCounts
<1>4. ASSUME NEW v \in 1 .. Pounds, NEW t \in 1 .. v
      PROVE  AtLeastCounts[v] <= AtLeastCounts[t]
  <2>1. v \in 1 .. Pounds + 1 /\ t \in 1 .. Pounds + 1
    BY TableAssumption
  <2>2. AtLeast(v) \in SUBSET AtLeast(t)
    BY DEF AtLeast, TypeOK, PhilTypeOK
  <2>3. Cardinality(AtLeast(v)) <= Cardinality(AtLeast(t))
    BY <1>1, <2>2, PhilFinite, FS_Subset
  <2>. QED BY <1>3, <2>1, <2>3
<1>. QED BY <1>1, <1>2, <1>3, <1>4, PhilFinite

(* Nobody passes the test, reads or stores.                                *)
LEMMA OverdraftQuiet ==
  ASSUME Overdraft, UNCHANGED <<Rice, loaded>>,
         \A j \in Phil : \/ pc'[j] = pc[j]
                        \/ /\ pc[j] \notin {"load", "store"}
                           /\ pc'[j] \notin {"load", "store"}
  PROVE  Overdraft'
<1>0. /\ Rice' = Rice /\ loaded' = loaded
      /\ \A j \in Phil : /\ pc'[j] = "load" <=> pc[j] = "load"
                        /\ pc'[j] = "store" <=> pc[j] = "store"
  OBVIOUS
<1>1. Loading' = Loading /\ Low' = Low /\ \A t : AtLeast(t)' = AtLeast(t)
  BY <1>0, Zenon DEF Loading, Low, AtLeast
<1>2. AtLeastCounts' = AtLeastCounts
  BY <1>1 DEF AtLeastCounts
<1>3. Floor' = Floor
  BY <1>0, <1>1, <1>2 DEF Floor
<1>. QED BY <1>0, <1>3 DEF Overdraft

LEMMA OverdraftTest ==
  ASSUME TypeInv, Overdraft, NEW i \in Phil, TestRice(i)
  PROVE  Overdraft'
<1>1. pc \in [Phil -> Points] /\ Rice \in Int
  BY DEF TypeInv, TypeOK, PhilTypeOK, SharedTypeOK
<1>2. /\ pc[i] = "test" /\ UNCHANGED <<Rice, loaded>>
      /\ pc'[i] = IF Rice > 0 THEN "load" ELSE "putFirst"
      /\ \A j \in Phil \ {i} : pc'[j] = pc[j]
  BY <1>1 DEF TestRice, sharedVars, MoreRice
<1>3. CASE Rice > 0
  <2>1. Low' = Low /\ \A t : AtLeast(t)' = AtLeast(t)
    BY <1>2, <1>3 DEF Low, AtLeast
  <2>2. AtLeastCounts' = AtLeastCounts
    BY <2>1 DEF AtLeastCounts
  <2>3. Floor' = Floor
    BY <1>1, <1>2, <1>3, <2>1, <2>2 DEF Floor, FloorOf
  <2>. QED BY <1>1, <1>2, <1>3, <2>3 DEF Overdraft
<1>4. CASE ~(Rice > 0)
  BY <1>1, <1>2, <1>4, OverdraftQuiet
<1>. QED BY <1>3, <1>4

LEMMA OverdraftLoad ==
  ASSUME TypeInv, TypeInv', Overdraft, NEW i \in Phil, LoadRice(i)
  PROVE  Overdraft'
<1>1. /\ pc \in [Phil -> Points] /\ Rice \in Int
      /\ loaded \in [Phil -> Int] /\ TypeOK /\ TypeOK'
      /\ Pounds \in Nat
  BY TableAssumption DEF TypeInv, TypeOK, PhilTypeOK, SharedTypeOK
<1>2. /\ pc[i] = "load" /\ pc'[i] = "store" /\ UNCHANGED Rice
      /\ loaded'[i] = Rice
      /\ \A j \in Phil \ {i} : pc'[j] = pc[j] /\ loaded'[j] = loaded[j]
  BY <1>1 DEF LoadRice, sharedVars
<1>3. /\ Loading \in SUBSET Phil /\ i \in Loading /\ Loading' = Loading \ {i}
      /\ Low \in SUBSET Phil /\ i \notin Low
  BY <1>2 DEF Loading, Low
<1>4. Cardinality(Loading') = Cardinality(Loading) - 1
  BY <1>3, PhilFinite, FS_RemoveElement
<1>5. CASE Rice > 0
  <2>1. Low' = Low
    BY <1>1, <1>2, <1>5 DEF Low
  <2>2. \A t \in Rice + 1 .. Pounds : AtLeast(t)' = AtLeast(t)
    BY <1>1, <1>2 DEF AtLeast
  <2>3. \A t \in Rice + 1 .. Pounds : AtLeastCounts'[t] = AtLeastCounts[t]
    BY <1>1, <1>5, <2>2 DEF AtLeastCounts
  <2>4. AtLeastCounts \in Counts /\ AtLeastCounts' \in Counts
    <3>1. AtLeastCounts \in Counts
      BY <1>1, CountsFacts
    <3>2. \A t : AtLeast(t)' \in SUBSET Phil
      BY DEF AtLeast
    <3>3. AtLeastCounts' \in Counts
      BY <3>2, PhilFinite DEF AtLeastCounts, Counts
    <3>. QED BY <3>1, <3>3
  <2>5. Rice \in 0 .. Pounds /\ ~(Rice <= 0)
    BY <1>1, <1>5 DEF Overdraft
  <2>6. Lent(AtLeastCounts')[Pounds] - Lent(AtLeastCounts')[Rice]
          = Lent(AtLeastCounts)[Pounds] - Lent(AtLeastCounts)[Rice]
    BY <2>3, <2>4, <2>5, LentSame
  <2>7. Floor' = Floor
    BY <1>2, <2>1, <2>5, <2>6 DEF Floor, FloorOf
  <2>. QED BY <1>1, <1>2, <2>5, <2>7 DEF Overdraft
<1>6. CASE ~(Rice > 0)
  <2>1. Low' = Low \cup {i}
    BY <1>1, <1>2, <1>6 DEF Low
  <2>2. Cardinality(Low') = Cardinality(Low) + 1
    BY <1>3, <2>1, PhilFinite, FS_AddElement
  <2>3. \A t \in 1 .. Pounds + 1 : AtLeast(t)' = AtLeast(t)
    BY <1>1, <1>2, <1>6 DEF AtLeast
  <2>4. AtLeastCounts' = AtLeastCounts
    BY <2>3 DEF AtLeastCounts
  <2>5. Cardinality(Loading) \in Nat /\ Cardinality(Low) \in Nat
    BY <1>1, CountsFacts
  <2>6. Floor' = Floor
    <3>. DEFINE debt == Debt(Eaters - AtLeastCounts[1], 0)
                rest == Lent(AtLeastCounts)[Pounds] - Lent(AtLeastCounts)[0]
    <3>1. /\ Floor = Cardinality(Low) + (Cardinality(Loading) - debt) - rest
          /\ Floor' = Cardinality(Low')
                        + (Cardinality(Loading') - debt) - rest
      BY <1>1, <1>2, <1>6, <2>4 DEF Floor, FloorOf
    <3>2. debt \in Int
      <4>1. AtLeastCounts[1] \in Nat /\ Eaters \in Nat /\ 0 \in 0 .. Pounds
        BY <1>1, CountsFacts, TableAssumption DEF Counts, Eaters
      <4>2. /\ Eaters - AtLeastCounts[1] \in Int
            /\ Eaters - AtLeastCounts[1] <= Eaters
        BY <4>1
      <4>. QED BY <4>1, <4>2, DebtFacts
    <3>3. rest \in Int
      BY <1>1, CountsFacts, LentFacts
    <3>. HIDE DEF debt, rest
    <3>. QED BY <1>4, <2>2, <2>5, <3>1, <3>2, <3>3
  <2>. QED BY <1>1, <1>2, <1>6, <2>6 DEF Overdraft
<1>. QED BY <1>5, <1>6

LEMMA OverdraftStore ==
  ASSUME TypeInv, ChopsticksAccounted, closed = {}, Overdraft,
         NEW i \in Phil, StoreRice(i)
  PROVE  Overdraft'
<1>. DEFINE load == Cardinality(Loading)
            low == Cardinality(Low)
            K == AtLeastCounts
<1>1. /\ pc \in [Phil -> Points] /\ Rice \in Int
      /\ loaded \in [Phil -> Int] /\ TypeOK /\ Pounds \in Nat
  BY TableAssumption DEF TypeInv, TypeOK, PhilTypeOK, SharedTypeOK
<1>2. /\ pc[i] = "store" /\ pc'[i] = "putFirst" /\ Rice' = loaded[i] - 1
      /\ loaded' = loaded /\ \A j \in Phil \ {i} : pc'[j] = pc[j]
  BY <1>1 DEF StoreRice
<1>3. Loading' = Loading
  BY <1>2 DEF Loading
<1>4. /\ K \in Counts /\ load \in Nat /\ low \in Nat
      /\ \A t \in 1 .. Pounds + 1 : K[t] = Cardinality(AtLeast(t))
      /\ \A v \in 1 .. Pounds : \A t \in 1 .. v : K[v] <= K[t]
  BY <1>1, CountsFacts
<1>5. load + low + K[1] <= Eaters
  <2>1. K[1] = Cardinality(AtLeast(1))
    BY <1>1, <1>4
  <2>. QED BY <1>1, <2>1, HalfEat
<1>6. /\ Rice <= Pounds /\ loaded[i] \in Int /\ loaded[i] <= Pounds
      /\ loaded[i] <= 0 => loaded[i] >= Floor
      /\ Floor = FloorOf(Rice, load, low, K)
  BY <1>1, <1>2 DEF Overdraft, Floor
<1>7. ASSUME Floor' <= Floor, Rice' <= 0 => Rice' >= Floor',
             Floor' \in Int, Floor \in Int
      PROVE  Overdraft'
  <2>1. \A j \in Phil : pc'[j] = "store" => pc[j] = "store"
    BY <1>2
  <2>2. \A j \in Phil : pc'[j] = "store" =>
          /\ loaded[j] <= Pounds /\ loaded[j] \in Int
          /\ loaded[j] <= 0 => loaded[j] >= Floor
    BY <1>1, <2>1 DEF Overdraft
  <2>3. Rice' <= Pounds
    BY <1>1, <1>2, <1>6
  <2>4. \A j \in Phil : pc'[j] = "store" =>
          /\ loaded'[j] <= Pounds
          /\ loaded'[j] <= 0 => loaded'[j] >= Floor'
    BY <1>2, <1>7, <2>2
  <2>. QED BY <1>7, <2>3, <2>4 DEF Overdraft
<1>8. ASSUME NEW r \in Int, r <= Pounds, NEW l \in Nat, NEW m \in Nat,
             NEW J \in Counts
      PROVE  FloorOf(r, l, m, J) \in Int
  <2>1. J[1] \in Nat /\ Eaters \in Nat /\ 0 \in 0 .. Pounds
    BY <1>1, TableAssumption DEF Counts, Eaters
  <2>2. Eaters - J[1] \in Int /\ Eaters - J[1] <= Eaters
    BY <2>1
  <2>3. Debt(Eaters - J[1], 0) \in Nat
    BY <2>1, <2>2, DebtFacts
  <2>4. /\ Lent(J)[Pounds] \in Nat /\ Lent(J)[0] \in Nat
        /\ ~(r <= 0) => Lent(J)[r] \in Nat
    BY <1>1, <1>8, LentFacts
  <2>. QED BY <2>3, <2>4 DEF FloorOf
<1>. HIDE DEF load, low, K
<1>9. CASE loaded[i] >= 1
  <2>. DEFINE v == loaded[i]
              J == AtLeastCounts'
  <2>1. v \in 1 .. Pounds /\ v - 1 \in Int /\ v - 1 <= Pounds
    BY <1>1, <1>6, <1>9
  <2>2. Low' = Low
    BY <1>1, <1>2, <1>9 DEF Low
  <2>3. /\ J \in Counts
        /\ \A t \in 1 .. Pounds + 1 : J[t] = Cardinality(AtLeast(t)')
    <3>1. \A t : AtLeast(t)' \in SUBSET Phil
      BY DEF AtLeast
    <3>. QED BY <3>1, PhilFinite DEF AtLeastCounts, Counts
  <2>4. ASSUME NEW t \in 1 .. Pounds
        PROVE  J[t] = K[t] - IF t <= v THEN 1 ELSE 0
    <3>1. AtLeast(t) \in SUBSET Phil /\ t \in 1 .. Pounds + 1
      BY <1>1 DEF AtLeast
    <3>2. J[t] = Cardinality(AtLeast(t)') /\ K[t] = Cardinality(AtLeast(t))
      BY <1>4, <2>3, <3>1
    <3>3. K[t] \in Nat
      BY <3>1, <3>2, PhilFinite
    <3>4. CASE t <= v
      <4>1. AtLeast(t)' = AtLeast(t) \ {i} /\ i \in AtLeast(t)
        BY <1>1, <1>2, <3>4 DEF AtLeast
      <4>2. Cardinality(AtLeast(t)') = Cardinality(AtLeast(t)) - 1
        BY <3>1, <4>1, PhilFinite, FS_RemoveElement
      <4>. QED BY <3>2, <3>4, <4>2
    <3>5. CASE ~(t <= v)
      <4>1. AtLeast(t)' = AtLeast(t)
        BY <1>1, <1>2, <3>5 DEF AtLeast
      <4>. QED BY <3>2, <3>3, <3>5, <4>1
    <3>. QED BY <3>4, <3>5
  <2>5. K[v] >= 1 /\ \A t \in 1 .. v : K[v] <= K[t]
    <3>1. AtLeast(v) \in SUBSET Phil /\ v \in 1 .. Pounds + 1
      BY <1>1, <2>1 DEF AtLeast
    <3>2. AtLeast(v) # {}
      BY <1>1, <1>2 DEF AtLeast
    <3>3. Cardinality(AtLeast(v)) # 0 /\ Cardinality(AtLeast(v)) \in Nat
      BY <3>1, <3>2, PhilFinite, FS_EmptySet
    <3>. HIDE DEF v
    <3>. QED BY <1>4, <2>1, <3>1, <3>3
  <2>6. Floor' = FloorOf(v - 1, load, low, J)
    BY <1>2, <1>3, <2>2 DEF Floor, load, low
  <2>. HIDE DEF v, J
  <2>7. /\ FloorOf(v - 1, load, low, J) <= FloorOf(Rice, load, low, K)
        /\ v = 1 => FloorOf(v - 1, load, low, J) <= 0
    BY <1>1, <1>4, <1>5, <1>6, <2>1, <2>3, <2>4, <2>5, StoreLowers
  <2>8. /\ FloorOf(v - 1, load, low, J) \in Int
        /\ FloorOf(Rice, load, low, K) \in Int
    BY <1>1, <1>4, <1>6, <1>8, <2>1, <2>3
  <2>9. Rice' = v - 1
    BY <1>2 DEF v
  <2>10. Rice' <= 0 => Rice' >= Floor'
    BY <2>1, <2>6, <2>7, <2>8, <2>9
  <2>. QED BY <1>6, <1>7, <2>6, <2>7, <2>8, <2>10
<1>10. CASE ~(loaded[i] >= 1)
  <2>1. loaded[i] <= 0 /\ loaded[i] >= Floor
    BY <1>6, <1>10
  <2>2. Low' = Low \ {i} /\ i \in Low /\ Low \in SUBSET Phil
    BY <1>1, <1>2, <2>1 DEF Low
  <2>3. Cardinality(Low') = low - 1
    BY <2>2, PhilFinite, FS_RemoveElement DEF low
  <2>4. low >= 1 /\ low - 1 \in Nat
    <3>1. low # 0
      BY <2>2, PhilFinite, FS_EmptySet DEF low
    <3>. QED BY <1>4, <3>1
  <2>5. \A t \in 1 .. Pounds + 1 : AtLeast(t)' = AtLeast(t)
    BY <1>1, <1>2, <1>10 DEF AtLeast
  <2>6. AtLeastCounts' = K
    BY <2>5 DEF AtLeastCounts, K
  <2>7. Floor' = FloorOf(Rice', load, low - 1, K)
    BY <1>3, <2>3, <2>6 DEF Floor, load
  <2>8. Rice' \in Int /\ Rice' <= 0 /\ Rice' <= Pounds
    BY <1>1, <1>2, <1>6, <2>1
  <2>9. FloorOf(Rice', load, low - 1, K) <= FloorOf(Rice, load, low, K) - 1
    BY <1>1, <1>4, <1>5, <1>6, <2>4, <2>8, LowStoreLowers
  <2>10. /\ FloorOf(Rice', load, low - 1, K) \in Int
         /\ FloorOf(Rice, load, low, K) \in Int
    BY <1>1, <1>4, <1>6, <1>8, <2>4, <2>8
  <2>11. Floor' <= Floor - 1
    BY <1>6, <2>7, <2>9
  <2>12. Rice' >= Floor'
    BY <1>2, <1>6, <2>1, <2>7, <2>10, <2>11
  <2>. QED BY <1>6, <1>7, <2>7, <2>10, <2>11, <2>12
<1>. QED BY <1>9, <1>10

LEMMA OverdraftPhilStep ==
  ASSUME TypeInv, TypeInv', ChopsticksAccounted, OverdraftInv,
         NEW i \in Phil, PhilStep(i)
  PROVE  OverdraftInv'
<1>. SUFFICES ASSUME closed' = {}
              PROVE  Overdraft'
  BY DEF OverdraftInv
<1>1. pc \in [Phil -> Points]
  BY DEF TypeInv, TypeOK, PhilTypeOK
<1>2. closed = {} /\ Overdraft
  BY DEF OverdraftInv, PhilStep, BeginRun, Digest, CallEat, LeaveTable,
         GetFirst, GetSecond, TestRice, LoadRice, StoreRice, PutFirst,
         PutSecond, ReturnFromEat, sharedVars
<1>3. CASE BeginRun(i) \/ Digest(i) \/ CallEat(i) \/ LeaveTable(i)
           \/ GetFirst(i) \/ GetSecond(i) \/ PutFirst(i) \/ PutSecond(i)
           \/ ReturnFromEat(i)
  <2>1. /\ UNCHANGED <<Rice, loaded>>
        /\ \A j \in Phil : \/ pc'[j] = pc[j]
                           \/ /\ pc[j] \notin {"load", "store"}
                              /\ pc'[j] \notin {"load", "store"}
    BY <1>1, <1>3
       DEF BeginRun, Digest, CallEat, LeaveTable, GetFirst, GetSecond,
           PutFirst, PutSecond, ReturnFromEat, sharedVars
  <2>. QED BY <1>2, <2>1, OverdraftQuiet
<1>. QED BY <1>2, <1>3, OverdraftTest, OverdraftLoad, OverdraftStore
         DEF PhilStep

(* The floor is never below what the whole table could take.               *)
LEMMA OverdraftIsBounded ==
  ASSUME TypeInv, OverdraftInv
  PROVE  OverdraftBound
<1>. SUFFICES ASSUME closed = {} PROVE Rice >= 0 - Debt(N \div 2, Pounds)
  BY DEF OverdraftBound
<1>. DEFINE K == AtLeastCounts
            S == Lent(K)
<1>1. /\ TypeOK /\ Rice \in Int /\ Pounds \in Nat /\ Eaters \in Nat
      /\ Pounds \in 0 .. Pounds /\ 0 \in 0 .. Pounds /\ Eaters = N \div 2
  BY TableAssumption DEF TypeInv, TypeOK, SharedTypeOK, Eaters
<1>2. /\ K \in Counts /\ Cardinality(Loading) \in Nat
      /\ Cardinality(Low) \in Nat
  BY <1>1, CountsFacts
<1>3. /\ K[1] \in Nat
      /\ \A t \in 0 + 1 .. Pounds : Eaters - K[t] <= Eaters
  BY <1>1, <1>2 DEF Counts
<1>4. /\ Debt(Eaters, Pounds) \in Nat /\ Debt(Eaters, 0) \in Nat
      /\ Debt(Eaters - K[1], 0) \in Nat
      /\ Debt(Eaters - K[1], 0) <= Debt(Eaters, 0)
  <2>1. /\ Eaters - K[1] \in Int /\ Eaters - K[1] <= Eaters
        /\ Eaters \in Int /\ Eaters <= Eaters
    BY <1>1, <1>3
  <2>. HIDE DEF K
  <2>. QED BY <1>1, <2>1, DebtFacts, DebtMonotone
<1>5. S[Pounds] - S[0] <= Debt(Eaters, Pounds) - Debt(Eaters, 0)
  <2>1. 0 <= Pounds /\ Eaters \in Int /\ Eaters <= Eaters
    BY <1>1
  <2>. HIDE DEF K
  <2>. QED BY <1>1, <1>2, <1>3, <2>1, LentBelow
<1>6. S[0] = 0 /\ S[Pounds] \in Nat
  BY <1>1, <1>2, LentFacts
<1>7. CASE Rice > 0
  BY <1>1, <1>4, <1>7
<1>8. CASE Rice <= 0
  <2>1. Rice >= Floor
    BY <1>8 DEF OverdraftInv, Overdraft
  <2>2. Floor = Cardinality(Low)
                  + (Cardinality(Loading) - Debt(Eaters - K[1], 0))
                  - (S[Pounds] - S[0])
    BY <1>8 DEF Floor, FloorOf
  <2>. HIDE DEF K, S
  <2>. QED BY <1>1, <1>2, <1>4, <1>5, <1>6, <2>1, <2>2
<1>. QED BY <1>1, <1>7, <1>8

(* Whatever the number of philosophers and of pounds, and however the      *)
(* unprotected test and decrement of Eat interleave, the rice goes no      *)
(* further below zero than Debt says for half of the table: one pound at   *)
(* the program's table for five.                                           *)
THEOREM OverdraftBounded == Spec => []OverdraftBound
<1>1. Init => OverdraftInv
  <2>. SUFFICES ASSUME Init PROVE Overdraft
    BY DEF OverdraftInv
  <2>1. /\ Rice = Pounds /\ Pounds \in Nat
        /\ \A i \in Phil : pc[i] = "unborn"
    BY TableAssumption DEF Init, SharedInit, PhilInit
  <2>2. Rice <= 0 => Rice >= Floor
    <3>. SUFFICES ASSUME Pounds = 0 PROVE Rice >= Floor
      BY <2>1
    <3>1. /\ Loading = {} /\ Low = {}
      BY <2>1 DEF Loading, Low
    <3>2. Cardinality({}) = 0
      BY FS_EmptySet
    <3>3. \A t : AtLeast(t) \in SUBSET Phil
      BY DEF AtLeast
    <3>4. AtLeastCounts \in Counts
      BY <3>3, PhilFinite DEF AtLeastCounts, Counts
    <3>5. Lent(AtLeastCounts)[0] = 0
      BY <3>4, LentFacts
    <3>6. Debt(Eaters - AtLeastCounts[1], 0) \in Nat
      <4>1. AtLeastCounts[1] \in Nat /\ Eaters \in Nat /\ 0 \in 0 .. Pounds
        BY <2>1, <3>4, TableAssumption DEF Counts, Eaters
      <4>2. /\ Eaters - AtLeastCounts[1] \in Int
            /\ Eaters - AtLeastCounts[1] <= Eaters
        BY <4>1
      <4>. QED BY <4>1, <4>2, DebtFacts
    <3>. QED BY <2>1, <3>1, <3>2, <3>5, <3>6 DEF Floor, FloorOf
  <2>. QED BY <2>1, <2>2 DEF Overdraft
<1>2. /\ TypeInv /\ TypeInv' /\ ChopsticksAccounted /\ OverdraftInv
      /\ [Next]_vars
      => OverdraftInv'
  <2>. SUFFICES ASSUME TypeInv, TypeInv', ChopsticksAccounted, OverdraftInv,
                       [Next]_vars
                PROVE  OverdraftInv'
    OBVIOUS
  <2>1. ASSUME NEW i \in Phil, Thread(i) PROVE OverdraftInv'
    BY <2>1, OverdraftPhilStep DEF Thread
  <2>2. CASE Main
    <3>1. closed \subseteq closed' /\ UNCHANGED <<Rice, loaded>>
      BY <2>2
         DEF Main, MainGoto, MainCreate, Create, MainCreated, MainNoMoreRice,
             MainJoin, MainJoined, MainSum, MainReturn, MainExit, MainDestroy,
             closeChopstic, sharedVars, philVars
    <3>2. \A i \in Phil : \/ pc'[i] = pc[i]
                         \/ /\ pc[i] \notin {"load", "store"}
                            /\ pc'[i] \notin {"load", "store"}
      <4>1. pc \in [Phil -> Points]
        BY DEF TypeInv, TypeOK, PhilTypeOK
      <4>2. CASE MainCreate
        BY <4>1, <4>2 DEF MainCreate, Create
      <4>3. CASE ~MainCreate
        <5>1. UNCHANGED pc
          BY <2>2, <4>3
             DEF Main, MainGoto, MainCreated, MainNoMoreRice, MainJoin,
                 MainJoined, MainSum, MainReturn, MainExit, MainDestroy,
                 philVars
        <5>. QED BY <5>1
      <4>. QED BY <4>2, <4>3
    <3>3. closed' = {} => closed = {}
      BY <3>1
    <3>. QED BY <3>1, <3>2, <3>3, OverdraftQuiet DEF OverdraftInv
  <2>3. CASE UNCHANGED vars
    <3>1. UNCHANGED <<Rice, loaded, pc, closed>>
      BY <2>3 DEF vars, sharedVars, philVars
    <3>. QED BY <3>1, OverdraftQuiet DEF OverdraftInv
  <2>. QED BY <2>1, <2>2, <2>3 DEF Next, Exited
<1>3. TypeInv /\ OverdraftInv => OverdraftBound
  BY OverdraftIsBounded
<1>. QED BY <1>1, <1>2, <1>3, TypeInvariant, MutualExclusion, PTL DEF Spec
=============================================================================
