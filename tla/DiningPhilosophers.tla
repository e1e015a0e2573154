------------------------- MODULE DiningPhilosophers -------------------------
(***************************************************************************)
(* The whole program of Assignment/Project2: main (DinningPhilosopher.cpp) *)
(* creates the philosopher threads, waits until the rice is gone, waits    *)
(* for the threads, adds up what they ate and returns, which destroys the  *)
(* SharedData object and ends the process.                                 *)
(***************************************************************************)
EXTENDS Philosopher

VARIABLES
  mainPC,   \* the loop main is in
  k,        \* the index of that loop
  pThread,  \* the global handle of Philosopher.cpp: ONE for all the threads
  total     \* main's running total

mainVars == <<mainPC, k, pThread, total>>
vars == <<sharedVars, philVars, mainVars>>

MainPoints == {"create", "report", "join", "sum", "destroy", "exited"}

None == -1   \* pThread before the first CreateThread

TypeOK ==
  /\ SharedTypeOK
  /\ PhilTypeOK
  /\ mainPC \in MainPoints
  /\ k \in 0 .. N
  /\ pThread \in Phil \cup {None}
  /\ total \in Nat

Init ==
  /\ SharedInit
  /\ PhilInit
  /\ mainPC = "create" /\ k = 0 /\ pThread = None /\ total = 0

-----------------------------------------------------------------------------
(* One `new Philosopher(i, &data)`; the constructor overwrites pThread.    *)
MainCreate ==
  /\ mainPC = "create" /\ k < N
  /\ Create(k)
  /\ pThread' = k
  /\ k' = k + 1
  /\ UNCHANGED <<sharedVars, mainPC, total>>

(* The next loop of main starts at index 0.                                *)
MainGoto(from, to) ==
  /\ mainPC = from
  /\ mainPC' = to
  /\ k' = 0
  /\ UNCHANGED <<sharedVars, philVars, pThread, total>>

MainCreated == k = N /\ MainGoto("create", "report")

(* while (data.MoreRice()): a pass of this loop only prints.               *)
MainNoMoreRice == ~MoreRice /\ MainGoto("report", "join")

(* Mutation: the loop over the philosophers runs once too often.           *)
MainJoinTooMany ==
  /\ mainPC = "join" /\ k <= N
  /\ pc[pThread] = "done"
  /\ k' = k + 1
  /\ UNCHANGED <<sharedVars, philVars, mainPC, pThread, total>>

(* pPhilosopher[k]->isVacationing(): whatever k is, the wait is on the     *)
(* global pThread.  main ignores the returned comparison of v_State.       *)
MainJoin ==
  /\ mainPC = "join" /\ k < N
  /\ pc[pThread] = "done"
  /\ k' = k + 1
  /\ UNCHANGED <<sharedVars, philVars, mainPC, pThread, total>>

MainJoined == k = N /\ MainGoto("join", "sum")

(* total = total + pPhilosopher[k]->getRiceConsume()                       *)
MainSum ==
  /\ mainPC = "sum" /\ k < N
  /\ total' = total + RiceConsume[k]
  /\ k' = k + 1
  /\ UNCHANGED <<sharedVars, philVars, mainPC, pThread>>

MainReturn == k = N /\ MainGoto("sum", "destroy")

(* The destructor of the local `data` closes the chopsticks one by one.    *)
MainDestroy ==
  /\ mainPC = "destroy" /\ k < N
  /\ closeChopstic(k)
  /\ k' = k + 1
  /\ UNCHANGED <<philVars, mainPC, pThread, total>>

(* The process ends, and with it every thread that is still running.       *)
MainExit == k = N /\ MainGoto("destroy", "exited")

Main ==
  \/ MainCreate \/ MainCreated \/ MainNoMoreRice \/ MainJoin \/ MainJoined
  \/ MainSum \/ MainReturn \/ MainDestroy \/ MainExit

Thread(i) == mainPC # "exited" /\ PhilStep(i) /\ UNCHANGED mainVars

(* The finished process: not a deadlock.                                   *)
Exited == mainPC = "exited" /\ UNCHANGED vars

Next == Main \/ (\E i \in Phil : Thread(i)) \/ Exited

Spec == Init /\ [][Next]_vars

(* The scheduler of Windows runs every thread that can run: weak fairness  *)
(* for main and for each philosopher.  Nothing is assumed about the order  *)
(* in which a semaphore serves the threads waiting for it.                 *)
FairSpec == Spec /\ WF_vars(Main) /\ \A i \in Phil : WF_vars(Thread(i))

-----------------------------------------------------------------------------
(***************************************************************************)
(* Properties.                                                             *)
(***************************************************************************)

(* The chopsticks a thread has waited for and not put back.                *)
HasFirst(i) == pc[i] \in {"getSecond", "test", "load", "store", "putFirst"}
HasSecond(i) ==
  pc[i] \in {"test", "load", "store", "putFirst", "putSecond"}
Holds(i, c) == \/ HasFirst(i) /\ c = First(i)
               \/ HasSecond(i) /\ c = Second(i)

(* A chopstick whose handle is open is held by one philosopher at most,    *)
(* and its semaphore is signalled exactly when nobody holds it: no         *)
(* interleaving of Eat's waits and releases loses or duplicates one.       *)
ChopsticksAccounted ==
  \A c \in Chopsticks \ closed :
    /\ \A i, j \in Phil : Holds(i, c) /\ Holds(j, c) => i = j
    /\ (chopstic[c] = 1) <=> (\A i \in Phil : ~Holds(i, c))

(* The philosophers inside Eat's critical section with both chopsticks     *)
(* protected by open handles.                                              *)
Eating ==
  {i \in Phil : /\ pc[i] \in {"test", "load", "store", "putFirst"}
                /\ First(i) \notin closed /\ Second(i) \notin closed}

Table == INSTANCE DiningTable WITH eating <- Eating

(* Eat implements the table: a philosopher starts to eat only while        *)
(* neither neighbour eats.                                                 *)
ImplementsTable == Table!Spec

(* A thread that waits for a chopstick somebody holds.                     *)
Blocked(i) ==
  \/ pc[i] = "getFirst" /\ First(i) \notin closed /\ chopstic[First(i)] = 0
  \/ pc[i] = "getSecond" /\ Second(i) \notin closed
                         /\ chopstic[Second(i)] = 0

Running(i) == pc[i] \notin {"unborn", "done"}

(* The philosophers never all wait for each other: while some thread runs, *)
(* some running thread is not blocked.  This is what taking the chopsticks *)
(* in the order of the parity of `who` is for.                             *)
SomeoneCanMove ==
  (\E i \in Phil : Running(i)) => \E i \in Phil : Running(i) /\ ~Blocked(i)

(* The sums of the first n values of f, for each n up to m.                *)
SumUpTo(f, m) ==
  LET sum[n \in 0 .. m] == IF n = 0 THEN 0 ELSE sum[n - 1] + f[n - 1] IN sum

(* What the philosophers have eaten, counted in or not yet.                *)
Eaten == SumUpTo(RiceConsume, N)[N] + SumUpTo(pounf, N)[N]

(* The binomial coefficients, by the rows of Pascal's triangle.            *)
Pascal[n \in 0 .. N + Pounds] ==
  [j \in 0 .. N |-> IF j = 0 THEN 1
                    ELSE IF n = 0 THEN 0
                    ELSE Pascal[n - 1][j - 1] + Pascal[n - 1][j]]

(* How far e philosophers who eat at the same time can take p pounds below *)
(* zero.  Two can take the last pound together.  With a third, one of them *)
(* may keep an old value of the rice while the others go below zero, and   *)
(* store it: the rice is back, one pound less than the old value, and what *)
(* is below zero waits in the hands of those who are past the test.        *)
Debt(e, p) == IF e < 2 THEN 0 ELSE Pascal[e + p - 2][e - 2]

(* `Rice > 0` and `Rice--` are not one step, so the rice can go below zero *)
(* -- while the chopsticks work by one pound at the program's table for    *)
(* five, and further where more than two can eat at the same time.         *)
OverdraftBound == closed = {} => Rice >= 0 - Debt(N \div 2, Pounds)

(* The unprotected decrement only ever loses decrements: rice missing from *)
(* the table has been eaten by somebody, whatever the interleaving.        *)
RiceNeverVanishes == Eaten >= Pounds - Rice

(* SharedData.cpp:26 says that Eat "implements the critical section that   *)
(* protects the share variable Rice": outside a `Rice--` the rice left and *)
(* the rice eaten add up.  The code does not guarantee it.                 *)
RiceProtected ==
  (\A i \in Phil : pc[i] # "store") => Eaten = Pounds - Rice

(* DinningPhilosopher.cpp:33, "wait for all of them to finish": main adds  *)
(* the results up after every thread has finished.  It does not.           *)
WaitedForAll ==
  mainPC \in {"sum", "destroy", "exited"} => \A i \in Phil : pc[i] = "done"

(* The program ends: with lost updates the rice may go up again, but it    *)
(* cannot do so for ever, and the thread main waits for always finishes.   *)
Termination == <>(mainPC = "exited")

=============================================================================
