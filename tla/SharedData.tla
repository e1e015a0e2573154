----------------------------- MODULE SharedData -----------------------------
(***************************************************************************)
(* The object the philosopher threads share (SharedData.h, SharedData.cpp  *)
(* of Assignment/Project2): the rice, one semaphore per chopstick, and the *)
(* semaphore operations.  The steps of SharedData::Eat are in module       *)
(* Philosopher, because each thread runs them on its own stack.            *)
(*                                                                         *)
(* pMutex is created and closed but no method waits for it, so it is not   *)
(* part of the state.                                                      *)
(***************************************************************************)
EXTENDS Integers

CONSTANTS
  N,       \* MAX_PHILOSOPHER, 5 in the source
  Pounds   \* the rice the constructor puts on the table, 5000 in the source

(* One philosopher would need the same chopstick twice; the code is        *)
(* written for a table with neighbours.                                    *)
ASSUME TableAssumption == N \in Nat /\ N >= 2 /\ Pounds \in Nat

VARIABLES
  Rice,      \* pounds left; a plain int that every thread reads and writes
  chopstic,  \* the count of each chopstick's semaphore
  closed     \* the chopsticks whose handle ~SharedData has closed

sharedVars == <<Rice, chopstic, closed>>

Phil == 0 .. N - 1
Chopsticks == 0 .. N - 1

SharedTypeOK ==
  /\ Rice \in Int
  /\ chopstic \in [Chopsticks -> 0 .. 1]
  /\ closed \in SUBSET Chopsticks

(* SharedData::SharedData: every semaphore has initial count 1.            *)
SharedInit ==
  /\ Rice = Pounds
  /\ chopstic = [c \in Chopsticks |-> 1]
  /\ closed = {}

Left(who) == who
Right(who) == (who + 1) % N

(* Mutation: everybody takes the left chopstick first.                     *)
AlwaysLeftFirst(who) == TRUE

(* Eat takes the left chopstick first when who is odd and the right one    *)
(* first when who is even.                                                 *)
LeftFirst(who) == who % 2 = 1
First(who)  == IF LeftFirst(who) THEN Left(who) ELSE Right(who)
Second(who) == IF LeftFirst(who) THEN Right(who) ELSE Left(who)

(* Mutation: the wait has a timeout, whose result is ignored as well.      *)
getChopsticTimeout(c) ==
  chopstic' = [chopstic EXCEPT ![c] = 0]

(* SharedData::getChopstic: WaitForSingleObject(INFINITE) on the           *)
(* chopstick's semaphore.  The result is stored in `status` and never      *)
(* looked at, so the failed wait on a closed handle also goes on.  (A wait *)
(* that is pending when its handle is closed is undefined in Windows: the  *)
(* model lets it end, and main ends the process soon after.)               *)
getChopstic(c) ==
  \/ /\ c \notin closed
     /\ chopstic[c] > 0
     /\ chopstic' = [chopstic EXCEPT ![c] = @ - 1]
  \/ /\ c \in closed
     /\ UNCHANGED chopstic

(* SharedData::putChopstic: ReleaseSemaphore(.., 1, ..) fails, with its    *)
(* result ignored, on a closed handle or beyond the maximum count 1.       *)
putChopstic(c) ==
  chopstic' = IF c \in closed \/ chopstic[c] = 1
              THEN chopstic
              ELSE [chopstic EXCEPT ![c] = @ + 1]

MoreRice == Rice > 0

(* One CloseHandle of SharedData::~SharedData.                             *)
closeChopstic(c) ==
  /\ closed' = closed \cup {c}
  /\ UNCHANGED <<Rice, chopstic>>
=============================================================================
