---------------------------- MODULE Philosopher -----------------------------
(***************************************************************************)
(* The philosopher threads: Philosopher::Run and, inside it, the steps of  *)
(* SharedData::Eat (Philosopher.cpp, SharedData.cpp of                     *)
(* Assignment/Project2).                                                   *)
(*                                                                         *)
(* A step of a thread holds at most one access to memory another thread    *)
(* writes.  `Rice > 0` and the two halves of `Rice--` are three accesses,  *)
(* because Rice is neither atomic nor locked.  Sleep and ConsumeRice       *)
(* (which only sleeps) change nothing and are left out: any thread may be  *)
(* delayed between any two steps.                                          *)
(***************************************************************************)
EXTENDS SharedData

VARIABLES
  pc,           \* the point each thread has reached
  v_State,      \* Philosopher::v_State
  RiceConsume,  \* Philosopher::RiceConsume
  pounf,        \* pounf_of_rice, local to Eat
  loaded        \* the value of Rice that `Rice--` has read but not yet stored

philVars == <<pc, v_State, RiceConsume, pounf, loaded>>

eState == {"THINKING", "HUNGRY", "WAITING", "EATING", "VACATION"}

Points == {"unborn", "start", "loop", "getFirst", "getSecond", "test", "load",
           "store", "putFirst", "putSecond", "return", "done"}

PhilTypeOK ==
  /\ pc \in [Phil -> Points]
  /\ v_State \in [Phil -> eState]
  /\ RiceConsume \in [Phil -> Nat]
  /\ pounf \in [Phil -> 0 .. 1]
  /\ loaded \in [Phil -> Int]

PhilInit ==
  /\ pc = [i \in Phil |-> "unborn"]
  /\ v_State = [i \in Phil |-> "VACATION"]
  /\ RiceConsume = [i \in Phil |-> 0]
  /\ pounf = [i \in Phil |-> 0]
  /\ loaded = [i \in Phil |-> 0]

Goto(i, from, to) ==
  /\ pc[i] = from
  /\ pc' = [pc EXCEPT ![i] = to]

SetState(i, s) == v_State' = [v_State EXCEPT ![i] = s]

-----------------------------------------------------------------------------
(* Philosopher::Philosopher: the fields, then CreateThread.                *)
Create(i) ==
  /\ Goto(i, "unborn", "start")
  /\ SetState(i, "VACATION")
  /\ RiceConsume' = [RiceConsume EXCEPT ![i] = 0]
  /\ UNCHANGED <<pounf, loaded>>

(* The first statement of Run.                                             *)
BeginRun(i) ==
  /\ Goto(i, "start", "loop")
  /\ SetState(i, "EATING")
  /\ UNCHANGED <<sharedVars, RiceConsume, pounf, loaded>>

(* A pass of Run's loop that only changes the state.                       *)
Digest(i) ==
  /\ pc[i] = "loop" /\ MoreRice
  /\ \/ v_State[i] = "THINKING" /\ SetState(i, "HUNGRY")
     \/ v_State[i] = "EATING" /\ SetState(i, "THINKING")
  /\ UNCHANGED <<sharedVars, pc, RiceConsume, pounf, loaded>>

(* A pass of Run's loop that calls Eat.                                    *)
CallEat(i) ==
  /\ MoreRice
  /\ v_State[i] = "HUNGRY"
  /\ Goto(i, "loop", "getFirst")
  /\ SetState(i, "WAITING")
  /\ pounf' = [pounf EXCEPT ![i] = 0]
  /\ UNCHANGED <<sharedVars, RiceConsume, loaded>>

(* Run's loop ends.                                                        *)
LeaveTable(i) ==
  /\ ~MoreRice
  /\ Goto(i, "loop", "done")
  /\ SetState(i, "VACATION")
  /\ UNCHANGED <<sharedVars, RiceConsume, pounf, loaded>>

-----------------------------------------------------------------------------
(* SharedData::Eat, statement by statement.                                *)

GetFirst(i) ==
  /\ Goto(i, "getFirst", "getSecond")
  /\ getChopstic(First(i))
  /\ UNCHANGED <<Rice, closed, v_State, RiceConsume, pounf, loaded>>

GetSecond(i) ==
  /\ Goto(i, "getSecond", "test")
  /\ getChopstic(Second(i))
  /\ UNCHANGED <<Rice, closed, v_State, RiceConsume, pounf, loaded>>

(* Mutation: Eat does not test the rice again.                             *)
EatWithoutTest(i) ==
  /\ Goto(i, "test", "load")
  /\ SetState(i, "EATING")
  /\ UNCHANGED <<sharedVars, RiceConsume, pounf, loaded>>

(* *state = new_state; if (Rice > 0)                                       *)
TestRice(i) ==
  /\ Goto(i, "test", IF MoreRice THEN "load" ELSE "putFirst")
  /\ SetState(i, "EATING")
  /\ UNCHANGED <<sharedVars, RiceConsume, pounf, loaded>>

(* Rice--, the read.                                                       *)
LoadRice(i) ==
  /\ Goto(i, "load", "store")
  /\ loaded' = [loaded EXCEPT ![i] = Rice]
  /\ UNCHANGED <<sharedVars, v_State, RiceConsume, pounf>>

(* Mutation: pounf_of_rice++ is forgotten.                                 *)
StoreRiceUncounted(i) ==
  /\ Goto(i, "store", "putFirst")
  /\ Rice' = loaded[i] - 1
  /\ UNCHANGED <<chopstic, closed, v_State, RiceConsume, pounf, loaded>>

(* Rice--, the write, and pounf_of_rice++.                                 *)
StoreRice(i) ==
  /\ Goto(i, "store", "putFirst")
  /\ Rice' = loaded[i] - 1
  /\ pounf' = [pounf EXCEPT ![i] = @ + 1]
  /\ UNCHANGED <<chopstic, closed, v_State, RiceConsume, loaded>>

(* Mutation: the same chopstick is put back twice.                         *)
PutSecondTwice(i) ==
  /\ Goto(i, "putFirst", "putSecond")
  /\ putChopstic(Second(i))
  /\ UNCHANGED <<Rice, closed, v_State, RiceConsume, pounf, loaded>>

(* Both branches of Eat put the chopsticks back in the order they took     *)
(* them.                                                                   *)
PutFirst(i) ==
  /\ Goto(i, "putFirst", "putSecond")
  /\ putChopstic(First(i))
  /\ UNCHANGED <<Rice, closed, v_State, RiceConsume, pounf, loaded>>


PutSecond(i) ==
  /\ Goto(i, "putSecond", "return")
  /\ putChopstic(Second(i))
  /\ UNCHANGED <<Rice, closed, v_State, RiceConsume, pounf, loaded>>

(* Back in Run: RiceConsume takes Eat's result, and the state Eat left,    *)
(* EATING, becomes THINKING in the same pass of the loop.                  *)
ReturnFromEat(i) ==
  /\ Goto(i, "return", "loop")
  /\ RiceConsume' = [RiceConsume EXCEPT ![i] = @ + pounf[i]]
  /\ pounf' = [pounf EXCEPT ![i] = 0]
  /\ SetState(i, IF v_State[i] = "EATING" THEN "THINKING" ELSE v_State[i])
  /\ UNCHANGED <<sharedVars, loaded>>

PhilStep(i) ==
  \/ BeginRun(i) \/ Digest(i) \/ CallEat(i) \/ LeaveTable(i)
  \/ GetFirst(i) \/ GetSecond(i)
  \/ TestRice(i) \/ LoadRice(i) \/ StoreRice(i)
  \/ PutFirst(i) \/ PutSecond(i) \/ ReturnFromEat(i)
=============================================================================
