----------------------------- MODULE MessageLog -----------------------------
(***************************************************************************)
(* What a process promises about the messages it has received: the window  *)
(* shows them in the order in which the monitor thread received them, and  *)
(* leaves none out.  It may show the last one again.  Module Twitter       *)
(* implements it with MsgList.                                             *)
(***************************************************************************)
EXTENDS Integers

CONSTANT Procs

VARIABLES
  received, \* the number of messages each process has received
  shown     \* the last of them that its window has shown

Init == received = [p \in Procs |-> 0] /\ shown = [p \in Procs |-> 0]

Receive(p) ==
  /\ received' = [received EXCEPT ![p] = @ + 1]
  /\ UNCHANGED shown

Show(p) ==
  /\ shown[p] < received[p]
  /\ shown' = [shown EXCEPT ![p] = @ + 1]
  /\ UNCHANGED received

Close(p) ==
  /\ received' = [received EXCEPT ![p] = 0]
  /\ shown' = [shown EXCEPT ![p] = 0]

Next == \E p \in Procs : Receive(p) \/ Show(p) \/ Close(p)

Spec == Init /\ [][Next]_<<received, shown>>
=============================================================================
