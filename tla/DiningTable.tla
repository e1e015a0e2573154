---------------------------- MODULE DiningTable -----------------------------
(***************************************************************************)
(* What the chopsticks promise: philosophers sit around a table and two    *)
(* neighbours never eat at the same time.  Module DiningPhilosophers       *)
(* implements it with semaphores.                                          *)
(***************************************************************************)
EXTENDS Integers

CONSTANT N

VARIABLE eating

Seats == 0 .. N - 1
Neighbours(p) == {(p + 1) % N, (p + N - 1) % N}

Init == eating = {}

Sit(p) ==
  /\ p \notin eating
  /\ Neighbours(p) \cap eating = {}
  /\ eating' = eating \cup {p}

Leave(p) ==
  /\ p \in eating
  /\ eating' = eating \ {p}

Next == \E p \in Seats : Sit(p) \/ Leave(p)

Spec == Init /\ [][Next]_eating
=============================================================================
