------------------------------ MODULE MCDining ------------------------------
(* DiningPhilosophers on small tables.  Nothing is bounded but N and       *)
(* Pounds: the rice bounds every behaviour.                                *)
EXTENDS DiningPhilosophers
=============================================================================
