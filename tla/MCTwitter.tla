----------------------------- MODULE MCTwitter ------------------------------
(* Twitter with two processes and two mailboxes: "b" sends one tweet, so   *)
(* that "a" can receive a hello and the writes of the tweet, and "a" may   *)
(* be started twice.                                                       *)
EXTENDS Twitter

MCTweets == [p \in Procs |-> IF p = "b" THEN 1 ELSE 0]
MCStarts == [p \in Procs |-> IF p = "a" THEN 2 ELSE 1]
=============================================================================
