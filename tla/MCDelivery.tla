----------------------------- MODULE MCDelivery -----------------------------
(* A mailbox that two others write to: 0 sends two tweets, so that one can *)
(* follow on the other, and 1 may say hello.                               *)
EXTENDS Delivery

MCTweets == [s \in Senders |-> IF s = 0 THEN 2 ELSE 0]
=============================================================================
