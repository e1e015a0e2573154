---------------------------- MODULE TwitterProofs ----------------------------
(***************************************************************************)
(* Theorems about Twitter for any processes, mailboxes, tweets and starts. *)
(***************************************************************************)
EXTENDS Twitter, SequenceTheorems, TLAPS

-----------------------------------------------------------------------------
(* The inductive invariant.                                                *)

(* Put has made a node and not counted it; Get is at work.                 *)
Putting == {"tail", "load", "store"}
Getting == {"get", "load", "store", "advance", "delete", "connect"}

(* Every variable is a function over Procs.                                *)
ListShape ==
  /\ HeadNode \in [Procs -> Nat] /\ TailNode \in [Procs -> Nat]
  /\ Previous \in [Procs -> Seq(Nat)]
  /\ Msg \in [Procs -> Seq(Boxes \cup {NO_DATA})]
  /\ deleted \in [Procs -> SUBSET Nat]
  /\ count \in [Procs -> Nat] /\ lost \in [Procs -> Nat]
  /\ putCount \in [Procs -> Nat] /\ getCount \in [Procs -> Nat]
  /\ tmp \in [Procs -> Nat]

WindowShape ==
  /\ i \in [Procs -> 0 .. MAXBOX] /\ left \in [Procs -> 0 .. Writes]
  /\ thisMailslot \in [Procs -> Boxes \cup {NoBox}]
  /\ tweets \in [Procs -> Nat] /\ starts \in [Procs -> Nat]
  /\ \A p \in Procs : tweets[p] <= MaxTweets[p] /\ starts[p] <= MaxStarts[p]
  /\ shown \in [Procs -> Nat] /\ again \in [Procs -> Nat]

Shape ==
  /\ monitor \in [Procs -> MonitorPoints] /\ window \in [Procs -> WindowPoints]
  /\ ListShape /\ IOTypeOK /\ WindowShape

(* The nodes are linked from 1, the oldest, to the newest; those before    *)
(* Tail may be deleted, but for the one Get is about to delete.            *)
ListInv(p) ==
  LET made == Len(Previous[p]) IN
  /\ \A n \in 1 .. made : Previous[p][n] = IF n = made THEN NULL ELSE n + 1
  /\ Len(Msg[p]) = made
  /\ monitor[p] = "tail" => made >= 1
  /\ HeadNode[p] = IF monitor[p] = "tail" THEN made - 1 ELSE made
  /\ TailNode[p] <= made /\ (TailNode[p] = NULL <=> HeadNode[p] = NULL)
  /\ window[p] \in Getting => TailNode[p] # NULL
  /\ \A n \in deleted[p] :
       1 <= n /\ n < IF window[p] = "delete" THEN TailNode[p] - 1
                      ELSE TailNode[p]

(* Get's tmp is Tail until it advances; the window has shown the node at   *)
(* Tail or the one before.                                                 *)
TmpInv(p) ==
  /\ tmp[p] <= Len(Previous[p])
  /\ window[p] \in {"load", "store", "advance"} => tmp[p] = TailNode[p]
  /\ window[p] = "delete" => tmp[p] = TailNode[p] - 1
  /\ window[p] = "connect" => tmp[p] \in {TailNode[p] - 1, TailNode[p]}
  /\ window[p] \in {"delete", "connect"} =>
       tmp[p] \in {shown[p], shown[p] + 1} /\ tmp[p] > 0
  /\ window[p] \notin {"delete", "connect"} =>
       TailNode[p] \in {shown[p], shown[p] + 1}

(* The nodes Put has counted, and the calls of Get that have.              *)
Puts(p) == IF monitor[p] \in Putting THEN Len(Previous[p]) - 1
                                     ELSE Len(Previous[p])
Gets(p) == IF window[p] \in {"advance", "delete", "connect"}
           THEN shown[p] + again[p] + 1 ELSE shown[p] + again[p]

(* Twice the updates of Get that Put overwrote: count is that much too     *)
(* high, and lost has them, too.                                           *)
TwiceLostGets(p) == lost[p] + count[p] - Puts(p) + Gets(p)

CountInv(p) ==
  /\ monitor[p] = "store" => putCount[p] >= count[p]
  /\ window[p] \in {"get", "load"} => count[p] >= 1
  /\ window[p] = "store" => 1 <= getCount[p] /\ getCount[p] <= count[p]
  /\ count[p] > 0 \/ monitor[p] \in {"load", "store"} => TailNode[p] # NULL
  /\ TwiceLostGets(p) >= 0 /\ TwiceLostGets(p) <= 2 * lost[p]

(* A message is shown once more than the updates of Get that were lost;    *)
(* while the last message shown is at Tail, not even that.                 *)
LateInv(p) ==
  /\ 2 * again[p] <= 2 + TwiceLostGets(p)
  /\ window[p] \notin {"delete", "connect"} /\ TailNode[p] = shown[p] =>
       2 * again[p] <= TwiceLostGets(p)
  /\ window[p] \in {"delete", "connect"} /\ tmp[p] = shown[p] =>
       2 * again[p] <= TwiceLostGets(p)
  /\ window[p] = "connect" /\ tmp[p] = TailNode[p] =>
       2 * again[p] + (IF tmp[p] = shown[p] THEN 2 ELSE 0) <= TwiceLostGets(p)

MsgInv(p) == ListInv(p) /\ TmpInv(p) /\ CountInv(p) /\ LateInv(p)

(* The monitor thread runs between the constructor and the exit, on a      *)
(* mailbox that is mapped; every view that is mapped is in the list.       *)
IOInv(p) ==
  /\ window[p] \in {"off", "open", "create", "empty"} => monitor[p] = "off"
  /\ window[p] \in {"create", "empty"} => i[p] \in Boxes
  /\ window[p] = "empty" => i[p] \in mapped[p]
  /\ window[p] \in {"hello", "tweet"} => thisMailslot[p] \in Boxes
  /\ monitor[p] # "off" /\ window[p] \notin Exiting =>
       serverBuf[p] \in mapped[p]
  /\ \A b \in mapped[p] : \E n \in DOMAIN views[p] : views[p][n] = b
  /\ window[p] \in {"lists", "end"} => mapped[p] = {}

TInv == Shape /\ \A p \in Procs : MsgInv(p) /\ IOInv(p)

-----------------------------------------------------------------------------
(* What a step leaves alone.                                               *)

Points(p) == <<monitor[p], window[p]>>
ListOf(p) == <<HeadNode[p], TailNode[p], Previous[p], Msg[p], deleted[p],
               count[p], putCount[p], getCount[p], tmp[p], lost[p],
               shown[p], again[p]>>
IOOf(p) == <<views[p], mapped[p], serverBuf[p], i[p], thisMailslot[p]>>

LEMMA Elsewhere ==
  ASSUME NEW p, MsgInv(p), IOInv(p),
         UNCHANGED Points(p), UNCHANGED ListOf(p), UNCHANGED IOOf(p)
  PROVE  MsgInv(p)' /\ IOInv(p)'
BY DEF Points, ListOf, IOOf, MsgInv, ListInv, TmpInv, CountInv, LateInv, IOInv,
       Puts, Gets, TwiceLostGets

(* A step of a thread that does not use the list.                          *)
LEMMA ListStays ==
  ASSUME NEW p, MsgInv(p), UNCHANGED ListOf(p),
         monitor'[p] = monitor[p]
           \/ (monitor[p] \notin Putting /\ monitor'[p] \notin Putting),
         window'[p] = window[p]
           \/ (window[p] \notin Getting /\ window'[p] \notin Getting)
  PROVE  MsgInv(p)'
<1>1. /\ \A x \in Putting : monitor'[p] = x <=> monitor[p] = x
      /\ \A x \in Getting : window'[p] = x <=> window[p] = x
  BY DEF Putting, Getting
<1>2. Puts(p)' = Puts(p) /\ Gets(p)' = Gets(p)
  BY <1>1 DEF ListOf, Puts, Gets, Getting, Putting
<1>3. TwiceLostGets(p)' = TwiceLostGets(p)
  BY <1>2 DEF ListOf, TwiceLostGets
<1>4. ListInv(p)'
  BY <1>1 DEF ListOf, MsgInv, ListInv, Getting, Putting
<1>5. TmpInv(p)'
  BY <1>1 DEF ListOf, MsgInv, TmpInv, Getting
<1>6. CountInv(p)'
  BY <1>1, <1>3 DEF ListOf, MsgInv, CountInv, Getting, Putting
<1>7. LateInv(p)'
  BY <1>1, <1>3 DEF ListOf, MsgInv, LateInv, Getting
<1>. QED BY <1>4, <1>5, <1>6, <1>7 DEF MsgInv

(* The mailboxes are as they were, and each thread is where it was, as far *)
(* as the mailboxes go.                                                    *)
LEMMA IOStays ==
  ASSUME NEW p, IOInv(p), UNCHANGED IOOf(p),
         monitor'[p] = monitor[p]
           \/ (monitor[p] # "off" /\ window[p] # "empty"),
         window'[p] = window[p]
           \/ {window[p], window'[p]} \subseteq Getting \cup {"idle"}
  PROVE  IOInv(p)'
BY DEF IOOf, IOInv, Getting, Exiting

-----------------------------------------------------------------------------
(* The steps of Put.                                                       *)

LEMMA Types ==
  ASSUME Shape, NEW p \in Procs
  PROVE  /\ monitor \in [Procs -> MonitorPoints]
         /\ window \in [Procs -> WindowPoints]
         /\ ListShape
         /\ HeadNode[p] \in Nat /\ TailNode[p] \in Nat /\ tmp[p] \in Nat
         /\ Previous[p] \in Seq(Nat) /\ Len(Previous[p]) \in Nat
         /\ Msg[p] \in Seq(Boxes \cup {NO_DATA})
         /\ deleted[p] \in SUBSET Nat
         /\ count[p] \in Nat /\ putCount[p] \in Nat /\ getCount[p] \in Nat
         /\ lost[p] \in Nat /\ shown[p] \in Nat /\ again[p] \in Nat
         /\ Puts(p) \in Int /\ Gets(p) \in Int /\ TwiceLostGets(p) \in Int
<1>1. ListShape /\ WindowShape
  BY DEF Shape
<1>2. /\ monitor \in [Procs -> MonitorPoints]
      /\ window \in [Procs -> WindowPoints]
  BY DEF Shape
<1>3. /\ HeadNode[p] \in Nat /\ TailNode[p] \in Nat /\ tmp[p] \in Nat
      /\ Previous[p] \in Seq(Nat)
      /\ Msg[p] \in Seq(Boxes \cup {NO_DATA})
      /\ deleted[p] \in SUBSET Nat
  BY <1>1 DEF ListShape
<1>4. /\ count[p] \in Nat /\ putCount[p] \in Nat /\ getCount[p] \in Nat
      /\ lost[p] \in Nat
  BY <1>1 DEF ListShape
<1>5. shown[p] \in Nat /\ again[p] \in Nat
  BY <1>1 DEF WindowShape
<1>6. Len(Previous[p]) \in Nat
  BY <1>3
<1>7. Puts(p) \in Int /\ Gets(p) \in Int
  BY <1>5, <1>6 DEF Puts, Gets
<1>8. TwiceLostGets(p) \in Int
  BY <1>4, <1>7 DEF TwiceLostGets
<1>. QED BY <1>1, <1>2, <1>3, <1>4, <1>5, <1>6, <1>7, <1>8

LEMMA PutLinkKeeps ==
  ASSUME Shape, NEW p \in Procs, MsgInv(p), NEW from \in Boxes \cup {NO_DATA},
         PutLink(p, from), UNCHANGED <<shown, again>>
  PROVE  /\ ListShape' /\ MsgInv(p)'
         /\ \A q \in Procs \ {p} : UNCHANGED ListOf(q)
<1>. DEFINE prev == Previous[p]
            n == Len(prev) + 1
            h == HeadNode[p]
            linked == IF h = NULL THEN prev ELSE [prev EXCEPT ![h] = n]
            new == Append(linked, NULL)
<1>1. /\ monitor \in [Procs -> MonitorPoints] /\ ListShape
      /\ prev \in Seq(Nat) /\ Len(prev) \in Nat /\ h \in Nat
      /\ Msg[p] \in Seq(Boxes \cup {NO_DATA})
  BY Types
<1>2. /\ monitor[p] = "link" /\ monitor' = [monitor EXCEPT ![p] = "tail"]
      /\ Previous' = [Previous EXCEPT ![p] = new]
      /\ Msg' = [Msg EXCEPT ![p] = Append(Msg[p], from)]
      /\ UNCHANGED <<window, HeadNode, TailNode, deleted, count, putCount,
                     getCount, lost, tmp>>
  BY DEF PutLink, MonitorGoto, countVars
<1>3. /\ h = Len(prev) /\ Len(Msg[p]) = Len(prev)
      /\ \A k \in 1 .. n - 1 : prev[k] = IF k = n - 1 THEN NULL ELSE k + 1
  BY <1>2 DEF MsgInv, ListInv
<1>4. /\ linked \in Seq(Nat) /\ Len(linked) = Len(prev)
      /\ \A k \in 1 .. n - 1 : linked[k] = k + 1
  <2>1. CASE h = NULL
    <3>1. linked = prev /\ n = 1
      BY <1>1, <1>3, <2>1 DEF NULL
    <3>2. \A k \in 1 .. n - 1 : FALSE
      BY <3>1
    <3>. HIDE DEF linked, n
    <3>. QED BY <1>1, <3>1, <3>2
  <2>2. CASE h # NULL
    BY <1>1, <1>3, <2>2 DEF NULL
  <2>. QED BY <2>1, <2>2
<1>. HIDE DEF linked
<1>5. /\ new \in Seq(Nat) /\ Len(new) = n
      /\ \A k \in 1 .. n : new[k] = IF k = n THEN NULL ELSE k + 1
  BY <1>1, <1>4 DEF NULL
<1>. HIDE DEF new
<1>6. /\ Append(Msg[p], from) \in Seq(Boxes \cup {NO_DATA})
      /\ Len(Append(Msg[p], from)) = n
  BY <1>1, <1>3
<1>7. /\ monitor'[p] = "tail" /\ Previous'[p] = new
      /\ Len(Msg'[p]) = n
      /\ ListShape'
  BY <1>1, <1>2, <1>5, <1>6 DEF ListShape
<1>8. \A q \in Procs \ {p} : UNCHANGED ListOf(q)
  BY <1>1, <1>2 DEF ListShape, ListOf
<1>. HIDE DEF n, h, prev
<1>9. /\ n = Len(Previous[p]) + 1 /\ Len(Previous[p]) = HeadNode[p]
      /\ n \in Nat /\ n >= 1 /\ TailNode[p] \in Nat
  BY <1>1, <1>3, Types DEF n, h, prev
<1>10. ListInv(p)'
  <2>1. /\ Len(Previous'[p]) = n
        /\ \A k \in 1 .. n : Previous'[p][k] = IF k = n THEN NULL ELSE k + 1
    BY <1>5, <1>7
  <2>2. /\ HeadNode'[p] = n - 1 /\ TailNode'[p] <= n
        /\ TailNode'[p] = NULL <=> HeadNode'[p] = NULL
        /\ window'[p] \in Getting => TailNode'[p] # NULL
    BY <1>2, <1>9 DEF MsgInv, ListInv
  <2>3. \A k \in deleted'[p] :
          1 <= k /\ k < IF window'[p] = "delete" THEN TailNode'[p] - 1
                        ELSE TailNode'[p]
    BY <1>2 DEF MsgInv, ListInv
  <2>. QED BY <1>7, <1>9, <2>1, <2>2, <2>3 DEF ListInv
<1>11. TmpInv(p)'
  BY <1>1, <1>2, <1>5, <1>7, <1>9 DEF MsgInv, TmpInv, ListShape
<1>12. Puts(p)' = Puts(p) /\ Gets(p)' = Gets(p)
  BY <1>1, <1>2, <1>5, <1>7, <1>9 DEF Puts, Gets, Putting
<1>13. TwiceLostGets(p)' = TwiceLostGets(p)
  BY <1>2, <1>12 DEF TwiceLostGets
<1>14. CountInv(p)' /\ LateInv(p)'
  BY <1>2, <1>7, <1>13 DEF MsgInv, CountInv, LateInv
<1>. QED BY <1>7, <1>8, <1>10, <1>11, <1>14 DEF MsgInv

LEMMA PutTailKeeps ==
  ASSUME Shape, NEW p \in Procs, MsgInv(p), PutTail(p),
         UNCHANGED <<shown, again>>
  PROVE  /\ ListShape' /\ MsgInv(p)'
         /\ \A q \in Procs \ {p} : UNCHANGED ListOf(q)
<1>. DEFINE n == Len(Previous[p])
<1>1. /\ monitor \in [Procs -> MonitorPoints] /\ ListShape
      /\ n \in Nat /\ TailNode[p] \in Nat
      /\ shown[p] \in Nat /\ again[p] \in Nat
  BY Types
<1>2. /\ monitor[p] = "tail" /\ monitor' = [monitor EXCEPT ![p] = "load"]
      /\ TailNode' = [TailNode EXCEPT
                        ![p] = IF TailNode[p] = NULL THEN n ELSE TailNode[p]]
      /\ HeadNode' = [HeadNode EXCEPT ![p] = n]
      /\ UNCHANGED <<window, Previous, Msg, deleted, count, putCount, getCount,
                     lost, tmp, shown, again>>
  BY DEF PutTail, MonitorGoto, countVars, nodeVars
<1>3. /\ monitor'[p] = "load" /\ HeadNode'[p] = n
      /\ TailNode'[p] = IF TailNode[p] = NULL THEN n ELSE TailNode[p]
      /\ ListShape'
  BY <1>1, <1>2 DEF ListShape
<1>4. \A q \in Procs \ {p} : UNCHANGED ListOf(q)
  BY <1>1, <1>2 DEF ListShape, ListOf
<1>5. /\ n >= 1 /\ HeadNode[p] = n - 1
      /\ TailNode[p] = NULL => n = 1
  BY <1>1, <1>2 DEF MsgInv, ListInv, NULL
<1>6. ListInv(p)'
  <2>1. /\ Len(Previous'[p]) = n /\ Len(Msg'[p]) = n
        /\ \A k \in 1 .. n : Previous'[p][k] = IF k = n THEN NULL ELSE k + 1
    BY <1>2 DEF MsgInv, ListInv
  <2>2. /\ TailNode'[p] <= n /\ TailNode'[p] # NULL /\ HeadNode'[p] # NULL
    BY <1>1, <1>2, <1>3, <1>5 DEF MsgInv, ListInv, NULL
  <2>3. \A k \in deleted[p] :
          1 <= k /\ k < IF window[p] = "delete" THEN TailNode'[p] - 1
                        ELSE TailNode'[p]
    <3>1. deleted[p] \in SUBSET Nat
      BY Types
    <3>2. TailNode[p] = NULL => deleted[p] = {}
      BY <1>1, <3>1 DEF MsgInv, ListInv, NULL
    <3>. QED BY <1>3, <3>2 DEF MsgInv, ListInv
  <2>. HIDE DEF n
  <2>. QED BY <1>2, <1>3, <2>1, <2>2, <2>3 DEF ListInv
<1>7. TmpInv(p)'
  <2>1. TailNode[p] = NULL => window[p] \notin Getting
    BY DEF MsgInv, ListInv
  <2>2. TailNode[p] = NULL => shown[p] = 0
    BY <1>1, <2>1 DEF MsgInv, TmpInv, Getting, NULL
  <2>3. CASE TailNode[p] = NULL
    <3>1. TailNode'[p] = 1 /\ shown'[p] = 0 /\ tmp'[p] <= Len(Previous'[p])
      BY <1>2, <1>3, <1>5, <2>2, <2>3 DEF MsgInv, TmpInv
    <3>2. window'[p] \notin Getting
      BY <1>2, <2>1, <2>3
    <3>. QED BY <3>1, <3>2 DEF TmpInv, Getting
  <2>4. CASE TailNode[p] # NULL
    <3>1. TailNode'[p] = TailNode[p]
      BY <1>3, <2>4
    <3>. QED BY <1>2, <3>1 DEF MsgInv, TmpInv
  <2>. QED BY <2>3, <2>4
<1>8. Puts(p)' = Puts(p) /\ Gets(p)' = Gets(p)
  BY <1>2, <1>3 DEF Puts, Gets, Putting
<1>9. TwiceLostGets(p)' = TwiceLostGets(p)
  BY <1>2, <1>8 DEF TwiceLostGets
<1>10. CountInv(p)'
  BY <1>1, <1>2, <1>3, <1>5, <1>9 DEF MsgInv, CountInv, NULL
<1>11. LateInv(p)'
  <2>1. TailNode[p] = NULL => shown[p] = 0
    BY <1>1, <1>2, <1>5 DEF MsgInv, ListInv, TmpInv, Getting, NULL
  <2>2. TailNode'[p] = shown[p] => TailNode[p] = shown[p]
    BY <1>3, <1>5, <2>1 DEF NULL
  <2>. QED BY <1>2, <1>3, <1>9, <2>2 DEF MsgInv, ListInv, LateInv, Getting
<1>. QED BY <1>3, <1>4, <1>6, <1>7, <1>10, <1>11 DEF MsgInv

(* count++ in two steps: nothing else of the list changes.                 *)
LEMMA PutCountKeeps ==
  ASSUME Shape, NEW p \in Procs, MsgInv(p), PutLoad(p) \/ PutStore(p),
         UNCHANGED <<shown, again>>
  PROVE  /\ ListShape' /\ MsgInv(p)'
         /\ \A q \in Procs \ {p} : UNCHANGED ListOf(q)
<1>1. /\ monitor \in [Procs -> MonitorPoints] /\ ListShape
      /\ Len(Previous[p]) \in Nat
      /\ count[p] \in Nat /\ putCount[p] \in Nat /\ lost[p] \in Nat
      /\ getCount[p] \in Nat /\ shown[p] \in Nat /\ again[p] \in Nat
      /\ Puts(p) \in Int /\ Gets(p) \in Int /\ TwiceLostGets(p) \in Int
  BY Types
<1>2. UNCHANGED <<window, HeadNode, TailNode, Previous, Msg, deleted, tmp,
                  shown, again, getCount>>
  BY DEF PutLoad, PutStore, MonitorGoto, nodeVars
<1>3. /\ monitor[p] \in {"load", "store"} /\ monitor'[p] \in {"store", "clear"}
      /\ TmpInv(p)' /\ ListInv(p)'
  <2>1. monitor[p] \in {"load", "store"} /\ monitor'[p] \in {"store", "clear"}
    BY <1>1 DEF PutLoad, PutStore, MonitorGoto
  <2>. QED BY <1>2, <2>1 DEF MsgInv, ListInv, TmpInv
<1>4. TailNode[p] # NULL /\ Gets(p)' = Gets(p)
  BY <1>2, <1>3 DEF MsgInv, CountInv, Gets
<1>5. CASE PutLoad(p)
  <2>1. /\ monitor[p] = "load" /\ monitor' = [monitor EXCEPT ![p] = "store"]
        /\ putCount' = [putCount EXCEPT ![p] = count[p]]
        /\ UNCHANGED <<count, lost>>
    BY <1>5 DEF PutLoad, MonitorGoto
  <2>2. /\ monitor'[p] = "store" /\ putCount'[p] = count[p] /\ ListShape'
        /\ \A q \in Procs \ {p} : UNCHANGED ListOf(q)
    BY <1>1, <1>2, <2>1 DEF ListShape, ListOf
  <2>3. Puts(p)' = Puts(p)
    BY <1>2, <2>1, <2>2 DEF Puts, Putting
  <2>4. TwiceLostGets(p)' = TwiceLostGets(p)
    BY <1>4, <2>1, <2>3 DEF TwiceLostGets
  <2>5. CountInv(p)' /\ LateInv(p)'
    BY <1>1, <1>2, <1>4, <2>1, <2>2, <2>4 DEF MsgInv, CountInv, LateInv
  <2>. QED BY <1>3, <2>2, <2>5 DEF MsgInv
<1>6. CASE PutStore(p)
  <2>. DEFINE over == putCount[p] - count[p]
  <2>1. /\ monitor[p] = "store" /\ monitor' = [monitor EXCEPT ![p] = "clear"]
        /\ count' = [count EXCEPT ![p] = putCount[p] + 1]
        /\ lost' = [lost EXCEPT ![p] = lost[p] + over]
        /\ UNCHANGED putCount
    BY <1>6 DEF PutStore, MonitorGoto
  <2>2. over \in Nat
    BY <1>1, <2>1 DEF MsgInv, CountInv
  <2>3. /\ monitor'[p] = "clear" /\ count'[p] = count[p] + over + 1
        /\ lost'[p] = lost[p] + over
    <3>1. count'[p] = putCount[p] + 1 /\ lost'[p] = lost[p] + over
      BY <1>1, <2>1 DEF ListShape
    <3>. QED BY <1>1, <2>1, <3>1
  <2>. HIDE DEF over
  <2>4. ListShape'
    <3>1. putCount[p] + 1 \in Nat /\ lost[p] + over \in Nat
      BY <1>1, <2>2, SMTT(30)
    <3>2. count' \in [Procs -> Nat] /\ lost' \in [Procs -> Nat]
      BY <1>1, <2>1, <3>1 DEF ListShape
    <3>. QED BY <1>1, <1>2, <2>1, <3>2 DEF ListShape
  <2>5. \A q \in Procs \ {p} : UNCHANGED ListOf(q)
    BY <1>1, <1>2, <2>1 DEF ListShape, ListOf
  <2>6. Puts(p)' = Puts(p) + 1
    BY <1>1, <1>2, <2>1, <2>3 DEF Puts, Putting
  <2>7. TwiceLostGets(p) \in Int
    BY <1>1
  <2>8. TwiceLostGets(p)' = TwiceLostGets(p) + 2 * over
    <3>1. TwiceLostGets(p)' = lost'[p] + count'[p] - Puts(p)' + Gets(p)'
      BY DEF TwiceLostGets
    <3>2. TwiceLostGets(p) = lost[p] + count[p] - Puts(p) + Gets(p)
      BY DEF TwiceLostGets
    <3>3. /\ lost[p] \in Nat /\ count[p] \in Nat /\ Puts(p) \in Int
          /\ Gets(p) \in Int
      BY <1>1
    <3>. QED BY <1>4, <2>2, <2>3, <2>6, <3>1, <3>2, <3>3
  <2>9. CountInv(p)'
    <3>1. /\ count'[p] >= 1 /\ count'[p] >= count[p]
          /\ lost'[p] = lost[p] + over
      BY <1>1, <2>2, <2>3
    <3>2. TwiceLostGets(p) >= 0 /\ TwiceLostGets(p) <= 2 * lost[p]
      BY DEF MsgInv, CountInv
    <3>3. TwiceLostGets(p)' >= 0 /\ TwiceLostGets(p)' <= 2 * lost'[p]
      BY <1>1, <2>2, <2>7, <2>8, <3>1, <3>2, SMTT(30)
    <3>4. window[p] = "store" => 1 <= getCount[p] /\ getCount[p] <= count'[p]
      BY <1>1, <2>2, <2>3, <3>1 DEF MsgInv, CountInv
    <3>. QED BY <1>2, <1>4, <2>3, <3>1, <3>3, <3>4 DEF CountInv
  <2>10. LateInv(p)'
    BY <1>1, <1>2, <2>2, <2>7, <2>8, SMTT(30) DEF MsgInv, LateInv
  <2>. QED BY <1>3, <2>4, <2>5, <2>9, <2>10 DEF MsgInv
<1>. QED BY <1>5, <1>6

-----------------------------------------------------------------------------
(* The steps of ReadTweets and of Get in it.                               *)

LEMMA ReadTweetsKeeps ==
  ASSUME Shape, NEW p \in Procs, MsgInv(p), ReadTweets(p)
  PROVE  /\ ListShape' /\ MsgInv(p)'
         /\ \A q \in Procs \ {p} : UNCHANGED ListOf(q)
<1>1. /\ window[p] = "idle" /\ window'[p] = "get" /\ count[p] > 0
      /\ UNCHANGED <<monitor, HeadNode, TailNode, Previous, Msg, deleted, count,
                     putCount, getCount, lost, tmp, shown, again>>
  BY Types DEF ReadTweets, WindowGoto, listVars, nodeVars, countVars, windowVars
<1>2. ListShape' /\ \A q \in Procs \ {p} : UNCHANGED ListOf(q)
  BY <1>1, Types DEF ListShape, ListOf
<1>3. TailNode[p] # NULL
  BY <1>1 DEF MsgInv, CountInv
<1>4. Puts(p)' = Puts(p) /\ Gets(p)' = Gets(p)
  BY <1>1 DEF Puts, Gets
<1>5. TwiceLostGets(p)' = TwiceLostGets(p)
  BY <1>1, <1>4 DEF TwiceLostGets
<1>6. ListInv(p)' /\ TmpInv(p)'
  BY <1>1, <1>3 DEF MsgInv, ListInv, TmpInv
<1>7. CountInv(p)' /\ LateInv(p)'
  BY <1>1, <1>5, Types DEF MsgInv, CountInv, LateInv
<1>. QED BY <1>2, <1>6, <1>7 DEF MsgInv

LEMMA GetCopyKeeps ==
  ASSUME Shape, NEW p \in Procs, MsgInv(p), GetCopy(p),
         UNCHANGED <<shown, again>>
  PROVE  /\ ListShape' /\ MsgInv(p)'
         /\ \A q \in Procs \ {p} : UNCHANGED ListOf(q)
<1>1. /\ window[p] = "get" /\ window'[p] = "load"
      /\ tmp' = [tmp EXCEPT ![p] = TailNode[p]]
      /\ UNCHANGED <<monitor, HeadNode, TailNode, Previous, Msg, deleted, count,
                     putCount, getCount, lost>>
  BY Types DEF GetCopy, WindowGoto, nodeVars, countVars
<1>2. ListShape' /\ tmp'[p] = TailNode[p]
  BY <1>1, Types DEF ListShape
<1>3. \A q \in Procs \ {p} : UNCHANGED ListOf(q)
  BY <1>1, Types DEF ListShape, ListOf
<1>4. Puts(p)' = Puts(p) /\ Gets(p)' = Gets(p)
  BY <1>1 DEF Puts, Gets
<1>5. TwiceLostGets(p)' = TwiceLostGets(p)
  BY <1>1, <1>4 DEF TwiceLostGets
<1>6. ListInv(p)' /\ TmpInv(p)'
  BY <1>1, <1>2 DEF MsgInv, ListInv, TmpInv, Getting
<1>7. CountInv(p)' /\ LateInv(p)'
  BY <1>1, <1>5 DEF MsgInv, CountInv, LateInv
<1>. QED BY <1>2, <1>3, <1>6, <1>7 DEF MsgInv

LEMMA GetLoadKeeps ==
  ASSUME Shape, NEW p \in Procs, MsgInv(p), GetLoad(p),
         UNCHANGED <<shown, again>>
  PROVE  /\ ListShape' /\ MsgInv(p)'
         /\ \A q \in Procs \ {p} : UNCHANGED ListOf(q)
<1>1. /\ window[p] = "load" /\ window'[p] = "store"
      /\ getCount' = [getCount EXCEPT ![p] = count[p]]
      /\ UNCHANGED <<monitor, HeadNode, TailNode, Previous, Msg, deleted, count,
                     putCount, lost, tmp>>
  BY Types DEF GetLoad, WindowGoto, nodeVars
<1>2. ListShape' /\ getCount'[p] = count[p] /\ count[p] \in Nat
  BY <1>1, Types DEF ListShape
<1>3. \A q \in Procs \ {p} : UNCHANGED ListOf(q)
  BY <1>1, Types DEF ListShape, ListOf
<1>4. Puts(p)' = Puts(p) /\ Gets(p)' = Gets(p)
  BY <1>1 DEF Puts, Gets
<1>5. TwiceLostGets(p)' = TwiceLostGets(p)
  BY <1>1, <1>4 DEF TwiceLostGets
<1>6. ListInv(p)' /\ TmpInv(p)'
  BY <1>1 DEF MsgInv, ListInv, TmpInv, Getting
<1>7. CountInv(p)' /\ LateInv(p)'
  BY <1>1, <1>2, <1>5 DEF MsgInv, CountInv, LateInv
<1>. QED BY <1>2, <1>3, <1>6, <1>7 DEF MsgInv

(* An update of Put between Get's two is lost, and count is too low.       *)
LEMMA GetStoreKeeps ==
  ASSUME Shape, NEW p \in Procs, MsgInv(p), GetStore(p),
         UNCHANGED <<shown, again>>
  PROVE  /\ ListShape' /\ MsgInv(p)'
         /\ \A q \in Procs \ {p} : UNCHANGED ListOf(q)
<1>. DEFINE over == count[p] - getCount[p]
<1>1. /\ window[p] = "store" /\ window'[p] = "advance"
      /\ count' = [count EXCEPT ![p] = getCount[p] - 1]
      /\ lost' = [lost EXCEPT ![p] = lost[p] + over]
      /\ UNCHANGED <<monitor, HeadNode, TailNode, Previous, Msg, deleted,
                     putCount, getCount, tmp>>
  BY Types DEF GetStore, WindowGoto, nodeVars
<1>2. /\ count[p] \in Nat /\ getCount[p] \in Nat /\ lost[p] \in Nat
      /\ putCount[p] \in Nat
      /\ over \in Nat /\ getCount[p] >= 1
      /\ getCount[p] - 1 \in Nat /\ lost[p] + over \in Nat
  BY <1>1, Types, SMTT(30) DEF MsgInv, CountInv
<1>3. count' \in [Procs -> Nat] /\ lost' \in [Procs -> Nat] /\ ListShape'
  <2>1. count' \in [Procs -> Nat] /\ lost' \in [Procs -> Nat]
    BY <1>1, <1>2, Types DEF ListShape
  <2>. QED BY <1>1, <2>1, Types DEF ListShape
<1>4. /\ count'[p] = getCount[p] - 1 /\ lost'[p] = lost[p] + over
      /\ \A q \in Procs \ {p} : UNCHANGED ListOf(q)
  BY <1>1, Types DEF ListShape, ListOf
<1>5. Puts(p)' = Puts(p) /\ Gets(p)' = Gets(p) + 1
  BY <1>1, Types DEF Puts, Gets
<1>6. TwiceLostGets(p)' = TwiceLostGets(p)
  <2>1. TwiceLostGets(p)' = lost'[p] + count'[p] - Puts(p)' + Gets(p)'
    BY DEF TwiceLostGets
  <2>2. TwiceLostGets(p) = lost[p] + count[p] - Puts(p) + Gets(p)
    BY DEF TwiceLostGets
  <2>3. Puts(p) \in Int /\ Gets(p) \in Int
    BY Types
  <2>. QED BY <1>2, <1>4, <1>5, <2>1, <2>2, <2>3
<1>7. ListInv(p)' /\ TmpInv(p)'
  BY <1>1 DEF MsgInv, ListInv, TmpInv, Getting
<1>8. CountInv(p)'
  <2>1. /\ TwiceLostGets(p) >= 0 /\ TwiceLostGets(p) <= 2 * lost[p]
        /\ monitor[p] = "store" => putCount[p] >= count[p]
        /\ TailNode[p] # NULL
    BY <1>1 DEF MsgInv, CountInv, ListInv, Getting
  <2>2. TwiceLostGets(p) \in Int
    BY Types
  <2>3. TwiceLostGets(p)' >= 0 /\ TwiceLostGets(p)' <= 2 * lost'[p]
    BY <1>2, <1>4, <1>6, <2>1, <2>2
  <2>4. monitor[p] = "store" => putCount[p] >= count'[p]
    BY <1>2, <1>4, <2>1
  <2>. QED BY <1>1, <2>1, <2>3, <2>4 DEF CountInv
<1>9. LateInv(p)'
  BY <1>1, <1>6 DEF MsgInv, LateInv
<1>. QED BY <1>3, <1>4, <1>7, <1>8, <1>9 DEF MsgInv

(* At the last node Get stays, and then every message has been counted.    *)
LEMMA GetAdvanceKeeps ==
  ASSUME Shape, NEW p \in Procs, MsgInv(p), GetAdvance(p),
         UNCHANGED <<shown, again>>
  PROVE  /\ ListShape' /\ MsgInv(p)'
         /\ \A q \in Procs \ {p} : UNCHANGED ListOf(q)
<1>. DEFINE t == TailNode[p]
            next == Previous[p][t]
            made == Len(Previous[p])
<1>1. /\ window[p] = "advance"
      /\ window'[p] = IF next = NULL THEN "connect" ELSE "delete"
      /\ TailNode' = [TailNode EXCEPT ![p] = IF next = NULL THEN t ELSE next]
      /\ UNCHANGED <<monitor, HeadNode, Previous, Msg, deleted, count,
                     putCount, getCount, lost, tmp>>
  BY Types DEF GetAdvance, WindowGoto, nodeVars, countVars
<1>2. /\ t \in Nat /\ made \in Nat /\ t # NULL /\ t <= made /\ tmp[p] = t
      /\ next = IF t = made THEN NULL ELSE t + 1
      /\ t \in {shown[p], shown[p] + 1}
      /\ shown[p] \in Nat /\ again[p] \in Nat
      /\ count[p] \in Nat /\ lost[p] \in Nat
  <2>1. t \in Nat /\ made \in Nat
    BY Types
  <2>2. t # NULL /\ t <= made /\ tmp[p] = t /\ t \in {shown[p], shown[p] + 1}
    BY <1>1 DEF MsgInv, ListInv, TmpInv, Getting
  <2>3. t \in 1 .. made
    BY <2>1, <2>2 DEF NULL
  <2>. QED BY <2>1, <2>2, <2>3, Types DEF MsgInv, ListInv
<1>3. /\ TailNode'[p] = IF t = made THEN t ELSE t + 1
      /\ window'[p] = IF t = made THEN "connect" ELSE "delete"
      /\ ListShape'
  <2>1. IF next = NULL THEN t = made ELSE t # made /\ next = t + 1
    BY <1>2 DEF NULL
  <2>2. (IF next = NULL THEN t ELSE next) \in Nat
    BY <1>2
  <2>3. ListShape
    BY Types
  <2>. HIDE DEF next
  <2>4. /\ TailNode' \in [Procs -> Nat]
        /\ TailNode'[p] = IF next = NULL THEN t ELSE next
    BY <1>1, <2>2, <2>3 DEF ListShape
  <2>5. ListShape'
    BY <1>1, <2>3, <2>4 DEF ListShape
  <2>. QED BY <1>1, <2>1, <2>4, <2>5
<1>4. \A q \in Procs \ {p} : UNCHANGED ListOf(q)
  BY <1>1, Types DEF ListShape, ListOf
<1>5. Puts(p)' = Puts(p) /\ Gets(p)' = Gets(p)
  BY <1>1, <1>3 DEF Puts, Gets
<1>6. TwiceLostGets(p)' = TwiceLostGets(p)
  BY <1>1, <1>5 DEF TwiceLostGets
<1>. HIDE DEF next
<1>7. ListInv(p)'
  <2>1. /\ TailNode'[p] <= made /\ TailNode'[p] # NULL /\ HeadNode[p] # NULL
    BY <1>2, <1>3 DEF MsgInv, ListInv, NULL
  <2>2. \A n \in deleted[p] :
          1 <= n /\ n < IF window'[p] = "delete" THEN TailNode'[p] - 1
                        ELSE TailNode'[p]
    BY <1>1, <1>2, <1>3 DEF MsgInv, ListInv
  <2>. QED BY <1>1, <2>1, <2>2 DEF MsgInv, ListInv
<1>8. TmpInv(p)'
  BY <1>1, <1>2, <1>3 DEF TmpInv, NULL
<1>9. CountInv(p)'
  BY <1>1, <1>2, <1>3, <1>6 DEF MsgInv, CountInv, NULL
<1>10. LateInv(p)'
  <2>1. /\ TwiceLostGets(p) \in Int /\ Puts(p) \in Int /\ Puts(p) <= made
        /\ Gets(p) = shown[p] + again[p] + 1
    BY <1>1, <1>2, Types DEF Puts, Gets
  <2>2. TwiceLostGets(p) = lost[p] + count[p] - Puts(p) + Gets(p)
    BY DEF TwiceLostGets
  <2>3. /\ TwiceLostGets(p) <= 2 * lost[p]
        /\ 2 * again[p] <= 2 + TwiceLostGets(p)
        /\ t = shown[p] => 2 * again[p] <= TwiceLostGets(p)
    BY <1>1 DEF MsgInv, CountInv, LateInv
  <2>4. t = made => 2 * again[p] + (IF t = shown[p] THEN 2 ELSE 0)
                      <= TwiceLostGets(p)
    <3>. SUFFICES ASSUME t = made
                  PROVE  2 * again[p] + (IF t = shown[p] THEN 2 ELSE 0)
                           <= TwiceLostGets(p)
      OBVIOUS
    <3>. HIDE DEF t, made
    <3>1. TwiceLostGets(p) >= lost[p] - t + shown[p] + again[p] + 1
      BY <1>2, <2>1, <2>2
    <3>2. TwiceLostGets(p) >= 2 * (shown[p] - t + again[p] + 1)
      BY <1>2, <2>1, <2>3, <3>1
    <3>. QED BY <1>2, <2>1, <3>2
  <2>5. TailNode'[p] = tmp[p] => t = made
    BY <1>2, <1>3
  <2>. QED BY <1>1, <1>2, <1>3, <1>6, <2>3, <2>4, <2>5 DEF LateInv
<1>. QED BY <1>3, <1>4, <1>7, <1>8, <1>9, <1>10 DEF MsgInv

LEMMA GetDeleteKeeps ==
  ASSUME Shape, NEW p \in Procs, MsgInv(p), GetDelete(p),
         UNCHANGED <<shown, again>>
  PROVE  /\ ListShape' /\ MsgInv(p)'
         /\ \A q \in Procs \ {p} : UNCHANGED ListOf(q)
<1>1. /\ window[p] = "delete" /\ window'[p] = "connect"
      /\ deleted' = [deleted EXCEPT ![p] = deleted[p] \cup {tmp[p]}]
      /\ UNCHANGED <<monitor, HeadNode, TailNode, Previous, Msg, count,
                     putCount, getCount, lost, tmp>>
  BY Types DEF GetDelete, WindowGoto, countVars
<1>2. /\ tmp[p] \in Nat /\ TailNode[p] \in Nat /\ tmp[p] = TailNode[p] - 1
      /\ tmp[p] > 0
  BY <1>1, Types DEF MsgInv, TmpInv
<1>3. ListShape' /\ deleted'[p] = deleted[p] \cup {tmp[p]}
  BY <1>1, <1>2, Types DEF ListShape
<1>4. \A q \in Procs \ {p} : UNCHANGED ListOf(q)
  BY <1>1, Types DEF ListShape, ListOf
<1>5. Puts(p)' = Puts(p) /\ Gets(p)' = Gets(p)
  BY <1>1 DEF Puts, Gets
<1>6. TwiceLostGets(p)' = TwiceLostGets(p)
  BY <1>1, <1>5 DEF TwiceLostGets
<1>7. ListInv(p)'
  <2>1. \A n \in deleted'[p] : 1 <= n /\ n < TailNode[p]
    <3>1. deleted[p] \subseteq Nat
      BY Types
    <3>2. \A n \in deleted[p] : 1 <= n /\ n < TailNode[p] - 1
      BY <1>1 DEF MsgInv, ListInv
    <3>. QED BY <1>2, <1>3, <3>1, <3>2
  <2>. QED BY <1>1, <2>1 DEF MsgInv, ListInv, Getting
<1>8. TmpInv(p)'
  BY <1>1, <1>2 DEF MsgInv, TmpInv
<1>9. CountInv(p)' /\ LateInv(p)'
  BY <1>1, <1>2, <1>6 DEF MsgInv, CountInv, LateInv
<1>. QED BY <1>3, <1>4, <1>7, <1>8, <1>9 DEF MsgInv

(* The window shows the message that Get has copied: the next one, or the  *)
(* last one once more.                                                     *)
LEMMA ConnectShows ==
  ASSUME Shape, NEW p \in Procs, MsgInv(p), Connect(p)
  PROVE  /\ ListShape' /\ MsgInv(p)'
         /\ \A q \in Procs \ {p} : UNCHANGED ListOf(q)
         /\ shown' \in [Procs -> Nat] /\ again' \in [Procs -> Nat]
<1>1. /\ window[p] = "connect" /\ window'[p] = "idle"
      /\ shown' = [shown EXCEPT ![p] = tmp[p]]
      /\ again' = [again EXCEPT ![p] = IF shown[p] = tmp[p] THEN again[p] + 1
                                       ELSE again[p]]
      /\ UNCHANGED <<monitor, HeadNode, TailNode, Previous, Msg, deleted, count,
                     putCount, getCount, lost, tmp>>
  BY Types DEF Connect, WindowGoto, listVars, nodeVars, countVars
<1>2. /\ shown[p] \in Nat /\ again[p] \in Nat /\ tmp[p] \in Nat
      /\ TailNode[p] \in Nat /\ TwiceLostGets(p) \in Int
      /\ shown \in [Procs -> Nat] /\ again \in [Procs -> Nat]
  BY Types DEF Shape, WindowShape
<1>3. /\ shown'[p] = tmp[p] /\ shown' \in [Procs -> Nat]
      /\ again'[p] = IF shown[p] = tmp[p] THEN again[p] + 1 ELSE again[p]
      /\ again' \in [Procs -> Nat]
  BY <1>1, <1>2
<1>4. ListShape' /\ \A q \in Procs \ {p} : UNCHANGED ListOf(q)
  BY <1>1, <1>2, Types DEF ListShape, ListOf
<1>5. /\ tmp[p] \in {shown[p], shown[p] + 1}
      /\ tmp[p] \in {TailNode[p] - 1, TailNode[p]}
  BY <1>1 DEF MsgInv, TmpInv
<1>6. Puts(p)' = Puts(p) /\ Gets(p)' = Gets(p)
  BY <1>1, <1>2, <1>3, <1>5 DEF Puts, Gets
<1>7. TwiceLostGets(p)' = TwiceLostGets(p)
  BY <1>1, <1>6 DEF TwiceLostGets
<1>8. ListInv(p)' /\ CountInv(p)'
  BY <1>1, <1>7 DEF MsgInv, ListInv, CountInv, Getting
<1>9. TmpInv(p)'
  BY <1>1, <1>2, <1>3, <1>5 DEF MsgInv, TmpInv
<1>10. LateInv(p)'
  BY <1>1, <1>2, <1>3, <1>5, <1>7 DEF MsgInv, LateInv
<1>. QED BY <1>3, <1>4, <1>8, <1>9, <1>10 DEF MsgInv

(* All steps of Get together.                                              *)
LEMMA GetKeeps ==
  ASSUME Shape, NEW p \in Procs, MsgInv(p), Get(p)
  PROVE  /\ ListShape' /\ MsgInv(p)'
         /\ \A q \in Procs \ {p} : UNCHANGED ListOf(q)
<1>1. UNCHANGED <<shown, again>>
  BY DEF Get, windowVars
<1>. QED BY <1>1, GetCopyKeeps, GetLoadKeeps, GetStoreKeeps, GetAdvanceKeeps,
            GetDeleteKeeps DEF Get

-----------------------------------------------------------------------------
(* A step of a process keeps its own invariants and leaves the others be.  *)

KeptBy(p) ==
  /\ Shape' /\ MsgInv(p)' /\ IOInv(p)'
  /\ \A q \in Procs \ {p} :
       UNCHANGED Points(q) /\ UNCHANGED ListOf(q) /\ UNCHANGED IOOf(q)

PointsKept(p) ==
  /\ monitor' \in [Procs -> MonitorPoints]
  /\ window' \in [Procs -> WindowPoints]
  /\ \A q \in Procs \ {p} : UNCHANGED Points(q)

LEMMA GotoFacts ==
  ASSUME Shape, NEW p \in Procs, NEW from, NEW to
  PROVE  /\ WindowGoto(p, from, to) /\ to \in WindowPoints =>
              /\ PointsKept(p) /\ UNCHANGED monitor
              /\ window[p] = from /\ window'[p] = to
         /\ MonitorGoto(p, from, to) /\ to \in MonitorPoints =>
              /\ PointsKept(p) /\ UNCHANGED window
              /\ monitor[p] = from /\ monitor'[p] = to
BY Types DEF WindowGoto, MonitorGoto, PointsKept, Points

(* Steps that do not touch the list.                                       *)
LEMMA NoList ==
  ASSUME Shape, NEW p \in Procs, MsgInv(p), UNCHANGED listVars,
         UNCHANGED <<shown, again>>,
         monitor'[p] = monitor[p]
           \/ (monitor[p] \notin Putting /\ monitor'[p] \notin Putting),
         window'[p] = window[p]
           \/ (window[p] \notin Getting /\ window'[p] \notin Getting)
  PROVE  /\ ListShape' /\ MsgInv(p)'
         /\ \A q \in Procs : UNCHANGED ListOf(q)
<1>1. UNCHANGED <<HeadNode, TailNode, Previous, Msg, deleted, count, putCount,
                  getCount, lost, tmp, shown, again>>
  BY DEF listVars, nodeVars, countVars
<1>2. ListShape' /\ \A q \in Procs : UNCHANGED ListOf(q)
  BY <1>1, Types DEF ListShape, ListOf
<1>. QED BY <1>2, ListStays

(* A process that ends leaves its variables as they were before it began.  *)
LEMMA EndKeeps ==
  ASSUME Shape, NEW p \in Procs, ProcessEnds(p)
  PROVE  KeptBy(p)
<1>1. ListShape /\ IOTypeOK /\ WindowShape
  BY DEF Shape
<1>2. PointsKept(p) /\ window'[p] = "off" /\ monitor'[p] = "off"
  <2>1. "off" \in WindowPoints /\ "off" \in MonitorPoints
    BY DEF WindowPoints, MonitorPoints
  <2>. QED BY <2>1, Types DEF ProcessEnds, PointsKept, Points
<1>3. /\ ListShape'
      /\ HeadNode'[p] = 0 /\ TailNode'[p] = 0 /\ Previous'[p] = <<>>
      /\ Msg'[p] = <<>> /\ deleted'[p] = {} /\ count'[p] = 0
      /\ putCount'[p] = 0 /\ getCount'[p] = 0 /\ tmp'[p] = 0 /\ lost'[p] = 0
  <2>1. /\ HeadNode' = [HeadNode EXCEPT ![p] = 0]
        /\ TailNode' = [TailNode EXCEPT ![p] = 0]
        /\ Previous' = [Previous EXCEPT ![p] = <<>>]
        /\ Msg' = [Msg EXCEPT ![p] = <<>>]
        /\ deleted' = [deleted EXCEPT ![p] = {}]
    BY DEF ProcessEnds, MsgListGone, NULL
  <2>2. /\ count' = [count EXCEPT ![p] = 0]
        /\ putCount' = [putCount EXCEPT ![p] = 0]
        /\ getCount' = [getCount EXCEPT ![p] = 0]
        /\ tmp' = [tmp EXCEPT ![p] = 0] /\ lost' = [lost EXCEPT ![p] = 0]
    BY DEF ProcessEnds, MsgListGone, NULL
  <2>3. /\ HeadNode' \in [Procs -> Nat] /\ TailNode' \in [Procs -> Nat]
        /\ HeadNode'[p] = 0 /\ TailNode'[p] = 0
    BY <1>1, <2>1 DEF ListShape
  <2>4. Previous' \in [Procs -> Seq(Nat)] /\ Previous'[p] = <<>>
    BY <1>1, <2>1 DEF ListShape
  <2>5. /\ Msg' \in [Procs -> Seq(Boxes \cup {NO_DATA})]
        /\ Msg'[p] = <<>>
    BY <1>1, <2>1, SMTT(30) DEF ListShape
  <2>6. deleted' \in [Procs -> SUBSET Nat] /\ deleted'[p] = {}
    BY <1>1, <2>1 DEF ListShape
  <2>7. /\ count' \in [Procs -> Nat] /\ lost' \in [Procs -> Nat]
        /\ putCount' \in [Procs -> Nat] /\ getCount' \in [Procs -> Nat]
        /\ tmp' \in [Procs -> Nat]
        /\ count'[p] = 0 /\ putCount'[p] = 0 /\ getCount'[p] = 0
        /\ tmp'[p] = 0 /\ lost'[p] = 0
    BY <1>1, <2>2 DEF ListShape
  <2>. QED BY <2>3, <2>4, <2>5, <2>6, <2>7 DEF ListShape
<1>4. WindowShape' /\ i'[p] = 0 /\ shown'[p] = 0 /\ again'[p] = 0
  <2>1. i' \in [Procs -> 0 .. MAXBOX] /\ i'[p] = 0
    BY <1>1, TwitterAssumption DEF ProcessEnds, Index, WindowShape
  <2>2. thisMailslot' \in [Procs -> Boxes \cup {NoBox}]
    BY <1>1 DEF ProcessEnds, WindowShape
  <2>3. /\ shown' \in [Procs -> Nat] /\ shown'[p] = 0
        /\ again' \in [Procs -> Nat] /\ again'[p] = 0
    BY <1>1 DEF ProcessEnds, WindowShape, NULL
  <2>. QED BY <1>1, <2>1, <2>2, <2>3 DEF ProcessEnds, WindowShape
<1>5. IOTypeOK' /\ mapped'[p] = {}
  BY <1>1 DEF ProcessEnds, IOTypeOK
<1>6. ASSUME NEW q \in Procs \ {p}
      PROVE  UNCHANGED ListOf(q) /\ UNCHANGED IOOf(q)
  <2>1. UNCHANGED ListOf(q)
    BY <1>1 DEF ProcessEnds, MsgListGone, ListShape, WindowShape, ListOf
  <2>2. UNCHANGED IOOf(q)
    BY <1>1 DEF ProcessEnds, Index, IOTypeOK, WindowShape, IOOf
  <2>. QED BY <2>1, <2>2
<1>7. Puts(p)' = 0 /\ Gets(p)' = 0
  BY <1>2, <1>3, <1>4 DEF Puts, Gets, Putting
<1>8. TwiceLostGets(p)' = 0
  BY <1>3, <1>7 DEF TwiceLostGets
<1>9. MsgInv(p)'
  <2>1. ListInv(p)' /\ TmpInv(p)'
    BY <1>2, <1>3, <1>4 DEF ListInv, TmpInv, NULL, Getting
  <2>2. CountInv(p)' /\ LateInv(p)'
    BY <1>2, <1>3, <1>4, <1>8 DEF CountInv, LateInv
  <2>. QED BY <2>1, <2>2 DEF MsgInv
<1>10. IOInv(p)'
  BY <1>2, <1>5 DEF IOInv
<1>. QED BY <1>2, <1>3, <1>4, <1>5, <1>6, <1>9, <1>10
         DEF KeptBy, PointsKept, Shape

-----------------------------------------------------------------------------
(* The mailboxes of a process.                                             *)

Listed(p) == \A b \in mapped[p] : \E n \in DOMAIN views[p] : views[p][n] = b

(* A new connection: its view is mapped and in the list.                   *)
LEMMA ConnectedFacts ==
  ASSUME IOTypeOK, NEW p \in Procs, NEW b \in Boxes, Connected(p, b), Listed(p)
  PROVE  /\ hMailBox' \in [Procs -> SUBSET Boxes]
         /\ views' \in [Procs -> Seq(Boxes)]
         /\ mapped' \in [Procs -> SUBSET Boxes]
         /\ mapped'[p] = mapped[p] \cup {b}
         /\ Listed(p)'
         /\ \A q \in Procs \ {p} : UNCHANGED <<views[q], mapped[q]>>
<1>1. /\ hMailBox' = [hMailBox EXCEPT ![p] = hMailBox[p] \cup {b}]
      /\ mapped' = [mapped EXCEPT ![p] = mapped[p] \cup {b}]
      /\ views' = [views EXCEPT ![p] = <<b>> \o views[p]]
  BY DEF Connected, Add
<1>2. /\ hMailBox \in [Procs -> SUBSET Boxes]
      /\ views \in [Procs -> Seq(Boxes)]
      /\ mapped \in [Procs -> SUBSET Boxes]
  BY DEF IOTypeOK
<1>. DEFINE v == views[p]
            new == <<b>> \o v
<1>3. /\ new \in Seq(Boxes) /\ Len(new) = Len(v) + 1 /\ new[1] = b
      /\ \A n \in 1 .. Len(v) : new[n + 1] = v[n]
      /\ v \in Seq(Boxes) /\ Len(v) \in Nat
  BY <1>2
<1>4. DOMAIN new = 1 .. Len(v) + 1 /\ DOMAIN v = 1 .. Len(v)
  BY <1>3
<1>. HIDE DEF new
<1>5. /\ hMailBox' \in [Procs -> SUBSET Boxes]
      /\ mapped' \in [Procs -> SUBSET Boxes]
      /\ views' \in [Procs -> Seq(Boxes)]
      /\ mapped'[p] = mapped[p] \cup {b} /\ views'[p] = new
  BY <1>1, <1>2, <1>3 DEF new
<1>6. \A q \in Procs \ {p} : UNCHANGED <<views[q], mapped[q]>>
  BY <1>1, <1>2
<1>7. ASSUME NEW c \in mapped'[p]
      PROVE  \E n \in DOMAIN new : new[n] = c
  <2>1. CASE c = b
    BY <1>3, <1>4, <2>1
  <2>2. CASE c \in mapped[p]
    <3>1. PICK n \in 1 .. Len(v) : v[n] = c
      BY <1>4, <2>2 DEF Listed
    <3>2. n + 1 \in 1 .. Len(v) + 1
      BY <1>3, <3>1
    <3>. QED BY <1>3, <1>4, <3>1, <3>2
  <2>. QED BY <1>5, <1>7, <2>1, <2>2
<1>. QED BY <1>5, <1>6, <1>7 DEF Listed

(* A pass of the loop of ~SharedMemoryIO: the view at the tail is no more  *)
(* mapped, and the others are still in the list.                           *)
LEMMA UnmapFacts ==
  ASSUME IOTypeOK, NEW p \in Procs, UnmapTail(p), Listed(p)
  PROVE  /\ IOTypeOK' \/ ~UNCHANGED <<mailbox, serverBuf, readBuffer>>
         /\ Listed(p)'
         /\ IsLastNode(p) => mapped'[p] = {}
         /\ \A q \in Procs \ {p} : UNCHANGED <<views[q], mapped[q]>>
<1>. DEFINE v == views[p]
            len == Len(v)
            last == v[len]
            front == SubSeq(v, 1, len - 1)
<1>1. /\ mapped' = [mapped EXCEPT ![p] = mapped[p] \ {last}]
      /\ views' = IF len = 1 THEN views ELSE [views EXCEPT ![p] = front]
      /\ hMailBox' = hMailBox
  BY DEF UnmapTail, RemoveTail, IsLastNode, PeekTail
<1>2. /\ views \in [Procs -> Seq(Boxes)] /\ v \in Seq(Boxes)
      /\ mapped \in [Procs -> SUBSET Boxes]
      /\ len \in Nat /\ DOMAIN v = 1 .. len
  BY DEF IOTypeOK
<1>3. /\ front \in Seq(Boxes)
      /\ len > 0 => /\ DOMAIN front = 1 .. len - 1
                    /\ \A n \in 1 .. len - 1 : front[n] = v[n]
  BY <1>2
<1>. HIDE DEF last, front
<1>4. /\ views' \in [Procs -> Seq(Boxes)]
      /\ views'[p] = IF len = 1 THEN v ELSE front
  BY <1>1, <1>2, <1>3
<1>5. /\ mapped' \in [Procs -> SUBSET Boxes]
      /\ mapped'[p] = mapped[p] \ {last}
  BY <1>1, <1>2
<1>6. IOTypeOK' \/ ~UNCHANGED <<mailbox, serverBuf, readBuffer>>
  BY <1>1, <1>4, <1>5 DEF IOTypeOK
<1>7. ASSUME NEW c \in mapped'[p]
      PROVE  len # 1 /\ \E n \in DOMAIN front : front[n] = c
  <2>1. PICK n \in 1 .. len : v[n] = c
    BY <1>2, <1>5, <1>7 DEF Listed
  <2>2. n # len
    BY <1>5, <1>7, <2>1 DEF last
  <2>. HIDE DEF len
  <2>3. n \in 1 .. len - 1 /\ len > 0 /\ len # 1
    BY <1>2, <2>1, <2>2
  <2>. QED BY <1>3, <2>1, <2>3
<1>8. Listed(p)'
  BY <1>4, <1>7 DEF Listed
<1>9. IsLastNode(p) => mapped'[p] = {}
  BY <1>7 DEF IsLastNode
<1>10. \A q \in Procs \ {p} : UNCHANGED <<views[q], mapped[q]>>
  BY <1>1, <1>2
<1>. QED BY <1>6, <1>8, <1>9, <1>10

-----------------------------------------------------------------------------
(* The steps of the window's thread outside ReadTweets, and of its user.   *)

LEMMA NoListKept ==
  ASSUME Shape, NEW p \in Procs, MsgInv(p), PointsKept(p), UNCHANGED listVars,
         UNCHANGED <<shown, again>>,
         monitor'[p] = monitor[p]
           \/ (monitor[p] \notin Putting /\ monitor'[p] \notin Putting),
         window'[p] = window[p]
           \/ (window[p] \notin Getting /\ window'[p] \notin Getting),
         IOTypeOK', WindowShape', IOInv(p)',
         \A q \in Procs \ {p} : UNCHANGED IOOf(q)
  PROVE  KeptBy(p)
<1>1. /\ ListShape' /\ MsgInv(p)'
      /\ \A q \in Procs : UNCHANGED ListOf(q)
  BY NoList
<1>. QED BY <1>1 DEF KeptBy, PointsKept, Shape

(* What i may be, and the boxes.                                           *)
LEMMA BoxFacts ==
  ASSUME Shape, NEW p \in Procs
  PROVE  /\ IOTypeOK /\ WindowShape
         /\ i[p] \in 0 .. MAXBOX /\ MAXBOX \in Nat
         /\ \A n \in Nat : n < MAXBOX <=> n \in Boxes
         /\ NoBox \notin Boxes /\ NO_DATA \notin Boxes
         /\ thisMailslot[p] \in Boxes \cup {NoBox}
         /\ Boxes \subseteq 0 .. MAXBOX
BY TwitterAssumption DEF Shape, WindowShape, Boxes, NoBox, NO_DATA

LEMMA StartKeeps ==
  ASSUME Shape, NEW p \in Procs, MsgInv(p), IOInv(p), Start(p)
  PROVE  KeptBy(p)
<1>1. /\ PointsKept(p) /\ UNCHANGED monitor
      /\ window[p] = "off" /\ window'[p] = "open"
  BY GotoFacts DEF Start, WindowPoints
<1>2. /\ starts[p] < MaxStarts[p]
      /\ starts' = [starts EXCEPT ![p] = starts[p] + 1]
      /\ UNCHANGED <<listVars, ioVars, i, left, thisMailslot, tweets, shown,
                     again>>
  BY DEF Start
<1>3. UNCHANGED <<mailbox, hMailBox, views, mapped, serverBuf, readBuffer>>
  BY <1>2 DEF ioVars, connections
<1>4. WindowShape'
  <2>1. WindowShape /\ starts[p] \in Nat /\ MaxStarts[p] \in Nat
    BY BoxFacts, TwitterAssumption DEF WindowShape
  <2>2. /\ starts' \in [Procs -> Nat]
        /\ \A q \in Procs : starts'[q] <= MaxStarts[q]
    BY <1>2, <2>1 DEF WindowShape
  <2>. QED BY <1>2, <2>1, <2>2 DEF WindowShape
<1>5. IOTypeOK' /\ IOInv(p)'
  BY <1>1, <1>2, <1>3, BoxFacts DEF IOInv, IOTypeOK
<1>6. \A q \in Procs : UNCHANGED IOOf(q)
  BY <1>2, <1>3 DEF IOOf
<1>7. /\ monitor'[p] = monitor[p]
      /\ window[p] \notin Getting /\ window'[p] \notin Getting
      /\ UNCHANGED listVars /\ UNCHANGED <<shown, again>>
  BY <1>1, <1>2 DEF Getting
<1>. QED BY <1>1, <1>4, <1>5, <1>6, <1>7, NoListKept

LEMMA OpenMailboxKeeps ==
  ASSUME Shape, NEW p \in Procs, MsgInv(p), IOInv(p), OpenMailbox(p)
  PROVE  KeptBy(p)
<1>1. /\ window[p] = "open" /\ i[p] < MAXBOX /\ Connected(p, i[p])
      /\ i' = [i EXCEPT ![p] = i[p] + 1]
      /\ UNCHANGED <<monitor, window, listVars, mailbox, serverBuf, readBuffer,
                     left, thisMailslot, tweets, starts, shown, again>>
  BY DEF OpenMailbox, myCreateFile, Index
<1>2. i[p] \in Boxes /\ i[p] + 1 \in 0 .. MAXBOX
  BY <1>1, BoxFacts
<1>3. i' \in [Procs -> 0 .. MAXBOX] /\ WindowShape'
  BY <1>1, <1>2, BoxFacts DEF WindowShape
<1>4. Listed(p)
  BY DEF IOInv, Listed
<1>5. /\ hMailBox' \in [Procs -> SUBSET Boxes]
      /\ views' \in [Procs -> Seq(Boxes)]
      /\ mapped' \in [Procs -> SUBSET Boxes]
      /\ Listed(p)'
      /\ \A q \in Procs \ {p} : UNCHANGED <<views[q], mapped[q]>>
  BY <1>1, <1>2, <1>4, BoxFacts, ConnectedFacts
<1>6. IOTypeOK'
  BY <1>1, <1>5, BoxFacts DEF IOTypeOK
<1>7. IOInv(p)'
  BY <1>1, <1>5 DEF IOInv, Listed
<1>8. PointsKept(p)
  BY <1>1, Types DEF PointsKept, Points
<1>9. \A q \in Procs \ {p} : UNCHANGED IOOf(q)
  BY <1>1, <1>5, BoxFacts DEF IOOf, WindowShape
<1>. QED BY <1>1, <1>3, <1>6, <1>7, <1>8, <1>9, NoListKept

LEMMA CreateKeeps ==
  ASSUME Shape, NEW p \in Procs, MsgInv(p), IOInv(p), Create(p)
  PROVE  KeptBy(p)
<1>1. /\ PointsKept(p) /\ UNCHANGED monitor
      /\ window[p] = "create" /\ window'[p] = "empty"
  BY GotoFacts DEF Create, WindowPoints
<1>2. /\ Connected(p, i[p])
      /\ mailbox' = IF Exists(i[p]) THEN mailbox
                    ELSE [mailbox EXCEPT ![i[p]] = 0]
      /\ UNCHANGED <<serverBuf, readBuffer, listVars, i, left, thisMailslot,
                     tweets, starts, shown, again>>
  BY DEF Create, CreateMapping, windowVars
<1>3. i[p] \in Boxes /\ Listed(p)
  BY <1>1 DEF IOInv, Listed
<1>4. /\ hMailBox' \in [Procs -> SUBSET Boxes]
      /\ views' \in [Procs -> Seq(Boxes)]
      /\ mapped' \in [Procs -> SUBSET Boxes]
      /\ mapped'[p] = mapped[p] \cup {i[p]} /\ Listed(p)'
      /\ \A q \in Procs \ {p} : UNCHANGED <<views[q], mapped[q]>>
  BY <1>2, <1>3, BoxFacts, ConnectedFacts
<1>5. mailbox' \in [Boxes -> Boxes \cup {NO_DATA}]
  <2>1. 0 \in Boxes
    BY TwitterAssumption DEF Boxes
  <2>. QED BY <1>2, <2>1, BoxFacts DEF IOTypeOK
<1>6. IOTypeOK' /\ WindowShape'
  BY <1>2, <1>4, <1>5, BoxFacts DEF IOTypeOK, WindowShape
<1>7. IOInv(p)'
  BY <1>1, <1>2, <1>3, <1>4 DEF IOInv, Listed
<1>8. \A q \in Procs \ {p} : UNCHANGED IOOf(q)
  BY <1>2, <1>4 DEF IOOf
<1>. QED BY <1>1, <1>2, <1>6, <1>7, <1>8, NoListKept DEF Getting

LEMMA CreatedKeeps ==
  ASSUME Shape, NEW p \in Procs, MsgInv(p), IOInv(p), Created(p)
  PROVE  KeptBy(p)
<1>1. /\ window[p] = "empty" /\ window' = [window EXCEPT ![p] = "hello"]
      /\ monitor' = [monitor EXCEPT ![p] = "test"]
      /\ serverBuf' = [serverBuf EXCEPT ![p] = i[p]]
      /\ mailbox' = [mailbox EXCEPT ![i[p]] = NO_DATA]
      /\ thisMailslot' = [thisMailslot EXCEPT ![p] = i[p]]
      /\ i' = [i EXCEPT ![p] = 0]
      /\ UNCHANGED <<hMailBox, views, mapped, readBuffer, listVars, left,
                     tweets, starts, shown, again>>
  BY DEF Created, EmptyNewMailbox, Index, connections
<1>2. i[p] \in Boxes /\ i[p] \in mapped[p] /\ monitor[p] = "off"
  BY <1>1 DEF IOInv
<1>3. PointsKept(p) /\ window'[p] = "hello" /\ monitor'[p] = "test"
  BY <1>1, Types DEF PointsKept, Points, WindowPoints, MonitorPoints
<1>4. IOTypeOK'
  BY <1>1, <1>2, BoxFacts DEF IOTypeOK
<1>5. WindowShape'
  <2>1. 0 \in 0 .. MAXBOX
    BY BoxFacts
  <2>. QED BY <1>1, <1>2, <2>1, BoxFacts DEF WindowShape
<1>6. serverBuf'[p] = i[p] /\ thisMailslot'[p] = i[p]
  BY <1>1, BoxFacts DEF IOTypeOK, WindowShape
<1>7. IOInv(p)'
  BY <1>1, <1>2, <1>3, <1>6 DEF IOInv
<1>8. \A q \in Procs \ {p} : UNCHANGED IOOf(q)
  BY <1>1, BoxFacts DEF IOOf, IOTypeOK, WindowShape
<1>. QED BY <1>1, <1>2, <1>3, <1>4, <1>5, <1>7, <1>8, NoListKept
         DEF Getting, Putting

(* A step to another point at which nothing but i and a tweet may change.  *)
LEMMA PointKeeps ==
  ASSUME Shape, NEW p \in Procs, MsgInv(p), IOInv(p),
         UNCHANGED <<listVars, ioVars, thisMailslot, starts, shown, again>>,
         WindowShape', PointsKept(p), UNCHANGED monitor,
         \A q \in Procs \ {p} : UNCHANGED i[q],
         \/ window[p] = "open" /\ window'[p] = "create" /\ i'[p] \in Boxes
         \/ /\ window[p] \in {"open", "hello", "tweet"}
            /\ window'[p] = "idle"
         \/ /\ window[p] = "idle" /\ window'[p] = "tweet"
            /\ thisMailslot[p] # NoBox
         \/ window[p] = "lists" /\ window'[p] = "end"
  PROVE  KeptBy(p)
<1>1. UNCHANGED <<mailbox, hMailBox, views, mapped, serverBuf, readBuffer>>
  BY DEF ioVars, connections
<1>2. IOTypeOK'
  BY <1>1, BoxFacts DEF IOTypeOK
<1>3. IOInv(p)'
  BY <1>1, BoxFacts DEF IOInv, Exiting
<1>4. \A q \in Procs \ {p} : UNCHANGED IOOf(q)
  BY <1>1 DEF IOOf
<1>5. window[p] \notin Getting /\ window'[p] \notin Getting
  BY DEF Getting
<1>6. UNCHANGED listVars /\ UNCHANGED <<shown, again>>
      /\ monitor'[p] = monitor[p]
  OBVIOUS
<1>. QED BY <1>2, <1>3, <1>4, <1>5, <1>6, NoListKept

LEMMA OpenFailsKeeps ==
  ASSUME Shape, NEW p \in Procs, MsgInv(p), IOInv(p),
         OpenFails(p) \/ NoMailbox(p) \/ DeleteLists(p)
  PROVE  KeptBy(p)
<1>1. /\ UNCHANGED <<listVars, ioVars, i, left, thisMailslot, tweets, starts,
                     shown, again>>
      /\ OpenFails(p) => i[p] < MAXBOX
  BY DEF OpenFails, NoMailbox, DeleteLists, windowVars
<1>2. /\ PointsKept(p) /\ UNCHANGED monitor
      /\ \/ window[p] = "open" /\ window'[p] = "create" /\ OpenFails(p)
         \/ window[p] = "open" /\ window'[p] = "idle"
         \/ window[p] = "lists" /\ window'[p] = "end"
  BY GotoFacts DEF OpenFails, NoMailbox, DeleteLists, WindowPoints, Exiting
<1>3. WindowShape'
  BY <1>1, BoxFacts DEF WindowShape
<1>4. OpenFails(p) => i'[p] \in Boxes
  BY <1>1, BoxFacts
<1>5. \A q \in Procs \ {p} : UNCHANGED i[q]
  BY <1>1
<1>. QED BY <1>1, <1>2, <1>3, <1>4, <1>5, PointKeeps

LEMMA DoneKeeps ==
  ASSUME Shape, NEW p \in Procs, MsgInv(p), IOInv(p),
         HelloDone(p) \/ TweetDone(p)
  PROVE  KeptBy(p)
<1>1. /\ UNCHANGED <<listVars, ioVars, left, thisMailslot, tweets, starts,
                     shown, again>>
      /\ i' = [i EXCEPT ![p] = 0]
  BY DEF HelloDone, TweetDone, Index
<1>2. /\ PointsKept(p) /\ UNCHANGED monitor
      /\ window[p] \in {"hello", "tweet"} /\ window'[p] = "idle"
  BY GotoFacts DEF HelloDone, TweetDone, WindowPoints
<1>3. WindowShape'
  BY <1>1, BoxFacts DEF WindowShape
<1>4. \A q \in Procs \ {p} : UNCHANGED i[q]
  BY <1>1, BoxFacts DEF WindowShape
<1>. QED BY <1>1, <1>2, <1>3, <1>4, PointKeeps

LEMMA TweetKeeps ==
  ASSUME Shape, NEW p \in Procs, MsgInv(p), IOInv(p), NEW b \in Boxes,
         Tweet(p, b)
  PROVE  KeptBy(p)
<1>1. /\ UNCHANGED <<listVars, ioVars, thisMailslot, starts, shown, again>>
      /\ thisMailslot[p] # NoBox /\ tweets[p] < MaxTweets[p]
      /\ i' = [i EXCEPT ![p] = b] /\ left' = [left EXCEPT ![p] = Writes]
      /\ tweets' = [tweets EXCEPT ![p] = tweets[p] + 1]
  BY DEF Tweet, Index
<1>2. /\ PointsKept(p) /\ UNCHANGED monitor
      /\ window[p] = "idle" /\ window'[p] = "tweet"
  BY GotoFacts DEF Tweet, WindowPoints
<1>3. WindowShape'
  <2>1. b \in 0 .. MAXBOX /\ Writes \in 0 .. Writes
    BY BoxFacts, TwitterAssumption
  <2>2. i' \in [Procs -> 0 .. MAXBOX] /\ left' \in [Procs -> 0 .. Writes]
    BY <1>1, <2>1, BoxFacts DEF WindowShape
  <2>3. tweets[p] \in Nat /\ MaxTweets[p] \in Nat
    BY BoxFacts, TwitterAssumption DEF WindowShape
  <2>4. /\ tweets' \in [Procs -> Nat]
        /\ \A q \in Procs : tweets'[q] <= MaxTweets[q]
    BY <1>1, <2>3, BoxFacts DEF WindowShape
  <2>. QED BY <1>1, <2>2, <2>4, BoxFacts DEF WindowShape
<1>4. \A q \in Procs \ {p} : UNCHANGED i[q]
  BY <1>1, BoxFacts DEF WindowShape
<1>. QED BY <1>1, <1>2, <1>3, <1>4, PointKeeps

(* myWriteFile changes a mailbox and nothing of a process.                 *)
LEMMA WriteKeeps ==
  ASSUME Shape, NEW p \in Procs, MsgInv(p), IOInv(p), Hello(p) \/ WriteTweet(p)
  PROVE  KeptBy(p)
<1>1. /\ UNCHANGED <<monitor, window, listVars, hMailBox, views, mapped,
                     serverBuf, readBuffer, thisMailslot, tweets, starts,
                     shown, again>>
      /\ window[p] \in {"hello", "tweet"}
  BY DEF Hello, WriteTweet, connections
<1>2. \/ mailbox' = mailbox
      \/ \E b \in hMailBox[p] :
           mailbox' = [mailbox EXCEPT ![b] = thisMailslot[p]]
  BY DEF Hello, WriteTweet, myWriteFile
<1>3. /\ i' \in [Procs -> 0 .. MAXBOX] /\ left' \in [Procs -> 0 .. Writes]
      /\ \A q \in Procs \ {p} : UNCHANGED i[q]
  <2>1. CASE Hello(p)
    <3>1. i' = [i EXCEPT ![p] = i[p] + 1] /\ left' = left /\ i[p] < MAXBOX
      BY <2>1 DEF Hello, Index
    <3>2. i[p] + 1 \in 0 .. MAXBOX
      BY <3>1, BoxFacts
    <3>. QED BY <3>1, <3>2, BoxFacts DEF WindowShape
  <2>2. CASE WriteTweet(p)
    <3>1. left' = [left EXCEPT ![p] = left[p] - 1] /\ i' = i /\ left[p] > 0
      BY <2>2 DEF WriteTweet
    <3>2. left[p] - 1 \in 0 .. Writes
      BY <3>1, BoxFacts, TwitterAssumption DEF WindowShape
    <3>. QED BY <3>1, <3>2, BoxFacts DEF WindowShape
  <2>. QED BY <2>1, <2>2
<1>4. WindowShape'
  BY <1>1, <1>3, BoxFacts DEF WindowShape
<1>5. IOTypeOK'
  <2>1. thisMailslot[p] \in Boxes
    BY <1>1 DEF IOInv
  <2>2. mailbox' \in [Boxes -> Boxes \cup {NO_DATA}]
    BY <1>2, <2>1, BoxFacts DEF IOTypeOK
  <2>. QED BY <1>1, <2>2, BoxFacts DEF IOTypeOK
<1>6. IOInv(p)'
  BY <1>1 DEF IOInv
<1>7. \A q \in Procs \ {p} : UNCHANGED IOOf(q)
  BY <1>1, <1>3 DEF IOOf
<1>8. PointsKept(p)
  BY <1>1, Types DEF PointsKept, Points
<1>. QED BY <1>1, <1>4, <1>5, <1>6, <1>7, <1>8, NoListKept

LEMMA ExitKeeps ==
  ASSUME Shape, NEW p \in Procs, MsgInv(p), IOInv(p), Exit(p)
  PROVE  KeptBy(p)
<1>1. /\ PointsKept(p) /\ UNCHANGED monitor
      /\ window[p] = "idle" /\ window'[p] = "exit"
  BY GotoFacts DEF Exit, WindowPoints, Exiting
<1>2. /\ UNCHANGED <<listVars, mailbox, views, mapped, serverBuf, readBuffer,
                     i, left, thisMailslot, tweets, starts, shown, again>>
      /\ hMailBox' = [hMailBox EXCEPT ![p] = hMailBox[p] \ {serverBuf[p]}]
  BY DEF Exit, CloseMailslot, windowVars
<1>3. IOTypeOK' /\ WindowShape'
  BY <1>2, BoxFacts DEF IOTypeOK, WindowShape
<1>4. IOInv(p)'
  BY <1>1, <1>2 DEF IOInv, Exiting
<1>5. \A q \in Procs \ {p} : UNCHANGED IOOf(q)
  BY <1>2 DEF IOOf
<1>. QED BY <1>1, <1>2, <1>3, <1>4, <1>5, NoListKept DEF Getting

LEMMA UnmapKeeps ==
  ASSUME Shape, NEW p \in Procs, MsgInv(p), IOInv(p), Unmap(p)
  PROVE  KeptBy(p)
<1>1. /\ PointsKept(p) /\ UNCHANGED monitor /\ window[p] = "exit"
      /\ window'[p] = IF IsLastNode(p) THEN "lists" ELSE "exit"
  <2>1. (IF IsLastNode(p) THEN "lists" ELSE "exit") \in WindowPoints
    BY DEF WindowPoints, Exiting
  <2>. QED BY <2>1, GotoFacts DEF Unmap
<1>2. /\ UNCHANGED <<listVars, mailbox, serverBuf, readBuffer, i, left,
                     thisMailslot, tweets, starts, shown, again>>
      /\ UnmapTail(p)
  BY DEF Unmap, windowVars
<1>3. /\ IOTypeOK' /\ Listed(p)'
      /\ IsLastNode(p) => mapped'[p] = {}
      /\ \A q \in Procs \ {p} : UNCHANGED <<views[q], mapped[q]>>
  <2>1. Listed(p)
    BY DEF IOInv, Listed
  <2>. QED BY <1>2, <2>1, BoxFacts, UnmapFacts
<1>4. WindowShape'
  BY <1>2, BoxFacts DEF WindowShape
<1>5. IOInv(p)'
  BY <1>1, <1>3 DEF IOInv, Listed, Exiting
<1>6. \A q \in Procs \ {p} : UNCHANGED IOOf(q)
  BY <1>2, <1>3 DEF IOOf
<1>7. window[p] \notin Getting /\ window'[p] \notin Getting
  BY <1>1 DEF Getting
<1>. QED BY <1>1, <1>2, <1>3, <1>4, <1>5, <1>6, <1>7, NoListKept

-----------------------------------------------------------------------------
(* ReadTweets, and the monitor thread.                                     *)

(* A step that uses the list and leaves the mailboxes alone, or moves its  *)
(* thread around them.                                                     *)
LEMMA ListKept ==
  ASSUME Shape, NEW p \in Procs, IOInv(p), PointsKept(p),
         ListShape', MsgInv(p)', \A q \in Procs \ {p} : UNCHANGED ListOf(q),
         UNCHANGED <<ioVars, windowVars>>,
         monitor'[p] = monitor[p]
           \/ (monitor[p] # "off" /\ window[p] # "empty"),
         window'[p] = window[p]
           \/ {window[p], window'[p]} \subseteq Getting \cup {"idle"}
  PROVE  KeptBy(p)
<1>1. /\ UNCHANGED <<mailbox, hMailBox, views, mapped, serverBuf, readBuffer>>
      /\ UNCHANGED <<i, left, thisMailslot, tweets, starts, shown, again>>
  BY DEF ioVars, connections, windowVars
<1>2. IOTypeOK' /\ WindowShape'
  BY <1>1, BoxFacts DEF IOTypeOK, WindowShape
<1>3. \A q \in Procs : UNCHANGED IOOf(q)
  BY <1>1 DEF IOOf
<1>4. IOInv(p)'
  BY <1>3, IOStays
<1>. QED BY <1>2, <1>3, <1>4 DEF KeptBy, PointsKept, Shape

LEMMA GetStepKeeps ==
  ASSUME Shape, NEW p \in Procs, MsgInv(p), IOInv(p), ReadTweets(p) \/ Get(p)
  PROVE  KeptBy(p)
<1>1. /\ ListShape' /\ MsgInv(p)'
      /\ \A q \in Procs \ {p} : UNCHANGED ListOf(q)
  BY ReadTweetsKeeps, GetKeeps
<1>2. UNCHANGED <<ioVars, windowVars>>
  BY DEF ReadTweets, Get
<1>3. PointsKept(p) /\ monitor'[p] = monitor[p]
      /\ {window[p], window'[p]} \subseteq Getting \cup {"idle"}
  <2>1. CASE ReadTweets(p)
    BY <2>1, GotoFacts DEF ReadTweets, WindowPoints, Getting
  <2>2. CASE GetCopy(p) \/ GetLoad(p) \/ GetStore(p) \/ GetDelete(p)
    BY <2>2, GotoFacts
       DEF GetCopy, GetLoad, GetStore, GetDelete, WindowPoints, Getting
  <2>3. CASE GetAdvance(p)
    BY <2>3, GotoFacts DEF GetAdvance, WindowPoints, Getting
  <2>. QED BY <2>1, <2>2, <2>3 DEF Get
<1>. QED BY <1>1, <1>2, <1>3, ListKept

LEMMA ConnectKeeps ==
  ASSUME Shape, NEW p \in Procs, MsgInv(p), IOInv(p), Connect(p)
  PROVE  KeptBy(p)
<1>. DEFINE from == Msg[p][tmp[p]]
<1>1. /\ ListShape' /\ MsgInv(p)'
      /\ \A q \in Procs \ {p} : UNCHANGED ListOf(q)
      /\ shown' \in [Procs -> Nat] /\ again' \in [Procs -> Nat]
  BY ConnectShows
<1>2. /\ PointsKept(p) /\ monitor'[p] = monitor[p]
      /\ window[p] = "connect" /\ window'[p] = "idle"
  BY GotoFacts DEF Connect, WindowPoints
<1>3. UNCHANGED <<mailbox, serverBuf, readBuffer, i, left, thisMailslot,
                  tweets, starts>>
  BY DEF Connect
<1>4. \/ UNCHANGED <<hMailBox, views, mapped>>
      \/ from \in Boxes /\ Connected(p, from)
  BY DEF Connect, myCreateFile, connections
<1>. HIDE DEF from
<1>5. /\ hMailBox' \in [Procs -> SUBSET Boxes]
      /\ views' \in [Procs -> Seq(Boxes)]
      /\ mapped' \in [Procs -> SUBSET Boxes]
      /\ mapped[p] \subseteq mapped'[p] /\ Listed(p)'
      /\ \A q \in Procs \ {p} : UNCHANGED <<views[q], mapped[q]>>
  <2>1. IOTypeOK /\ Listed(p)
    BY BoxFacts DEF IOInv, Listed
  <2>2. CASE UNCHANGED <<hMailBox, views, mapped>>
    BY <2>1, <2>2 DEF IOTypeOK, Listed
  <2>3. CASE from \in Boxes /\ Connected(p, from)
    BY <2>1, <2>3, ConnectedFacts
  <2>. QED BY <1>4, <2>2, <2>3
<1>6. IOTypeOK' /\ WindowShape'
  BY <1>1, <1>3, <1>5, BoxFacts DEF IOTypeOK, WindowShape
<1>7. IOInv(p)'
  BY <1>2, <1>3, <1>5 DEF IOInv, Listed, Exiting
<1>8. \A q \in Procs \ {p} : UNCHANGED IOOf(q)
  BY <1>3, <1>5 DEF IOOf
<1>. QED BY <1>1, <1>2, <1>6, <1>7, <1>8 DEF KeptBy, PointsKept, Shape

LEMMA MonitorPutKeeps ==
  ASSUME Shape, NEW p \in Procs, MsgInv(p), IOInv(p), MonitorPut(p),
         UNCHANGED windowVars
  PROVE  KeptBy(p)
<1>1. UNCHANGED ioVars /\ UNCHANGED <<shown, again>>
  BY DEF MonitorPut, windowVars
<1>2. readBuffer[p] \in Boxes \cup {NO_DATA}
  BY BoxFacts DEF IOTypeOK
<1>3. /\ ListShape' /\ MsgInv(p)'
      /\ \A q \in Procs \ {p} : UNCHANGED ListOf(q)
  BY <1>1, <1>2, PutLinkKeeps, PutTailKeeps, PutCountKeeps DEF MonitorPut
<1>4. PointsKept(p) /\ window'[p] = window[p] /\ monitor[p] # "off"
  BY GotoFacts
     DEF MonitorPut, PutLink, PutTail, PutLoad, PutStore, MonitorPoints
<1>5. window[p] # "empty"
  BY <1>4 DEF IOInv
<1>6. UNCHANGED <<ioVars, windowVars>>
  BY <1>1
<1>. QED BY <1>3, <1>4, <1>5, <1>6, ListKept

(* The other steps of the thread.                                          *)
LEMMA MonitorLoopKeeps ==
  ASSUME Shape, NEW p \in Procs, MsgInv(p), IOInv(p), UNCHANGED windowVars,
         MonitorTest(p) \/ MonitorRead(p) \/ MonitorClear(p) \/ MonitorStop(p)
  PROVE  KeptBy(p)
<1>1. /\ UNCHANGED listVars /\ UNCHANGED <<hMailBox, views, mapped, serverBuf>>
      /\ UNCHANGED <<i, left, thisMailslot, tweets, starts, shown, again>>
  BY DEF MonitorTest, MonitorRead, MonitorClear, MonitorStop, ioVars,
         connections, windowVars
<1>2. /\ PointsKept(p) /\ UNCHANGED window
      /\ monitor[p] \in {"test", "read", "clear"}
      /\ monitor'[p] \in {"test", "read", "link", "off"}
  <2>1. CASE MonitorRead(p)
    BY <2>1, GotoFacts DEF MonitorRead, MonitorPoints
  <2>2. CASE MonitorTest(p) \/ MonitorClear(p) \/ MonitorStop(p)
    BY <2>2, GotoFacts DEF MonitorTest, MonitorClear, MonitorStop, MonitorPoints
  <2>. QED BY <2>1, <2>2
<1>3. IOTypeOK'
  <2>1. IOTypeOK
    BY BoxFacts
  <2>2. CASE MonitorTest(p) \/ MonitorStop(p)
    BY <1>1, <2>1, <2>2 DEF MonitorTest, MonitorStop, IOTypeOK, ioVars
  <2>3. CASE MonitorRead(p)
    <3>1. serverBuf[p] \in Boxes
      BY <2>1, <2>3 DEF MonitorRead, Mapped, IOTypeOK
    <3>2. mailbox[serverBuf[p]] \in Boxes \cup {NO_DATA}
      BY <2>1, <3>1 DEF IOTypeOK
    <3>. QED BY <1>1, <2>1, <2>3, <3>2 DEF MonitorRead, IOTypeOK
  <2>4. CASE MonitorClear(p)
    BY <1>1, <2>1, <2>4 DEF MonitorClear, IOTypeOK
  <2>. QED BY <2>2, <2>3, <2>4
<1>4. WindowShape'
  BY <1>1, BoxFacts DEF WindowShape
<1>5. IOInv(p)'
  <2>1. window[p] \notin {"off", "open", "create", "empty"}
    BY <1>2 DEF IOInv
  <2>. QED BY <1>1, <1>2, <2>1 DEF IOInv, Exiting
<1>6. \A q \in Procs \ {p} : UNCHANGED IOOf(q)
  BY <1>1 DEF IOOf
<1>7. monitor[p] \notin Putting /\ monitor'[p] \notin Putting
  BY <1>2 DEF Putting
<1>. QED BY <1>1, <1>2, <1>3, <1>4, <1>5, <1>6, <1>7, NoListKept

-----------------------------------------------------------------------------
(* The invariant.                                                          *)

LEMMA TInit == Init => TInv
<1>. SUFFICES ASSUME Init PROVE TInv
  OBVIOUS
<1>1. /\ monitor = [p \in Procs |-> "off"] /\ window = [p \in Procs |-> "off"]
      /\ MsgListInit /\ IOInit
      /\ i = [p \in Procs |-> 0] /\ left = [p \in Procs |-> 0]
      /\ thisMailslot = [p \in Procs |-> NoBox]
      /\ tweets = [p \in Procs |-> 0] /\ starts = [p \in Procs |-> 0]
      /\ shown = [p \in Procs |-> 0] /\ again = [p \in Procs |-> 0]
  BY DEF Init, NULL
<1>2. /\ HeadNode = [p \in Procs |-> 0] /\ TailNode = [p \in Procs |-> 0]
      /\ Previous = [p \in Procs |-> <<>>] /\ Msg = [p \in Procs |-> <<>>]
      /\ deleted = [p \in Procs |-> {}]
      /\ count = [p \in Procs |-> 0] /\ lost = [p \in Procs |-> 0]
      /\ putCount = [p \in Procs |-> 0] /\ getCount = [p \in Procs |-> 0]
      /\ tmp = [p \in Procs |-> 0]
  BY <1>1 DEF MsgListInit, NULL
<1>3. ListShape
  BY <1>2 DEF ListShape
<1>4. IOTypeOK
  <2>1. 0 \in Boxes
    BY TwitterAssumption DEF Boxes
  <2>. QED BY <1>1, <2>1 DEF IOInit, IOTypeOK
<1>5. WindowShape
  <2>1. 0 \in 0 .. MAXBOX /\ 0 \in 0 .. Writes
    BY TwitterAssumption
  <2>2. \A p \in Procs : 0 <= MaxTweets[p] /\ 0 <= MaxStarts[p]
    BY TwitterAssumption
  <2>. QED BY <1>1, <2>1, <2>2 DEF WindowShape
<1>6. Shape
  BY <1>1, <1>3, <1>4, <1>5 DEF Shape, MonitorPoints, WindowPoints
<1>7. ASSUME NEW p \in Procs
      PROVE  MsgInv(p) /\ IOInv(p)
  <2>1. /\ monitor[p] = "off" /\ window[p] = "off"
        /\ HeadNode[p] = 0 /\ TailNode[p] = 0 /\ Previous[p] = <<>>
        /\ Msg[p] = <<>> /\ deleted[p] = {} /\ count[p] = 0
        /\ putCount[p] = 0 /\ getCount[p] = 0 /\ tmp[p] = 0 /\ lost[p] = 0
        /\ shown[p] = 0 /\ again[p] = 0
    BY <1>1, <1>2
  <2>2. Puts(p) = 0 /\ Gets(p) = 0
    BY <2>1 DEF Puts, Gets, Putting
  <2>3. TwiceLostGets(p) = 0
    BY <2>1, <2>2 DEF TwiceLostGets
  <2>4. ListInv(p) /\ TmpInv(p)
    BY <2>1 DEF ListInv, TmpInv, NULL, Getting
  <2>5. CountInv(p) /\ LateInv(p)
    BY <2>1, <2>3 DEF CountInv, LateInv
  <2>6. mapped[p] = {}
    BY <1>1 DEF IOInit
  <2>7. IOInv(p)
    BY <2>1, <2>6 DEF IOInv
  <2>. QED BY <2>4, <2>5, <2>7 DEF MsgInv
<1>. QED BY <1>6, <1>7 DEF TInv

LEMMA TStep == TInv /\ [Next]_vars => TInv'
<1>. SUFFICES ASSUME TInv, [Next]_vars PROVE TInv'
  OBVIOUS
<1>1. Shape
  BY DEF TInv
<1>2. ASSUME NEW p \in Procs, KeptBy(p) PROVE TInv'
  <2>1. ASSUME NEW q \in Procs \ {p} PROVE MsgInv(q)' /\ IOInv(q)'
    <3>1. MsgInv(q) /\ IOInv(q)
      BY DEF TInv
    <3>2. UNCHANGED Points(q) /\ UNCHANGED ListOf(q) /\ UNCHANGED IOOf(q)
      BY <1>2 DEF KeptBy
    <3>. QED BY <3>1, <3>2, Elsewhere
  <2>. QED BY <1>2, <2>1 DEF KeptBy, TInv
<1>3. ASSUME NEW p \in Procs, Window(p) PROVE KeptBy(p)
  <2>1. MsgInv(p) /\ IOInv(p)
    BY DEF TInv
  <2>2. CASE OpenMailbox(p) \/ Create(p) \/ Created(p)
    BY <1>1, <2>1, <2>2, OpenMailboxKeeps, CreateKeeps, CreatedKeeps
  <2>3. CASE OpenFails(p) \/ NoMailbox(p) \/ DeleteLists(p)
    BY <1>1, <2>1, <2>3, OpenFailsKeeps
  <2>4. CASE HelloDone(p) \/ TweetDone(p)
    BY <1>1, <2>1, <2>4, DoneKeeps
  <2>5. CASE Hello(p) \/ WriteTweet(p)
    BY <1>1, <2>1, <2>5, WriteKeeps
  <2>6. CASE ReadTweets(p) \/ Get(p)
    BY <1>1, <2>1, <2>6, GetStepKeeps
  <2>7. CASE Connect(p) \/ Unmap(p)
    BY <1>1, <2>1, <2>7, ConnectKeeps, UnmapKeeps
  <2>8. CASE Exited(p)
    BY <1>1, <2>8, EndKeeps DEF Exited
  <2>. QED BY <1>3, <2>2, <2>3, <2>4, <2>5, <2>6, <2>7, <2>8 DEF Window
<1>4. ASSUME NEW p \in Procs, MonitorStep(p) PROVE KeptBy(p)
  <2>1. MsgInv(p) /\ IOInv(p)
    BY DEF TInv
  <2>2. CASE Fault(p)
    BY <1>1, <2>2, EndKeeps DEF Fault
  <2>3. CASE Monitor(p) /\ UNCHANGED windowVars
    BY <1>1, <2>1, <2>3, MonitorPutKeeps, MonitorLoopKeeps DEF Monitor
  <2>. QED BY <1>4, <2>2, <2>3 DEF MonitorStep
<1>5. ASSUME NEW p \in Procs, User(p) PROVE KeptBy(p)
  <2>1. MsgInv(p) /\ IOInv(p)
    BY DEF TInv
  <2>2. CASE Start(p) \/ Exit(p)
    BY <1>1, <2>1, <2>2, StartKeeps, ExitKeeps
  <2>3. CASE \E b \in Boxes : Tweet(p, b)
    BY <1>1, <2>1, <2>3, TweetKeeps
  <2>4. CASE ExitWithout(p)
    BY <1>1, <2>4, EndKeeps DEF ExitWithout
  <2>. QED BY <1>5, <2>2, <2>3, <2>4 DEF User
<1>6. CASE UNCHANGED vars
  <2>1. /\ UNCHANGED <<monitor, window>>
        /\ UNCHANGED <<HeadNode, TailNode, Previous, Msg, deleted, count,
                       putCount, getCount, tmp, lost>>
        /\ UNCHANGED <<mailbox, hMailBox, views, mapped, serverBuf, readBuffer>>
        /\ UNCHANGED <<i, left, thisMailslot, tweets, starts, shown, again>>
    BY <1>6 DEF vars, listVars, nodeVars, countVars, ioVars, connections,
                windowVars
  <2>2. Shape'
    BY <1>1, <2>1 DEF Shape, ListShape, IOTypeOK, WindowShape
  <2>3. \A p \in Procs : /\ UNCHANGED Points(p) /\ UNCHANGED ListOf(p)
                         /\ UNCHANGED IOOf(p)
    BY <2>1 DEF Points, ListOf, IOOf
  <2>4. \A p \in Procs : MsgInv(p) /\ IOInv(p)
    BY DEF TInv
  <2>5. \A p \in Procs : MsgInv(p)' /\ IOInv(p)'
    BY <2>3, <2>4, Elsewhere
  <2>. QED BY <2>2, <2>5 DEF TInv
<1>. QED BY <1>2, <1>3, <1>4, <1>5, <1>6 DEF Next

LEMMA TwitterInvariant == Spec => []TInv
<1>1. TInv /\ [Next]_vars => TInv'
  BY TStep
<1>. QED BY TInit, <1>1, PTL DEF Spec

-----------------------------------------------------------------------------
(* The theorems.                                                           *)

(* Every variable keeps its type; no pointer of the list, and no message   *)
(* shown, is past the last node made.                                      *)
THEOREM TypeCorrect == Spec => []TypeOK
<1>1. ASSUME TInv PROVE TypeOK
  <2>1. Shape
    BY <1>1 DEF TInv
  <2>2. ASSUME NEW p \in Procs
        PROVE  /\ {HeadNode[p], TailNode[p], tmp[p]}
                    \subseteq {NULL} \cup Nodes(p)
               /\ \A n \in Nodes(p) : Previous[p][n] \in {NULL} \cup Nodes(p)
               /\ Len(Msg[p]) = Len(Previous[p])
               /\ deleted[p] \subseteq Nodes(p)
               /\ count[p] \in Nat /\ putCount[p] \in Nat
               /\ getCount[p] \in Nat /\ lost[p] \in Nat
               /\ shown[p] \in {NULL} \cup Nodes(p)
    <3>. DEFINE made == Len(Previous[p])
    <3>1. /\ made \in Nat /\ HeadNode[p] \in Nat /\ TailNode[p] \in Nat
          /\ tmp[p] \in Nat /\ shown[p] \in Nat /\ deleted[p] \in SUBSET Nat
          /\ count[p] \in Nat /\ putCount[p] \in Nat
          /\ getCount[p] \in Nat /\ lost[p] \in Nat
      BY <2>1, Types
    <3>2. ListInv(p) /\ TmpInv(p)
      BY <1>1 DEF TInv, MsgInv
    <3>3. /\ HeadNode[p] <= made /\ TailNode[p] <= made /\ tmp[p] <= made
          /\ shown[p] <= made /\ Len(Msg[p]) = made
      BY <3>1, <3>2, SMTT(30) DEF ListInv, TmpInv
    <3>4. \A n \in 1 .. made : Previous[p][n] = IF n = made THEN NULL ELSE n + 1
      BY <3>2 DEF ListInv
    <3>5. \A n \in deleted[p] : 1 <= n /\ n <= made
      <4>1. \A n \in deleted[p] : n \in Nat /\ 1 <= n /\ n < TailNode[p]
        BY <3>1, <3>2 DEF ListInv
      <4>. QED BY <3>1, <3>3, <4>1
    <3>6. \A n \in Nat : n <= made => n \in {NULL} \cup Nodes(p)
      BY <3>1 DEF Nodes, NULL
    <3>7. \A n \in Nodes(p) : Previous[p][n] \in {NULL} \cup Nodes(p)
      <4>1. \A n \in 1 .. made : n # made => n + 1 \in Nat /\ n + 1 <= made
        BY <3>1
      <4>. QED BY <3>4, <3>6, <4>1 DEF Nodes
    <3>. QED BY <3>1, <3>3, <3>5, <3>6, <3>7 DEF Nodes
  <2>3. MsgListTypeOK
    BY <2>2 DEF MsgListTypeOK
  <2>4. \A p \in Procs : tweets[p] \in 0 .. MaxTweets[p]
                           /\ starts[p] \in 0 .. MaxStarts[p]
    <3>1. \A p \in Procs : /\ tweets[p] \in Nat /\ starts[p] \in Nat
                           /\ tweets[p] <= MaxTweets[p]
                           /\ starts[p] <= MaxStarts[p]
      BY <2>1 DEF Shape, WindowShape
    <3>2. \A p \in Procs : MaxTweets[p] \in Nat /\ MaxStarts[p] \in Nat
      BY TwitterAssumption
    <3>. QED
      <4>. SUFFICES ASSUME NEW p \in Procs
                    PROVE  /\ tweets[p] \in 0 .. MaxTweets[p]
                           /\ starts[p] \in 0 .. MaxStarts[p]
        OBVIOUS
      <4>. QED BY <3>1, <3>2
  <2>. QED BY <2>1, <2>2, <2>3, <2>4 DEF TypeOK, Shape, WindowShape
<1>2. TInv => TypeOK
  BY <1>1
<1>. QED BY TwitterInvariant, <1>2, PTL

(* Without a lock, Put and Get never use a node that Get has deleted.      *)
THEOREM NodesStayAlive == Spec => []NodesAlive
<1>1. ASSUME TInv PROVE NodesAlive
  <2>. SUFFICES ASSUME NEW p \in Procs
                PROVE  /\ monitor[p] = "link" => HeadNode[p] \notin deleted[p]
                       /\ window[p] \in {"get", "advance", "delete"} =>
                            TailNode[p] \notin deleted[p] \cup {NULL}
    BY DEF NodesAlive
  <2>1. /\ HeadNode[p] \in Nat /\ TailNode[p] \in Nat
        /\ deleted[p] \in SUBSET Nat /\ Len(Previous[p]) \in Nat
    BY <1>1, Types DEF TInv
  <2>2. ListInv(p)
    BY <1>1 DEF TInv, MsgInv
  <2>3. \A n \in deleted[p] : n < TailNode[p]
    BY <2>1, <2>2 DEF ListInv
  <2>4. monitor[p] = "link" => TailNode[p] <= HeadNode[p]
    BY <2>1, <2>2 DEF ListInv
  <2>. QED BY <2>1, <2>2, <2>3, <2>4 DEF ListInv, Getting
<1>2. TInv => NodesAlive
  BY <1>1
<1>. QED BY TwitterInvariant, <1>2, PTL

(* The monitor thread faults only once the exit has begun.                 *)
THEOREM FaultsAtExit == Spec => []FaultsOnlyInExit
<1>1. TInv => FaultsOnlyInExit
  BY DEF TInv, IOInv, FaultsOnlyInExit, AccessFails, Mapped, Exiting
<1>. QED BY TwitterInvariant, <1>1, PTL

(* The loop of ~SharedMemoryIO leaves no view mapped, whatever connections *)
(* there were and although one mailbox may have several views.             *)
THEOREM ViewsUnmapped == Spec => []AllUnmapped
<1>1. TInv => AllUnmapped
  BY DEF TInv, IOInv, AllUnmapped
<1>. QED BY TwitterInvariant, <1>1, PTL

(* However Put and Get interleave, each lost update of count makes the     *)
(* window at most one message later.                                       *)
THEOREM AtMostOneLate == Spec => []OneMessageLate
<1>1. ASSUME TInv PROVE OneMessageLate
  <2>. SUFFICES ASSUME NEW p \in Procs
                PROVE  /\ again[p] <= 1 + lost[p]
                       /\ Quiet(p) /\ count[p] = 0 =>
                            Len(Previous[p]) <= shown[p] + 1 + lost[p]
    BY DEF OneMessageLate
  <2>1. /\ Len(Previous[p]) \in Nat /\ count[p] \in Nat /\ lost[p] \in Nat
        /\ shown[p] \in Nat /\ again[p] \in Nat
        /\ Puts(p) \in Int /\ Gets(p) \in Int /\ TwiceLostGets(p) \in Int
    BY <1>1, Types DEF TInv
  <2>2. CountInv(p) /\ LateInv(p)
    BY <1>1 DEF TInv, MsgInv
  <2>3. again[p] <= 1 + lost[p] /\ 2 * again[p] <= 2 + TwiceLostGets(p)
    BY <2>1, <2>2 DEF CountInv, LateInv
  <2>4. ASSUME Quiet(p), count[p] = 0
        PROVE  Len(Previous[p]) <= shown[p] + 1 + lost[p]
    <3>1. Puts(p) = Len(Previous[p]) /\ Gets(p) = shown[p] + again[p]
      BY <2>4 DEF Quiet, Puts, Gets, Putting
    <3>2. TwiceLostGets(p) = lost[p] - Len(Previous[p]) + shown[p] + again[p]
      BY <2>1, <2>4, <3>1, SMTT(30) DEF TwiceLostGets
    <3>3. TwiceLostGets(p) >= 0
      BY <2>2 DEF CountInv
    <3>. DEFINE made == Len(Previous[p])
                late == made - shown[p] - again[p]
    <3>4. TwiceLostGets(p) = lost[p] - late
      BY <2>1, <3>2
    <3>. HIDE DEF late
    <3>5. late \in Int
      BY <2>1 DEF late
    <3>6. late + again[p] <= 1 + lost[p]
      <4>1. 2 * again[p] <= 2 + lost[p] - late /\ late <= lost[p]
        BY <2>1, <2>3, <3>3, <3>4, <3>5
      <4>. QED BY <2>1, <3>5, <4>1
    <3>. QED BY <2>1, <3>6, SMTT(30) DEF late
  <2>. QED BY <2>3, <2>4
<1>2. TInv => OneMessageLate
  BY <1>1
<1>. QED BY TwitterInvariant, <1>2, PTL

(* A step that shows nothing and makes no node.                            *)
LEMMA Silent ==
  ASSUME NEW p, Next, Window(p) \/ MonitorStep(p) \/ User(p),
         ~Connect(p), ~ProcessEnds(p),
         \A from : ~(PutLink(p, from) /\ UNCHANGED shown)
  PROVE  UNCHANGED <<Previous, shown>>
<1>1. CASE Window(p)
  <2>1. CASE OpenMailbox(p) \/ OpenFails(p) \/ Create(p) \/ Created(p)
               \/ NoMailbox(p) \/ Hello(p) \/ HelloDone(p)
    BY <2>1 DEF OpenMailbox, OpenFails, Create, Created, NoMailbox, Hello,
                HelloDone, listVars, nodeVars, windowVars
  <2>2. CASE WriteTweet(p) \/ TweetDone(p) \/ ReadTweets(p) \/ Unmap(p)
               \/ DeleteLists(p)
    BY <2>2 DEF WriteTweet, TweetDone, ReadTweets, Unmap, DeleteLists,
                listVars, nodeVars, windowVars
  <2>3. CASE Get(p)
    BY <2>3 DEF Get, GetCopy, GetLoad, GetStore, GetAdvance, GetDelete,
                nodeVars, windowVars
  <2>. QED BY <1>1, <2>1, <2>2, <2>3 DEF Window, Exited
<1>2. CASE MonitorStep(p)
  <2>1. CASE MonitorTest(p) \/ MonitorRead(p) \/ MonitorClear(p)
               \/ MonitorStop(p)
    <3>1. UNCHANGED windowVars
      BY <1>2 DEF MonitorStep, Fault
    <3>. QED BY <2>1, <3>1 DEF MonitorTest, MonitorRead, MonitorClear,
                MonitorStop, listVars, nodeVars, windowVars
  <2>2. CASE MonitorPut(p)
    <3>1. UNCHANGED windowVars
      BY <1>2 DEF MonitorStep, Fault
    <3>. QED BY <2>2, <3>1 DEF MonitorPut, PutTail, PutLoad, PutStore,
                nodeVars, windowVars
  <2>. QED BY <1>2, <2>1, <2>2 DEF MonitorStep, Monitor, Fault
<1>3. CASE User(p)
  BY <1>3 DEF User, Start, Tweet, Exit, ExitWithout, listVars, nodeVars,
              windowVars
<1>. QED BY <1>1, <1>2, <1>3

(* The detailed specification implements MessageLog: PutLink receives a    *)
(* message, Connect shows the next one or the last one again, the end of   *)
(* the process closes, and every other step stutters.                      *)
THEOREM ShowsInOrder == Spec => ShownInOrder
<1>. DEFINE received == [p \in Procs |-> Len(Previous[p])]
<1>1. Init => Log!Init
  BY DEF Init, MsgListInit, NULL, Log!Init
<1>2. ASSUME TInv, [Next]_vars
      PROVE  [Log!Next]_<<received, shown>>
  <2>1. /\ Shape /\ \A p \in Procs : TmpInv(p)
        /\ Previous \in [Procs -> Seq(Nat)] /\ shown \in [Procs -> Nat]
    BY <1>2 DEF TInv, MsgInv, Shape, ListShape, WindowShape
  <2>2. ASSUME NEW p \in Procs, NEW from, PutLink(p, from), UNCHANGED shown
        PROVE  Log!Receive(p)
    <3>. DEFINE prev == Previous[p]
                linked == IF HeadNode[p] = NULL THEN prev
                          ELSE [prev EXCEPT ![HeadNode[p]] = Len(prev) + 1]
    <3>1. /\ ListInv(p) /\ HeadNode[p] \in Nat /\ monitor[p] = "link"
          /\ prev \in Seq(Nat) /\ Len(prev) \in Nat
      BY <1>2, <2>1, <2>2, Types DEF TInv, MsgInv, PutLink, MonitorGoto
    <3>2. linked \in Seq(Nat) /\ Len(linked) = Len(prev)
      <4>1. HeadNode[p] = Len(prev)
        BY <3>1 DEF ListInv
      <4>2. CASE HeadNode[p] = NULL
        BY <3>1, <4>2
      <4>3. CASE HeadNode[p] # NULL
        <5>. DEFINE other == [prev EXCEPT ![HeadNode[p]] = Len(prev) + 1]
        <5>1. other \in Seq(Nat) /\ Len(other) = Len(prev)
          <6>1. Len(prev) \in 1 .. Len(prev) /\ Len(prev) + 1 \in Nat
            BY <3>1, <4>1, <4>3 DEF NULL
          <6>. HIDE DEF prev
          <6>. QED BY <3>1, <4>1, <6>1
        <5>. QED BY <4>3, <5>1
      <4>. QED BY <4>2, <4>3
    <3>3. Previous' = [Previous EXCEPT ![p] = Append(linked, NULL)]
      BY <2>2 DEF PutLink
    <3>. HIDE DEF linked
    <3>4. Len(Append(linked, NULL)) = Len(prev) + 1
      BY <3>2 DEF NULL
    <3>5. \A q \in Procs : Len(Previous'[q]) =
            IF q = p THEN Len(Previous[p]) + 1 ELSE Len(Previous[q])
      BY <2>1, <3>3, <3>4
    <3>6. received' = [received EXCEPT ![p] = received[p] + 1]
      BY <3>5
    <3>. QED BY <2>2, <3>6 DEF Log!Receive
  <2>3. ASSUME NEW p \in Procs, Connect(p)
        PROVE  Log!Show(p) \/ UNCHANGED <<received, shown>>
    <3>1. /\ window[p] = "connect" /\ UNCHANGED Previous
          /\ shown' = [shown EXCEPT ![p] = tmp[p]]
      BY <2>3 DEF Connect, WindowGoto, listVars, nodeVars
    <3>2. tmp[p] \in {shown[p], shown[p] + 1} /\ tmp[p] <= Len(Previous[p])
      BY <2>1, <3>1 DEF TmpInv
    <3>3. UNCHANGED received /\ shown[p] \in Nat /\ received[p] \in Nat
      BY <2>1, <3>1
    <3>4. CASE tmp[p] = shown[p]
      BY <2>1, <3>1, <3>3, <3>4
    <3>5. CASE tmp[p] = shown[p] + 1
      <4>1. shown[p] < received[p]
        BY <3>2, <3>3, <3>5
      <4>2. shown' = [shown EXCEPT ![p] = shown[p] + 1]
        BY <3>1, <3>5
      <4>. QED BY <3>3, <4>1, <4>2 DEF Log!Show
    <3>. QED BY <3>2, <3>4, <3>5
  <2>4. ASSUME NEW p \in Procs, ProcessEnds(p)
        PROVE  Log!Close(p)
    <3>1. /\ Previous' = [Previous EXCEPT ![p] = <<>>]
          /\ shown' = [shown EXCEPT ![p] = 0]
      BY <2>4 DEF ProcessEnds, MsgListGone, NULL
    <3>2. \A q \in Procs :
            Len(Previous'[q]) = IF q = p THEN 0 ELSE Len(Previous[q])
      BY <2>1, <3>1
    <3>3. received' = [received EXCEPT ![p] = 0]
      BY <3>2
    <3>. QED BY <3>1, <3>3 DEF Log!Close
  <2>5. ASSUME UNCHANGED <<Previous, shown>>
        PROVE  UNCHANGED <<received, shown>>
    BY <2>5
  <2>. HIDE DEF received
  <2>6. CASE UNCHANGED vars
    <3>1. UNCHANGED <<Previous, shown>>
      BY <2>6 DEF vars, listVars, nodeVars, windowVars
    <3>. QED BY <2>5, <3>1
  <2>7. CASE Next
    <3>1. PICK p \in Procs : Window(p) \/ MonitorStep(p) \/ User(p)
      BY <2>7 DEF Next
    <3>2. CASE Connect(p) \/ ProcessEnds(p)
      BY <2>3, <2>4, <3>2 DEF Log!Next
    <3>3. CASE \E from : PutLink(p, from) /\ UNCHANGED shown
      <4>1. PICK from : PutLink(p, from) /\ UNCHANGED shown
        BY <3>3
      <4>. QED BY <2>2, <4>1 DEF Log!Next
    <3>4. CASE /\ ~Connect(p) /\ ~ProcessEnds(p)
               /\ \A from : ~(PutLink(p, from) /\ UNCHANGED shown)
      BY <2>5, <2>7, <3>1, <3>4, Silent
    <3>. QED BY <3>2, <3>3, <3>4
  <2>. QED BY <1>2, <2>6, <2>7
<1>. QED BY <1>1, <1>2, TwitterInvariant, PTL DEF Spec, ShownInOrder, Log!Spec
=============================================================================
