------------------------------ MODULE MsgList -------------------------------
(***************************************************************************)
(* The list of received messages of each Twitter process (LinkedList.h,    *)
(* LinkedList.cpp of UBTwitter).  The monitor thread puts messages in at   *)
(* the head and the window's thread gets them from the tail, without a     *)
(* lock; both change count.                                                *)
(*                                                                         *)
(* A step is one access to memory the other thread writes.  Nodes are      *)
(* numbered in the order they are made, 0 is NULL.  Next is written and    *)
(* never read before the process ends: only the access to the node stays.  *)
(***************************************************************************)
EXTENDS Integers, Sequences

CONSTANT Procs

VARIABLES
  monitor, \* the point each monitor thread has reached
  window,  \* the point each window's thread has reached
  HeadNode, TailNode,
  Previous, \* of each node; its length is the number of nodes made
  Msg,      \* of each node: the FROM of its message
  deleted,  \* the nodes that have been deleted
  count,
  putCount, \* what Put's `count++` has read
  getCount, \* what Get's `count--` has read
  tmp,      \* Get's tmp
  lost      \* history: by how much updates of count were overwritten

nodeVars == <<Previous, Msg, deleted>>
countVars == <<count, putCount, getCount, lost>>
listVars == <<HeadNode, TailNode, nodeVars, countVars, tmp>>

NULL == 0
Nodes(p) == 1 .. Len(Previous[p])

MsgListTypeOK ==
  \A p \in Procs :
    /\ {HeadNode[p], TailNode[p], tmp[p]} \subseteq {NULL} \cup Nodes(p)
    /\ \A n \in Nodes(p) : Previous[p][n] \in {NULL} \cup Nodes(p)
    /\ Len(Msg[p]) = Len(Previous[p])
    /\ deleted[p] \subseteq Nodes(p)
    /\ count[p] \in Nat /\ putCount[p] \in Nat /\ getCount[p] \in Nat
    /\ lost[p] \in Nat

(* MsgList::MsgList, for every process.                                    *)
MsgListInit ==
  LET All(v) == [p \in Procs |-> v] IN
  /\ HeadNode = All(NULL) /\ TailNode = All(NULL)
  /\ Previous = All(<<>>) /\ Msg = All(<<>>)
  /\ deleted = All({})
  /\ count = All(0) /\ putCount = All(0) /\ getCount = All(0)
  /\ tmp = All(NULL) /\ lost = All(0)

(* The list of a process that ends is as good as new.                      *)
MsgListGone(p) ==
  LET Reset(f, v) == [f EXCEPT ![p] = v] IN
  /\ HeadNode' = Reset(HeadNode, NULL) /\ TailNode' = Reset(TailNode, NULL)
  /\ Previous' = Reset(Previous, <<>>) /\ Msg' = Reset(Msg, <<>>)
  /\ deleted' = Reset(deleted, {})
  /\ count' = Reset(count, 0)
  /\ putCount' = Reset(putCount, 0) /\ getCount' = Reset(getCount, 0)
  /\ tmp' = Reset(tmp, NULL) /\ lost' = Reset(lost, 0)

MonitorGoto(p, from, to) ==
  /\ monitor[p] = from
  /\ monitor' = [monitor EXCEPT ![p] = to]
  /\ UNCHANGED window

WindowGoto(p, from, to) ==
  /\ window[p] = from
  /\ window' = [window EXCEPT ![p] = to]
  /\ UNCHANGED monitor

-----------------------------------------------------------------------------
(* MsgList::Put, in the monitor thread.                                    *)

(* A new node; `Head->Previous = tmp` if there is a head.  Only Put uses   *)
(* Head.                                                                   *)
PutLink(p, from) ==
  LET n == Len(Previous[p]) + 1
      linked == IF HeadNode[p] = NULL THEN Previous[p]
                ELSE [Previous[p] EXCEPT ![HeadNode[p]] = n]
  IN
  /\ MonitorGoto(p, "link", "tail")
  /\ Previous' = [Previous EXCEPT ![p] = Append(linked, NULL)]
  /\ Msg' = [Msg EXCEPT ![p] = Append(@, from)]
  /\ UNCHANGED <<HeadNode, TailNode, deleted, countVars, tmp>>

(* `if (Tail == NULL) Tail = tmp`: Get never changes a Tail that is NULL.  *)
PutTail(p) ==
  LET n == Len(Previous[p]) IN
  /\ MonitorGoto(p, "tail", "load")
  /\ TailNode' = [TailNode EXCEPT ![p] = IF @ = NULL THEN n ELSE @]
  /\ HeadNode' = [HeadNode EXCEPT ![p] = n]
  /\ UNCHANGED <<nodeVars, countVars, tmp>>

(* count++                                                                 *)
PutLoad(p) ==
  /\ MonitorGoto(p, "load", "store")
  /\ putCount' = [putCount EXCEPT ![p] = count[p]]
  /\ UNCHANGED <<HeadNode, TailNode, nodeVars, count, getCount, lost, tmp>>

PutStore(p) ==
  /\ MonitorGoto(p, "store", "clear")
  /\ count' = [count EXCEPT ![p] = putCount[p] + 1]
  /\ lost' = [lost EXCEPT ![p] = @ + (putCount[p] - count[p])]
  /\ UNCHANGED <<HeadNode, TailNode, nodeVars, putCount, getCount, tmp>>

-----------------------------------------------------------------------------
(* MsgList::Get, in the window's thread.  It is called when count > 0.     *)

GetCopy(p) ==
  /\ WindowGoto(p, "get", "load")
  /\ tmp' = [tmp EXCEPT ![p] = TailNode[p]]
  /\ UNCHANGED <<HeadNode, TailNode, nodeVars, countVars>>

(* count--                                                                 *)
GetLoad(p) ==
  /\ WindowGoto(p, "load", "store")
  /\ getCount' = [getCount EXCEPT ![p] = count[p]]
  /\ UNCHANGED <<HeadNode, TailNode, nodeVars, count, putCount, lost, tmp>>

(* Mutation: Get counts only the messages it takes off the list.           *)
GetStoreIfMore(p) ==
  /\ WindowGoto(p, "store", "advance")
  /\ count' = [count EXCEPT ![p] =
                 IF Previous[p][TailNode[p]] = NULL THEN @ ELSE getCount[p] - 1]
  /\ UNCHANGED <<HeadNode, TailNode, nodeVars, putCount, getCount, lost, tmp>>

GetStore(p) ==
  /\ WindowGoto(p, "store", "advance")
  /\ count' = [count EXCEPT ![p] = getCount[p] - 1]
  /\ lost' = [lost EXCEPT ![p] = @ + (count[p] - getCount[p])]
  /\ UNCHANGED <<HeadNode, TailNode, nodeVars, putCount, getCount, tmp>>

(* Mutation: Get deletes the last node as well.                            *)
GetAdvanceAlways(p) ==
  /\ WindowGoto(p, "advance", "delete")
  /\ TailNode' = [TailNode EXCEPT ![p] = Previous[p][@]]
  /\ UNCHANGED <<HeadNode, nodeVars, countVars, tmp>>

(* Mutation: Get goes on at the head.                                      *)
GetAdvanceToHead(p) ==
  LET next == Previous[p][TailNode[p]] IN
  /\ WindowGoto(p, "advance", IF next = NULL THEN "connect" ELSE "delete")
  /\ TailNode' = [TailNode EXCEPT ![p] = HeadNode[p]]
  /\ UNCHANGED <<HeadNode, nodeVars, countVars, tmp>>

(* `Tail = Tail->Previous` if that is not NULL.  The last node stays.      *)
GetAdvance(p) ==
  LET next == Previous[p][TailNode[p]] IN
  /\ WindowGoto(p, "advance", IF next = NULL THEN "connect" ELSE "delete")
  /\ TailNode' = [TailNode EXCEPT ![p] = IF next = NULL THEN @ ELSE next]
  /\ UNCHANGED <<HeadNode, nodeVars, countVars, tmp>>

(* Tail->Next = NULL; delete tmp                                           *)
GetDelete(p) ==
  /\ WindowGoto(p, "delete", "connect")
  /\ deleted' = [deleted EXCEPT ![p] = @ \cup {tmp[p]}]
  /\ UNCHANGED <<HeadNode, TailNode, Previous, Msg, countVars, tmp>>
=============================================================================
