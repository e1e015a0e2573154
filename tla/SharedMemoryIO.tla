--------------------------- MODULE SharedMemoryIO ---------------------------
(***************************************************************************)
(* The mailboxes of the Twitter processes (SharedMemoryIO.cpp of           *)
(* UBTwitter): named pieces of shared memory, the calls that imitate       *)
(* Windows mailslots on them, and the monitor thread of each process.      *)
(*                                                                         *)
(* A mailbox stands for its first word, FROM: the monitor decides by it    *)
(* alone.  Module Delivery has the others.                                 *)
(***************************************************************************)
EXTENDS MsgList

CONSTANT MAXBOX   \* 10

VARIABLES
  mailbox,  \* FROM in each mailbox
  hMailBox, \* the mailboxes each process has a handle of
  views,    \* pConnectionList of each process, head first: the mailboxes
  mapped,   \* the mailboxes each process can access
  serverBuf, \* the mailbox each process monitors
  readBuffer \* FROM in pTempReadBuffer

connections == <<hMailBox, views, mapped>>
ioVars == <<mailbox, connections, serverBuf, readBuffer>>

Boxes == 0 .. MAXBOX - 1
NO_DATA == 999
NoBox == -1   \* serverBuf before it is set; INVALID_MAILSLOT

IOTypeOK ==
  /\ mailbox \in [Boxes -> Boxes \cup {NO_DATA}]
  /\ hMailBox \in [Procs -> SUBSET Boxes]
  /\ views \in [Procs -> Seq(Boxes)] /\ mapped \in [Procs -> SUBSET Boxes]
  /\ serverBuf \in [Procs -> Boxes \cup {NoBox}]
  /\ readBuffer \in [Procs -> Boxes \cup {NO_DATA}]

IOInit ==
  /\ mailbox = [b \in Boxes |-> 0]
  /\ hMailBox = [p \in Procs |-> {}]
  /\ views = [p \in Procs |-> <<>>] /\ mapped = [p \in Procs |-> {}]
  /\ serverBuf = [p \in Procs |-> NoBox]
  /\ readBuffer = [p \in Procs |-> NO_DATA]

(* A mapping lives as long as some process has a handle or a view of it.   *)
Exists(b) == \E p \in Procs : b \in hMailBox[p] \cup mapped[p]

-----------------------------------------------------------------------------
(* ConnectionList.                                                         *)

Add(p, b) == views' = [views EXCEPT ![p] = <<b>> \o @]

(* There is a view that goes with the handle of b.                         *)
PeekBuffer(p, b) == \E n \in DOMAIN views[p] : views[p][n] = b

PeekTail(p) == views[p][Len(views[p])]

(* RemoveTail returns FALSE for the last node, and leaves it in the list.  *)
IsLastNode(p) == Len(views[p]) = 1
RemoveTail(p) ==
  views' = IF IsLastNode(p) THEN views
           ELSE [views EXCEPT ![p] = SubSeq(@, 1, Len(@) - 1)]

-----------------------------------------------------------------------------
(* The calls of the window's thread.                                       *)

(* Mutation: the view is not kept.                                         *)
ConnectedUnmapped(p, b) ==
  /\ hMailBox' = [hMailBox EXCEPT ![p] = @ \cup {b}]
  /\ Add(p, b)
  /\ UNCHANGED mapped

(* MapViewOfFile; the view goes into the list.                             *)
Connected(p, b) ==
  /\ hMailBox' = [hMailBox EXCEPT ![p] = @ \cup {b}]
  /\ mapped' = [mapped EXCEPT ![p] = @ \cup {b}]
  /\ Add(p, b)

(* myCreateFile: OpenFileMapping.                                          *)
myCreateFile(p, b) ==
  IF Exists(b) THEN Connected(p, b) ELSE UNCHANGED connections

(* myCreateMailslot: CreateFileMapping opens a mapping that exists, and    *)
(* fills a new one with zeros ...                                          *)
CreateMapping(p, b) ==
  /\ Connected(p, b)
  /\ mailbox' = IF Exists(b) THEN mailbox ELSE [mailbox EXCEPT ![b] = 0]
  /\ UNCHANGED <<serverBuf, readBuffer>>

(* ... and EmptyMailbox, before the monitor thread is created.             *)
EmptyNewMailbox(p, b) ==
  /\ serverBuf' = [serverBuf EXCEPT ![p] = b]
  /\ mailbox' = [mailbox EXCEPT ![b] = NO_DATA]
  /\ UNCHANGED <<connections, readBuffer>>

(* myWriteFile, for a process whose own mailbox is `from`.                 *)
myWriteFile(p, b, from) ==
  mailbox' = IF b \in hMailBox[p] /\ PeekBuffer(p, b)
             THEN [mailbox EXCEPT ![b] = from] ELSE mailbox

-----------------------------------------------------------------------------
(* ~MailslotMrg closes the handle of its own mailbox; the view remains.    *)
CloseMailslot(p) == hMailBox' = [hMailBox EXCEPT ![p] = @ \ {serverBuf[p]}]

(* Mutation: a view is unmapped if its node can be removed.                *)
UnmapTailButLast(p) ==
  /\ mapped' = IF IsLastNode(p) THEN mapped
               ELSE [mapped EXCEPT ![p] = @ \ {PeekTail(p)}]
  /\ RemoveTail(p)
  /\ UNCHANGED hMailBox

(* A pass of the loop of ~SharedMemoryIO.                                  *)
UnmapTail(p) ==
  /\ mapped' = [mapped EXCEPT ![p] = @ \ {PeekTail(p)}]
  /\ RemoveTail(p)
  /\ UNCHANGED hMailBox

-----------------------------------------------------------------------------
(* MonitorIncomingData, in the monitor thread.                             *)

(* The points of the exit at which running_flag is FALSE.                  *)
Exiting == {"exit", "lists", "end"}

(* The mailbox is accessed through the view.                               *)
Mapped(p) == serverBuf[p] \in mapped[p]

(* Something else than NO_DATA is in the mailbox.                          *)
MonitorTest(p) ==
  /\ MonitorGoto(p, "test", "read")
  /\ Mapped(p) /\ mailbox[serverBuf[p]] # NO_DATA
  /\ UNCHANGED <<listVars, ioVars>>

(* Mutation: the mailbox number 0 is taken for no number.                  *)
IsPositive(from) == from > 0

(* MailBoxMessage::IsValidData(), which NO_DATA passes as well.            *)
IsValidData(from) == from >= 0

MonitorRead(p) ==
  LET from == mailbox[serverBuf[p]] IN
  /\ MonitorGoto(p, "read", IF IsValidData(from) THEN "link" ELSE "test")
  /\ Mapped(p)
  /\ readBuffer' = [readBuffer EXCEPT ![p] = from]
  /\ UNCHANGED <<listVars, mailbox, connections, serverBuf>>

MonitorPut(p) ==
  /\ window[p] # "end"
  /\ \/ PutLink(p, readBuffer[p]) \/ PutTail(p) \/ PutLoad(p) \/ PutStore(p)
  /\ UNCHANGED ioVars

(* EmptyMailbox, whatever has been written since the read.                 *)
MonitorClear(p) ==
  /\ MonitorGoto(p, "clear", "test")
  /\ Mapped(p)
  /\ mailbox' = [mailbox EXCEPT ![serverBuf[p]] = NO_DATA]
  /\ UNCHANGED <<listVars, connections, serverBuf, readBuffer>>

(* The thread leaves its loop once running_flag is FALSE.                  *)
MonitorStop(p) ==
  /\ window[p] \in Exiting
  /\ MonitorGoto(p, "test", "off")
  /\ UNCHANGED <<listVars, ioVars>>

Monitor(p) ==
  \/ MonitorTest(p) \/ MonitorRead(p) \/ MonitorPut(p) \/ MonitorClear(p)
  \/ MonitorStop(p)

(* The view of the mailbox is unmapped, or the list deleted, and the       *)
(* thread is about to use it.                                              *)
AccessFails(p) ==
  \/ monitor[p] \in {"test", "read", "clear"} /\ ~Mapped(p)
  \/ monitor[p] \in {"link", "tail", "load", "store"} /\ window[p] = "end"
=============================================================================
