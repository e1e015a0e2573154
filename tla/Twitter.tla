------------------------------ MODULE Twitter -------------------------------
(***************************************************************************)
(* The Twitter processes of Assignment/Project1 (MailslotMgr.cpp, the      *)
(* handlers of Twitter.h): each takes a mailbox of its own, says hello to  *)
(* the others, and then its window alternately reads tweets and sends      *)
(* them.  A handler runs to its end before the next one starts.            *)
(***************************************************************************)
EXTENDS SharedMemoryIO

CONSTANTS
  Writes,    \* how often a tweet is written, 10
  MaxTweets, \* bound on the tweets of each process
  MaxStarts  \* bound on how often each process is started

ASSUME TwitterAssumption ==
  /\ MAXBOX \in Nat \ {0} /\ MAXBOX <= NO_DATA
  /\ Writes \in Nat \ {0}
  /\ MaxTweets \in [Procs -> Nat] /\ MaxStarts \in [Procs -> Nat]

VARIABLES
  i,      \* the loop index of the constructor or of SendBroadcastMsg, or
          \* the mailbox a tweet goes to
  left,   \* the writes left of a tweet
  thisMailslot,
  tweets, \* tweets sent so far
  starts, \* starts so far
  shown,  \* history: the last node whose message the window has shown
  again   \* history: how often it has shown a message once more

windowVars == <<i, left, thisMailslot, tweets, starts, shown, again>>
vars == <<monitor, window, listVars, ioVars, windowVars>>

MonitorPoints ==
  {"off", "test", "read", "link", "tail", "load", "store", "clear"}
WindowPoints ==
  {"off", "open", "create", "empty", "hello", "idle", "tweet", "get", "load",
   "store", "advance", "delete", "connect"} \cup Exiting

TypeOK ==
  /\ monitor \in [Procs -> MonitorPoints]
  /\ window \in [Procs -> WindowPoints]
  /\ MsgListTypeOK /\ IOTypeOK
  /\ i \in [Procs -> 0 .. MAXBOX] /\ left \in [Procs -> 0 .. Writes]
  /\ thisMailslot \in [Procs -> Boxes \cup {NoBox}]
  /\ \A p \in Procs : /\ tweets[p] \in 0 .. MaxTweets[p]
                      /\ starts[p] \in 0 .. MaxStarts[p]
                      /\ shown[p] \in {NULL} \cup Nodes(p)
  /\ again \in [Procs -> Nat]

Init ==
  /\ monitor = [p \in Procs |-> "off"] /\ window = [p \in Procs |-> "off"]
  /\ MsgListInit /\ IOInit
  /\ i = [p \in Procs |-> 0] /\ left = [p \in Procs |-> 0]
  /\ thisMailslot = [p \in Procs |-> NoBox]
  /\ tweets = [p \in Procs |-> 0] /\ starts = [p \in Procs |-> 0]
  /\ shown = [p \in Procs |-> NULL] /\ again = [p \in Procs |-> 0]

Index(p, n) == i' = [i EXCEPT ![p] = n]

-----------------------------------------------------------------------------
(* The constructor MailslotMrg::MailslotMrg.                               *)

Start(p) ==
  /\ starts[p] < MaxStarts[p]
  /\ WindowGoto(p, "off", "open")
  /\ starts' = [starts EXCEPT ![p] = @ + 1]
  /\ UNCHANGED <<listVars, ioVars, i, left, thisMailslot, tweets, shown, again>>

(* The mailbox i can be opened: it belongs to another process.             *)
OpenMailbox(p) ==
  /\ window[p] = "open" /\ i[p] < MAXBOX
  /\ Exists(i[p])
  /\ myCreateFile(p, i[p])
  /\ Index(p, i[p] + 1)
  /\ UNCHANGED <<monitor, window, listVars, mailbox, serverBuf, readBuffer,
                 left, thisMailslot, tweets, starts, shown, again>>

OpenFails(p) ==
  /\ i[p] < MAXBOX /\ ~Exists(i[p])
  /\ WindowGoto(p, "open", "create")
  /\ UNCHANGED <<listVars, ioVars, windowVars>>

Create(p) ==
  /\ WindowGoto(p, "create", "empty")
  /\ CreateMapping(p, i[p])
  /\ UNCHANGED <<listVars, windowVars>>

(* EmptyMailbox, CreateThread, and the end of the constructor's loop.      *)
Created(p) ==
  /\ window[p] = "empty" /\ window' = [window EXCEPT ![p] = "hello"]
  /\ EmptyNewMailbox(p, i[p])
  /\ monitor' = [monitor EXCEPT ![p] = "test"]
  /\ thisMailslot' = [thisMailslot EXCEPT ![p] = i[p]]
  /\ Index(p, 0)
  /\ UNCHANGED <<listVars, left, tweets, starts, shown, again>>

(* All mailboxes belong to others: this process has none, and its timers   *)
(* are not enabled.                                                        *)
NoMailbox(p) ==
  /\ i[p] = MAXBOX
  /\ WindowGoto(p, "open", "idle")
  /\ UNCHANGED <<listVars, ioVars, windowVars>>

(* Mutation: the loop goes one mailbox too far.                            *)
HelloTooFar(p) ==
  /\ window[p] = "hello" /\ i[p] <= MAXBOX
  /\ IF i[p] # thisMailslot[p] THEN myWriteFile(p, i[p], thisMailslot[p])
                               ELSE UNCHANGED mailbox
  /\ Index(p, i[p] + 1)
  /\ UNCHANGED <<monitor, window, listVars, connections, serverBuf, readBuffer,
                 left, thisMailslot, tweets, starts, shown, again>>

(* A pass of SendBroadcastMsg.                                             *)
Hello(p) ==
  /\ window[p] = "hello" /\ i[p] < MAXBOX
  /\ IF i[p] # thisMailslot[p] THEN myWriteFile(p, i[p], thisMailslot[p])
                               ELSE UNCHANGED mailbox
  /\ Index(p, i[p] + 1)
  /\ UNCHANGED <<monitor, window, listVars, connections, serverBuf, readBuffer,
                 left, thisMailslot, tweets, starts, shown, again>>

HelloDone(p) ==
  /\ i[p] = MAXBOX
  /\ WindowGoto(p, "hello", "idle")
  /\ Index(p, 0)
  /\ UNCHANGED <<listVars, ioVars, left, thisMailslot, tweets, starts, shown,
                 again>>

-----------------------------------------------------------------------------
(* RunClient takes a tweet the user has queued and writes it many times.   *)

Tweet(p, b) ==
  /\ thisMailslot[p] # NoBox /\ b # thisMailslot[p]
  /\ tweets[p] < MaxTweets[p]
  /\ WindowGoto(p, "idle", "tweet")
  /\ Index(p, b)
  /\ left' = [left EXCEPT ![p] = Writes]
  /\ tweets' = [tweets EXCEPT ![p] = @ + 1]
  /\ UNCHANGED <<listVars, ioVars, thisMailslot, starts, shown, again>>

WriteTweet(p) ==
  /\ window[p] = "tweet" /\ left[p] > 0
  /\ myWriteFile(p, i[p], thisMailslot[p])
  /\ left' = [left EXCEPT ![p] = @ - 1]
  /\ UNCHANGED <<monitor, window, listVars, connections, serverBuf, readBuffer,
                 i, thisMailslot, tweets, starts, shown, again>>

TweetDone(p) ==
  /\ left[p] = 0
  /\ WindowGoto(p, "tweet", "idle")
  /\ Index(p, 0)
  /\ UNCHANGED <<listVars, ioVars, left, thisMailslot, tweets, starts, shown,
                 again>>

-----------------------------------------------------------------------------
(* RunServer calls ReadTweets, which gets a message if count > 0.          *)

ReadTweets(p) ==
  /\ thisMailslot[p] # NoBox /\ count[p] > 0
  /\ WindowGoto(p, "idle", "get")
  /\ UNCHANGED <<listVars, ioVars, windowVars>>

Get(p) ==
  /\ GetCopy(p) \/ GetLoad(p) \/ GetStore(p) \/ GetAdvance(p) \/ GetDelete(p)
  /\ UNCHANGED <<ioVars, windowVars>>

(* The rest of ReadTweets: a connection to the mailbox of a sender that is *)
(* not known yet.  The window shows the message.                           *)
Connect(p) ==
  LET from == Msg[p][tmp[p]] IN
  /\ WindowGoto(p, "connect", "idle")
  /\ IF from \in Boxes \ hMailBox[p] THEN myCreateFile(p, from)
                                     ELSE UNCHANGED connections
  /\ shown' = [shown EXCEPT ![p] = tmp[p]]
  /\ again' = [again EXCEPT ![p] = IF shown[p] = tmp[p] THEN @ + 1 ELSE @]
  /\ UNCHANGED <<listVars, mailbox, serverBuf, readBuffer, i, left,
                 thisMailslot, tweets, starts>>

-----------------------------------------------------------------------------
(* ExitButton_Click.                                                       *)

ProcessEnds(p) ==
  /\ window' = [window EXCEPT ![p] = "off"]
  /\ monitor' = [monitor EXCEPT ![p] = "off"]
  /\ MsgListGone(p)
  /\ hMailBox' = [hMailBox EXCEPT ![p] = {}]
  /\ views' = [views EXCEPT ![p] = <<>>] /\ mapped' = [mapped EXCEPT ![p] = {}]
  /\ serverBuf' = [serverBuf EXCEPT ![p] = NoBox]
  /\ readBuffer' = [readBuffer EXCEPT ![p] = NO_DATA]
  /\ thisMailslot' = [thisMailslot EXCEPT ![p] = NoBox]
  /\ Index(p, 0)
  /\ shown' = [shown EXCEPT ![p] = NULL] /\ again' = [again EXCEPT ![p] = 0]
  /\ UNCHANGED <<mailbox, left, tweets, starts>>

(* Without a mailbox nothing is deleted.                                   *)
ExitWithout(p) ==
  /\ window[p] = "idle" /\ thisMailslot[p] = NoBox
  /\ ProcessEnds(p)

(* The mailbox is deleted: its handle is closed, running_flag cleared ...  *)
Exit(p) ==
  /\ thisMailslot[p] # NoBox
  /\ WindowGoto(p, "idle", "exit")
  /\ CloseMailslot(p)
  /\ UNCHANGED <<listVars, mailbox, views, mapped, serverBuf, readBuffer,
                 windowVars>>

(* ... the views are unmapped one by one ...                               *)
Unmap(p) ==
  /\ WindowGoto(p, "exit", IF IsLastNode(p) THEN "lists" ELSE "exit")
  /\ UnmapTail(p)
  /\ UNCHANGED <<listVars, mailbox, serverBuf, readBuffer, windowVars>>

(* ... pMsgList and pConnectionList are deleted ...                        *)
DeleteLists(p) ==
  /\ WindowGoto(p, "lists", "end")
  /\ UNCHANGED <<listVars, ioVars, windowVars>>

(* ... and the process ends.  Nothing of this waits for the monitor thread.*)
Exited(p) == window[p] = "end" /\ ProcessEnds(p)

(* The monitor thread faults on what is gone, which ends the process.      *)
Fault(p) == AccessFails(p) /\ ProcessEnds(p)

Window(p) ==
  \/ OpenMailbox(p) \/ OpenFails(p) \/ Create(p) \/ Created(p) \/ NoMailbox(p)
  \/ Hello(p) \/ HelloDone(p)
  \/ WriteTweet(p) \/ TweetDone(p)
  \/ ReadTweets(p) \/ Get(p) \/ Connect(p)
  \/ Unmap(p) \/ DeleteLists(p) \/ Exited(p)

User(p) ==
  Start(p) \/ (\E b \in Boxes : Tweet(p, b)) \/ Exit(p) \/ ExitWithout(p)

MonitorStep(p) == (Monitor(p) /\ UNCHANGED windowVars) \/ Fault(p)

Next == \E p \in Procs : Window(p) \/ MonitorStep(p) \/ User(p)

Spec == Init /\ [][Next]_vars

(* Both threads of a process are scheduled; a user need not do anything.   *)
FairSpec ==
  Spec /\ \A p \in Procs : WF_vars(Window(p)) /\ WF_vars(MonitorStep(p))

-----------------------------------------------------------------------------
(***************************************************************************)
(* Properties.                                                             *)
(***************************************************************************)

Log == INSTANCE MessageLog
         WITH received <- [p \in Procs |-> Len(Previous[p])]

(* Put and Get run at the same time without a lock, and count may drift:   *)
(* still the window shows the messages in the order of the monitor thread  *)
(* and leaves none out.                                                    *)
ShownInOrder == Log!Spec

(* No step of Put or Get uses a node that Get has deleted, or NULL.  Head  *)
(* may well point to a deleted node, between Put's two steps.              *)
NodesAlive ==
  \A p \in Procs :
    /\ monitor[p] = "link" => HeadNode[p] \notin deleted[p]
    /\ window[p] \in {"get", "advance", "delete"} =>
         TailNode[p] \notin deleted[p] \cup {NULL}

(* The monitor thread faults on an unmapped view or a deleted list only    *)
(* after the user has closed the window (SharedMemoryIO.cpp:34).           *)
FaultsOnlyInExit ==
  \A p \in Procs : AccessFails(p) => window[p] \in Exiting

(* The loop of ~SharedMemoryIO ends when RemoveTail leaves the last node   *)
(* where it is: by then it has unmapped every view.                        *)
AllUnmapped == \A p \in Procs : window[p] \in {"lists", "end"} => mapped[p] = {}

(* Neither Put nor Get is at work.                                         *)
Quiet(p) ==
  /\ monitor[p] \notin {"tail", "load", "store"}
  /\ window[p] \notin {"get", "load", "store", "advance", "delete", "connect"}

(* Get keeps the last node, so a message is shown twice and from then on   *)
(* the window is one message late -- one, and one more for every update of *)
(* count that was lost.                                                    *)
OneMessageLate ==
  \A p \in Procs :
    /\ again[p] <= 1 + lost[p]
    /\ Quiet(p) /\ count[p] = 0 => Len(Previous[p]) <= shown[p] + 1 + lost[p]

(* What is in the mailbox of a process does not stay there: the monitor    *)
(* thread empties it, whatever it finds.                                   *)
Owned(b) == \E p \in Procs : serverBuf[p] = b
MailboxEmptied ==
  \A b \in Boxes :
    mailbox[b] # NO_DATA ~> mailbox[b] = NO_DATA \/ ~Owned(b)

(* MailslotMgr.cpp:42, "The mailbox already belong to someone else, so     *)
(* create a connection to it": a mailbox belongs to one process.  Two that *)
(* start together can both fail to open it and both create it.             *)
OneOwner ==
  \A p, q \in Procs :
    thisMailslot[p] = thisMailslot[q] /\ thisMailslot[p] # NoBox => p = q
=============================================================================
