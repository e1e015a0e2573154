------------------------------ MODULE Delivery ------------------------------
(***************************************************************************)
(* How a tweet gets through a mailbox of UBTwitter: other processes write  *)
(* it there again and again, word by word, and the monitor thread of the   *)
(* owner looks, reads, and marks the mailbox empty, without a lock.        *)
(*                                                                         *)
(* One mailbox, with an owner and connections in place.  Its words are     *)
(* FROM and Buffer, which stands for all of pData; CopyMemory promises no  *)
(* order.  Module Twitter has the rest of the processes.                   *)
(***************************************************************************)
EXTENDS Integers, Sequences

CONSTANTS
  Senders,   \* the numbers of the mailboxes of those who write
  Writes,    \* how often a tweet is written, 10
  MaxTweets  \* bound on the tweets of each sender

NO_DATA == 999

ASSUME DeliveryAssumption ==
  /\ Senders \subseteq 0 .. NO_DATA - 1
  /\ Writes \in Nat \ {0} /\ MaxTweets \in [Senders -> Nat]

VARIABLES
  MsgToSend,  \* the tweets each window has queued
  typed,      \* how many tweets each user has sent
  tweet,      \* the tweet each window is writing; 0 is the hello
  left,       \* the writes left of it
  toWrite,    \* the words left of the current write
  mailbox,
  monitor,    \* the point the monitor thread has reached
  toRead,     \* the words left of its read
  readBuffer, \* pTempReadBuffer
  got,        \* history: the tweets received under their sender's number
  unread,     \* history: how many more FROMs were written than received
  mixed       \* history: copies overlapped since the mailbox was empty

senderVars == <<MsgToSend, typed, tweet, left, toWrite>>
monitorVars == <<monitor, toRead, readBuffer>>
vars == <<senderVars, mailbox, monitorVars, got, unread, mixed>>

Words == {"FROM", "Buffer"}
Blank == <<NO_DATA, 0>>   \* the Buffer of a new mailbox
Tweets(s) == 0 .. MaxTweets[s]
Texts == (UNION {{s} \X Tweets(s) : s \in Senders}) \cup {Blank}
Message == [FROM : Senders \cup {NO_DATA}, Buffer : Texts]

(* Inside of a copy; two copies overlap if at some time both are.          *)
Midway(words) == words # {} /\ words # Words

TypeOK ==
  /\ MsgToSend \in [Senders -> Seq(Nat)] /\ got \in [Senders -> SUBSET Nat]
  /\ typed \in [Senders -> Nat] /\ tweet \in [Senders -> Nat]
  /\ \A s \in Senders : /\ MsgToSend[s] \in Seq(Tweets(s))
                        /\ typed[s] \in Tweets(s) /\ tweet[s] \in Tweets(s)
                        /\ got[s] \subseteq Tweets(s)
  /\ left \in [Senders -> 0 .. Writes] /\ toWrite \in [Senders -> SUBSET Words]
  /\ mailbox \in Message /\ readBuffer \in Message
  /\ monitor \in {"test", "read", "clear"} /\ toRead \in SUBSET Words
  /\ unread \in Int /\ mixed \in BOOLEAN

(* The mailbox is empty.  Who has opened it in the constructor has yet to  *)
(* say hello, once; who has learned of it later does not.                  *)
Init ==
  /\ MsgToSend = [s \in Senders |-> <<>>] /\ typed = [s \in Senders |-> 0]
  /\ tweet = [s \in Senders |-> 0] /\ left \in [Senders -> {0, 1}]
  /\ toWrite = [s \in Senders |-> {}]
  /\ mailbox = [FROM |-> NO_DATA, Buffer |-> Blank] /\ readBuffer = mailbox
  /\ monitor = "test" /\ toRead = {}
  /\ got = [s \in Senders |-> {}] /\ unread = 0 /\ mixed = FALSE

-----------------------------------------------------------------------------
(* A sender: one thread, whose handlers run one after the other.           *)

Writing(s) == left[s] > 0 \/ toWrite[s] # {}

OnSendMsg_Click(s) ==
  /\ ~Writing(s) /\ typed[s] < MaxTweets[s]
  /\ typed' = [typed EXCEPT ![s] = @ + 1]
  /\ MsgToSend' = [MsgToSend EXCEPT ![s] = Append(@, typed[s] + 1)]
  /\ UNCHANGED <<tweet, left, toWrite, mailbox, monitorVars, got, unread>>

(* Mutation: a tweet is written once too often.                            *)
RunClientTooOften(s) ==
  /\ ~Writing(s) /\ MsgToSend[s] # <<>>
  /\ tweet' = [tweet EXCEPT ![s] = Head(MsgToSend[s])]
  /\ MsgToSend' = [MsgToSend EXCEPT ![s] = Tail(@)]
  /\ left' = [left EXCEPT ![s] = Writes + 1]
  /\ UNCHANGED <<typed, toWrite, mailbox, monitorVars, got, unread>>

(* RunClient takes the oldest tweet off the queue ...                      *)
RunClient(s) ==
  /\ ~Writing(s) /\ MsgToSend[s] # <<>>
  /\ tweet' = [tweet EXCEPT ![s] = Head(MsgToSend[s])]
  /\ MsgToSend' = [MsgToSend EXCEPT ![s] = Tail(@)]
  /\ left' = [left EXCEPT ![s] = Writes]
  /\ UNCHANGED <<typed, toWrite, mailbox, monitorVars, got, unread>>

(* Mutation: the number of bytes is that of the first word.                *)
WriteTweetsShort(s) ==
  /\ left[s] > 0 /\ toWrite[s] = {}
  /\ left' = [left EXCEPT ![s] = @ - 1]
  /\ toWrite' = [toWrite EXCEPT ![s] = {"FROM"}]
  /\ UNCHANGED <<MsgToSend, typed, tweet, mailbox, monitorVars, got, unread>>

(* ... and calls WriteTweets, which formats the message ...                *)
WriteTweets(s) ==
  /\ left[s] > 0 /\ toWrite[s] = {}
  /\ left' = [left EXCEPT ![s] = @ - 1]
  /\ toWrite' = [toWrite EXCEPT ![s] = Words]
  /\ UNCHANGED <<MsgToSend, typed, tweet, mailbox, monitorVars, got, unread>>

FormatMsgOut(s) == [FROM |-> s, Buffer |-> <<s, tweet[s]>>]

(* ... and copies it into the mailbox, whatever is there.                  *)
WriteWord(s, w) ==
  /\ w \in toWrite[s]
  /\ mailbox' = [mailbox EXCEPT ![w] = FormatMsgOut(s)[w]]
  /\ toWrite' = [toWrite EXCEPT ![s] = @ \ {w}]
  /\ unread' = IF w = "FROM" THEN unread + 1 ELSE unread
  /\ UNCHANGED <<MsgToSend, typed, tweet, left, monitorVars, got>>

-----------------------------------------------------------------------------
(* MonitorIncomingData, in the monitor thread.                             *)

MonitorTest ==
  /\ monitor = "test" /\ mailbox.FROM # NO_DATA
  /\ monitor' = "read" /\ toRead' = Words
  /\ UNCHANGED <<senderVars, mailbox, readBuffer, got, unread>>

MonitorRead(w) ==
  /\ w \in toRead
  /\ readBuffer' = [readBuffer EXCEPT ![w] = mailbox[w]]
  /\ toRead' = toRead \ {w}
  /\ UNCHANGED <<senderVars, mailbox, monitor, got, unread>>

(* Mutation: the mailbox number 0 is taken for no number.                  *)
IsPositive(from) == from > 0

IsValidData(from) == from >= 0

(* The list takes a copy of the message.                                   *)
MonitorPut ==
  LET from == readBuffer.FROM
      text == readBuffer.Buffer
  IN
  /\ monitor = "read" /\ toRead = {}
  /\ IF IsValidData(from)
     THEN /\ monitor' = "clear" /\ unread' = unread - 1
          /\ got' = IF from # text[1] THEN got
                    ELSE [got EXCEPT ![from] = @ \cup {text[2]}]
     ELSE monitor' = "test" /\ UNCHANGED <<got, unread>>
  /\ UNCHANGED <<senderVars, mailbox, toRead, readBuffer>>

(* Mutation: the mailbox is not emptied.                                   *)
MonitorLeaves ==
  /\ monitor = "clear" /\ monitor' = "test"
  /\ UNCHANGED <<senderVars, mailbox, toRead, readBuffer, got, unread>>

(* EmptyMailbox writes FROM only, whatever has come in the meantime.       *)
MonitorClear ==
  /\ monitor = "clear" /\ monitor' = "test"
  /\ mailbox' = [mailbox EXCEPT !.FROM = NO_DATA]
  /\ UNCHANGED <<senderVars, toRead, readBuffer, got, unread>>

Client(s) ==
  RunClient(s) \/ WriteTweets(s) \/ \E w \in Words : WriteWord(s, w)

Monitor ==
  \/ MonitorTest \/ (\E w \in Words : MonitorRead(w)) \/ MonitorPut
  \/ MonitorClear

(* The history variable `mixed`.                                           *)
Overlap ==
  \/ \E s, t \in Senders : s # t /\ Midway(toWrite[s]) /\ Midway(toWrite[t])
  \/ Midway(toRead) /\ \E s \in Senders : Midway(toWrite[s])

Empty ==
  /\ mailbox.FROM = NO_DATA /\ monitor = "test"
  /\ \A s \in Senders : ~Midway(toWrite[s])

Mix == mixed' = (~Empty' /\ (mixed \/ Overlap'))

Next ==
  /\ (\E s \in Senders : OnSendMsg_Click(s) \/ Client(s)) \/ Monitor
  /\ Mix

Spec == Init /\ [][Next]_vars

(* Timers and threads go on; nobody has to tweet.                          *)
FairSpec ==
  /\ Spec
  /\ \A s \in Senders : WF_vars(Client(s) /\ Mix)
  /\ WF_vars(Monitor /\ Mix)

-----------------------------------------------------------------------------
(***************************************************************************)
(* Properties.                                                             *)
(***************************************************************************)

(* The tweet of s is in the mailbox, it will be written at least once      *)
(* more, the monitor thread is about to look, and nobody else writes.      *)
HasChance(s) ==
  /\ "FROM" \in toWrite[s] \/ left[s] > 0
  /\ mailbox.Buffer = <<s, tweet[s]>> /\ mailbox.FROM \in {s, NO_DATA}
  /\ monitor = "test"
  /\ \A t \in Senders \ {s} : ~Writing(t)

(* Why RunClient writes a tweet ten times (Twitter.h:281): EmptyMailbox    *)
(* may wipe out any one write unread, but if the monitor thread comes back *)
(* to its test between the first write and the last, the tweet is          *)
(* received, unless another process, or the next tweet, overwrites it.     *)
TweetArrives ==
  \A s \in Senders : \A k \in Tweets(s) \ {0} :
    HasChance(s) /\ tweet[s] = k
      ~> \/ k \in got[s]
         \/ tweet[s] # k \/ \E t \in Senders \ {s} : Writing(t)

(* A write is received once at most (MonitorIncomingData), although reader *)
(* and writers do not know of each other.                                  *)
NoMoreThanWritten == unread >= 0

(* A message has the number of one process and the text of another, or no  *)
(* text, only if a copy into or out of the mailbox overlapped another one  *)
(* since it was last empty (SharedMemoryIO::Write and Read).               *)
TornOnlyIfOverlapped ==
  monitor = "read" /\ toRead = {} /\ readBuffer.FROM # readBuffer.Buffer[1]
    => mixed
=============================================================================
