--------------------------- MODULE DeliveryProofs ---------------------------
(***************************************************************************)
(* Theorems about Delivery for any number of senders, writes and tweets.   *)
(***************************************************************************)
EXTENDS Delivery, SequenceTheorems, TLAPS

Step == (\E s \in Senders : OnSendMsg_Click(s) \/ Client(s)) \/ Monitor

(* Assigning one word of the mailbox or of the monitor thread's buffer.    *)
LEMMA WordAssigned ==
  ASSUME NEW m \in Message, NEW n \in Message, NEW w \in Words
  PROVE  /\ [m EXCEPT ![w] = n[w]] \in Message
         /\ [m EXCEPT ![w] = n[w]].FROM = IF w = "FROM" THEN n.FROM ELSE m.FROM
         /\ [m EXCEPT ![w] = n[w]].Buffer =
              IF w = "Buffer" THEN n.Buffer ELSE m.Buffer
<1>1. CASE w = "FROM"
  BY <1>1 DEF Message
<1>2. CASE w = "Buffer"
  BY <1>2 DEF Message
<1>. QED BY <1>1, <1>2 DEF Words

LEMMA FormatMsgOutType ==
  ASSUME TypeOK, NEW s \in Senders
  PROVE  /\ FormatMsgOut(s) \in Message
         /\ FormatMsgOut(s).FROM = s /\ FormatMsgOut(s).Buffer[1] = s
BY DEF TypeOK, FormatMsgOut, Message, Texts

(* A Buffer with an author among the senders is a tweet of this author.    *)
LEMMA TextOfSender ==
  ASSUME NEW text \in Texts, text[1] \in Senders
  PROVE  text[2] \in Tweets(text[1])
<1>. NO_DATA \notin Senders
  BY DeliveryAssumption DEF NO_DATA
<1>. QED BY DEF Texts, Blank

(***************************************************************************)
(* Type correctness.                                                       *)
(***************************************************************************)

LEMMA TweetsInNat == \A s \in Senders : Tweets(s) \subseteq Nat
BY DeliveryAssumption DEF Tweets

LEMMA SenderStepType ==
  ASSUME TypeOK, NEW s \in Senders, OnSendMsg_Click(s) \/ Client(s),
         mixed' \in BOOLEAN
  PROVE  TypeOK'
<1>. USE DEF TypeOK, monitorVars
<1>1. CASE OnSendMsg_Click(s)
  <2>1. typed[s] + 1 \in Tweets(s) /\ typed[s] + 1 \in Nat
    <3>. HIDE DEF TypeOK
    <3>1. typed[s] \in Nat /\ typed[s] < MaxTweets[s]
      BY <1>1 DEF OnSendMsg_Click, TypeOK
    <3>2. MaxTweets[s] \in Nat
      BY DeliveryAssumption
    <3>. QED BY <3>1, <3>2 DEF Tweets
  <2>2. /\ Append(MsgToSend[s], typed[s] + 1) \in Seq(Tweets(s))
        /\ Append(MsgToSend[s], typed[s] + 1) \in Seq(Nat)
    <3>. HIDE DEF TypeOK
    <3>1. MsgToSend[s] \in Seq(Tweets(s)) /\ MsgToSend[s] \in Seq(Nat)
      BY DEF TypeOK
    <3>. QED BY <2>1, <3>1, AppendProperties
  <2>3. /\ typed' \in [Senders -> Nat] /\ MsgToSend' \in [Senders -> Seq(Nat)]
        /\ \A t \in Senders : MsgToSend'[t] \in Seq(Tweets(t))
        /\ \A t \in Senders : typed'[t] \in Tweets(t)
    BY <1>1, <2>1, <2>2 DEF OnSendMsg_Click
  <2>. QED BY <1>1, <2>3 DEF OnSendMsg_Click
<1>2. CASE RunClient(s)
  <2>1. /\ Head(MsgToSend[s]) \in Tweets(s) /\ Head(MsgToSend[s]) \in Nat
        /\ Tail(MsgToSend[s]) \in Seq(Tweets(s))
        /\ Tail(MsgToSend[s]) \in Seq(Nat)
    <3>. HIDE DEF TypeOK
    <3>1. /\ MsgToSend[s] \in Seq(Tweets(s)) /\ MsgToSend[s] \in Seq(Nat)
          /\ MsgToSend[s] # <<>>
      BY <1>2 DEF TypeOK, RunClient
    <3>. QED BY <3>1, HeadTailProperties
  <2>2. /\ tweet' \in [Senders -> Nat] /\ MsgToSend' \in [Senders -> Seq(Nat)]
        /\ \A t \in Senders : MsgToSend'[t] \in Seq(Tweets(t))
        /\ \A t \in Senders : tweet'[t] \in Tweets(t)
    BY <1>2, <2>1 DEF RunClient
  <2>3. left' \in [Senders -> 0 .. Writes]
    BY <1>2, DeliveryAssumption DEF RunClient
  <2>. QED BY <1>2, <2>2, <2>3 DEF RunClient
<1>3. CASE WriteTweets(s)
  <2>1. left' \in [Senders -> 0 .. Writes]
    BY <1>3, DeliveryAssumption DEF WriteTweets
  <2>2. toWrite' \in [Senders -> SUBSET Words]
    BY <1>3 DEF WriteTweets
  <2>. QED BY <1>3, <2>1, <2>2 DEF WriteTweets
<1>4. ASSUME NEW w \in Words, WriteWord(s, w)
      PROVE  TypeOK'
  <2>1. mailbox' \in Message
    BY <1>4, WordAssigned, FormatMsgOutType DEF WriteWord
  <2>2. toWrite' \in [Senders -> SUBSET Words]
    BY <1>4 DEF WriteWord
  <2>3. unread' \in Int
    BY <1>4 DEF WriteWord
  <2>. QED BY <1>4, <2>1, <2>2, <2>3 DEF WriteWord
<1>. QED BY <1>1, <1>2, <1>3, <1>4 DEF Client

LEMMA MonitorType ==
  ASSUME TypeOK, Monitor, mixed' \in BOOLEAN
  PROVE  TypeOK'
<1>. USE DEF TypeOK, senderVars
<1>1. CASE MonitorTest
  BY <1>1 DEF MonitorTest
<1>2. ASSUME NEW w \in Words, MonitorRead(w)
      PROVE  TypeOK'
  <2>1. readBuffer' \in Message
    BY <1>2, WordAssigned DEF MonitorRead
  <2>. QED BY <1>2, <2>1 DEF MonitorRead
<1>3. CASE MonitorPut
  <2>. DEFINE from == readBuffer.FROM
              text == readBuffer.Buffer
  <2>1. /\ text \in Texts /\ from \in Senders \cup {NO_DATA}
    BY DEF Message
  <2>2. CASE got' = got
    BY <1>3, <2>2 DEF MonitorPut
  <2>3. CASE got' # got
    <3>1. /\ from = text[1] /\ monitor' = "clear" /\ unread' = unread - 1
          /\ got' = [got EXCEPT ![from] = @ \cup {text[2]}]
      BY <1>3, <2>3 DEF MonitorPut
    <3>2. from \in Senders
      BY <2>1, <2>3, <3>1
    <3>3. text[2] \in Tweets(from) /\ text[2] \in Nat
      BY <2>1, <3>1, <3>2, TextOfSender, TweetsInNat
    <3>. HIDE DEF from, text
    <3>4. /\ got' \in [Senders -> SUBSET Nat]
          /\ \A t \in Senders : got'[t] \subseteq Tweets(t)
      BY <3>1, <3>2, <3>3
    <3>. QED BY <1>3, <3>1, <3>4 DEF MonitorPut
  <2>. QED BY <2>2, <2>3
<1>4. CASE MonitorClear
  BY <1>4 DEF MonitorClear, Message
<1>. QED BY <1>1, <1>2, <1>3, <1>4 DEF Monitor

LEMMA InitType == Init => TypeOK
<1>. USE DeliveryAssumption
<1>1. SUFFICES ASSUME Init PROVE TypeOK
  OBVIOUS
<1>2. \A s \in Senders : <<>> \in Seq(Tweets(s)) /\ 0 \in Tweets(s)
  BY EmptySeq DEF Tweets
<1>3. mailbox \in Message /\ readBuffer \in Message
  BY <1>1 DEF Init, Message, Texts
<1>4. <<>> \in Seq(Nat)
  BY EmptySeq
<1>5. left \in [Senders -> 0 .. Writes] /\ toWrite \in [Senders -> SUBSET Words]
  BY <1>1 DEF Init
<1>6. /\ MsgToSend \in [Senders -> Seq(Nat)] /\ got \in [Senders -> SUBSET Nat]
      /\ typed \in [Senders -> Nat] /\ tweet \in [Senders -> Nat]
      /\ \A s \in Senders : /\ MsgToSend[s] \in Seq(Tweets(s))
                            /\ typed[s] \in Tweets(s) /\ tweet[s] \in Tweets(s)
                            /\ got[s] \subseteq Tweets(s)
  BY <1>1, <1>2, <1>4 DEF Init
<1>7. /\ monitor \in {"test", "read", "clear"} /\ toRead \in SUBSET Words
      /\ unread \in Int
  BY <1>1 DEF Init
<1>8. mixed \in BOOLEAN
  BY <1>1 DEF Init
<1>. QED BY <1>3, <1>5, <1>6, <1>7, <1>8 DEF TypeOK

(* The variables of Delivery keep their types.                             *)
THEOREM TypeCorrect == Spec => []TypeOK
<1>1. TypeOK /\ [Next]_vars => TypeOK'
  <2>1. CASE UNCHANGED vars
    BY <2>1 DEF TypeOK, vars, senderVars, monitorVars
  <2>2. CASE Next
    <3>1. TypeOK => mixed' \in BOOLEAN
      BY <2>2 DEF Next, Mix, TypeOK
    <3>. QED BY <2>2, <3>1, SenderStepType, MonitorType DEF Next
  <2>. QED BY <2>1, <2>2
<1>. QED BY <1>1, InitType, PTL DEF Spec
(***************************************************************************)
(* A write is received once at most.  Receiving takes one off `unread`, so *)
(* before it one must be there: it is from the test on, and while nothing  *)
(* is unread the mailbox that is tested is empty.                          *)
(***************************************************************************)

ReadOnce ==
  /\ unread >= 0
  /\ monitor = "read" => unread >= 1
  /\ monitor = "test" /\ mailbox.FROM # NO_DATA => unread >= 1

LEMMA ReadOnceStep ==
  ASSUME TypeOK, ReadOnce, Step
  PROVE  ReadOnce'
<1>. USE DEF ReadOnce
<1>1. ASSUME NEW s \in Senders,
             OnSendMsg_Click(s) \/ RunClient(s) \/ WriteTweets(s)
      PROVE  ReadOnce'
  BY <1>1 DEF OnSendMsg_Click, RunClient, WriteTweets, monitorVars
<1>2. ASSUME NEW s \in Senders, NEW w \in Words, WriteWord(s, w)
      PROVE  ReadOnce'
  <2>1. mailbox'.FROM # mailbox.FROM => unread' = unread + 1
    BY <1>2, WordAssigned, FormatMsgOutType DEF TypeOK, WriteWord
  <2>. QED BY <1>2, <2>1 DEF WriteWord, monitorVars, TypeOK
<1>3. CASE MonitorTest
  BY <1>3 DEF MonitorTest
<1>4. ASSUME NEW w \in Words, MonitorRead(w)
      PROVE  ReadOnce'
  BY <1>4 DEF MonitorRead
<1>5. CASE MonitorPut
  BY <1>5 DEF MonitorPut, TypeOK
<1>6. CASE MonitorClear
  BY <1>6 DEF MonitorClear, TypeOK, Message
<1>. QED BY <1>1, <1>2, <1>3, <1>4, <1>5, <1>6 DEF Step, Client, Monitor

(* The monitor thread never receives more messages than were written.      *)
THEOREM NothingInvented == Spec => []NoMoreThanWritten
<1>1. Init => ReadOnce
  BY DEF Init, ReadOnce
<1>2. TypeOK /\ ReadOnce /\ [Next]_vars => ReadOnce'
  <2>1. CASE UNCHANGED vars
    BY <2>1 DEF ReadOnce, vars, monitorVars
  <2>. QED BY <2>1, ReadOnceStep DEF Next, Step
<1>3. ReadOnce => NoMoreThanWritten
  BY DEF ReadOnce, NoMoreThanWritten
<1>. QED BY <1>1, <1>2, <1>3, TypeCorrect, PTL DEF Spec
(***************************************************************************)
(* Torn messages.  As long as no two copies overlap, the two words of the  *)
(* mailbox agree whenever nobody is inside of a write; during a write or a *)
(* read the word that is already copied agrees with the writer or with the *)
(* mailbox.                                                                *)
(***************************************************************************)

Quiet == \A s \in Senders : ~Midway(toWrite[s])

WholeMailbox == Quiet => mailbox.FROM \in {NO_DATA, mailbox.Buffer[1]}

HalfWritten ==
  \A s \in Senders :
    /\ toWrite[s] = {"Buffer"} => mailbox.FROM \in {NO_DATA, s}
    /\ toWrite[s] = {"FROM"} => mailbox.Buffer[1] = s

HalfRead ==
  monitor = "read" =>
    /\ mailbox.FROM # NO_DATA
    /\ toRead = {"Buffer"} => readBuffer.FROM = mailbox.FROM
    /\ toRead = {"FROM"} => readBuffer.Buffer = mailbox.Buffer
    /\ toRead = {} => readBuffer.FROM = readBuffer.Buffer[1]

Apart ==
  /\ Overlap => mixed
  /\ ~mixed => WholeMailbox /\ HalfWritten /\ HalfRead
  /\ monitor # "read" => toRead = {}

LEMMA MidwayWords ==
  ASSUME NEW ws \in SUBSET Words
  PROVE  /\ Midway(ws) <=> ws = {"FROM"} \/ ws = {"Buffer"}
         /\ ~Midway(ws) <=> ws = {} \/ ws = Words
         /\ ws \ {"FROM"} = {"Buffer"} <=> "Buffer" \in ws
         /\ ws \ {"Buffer"} = {"FROM"} <=> "FROM" \in ws
         /\ ws \ {"FROM"} = {} <=> "Buffer" \notin ws
         /\ ws \ {"Buffer"} = {} <=> "FROM" \notin ws
         /\ "FROM" \in ws /\ ws \ {"FROM"} = {} => ws = {"FROM"}
         /\ "Buffer" \in ws /\ ws \ {"Buffer"} = {} => ws = {"Buffer"}
<1>1. ws = {} \/ ws = {"FROM"} \/ ws = {"Buffer"} \/ ws = Words
  BY DEF Words
<1>. USE DEF Midway, Words
<1>2. CASE ws = {}
  BY <1>2
<1>3. CASE ws = {"FROM"}
  BY <1>3
<1>4. CASE ws = {"Buffer"}
  BY <1>4
<1>5. CASE ws = Words
  BY <1>5
<1>. QED BY <1>1, <1>2, <1>3, <1>4, <1>5

(* The steps of a sender but for its writes do not begin or end a copy.    *)
LEMMA ApartOutside ==
  ASSUME TypeOK, ~Overlap', WholeMailbox, HalfWritten, HalfRead,
         NEW s \in Senders,
         OnSendMsg_Click(s) \/ RunClient(s) \/ WriteTweets(s)
  PROVE  WholeMailbox' /\ HalfWritten' /\ HalfRead'
<1>1. UNCHANGED <<mailbox, monitor, toRead, readBuffer>>
  BY DEF OnSendMsg_Click, RunClient, WriteTweets, monitorVars
<1>2. \A t \in Senders : \/ toWrite'[t] = toWrite[t]
                         \/ toWrite[t] = {} /\ toWrite'[t] = Words
  <2>1. CASE WriteTweets(s)
    <3>1. toWrite \in [Senders -> SUBSET Words]
      BY DEF TypeOK
    <3>. QED BY <2>1, <3>1 DEF WriteTweets
  <2>. QED BY <2>1 DEF OnSendMsg_Click, RunClient
<1>3. \A t \in Senders : Midway(toWrite'[t]) <=> Midway(toWrite[t])
  BY <1>2 DEF Midway
<1>4. Words # {"FROM"} /\ Words # {"Buffer"}
  BY DEF Words
<1>. QED BY <1>1, <1>2, <1>3, <1>4
            DEF WholeMailbox, HalfWritten, HalfRead, Quiet

LEMMA ApartWrite ==
  ASSUME TypeOK, TypeOK', ~Overlap, ~Overlap',
         WholeMailbox, HalfWritten, HalfRead,
         NEW s \in Senders, NEW w \in Words, WriteWord(s, w)
  PROVE  WholeMailbox' /\ HalfWritten' /\ HalfRead'
<1>1. UNCHANGED <<monitor, toRead, readBuffer>>
  BY DEF WriteWord, monitorVars
<1>2. /\ mailbox'.FROM = IF w = "FROM" THEN s ELSE mailbox.FROM
      /\ mailbox'.Buffer[1] = IF w = "Buffer" THEN s ELSE mailbox.Buffer[1]
  <2>1. /\ mailbox \in Message
        /\ mailbox' = [mailbox EXCEPT ![w] = FormatMsgOut(s)[w]]
    BY DEF TypeOK, WriteWord
  <2>. QED BY <2>1, WordAssigned, FormatMsgOutType
<1>3. /\ \A t \in Senders : toWrite[t] \in SUBSET Words
      /\ \A t \in Senders : toWrite'[t] \in SUBSET Words
      /\ toRead \in SUBSET Words
  <2>1. /\ toWrite \in [Senders -> SUBSET Words]
        /\ toWrite' \in [Senders -> SUBSET Words]
        /\ toRead \in SUBSET Words
    BY DEF TypeOK
  <2>. QED BY <2>1
<1>4. /\ w \in toWrite[s] /\ toWrite'[s] = toWrite[s] \ {w}
      /\ \A t \in Senders \ {s} : toWrite'[t] = toWrite[t]
  BY DEF TypeOK, WriteWord
<1>5. w = "FROM" \/ w = "Buffer"
  BY DEF Words
<1>6. Midway(toWrite[s]) \/ Midway(toWrite'[s])
  BY <1>3, <1>4, <1>5 DEF Midway, Words
<1>7. /\ \A t \in Senders \ {s} : ~Midway(toWrite[t])
      /\ ~Midway(toRead)
  BY <1>1, <1>4, <1>6 DEF Overlap
<1>8. NO_DATA # s
  BY DeliveryAssumption DEF NO_DATA
<1>9. WholeMailbox'
  BY <1>2, <1>3, <1>4, <1>5, MidwayWords DEF WholeMailbox, HalfWritten, Quiet
<1>10. HalfWritten'
  <2>1. CASE w = "FROM"
    <3>1. toWrite'[s] # {"FROM"}
      BY <1>4, <2>1
    <3>. QED BY <1>2, <1>3, <1>4, <1>7, <2>1, <3>1, MidwayWords DEF HalfWritten
  <2>2. CASE w = "Buffer"
    <3>1. toWrite'[s] # {"Buffer"}
      BY <1>4, <2>2
    <3>. QED BY <1>2, <1>3, <1>4, <1>7, <2>2, <3>1, MidwayWords DEF HalfWritten
  <2>. QED BY <1>5, <2>1, <2>2
<1>11. HalfRead'
  BY <1>1, <1>2, <1>3, <1>7, <1>8, MidwayWords DEF HalfRead
<1>. QED BY <1>9, <1>10, <1>11

LEMMA ApartMonitor ==
  ASSUME TypeOK, TypeOK', ~Overlap, ~Overlap',
         WholeMailbox, HalfWritten, HalfRead,
         Monitor
  PROVE  WholeMailbox' /\ HalfWritten' /\ HalfRead'
<1>1. toWrite' = toWrite
  BY DEF Monitor, MonitorTest, MonitorRead, MonitorPut, MonitorClear, senderVars
<1>2. CASE MonitorTest
  <2>1. Words # {"FROM"} /\ Words # {"Buffer"} /\ Words # {}
    BY DEF Words
  <2>. QED BY <1>1, <1>2, <2>1
              DEF MonitorTest, WholeMailbox, HalfWritten, HalfRead, Quiet
<1>3. ASSUME NEW w \in Words, MonitorRead(w)
      PROVE  WholeMailbox' /\ HalfWritten' /\ HalfRead'
  <2>1. UNCHANGED <<mailbox, monitor>> /\ w \in toRead /\ toRead' = toRead \ {w}
    BY <1>3 DEF MonitorRead
  <2>2. /\ readBuffer'.FROM = IF w = "FROM" THEN mailbox.FROM ELSE readBuffer.FROM
        /\ readBuffer'.Buffer =
             IF w = "Buffer" THEN mailbox.Buffer ELSE readBuffer.Buffer
    <3>1. /\ mailbox \in Message /\ readBuffer \in Message
          /\ readBuffer' = [readBuffer EXCEPT ![w] = mailbox[w]]
      BY <1>3 DEF TypeOK, MonitorRead
    <3>. QED BY <3>1, WordAssigned
  <2>3. /\ toRead \in SUBSET Words /\ toRead' \in SUBSET Words
        /\ w \in {"FROM", "Buffer"}
    <3>1. w \in {"FROM", "Buffer"}
      BY DEF Words
    <3>. QED BY <3>1 DEF TypeOK
  <2>4. Midway(toRead) \/ Midway(toRead')
    BY <2>1, <2>3 DEF Midway, Words
  <2>5. Quiet
    BY <1>1, <2>4 DEF Overlap, Quiet
  <2>6. WholeMailbox' /\ HalfWritten'
    BY <1>1, <2>1 DEF WholeMailbox, HalfWritten, Quiet
  <2>7. ASSUME monitor = "read"
        PROVE  mailbox.FROM # NO_DATA /\ mailbox.FROM = mailbox.Buffer[1]
    BY <2>5, <2>7 DEF WholeMailbox, HalfRead
  <2>8. CASE toRead' = {}
    <3>1. toRead = {w}
      BY <2>1, <2>3, <2>8, MidwayWords
    <3>2. {} # {"FROM"} /\ {} # {"Buffer"}
      OBVIOUS
    <3>. QED BY <2>1, <2>2, <2>3, <2>6, <2>7, <2>8, <3>1, <3>2 DEF HalfRead
  <2>9. CASE toRead' # {}
    <3>1. /\ toRead' = {"Buffer"} => w = "FROM"
          /\ toRead' = {"FROM"} => w = "Buffer"
      BY <2>1, <2>3
    <3>. QED BY <2>1, <2>2, <2>6, <2>7, <2>9, <3>1 DEF HalfRead
  <2>. QED BY <2>8, <2>9
<1>4. CASE MonitorPut
  BY <1>1, <1>4 DEF MonitorPut, WholeMailbox, HalfWritten, HalfRead, Quiet
<1>5. CASE MonitorClear
  <2>1. /\ monitor' = "test" /\ mailbox'.FROM = NO_DATA
        /\ mailbox'.Buffer = mailbox.Buffer
    BY <1>5 DEF MonitorClear, TypeOK, Message
  <2>. QED BY <1>1, <2>1 DEF WholeMailbox, HalfWritten, HalfRead, Quiet
<1>. QED BY <1>2, <1>3, <1>4, <1>5 DEF Monitor

LEMMA ApartStep ==
  ASSUME TypeOK, TypeOK', Apart, Step, Mix
  PROVE  Apart'
<1>1. Overlap' => mixed'
  BY DEF Mix, Overlap, Empty
<1>2. (monitor # "read" => toRead = {})'
  BY DEF Apart, Step, Client, Monitor, OnSendMsg_Click, RunClient, WriteTweets,
         WriteWord, MonitorTest, MonitorRead, MonitorPut, MonitorClear,
         monitorVars
<1>3. ASSUME ~mixed'
      PROVE  WholeMailbox' /\ HalfWritten' /\ HalfRead'
  <2>1. CASE Empty'
    <3>1. /\ mailbox'.FROM = NO_DATA /\ monitor' = "test"
          /\ \A s \in Senders : ~Midway(toWrite'[s])
      BY <2>1 DEF Empty
    <3>2. \A s \in Senders : toWrite'[s] # {"FROM"} /\ toWrite'[s] # {"Buffer"}
      BY <3>1 DEF Midway, Words
    <3>. QED BY <3>1, <3>2 DEF WholeMailbox, HalfWritten, HalfRead
  <2>2. CASE ~Empty'
    <3>1. ~mixed /\ ~Overlap' /\ ~Overlap
      BY <1>3, <2>2 DEF Mix, Apart
    <3>2. WholeMailbox /\ HalfWritten /\ HalfRead
      BY <3>1 DEF Apart
    <3>. QED BY <3>1, <3>2, ApartOutside, ApartWrite, ApartMonitor
                DEF Step, Client
  <2>. QED BY <2>1, <2>2
<1>. QED BY <1>1, <1>2, <1>3 DEF Apart

(* A received message is torn only if copies overlapped.                   *)
THEOREM NotTornAlone == Spec => []TornOnlyIfOverlapped
<1>1. Init => Apart
  <2>1. SUFFICES ASSUME Init PROVE Apart
    OBVIOUS
  <2>2. /\ mailbox.FROM = NO_DATA /\ monitor = "test" /\ toRead = {}
        /\ \A s \in Senders : toWrite[s] = {}
    BY <2>1 DEF Init
  <2>3. \A s \in Senders : ~Midway(toWrite[s])
    BY <2>2 DEF Midway
  <2>4. {} # {"FROM"} /\ {} # {"Buffer"}
    OBVIOUS
  <2>. QED BY <2>2, <2>3, <2>4
              DEF Apart, Overlap, WholeMailbox, HalfWritten, HalfRead
<1>2. TypeOK /\ TypeOK' /\ Apart /\ [Next]_vars => Apart'
  <2>1. CASE UNCHANGED vars
    BY <2>1 DEF Apart, WholeMailbox, HalfWritten, HalfRead, Quiet, Overlap,
                vars, senderVars, monitorVars
  <2>. QED BY <2>1, ApartStep DEF Next, Step
<1>3. TypeOK /\ Apart => TornOnlyIfOverlapped
  BY DEF TypeOK, Apart, HalfRead, TornOnlyIfOverlapped
<1>. QED BY <1>1, <1>2, <1>3, TypeCorrect, PTL DEF Spec
=============================================================================
