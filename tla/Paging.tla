------------------------------- MODULE Paging -------------------------------
(***************************************************************************)
(* The page replacement program of project4 (MemoryManagementPart2.cpp):   *)
(* main runs the same reference string with FIFO, LRU and the optimal      *)
(* algorithm and counts the page faults of each.                           *)
(*                                                                         *)
(* One step is one pass of Run's loop.  An address stands for its page     *)
(* (getPageNumber); the bytes of a page stand for the page.  Opening the   *)
(* backing store may fail at any load.                                     *)
(***************************************************************************)
EXTENDS PageHistory

CONSTANTS
  NUMBER_OF_FRAMES,  \* 3
  Pages,             \* the pages of the reference string
  MaxLength,         \* bound on the reference string (128 in main)
  MaxFailures        \* bound on the loads that fail

(* With one frame RemoveTail would never empty the list.                   *)
ASSUME PagingAssumption ==
  /\ NUMBER_OF_FRAMES \in Nat /\ NUMBER_OF_FRAMES >= 2
  /\ MaxLength \in Nat \ {0} /\ MaxFailures \in Nat
  /\ NoPage \notin Pages

VARIABLES
  addressList, \* main's addressPtr
  alg,         \* the algorithm of the current Run; "done" after the third
  PC,          \* the index of Run's loop, counted from 1
  TLB,         \* the page of each frame (the frame column is the index)
  physical_memory, \* the page whose data each frame points to
  history,
  fault_count, \* of each Run
  failures,    \* history: loads that failed so far
  misplaced,   \* history: swapPage_Optimal returned a wrong frame for a hit
  hung         \* Remove is in its endless loop

vars == <<addressList, alg, PC, TLB, physical_memory, history, fault_count,
          failures, misplaced, hung>>

Algorithms == {"FIFO", "LRU", "OPTIMUM"}
Frames == 0 .. NUMBER_OF_FRAMES - 1
NOT_FOUND == -1

EmptyFrames == [f \in Frames |-> NoPage]

TypeOK ==
  /\ addressList \in Seq(Pages) /\ Len(addressList) \in 1 .. MaxLength
  /\ alg \in Algorithms \cup {"done"}
  /\ PC \in 1 .. Len(addressList) + 1
  /\ TLB \in [Frames -> Pages \cup {NoPage}]
  /\ physical_memory \in [Frames -> Pages \cup {NoPage}]
  /\ history \in Seq(Pages)
  /\ fault_count \in [Algorithms -> 0 .. MaxLength]
  /\ failures \in 0 .. MaxFailures
  /\ misplaced \in BOOLEAN /\ hung \in BOOLEAN

Init ==
  /\ addressList \in UNION {[1 .. n -> Pages] : n \in 1 .. MaxLength}
  /\ alg = "FIFO" /\ PC = 1
  /\ TLB = EmptyFrames /\ physical_memory = EmptyFrames
  /\ history = <<>>
  /\ fault_count = [a \in Algorithms |-> 0]
  /\ failures = 0 /\ misplaced = FALSE /\ hung = FALSE

page == addressList[PC]

(* The first frame of a set, or NOT_FOUND.                                 *)
FirstOf(frames) == IF frames = {} THEN NOT_FOUND ELSE Min(frames)

(* Mutation: the loop over the TLB ends one frame early.                   *)
isLoadedButLast(p) == FirstOf({f \in Frames : TLB[f] = p /\ f + 1 \in Frames})

is_PageLoaded(p) == FirstOf({f \in Frames : TLB[f] = p})
findEmptyFrame == FirstOf({f \in Frames : TLB[f] = NoPage})
Hit == is_PageLoaded(page) # NOT_FOUND

(* Mutation: the page is entered in the TLB whether or not it was loaded.  *)
LoadUnchecked(frame) ==
  \/ /\ frame \in Frames
     /\ physical_memory' = [physical_memory EXCEPT ![frame] = page]
     /\ TLB' = [TLB EXCEPT ![frame] = page]
     /\ UNCHANGED failures
  \/ /\ frame \in Frames /\ failures < MaxFailures
     /\ failures' = failures + 1
     /\ TLB' = [TLB EXCEPT ![frame] = page]
     /\ UNCHANGED physical_memory
  \/ /\ frame \notin Frames
     /\ UNCHANGED <<TLB, physical_memory, failures>>

(* The end of a pass: load_LogicalToPhysical, and update_TLB if that       *)
(* returned true.  It returns false without a valid frame or a file.       *)
Load(frame) ==
  \/ /\ frame \in Frames
     /\ physical_memory' = [physical_memory EXCEPT ![frame] = page]
     /\ TLB' = [TLB EXCEPT ![frame] = page]
     /\ UNCHANGED failures
  \/ /\ frame \in Frames /\ failures < MaxFailures
     /\ failures' = failures + 1
     /\ UNCHANGED <<TLB, physical_memory>>
  \/ /\ frame \notin Frames
     /\ UNCHANGED <<TLB, physical_memory, failures>>

(* Mutation: a fault is counted both in Run and in the swap.               *)
PassCountsTwice(a) ==
  /\ alg = a /\ ~hung
  /\ PC <= Len(addressList)
  /\ PC' = PC + 1
  /\ fault_count' = [fault_count EXCEPT ![a] = IF Hit THEN @ ELSE @ + 2]
  /\ UNCHANGED <<addressList, alg, hung>>

Pass(a) ==
  /\ alg = a /\ ~hung
  /\ PC <= Len(addressList)
  /\ PC' = PC + 1
  /\ fault_count' = [fault_count EXCEPT ![a] = IF Hit THEN @ ELSE @ + 1]
  /\ UNCHANGED <<addressList, alg, hung>>

(* Mutation: the history forgets the oldest page when there is room, too.  *)
SwapAlways ==
  /\ history' = AddToHead(WithoutTail(history), page)
  /\ Load(IF findEmptyFrame # NOT_FOUND THEN findEmptyFrame
          ELSE is_PageLoaded(TailPage(history)))

(* What a miss does in swapPage_FIFO and in swapPage_LRU: an empty frame,  *)
(* or the frame of the page at the tail of the history, which has no frame *)
(* if its load failed.  The history is changed before the page is loaded.  *)
SwapByHistory ==
  IF findEmptyFrame # NOT_FOUND
  THEN /\ history' = AddToHead(history, page)
       /\ Load(findEmptyFrame)
  ELSE /\ history' = AddToHead(WithoutTail(history), page)
       /\ Load(is_PageLoaded(TailPage(history)))

PassFIFO ==
  /\ Pass("FIFO")
  /\ \/ ~Hit /\ SwapByHistory
     \/ Hit /\ Load(is_PageLoaded(page)) /\ UNCHANGED history
  /\ UNCHANGED misplaced

PassLRU ==
  /\ Pass("LRU")
  /\ \/ ~Hit /\ SwapByHistory
     \/ /\ Hit /\ MoveToHeadEnds(history, page)
        /\ history' = MoveToHead(history, page)
        /\ Load(is_PageLoaded(page))
  /\ UNCHANGED misplaced

(* A page that is loaded but no longer in the history: MoveToHead hangs.   *)
HangLRU ==
  /\ alg = "LRU" /\ ~hung /\ PC <= Len(addressList)
  /\ Hit /\ ~MoveToHeadEnds(history, page)
  /\ hung' = TRUE
  /\ UNCHANGED <<addressList, alg, PC, TLB, physical_memory, history,
                 fault_count, failures, misplaced>>

(* Mutation: the search stops before the last reference.                   *)
UsesButLast(f) ==
  {j \in PC + 1 .. Len(addressList) - 1 : addressList[j] = TLB[f]}

(* Where the reference string still uses frame f's page, and the first of  *)
(* these positions; 0 if there is none.                                    *)
Uses(f) == {j \in PC + 1 .. Len(addressList) : addressList[j] = TLB[f]}

NextUse(f) == IF Uses(f) = {} THEN 0 ELSE Min(Uses(f))

(* The frame that swapPage_Optimal's loop picks: the first whose page is   *)
(* not used again, else the first one whose next use is furthest away.     *)
Furthest ==
  LET unused == {f \in Frames : NextUse(f) = 0}
  IN  IF unused # {} THEN Min(unused)
      ELSE Min({f \in Frames : \A g \in Frames : NextUse(g) <= NextUse(f)})

(* swapPage_Optimal returns only when the page was not loaded.  For a page *)
(* that is, it runs off its end without a return statement, and Run uses   *)
(* whatever is in the register: any frame, or none.                        *)
PassOptimal ==
  /\ Pass("OPTIMUM")
  /\ \/ /\ ~Hit
        /\ Load(IF findEmptyFrame # NOT_FOUND THEN findEmptyFrame ELSE Furthest)
        /\ UNCHANGED misplaced
     \/ /\ Hit
        /\ \E frame \in Frames \cup {NOT_FOUND} :
             /\ Load(frame)
             /\ misplaced' = (misplaced \/ TLB' # TLB)
  /\ UNCHANGED history

(* The end of a Run.  main makes a new history after FIFO; after LRU it    *)
(* keeps the old one, which the optimal algorithm does not use.            *)
NextRun ==
  /\ alg \in {"FIFO", "LRU"} /\ ~hung
  /\ PC = Len(addressList) + 1
  /\ alg' = IF alg = "FIFO" THEN "LRU" ELSE "OPTIMUM"
  /\ history' = IF alg = "FIFO" THEN <<>> ELSE history
  /\ PC' = 1
  /\ TLB' = EmptyFrames /\ physical_memory' = EmptyFrames
  /\ UNCHANGED <<addressList, fault_count, failures, misplaced, hung>>

LastRun ==
  /\ alg = "OPTIMUM"
  /\ PC = Len(addressList) + 1
  /\ alg' = "done"
  /\ UNCHANGED <<addressList, PC, TLB, physical_memory, history, fault_count,
                 failures, misplaced, hung>>

Finished == (alg = "done" \/ hung) /\ UNCHANGED vars

Next == PassFIFO \/ PassLRU \/ HangLRU \/ PassOptimal
        \/ NextRun \/ LastRun \/ Finished

Spec == Init /\ [][Next]_vars

-----------------------------------------------------------------------------
(***************************************************************************)
(* Properties.                                                             *)
(***************************************************************************)

Loaded == {TLB[f] : f \in Frames} \ {NoPage}

(* The TLB tells the truth: a frame holds the data of the page the TLB has *)
(* for it, also when loads fail and when a wrong frame is used.            *)
FrameHoldsPage ==
  \A f \in Frames : TLB[f] # NoPage => physical_memory[f] = TLB[f]

(* FIFO and LRU never have a page in two frames, also when loads fail.     *)
PageLoadedOnce ==
  alg \in {"FIFO", "LRU"} =>
    \A f, g \in Frames : TLB[f] = TLB[g] /\ TLB[f] # NoPage => f = g

(* Without failed loads, the history lists the loaded pages, each once:    *)
(* the page RemoveTail gives has a frame, and Remove finds its page.       *)
HistoryFollowsTLB ==
  alg \in {"FIFO", "LRU"} /\ failures = 0 =>
    ToSet(history) = Loaded /\ Len(history) = Cardinality(Loaded)

(* Only a failed load can lead LRU into the endless loop of Remove.        *)
HangsOnlyAfterFailure == hung => failures > 0

(* The references served so far in this Run.                               *)
Served == SubSeq(addressList, 1, PC - 1)

(* FIFO, from the reference string alone: a queue of pages, here after the *)
(* first n references.                                                     *)
Enqueue(q, p) == IF Contains(q, p) THEN q
                 ELSE IF Len(q) < NUMBER_OF_FRAMES THEN Append(q, p)
                 ELSE Append(Tail(q), p)

QueueAfter[n \in 0 .. Len(addressList)] ==
  IF n = 0 THEN <<>> ELSE Enqueue(QueueAfter[n - 1], addressList[n])

(* Without failed loads, FIFO keeps the pages of that queue.               *)
FIFOKeepsQueue ==
  alg = "FIFO" /\ failures = 0 => Loaded = ToSet(QueueAfter[PC - 1])

(* LRU, from the reference string alone: the pages used last.              *)
LastUsed(p) == Max({j \in DOMAIN Served : Served[j] = p})
MostRecent ==
  {p \in ToSet(Served) :
     Cardinality({q \in ToSet(Served) : LastUsed(q) > LastUsed(p)})
       < NUMBER_OF_FRAMES}

(* Without failed loads, LRU keeps the pages used most recently.           *)
LRUKeepsRecent == alg = "LRU" /\ failures = 0 => Loaded = MostRecent

(* The optimum, from the reference string alone: the fewest faults with    *)
(* which its last references can be served, by the pages that are loaded   *)
(* before them, over all choices of the page to replace.                   *)
FaultsFrom(p, later) ==
  [S \in SUBSET Pages |->
     IF p \in S THEN later[S]
     ELSE IF Cardinality(S) < NUMBER_OF_FRAMES THEN 1 + later[S \cup {p}]
     ELSE 1 + Min({later[(S \ {q}) \cup {p}] : q \in S})]

FewestFaults[left \in 0 .. Len(addressList)] ==
  IF left = 0 THEN [S \in SUBSET Pages |-> 0]
  ELSE FaultsFrom(addressList[Len(addressList) + 1 - left],
                  FewestFaults[left - 1])

(* When no load failed and every hit kept its frame, the optimal algorithm *)
(* of the program has the fewest page faults any choice can have -- none   *)
(* of the three runs of main has fewer.                                    *)
OptimalIsOptimal ==
  alg = "done" /\ failures = 0 /\ ~misplaced =>
    /\ fault_count["OPTIMUM"] = FewestFaults[Len(addressList)][{}]
    /\ \A a \in Algorithms : fault_count["OPTIMUM"] <= fault_count[a]

(* The comment at MemoryManagementPart2.cpp:308: when the page is already  *)
(* in the TLB there is "no need for a swap, so return".  The code does not *)
(* return a value, and the page may go over another one.                   *)
HitNeedsNoSwap ==
  [][alg = "OPTIMUM" /\ PC' = PC + 1 /\ Hit => TLB' = TLB]_vars
=============================================================================
