---------------------------- MODULE DemandPaging ----------------------------
(***************************************************************************)
(* The demand paging program of Project3 (MemoryManagement.cpp): as many   *)
(* frames as pages, so nothing is ever replaced.  A byte of the backing    *)
(* store stands for its place there.  Opening it may fail at any load.     *)
(***************************************************************************)
EXTENDS Integers, FiniteSets, SequencesExt

CONSTANTS
  NUMBER_OF_PAGES,  \* 256; the frames and the bytes of a page are as many
  Addresses,        \* those that occur in addresses.txt, any int
  MaxLength         \* bound on the reference string (128 in main)

ASSUME DemandPagingAssumption ==
  /\ NUMBER_OF_PAGES \in Nat \ {0} /\ MaxLength \in Nat
  /\ Addresses \subseteq Int

VARIABLES
  addressPtr,      \* the reference string
  PC,              \* the index of main's loop, counted from 1
  previous_page, page_jump, fault_count,
  page_table,
  physical_memory, \* where the bytes of each frame come from, or NULL
  printed,         \* the bytes printed
  failed,          \* history: the last load failed
  crashed          \* a fetch through NULL has ended the program

vars == <<addressPtr, PC, previous_page, page_jump, fault_count, page_table,
          physical_memory, printed, failed, crashed>>

Pages == 0 .. NUMBER_OF_PAGES - 1
Bytes == NUMBER_OF_PAGES * NUMBER_OF_PAGES   \* in the backing store
EMPTY == -1
NOT_FOUND == -1
NULL == -1

TypeOK ==
  /\ addressPtr \in Seq(Addresses) /\ Len(addressPtr) <= MaxLength
  /\ PC \in 1 .. Len(addressPtr) + 1
  /\ previous_page \in Pages \cup {-1}
  /\ page_jump \in 0 .. Len(addressPtr) /\ fault_count \in 0 .. NUMBER_OF_PAGES
  /\ page_table \in [Pages -> Pages \cup {EMPTY}]
  /\ physical_memory \in [Pages -> (0 .. Bytes - 1) \cup {NULL}]
  /\ printed \in Seq(0 .. Bytes - 1)
  /\ failed \in BOOLEAN /\ crashed \in BOOLEAN

(* read_Address reads as many numbers as there are, none if there is no    *)
(* file.                                                                   *)
ReadAddresses == UNION {[1 .. n -> Addresses] : n \in 0 .. MaxLength}

init_PhysicalMemory ==
  /\ physical_memory = [f \in Pages |-> NULL]
  /\ page_table = [f \in Pages |-> EMPTY]

Init ==
  /\ addressPtr \in ReadAddresses
  /\ init_PhysicalMemory
  /\ PC = 1 /\ previous_page = -1 /\ page_jump = 0 /\ fault_count = 0
  /\ printed = <<>> /\ failed = FALSE /\ crashed = FALSE

(* (address & 0xffff) >> 8 and address & 0xff; as in two's complement, a   *)
(* remainder is never negative.                                            *)
getPageNumber(address) == (address % Bytes) \div NUMBER_OF_PAGES
getPageOffset(address) == address % NUMBER_OF_PAGES

page == getPageNumber(addressPtr[PC])
offset == getPageOffset(addressPtr[PC])

(* A page that is anywhere in the page table is taken to be in the frame   *)
(* of its own number.                                                      *)
is_PageLoaded(p) ==
  IF \E f \in Pages : page_table[f] = p THEN p ELSE NOT_FOUND

(* Mutation: previous_page is not yet the page that is referenced now.     *)
update_PageTableEarly(p) ==
  page_table' = IF previous_page \in Pages
                THEN [page_table EXCEPT ![previous_page] = p] ELSE page_table

(* main passes previous_page as the index: by then it is the page itself.  *)
update_PageTable(p) == page_table' = [page_table EXCEPT ![previous_page'] = p]

(* Mutation: pages are loaded into the next frame that is free.            *)
loadNextFrame(p) ==
  \/ /\ physical_memory' =
          [physical_memory EXCEPT ![fault_count] = p * NUMBER_OF_PAGES]
     /\ failed' = FALSE
  \/ UNCHANGED physical_memory /\ failed' = TRUE

(* Mutation: the page number is the place of the page in the file.         *)
loadUnscaled(p) ==
  \/ physical_memory' = [physical_memory EXCEPT ![p] = p] /\ failed' = FALSE
  \/ UNCHANGED physical_memory /\ failed' = TRUE

(* The page goes into the frame of its own number, unless the file cannot  *)
(* be opened.                                                              *)
load_LogicalToPhysical(p) ==
  \/ /\ physical_memory' = [physical_memory EXCEPT ![p] = p * NUMBER_OF_PAGES]
     /\ failed' = FALSE
  \/ UNCHANGED physical_memory /\ failed' = TRUE

(* A byte of a frame; through NULL, the program ends.                      *)
fetchData(frame) == physical_memory'[frame] + offset
NotThere(frame) == physical_memory'[frame] = NULL

(* A pass of main's loop.  What load_LogicalToPhysical returns is ignored. *)
Reference ==
  /\ ~crashed /\ PC <= Len(addressPtr)
  /\ PC' = PC + 1
  /\ previous_page' = page
  /\ page_jump' = IF previous_page = page THEN page_jump ELSE page_jump + 1
  /\ \/ /\ is_PageLoaded(page) = NOT_FOUND
        /\ load_LogicalToPhysical(page)
        /\ update_PageTable(page)
        /\ fault_count' = fault_count + 1
     \/ /\ is_PageLoaded(page) # NOT_FOUND
        /\ UNCHANGED <<physical_memory, page_table, fault_count, failed>>
  /\ IF NotThere(page)
     THEN crashed' = TRUE /\ UNCHANGED printed
     ELSE printed' = Append(printed, fetchData(page)) /\ UNCHANGED crashed
  /\ UNCHANGED addressPtr

Finished == (crashed \/ PC = Len(addressPtr) + 1) /\ UNCHANGED vars

Next == Reference \/ Finished

Spec == Init /\ [][Next]_vars

-----------------------------------------------------------------------------
(***************************************************************************)
(* Properties.                                                             *)
(***************************************************************************)

(* The pages referenced so far.                                            *)
Made == [j \in 1 .. PC - 1 |-> getPageNumber(addressPtr[j])]

(* The two counts main prints, from the reference string alone: one fault  *)
(* for every different page, one jump for every change of page.            *)
CountsMatchString ==
  /\ fault_count = Cardinality(ToSet(Made))
  /\ page_jump =
       Cardinality({j \in DOMAIN Made : j = 1 \/ Made[j] # Made[j - 1]})

(* Every address prints the byte of the backing store that its lower 16    *)
(* bits name (fetchData), however pages, frames and their tables got it    *)
(* there; the program stops at the first that it cannot print.             *)
PrintsTheBytes ==
  printed = [j \in 1 .. IF crashed THEN PC - 2 ELSE PC - 1 |->
               addressPtr[j] % Bytes]

(* The fetch reads through NULL exactly when the load before it failed:    *)
(* the page table never leads it to a frame that was not loaded.           *)
CrashOnlyOnFailure == crashed <=> failed
=============================================================================
