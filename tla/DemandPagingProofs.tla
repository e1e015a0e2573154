------------------------- MODULE DemandPagingProofs -------------------------
(***************************************************************************)
(* Theorems about DemandPaging for any number of pages and any addresses.  *)
(***************************************************************************)
EXTENDS DemandPaging, FiniteSetTheorems, SequenceTheorems, TLAPS

-----------------------------------------------------------------------------
(* Addresses.                                                              *)

LEMMA DivMod ==
  ASSUME NEW n \in Nat \ {0}, NEW x \in Int
  PROVE  /\ x % n \in 0 .. n - 1 /\ x \div n \in Int
         /\ x = n * (x \div n) + (x % n)
OBVIOUS

LEMMA MultLess ==
  ASSUME NEW n \in Nat \ {0}, NEW q \in Int, n * q < n * n, n * q > -n
  PROVE  q \in 0 .. n - 1
<1>1. q < n
  <2>1. SUFFICES ASSUME q >= n PROVE FALSE
    OBVIOUS
  <2>. QED BY <2>1
<1>2. q > -1
  <2>1. SUFFICES ASSUME q <= -1 PROVE FALSE
    OBVIOUS
  <2>. QED BY <2>1
<1>. QED BY <1>1, <1>2

LEMMA Distribute ==
  ASSUME NEW n \in Int, NEW p \in Int, NEW q \in Int, NEW r \in Int
  PROVE  n * (p + q - r) = n * p + n * q - n * r
OBVIOUS

LEMMA Regroup ==
  ASSUME NEW n \in Int, NEW k \in Int, NEW d \in Int, NEW r \in Int
  PROVE  (n * n) * k + (n * d + r) = n * (n * k + d) + r
OBVIOUS

LEMMA SameRemainder ==
  ASSUME NEW n \in Nat \ {0}, NEW p \in Int, NEW q \in Int,
         NEW r \in 0 .. n - 1, NEW s \in 0 .. n - 1, n * p + r = n * q + s
  PROVE  r = s
<1>1. n * (p - q) = s - r
  BY Distribute
<1>. DEFINE d == p - q
<1>2. n * d < n /\ n * d > -n /\ d \in Int
  BY <1>1
<1>. HIDE DEF d
<1>3. d < 1
  <2>1. SUFFICES ASSUME d >= 1 PROVE FALSE
    BY <1>2
  <2>. QED BY <1>2, <2>1
<1>4. d > -1
  <2>1. SUFFICES ASSUME d <= -1 PROVE FALSE
    BY <1>2
  <2>. QED BY <1>2, <2>1
<1>5. d = 0
  BY <1>2, <1>3, <1>4
<1>. QED BY <1>1, <1>5 DEF d

(* What is left of a division does not change when a multiple is added.    *)
LEMMA ModOfMod ==
  ASSUME NEW n \in Nat \ {0}, NEW x \in Int
  PROVE  (x % (n * n)) % n = x % n
<1>1. PICK m \in Nat \ {0} : m = n * n
  OBVIOUS
<1>2. PICK k \in Int, a \in Int : x = m * k + a /\ a = x % m
  <2>1. /\ x % m \in Int /\ x \div m \in Int
        /\ x = m * (x \div m) + (x % m)
    BY DivMod
  <2>. WITNESS x \div m \in Int, x % m \in Int
  <2>. QED BY <2>1
<1>3. a = n * (a \div n) + (a % n) /\ a % n \in 0 .. n - 1 /\ a \div n \in Int
  BY DivMod
<1>4. x = n * (x \div n) + (x % n) /\ x % n \in 0 .. n - 1 /\ x \div n \in Int
  BY DivMod
<1>5. x = n * (n * k + (a \div n)) + (a % n)
  BY <1>1, <1>2, <1>3, Regroup
<1>6. n * k + (a \div n) \in Int
  BY <1>3
<1>7. a % n = x % n
  BY <1>3, <1>4, <1>5, <1>6, SameRemainder
<1>. QED BY <1>1, <1>2, <1>7

(* Every address has a page and an offset, and the two name its low bits.  *)
LEMMA PageAndOffset ==
  ASSUME NEW a \in Int
  PROVE  /\ getPageNumber(a) \in Pages /\ a % Bytes \in 0 .. Bytes - 1
         /\ getPageNumber(a) * NUMBER_OF_PAGES + getPageOffset(a) = a % Bytes
<1>. DEFINE n == NUMBER_OF_PAGES
            b == a % (n * n)
<1>1. n \in Nat \ {0} /\ n * n \in Nat \ {0}
  BY DemandPagingAssumption
<1>. HIDE DEF n
<1>2. b \in 0 .. n * n - 1
  BY <1>1, DivMod
<1>. HIDE DEF b
<1>3. b = n * (b \div n) + (b % n) /\ b % n \in 0 .. n - 1 /\ b \div n \in Int
  BY <1>1, <1>2, DivMod
<1>4. b \div n \in 0 .. n - 1
  <2>1. n * (b \div n) < n * n /\ n * (b \div n) > -n
    BY <1>1, <1>2, <1>3
  <2>. QED BY <1>1, <1>3, <2>1, MultLess
<1>5. b % n = a % n
  BY <1>1, ModOfMod DEF b
<1>6. (b \div n) * n = n * (b \div n)
  BY <1>1, <1>3
<1>. QED BY <1>2, <1>3, <1>4, <1>5, <1>6
         DEF getPageNumber, getPageOffset, Pages, Bytes, n, b

-----------------------------------------------------------------------------
(***************************************************************************)
(* The invariant.  A page is in the frame of its own number or nowhere; as *)
(* long as the program runs, the frame is loaded if and only if the table  *)
(* says so; and the pages of the table are those referenced so far.        *)
(***************************************************************************)

Loaded == {f \in Pages : page_table[f] = f}
Jumps == {j \in DOMAIN Made : j = 1 \/ Made[j] # Made[j - 1]}

InPlace ==
  /\ \A f \in Pages : page_table[f] \in {f, EMPTY}
  /\ ~crashed =>
       \A f \in Pages :
         physical_memory[f] = IF page_table[f] = EMPTY
                              THEN NULL ELSE f * NUMBER_OF_PAGES

Counted ==
  /\ ToSet(Made) = Loaded
  /\ fault_count = Cardinality(Loaded)
  /\ previous_page = IF PC = 1 THEN -1 ELSE Made[PC - 1]
  /\ page_jump <= PC - 1 /\ page_jump = Cardinality(Jumps)

IInv == TypeOK /\ InPlace /\ CrashOnlyOnFailure /\ PrintsTheBytes /\ Counted

LEMMA PagesFinite ==
  IsFiniteSet(Pages) /\ Cardinality(Pages) = NUMBER_OF_PAGES
BY FS_Interval, DemandPagingAssumption DEF Pages

(* The reference a pass of the loop is about to make.                      *)
LEMMA CurrentPage ==
  ASSUME TypeOK, Reference
  PROVE  /\ PC \in 1 .. Len(addressPtr) /\ Len(addressPtr) \in Nat
         /\ addressPtr[PC] \in Int
         /\ page \in Pages /\ page # NULL /\ page # EMPTY /\ page # NOT_FOUND
         /\ page * NUMBER_OF_PAGES + offset = addressPtr[PC] % Bytes
         /\ addressPtr[PC] % Bytes \in 0 .. Bytes - 1
<1>1. addressPtr \in Seq(Addresses) /\ PC \in Nat \ {0} /\ PC <= Len(addressPtr)
  BY DEF TypeOK, Reference
<1>2. Len(addressPtr) \in Nat /\ addressPtr[PC] \in Addresses
  BY <1>1
<1>3. addressPtr[PC] \in Int
  BY <1>2, DemandPagingAssumption
<1>4. page \in Pages
  BY <1>3, PageAndOffset DEF page
<1>5. page \in Nat
  BY <1>4, DemandPagingAssumption DEF Pages
<1>6. page # NULL /\ page # EMPTY /\ page # NOT_FOUND
  BY <1>5 DEF NULL, EMPTY, NOT_FOUND
<1>7. /\ page * NUMBER_OF_PAGES + offset = addressPtr[PC] % Bytes
      /\ addressPtr[PC] % Bytes \in 0 .. Bytes - 1
  BY <1>3, PageAndOffset DEF page, offset
<1>. QED BY <1>1, <1>2, <1>3, <1>4, <1>6, <1>7

(* The table and the frames after a pass.                                  *)
LEMMA TablesStep ==
  ASSUME TypeOK, InPlace, CrashOnlyOnFailure, Reference
  PROVE  /\ page_table' = [page_table EXCEPT ![page] = page]
         /\ physical_memory' \in [Pages -> (0 .. Bytes - 1) \cup {NULL}]
         /\ \A f \in Pages \ {page} : physical_memory'[f] = physical_memory[f]
         /\ failed' \in BOOLEAN
         /\ physical_memory'[page] =
              IF failed' THEN NULL ELSE page * NUMBER_OF_PAGES
         /\ fault_count' =
              IF page_table[page] = page THEN fault_count ELSE fault_count + 1
<1>1. page \in Pages /\ page # NULL /\ page # EMPTY /\ page # NOT_FOUND
  BY CurrentPage
<1>2. /\ page_table \in [Pages -> Pages \cup {EMPTY}]
      /\ physical_memory \in [Pages -> (0 .. Bytes - 1) \cup {NULL}]
      /\ ~crashed /\ ~failed /\ failed \in BOOLEAN
  BY DEF TypeOK, CrashOnlyOnFailure, Reference
<1>3. is_PageLoaded(page) # NOT_FOUND <=> page_table[page] = page
  BY <1>1 DEF is_PageLoaded, InPlace
<1>4. physical_memory[page] =
        IF page_table[page] = page THEN page * NUMBER_OF_PAGES ELSE NULL
  BY <1>1, <1>2 DEF InPlace
<1>5. CASE page_table[page] = page
  <2>1. UNCHANGED <<physical_memory, page_table, fault_count, failed>>
    BY <1>3, <1>5 DEF Reference
  <2>. QED BY <1>1, <1>2, <1>4, <1>5, <2>1
<1>6. CASE page_table[page] # page
  <2>1. /\ load_LogicalToPhysical(page) /\ update_PageTable(page)
        /\ fault_count' = fault_count + 1 /\ previous_page' = page
    BY <1>3, <1>6 DEF Reference
  <2>2. page_table' = [page_table EXCEPT ![page] = page]
    BY <2>1 DEF update_PageTable
  <2>3. page * NUMBER_OF_PAGES \in 0 .. Bytes - 1
    <3>1. /\ NUMBER_OF_PAGES \in Nat \ {0}
          /\ page \in Nat /\ page <= NUMBER_OF_PAGES - 1
      BY <1>1, DemandPagingAssumption DEF Pages
    <3>2. page * NUMBER_OF_PAGES <= (NUMBER_OF_PAGES - 1) * NUMBER_OF_PAGES
      <4>. HIDE DEF page
      <4>. QED BY <3>1
    <3>. QED BY <3>1, <3>2 DEF Bytes
  <2>4. CASE /\ physical_memory' =
                  [physical_memory EXCEPT ![page] = page * NUMBER_OF_PAGES]
             /\ failed' = FALSE
    BY <1>1, <1>2, <1>6, <2>1, <2>2, <2>3, <2>4
  <2>5. CASE UNCHANGED physical_memory /\ failed' = TRUE
    BY <1>1, <1>2, <1>4, <1>6, <2>1, <2>2, <2>5
  <2>. QED BY <2>1, <2>4, <2>5 DEF load_LogicalToPhysical
<1>. QED BY <1>5, <1>6

LEMMA InPlaceStep ==
  ASSUME TypeOK, InPlace, CrashOnlyOnFailure, Reference
  PROVE  InPlace' /\ CrashOnlyOnFailure'
<1>1. page \in Pages /\ page # NULL /\ page # EMPTY
  BY CurrentPage
<1>2. page_table \in [Pages -> Pages \cup {EMPTY}] /\ ~crashed
  BY DEF TypeOK, Reference
<1>3. page * NUMBER_OF_PAGES # NULL
  <2>1. page \in Nat /\ NUMBER_OF_PAGES \in Nat
    BY <1>1, DemandPagingAssumption DEF Pages
  <2>. QED BY <2>1 DEF NULL
<1>4. crashed' <=> physical_memory'[page] = NULL
  BY <1>2 DEF Reference, NotThere
<1>5. crashed' <=> failed'
  BY <1>3, <1>4, TablesStep
<1>. QED BY <1>1, <1>2, <1>5, TablesStep DEF InPlace, CrashOnlyOnFailure

LEMMA PrintStep ==
  ASSUME TypeOK, InPlace, CrashOnlyOnFailure, PrintsTheBytes, Reference
  PROVE  PrintsTheBytes' /\ printed' \in Seq(0 .. Bytes - 1)
<1>. DEFINE byte == addressPtr[PC] % Bytes
<1>1. /\ PC \in Nat \ {0} /\ PC' = PC + 1 /\ addressPtr' = addressPtr
      /\ ~crashed /\ byte \in 0 .. Bytes - 1
  <2>1. PC' = PC + 1 /\ addressPtr' = addressPtr /\ ~crashed
    BY DEF Reference
  <2>2. PC \in 1 .. Len(addressPtr) /\ Len(addressPtr) \in Nat
    BY CurrentPage
  <2>3. byte \in 0 .. Bytes - 1
    BY CurrentPage
  <2>4. PC \in Nat \ {0}
    BY <2>2
  <2>. QED BY <2>1, <2>3, <2>4
<1>2. /\ printed \in Seq(0 .. Bytes - 1)
      /\ printed = [j \in 1 .. PC - 1 |-> addressPtr[j] % Bytes]
  BY <1>1 DEF TypeOK, PrintsTheBytes
<1>3. CASE crashed'
  <2>1. printed' = printed
    BY <1>1, <1>3 DEF Reference
  <2>2. PC' - 2 = PC - 1
    BY <1>1
  <2>. QED BY <1>1, <1>2, <1>3, <2>1, <2>2 DEF PrintsTheBytes
<1>4. CASE ~crashed'
  <2>1. ~failed'
    BY <1>4, InPlaceStep DEF CrashOnlyOnFailure
  <2>2. fetchData(page) = byte
    BY <2>1, TablesStep, CurrentPage DEF fetchData
  <2>3. printed' = Append(printed, byte)
    BY <1>4, <2>2 DEF Reference
  <2>. HIDE DEF byte
  <2>4. /\ printed' \in Seq(0 .. Bytes - 1)
        /\ DOMAIN printed' = 1 .. PC
        /\ \A j \in 1 .. PC - 1 : printed'[j] = addressPtr[j] % Bytes
        /\ printed'[PC] = byte
    <3>1. Len(printed) = PC - 1
      BY <1>1, <1>2
    <3>. QED BY <1>1, <1>2, <2>3, <3>1, AppendProperties
  <2>5. printed' = [j \in 1 .. PC |-> addressPtr[j] % Bytes]
    BY <1>1, <2>4 DEF byte
  <2>6. 1 .. PC = 1 .. IF crashed' THEN PC' - 2 ELSE PC' - 1
    BY <1>1, <1>4
  <2>. QED BY <1>1, <2>4, <2>5, <2>6 DEF PrintsTheBytes
<1>. QED BY <1>3, <1>4

LEMMA MadeStep ==
  ASSUME TypeOK, Reference
  PROVE  /\ DOMAIN Made = 1 .. PC - 1 /\ DOMAIN Made' = 1 .. PC
         /\ \A j \in 1 .. PC - 1 : Made'[j] = Made[j]
         /\ Made'[PC] = page
         /\ ToSet(Made') = ToSet(Made) \cup {page}
<1>1. PC \in Nat \ {0} /\ PC' = PC + 1 /\ addressPtr' = addressPtr
  BY DEF TypeOK, Reference
<1>2. Made' = [j \in 1 .. PC |-> getPageNumber(addressPtr[j])]
  BY <1>1 DEF Made
<1>3. /\ DOMAIN Made = 1 .. PC - 1 /\ DOMAIN Made' = 1 .. PC
      /\ \A j \in 1 .. PC - 1 : Made'[j] = Made[j]
      /\ Made'[PC] = page
  BY <1>1, <1>2 DEF Made, page
<1>4. 1 .. PC = (1 .. PC - 1) \cup {PC} /\ PC \in 1 .. PC
  BY <1>1
<1>. HIDE DEF Made
<1>5. ToSet(Made') = ToSet(Made) \cup {page}
  BY <1>3, <1>4 DEF ToSet
<1>. QED BY <1>3, <1>5

LEMMA CountStep ==
  ASSUME TypeOK, InPlace, CrashOnlyOnFailure, Counted, Reference
  PROVE  Counted'
<1>1. /\ PC \in Nat \ {0} /\ PC' = PC + 1 /\ previous_page' = page
      /\ page \in Pages /\ page # -1
      /\ page_jump \in Nat
  <2>1. page \in Pages /\ page # -1 /\ Len(addressPtr) \in Nat
    BY CurrentPage DEF NULL
  <2>2. PC' = PC + 1 /\ previous_page' = page
    BY DEF Reference
  <2>3. PC \in 1 .. Len(addressPtr) + 1 /\ page_jump \in 0 .. Len(addressPtr)
    BY DEF TypeOK
  <2>. QED BY <2>1, <2>2, <2>3
<1>2. Loaded' = Loaded \cup {page}
  BY <1>1, TablesStep DEF Loaded, TypeOK
<1>3. IsFiniteSet(Loaded)
  BY PagesFinite, FS_Subset DEF Loaded
<1>4. fault_count' = Cardinality(Loaded')
  <2>1. page \in Loaded <=> page_table[page] = page
    BY <1>1 DEF Loaded
  <2>2. Cardinality(Loaded \cup {page}) =
          IF page \in Loaded THEN Cardinality(Loaded)
          ELSE Cardinality(Loaded) + 1
    BY <1>3, FS_AddElement
  <2>. QED BY <1>2, <2>1, <2>2, TablesStep DEF Counted
<1>5. ToSet(Made') = Loaded'
  BY <1>2, MadeStep DEF Counted
<1>6. previous_page' = IF PC' = 1 THEN -1 ELSE Made'[PC' - 1]
  BY <1>1, MadeStep
<1>7. Jumps' = IF previous_page = page THEN Jumps ELSE Jumps \cup {PC}
  <2>1. DOMAIN Made = 1 .. PC - 1 /\ DOMAIN Made' = 1 .. PC
    BY MadeStep
  <2>2. \A j \in 1 .. PC - 1 : j - 1 \in 1 .. PC - 1 \/ j = 1
    BY <1>1
  <2>3. \A j \in 1 .. PC - 1 :
          (j = 1 \/ Made'[j] # Made'[j - 1])
            <=> (j = 1 \/ Made[j] # Made[j - 1])
    BY <2>2, MadeStep
  <2>4. (PC = 1 \/ Made'[PC] # Made'[PC - 1]) <=> previous_page # page
    <3>1. CASE PC = 1
      BY <1>1, <3>1 DEF Counted
    <3>2. CASE PC # 1
      <4>1. PC - 1 \in 1 .. PC - 1
        BY <1>1, <3>2
      <4>. QED BY <3>2, <4>1, MadeStep DEF Counted
    <3>. QED BY <3>1, <3>2
  <2>5. 1 .. PC = (1 .. PC - 1) \cup {PC}
    BY <1>1
  <2>. HIDE DEF Made
  <2>. QED BY <2>1, <2>3, <2>4, <2>5 DEF Jumps
<1>8. IsFiniteSet(Jumps) /\ PC \notin Jumps
  <2>1. IsFiniteSet(1 .. PC - 1)
    BY <1>1, FS_Interval
  <2>2. DOMAIN Made = 1 .. PC - 1 /\ PC \notin 1 .. PC - 1
    BY <1>1, MadeStep
  <2>. HIDE DEF Made
  <2>. QED BY <2>1, <2>2, FS_Subset DEF Jumps
<1>9. /\ page_jump' = IF previous_page = page THEN page_jump ELSE page_jump + 1
  BY DEF Reference
<1>10. Cardinality(Jumps \cup {PC}) = Cardinality(Jumps) + 1
  BY <1>8, FS_AddElement
<1>11. page_jump' = Cardinality(Jumps') /\ page_jump' <= PC' - 1
  BY <1>1, <1>7, <1>9, <1>10 DEF Counted
<1>. QED BY <1>4, <1>5, <1>6, <1>11 DEF Counted

LEMMA TypeStep ==
  ASSUME IInv, Reference
  PROVE  TypeOK'
<1>. USE DEF IInv
<1>1. /\ addressPtr' = addressPtr /\ PC' = PC + 1 /\ previous_page' = page
      /\ page_jump' \in {page_jump, page_jump + 1}
  BY DEF Reference
<1>2. PC' \in 1 .. Len(addressPtr) + 1
  BY <1>1, CurrentPage
<1>3. /\ page_table' \in [Pages -> Pages \cup {EMPTY}]
      /\ physical_memory' \in [Pages -> (0 .. Bytes - 1) \cup {NULL}]
      /\ failed' \in BOOLEAN
  BY CurrentPage, TablesStep DEF TypeOK
<1>4. crashed' \in BOOLEAN
  BY DEF Reference, TypeOK
<1>5. Counted'
  BY CountStep
<1>6. fault_count' \in 0 .. NUMBER_OF_PAGES
  <2>1. /\ IsFiniteSet(Loaded') /\ Cardinality(Loaded') <= NUMBER_OF_PAGES
    BY PagesFinite, FS_Subset DEF Loaded
  <2>. QED BY <1>5, <2>1, FS_CardinalityType, DemandPagingAssumption DEF Counted
<1>7. page_jump' \in 0 .. Len(addressPtr)
  BY <1>1, <1>2, <1>5, CurrentPage DEF TypeOK, Counted
<1>8. printed' \in Seq(0 .. Bytes - 1)
  BY PrintStep
<1>9. addressPtr \in Seq(Addresses) /\ Len(addressPtr) <= MaxLength
  BY DEF TypeOK
<1>. QED BY <1>1, <1>2, <1>3, <1>4, <1>6, <1>7, <1>8, <1>9, CurrentPage
         DEF TypeOK

LEMMA InitIInv == Init => IInv
<1>1. SUFFICES ASSUME Init PROVE IInv
  OBVIOUS
<1>2. NUMBER_OF_PAGES \in Nat \ {0} /\ Bytes \in Nat \ {0}
  BY DemandPagingAssumption DEF Bytes
<1>3. /\ addressPtr \in Seq(Addresses)
      /\ Len(addressPtr) \in Nat /\ Len(addressPtr) <= MaxLength
  <2>1. PICK n \in 0 .. MaxLength : addressPtr \in [1 .. n -> Addresses]
    BY <1>1 DEF Init, ReadAddresses
  <2>. QED BY <2>1, DemandPagingAssumption
<1>4. \A f \in Pages : f # EMPTY
  BY <1>2 DEF Pages, EMPTY
<1>5. Made = <<>> /\ DOMAIN Made = {} /\ PC = 1
  BY <1>1 DEF Init, Made
<1>6. ToSet(Made) = {} /\ Jumps = {} /\ Loaded = {}
  <2>1. Loaded = {}
    BY <1>1, <1>4 DEF Init, init_PhysicalMemory, Loaded
  <2>. HIDE DEF Made
  <2>. QED BY <1>5, <2>1 DEF ToSet, Jumps
<1>7. TypeOK
  <2>1. printed \in Seq(0 .. Bytes - 1)
    BY <1>1, EmptySeq DEF Init
  <2>2. failed \in BOOLEAN /\ crashed \in BOOLEAN
    BY <1>1 DEF Init
  <2>. QED BY <1>1, <1>2, <1>3, <2>1, <2>2
           DEF Init, init_PhysicalMemory, TypeOK
<1>8. InPlace /\ CrashOnlyOnFailure
  BY <1>1 DEF Init, init_PhysicalMemory, InPlace, CrashOnlyOnFailure
<1>9. PrintsTheBytes
  BY <1>1 DEF Init, PrintsTheBytes
<1>10. Counted
  BY <1>1, <1>5, <1>6, FS_EmptySet DEF Init, Counted
<1>. QED BY <1>7, <1>8, <1>9, <1>10 DEF IInv

LEMMA Invariant == Spec => []IInv
<1>1. IInv /\ [Next]_vars => IInv'
  <2>1. SUFFICES ASSUME IInv, [Next]_vars PROVE IInv'
    OBVIOUS
  <2>2. CASE Reference
    BY <2>1, <2>2, TypeStep, InPlaceStep, PrintStep, CountStep DEF IInv
  <2>3. CASE UNCHANGED vars
    BY <2>1, <2>3 DEF IInv, TypeOK, InPlace, CrashOnlyOnFailure, PrintsTheBytes,
                      Counted, Made, Loaded, Jumps, ToSet, vars
  <2>. QED BY <2>1, <2>2, <2>3 DEF Next, Finished
<1>. QED BY <1>1, InitIInv, PTL DEF Spec

-----------------------------------------------------------------------------
(* The variables of DemandPaging keep their types; there are no more       *)
(* faults than pages.                                                      *)
THEOREM TypeCorrect == Spec => []TypeOK
<1>1. IInv => TypeOK
  BY DEF IInv
<1>. QED BY <1>1, Invariant, PTL

(* The program reads through NULL only when a load has failed.             *)
THEOREM NullOnlyOnFailure == Spec => []CrashOnlyOnFailure
<1>1. IInv => CrashOnlyOnFailure
  BY DEF IInv
<1>. QED BY <1>1, Invariant, PTL

(* main prints the byte of the backing store that each address names.      *)
THEOREM RightBytes == Spec => []PrintsTheBytes
<1>1. IInv => PrintsTheBytes
  BY DEF IInv
<1>. QED BY <1>1, Invariant, PTL

(* The two counts main prints are those of the reference string.           *)
THEOREM RightCounts == Spec => []CountsMatchString
<1>1. IInv => CountsMatchString
  BY DEF IInv, Counted, CountsMatchString, Jumps
<1>. QED BY <1>1, Invariant, PTL
=============================================================================
