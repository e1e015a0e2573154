-------------------------- MODULE FileShellProofs ---------------------------
(***************************************************************************)
(* Theorems about FileShell for every size of the disk, of the inode table *)
(* and of the files, and for any number of sessions and kills.  First come *)
(* lemmas about the operators of Disk, FileSystem and FileShell that have  *)
(* no state: what each operation does to an inode table.                   *)
(***************************************************************************)
EXTENDS FileShell, FiniteSetTheorems, WellFoundedInduction, TLAPS

-----------------------------------------------------------------------------
(* Numbers.                                                                *)

(* A set of natural numbers that is not empty has a least element.         *)
LEMMA LeastElement ==
  ASSUME NEW S \in SUBSET Nat, S # {}
  PROVE  \E m \in S : \A n \in S : m <= n
<1>1. PICK m \in S : \A n \in S : <<n, m>> \notin OpToRel(<, Nat)
  BY NatLessThanWellFounded, WFMin
<1>2. \A n \in S : ~(n < m)
  BY <1>1 DEF OpToRel
<1>. QED BY <1>2

(* Inode i is in one of the n blocks; the numbers that isValidInode admits *)
(* are all in the first one.                                               *)
LEMMA InodeBlock ==
  ASSUME NEW n \in Nat, NEW i \in InodesOf(n)
  PROVE  /\ BlockOf(i) \in 0 .. n - 1
         /\ i < InodeBlocks => BlockOf(i) = 0
<1>. DEFINE m == INODES_PER_BLOCK
            q == i \div m
            r == i % m
<1>1. /\ m \in Nat \ {0} /\ i \in Nat /\ i < n * m
      /\ InodeBlocks \in Nat /\ InodeBlocks <= m
  BY DiskAssumption DEF InodesOf
<1>. HIDE DEF m
<1>2. q \in Int /\ r \in 0 .. m - 1 /\ i = m * q + r
  BY <1>1
<1>. HIDE DEF q, r
<1>3. q >= 0
  <2>1. SUFFICES ASSUME q <= -1 PROVE FALSE
    BY <1>2
  <2>2. m * q <= -m
    BY <1>1, <1>2, <2>1
  <2>. QED BY <1>1, <1>2, <2>2
<1>4. q < n
  <2>1. SUFFICES ASSUME q >= n PROVE FALSE
    BY <1>2
  <2>2. m * q >= n * m
    BY <1>1, <1>2, <2>1
  <2>. QED BY <1>1, <1>2, <2>2
<1>5. i < m => q = 0
  <2>1. SUFFICES ASSUME i < m, q >= 1 PROVE FALSE
    BY <1>2, <1>3
  <2>2. m * q >= m
    BY <1>1, <1>2, <2>1
  <2>. QED BY <1>1, <1>2, <2>1, <2>2
<1>6. BlockOf(i) = q
  BY DEF BlockOf, m, q
<1>. QED BY <1>1, <1>2, <1>3, <1>4, <1>5, <1>6

-----------------------------------------------------------------------------
(***************************************************************************)
(* Inode tables.  In a sound one an inode that is not live is empty, only  *)
(* the inodes of the first block have data blocks, and no two places have  *)
(* the same one.                                                           *)
(***************************************************************************)

NoBlocks(node) == \A k \in Pointers : node.Direct[k] = INVALID_DATA_BLOCK

Tidy(tab) == \A i \in DOMAIN tab : ~Live(tab, i) => tab[i] = EmptyInode
FirstBlockOnly(tab) ==
  \A i \in DOMAIN tab : BlockOf(i) # 0 => NoBlocks(tab[i])
Sound(tab) == Tidy(tab) /\ FirstBlockOnly(tab) /\ Unshared(tab)

LEMMA EmptyInodeFacts ==
  /\ EmptyInode \in Inode /\ EmptyInode.Valid = FALSE /\ EmptyInode.Size = 0
  /\ NoBlocks(EmptyInode)
BY DiskAssumption
   DEF EmptyInode, Inode, NoBlocks, Pointers, DataBlocks, INVALID_DATA_BLOCK

LEMMA InodeFacts ==
  ASSUME NEW node \in Inode
  PROVE  /\ node.Valid \in BOOLEAN /\ node.Size \in 0 .. POINTERS_PER_INODE
         /\ \A k \in Pointers :
              node.Direct[k] \in {INVALID_DATA_BLOCK} \cup DataBlocks
BY DEF Inode

(* Two ways in which an operation changes one inode.                       *)
LEMMA ValidAssigned ==
  ASSUME NEW D, NEW tab \in [D -> Inode], NEW i \in D
  PROVE  LET new == [tab EXCEPT ![i].Valid = TRUE]
         IN  /\ new \in [D -> Inode] /\ \A j \in D \ {i} : new[j] = tab[j]
             /\ new[i].Valid = TRUE /\ new[i].Size = tab[i].Size
             /\ new[i].Direct = tab[i].Direct
BY DEF Inode

LEMMA SizeAssigned ==
  ASSUME NEW D, NEW tab \in [D -> Inode], NEW i \in D,
         NEW size \in 0 .. POINTERS_PER_INODE
  PROVE  LET new == [tab EXCEPT ![i].Size = size]
         IN  /\ new \in [D -> Inode] /\ \A j \in D \ {i} : new[j] = tab[j]
             /\ new[i].Valid = tab[i].Valid /\ new[i].Size = size
             /\ new[i].Direct = tab[i].Direct
BY DEF Inode

(* The blocks of a table, said with places instead of sets.                *)
LEMMA UsedBlocksDef ==
  ASSUME NEW tab, NEW b
  PROVE  b \in UsedBlocks(tab) <=>
           /\ b # INVALID_DATA_BLOCK
           /\ \E i \in DOMAIN tab :
                Live(tab, i) /\ \E k \in Pointers : tab[i].Direct[k] = b
BY DEF UsedBlocks, BlocksOfInode

LEMMA UsedAreDataBlocks ==
  ASSUME NEW D, NEW tab \in [D -> Inode]
  PROVE  UsedBlocks(tab) \subseteq DataBlocks
<1>1. SUFFICES ASSUME NEW b \in UsedBlocks(tab) PROVE b \in DataBlocks
  OBVIOUS
<1>2. PICK i \in D, k \in Pointers :
        tab[i].Direct[k] = b /\ b # INVALID_DATA_BLOCK
  BY <1>1, UsedBlocksDef
<1>. QED BY <1>2, InodeFacts

(***************************************************************************)
(* Each operation keeps a table sound and changes its blocks as it says.   *)
(***************************************************************************)

LEMMA EmptySound ==
  ASSUME NEW tab, \A i \in DOMAIN tab : tab[i] = EmptyInode
  PROVE  Sound(tab) /\ UsedBlocks(tab) = {}
<1>1. \A i \in DOMAIN tab : ~Live(tab, i) /\ NoBlocks(tab[i])
  BY EmptyInodeFacts DEF Live
<1>2. Sound(tab)
  BY <1>1 DEF Sound, Tidy, FirstBlockOnly, Unshared
<1>. QED BY <1>1, <1>2, UsedBlocksDef

LEMMA CreateSound ==
  ASSUME NEW D, NEW tab \in [D -> Inode], Sound(tab), NEW i \in D, ~Live(tab, i)
  PROVE  LET new == [tab EXCEPT ![i].Valid = TRUE]
         IN  Sound(new) /\ UsedBlocks(new) = UsedBlocks(tab)
<1>. DEFINE new == [tab EXCEPT ![i].Valid = TRUE]
<1>1. tab[i] = EmptyInode
  BY DEF Sound, Tidy
<1>2. /\ DOMAIN new = D /\ DOMAIN tab = D
      /\ \A j \in D \ {i} : new[j] = tab[j]
      /\ new[i].Valid = TRUE /\ new[i].Direct = tab[i].Direct
  BY ValidAssigned
<1>. HIDE DEF new
<1>3. NoBlocks(new[i]) /\ NoBlocks(tab[i])
  BY <1>1, <1>2, EmptyInodeFacts DEF NoBlocks
<1>4. Tidy(new) /\ FirstBlockOnly(new)
  BY <1>2, <1>3 DEF Sound, Tidy, FirstBlockOnly, Live
<1>5. Unshared(new)
  BY <1>2, <1>3 DEF Sound, Unshared, Live, NoBlocks
<1>6. UsedBlocks(new) = UsedBlocks(tab)
  <2>1. ASSUME NEW b PROVE b \in UsedBlocks(new) <=> b \in UsedBlocks(tab)
    BY <1>2, <1>3, UsedBlocksDef DEF Live, NoBlocks
  <2>. QED BY <2>1
<1>. QED BY <1>4, <1>5, <1>6 DEF Sound, new

LEMMA RemoveSound ==
  ASSUME NEW D, NEW tab \in [D -> Inode], Sound(tab), NEW i \in D
  PROVE  LET new == [tab EXCEPT ![i] = EmptyInode]
         IN  /\ Sound(new)
             /\ UsedBlocks(new) = UsedBlocks(tab) \ BlocksOfInode(tab[i])
<1>. DEFINE new == [tab EXCEPT ![i] = EmptyInode]
<1>1. /\ DOMAIN new = D /\ DOMAIN tab = D /\ new[i] = EmptyInode
      /\ \A j \in D \ {i} : new[j] = tab[j]
  OBVIOUS
<1>. HIDE DEF new
<1>2. NoBlocks(new[i]) /\ ~Live(new, i)
  BY <1>1, EmptyInodeFacts DEF Live
<1>3. Tidy(new) /\ FirstBlockOnly(new) /\ Unshared(new)
  BY <1>1, <1>2 DEF Sound, Tidy, FirstBlockOnly, Unshared, Live
<1>4. \A b : b \in BlocksOfInode(tab[i]) <=>
               /\ b # INVALID_DATA_BLOCK
               /\ \E k \in Pointers : tab[i].Direct[k] = b
  BY DEF BlocksOfInode
<1>5. ASSUME NEW b
      PROVE  b \in UsedBlocks(new) <=>
               b \in UsedBlocks(tab) /\ b \notin BlocksOfInode(tab[i])
  <2>1. ASSUME b \in UsedBlocks(new)
        PROVE  b \in UsedBlocks(tab) /\ b \notin BlocksOfInode(tab[i])
    <3>1. PICK j \in D, l \in Pointers :
            Live(new, j) /\ new[j].Direct[l] = b /\ b # INVALID_DATA_BLOCK
      BY <1>1, <2>1, UsedBlocksDef
    <3>2. j # i /\ Live(tab, j) /\ tab[j].Direct[l] = b
      BY <1>1, <1>2, <3>1 DEF Live
    <3>3. b \in UsedBlocks(tab)
      BY <1>1, <3>1, <3>2, UsedBlocksDef
    <3>4. ASSUME NEW k \in Pointers, tab[i].Direct[k] = b PROVE FALSE
      <4>1. Live(tab, i)
        BY <3>1, <3>4, EmptyInodeFacts, <1>1 DEF Sound, Tidy, NoBlocks
      <4>. QED BY <1>1, <3>1, <3>2, <3>4, <4>1 DEF Sound, Unshared
    <3>. QED BY <1>4, <3>3, <3>4
  <2>2. ASSUME b \in UsedBlocks(tab), b \notin BlocksOfInode(tab[i])
        PROVE  b \in UsedBlocks(new)
    BY <1>1, <1>4, <2>2, UsedBlocksDef DEF Live
  <2>. QED BY <2>1, <2>2
<1>. QED BY <1>3, <1>5 DEF Sound, new

LEMMA WriteSound ==
  ASSUME NEW D, NEW tab, DOMAIN tab = D, Sound(tab), NEW i \in D,
         Live(tab, i), BlockOf(i) = 0, NEW k \in Pointers,
         tab[i].Direct[k] = INVALID_DATA_BLOCK,
         NEW b \in DataBlocks, b \notin UsedBlocks(tab),
         NEW new, DOMAIN new = D, \A j \in D \ {i} : new[j] = tab[j],
         new[i].Valid = tab[i].Valid,
         \A l \in Pointers :
           new[i].Direct[l] = IF l = k THEN b ELSE tab[i].Direct[l]
  PROVE  Sound(new) /\ UsedBlocks(new) = UsedBlocks(tab) \cup {b}
<1>2. b # INVALID_DATA_BLOCK
  BY DiskAssumption DEF DataBlocks, INVALID_DATA_BLOCK
<1>3. \A j \in D : Live(new, j) <=> Live(tab, j)
  BY DEF Live
<1>4. \A j \in D, l \in Pointers : Live(tab, j) => tab[j].Direct[l] # b
  BY <1>2, UsedBlocksDef
<1>5. Tidy(new)
  BY <1>3 DEF Sound, Tidy
<1>6. FirstBlockOnly(new)
  BY DEF Sound, FirstBlockOnly
<1>7. Unshared(new)
  BY <1>3, <1>4 DEF Sound, Unshared
<1>8. ASSUME NEW c
      PROVE  c \in UsedBlocks(new) <=> c \in UsedBlocks(tab) \/ c = b
  <2>1. ASSUME c \in UsedBlocks(new) PROVE c \in UsedBlocks(tab) \/ c = b
    <3>1. PICK j \in D, l \in Pointers :
            Live(new, j) /\ new[j].Direct[l] = c /\ c # INVALID_DATA_BLOCK
      BY <2>1, UsedBlocksDef
    <3>2. Live(tab, j)
      BY <1>3, <3>1
    <3>3. CASE j # i
      <4>1. tab[j].Direct[l] = c
        BY <3>1, <3>3
      <4>. QED BY <3>1, <3>2, <4>1, UsedBlocksDef
    <3>4. CASE j = i
      <4>1. c = b \/ tab[j].Direct[l] = c
        BY <3>1, <3>4
      <4>. QED BY <3>1, <3>2, <4>1, UsedBlocksDef
    <3>. QED BY <3>3, <3>4
  <2>2. ASSUME c \in UsedBlocks(tab) PROVE c \in UsedBlocks(new)
    <3>1. PICK j \in D, l \in Pointers :
            Live(tab, j) /\ tab[j].Direct[l] = c /\ c # INVALID_DATA_BLOCK
      BY <2>2, UsedBlocksDef
    <3>2. Live(new, j) /\ new[j].Direct[l] = c
      BY <1>3, <3>1
    <3>. QED BY <3>1, <3>2, UsedBlocksDef
  <2>3. b \in UsedBlocks(new)
    <3>1. Live(new, i) /\ new[i].Direct[k] = b
      BY <1>3
    <3>. QED BY <1>2, <3>1, UsedBlocksDef
  <2>. QED BY <2>1, <2>2, <2>3
<1>. QED BY <1>5, <1>6, <1>7, <1>8 DEF Sound

LEMMA SizeSound ==
  ASSUME NEW D, NEW tab, DOMAIN tab = D, Sound(tab), NEW i \in D, Live(tab, i),
         NEW new, DOMAIN new = D, \A j \in D \ {i} : new[j] = tab[j],
         new[i].Valid = tab[i].Valid, new[i].Direct = tab[i].Direct
  PROVE  Sound(new) /\ UsedBlocks(new) = UsedBlocks(tab)
<1>2. \A j \in D : /\ Live(new, j) <=> Live(tab, j)
                   /\ new[j].Direct = tab[j].Direct
  BY DEF Live
<1>3. Tidy(new)
  BY <1>2 DEF Sound, Tidy
<1>4. FirstBlockOnly(new) /\ Unshared(new)
  BY <1>2 DEF Sound, FirstBlockOnly, Unshared, NoBlocks
<1>5. UsedBlocks(new) = UsedBlocks(tab)
  <2>1. ASSUME NEW b PROVE b \in UsedBlocks(new) <=> b \in UsedBlocks(tab)
    BY <1>2, UsedBlocksDef
  <2>. QED BY <2>1
<1>. QED BY <1>3, <1>4, <1>5 DEF Sound

(* One block of a table, taken from another one.  Both have their data     *)
(* blocks in the first block only, so those of the new table are all from  *)
(* one of them.                                                            *)
LEMMA MergeSound ==
  ASSUME NEW D, NEW tab, DOMAIN tab = D, NEW from, DOMAIN from = D,
         Sound(tab), Sound(from), NEW B, NEW new, DOMAIN new = D,
         \A i \in D : new[i] = IF BlockOf(i) = B THEN from[i] ELSE tab[i]
  PROVE  Sound(new)
<1>3. Tidy(new) /\ FirstBlockOnly(new)
  BY DEF Sound, Tidy, FirstBlockOnly, Live
<1>4. Unshared(new)
  <2>1. CASE B = 0
    <3>1. \A i \in D : BlockOf(i) = 0 => new[i] = from[i]
      BY <2>1
    <3>2. \A i \in D, k \in Pointers :
            new[i].Direct[k] # INVALID_DATA_BLOCK => BlockOf(i) = 0
      BY <1>3 DEF FirstBlockOnly, NoBlocks
    <3>. QED BY <3>1, <3>2 DEF Sound, Unshared, Live
  <2>2. CASE B # 0
    <3>1. \A i \in D : BlockOf(i) = 0 => new[i] = tab[i]
      BY <2>2
    <3>2. \A i \in D, k \in Pointers :
            new[i].Direct[k] # INVALID_DATA_BLOCK => BlockOf(i) = 0
      BY <1>3 DEF FirstBlockOnly, NoBlocks
    <3>. QED BY <3>1, <3>2 DEF Sound, Unshared, Live
  <2>. QED BY <2>1, <2>2
<1>. QED BY <1>3, <1>4 DEF Sound
(* The pointers of a compact inode are different data blocks, so there are *)
(* no more of them than data blocks.                                       *)
LEMMA CompactIsSmall ==
  ASSUME NEW node \in Inode, NEW n \in 0 .. POINTERS_PER_INODE,
         Compact(node, n),
         \A k, l \in Pointers :
           /\ node.Direct[k] # INVALID_DATA_BLOCK
           /\ node.Direct[k] = node.Direct[l]
           => k = l
  PROVE  n < Blocks - InodeBlocks
<1>. DEFINE f == [k \in 0 .. n - 1 |-> node.Direct[k]]
<1>1. \A k \in 0 .. n - 1 :
        k \in Pointers /\ node.Direct[k] # INVALID_DATA_BLOCK
  BY DiskAssumption DEF Compact, Pointers
<1>2. \A k \in 0 .. n - 1 : node.Direct[k] \in DataBlocks
  BY <1>1, InodeFacts
<1>3. f \in Injection(0 .. n - 1, DataBlocks)
  BY <1>1, <1>2 DEF Injection, IsInjective
<1>4. /\ IsFiniteSet(DataBlocks)
      /\ Cardinality(DataBlocks) = Blocks - InodeBlocks - 1
  BY FS_Interval, DiskAssumption DEF DataBlocks
<1>5. Cardinality(0 .. n - 1) = n
  BY FS_Interval, DiskAssumption
<1>6. n <= Blocks - InodeBlocks - 1
  BY <1>3, <1>4, <1>5, FS_Injection
<1>. QED BY <1>6, DiskAssumption

-----------------------------------------------------------------------------
(* The inductive invariant.                                                *)

(* What the phases of a session may rely on.                               *)
Session ==
  /\ super = 0 => \A i \in DOMAIN table : table[i] = EmptyInode
  /\ isDiskMounted => inodeBlocks = super
  /\ ~isDiskMounted => inodeBlocks = 0 /\ free = BlockNumbers
  /\ phase \in {"off", "format"} => ~isDiskMounted
  /\ phase = "format" =>
       /\ offset >= 1
       /\ offset > 1 =>
            \A i \in DOMAIN table : BlockOf(i) = 0 => table[i] = EmptyInode
  /\ phase = "exit" => offset <= inodeBlocks

(* What copyin's loop may rely on.                                         *)
Copying ==
  phase = "copyin" =>
    /\ isDiskMounted
    /\ inode \in DOMAIN inodes /\ Live(inodes, inode) /\ BlockOf(inode) = 0
    /\ file \in Files /\ offset <= Length[file] /\ offset <= POINTERS_PER_INODE
    /\ 0 \in dirty

(* A live inode that is not on the disk is one exit still has to write.    *)
Kept ==
  \A i \in DOMAIN inodes :
    Live(inodes, i) =>
      \/ table[i] = inodes[i]
      \/ BlockOf(i) \in dirty /\ (phase = "exit" => offset <= BlockOf(i))

(* An inode's blocks hold the chunks of f.                                 *)
CopyOf(node, f, contents) ==
  \A k \in Pointers :
    node.Direct[k] # INVALID_DATA_BLOCK =>
      contents[node.Direct[k]] = Chunk(f, k)

(* Without loss: the inodes in memory are copies; those on the disk are,   *)
(* when no inode of the first block is still to be written.                *)
IntactInodes ==
  ~lossy =>
    \A i \in DOMAIN inodes :
      Live(inodes, i) =>
        \E f \in Files \cup {NoFile} :
          /\ CopyOf(inodes[i], f, data)
          /\ phase = "copyin" /\ i = inode => f = file
IntactTable ==
  /\ ~lossy
  /\ 0 \notin dirty \/ (phase = "exit" /\ offset > 0)
  => \A i \in DOMAIN table :
       Live(table, i) =>
         \E f \in Files \cup {NoFile} : CopyOf(table[i], f, data)

IInv ==
  /\ TypeOK /\ Session /\ Copying
  /\ Sound(inodes) /\ Sound(table)
  /\ BitmapSound /\ BitmapExact
  /\ SizeMatchesBlocks
  /\ Kept
  /\ IntactInodes /\ IntactTable

-----------------------------------------------------------------------------
(* Consequences of the invariant.                                          *)

LEMMA NoInodes == InodesOf(0) = {}
BY DiskAssumption DEF InodesOf

LEMMA FirstInode == 0 \in InodesOf(InodeBlocks)
<1>1. InodeBlocks * INODES_PER_BLOCK \in Nat
  BY DiskAssumption
<1>2. InodeBlocks * INODES_PER_BLOCK >= 1
  BY DiskAssumption
<1>. QED BY <1>1, <1>2 DEF InodesOf

(* The inode tables in memory and on the disk have the same numbers, or    *)
(* there is none in memory.                                                *)
LEMMA Layout ==
  ASSUME TypeOK, Session
  PROVE  /\ DOMAIN table = InodesOf(InodeBlocks)
         /\ DOMAIN inodes = InodesOf(inodeBlocks)
         /\ inodeBlocks = 0 => DOMAIN inodes = {}
         /\ inodeBlocks # 0 => /\ inodeBlocks = InodeBlocks
                               /\ isDiskMounted /\ super = InodeBlocks
         /\ DOMAIN inodes \subseteq DOMAIN table
         /\ inodeBlocks \in Nat /\ inodeBlocks <= InodeBlocks
         /\ InodeBlocks + 1 < Blocks
<1>1. super \in {0, InodeBlocks} /\ inodeBlocks \in {0, InodeBlocks}
  BY DEF TypeOK, DiskTypeOK, MemTypeOK
<1>2. /\ DOMAIN table = InodesOf(InodeBlocks)
      /\ DOMAIN inodes = InodesOf(inodeBlocks)
  BY DEF TypeOK, DiskTypeOK, MemTypeOK
<1>3. /\ isDiskMounted => inodeBlocks = super
      /\ ~isDiskMounted => inodeBlocks = 0
  BY DEF Session
<1>. QED BY <1>1, <1>2, <1>3, NoInodes, DiskAssumption

THEOREM FileShellInit == Init => IInv
<1>. SUFFICES ASSUME Init PROVE IInv
  OBVIOUS
<1>. USE DEF Init, Open
<1>1. /\ DOMAIN inodes = {} /\ dirty = {} /\ free = BlockNumbers
      /\ inodeBlocks = 0 /\ mounts = 0 /\ phase = "shell" /\ lossy = FALSE
      /\ file = NoFile /\ inode = 0 /\ offset = 0
  BY NoInodes
<1>2. \A i \in DOMAIN table : table[i] = EmptyInode
  OBVIOUS
<1>3. TypeOK
  <2>1. DiskTypeOK
    BY EmptyInodeFacts DEF DiskTypeOK, Content
  <2>2. MemTypeOK
    BY EmptyInodeFacts, NoInodes DEF MemTypeOK
  <2>3. inode \in InodesOf(InodeBlocks)
    BY <1>1, FirstInode
  <2>4. offset \in 0 .. Blocks
    BY <1>1, DiskAssumption
  <2>. QED BY <1>1, <2>1, <2>2, <2>3, <2>4, Zenon DEF TypeOK
<1>4. Session /\ Copying
  BY <1>1, <1>2 DEF Session, Copying, isDiskMounted
<1>5. Sound(inodes) /\ UsedBlocks(inodes) = {}
  BY <1>1, EmptySound
<1>6. Sound(table)
  BY <1>2, EmptySound
<1>7. BitmapSound /\ BitmapExact
  BY <1>1, <1>5 DEF BitmapSound, BitmapExact
<1>8. \A i \in DOMAIN table : ~Live(table, i)
  BY <1>2, EmptyInodeFacts DEF Live
<1>9. SizeMatchesBlocks /\ Kept
  BY <1>1, <1>8 DEF SizeMatchesBlocks, Kept
<1>10. IntactInodes /\ IntactTable
  BY <1>1, <1>8 DEF IntactInodes, IntactTable
<1>. QED BY <1>3, <1>4, <1>5, <1>6, <1>7, <1>9, <1>10 DEF IInv

-----------------------------------------------------------------------------
(* Steps that leave the disk and the object alone.                         *)

LEMMA QuietKeeps ==
  ASSUME IInv, Format \/ FormatDone \/ Exit \/ Start
  PROVE  IInv'
<1>1. UNCHANGED <<diskVars, memVars, lossy>>
  BY DEF Format, FormatDone, Exit, Start
<1>2. /\ inode' \in InodesOf(InodeBlocks) /\ file' \in Files \cup {NoFile}
      /\ offset' \in 0 .. Blocks
  <2>1. 0 \in 0 .. Blocks /\ 1 \in 0 .. Blocks
    BY DiskAssumption
  <2>. QED BY <2>1, FirstInode
           DEF IInv, TypeOK, Format, FormatDone, Exit, Start, Locals, NoLocals
<1>3. /\ phase \in {"off", "format", "shell"}
      /\ phase' \in {"shell", "format", "exit"}
      /\ phase' = "format" => ~isDiskMounted /\ offset' = 1
      /\ phase' = "exit" => offset' = 0
  BY DEF Format, FormatDone, Exit, Start, Goto, Locals
<1>4. TypeOK /\ Session /\ Sound(inodes) /\ Sound(table)
  BY DEF IInv
<1>. USE <1>1 DEF diskVars, memVars
<1>5. isDiskMounted' <=> isDiskMounted
  BY DEF isDiskMounted
<1>6. TypeOK'
  BY <1>2, <1>3, <1>4 DEF TypeOK, DiskTypeOK, MemTypeOK
<1>7. Session'
  BY <1>3, <1>4, <1>5, Layout DEF Session
<1>8. Copying'
  BY <1>3 DEF Copying
<1>9. Sound(inodes)' /\ Sound(table)'
  BY <1>4
<1>10. BitmapSound' /\ BitmapExact'
  BY DEF IInv, BitmapSound, BitmapExact, Settable, FirstDataBlock
<1>11. SizeMatchesBlocks'
  BY <1>3 DEF IInv, SizeMatchesBlocks
<1>12. Kept'
  BY <1>3, <1>4, Layout, InodeBlock DEF IInv, Kept
<1>13. IntactInodes' /\ IntactTable'
  BY <1>3 DEF IInv, IntactInodes, IntactTable
<1>. QED BY <1>6, <1>7, <1>8, <1>9, <1>10, <1>11, <1>12, <1>13 DEF IInv

-----------------------------------------------------------------------------
(* The end of the process.                                                 *)

LEMMA EndKeeps ==
  ASSUME IInv, Abort \/ Exited \/ Kill
  PROVE  IInv'
<1>1. Stop
  BY DEF Abort, Exited, Kill
<1>2. /\ DOMAIN inodes' = {} /\ inodes' = [i \in InodesOf(0) |-> EmptyInode]
      /\ dirty' = {} /\ free' = BlockNumbers /\ inodeBlocks' = 0 /\ mounts' = 0
      /\ phase' = "off" /\ file' = NoFile /\ inode' = 0 /\ offset' = 0
      /\ UNCHANGED diskVars
  BY <1>1, NoInodes DEF Stop, Construct, NoLocals, Locals
<1>3. TypeOK /\ Session /\ Sound(inodes) /\ Sound(table)
  BY DEF IInv
<1>4. TypeOK'
  <2>1. DiskTypeOK'
    BY <1>2, <1>3 DEF TypeOK, DiskTypeOK, diskVars
  <2>2. MemTypeOK'
    BY <1>2, EmptyInodeFacts, NoInodes DEF MemTypeOK
  <2>3. inode' \in InodesOf(InodeBlocks) /\ offset' \in 0 .. Blocks
    BY <1>2, FirstInode, DiskAssumption
  <2>4. lossy' \in BOOLEAN
    BY <1>3, Zenon DEF TypeOK, Abort, Exited, Kill
  <2>. QED BY <1>2, <2>1, <2>2, <2>3, <2>4, Zenon DEF TypeOK
<1>5. Session' /\ Copying'
  BY <1>2, <1>3 DEF Session, Copying, isDiskMounted, diskVars
<1>6. Sound(inodes)' /\ Sound(table)' /\ UsedBlocks(inodes)' = {}
  BY <1>2, <1>3, EmptySound DEF diskVars
<1>7. BitmapSound' /\ BitmapExact'
  BY <1>2, <1>6 DEF BitmapSound, BitmapExact
<1>8. SizeMatchesBlocks' /\ Kept' /\ IntactInodes'
  BY <1>2 DEF IInv, SizeMatchesBlocks, Kept, IntactInodes, diskVars
<1>9. IntactTable'
  <2>1. CASE Abort \/ Kill
    BY <2>1 DEF Abort, Kill, IntactTable
  <2>2. CASE Exited
    <3>1. phase = "exit" /\ offset = inodeBlocks /\ lossy' = lossy
      BY <2>2 DEF Exited
    <3>2. 0 \notin dirty \/ offset > 0
      BY <1>3, <3>1, Layout DEF TypeOK, MemTypeOK
    <3>. QED BY <1>2, <3>1, <3>2 DEF IInv, IntactTable, diskVars
  <2>. QED BY <2>1, <2>2
<1>. QED BY <1>3, <1>4, <1>5, <1>6, <1>7, <1>8, <1>9 DEF IInv

-----------------------------------------------------------------------------
(* Mount.                                                                  *)

LEMMA MountKeeps ==
  ASSUME IInv, Mount
  PROVE  IInv'
<1>1. /\ TypeOK /\ Session /\ Copying /\ Sound(inodes) /\ Sound(table)
      /\ BitmapSound /\ BitmapExact /\ SizeMatchesBlocks /\ IntactTable
  BY DEF IInv
<1>2. /\ phase = "shell" /\ UNCHANGED <<phase, file, inode, offset>>
      /\ mounts' = IF mounts = 0 THEN 1 ELSE 2
      /\ inodeBlocks' = super /\ dirty' = {}
      /\ inodes' = [i \in InodesOf(super) |-> table[i]]
      /\ free' = free \ UsedBlocks(inodes')
      /\ UNCHANGED <<super, table, data>>
      /\ lossy' = (lossy \/ isDiskMounted)
  BY DEF Mount, mount, diskVars
<1>3. /\ super \in {0, InodeBlocks}
      /\ table \in [InodesOf(InodeBlocks) -> Inode]
      /\ mounts \in 0 .. 2 /\ free \subseteq BlockNumbers
      /\ lossy \in BOOLEAN /\ isDiskMounted \in BOOLEAN
  BY <1>1 DEF TypeOK, DiskTypeOK, MemTypeOK, isDiskMounted
<1>4. isDiskMounted'
  BY <1>2, <1>3 DEF isDiskMounted
<1>5. DOMAIN inodes' \subseteq DOMAIN table
  BY <1>2, <1>3, NoInodes
<1>6. \A i \in DOMAIN inodes' : inodes'[i] = table[i]
  BY <1>2
<1>7. TypeOK'
  <2>1. MemTypeOK'
    <3>1. mounts' \in 0 .. 2
      BY <1>2, <1>3
    <3>2. inodes' \in [InodesOf(inodeBlocks') -> Inode]
      BY <1>2, <1>3, NoInodes
    <3>. QED BY <1>2, <1>3, <3>1, <3>2 DEF MemTypeOK
  <2>2. lossy' \in BOOLEAN
    BY <1>2, <1>3, Zenon
  <2>. QED BY <1>1, <1>2, <2>1, <2>2 DEF TypeOK, DiskTypeOK
<1>8. Session' /\ Copying'
  BY <1>1, <1>2, <1>4 DEF Session, Copying
<1>9. Sound(inodes)'
  <2>1. CASE super = 0
    BY <1>2, <2>1, NoInodes, EmptySound
  <2>2. CASE super = InodeBlocks
    <3>1. inodes' = table
      BY <1>2, <1>3, <2>2
    <3>. QED BY <1>1, <3>1
  <2>. QED BY <1>3, <2>1, <2>2
<1>10. Sound(table)'
  BY <1>1, <1>2
<1>11. BitmapSound'
  BY <1>2 DEF BitmapSound
<1>12. BitmapExact'
  <2>1. SUFFICES ASSUME mounts = 0
                 PROVE  Settable(free)' =
                          Settable(BlockNumbers)' \ UsedBlocks(inodes)'
    BY <1>2, <1>3 DEF BitmapExact
  <2>2. free = BlockNumbers
    BY <1>1, <2>1 DEF Session, isDiskMounted
  <2>. QED BY <1>2, <2>2 DEF Settable
<1>13. SizeMatchesBlocks'
  BY <1>1, <1>2, <1>5, <1>6 DEF SizeMatchesBlocks, Live
<1>14. Kept'
  BY <1>2, <1>6 DEF Kept
<1>15. IntactInodes' /\ IntactTable'
  <2>1. SUFFICES ASSUME ~lossy, ~isDiskMounted
                 PROVE  IntactInodes' /\ IntactTable'
    BY <1>2, <1>3 DEF IntactInodes, IntactTable
  <2>2. 0 \notin dirty
    BY <1>1, <2>1 DEF Session, TypeOK, MemTypeOK
  <2>3. \A i \in DOMAIN table :
          Live(table, i) =>
            \E f \in Files \cup {NoFile} : CopyOf(table[i], f, data)
    BY <1>1, <2>1, <2>2 DEF IntactTable
  <2>. QED BY <1>2, <1>5, <1>6, <2>3 DEF IntactInodes, IntactTable, Live
<1>. QED BY <1>7, <1>8, <1>9, <1>10, <1>11, <1>12, <1>13, <1>14, <1>15
         DEF IInv

-----------------------------------------------------------------------------
(* A pass of format's loop: there is no session, and the first block that  *)
(* goes is the one of the inodes that have data blocks.                    *)

LEMMA FormatBlockKeeps ==
  ASSUME IInv, FormatBlock
  PROVE  IInv'
<1>1. /\ TypeOK /\ Session /\ Copying /\ Sound(inodes) /\ Sound(table)
      /\ BitmapSound /\ BitmapExact /\ SizeMatchesBlocks /\ IntactTable
  BY DEF IInv
<1>2. /\ phase = "format" /\ offset < Blocks
      /\ table' = [i \in DOMAIN table |->
                     IF BlockOf(i) + 1 = offset THEN EmptyInode ELSE table[i]]
      /\ data' = [c \in DataBlocks |-> IF c = offset THEN Zeros ELSE data[c]]
      /\ file' = NoFile /\ inode' = 0 /\ offset' = offset + 1
      /\ UNCHANGED <<super, memVars, phase, lossy>>
  BY <1>1, DiskAssumption
     DEF TypeOK, FormatBlock, OutOfRange, writeZeros, Locals
<1>3. /\ table \in [InodesOf(InodeBlocks) -> Inode] /\ offset \in Nat
      /\ data \in [DataBlocks -> Content]
  BY <1>1, DiskAssumption DEF TypeOK, DiskTypeOK
<1>4. ~isDiskMounted /\ inodeBlocks = 0 /\ dirty = {} /\ DOMAIN inodes = {}
  BY <1>1, <1>2, Layout DEF Session, TypeOK, MemTypeOK
<1>5. DOMAIN table' = DOMAIN table /\ DOMAIN table = InodesOf(InodeBlocks)
  BY <1>2, <1>3
<1>6. \A i \in DOMAIN table : BlockOf(i) \in Nat
  BY <1>5, InodeBlock, DiskAssumption
<1>7. \A i \in DOMAIN table :
        table'[i] = IF BlockOf(i) + 1 = offset THEN EmptyInode ELSE table[i]
  BY <1>2
<1>8. TypeOK'
  <2>1. DiskTypeOK'
    <3>1. table' \in [InodesOf(InodeBlocks) -> Inode]
      BY <1>2, <1>3, EmptyInodeFacts
    <3>2. data' \in [DataBlocks -> Content]
      BY <1>2, <1>3 DEF Content
    <3>. QED BY <1>1, <1>2, <3>1, <3>2 DEF TypeOK, DiskTypeOK
  <2>2. MemTypeOK'
    BY <1>1, <1>2 DEF TypeOK, MemTypeOK, memVars
  <2>3. inode' \in InodesOf(InodeBlocks) /\ offset' \in 0 .. Blocks
    BY <1>2, <1>3, FirstInode, DiskAssumption
  <2>. QED BY <1>1, <1>2, <2>1, <2>2, <2>3 DEF TypeOK
<1>9. Session' /\ Copying'
  <2>1. super' = 0 => \A i \in DOMAIN table' : table'[i] = EmptyInode
    BY <1>1, <1>2, <1>5, <1>7 DEF Session
  <2>2. offset' >= 1
    BY <1>2, <1>3
  <2>3. \A i \in DOMAIN table : BlockOf(i) = 0 => table'[i] = EmptyInode
    BY <1>1, <1>2, <1>3, <1>7 DEF Session
  <2>. QED BY <1>1, <1>2, <1>5, <2>1, <2>2, <2>3
           DEF Session, Copying, isDiskMounted, memVars
<1>10. Sound(inodes)' /\ BitmapSound' /\ BitmapExact' /\ Kept' /\ IntactInodes'
  BY <1>1, <1>2, <1>4
     DEF BitmapSound, BitmapExact, isDiskMounted, Kept, IntactInodes, memVars
<1>11. Sound(table)'
  <2>. DEFINE none == [i \in InodesOf(InodeBlocks) |-> EmptyInode]
              B == offset - 1
  <2>2. Sound(none)
    BY EmptySound
  <2>3. \A i \in InodesOf(InodeBlocks) :
          table'[i] = IF BlockOf(i) = B THEN none[i] ELSE table[i]
    BY <1>3, <1>5, <1>6, <1>7
  <2>4. DOMAIN none = InodesOf(InodeBlocks)
    OBVIOUS
  <2>. HIDE DEF none, B
  <2>. QED BY <1>1, <1>5, <2>2, <2>3, <2>4, MergeSound
<1>12. SizeMatchesBlocks'
  BY <1>1, <1>2, <1>4, <1>5, <1>7, EmptyInodeFacts
     DEF SizeMatchesBlocks, Live, memVars
<1>13. IntactTable'
  <2>1. SUFFICES ASSUME ~lossy, NEW i \in DOMAIN table, Live(table', i)
                 PROVE  \E f \in Files \cup {NoFile} :
                          CopyOf(table'[i], f, data')
    BY <1>2, <1>5 DEF IntactTable
  <2>2. table'[i] = table[i] /\ Live(table, i)
    BY <1>7, <2>1, EmptyInodeFacts DEF Live
  <2>3. PICK f \in Files \cup {NoFile} : CopyOf(table[i], f, data)
    BY <1>1, <1>4, <2>1, <2>2 DEF IntactTable
  <2>4. CASE BlockOf(i) # 0
    <3>1. NoBlocks(table[i])
      BY <1>1, <2>4 DEF Sound, FirstBlockOnly
    <3>. QED BY <2>2, <3>1 DEF CopyOf, NoBlocks
  <2>5. CASE BlockOf(i) = 0
    <3>1. table[i] # EmptyInode
      BY <2>2, EmptyInodeFacts DEF Live
    <3>2. offset = 1
      BY <1>1, <1>2, <1>3, <2>5, <3>1 DEF Session
    <3>3. \A c \in DataBlocks : data'[c] = data[c]
      BY <1>2, <3>2, DiskAssumption DEF DataBlocks
    <3>4. \A k \in Pointers :
            table[i].Direct[k] # INVALID_DATA_BLOCK =>
              table[i].Direct[k] \in DataBlocks
      BY <1>3, <1>5, InodeFacts
    <3>. QED BY <2>2, <2>3, <3>3, <3>4 DEF CopyOf
  <2>. QED BY <2>4, <2>5
<1>. QED BY <1>8, <1>9, <1>10, <1>11, <1>12, <1>13 DEF IInv

-----------------------------------------------------------------------------
(* The commands that give blocks back and take them.                       *)

LEMMA RemoveKeeps ==
  ASSUME IInv, NEW i \in DOMAIN inodes, Remove(i)
  PROVE  IInv'
<1>1. /\ TypeOK /\ Session /\ Copying /\ Sound(inodes) /\ Sound(table)
      /\ BitmapSound /\ BitmapExact /\ SizeMatchesBlocks /\ Kept
      /\ IntactInodes /\ IntactTable
  BY DEF IInv
<1>2. /\ phase = "shell" /\ isDiskMounted
      /\ free' = free \cup Settable(BlocksOfInode(inodes[i]))
      /\ inodes' = [inodes EXCEPT ![i] = EmptyInode]
      /\ UNCHANGED <<super, table, data, mounts, inodeBlocks, dirty,
                     phase, file, inode, offset, lossy>>
  BY DEF Remove, remove, diskVars, shellVars
<1>3. inodes \in [InodesOf(inodeBlocks) -> Inode] /\ free \subseteq BlockNumbers
  BY <1>1 DEF TypeOK, MemTypeOK
<1>4. /\ DOMAIN inodes' = DOMAIN inodes
      /\ inodes'[i] = EmptyInode /\ ~Live(inodes', i)
      /\ \A j \in DOMAIN inodes : j # i => inodes'[j] = inodes[j]
  BY <1>2, EmptyInodeFacts DEF Live
<1>5. /\ Sound(inodes')
      /\ UsedBlocks(inodes') = UsedBlocks(inodes) \ BlocksOfInode(inodes[i])
  BY <1>1, <1>2, <1>3, RemoveSound, ZenonT(40)
<1>6. Settable(BlocksOfInode(inodes[i])) =
        Settable(BlockNumbers) \cap BlocksOfInode(inodes[i])
  <2>1. BlocksOfInode(inodes[i]) \subseteq DataBlocks
    BY <1>3, InodeFacts DEF BlocksOfInode
  <2>2. DataBlocks \subseteq BlockNumbers
    BY DiskAssumption DEF DataBlocks, BlockNumbers
  <2>. QED BY <2>1, <2>2 DEF Settable
<1>7. TypeOK'
  <2>1. free' \subseteq BlockNumbers
    BY <1>2, <1>3, <1>6 DEF Settable
  <2>2. inodes' \in [InodesOf(inodeBlocks) -> Inode]
    BY <1>2, <1>3, EmptyInodeFacts
  <2>. QED BY <1>1, <1>2, <2>1, <2>2 DEF TypeOK, DiskTypeOK, MemTypeOK
<1>8. Session' /\ Copying'
  BY <1>1, <1>2 DEF Session, Copying, isDiskMounted
<1>9. Sound(inodes)' /\ Sound(table)'
  BY <1>1, <1>2, <1>5
<1>10. BitmapSound'
  BY <1>1, <1>2, <1>5, <1>6 DEF BitmapSound
<1>11. BitmapExact'
  <2>1. SUFFICES ASSUME mounts = 1
                 PROVE  Settable(free') =
                          Settable(BlockNumbers) \ UsedBlocks(inodes')
    BY <1>2 DEF BitmapExact, Settable, FirstDataBlock
  <2>2. Settable(free) = Settable(BlockNumbers) \ UsedBlocks(inodes)
    BY <1>1, <2>1 DEF BitmapExact
  <2>3. Settable(free') = Settable(free) \cup Settable(BlocksOfInode(inodes[i]))
    BY <1>2 DEF Settable
  <2>. QED BY <1>5, <1>6, <2>2, <2>3
<1>12. SizeMatchesBlocks'
  BY <1>1, <1>2, <1>4 DEF SizeMatchesBlocks, Live
<1>13. Kept'
  BY <1>1, <1>2, <1>4 DEF Kept, Live
<1>14. IntactInodes'
  BY <1>1, <1>2, <1>4 DEF IntactInodes, Live
<1>15. IntactTable'
  BY <1>1, <1>2 DEF IntactTable
<1>. QED BY <1>7, <1>8, <1>9, <1>10, <1>11, <1>12, <1>13, <1>14, <1>15
         DEF IInv

LEMMA CopyoutKeeps ==
  ASSUME IInv, NEW i \in DOMAIN inodes, Copyout(i)
  PROVE  IInv'
<1>1. /\ TypeOK /\ Session /\ Copying /\ Sound(inodes) /\ Sound(table)
      /\ BitmapSound /\ BitmapExact /\ SizeMatchesBlocks /\ Kept
      /\ IntactInodes /\ IntactTable
  BY DEF IInv
<1>. DEFINE R == {inodes[i].Direct[k] : k \in Readable(i)}
<1>2. /\ phase = "shell" /\ isDiskMounted
      /\ free' = free \ Settable(R)
      /\ UNCHANGED <<super, table, data, mounts, inodeBlocks, inodes, dirty,
                     phase, file, inode, offset, lossy>>
  BY DEF Copyout, read, diskVars, shellVars
<1>3. R \subseteq UsedBlocks(inodes)
  <2>1. SUFFICES ASSUME NEW k \in Readable(i)
                 PROVE  inodes[i].Direct[k] \in UsedBlocks(inodes)
    OBVIOUS
  <2>2. k \in Pointers /\ inodes[i].Direct[k] # INVALID_DATA_BLOCK
    BY <2>1 DEF Readable, ReadableIn, Pointers
  <2>3. Live(inodes, i)
    BY <1>1, <2>2, EmptyInodeFacts DEF Sound, Tidy, NoBlocks
  <2>. QED BY <2>2, <2>3, UsedBlocksDef
<1>. HIDE DEF R
<1>4. free' \subseteq free /\ Settable(free') = Settable(free) \ R
  BY <1>2 DEF Settable
<1>5. TypeOK'
  BY <1>1, <1>2, <1>4 DEF TypeOK, DiskTypeOK, MemTypeOK
<1>6. Session' /\ Copying' /\ Sound(inodes)' /\ Sound(table)'
  BY <1>1, <1>2 DEF Session, Copying, isDiskMounted
<1>7. BitmapSound'
  BY <1>1, <1>2, <1>4 DEF BitmapSound
<1>8. BitmapExact'
  <2>1. SUFFICES ASSUME mounts = 1
                 PROVE  Settable(free') =
                          Settable(BlockNumbers) \ UsedBlocks(inodes)
    BY <1>2 DEF BitmapExact, Settable, FirstDataBlock
  <2>. QED BY <1>1, <1>3, <1>4, <2>1 DEF BitmapExact
<1>9. SizeMatchesBlocks' /\ Kept' /\ IntactInodes' /\ IntactTable'
  BY <1>1, <1>2 DEF SizeMatchesBlocks, Kept, IntactInodes, IntactTable
<1>. QED BY <1>5, <1>6, <1>7, <1>8, <1>9 DEF IInv

LEMMA NextFreeINode ==
  ASSUME TypeOK, FreeINodes # {}
  PROVE  getNextFreeINode \in DOMAIN inodes /\ ~Live(inodes, getNextFreeINode)
<1>1. FreeINodes \in SUBSET Nat
  <2>1. DOMAIN inodes = InodesOf(inodeBlocks)
    BY DEF TypeOK, MemTypeOK
  <2>. QED BY <2>1 DEF FreeINodes, InodesOf
<1>2. \E i \in FreeINodes : \A j \in FreeINodes : i <= j
  BY <1>1, LeastElement
<1>. HIDE DEF FreeINodes
<1>3. getNextFreeINode \in FreeINodes
  BY <1>2 DEF getNextFreeINode
<1>. QED BY <1>3 DEF FreeINodes

(* A block that write gets is a data block that no live inode has.         *)
LEMMA NextFreeBlock ==
  ASSUME TypeOK, BitmapSound, inodeBlocks = InodeBlocks, ~writeThrows
  PROVE  /\ getNextFreeBlock \in DataBlocks
         /\ getNextFreeBlock \notin UsedBlocks(inodes)
<1>. DEFINE S == {b \in BlockNumbers : getBlockFreeStatus(b)}
<1>1. \E b \in BlockNumbers : getBlockFreeStatus(b)
  <2>1. SUFFICES ASSUME ~\E b \in BlockNumbers : getBlockFreeStatus(b)
                 PROVE  FALSE
    OBVIOUS
  <2>2. getNextFreeBlock = Blocks
    BY <2>1 DEF getNextFreeBlock
  <2>. QED BY <2>2, DiskAssumption DEF writeThrows, OutOfRange
<1>2. S \in SUBSET Nat /\ S # {}
  BY <1>1, DiskAssumption DEF BlockNumbers
<1>3. \E b \in S : \A c \in S : b <= c
  BY <1>2, LeastElement
<1>4. \E b \in BlockNumbers : /\ getBlockFreeStatus(b)
                              /\ \A c \in BlockNumbers :
                                   getBlockFreeStatus(c) => b <= c
  BY <1>3
<1>. HIDE DEF S
<1>5. getNextFreeBlock \in BlockNumbers /\ getBlockFreeStatus(getNextFreeBlock)
  BY <1>1, <1>4 DEF getNextFreeBlock
<1>6. getNextFreeBlock \in free /\ getNextFreeBlock \in DataBlocks
  BY <1>5, DiskAssumption
     DEF getBlockFreeStatus, Settable, FirstDataBlock, DataBlocks, BlockNumbers
<1>. QED BY <1>6 DEF BitmapSound

LEMMA CopyinKeeps ==
  ASSUME IInv, NEW f \in Files \cup {NoFile}, Copyin(f)
  PROVE  IInv'
<1>1. /\ TypeOK /\ Session /\ Copying /\ Sound(inodes) /\ Sound(table)
      /\ BitmapSound /\ BitmapExact /\ SizeMatchesBlocks /\ Kept
      /\ IntactInodes /\ IntactTable
  BY DEF IInv
<1>. DEFINE i == getNextFreeINode
<1>2. /\ phase = "shell" /\ isDiskMounted /\ FreeINodes # {}
      /\ inodes' = [inodes EXCEPT ![i].Valid = TRUE]
      /\ dirty' = dirty \cup {BlockOf(i)}
      /\ UNCHANGED <<super, table, data, mounts, inodeBlocks, free, lossy>>
      /\ IF isValidInode(i) /\ f # NoFile
         THEN phase' = "copyin" /\ file' = f /\ inode' = i /\ offset' = 0
         ELSE UNCHANGED <<phase, file, inode, offset>>
  BY DEF Copyin, create, diskVars, Locals
<1>3. i \in DOMAIN inodes /\ ~Live(inodes, i)
  BY <1>1, <1>2, NextFreeINode
<1>. HIDE DEF i
<1>4. inodes \in [InodesOf(inodeBlocks) -> Inode] /\ i \in InodesOf(inodeBlocks)
  BY <1>1, <1>3 DEF TypeOK, MemTypeOK
<1>5. /\ DOMAIN inodes \subseteq DOMAIN table
      /\ DOMAIN table = InodesOf(InodeBlocks)
      /\ inodeBlocks \in Nat /\ inodeBlocks <= InodeBlocks
  BY <1>1, Layout
<1>6. BlockOf(i) \in 0 .. inodeBlocks - 1 /\ (i < InodeBlocks => BlockOf(i) = 0)
  BY <1>4, <1>5, InodeBlock
<1>7. /\ inodes' \in [InodesOf(inodeBlocks) -> Inode]
      /\ DOMAIN inodes' = DOMAIN inodes
      /\ \A j \in DOMAIN inodes : j # i => inodes'[j] = inodes[j]
      /\ inodes'[i].Valid = TRUE /\ inodes'[i].Size = inodes[i].Size
      /\ inodes'[i].Direct = inodes[i].Direct
  BY <1>2, <1>4, ValidAssigned
<1>8. NoBlocks(inodes'[i]) /\ inodes'[i].Size = 0
  <2>1. inodes[i] = EmptyInode
    BY <1>1, <1>3 DEF Sound, Tidy
  <2>. QED BY <1>7, <2>1, EmptyInodeFacts DEF NoBlocks
<1>9. Sound(inodes') /\ UsedBlocks(inodes') = UsedBlocks(inodes)
  BY <1>1, <1>2, <1>3, <1>4, CreateSound
<1>10. phase' = "copyin" =>
         f \in Files /\ BlockOf(i) = 0 /\ file' = f /\ inode' = i /\ offset' = 0
  <2>1. SUFFICES ASSUME phase' = "copyin"
                 PROVE  f \in Files /\ BlockOf(i) = 0 /\ file' = f /\ inode' = i
                        /\ offset' = 0
    OBVIOUS
  <2>2. isValidInode(i) /\ f # NoFile
    BY <1>2, <2>1
  <2>3. i < InodeBlocks
    BY <1>4, <1>5, <2>2, DiskAssumption DEF isValidInode, InodesOf
  <2>. QED BY <1>2, <1>6, <2>2, <2>3
<1>11. phase' \in {"shell", "copyin"}
  BY <1>2
<1>12. TypeOK'
  <2>1. inode' \in InodesOf(InodeBlocks) /\ file' \in Files \cup {NoFile}
    BY <1>1, <1>2, <1>3, <1>5 DEF TypeOK
  <2>2. offset' \in 0 .. Blocks
    BY <1>1, <1>2, DiskAssumption DEF TypeOK
  <2>3. DiskTypeOK'
    BY <1>1, <1>2 DEF TypeOK, DiskTypeOK
  <2>4. MemTypeOK'
    BY <1>1, <1>2, <1>6, <1>7 DEF TypeOK, MemTypeOK
  <2>. QED BY <1>1, <1>2, <1>11, <2>1, <2>2, <2>3, <2>4, Zenon DEF TypeOK
<1>13. Session'
  BY <1>1, <1>2, <1>11 DEF Session, isDiskMounted
<1>14. Copying'
  <2>1. SUFFICES ASSUME phase' = "copyin"
                 PROVE  /\ isDiskMounted /\ Live(inodes', i) /\ BlockOf(i) = 0
                        /\ f \in Files /\ 0 <= Length[f]
                        /\ 0 <= POINTERS_PER_INODE /\ 0 \in dirty'
    BY <1>2, <1>3, <1>7, <1>10 DEF Copying, isDiskMounted
  <2>. QED BY <1>2, <1>7, <1>10, <2>1, DiskAssumption DEF Live
<1>15. Sound(inodes)' /\ Sound(table)'
  BY <1>1, <1>2, <1>9
<1>16. BitmapSound' /\ BitmapExact'
  BY <1>1, <1>2, <1>9 DEF BitmapSound, BitmapExact, Settable, FirstDataBlock
<1>17. SizeMatchesBlocks'
  <2>1. \A size : size = 0 => Compact(inodes'[i], size)
    BY <1>8, DiskAssumption DEF Compact, NoBlocks, Pointers
  <2>2. \A j \in DOMAIN inodes : Live(inodes', j) =>
           Compact(inodes'[j], IF phase' = "copyin" /\ j = inode' THEN offset'
                                                      ELSE inodes'[j].Size)
    BY <1>1, <1>2, <1>7, <1>8, <1>10, <2>1 DEF SizeMatchesBlocks, Live
  <2>. QED BY <1>1, <1>2, <1>7, <2>2 DEF SizeMatchesBlocks
<1>18. Kept'
  BY <1>1, <1>2, <1>7, <1>11 DEF Kept, Live
<1>19. IntactInodes'
  <2>1. SUFFICES ASSUME ~lossy, NEW j \in DOMAIN inodes, Live(inodes', j)
                 PROVE  \E g \in Files \cup {NoFile} :
                          /\ CopyOf(inodes'[j], g, data)
                          /\ phase' = "copyin" /\ j = inode' => g = file'
    BY <1>2, <1>7 DEF IntactInodes
  <2>2. CASE j = i
    BY <1>8, <1>10, <2>2 DEF CopyOf, NoBlocks
  <2>3. CASE j # i
    BY <1>1, <1>2, <1>7, <1>10, <2>1, <2>3 DEF IntactInodes, Live
  <2>. QED BY <2>2, <2>3
<1>20. IntactTable'
  BY <1>1, <1>2, <1>11 DEF IntactTable
<1>. QED BY <1>12, <1>13, <1>14, <1>15, <1>16, <1>17, <1>18, <1>19, <1>20
         DEF IInv

-----------------------------------------------------------------------------
(* The passes of copyin's loop.                                            *)

(* What copyin's loop does in a pass: the block it writes was nobody's.    *)
LEMMA CopyChunkFacts ==
  ASSUME IInv, CopyChunk
  PROVE  LET b == getNextFreeBlock IN
         /\ phase = "copyin" /\ offset \in Pointers /\ offset < Length[file]
         /\ inodeBlocks = InodeBlocks /\ inode \in DOMAIN inodes
         /\ Live(inodes, inode) /\ BlockOf(inode) = 0
         /\ inodes[inode].Direct[offset] = INVALID_DATA_BLOCK
         /\ b \in DataBlocks /\ b \notin UsedBlocks(inodes)
         /\ inodes' \in [InodesOf(inodeBlocks) -> Inode]
         /\ \A j \in DOMAIN inodes \ {inode} : inodes'[j] = inodes[j]
         /\ inodes'[inode].Valid = inodes[inode].Valid
         /\ inodes'[inode].Size = inodes[inode].Size
         /\ \A l \in Pointers :
              inodes'[inode].Direct[l] =
                IF l = offset THEN b ELSE inodes[inode].Direct[l]
         /\ data' = [data EXCEPT ![b] = Chunk(file, offset)]
         /\ free' = free \ {b} /\ offset' = offset + 1
         /\ UNCHANGED <<super, table, mounts, inodeBlocks, dirty,
                        phase, file, inode, lossy>>
<1>. DEFINE b == getNextFreeBlock
<1>1. /\ TypeOK /\ Session /\ Copying /\ BitmapSound /\ SizeMatchesBlocks
  BY DEF IInv
<1>2. /\ phase = "copyin"
      /\ offset < Length[file] /\ offset < POINTERS_PER_INODE
      /\ ~writeThrows
      /\ inodes' = [inodes EXCEPT ![inode].Direct[offset] = b]
      /\ data' = [data EXCEPT ![b] = Chunk(file, offset)]
      /\ free' = free \ {b} /\ offset' = offset + 1
      /\ UNCHANGED <<super, table, mounts, inodeBlocks, dirty,
                     phase, file, inode, lossy>>
  BY DEF CopyChunk, MoreToCopy, write, writeData
<1>3. offset \in Pointers
  BY <1>1, <1>2, DiskAssumption DEF TypeOK, Pointers
<1>4. inode \in DOMAIN inodes /\ Live(inodes, inode) /\ BlockOf(inode) = 0
  BY <1>1, <1>2 DEF Copying
<1>5. inodeBlocks = InodeBlocks
  BY <1>1, <1>4, Layout
<1>6. b \in DataBlocks /\ b \notin UsedBlocks(inodes)
  BY <1>1, <1>2, <1>5, NextFreeBlock
<1>. HIDE DEF b
<1>7. inodes[inode].Direct[offset] = INVALID_DATA_BLOCK
  <2>1. Compact(inodes[inode], offset)
    BY <1>1, <1>2, <1>4 DEF SizeMatchesBlocks
  <2>. QED BY <1>3, <2>1 DEF Compact, Pointers
<1>8. /\ inodes \in [InodesOf(inodeBlocks) -> Inode]
      /\ inode \in InodesOf(inodeBlocks)
  BY <1>1, <1>4 DEF TypeOK, MemTypeOK
<1>9. /\ inodes' \in [InodesOf(inodeBlocks) -> Inode]
      /\ \A j \in InodesOf(inodeBlocks) \ {inode} : inodes'[j] = inodes[j]
      /\ inodes'[inode].Valid = inodes[inode].Valid
      /\ inodes'[inode].Size = inodes[inode].Size
      /\ \A l \in Pointers :
           inodes'[inode].Direct[l] =
             IF l = offset THEN b ELSE inodes[inode].Direct[l]
  <2>1. b \in {INVALID_DATA_BLOCK} \cup DataBlocks
    BY <1>6
  <2>2. inodes' = [inodes EXCEPT ![inode].Direct[offset] = b]
    BY <1>2
  <2>3. inodes' \in [InodesOf(inodeBlocks) -> Inode]
    BY <1>3, <1>8, <2>1, <2>2 DEF Inode
  <2>4. \A j \in InodesOf(inodeBlocks) \ {inode} : inodes'[j] = inodes[j]
    BY <1>8, <2>2
  <2>5. inodes'[inode] = [inodes[inode] EXCEPT !.Direct[offset] = b]
    BY <1>8, <2>2
  <2>6. inodes[inode] \in Inode
    BY <1>8
  <2>. QED BY <1>3, <2>3, <2>4, <2>5, <2>6 DEF Inode
<1>10. DOMAIN inodes = InodesOf(inodeBlocks)
  BY <1>8
<1>. QED BY <1>2, <1>3, <1>4, <1>5, <1>6, <1>7, <1>9, <1>10 DEF b

LEMMA CopyChunkKeeps ==
  ASSUME IInv, CopyChunk
  PROVE  IInv'
<1>1. /\ TypeOK /\ Session /\ Copying /\ Sound(inodes) /\ Sound(table)
      /\ BitmapSound /\ BitmapExact /\ SizeMatchesBlocks /\ Kept
      /\ IntactInodes /\ IntactTable
  BY DEF IInv
<1>. DEFINE b == getNextFreeBlock
<1>2. /\ phase = "copyin" /\ offset \in Pointers /\ offset < Length[file]
      /\ inodeBlocks = InodeBlocks /\ inode \in DOMAIN inodes
      /\ Live(inodes, inode) /\ BlockOf(inode) = 0
      /\ inodes[inode].Direct[offset] = INVALID_DATA_BLOCK
      /\ b \in DataBlocks /\ b \notin UsedBlocks(inodes)
      /\ inodes' \in [InodesOf(inodeBlocks) -> Inode]
      /\ \A j \in DOMAIN inodes \ {inode} : inodes'[j] = inodes[j]
      /\ inodes'[inode].Valid = inodes[inode].Valid
      /\ inodes'[inode].Size = inodes[inode].Size
      /\ \A l \in Pointers :
           inodes'[inode].Direct[l] =
             IF l = offset THEN b ELSE inodes[inode].Direct[l]
      /\ data' = [data EXCEPT ![b] = Chunk(file, offset)]
      /\ free' = free \ {b} /\ offset' = offset + 1
      /\ UNCHANGED <<super, table, mounts, inodeBlocks, dirty,
                     phase, file, inode, lossy>>
  BY CopyChunkFacts
<1>. HIDE DEF b
<1>3. /\ inodes \in [InodesOf(inodeBlocks) -> Inode]
      /\ data \in [DataBlocks -> Content] /\ free \subseteq BlockNumbers
  BY <1>1 DEF TypeOK, DiskTypeOK, MemTypeOK
<1>4. DOMAIN inodes = InodesOf(inodeBlocks) /\ DOMAIN inodes' = DOMAIN inodes
  BY <1>2, <1>3
<1>5. /\ isDiskMounted /\ file \in Files /\ offset <= Length[file]
      /\ 0 \in dirty
      /\ Length[file] \in Nat
  BY <1>1, <1>2, DiskAssumption DEF Copying
<1>6. Sound(inodes') /\ UsedBlocks(inodes') = UsedBlocks(inodes) \cup {b}
  BY <1>1, <1>2, <1>4, WriteSound
<1>7. \A j \in DOMAIN inodes : Live(inodes', j) <=> Live(inodes, j)
  BY <1>2 DEF Live
<1>8. /\ offset' \in 0 .. POINTERS_PER_INODE /\ offset' <= Length[file]
  BY <1>2, <1>5, DiskAssumption DEF Pointers
<1>9. Compact(inodes'[inode], offset')
  <2>1. Compact(inodes[inode], offset)
    BY <1>1, <1>2 DEF SizeMatchesBlocks
  <2>2. b # INVALID_DATA_BLOCK
    BY <1>2, DiskAssumption DEF DataBlocks, INVALID_DATA_BLOCK
  <2>. QED BY <1>2, <2>1, <2>2, DiskAssumption DEF Compact, Pointers
<1>10. TypeOK'
  <2>1. offset' \in 0 .. Blocks
    <3>1. inodes'[inode] \in Inode
      BY <1>2, <1>4
    <3>2. \A k, l \in Pointers :
            /\ inodes'[inode].Direct[k] # INVALID_DATA_BLOCK
            /\ inodes'[inode].Direct[k] = inodes'[inode].Direct[l]
            => k = l
      BY <1>2, <1>4, <1>6, <1>7 DEF Sound, Unshared
    <3>3. offset' < Blocks - InodeBlocks
      BY <1>8, <1>9, <3>1, <3>2, CompactIsSmall
    <3>. QED BY <1>8, <3>3, DiskAssumption
  <2>2. DiskTypeOK'
    <3>1. Chunk(file, offset) \in Content
      BY <1>2, <1>5 DEF Content
    <3>2. data' \in [DataBlocks -> Content]
      BY <1>2, <1>3, <3>1
    <3>. QED BY <1>1, <1>2, <3>2 DEF TypeOK, DiskTypeOK
  <2>3. MemTypeOK'
    BY <1>1, <1>2, <1>3 DEF TypeOK, MemTypeOK
  <2>. QED BY <1>1, <1>2, <2>1, <2>2, <2>3 DEF TypeOK
<1>11. Session'
  BY <1>1, <1>2, <1>5 DEF Session, isDiskMounted
<1>12. Copying'
  BY <1>2, <1>4, <1>5, <1>7, <1>8 DEF Copying, isDiskMounted
<1>13. Sound(inodes)' /\ Sound(table)'
  BY <1>1, <1>2, <1>6
<1>14. BitmapSound'
  BY <1>1, <1>2, <1>6 DEF BitmapSound
<1>15. BitmapExact'
  <2>1. SUFFICES ASSUME mounts = 1
                 PROVE  Settable(free') =
                          Settable(BlockNumbers) \ UsedBlocks(inodes')
    BY <1>2 DEF BitmapExact, Settable, FirstDataBlock
  <2>2. Settable(free) = Settable(BlockNumbers) \ UsedBlocks(inodes)
    BY <1>1, <2>1 DEF BitmapExact
  <2>3. Settable(free') = Settable(free) \ {b}
    BY <1>2 DEF Settable
  <2>. QED BY <1>6, <2>2, <2>3
<1>16. SizeMatchesBlocks'
  <2>1. \A j \in DOMAIN inodes : Live(inodes', j) =>
           Compact(inodes'[j], IF phase' = "copyin" /\ j = inode' THEN offset'
                                                      ELSE inodes'[j].Size)
    BY <1>1, <1>2, <1>7, <1>9 DEF SizeMatchesBlocks
  <2>. QED BY <1>1, <1>2, <1>4, <2>1 DEF SizeMatchesBlocks
<1>17. Kept'
  BY <1>1, <1>2, <1>4, <1>5, <1>7 DEF Kept
<1>18. IntactInodes'
  <2>1. SUFFICES ASSUME ~lossy, NEW j \in DOMAIN inodes, Live(inodes, j)
                 PROVE  \E g \in Files \cup {NoFile} :
                          /\ CopyOf(inodes'[j], g, data')
                          /\ phase = "copyin" /\ j = inode => g = file
    BY <1>2, <1>4, <1>7 DEF IntactInodes
  <2>2. PICK g \in Files \cup {NoFile} :
          /\ CopyOf(inodes[j], g, data)
          /\ phase = "copyin" /\ j = inode => g = file
    BY <1>1, <2>1 DEF IntactInodes
  <2>3. \A k \in Pointers :
          inodes[j].Direct[k] # INVALID_DATA_BLOCK =>
            data'[inodes[j].Direct[k]] = data[inodes[j].Direct[k]]
    <3>1. SUFFICES ASSUME NEW k \in Pointers,
                          inodes[j].Direct[k] # INVALID_DATA_BLOCK
                   PROVE  data'[inodes[j].Direct[k]] = data[inodes[j].Direct[k]]
      OBVIOUS
    <3>2. inodes[j].Direct[k] \in UsedBlocks(inodes)
      BY <2>1, <3>1, UsedBlocksDef
    <3>3. inodes[j].Direct[k] \in DataBlocks
      BY <1>3, <3>2, UsedAreDataBlocks
    <3>. QED BY <1>2, <1>3, <3>2, <3>3
  <2>4. CASE j # inode
    BY <1>2, <2>2, <2>3, <2>4 DEF CopyOf
  <2>5. CASE j = inode
    <3>1. g = file
      BY <1>2, <2>2, <2>5
    <3>2. data'[b] = Chunk(file, offset)
      BY <1>2, <1>3
    <3>3. CopyOf(inodes'[inode], file, data')
      BY <1>2, <2>2, <2>3, <2>5, <3>1, <3>2 DEF CopyOf
    <3>. QED BY <1>5, <2>5, <3>3
  <2>. QED BY <2>4, <2>5
<1>19. IntactTable'
  BY <1>2, <1>5 DEF IntactTable
<1>. QED BY <1>10, <1>11, <1>12, <1>13, <1>14, <1>15, <1>16, <1>17, <1>18,
         <1>19 DEF IInv

LEMMA CopyEndKeeps ==
  ASSUME IInv, CopyEnd
  PROVE  IInv'
<1>1. /\ TypeOK /\ Session /\ Copying /\ Sound(inodes) /\ Sound(table)
      /\ BitmapSound /\ BitmapExact /\ SizeMatchesBlocks /\ Kept
      /\ IntactInodes /\ IntactTable
  BY DEF IInv
<1>2. /\ phase = "copyin" /\ phase' = "shell"
      /\ inodes' = [inodes EXCEPT ![inode].Size = offset]
      /\ file' = NoFile /\ inode' = 0 /\ offset' = 0
      /\ UNCHANGED <<super, table, data, mounts, inodeBlocks, dirty, free,
                     lossy>>
  BY DEF CopyEnd, Goto, updateSize, NoLocals, Locals, diskVars
<1>3. /\ isDiskMounted /\ inode \in DOMAIN inodes /\ Live(inodes, inode)
      /\ BlockOf(inode) = 0 /\ 0 \in dirty
  BY <1>1, <1>2 DEF Copying
<1>4. offset \in 0 .. POINTERS_PER_INODE
  BY <1>1, <1>2, DiskAssumption DEF Copying, TypeOK
<1>5. /\ inodes \in [InodesOf(inodeBlocks) -> Inode]
      /\ inode \in InodesOf(inodeBlocks)
      /\ DOMAIN inodes = InodesOf(inodeBlocks)
  BY <1>1, <1>3 DEF TypeOK, MemTypeOK
<1>6. /\ inodes' \in [InodesOf(inodeBlocks) -> Inode]
      /\ \A j \in DOMAIN inodes \ {inode} : inodes'[j] = inodes[j]
      /\ inodes'[inode].Valid = inodes[inode].Valid
      /\ inodes'[inode].Size = offset
      /\ inodes'[inode].Direct = inodes[inode].Direct
  BY <1>2, <1>4, <1>5, SizeAssigned
<1>7. DOMAIN inodes' = DOMAIN inodes
  BY <1>5, <1>6
<1>8. Sound(inodes') /\ UsedBlocks(inodes') = UsedBlocks(inodes)
  BY <1>1, <1>3, <1>6, <1>7, SizeSound
<1>9. \A j \in DOMAIN inodes : Live(inodes', j) <=> Live(inodes, j)
  BY <1>6 DEF Live
<1>10. TypeOK'
  <2>1. DiskTypeOK' /\ MemTypeOK'
    BY <1>1, <1>2, <1>6 DEF TypeOK, DiskTypeOK, MemTypeOK
  <2>2. inode' \in InodesOf(InodeBlocks) /\ offset' \in 0 .. Blocks
    BY <1>2, FirstInode, DiskAssumption
  <2>. QED BY <1>1, <1>2, <2>1, <2>2 DEF TypeOK
<1>11. Session' /\ Copying'
  BY <1>1, <1>2, <1>3 DEF Session, Copying, isDiskMounted
<1>12. Sound(inodes)' /\ Sound(table)'
  BY <1>1, <1>2, <1>8
<1>13. BitmapSound' /\ BitmapExact'
  BY <1>1, <1>2, <1>8 DEF BitmapSound, BitmapExact, Settable, FirstDataBlock
<1>14. SizeMatchesBlocks'
  <2>1. \A j \in DOMAIN inodes :
          Live(inodes', j) => Compact(inodes'[j], inodes'[j].Size)
    BY <1>1, <1>2, <1>6, <1>9 DEF SizeMatchesBlocks, Compact
  <2>. QED BY <1>1, <1>2, <1>7, <2>1 DEF SizeMatchesBlocks
<1>15. Kept'
  BY <1>1, <1>2, <1>3, <1>6, <1>7, <1>9 DEF Kept
<1>16. IntactInodes'
  BY <1>1, <1>2, <1>6, <1>7, <1>9 DEF IntactInodes, CopyOf
<1>17. IntactTable'
  BY <1>1, <1>2, <1>3 DEF IntactTable
<1>. QED BY <1>10, <1>11, <1>12, <1>13, <1>14, <1>15, <1>16, <1>17 DEF IInv

-----------------------------------------------------------------------------
(* A pass of the destructor's loop.                                        *)

(* A dirty block goes to the disk, the others stay.                        *)
LEMMA ExitBlockFacts ==
  ASSUME IInv, ExitBlock
  PROVE  /\ phase = "exit" /\ offset < inodeBlocks /\ offset' = offset + 1
         /\ DOMAIN inodes = DOMAIN table /\ DOMAIN table' = DOMAIN table
         /\ \A i \in DOMAIN table :
              table'[i] = IF offset \in dirty /\ BlockOf(i) = offset
                          THEN inodes[i] ELSE table[i]
         /\ table' = IF offset \in dirty
                     THEN [i \in DOMAIN table |->
                             IF BlockOf(i) = offset THEN inodes[i]
                                                    ELSE table[i]]
                     ELSE table
         /\ inodeBlocks = InodeBlocks /\ super = InodeBlocks
         /\ UNCHANGED <<super, data, memVars, phase, lossy>>
<1>1. TypeOK /\ Session
  BY DEF IInv
<1>2. /\ phase = "exit" /\ offset < inodeBlocks /\ offset' = offset + 1
      /\ IF offset \in dirty
         THEN /\ table' = [i \in DOMAIN table |->
                          IF BlockOf(i) = offset THEN inodes[i]
                                                 ELSE table[i]]
              /\ UNCHANGED <<super, data>>
         ELSE UNCHANGED <<super, table, data>>
      /\ UNCHANGED <<memVars, phase, lossy>>
  BY DEF ExitBlock, flush, writeInodeBlock, Locals, diskVars
<1>3. inodeBlocks # 0
  BY <1>1, <1>2, DiskAssumption DEF TypeOK
<1>4. /\ inodeBlocks = InodeBlocks /\ super = InodeBlocks
      /\ DOMAIN inodes = DOMAIN table
  BY <1>1, <1>3, Layout
<1>. QED BY <1>2, <1>4

LEMMA ExitBlockKeeps ==
  ASSUME IInv, ExitBlock
  PROVE  IInv'
<1>1. /\ TypeOK /\ Session /\ Copying /\ Sound(inodes) /\ Sound(table)
      /\ BitmapSound /\ BitmapExact /\ SizeMatchesBlocks /\ Kept
      /\ IntactInodes /\ IntactTable
  BY DEF IInv
<1>2. /\ phase = "exit" /\ offset < inodeBlocks /\ offset' = offset + 1
      /\ DOMAIN inodes = DOMAIN table /\ DOMAIN table' = DOMAIN table
      /\ \A i \in DOMAIN table :
           table'[i] = IF offset \in dirty /\ BlockOf(i) = offset
                       THEN inodes[i] ELSE table[i]
      /\ table' = IF offset \in dirty
                  THEN [i \in DOMAIN table |->
                          IF BlockOf(i) = offset THEN inodes[i] ELSE table[i]]
                  ELSE table
      /\ inodeBlocks = InodeBlocks /\ super = InodeBlocks
      /\ UNCHANGED <<super, data, mounts, inodeBlocks, inodes, dirty, free,
                     phase, lossy>>
  BY ExitBlockFacts DEF memVars
<1>3. /\ table \in [InodesOf(InodeBlocks) -> Inode]
      /\ inodes \in [InodesOf(InodeBlocks) -> Inode]
      /\ DOMAIN table = InodesOf(InodeBlocks) /\ offset \in Nat
  BY <1>1, <1>2, DiskAssumption DEF TypeOK, DiskTypeOK, MemTypeOK
<1>4. \A i \in DOMAIN table : BlockOf(i) \in Nat
  BY <1>3, InodeBlock, DiskAssumption
<1>5. table' \in [InodesOf(InodeBlocks) -> Inode] /\ Sound(table')
  <2>1. CASE offset \in dirty
    <3>1. \A i \in DOMAIN table :
            table'[i] = IF BlockOf(i) = offset THEN inodes[i] ELSE table[i]
      BY <1>2, <2>1
    <3>2. Sound(table')
      BY <1>1, <1>2, <3>1, MergeSound
    <3>. QED BY <1>2, <1>3, <2>1, <3>2
  <2>2. CASE offset \notin dirty
    BY <1>1, <1>2, <1>3, <2>2
  <2>. QED BY <2>1, <2>2
<1>6. TypeOK'
  <2>1. offset' \in 0 .. Blocks
    BY <1>2, <1>3, DiskAssumption
  <2>2. DiskTypeOK' /\ MemTypeOK'
    BY <1>1, <1>2, <1>5 DEF TypeOK, DiskTypeOK, MemTypeOK
  <2>3. inode' \in InodesOf(InodeBlocks) /\ file' \in Files \cup {NoFile}
    BY FirstInode DEF ExitBlock, Locals
  <2>. QED BY <1>1, <1>2, <2>1, <2>2, <2>3 DEF TypeOK
<1>7. Session'
  BY <1>1, <1>2, <1>3, DiskAssumption DEF Session, isDiskMounted
<1>8. Copying'
  BY <1>2 DEF Copying
<1>9. Sound(inodes)' /\ Sound(table)'
  BY <1>1, <1>2, <1>5
<1>10. BitmapSound' /\ BitmapExact'
  BY <1>1, <1>2 DEF BitmapSound, BitmapExact, Settable, FirstDataBlock
<1>11. SizeMatchesBlocks'
  BY <1>1, <1>2 DEF SizeMatchesBlocks, Live
<1>12. Kept'
  <2>1. SUFFICES ASSUME NEW i \in DOMAIN inodes, Live(inodes, i),
                        table'[i] # inodes[i]
                 PROVE  BlockOf(i) \in dirty /\ offset' <= BlockOf(i)
    BY <1>2 DEF Kept
  <2>2. ~(offset \in dirty /\ BlockOf(i) = offset) /\ table'[i] = table[i]
    BY <1>2, <2>1
  <2>3. BlockOf(i) \in dirty /\ offset <= BlockOf(i)
    BY <1>1, <1>2, <2>1, <2>2 DEF Kept
  <2>. QED BY <1>2, <1>3, <1>4, <2>2, <2>3
<1>13. IntactInodes'
  BY <1>1, <1>2 DEF IntactInodes
<1>14. IntactTable'
  <2>1. SUFFICES ASSUME ~lossy, NEW i \in DOMAIN table, Live(table', i)
                 PROVE  \E f \in Files \cup {NoFile} :
                          CopyOf(table'[i], f, data)
    BY <1>2 DEF IntactTable
  <2>2. CASE BlockOf(i) # 0
    <3>1. NoBlocks(table'[i])
      BY <1>2, <1>5, <2>1, <2>2 DEF Sound, FirstBlockOnly
    <3>. QED BY <3>1 DEF CopyOf, NoBlocks
  <2>3. CASE offset \in dirty /\ BlockOf(i) = offset
    BY <1>1, <1>2, <2>1, <2>3 DEF IntactInodes, Live
  <2>4. CASE BlockOf(i) = 0 /\ ~(offset \in dirty /\ BlockOf(i) = offset)
    <3>1. table'[i] = table[i]
      BY <1>2, <2>4
    <3>2. 0 \notin dirty \/ offset > 0
      BY <1>3, <2>4
    <3>. QED BY <1>1, <1>2, <2>1, <3>1, <3>2 DEF IntactTable, Live
  <2>. QED BY <2>2, <2>3, <2>4
<1>. QED BY <1>6, <1>7, <1>8, <1>9, <1>10, <1>11, <1>12, <1>13, <1>14 DEF IInv

-----------------------------------------------------------------------------
(* The invariant and what follows from it.                                 *)

LEMMA FileShellStep == IInv /\ [Next]_vars => IInv'
<1>. SUFFICES ASSUME IInv, [Next]_vars PROVE IInv'
  OBVIOUS
<1>1. CASE Mount
  BY <1>1, MountKeeps
<1>2. CASE Format \/ FormatDone \/ Exit \/ Start
  BY <1>2, QuietKeeps
<1>3. CASE FormatBlock
  BY <1>3, FormatBlockKeeps
<1>4. CASE \E i \in DOMAIN inodes : Remove(i) \/ Copyout(i)
  BY <1>4, RemoveKeeps, CopyoutKeeps
<1>5. CASE \E f \in Files \cup {NoFile} : Copyin(f)
  BY <1>5, CopyinKeeps
<1>6. CASE CopyChunk
  BY <1>6, CopyChunkKeeps
<1>7. CASE CopyEnd
  BY <1>7, CopyEndKeeps
<1>8. CASE Abort \/ Exited \/ Kill
  BY <1>8, EndKeeps
<1>9. CASE ExitBlock
  BY <1>9, ExitBlockKeeps
<1>10. CASE UNCHANGED vars
  <2>. USE <1>10 DEF vars, diskVars, memVars, shellVars
  <2>1. TypeOK' /\ Session' /\ Copying'
    BY DEF IInv, TypeOK, DiskTypeOK, MemTypeOK, Session, Copying, isDiskMounted
  <2>2. Sound(inodes)' /\ Sound(table)'
    BY DEF IInv
  <2>3. BitmapSound' /\ BitmapExact' /\ SizeMatchesBlocks'
    BY DEF IInv, BitmapSound, BitmapExact, Settable, FirstDataBlock,
           SizeMatchesBlocks
  <2>4. Kept' /\ IntactInodes' /\ IntactTable'
    BY DEF IInv, Kept, IntactInodes, IntactTable
  <2>. QED BY <2>1, <2>2, <2>3, <2>4 DEF IInv
<1>. QED
  BY <1>1, <1>2, <1>3, <1>4, <1>5, <1>6, <1>7, <1>8, <1>9, <1>10 DEF Next

LEMMA FileShellInvariant == Spec => []IInv
BY FileShellInit, FileShellStep, PTL DEF Spec

(* Every value the program reaches is of its type; in particular a copy    *)
(* never needs more blocks than the disk has.                              *)
THEOREM TypeCorrect == Spec => []TypeOK
<1>1. IInv => TypeOK
  BY DEF IInv
<1>. QED BY <1>1, FileShellInvariant, PTL

(* No data block belongs to two files, in memory or on the disk, after any *)
(* commands, kills and aborts.                                             *)
THEOREM BlocksUnshared == Spec => []NoCrossLink
<1>1. IInv => NoCrossLink
  BY DEF IInv, Sound, NoCrossLink
<1>. QED BY <1>1, FileShellInvariant, PTL

(* The free block list never offers a block of a live file.                *)
THEOREM FreeListSound == Spec => []BitmapSound
<1>1. IInv => BitmapSound
  BY DEF IInv
<1>. QED BY <1>1, FileShellInvariant, PTL

(* Mounted once, the free block list loses no block.                       *)
THEOREM FreeListExact == Spec => []BitmapExact
<1>1. IInv => BitmapExact
  BY DEF IInv
<1>. QED BY <1>1, FileShellInvariant, PTL

(* A file has its pointers from the first on, as many as its size says, in *)
(* memory and on the disk.                                                 *)
THEOREM SizesMatch == Spec => []SizeMatchesBlocks
<1>1. IInv => SizeMatchesBlocks
  BY DEF IInv
<1>. QED BY <1>1, FileShellInvariant, PTL

(* What copyout reads are the first blocks of one file, unless a process   *)
(* mounted twice or did not end with exit.                                 *)
THEOREM CopiesIntact == Spec => []FileIntact
<1>1. ASSUME IInv PROVE FileIntact
  <2>1. SUFFICES ASSUME ~lossy, NEW i \in DOMAIN inodes, Live(inodes, i)
                 PROVE  \E f \in Files \cup {NoFile} :
                          CopiedOut(i) = [k \in Readable(i) |-> Chunk(f, k)]
    BY DEF FileIntact
  <2>2. PICK f \in Files \cup {NoFile} : CopyOf(inodes[i], f, data)
    BY <1>1, <2>1 DEF IInv, IntactInodes
  <2>3. \A k \in Readable(i) :
          k \in Pointers /\ inodes[i].Direct[k] # INVALID_DATA_BLOCK
    BY DEF Readable, ReadableIn, Pointers
  <2>4. \A k \in Readable(i) : data[inodes[i].Direct[k]] = Chunk(f, k)
    BY <2>2, <2>3 DEF CopyOf
  <2>. QED BY <2>4 DEF CopiedOut, Contents, Readable
<1>. QED BY <1>1, FileShellInvariant, PTL

-----------------------------------------------------------------------------
(* What no step does.                                                      *)

(* A data block changes only while no live file of the mounted image has   *)
(* it.                                                                     *)
THEOREM NoWriteIntoFiles == Spec => LiveBlocksKept
<1>. DEFINE Kept1 ==
       \A b \in DataBlocks : data'[b] # data[b] => b \notin UsedBlocks(inodes)
<1>1. ASSUME IInv, [Next]_vars PROVE [Kept1]_vars
  <2>1. CASE CopyChunk
    <3>1. /\ getNextFreeBlock \notin UsedBlocks(inodes)
          /\ data' = [data EXCEPT ![getNextFreeBlock] = Chunk(file, offset)]
      BY <1>1, <2>1, CopyChunkFacts
    <3>2. data \in [DataBlocks -> Content]
      BY <1>1 DEF IInv, TypeOK, DiskTypeOK
    <3>. QED BY <3>1, <3>2
  <2>2. CASE FormatBlock
    <3>1. DOMAIN inodes = {}
      BY <1>1, <2>2, Layout DEF IInv, Session, FormatBlock
    <3>2. UsedBlocks(inodes) = {}
      BY <3>1, EmptySound
    <3>. QED BY <3>2
  <2>3. CASE ~CopyChunk /\ ~FormatBlock
    <3>1. data' = data
      BY <1>1, <2>3
         DEF Next, vars, diskVars, Mount, mount, Format, FormatDone, Remove,
             remove, Copyout, read, Copyin, create, CopyEnd, updateSize, Abort,
             Stop, Exit, ExitBlock, flush, writeInodeBlock, Exited, Kill, Start
    <3>. QED BY <3>1
  <2>. QED BY <2>1, <2>2, <2>3
<1>2. Spec => [][Kept1]_vars
  BY <1>1, FileShellInvariant, PTL DEF Spec
<1>. QED BY <1>2 DEF LiveBlocksKept

(* When the destructor is done, every live inode is on the disk as it was  *)
(* in memory.                                                              *)
THEOREM ExitSaves == Spec => ExitSavesFiles
<1>. DEFINE Saves ==
       phase = "exit" /\ offset = inodeBlocks /\ Exited =>
         \A i \in DOMAIN inodes : Live(inodes, i) => table[i] = inodes[i]
<1>1. ASSUME IInv, phase = "exit", offset = inodeBlocks,
             NEW i \in DOMAIN inodes, Live(inodes, i)
      PROVE  table[i] = inodes[i]
  <2>1. DOMAIN inodes = InodesOf(inodeBlocks) /\ inodeBlocks \in Nat
    BY <1>1, Layout DEF IInv
  <2>2. BlockOf(i) < inodeBlocks
    BY <1>1, <2>1, InodeBlock
  <2>3. ~(offset <= BlockOf(i))
    BY <1>1, <2>1, <2>2, InodeBlock
  <2>. QED BY <1>1, <2>3 DEF IInv, Kept
<1>2. Spec => [][Saves]_vars
  <2>1. IInv /\ [Next]_vars => [Saves]_vars
    BY <1>1
  <2>. QED BY <2>1, FileShellInvariant, PTL DEF Spec
<1>. QED BY <1>2 DEF ExitSavesFiles
=============================================================================
