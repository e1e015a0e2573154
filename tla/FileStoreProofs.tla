-------------------------- MODULE FileStoreProofs ---------------------------
(***************************************************************************)
(* FileShell implements FileStore: every step of the program is a step of  *)
(* the abstract store, or leaves what the user sees as it is.              *)
(***************************************************************************)
EXTENDS FileShellProofs

-----------------------------------------------------------------------------
(* The refinement mapping, with the data blocks as an argument.            *)

Held(node) ==
  {k \in Pointers : \A j \in 0 .. k : node.Direct[j] # INVALID_DATA_BLOCK}
ContentsIn(node, d) == [k \in Held(node) |-> d[node.Direct[k]]]
LiveIn(tab) == {i \in DOMAIN tab : Live(tab, i)}
FilesIn(tab, d) == [i \in LiveIn(tab) |-> ContentsIn(tab[i], d)]
UnsavedIn(mem, tab) == {i \in LiveIn(mem) : mem[i] # tab[i]}

LEMMA MappedFiles ==
  /\ FilesOf(inodes) = FilesIn(inodes, data)
  /\ FilesOf(table) = FilesIn(table, data)
  /\ Unsaved = UnsavedIn(inodes, table)
BY DEF FilesOf, FilesIn, LiveIn, Contents, ContentsIn, ReadableIn, Held,
       Unsaved, UnsavedIn

LEMMA MappedFilesNext ==
  /\ FilesOf(inodes)' = FilesIn(inodes', data')
  /\ FilesOf(table)' = FilesIn(table', data')
  /\ Unsaved' = UnsavedIn(inodes', table')
BY DEF FilesOf, FilesIn, LiveIn, Contents, ContentsIn, ReadableIn, Held,
       Unsaved, UnsavedIn

(* Inodes with the same pointers have the same contents, if the blocks     *)
(* have.                                                                   *)
LEMMA SameContents ==
  ASSUME NEW node, NEW other, NEW d, NEW e,
         \A k \in Pointers : other.Direct[k] = node.Direct[k],
         \A k \in Pointers :
           node.Direct[k] # INVALID_DATA_BLOCK =>
             e[node.Direct[k]] = d[node.Direct[k]]
  PROVE  ContentsIn(other, e) = ContentsIn(node, d)
<1>1. \A k \in Pointers : \A j \in 0 .. k : j \in Pointers
  BY DiskAssumption DEF Pointers
<1>2. Held(other) = Held(node)
  BY <1>1 DEF Held
<1>3. \A k \in Held(node) :
        k \in Pointers /\ node.Direct[k] # INVALID_DATA_BLOCK
  BY DiskAssumption DEF Held, Pointers
<1>4. \A k \in Held(node) : e[other.Direct[k]] = d[node.Direct[k]]
  BY <1>3
<1>. QED BY <1>2, <1>4 DEF ContentsIn

LEMMA NoContents ==
  ASSUME NEW node, NEW d, NoBlocks(node)
  PROVE  ContentsIn(node, d) = <<>>
<1>1. Held(node) = {}
  BY DiskAssumption DEF NoBlocks, Held, Pointers
<1>. QED BY <1>1 DEF ContentsIn

LEMMA NoLiveInodes ==
  ASSUME NEW tab, NEW d, LiveIn(tab) = {}
  PROVE  FilesIn(tab, d) = Store!NoFiles
BY DEF FilesIn, Store!NoFiles

(* A compact inode of n blocks has n chunks.                               *)
LEMMA CompactContents ==
  ASSUME NEW node, NEW n \in 0 .. POINTERS_PER_INODE, Compact(node, n)
  PROVE  Held(node) = 0 .. n - 1
BY DiskAssumption DEF Compact, Held, Pointers

-----------------------------------------------------------------------------
(* Init and the steps.                                                     *)

LEMMA StoreInit == Init => Store!Init
<1>. SUFFICES ASSUME Init PROVE Store!Init
  OBVIOUS
<1>1. LiveIn(inodes) = {} /\ LiveIn(table) = {}
  BY NoInodes, EmptyInodeFacts DEF Init, Open, LiveIn, Live
<1>2. phase = "shell"
  BY DEF Init
<1>3. UnsavedIn(inodes, table) = {}
  BY <1>1 DEF UnsavedIn
<1>. QED BY <1>1, <1>2, <1>3, MappedFiles, NoLiveInodes DEF Store!Init

(* A step after which the tables, the blocks the files have and the state  *)
(* of exit are the same.                                                   *)
LEMMA StoreStutter ==
  ASSUME UNCHANGED <<inodes, table, data>>,
         (phase = "exit" /\ offset = inodeBlocks)'
           <=> (phase = "exit" /\ offset = inodeBlocks)
  PROVE  UNCHANGED Store!vars
BY MappedFiles, MappedFilesNext DEF Store!vars

LEMMA StoreMount ==
  ASSUME IInv, Mount
  PROVE  Store!Mount
<1>1. TypeOK /\ Session
  BY DEF IInv
<1>2. /\ phase = "shell" /\ phase' = "shell"
      /\ inodes' = [i \in InodesOf(super) |-> table[i]]
      /\ table' = table /\ data' = data
  BY DEF Mount, mount, diskVars
<1>3. super \in {0, InodeBlocks} /\ table \in [InodesOf(InodeBlocks) -> Inode]
  BY <1>1 DEF TypeOK, DiskTypeOK
<1>4. FilesIn(inodes', data) = FilesIn(table, data)
  <2>1. CASE super = 0
    <3>1. LiveIn(inodes') = {}
      BY <1>2, <2>1, NoInodes DEF LiveIn
    <3>2. LiveIn(table) = {}
      BY <1>1, <2>1, EmptyInodeFacts DEF Session, LiveIn, Live
    <3>. QED BY <3>1, <3>2, NoLiveInodes
  <2>2. CASE super = InodeBlocks
    <3>1. inodes' = table
      BY <1>2, <1>3, <2>2
    <3>. QED BY <3>1
  <2>. QED BY <1>3, <2>1, <2>2
<1>5. UnsavedIn(inodes', table) = {}
  BY <1>2 DEF UnsavedIn, LiveIn
<1>. QED BY <1>2, <1>4, <1>5, MappedFiles, MappedFilesNext DEF Store!Mount

LEMMA StoreErase ==
  ASSUME IInv, FormatBlock
  PROVE  Store!Erase
<1>1. TypeOK /\ Session /\ Sound(table)
  BY DEF IInv
<1>2. /\ phase = "format" /\ phase' = "format" /\ inodes' = inodes
      /\ table' = [i \in DOMAIN table |->
                     IF BlockOf(i) + 1 = offset THEN EmptyInode ELSE table[i]]
      /\ data' = [c \in DataBlocks |-> IF c = offset THEN Zeros ELSE data[c]]
  BY DEF FormatBlock, writeZeros, memVars
<1>3. /\ table \in [InodesOf(InodeBlocks) -> Inode] /\ offset \in Nat
  BY <1>1, DiskAssumption DEF TypeOK, DiskTypeOK
<1>4. LiveIn(inodes) = {}
  BY <1>1, <1>2, Layout DEF Session, LiveIn
<1>5. \A i \in LiveIn(table') : i \in LiveIn(table) /\ table'[i] = table[i]
  BY <1>2, EmptyInodeFacts DEF LiveIn, Live
<1>6. ASSUME NEW i \in LiveIn(table')
      PROVE  ContentsIn(table'[i], data') = ContentsIn(table[i], data)
  <2>1. CASE BlockOf(i) # 0
    <3>1. NoBlocks(table[i])
      BY <1>1, <1>5, <1>6, <2>1 DEF Sound, FirstBlockOnly, LiveIn
    <3>. QED BY <1>5, <1>6, <3>1, NoContents
  <2>2. CASE BlockOf(i) = 0
    <3>1. table[i] # EmptyInode
      BY <1>5, <1>6, EmptyInodeFacts DEF LiveIn, Live
    <3>2. offset = 1
      BY <1>1, <1>2, <1>3, <1>5, <1>6, <2>2, <3>1 DEF Session, LiveIn
    <3>3. \A c \in DataBlocks : data'[c] = data[c]
      BY <1>2, <3>2, DiskAssumption DEF DataBlocks
    <3>4. table[i] \in Inode
      BY <1>3, <1>5, <1>6 DEF LiveIn
    <3>5. \A k \in Pointers :
            table[i].Direct[k] # INVALID_DATA_BLOCK =>
              data'[table[i].Direct[k]] = data[table[i].Direct[k]]
      BY <3>3, <3>4, InodeFacts
    <3>. QED BY <1>5, <1>6, <3>5, SameContents
  <2>. QED BY <2>1, <2>2
<1>7. /\ DOMAIN FilesIn(table', data') \subseteq DOMAIN FilesIn(table, data)
      /\ \A i \in DOMAIN FilesIn(table', data') :
           FilesIn(table', data')[i] = FilesIn(table, data)[i]
  BY <1>5, <1>6 DEF FilesIn
<1>8. /\ FilesIn(inodes, data) = Store!NoFiles
      /\ FilesIn(inodes', data') = Store!NoFiles
  BY <1>2, <1>4, NoLiveInodes
<1>9. UnsavedIn(inodes, table) = {} /\ UnsavedIn(inodes', table') = {}
  BY <1>2, <1>4 DEF UnsavedIn
<1>. QED BY <1>2, <1>7, <1>8, <1>9, MappedFiles, MappedFilesNext DEF Store!Erase

LEMMA StoreRemove ==
  ASSUME IInv, NEW i \in DOMAIN inodes, Remove(i)
  PROVE  Store!Remove \/ UNCHANGED Store!vars
<1>1. /\ phase = "shell" /\ phase' = "shell" /\ offset' = offset
      /\ inodes' = [inodes EXCEPT ![i] = EmptyInode]
      /\ table' = table /\ data' = data /\ inodeBlocks' = inodeBlocks
  BY DEF Remove, remove, diskVars, shellVars
<1>2. CASE Live(inodes, i)
  <2>1. /\ LiveIn(inodes') = LiveIn(inodes) \ {i}
        /\ \A j \in LiveIn(inodes') : inodes'[j] = inodes[j]
    BY <1>1, EmptyInodeFacts DEF LiveIn, Live
  <2>2. i \in LiveIn(inodes)
    BY <1>2 DEF LiveIn
  <2>3. FilesIn(inodes', data) =
          [j \in DOMAIN FilesIn(inodes, data) \ {i} |->
             FilesIn(inodes, data)[j]]
    BY <2>1 DEF FilesIn
  <2>4. UnsavedIn(inodes', table) = UnsavedIn(inodes, table) \ {i}
    BY <2>1 DEF UnsavedIn
  <2>5. i \in DOMAIN FilesIn(inodes, data)
    BY <2>2 DEF FilesIn
  <2>. QED BY <1>1, <2>3, <2>4, <2>5, MappedFiles, MappedFilesNext
           DEF Store!Remove
<1>3. CASE ~Live(inodes, i)
  <2>1. inodes[i] = EmptyInode
    BY <1>3 DEF IInv, Sound, Tidy
  <2>2. inodes' = inodes
    <3>1. inodes \in [InodesOf(inodeBlocks) -> Inode]
      BY DEF IInv, TypeOK, MemTypeOK
    <3>. QED BY <1>1, <2>1, <3>1
  <2>. QED BY <1>1, <2>2, StoreStutter
<1>. QED BY <1>2, <1>3

LEMMA StoreCreate ==
  ASSUME IInv, NEW f \in Files \cup {NoFile}, Copyin(f)
  PROVE  Store!Create
<1>. DEFINE i == getNextFreeINode
<1>1. TypeOK /\ Sound(inodes)
  BY DEF IInv
<1>2. /\ phase = "shell" /\ FreeINodes # {} /\ phase' \in {"shell", "copyin"}
      /\ inodes' = [inodes EXCEPT ![i].Valid = TRUE]
      /\ table' = table /\ data' = data
  BY DEF Copyin, create, diskVars
<1>3. i \in DOMAIN inodes /\ ~Live(inodes, i)
  BY <1>1, <1>2, NextFreeINode
<1>. HIDE DEF i
<1>4. inodes \in [InodesOf(inodeBlocks) -> Inode] /\ i \in InodesOf(inodeBlocks)
  BY <1>1, <1>3 DEF TypeOK, MemTypeOK
<1>5. /\ DOMAIN inodes' = DOMAIN inodes
      /\ \A j \in DOMAIN inodes : j # i => inodes'[j] = inodes[j]
      /\ inodes'[i].Valid = TRUE /\ inodes'[i].Direct = inodes[i].Direct
  BY <1>2, <1>4, ValidAssigned
<1>6. NoBlocks(inodes'[i])
  <2>1. inodes[i] = EmptyInode
    BY <1>1, <1>3 DEF Sound, Tidy
  <2>. QED BY <1>5, <2>1, EmptyInodeFacts DEF NoBlocks
<1>7. /\ LiveIn(inodes') = LiveIn(inodes) \cup {i} /\ i \notin LiveIn(inodes)
      /\ \A j \in LiveIn(inodes) : inodes'[j] = inodes[j]
  BY <1>3, <1>5 DEF LiveIn, Live
<1>8. FilesIn(inodes', data) =
        [j \in DOMAIN FilesIn(inodes, data) \cup {i} |->
           IF j = i THEN <<>> ELSE FilesIn(inodes, data)[j]]
  <2>1. ContentsIn(inodes'[i], data) = <<>>
    BY <1>6, NoContents
  <2>. QED BY <1>7, <2>1 DEF FilesIn
<1>9. i \in DOMAIN FilesIn(inodes', data) \ DOMAIN FilesIn(inodes, data)
  BY <1>7 DEF FilesIn
<1>10. UnsavedIn(inodes', table) \ {i} = UnsavedIn(inodes, table) \ {i}
  BY <1>7 DEF UnsavedIn
<1>. QED BY <1>2, <1>8, <1>9, <1>10, MappedFiles, MappedFilesNext, ZenonT(40)
         DEF Store!Create, Store!OnlyUnsaved

LEMMA StoreAppend ==
  ASSUME IInv, CopyChunk
  PROVE  Store!Append
<1>. DEFINE b == getNextFreeBlock
<1>1. /\ phase = "copyin" /\ offset \in Pointers
      /\ inode \in DOMAIN inodes /\ Live(inodes, inode)
      /\ b \in DataBlocks /\ b \notin UsedBlocks(inodes)
      /\ inodes' \in [InodesOf(inodeBlocks) -> Inode]
      /\ \A j \in DOMAIN inodes \ {inode} : inodes'[j] = inodes[j]
      /\ inodes'[inode].Valid = inodes[inode].Valid
      /\ \A l \in Pointers :
           inodes'[inode].Direct[l] =
             IF l = offset THEN b ELSE inodes[inode].Direct[l]
      /\ data' = [data EXCEPT ![b] = Chunk(file, offset)]
      /\ offset' = offset + 1 /\ table' = table /\ phase' = phase
  BY CopyChunkFacts
<1>. HIDE DEF b
<1>2. /\ inodes \in [InodesOf(inodeBlocks) -> Inode]
      /\ data \in [DataBlocks -> Content] /\ Compact(inodes[inode], offset)
  BY <1>1 DEF IInv, TypeOK, DiskTypeOK, MemTypeOK, SizeMatchesBlocks
<1>3. DOMAIN inodes' = DOMAIN inodes /\ LiveIn(inodes') = LiveIn(inodes)
      /\ inode \in LiveIn(inodes)
  BY <1>1, <1>2 DEF LiveIn, Live
<1>4. \A j \in LiveIn(inodes), k \in Pointers :
        inodes[j].Direct[k] # INVALID_DATA_BLOCK =>
          data'[inodes[j].Direct[k]] = data[inodes[j].Direct[k]]
  <2>1. SUFFICES ASSUME NEW j \in LiveIn(inodes), NEW k \in Pointers,
                        inodes[j].Direct[k] # INVALID_DATA_BLOCK
                 PROVE  data'[inodes[j].Direct[k]] = data[inodes[j].Direct[k]]
    OBVIOUS
  <2>2. inodes[j].Direct[k] \in UsedBlocks(inodes)
    BY <2>1, UsedBlocksDef DEF LiveIn
  <2>3. inodes[j].Direct[k] \in DataBlocks
    BY <1>2, <2>2, UsedAreDataBlocks
  <2>. QED BY <1>1, <1>2, <2>2, <2>3
<1>5. ASSUME NEW j \in LiveIn(inodes), j # inode
      PROVE  ContentsIn(inodes'[j], data') = ContentsIn(inodes[j], data)
  <2>1. inodes'[j] = inodes[j]
    BY <1>1, <1>5 DEF LiveIn
  <2>. QED BY <1>4, <1>5, <2>1, SameContents
<1>6. /\ Held(inodes[inode]) = 0 .. offset - 1
      /\ Held(inodes'[inode]) = 0 .. offset
  <2>1. /\ offset \in 0 .. POINTERS_PER_INODE
        /\ offset + 1 \in 0 .. POINTERS_PER_INODE
    BY <1>1, DiskAssumption DEF Pointers
  <2>2. b # INVALID_DATA_BLOCK
    BY <1>1, DiskAssumption DEF DataBlocks, INVALID_DATA_BLOCK
  <2>3. Compact(inodes'[inode], offset + 1)
    BY <1>1, <1>2, <2>2, DiskAssumption DEF Compact, Pointers
  <2>4. Held(inodes'[inode]) = 0 .. (offset + 1) - 1
    BY <2>1, <2>3, CompactContents
  <2>. QED BY <1>2, <2>1, <2>4, CompactContents
<1>7. \A k \in 0 .. offset - 1 :
        ContentsIn(inodes'[inode], data')[k] =
          ContentsIn(inodes[inode], data)[k]
  <2>1. SUFFICES ASSUME NEW k \in 0 .. offset - 1
                 PROVE  data'[inodes'[inode].Direct[k]] =
                          data[inodes[inode].Direct[k]]
    BY <1>1, <1>6 DEF ContentsIn, Pointers
  <2>2. k \in Pointers /\ k # offset
    BY <1>1, <2>1, DiskAssumption DEF Pointers
  <2>3. inodes[inode].Direct[k] # INVALID_DATA_BLOCK
    BY <1>1, <1>2, <2>1, <2>2, DiskAssumption DEF Compact, Pointers
  <2>. QED BY <1>1, <1>3, <1>4, <2>2, <2>3
<1>. DEFINE F == FilesIn(inodes, data)
            G == FilesIn(inodes', data')
<1>8. /\ DOMAIN F = LiveIn(inodes) /\ DOMAIN G = LiveIn(inodes)
      /\ \A j \in LiveIn(inodes) : /\ F[j] = ContentsIn(inodes[j], data)
                                   /\ G[j] = ContentsIn(inodes'[j], data')
  BY <1>3 DEF FilesIn
<1>9. G = [F EXCEPT ![inode] = G[inode]]
  <2>1. \A j \in LiveIn(inodes) : j # inode => G[j] = F[j]
    BY <1>5, <1>8
  <2>2. G = [j \in DOMAIN G |-> G[j]]
    BY DEF FilesIn
  <2>. QED BY <1>3, <1>8, <2>1, <2>2
<1>10. /\ DOMAIN F[inode] = 0 .. offset - 1 /\ DOMAIN G[inode] = 0 .. offset
       /\ \A k \in 0 .. offset - 1 : G[inode][k] = F[inode][k]
  BY <1>3, <1>6, <1>7, <1>8 DEF ContentsIn
<1>11. /\ offset \in DOMAIN G[inode] \ DOMAIN F[inode]
       /\ DOMAIN G[inode] = DOMAIN F[inode] \cup {offset}
  <2>1. offset \in Nat
    BY <1>1, DiskAssumption DEF Pointers
  <2>2. /\ 0 .. offset = (0 .. offset - 1) \cup {offset}
        /\ offset \notin 0 .. offset - 1
    BY <2>1
  <2>. QED BY <1>10, <2>1, <2>2
<1>12. UnsavedIn(inodes', table) \ {inode} = UnsavedIn(inodes, table) \ {inode}
  BY <1>1, <1>3 DEF UnsavedIn, LiveIn
<1>. DEFINE S == FilesIn(table, data)
            T == FilesIn(table, data')
<1>13. /\ DOMAIN T = DOMAIN S
       /\ \A j \in DOMAIN S \ UnsavedIn(inodes, table) :
            j \in DOMAIN F => T[j] = S[j]
  <2>1. DOMAIN S = LiveIn(table) /\ DOMAIN T = LiveIn(table)
    BY DEF FilesIn
  <2>2. SUFFICES ASSUME NEW j \in LiveIn(table), j \in LiveIn(inodes),
                        table[j] = inodes[j]
                 PROVE  T[j] = S[j]
    BY <1>8, <2>1 DEF UnsavedIn
  <2>3. ContentsIn(table[j], data') = ContentsIn(table[j], data)
    BY <1>4, <2>2, SameContents
  <2>. QED BY <2>2, <2>3 DEF FilesIn
<1>. HIDE DEF F, G, S, T
<1>14. /\ FilesOf(inodes) = F /\ FilesOf(inodes)' = G
       /\ FilesOf(table) = S /\ FilesOf(table)' = T
       /\ Unsaved = UnsavedIn(inodes, table)
       /\ Unsaved' = UnsavedIn(inodes', table)
  BY <1>1, MappedFiles, MappedFilesNext DEF F, G, S, T
<1>15. inode \in DOMAIN F /\ DOMAIN G = DOMAIN F
  BY <1>3, <1>8
<1>16. Store!SafeFilesKept
  BY <1>13, <1>14 DEF Store!SafeFilesKept
<1>17. Store!OnlyUnsaved(inode)
  BY <1>12, <1>14 DEF Store!OnlyUnsaved
<1>. QED BY <1>1, <1>9, <1>10, <1>11, <1>14, <1>15, <1>16, <1>17
         DEF Store!Append

(* The end of a copy changes no contents; it may make the inode equal to   *)
(* the one on the disk, when the removed file was copied in again.         *)
LEMMA StoreSettle ==
  ASSUME IInv, CopyEnd
  PROVE  Store!Settle \/ UNCHANGED Store!vars
<1>1. TypeOK /\ Copying /\ SizeMatchesBlocks
  BY DEF IInv
<1>2. /\ phase = "copyin" /\ phase' = "shell"
      /\ inodes' = [inodes EXCEPT ![inode].Size = offset]
      /\ table' = table /\ data' = data
  BY DEF CopyEnd, Goto, updateSize, diskVars
<1>3. inode \in DOMAIN inodes /\ Live(inodes, inode)
  BY <1>1, <1>2 DEF Copying
<1>4. offset \in 0 .. POINTERS_PER_INODE
  BY <1>1, <1>2, DiskAssumption DEF Copying, TypeOK
<1>5. /\ inodes \in [InodesOf(inodeBlocks) -> Inode]
      /\ inode \in InodesOf(inodeBlocks)
  BY <1>1, <1>3 DEF TypeOK, MemTypeOK
<1>6. /\ DOMAIN inodes' = DOMAIN inodes
      /\ \A j \in DOMAIN inodes \ {inode} : inodes'[j] = inodes[j]
      /\ inodes'[inode].Valid = inodes[inode].Valid
      /\ inodes'[inode].Size = offset
      /\ inodes'[inode].Direct = inodes[inode].Direct
  BY <1>2, <1>4, <1>5, SizeAssigned
<1>7. LiveIn(inodes') = LiveIn(inodes) /\ inode \in LiveIn(inodes)
  BY <1>3, <1>6 DEF LiveIn, Live
<1>8. FilesIn(inodes', data) = FilesIn(inodes, data)
  <2>1. \A j \in LiveIn(inodes) :
          ContentsIn(inodes'[j], data) = ContentsIn(inodes[j], data)
    <3>1. \A j \in LiveIn(inodes) : inodes'[j].Direct = inodes[j].Direct
      BY <1>6 DEF LiveIn
    <3>. QED BY <3>1, SameContents
  <2>. QED BY <1>7, <2>1 DEF FilesIn
<1>9. CASE table[inode] = inodes[inode] /\ inode \in DOMAIN table
  <2>1. /\ Compact(inodes[inode], offset)
        /\ Compact(inodes[inode], inodes[inode].Size)
    BY <1>1, <1>2, <1>3, <1>9 DEF SizeMatchesBlocks, Live
  <2>2. inodes[inode].Size \in 0 .. POINTERS_PER_INODE
    BY <1>5, InodeFacts
  <2>3. inodes[inode].Size = offset
    BY <1>4, <2>1, <2>2, DiskAssumption DEF Compact, Pointers
  <2>4. inodes' = inodes
    <3>1. inodes[inode] \in Inode
      BY <1>5
    <3>2. [inodes[inode] EXCEPT !.Size = offset] = inodes[inode]
      BY <2>3, <3>1 DEF Inode
    <3>. QED BY <1>2, <1>5, <3>2
  <2>. QED BY <1>2, <2>4, StoreStutter
<1>10. inode \in DOMAIN table
  BY <1>1, <1>3, Layout DEF IInv
<1>11. CASE table[inode] # inodes[inode] /\ table[inode] # inodes'[inode]
  <2>1. UnsavedIn(inodes', table) = UnsavedIn(inodes, table)
    BY <1>6, <1>7, <1>11 DEF UnsavedIn, LiveIn
  <2>. QED BY <1>2, <1>8, <2>1, MappedFiles, MappedFilesNext DEF Store!vars
<1>12. CASE table[inode] # inodes[inode] /\ table[inode] = inodes'[inode]
  <2>1. UnsavedIn(inodes', table) = UnsavedIn(inodes, table) \ {inode}
    BY <1>6, <1>7, <1>12 DEF UnsavedIn, LiveIn
  <2>2. inode \in UnsavedIn(inodes, table)
    BY <1>7, <1>12 DEF UnsavedIn
  <2>3. inode \in LiveIn(table)
    BY <1>3, <1>6, <1>10, <1>12 DEF LiveIn, Live
  <2>4. FilesIn(table, data)[inode] = FilesIn(inodes, data)[inode]
    <3>1. ContentsIn(table[inode], data) = ContentsIn(inodes[inode], data)
      BY <1>6, <1>12, SameContents
    <3>. QED BY <1>7, <2>3, <3>1 DEF FilesIn
  <2>5. inode \in DOMAIN FilesIn(table, data)
    BY <2>3 DEF FilesIn
  <2>. QED BY <1>2, <1>8, <2>1, <2>2, <2>4, <2>5, MappedFiles, MappedFilesNext
           DEF Store!Settle
<1>. QED BY <1>9, <1>10, <1>11, <1>12

(* Exit on an image without inodes is done at once.                        *)
LEMMA StoreExit ==
  ASSUME IInv, Exit
  PROVE  Store!Save \/ UNCHANGED Store!vars
<1>1. /\ phase = "shell" /\ phase' = "exit" /\ offset' = 0
      /\ UNCHANGED <<inodes, table, data, inodeBlocks>>
  BY DEF Exit, Goto, Locals, diskVars, memVars
<1>2. CASE inodeBlocks # 0
  BY <1>1, <1>2, StoreStutter
<1>3. CASE inodeBlocks = 0
  <2>1. LiveIn(inodes) = {}
    BY <1>3, Layout DEF IInv, LiveIn
  <2>2. UnsavedIn(inodes, table) = {}
    BY <2>1 DEF UnsavedIn
  <2>. QED BY <1>1, <2>2, MappedFiles, MappedFilesNext DEF Store!Save
<1>. QED BY <1>2, <1>3

LEMMA StoreSave ==
  ASSUME IInv, ExitBlock
  PROVE  Store!Save
<1>1. TypeOK /\ Kept
  BY DEF IInv
<1>2. /\ phase = "exit" /\ phase' = "exit" /\ offset < inodeBlocks
      /\ offset' = offset + 1 /\ inodeBlocks = InodeBlocks
      /\ DOMAIN inodes = DOMAIN table /\ DOMAIN table' = DOMAIN table
      /\ \A i \in DOMAIN table :
           table'[i] = IF offset \in dirty /\ BlockOf(i) = offset
                       THEN inodes[i] ELSE table[i]
      /\ inodes' = inodes /\ data' = data /\ inodeBlocks' = inodeBlocks
  BY ExitBlockFacts DEF memVars
<1>3. /\ DOMAIN table = InodesOf(InodeBlocks) /\ offset \in Nat
      /\ InodeBlocks \in Nat
  BY <1>1, DiskAssumption DEF TypeOK, DiskTypeOK
<1>. DEFINE F == FilesIn(inodes, data)
            S == FilesIn(table, data)
            T == FilesIn(table', data)
            U == UnsavedIn(inodes, table)
            V == UnsavedIn(inodes, table')
<1>4. /\ DOMAIN F = LiveIn(inodes) /\ DOMAIN S = LiveIn(table)
      /\ DOMAIN T = LiveIn(table')
      /\ \A i \in LiveIn(inodes) : F[i] = ContentsIn(inodes[i], data)
      /\ \A i \in LiveIn(table) : S[i] = ContentsIn(table[i], data)
      /\ \A i \in LiveIn(table') : T[i] = ContentsIn(table'[i], data)
  BY DEF FilesIn
<1>. HIDE DEF F, S, T
<1>5. \A i \in DOMAIN table : table'[i] = inodes[i] \/ table'[i] = table[i]
  BY <1>2
<1>6. ASSUME NEW i \in DOMAIN S \cup DOMAIN T
      PROVE  \/ i \in DOMAIN F \cap DOMAIN T /\ T[i] = F[i]
             \/ i \notin DOMAIN F \cup DOMAIN T
             \/ i \in DOMAIN S \cap DOMAIN T /\ T[i] = S[i]
  <2>1. i \in DOMAIN table
    BY <1>2, <1>4, <1>6 DEF LiveIn
  <2>2. CASE table'[i] = inodes[i]
    BY <1>2, <1>4, <2>1, <2>2 DEF LiveIn, Live
  <2>3. CASE table'[i] = table[i]
    BY <1>2, <1>4, <1>6, <2>1, <2>3 DEF LiveIn, Live
  <2>. QED BY <1>5, <2>1, <2>2, <2>3
<1>7. V \subseteq U
  BY <1>2, <1>5 DEF UnsavedIn, LiveIn
<1>8. ASSUME NEW i \in U \ V
      PROVE  i \in DOMAIN T /\ T[i] = F[i]
  <2>1. i \in LiveIn(inodes) /\ table'[i] = inodes[i] /\ i \in DOMAIN table
    BY <1>2, <1>8 DEF UnsavedIn, LiveIn
  <2>2. i \in LiveIn(table')
    BY <1>2, <2>1 DEF LiveIn, Live
  <2>. QED BY <1>4, <2>1, <2>2
<1>9. offset' = inodeBlocks => V = {}
  <2>1. SUFFICES ASSUME offset + 1 = inodeBlocks, NEW i \in V PROVE FALSE
    BY <1>2
  <2>2. /\ i \in DOMAIN table /\ Live(inodes, i) /\ table'[i] # inodes[i]
    BY <1>2, <2>1 DEF UnsavedIn, LiveIn
  <2>3. BlockOf(i) \in 0 .. InodeBlocks - 1
    BY <1>3, <2>2, InodeBlock
  <2>4. table'[i] = table[i] /\ ~(offset \in dirty /\ BlockOf(i) = offset)
    BY <1>2, <2>2
  <2>5. BlockOf(i) \in dirty /\ offset <= BlockOf(i)
    BY <1>1, <1>2, <2>2, <2>4 DEF Kept
  <2>. QED BY <1>2, <1>3, <2>1, <2>3, <2>4, <2>5
<1>. HIDE DEF U, V
<1>10. offset # inodeBlocks
  BY <1>2, <1>3
<1>11. /\ FilesOf(inodes) = F /\ FilesOf(inodes)' = F
       /\ FilesOf(table) = S /\ FilesOf(table)' = T
       /\ Unsaved = U /\ Unsaved' = V
  BY <1>2, MappedFiles, MappedFilesNext DEF F, S, T, U, V
<1>. QED BY <1>2, <1>6, <1>7, <1>8, <1>9, <1>10, <1>11 DEF Store!Save

LEMMA StoreEnd ==
  ASSUME IInv, Abort \/ Exited \/ Kill
  PROVE  Store!End
<1>1. Stop
  BY DEF Abort, Exited, Kill
<1>2. /\ LiveIn(inodes') = {} /\ phase' = "off"
      /\ table' = table /\ data' = data
  BY <1>1, NoInodes DEF Stop, Construct, diskVars, LiveIn
<1>3. UnsavedIn(inodes', table') = {}
  BY <1>2 DEF UnsavedIn
<1>. QED BY <1>2, <1>3, NoLiveInodes, MappedFiles, MappedFilesNext
         DEF Store!End

LEMMA StoreQuiet ==
  ASSUME IInv, Format \/ FormatDone \/ Start
  PROVE  UNCHANGED Store!vars
<1>1. /\ phase # "exit" /\ phase' # "exit" /\ UNCHANGED <<inodes, table, data>>
  BY DEF Format, FormatDone, Start, Goto, diskVars, memVars
<1>. QED BY <1>1, StoreStutter

LEMMA StoreCopyout ==
  ASSUME NEW i \in DOMAIN inodes, Copyout(i)
  PROVE  UNCHANGED Store!vars
<1>1. /\ phase # "exit" /\ phase' # "exit" /\ UNCHANGED <<inodes, table, data>>
  BY DEF Copyout, read, diskVars, shellVars
<1>. QED BY <1>1, StoreStutter

-----------------------------------------------------------------------------
LEMMA StoreStep == IInv /\ [Next]_vars => [Store!Next]_Store!vars
<1>. SUFFICES ASSUME IInv, [Next]_vars PROVE [Store!Next]_Store!vars
  OBVIOUS
<1>1. CASE Mount
  BY <1>1, StoreMount DEF Store!Next
<1>2. CASE Format \/ FormatDone \/ Start
  BY <1>2, StoreQuiet
<1>3. CASE FormatBlock
  BY <1>3, StoreErase DEF Store!Next
<1>4. CASE \E i \in DOMAIN inodes : Remove(i) \/ Copyout(i)
  BY <1>4, StoreRemove, StoreCopyout DEF Store!Next
<1>5. CASE \E f \in Files \cup {NoFile} : Copyin(f)
  BY <1>5, StoreCreate DEF Store!Next
<1>6. CASE CopyChunk
  BY <1>6, StoreAppend DEF Store!Next
<1>7. CASE CopyEnd
  BY <1>7, StoreSettle DEF Store!Next
<1>8. CASE Abort \/ Exited \/ Kill
  BY <1>8, StoreEnd DEF Store!Next
<1>9. CASE Exit
  BY <1>9, StoreExit DEF Store!Next
<1>10. CASE ExitBlock
  BY <1>10, StoreSave DEF Store!Next
<1>11. CASE UNCHANGED vars
  <2>1. UNCHANGED <<inodes, table, data, phase, offset, inodeBlocks>>
    BY <1>11 DEF vars, diskVars, memVars, shellVars
  <2>. QED BY <2>1, StoreStutter
<1>. QED
  BY <1>1, <1>2, <1>3, <1>4, <1>5, <1>6, <1>7, <1>8, <1>9, <1>10, <1>11
     DEF Next

(* The file system keeps the promises of FileStore: one file never changes *)
(* another, and a process that stops at any point leaves the saved files   *)
(* it has not removed, each complete.                                      *)
THEOREM StoreRefinement == Spec => ImplementsStore
<1>1. Init => Store!Init
  BY StoreInit
<1>2. IInv /\ [Next]_vars => [Store!Next]_Store!vars
  BY StoreStep
<1>3. Spec => Store!Init /\ [][Store!Next]_Store!vars
  BY <1>1, <1>2, FileShellInvariant, PTL DEF Spec
<1>. QED BY <1>3 DEF ImplementsStore, Store!Spec
=============================================================================
