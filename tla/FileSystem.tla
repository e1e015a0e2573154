----------------------------- MODULE FileSystem -----------------------------
(***************************************************************************)
(* The FileSystem object (FileSystem.h, FileSystem.cpp of Assignment 5):   *)
(* the inode blocks and the free block list it keeps in memory between     *)
(* mount and the destructor, and its operations.                           *)
(***************************************************************************)
EXTENDS Disk

VARIABLES
  mounts,      \* Disk::Mounts, saturated at 2: nothing ever unmounts
  inodeBlocks, \* super_block.Super.InodeBlocks of the object
  inodes,      \* inode_blocks
  dirty,       \* the inode blocks that inode_blocks_dirty marks
  free         \* the blocks that free_block.Bitmap marks

memVars == <<mounts, inodeBlocks, inodes, dirty, free>>

BlockNumbers == 0 .. Blocks - 1

MemTypeOK ==
  /\ mounts \in 0 .. 2
  /\ inodeBlocks \in {0, InodeBlocks}
  /\ inodes \in [InodesOf(inodeBlocks) -> Inode]
  /\ dirty \subseteq 0 .. inodeBlocks - 1
  /\ free \subseteq BlockNumbers

isDiskMounted == mounts > 0

(* FileSystem::FileSystem: everything is free by default.                  *)
Construct ==
  /\ mounts' = 0 /\ inodeBlocks' = 0
  /\ inodes' = [i \in InodesOf(0) |-> EmptyInode]
  /\ dirty' = {}
  /\ free' = BlockNumbers

(* Mutation: the number of inodes bounds the inode number.                 *)
isValidInodeOfTable(i) == isDiskMounted /\ i \in DOMAIN inodes

(* The number of inode BLOCKS bounds the inode number.                     *)
isValidInode(i) == isDiskMounted /\ i < inodeBlocks

(* get- and setBlockFreeStatus look only at data blocks of the disk.       *)
FirstDataBlock == inodeBlocks + 1
Settable(bs) == {b \in bs : b >= FirstDataBlock /\ b < Blocks}
getBlockFreeStatus(b) == b \in Settable(free)

(* Past the last block when no block is free.                              *)
getNextFreeBlock ==
  IF \E b \in BlockNumbers : getBlockFreeStatus(b)
  THEN CHOOSE b \in BlockNumbers :
         /\ getBlockFreeStatus(b)
         /\ \A c \in BlockNumbers : getBlockFreeStatus(c) => b <= c
  ELSE Blocks

FreeINodes == {i \in DOMAIN inodes : ~Live(inodes, i)}
getNextFreeINode ==
  CHOOSE i \in FreeINodes : \A j \in FreeINodes : i <= j

(* The data blocks of the valid inodes of an inode table.                  *)
UsedBlocks(tab) ==
  UNION {BlocksOfInode(tab[i]) : i \in {j \in DOMAIN tab : Live(tab, j)}}

-----------------------------------------------------------------------------
(* Mutation: mount leaves the free block list as it is.                    *)
mountWithoutBitmap ==
  /\ mounts' = IF mounts = 0 THEN 1 ELSE 2
  /\ inodeBlocks' = super
  /\ inodes' = [i \in InodesOf(super) |-> table[i]]
  /\ dirty' = {}
  /\ UNCHANGED <<diskVars, free>>

(* FileSystem::mount reads the inode blocks, forgets which were dirty, and *)
(* takes the blocks of the valid inodes from the free list.  It neither    *)
(* refuses a second mount nor resets the list.                             *)
mount ==
  /\ mounts' = IF mounts = 0 THEN 1 ELSE 2
  /\ inodeBlocks' = super
  /\ inodes' = [i \in InodesOf(super) |-> table[i]]
  /\ dirty' = {}
  /\ free' = free \ UsedBlocks(inodes')
  /\ UNCHANGED diskVars

(* FileSystem::create, when i is the inode it found.                       *)
create(i) ==
  /\ inodes' = [inodes EXCEPT ![i].Valid = TRUE]
  /\ dirty' = dirty \cup {BlockOf(i)}
  /\ UNCHANGED <<diskVars, mounts, inodeBlocks, free>>

(* Mutation: the direct pointers survive.                                  *)
removeKeepsPointers(i) ==
  /\ free' = free \cup Settable(BlocksOfInode(inodes[i]))
  /\ inodes' = [inodes EXCEPT ![i].Valid = FALSE, ![i].Size = 0]
  /\ UNCHANGED <<diskVars, mounts, inodeBlocks, dirty>>

(* Mutation: the blocks are not given back.                                *)
removeLeaks(i) ==
  /\ inodes' = [inodes EXCEPT ![i] = EmptyInode]
  /\ UNCHANGED <<diskVars, mounts, inodeBlocks, dirty, free>>

(* FileSystem::remove.  The inode block is not marked dirty.               *)
remove(i) ==
  /\ free' = free \cup Settable(BlocksOfInode(inodes[i]))
  /\ inodes' = [inodes EXCEPT ![i] = EmptyInode]
  /\ UNCHANGED <<diskVars, mounts, inodeBlocks, dirty>>

(* FileSystem::read, for every block copyout asks for: it stops at the     *)
(* first pointer that is 0, and takes each block it reads from the list.   *)
ReadableIn(tab, i) ==
  {k \in Pointers : \A j \in 0 .. k : tab[i].Direct[j] # INVALID_DATA_BLOCK}
Contents(tab, i) == [k \in ReadableIn(tab, i) |-> data[tab[i].Direct[k]]]

Readable(i) == ReadableIn(inodes, i)
CopiedOut(i) == Contents(inodes, i)

read(i) ==
  /\ free' = free \ Settable({inodes[i].Direct[k] : k \in Readable(i)})
  /\ UNCHANGED <<diskVars, mounts, inodeBlocks, inodes, dirty>>

(* Mutation: the block that was written stays on the free list.            *)
writeKeepsFree(i, k, content) ==
  LET b == getNextFreeBlock IN
  /\ inodes' = [inodes EXCEPT ![i].Direct[k] = b]
  /\ writeData(b, content)
  /\ UNCHANGED <<mounts, inodeBlocks, dirty, free>>

(* FileSystem::write of a chunk, when a data block is free.                *)
write(i, k, content) ==
  LET b == getNextFreeBlock IN
  /\ inodes' = [inodes EXCEPT ![i].Direct[k] = b]
  /\ writeData(b, content)
  /\ free' = free \ {b}
  /\ UNCHANGED <<mounts, inodeBlocks, dirty>>

(* The same when none is: Disk::write throws.                              *)
writeThrows == OutOfRange(getNextFreeBlock)

(* FileSystem::updateSize.                                                 *)
updateSize(i, size) ==
  /\ inodes' = [inodes EXCEPT ![i].Size = size]
  /\ UNCHANGED <<diskVars, mounts, inodeBlocks, dirty, free>>

(* Mutation: the loop of the destructor starts at 1.                       *)
flushFromOne(b) ==
  /\ IF b \in dirty /\ b > 0 THEN writeInodeBlock(b, inodes)
                             ELSE UNCHANGED diskVars
  /\ UNCHANGED memVars

(* One pass of the loop of FileSystem::~FileSystem.                        *)
flush(b) ==
  /\ IF b \in dirty THEN writeInodeBlock(b, inodes) ELSE UNCHANGED diskVars
  /\ UNCHANGED memVars
=============================================================================
