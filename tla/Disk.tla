-------------------------------- MODULE Disk --------------------------------
(***************************************************************************)
(* The disk image of Assignment 5 (Disk.h, Disk.cpp) and what its blocks   *)
(* hold (the structures of FileSystem.h): block 0 the superblock, then the *)
(* inode blocks, then the data blocks.                                     *)
(*                                                                         *)
(* The image outlives the process.  A block is read or written as a whole; *)
(* reads, writes and their counters that no decision depends on are left   *)
(* out, and the image is opened with the size it was created with.         *)
(***************************************************************************)
EXTENDS Integers

CONSTANTS
  Blocks,              \* Disk::Blocks, the <nblocks> argument
  InodeBlocks,         \* SuperBlock.InodeBlocks of a formatted image, 20
  INODES_PER_BLOCK,    \* 128
  POINTERS_PER_INODE,  \* 5
  Files,               \* the files outside that can be copied in
  Length               \* their lengths, in blocks (a last partial one counts)

(* isValidInode compares inode numbers with the number of inode BLOCKS, so *)
(* the files of an image live in its first inode block, which is what the  *)
(* last conjunct says.                                                     *)
ASSUME DiskAssumption ==
  /\ InodeBlocks \in Nat \ {0} /\ INODES_PER_BLOCK \in Nat \ {0}
  /\ POINTERS_PER_INODE \in Nat \ {0}
  /\ Blocks \in Nat /\ Blocks > InodeBlocks + 1
  /\ Length \in [Files -> Nat]
  /\ InodeBlocks <= INODES_PER_BLOCK

VARIABLES
  super,  \* SuperBlock.InodeBlocks as block 0 holds it
  table,  \* the inodes of the inode blocks
  data    \* the data blocks

diskVars == <<super, table, data>>

INVALID_DATA_BLOCK == 0
DataBlocks == InodeBlocks + 1 .. Blocks - 1
Pointers == 0 .. POINTERS_PER_INODE - 1

(* The inodes of an image with n inode blocks, and the block of inode i.   *)
InodesOf(n) == 0 .. n * INODES_PER_BLOCK - 1
BlockOf(i) == i \div INODES_PER_BLOCK

Inode ==
  [Valid : BOOLEAN,
   Size : 0 .. POINTERS_PER_INODE,
   Direct : [Pointers -> {INVALID_DATA_BLOCK} \cup DataBlocks]]

EmptyInode ==
  [Valid |-> FALSE, Size |-> 0,
   Direct |-> [k \in Pointers |-> INVALID_DATA_BLOCK]]

Live(tab, i) == tab[i].Valid
BlocksOfInode(inode) ==
  {inode.Direct[k] : k \in Pointers} \ {INVALID_DATA_BLOCK}

(* A data block is all zeros or holds one chunk of one file.               *)
Zeros == <<>>
Chunk(f, k) == <<f, k>>
Content == {Zeros} \cup {Chunk(f, k) : f \in Files, k \in Pointers}

DiskTypeOK ==
  /\ super \in {0, InodeBlocks}
  /\ table \in [InodesOf(InodeBlocks) -> Inode]
  /\ data \in [DataBlocks -> Content]

(* Disk::open: the image that comes with the program, formatted, or a new  *)
(* file of zeros.                                                          *)
Open ==
  /\ super \in {0, InodeBlocks}
  /\ table = [i \in InodesOf(InodeBlocks) |-> EmptyInode]
  /\ data = [b \in DataBlocks |-> Zeros]

(* Mutation: the check admits one block too many.                          *)
OutOfRangeByOne(b) == b < 0 \/ b > Blocks

(* Disk::sanity_check throws for these numbers, and nothing catches it.    *)
OutOfRange(b) == b < 0 \/ b >= Blocks

(* Disk::write of an inode block (number b + 1), of a data block, and of   *)
(* zeros to any block behind the superblock.                               *)
writeInodeBlock(b, inodes) ==
  /\ table' = [i \in DOMAIN table |->
                 IF BlockOf(i) = b THEN inodes[i] ELSE table[i]]
  /\ UNCHANGED <<super, data>>

writeData(b, content) ==
  /\ data' = [data EXCEPT ![b] = content]
  /\ UNCHANGED <<super, table>>

writeZeros(b) ==
  /\ table' = [i \in DOMAIN table |->
                 IF BlockOf(i) + 1 = b THEN EmptyInode ELSE table[i]]
  /\ data' = [c \in DataBlocks |-> IF c = b THEN Zeros ELSE data[c]]
  /\ UNCHANGED super
=============================================================================
