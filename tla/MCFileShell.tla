---------------------------- MODULE MCFileShell -----------------------------
(* FileShell on an image of 2 inode blocks of 2 inodes and 2 data blocks,  *)
(* with 2 pointers an inode.  The short file fits one block; the long one  *)
(* is longer than an inode can hold.  Two short files fill the disk.       *)
EXTENDS FileShell

MCLength == [f \in Files |-> IF f = "short" THEN 1 ELSE 3]
=============================================================================
