----------------------------- MODULE FileShell ------------------------------
(***************************************************************************)
(* The program of Assignment 5 (file_system.cpp): the command loop, one    *)
(* command after the other, and the end of the process, which may come     *)
(* from the exit command, from an exception nobody catches, or from        *)
(* outside (Kill) between any two steps of a command.  The disk image is   *)
(* what is left for the next process.                                      *)
(*                                                                         *)
(* debug, ls, stat and help change nothing and are left out; `cat` is      *)
(* copyout to a fixed file.  An inode number a user types is one of the    *)
(* mounted image's (the code does not check it).                           *)
(***************************************************************************)
EXTENDS FileSystem

CONSTANT FormatBlocks  \* the blocks format() clears up to, 200 in the source

ASSUME FormatAssumption == FormatBlocks \in Nat /\ FormatBlocks >= Blocks

VARIABLES
  phase,  \* what the process is doing; "off": there is no process
  file,   \* the file being copied in
  inode,  \* copyin's inumber
  offset, \* copyin's offset in blocks; the loop index of format and exit
  lossy   \* history: memory has been lost or discarded (Kill, an exception,
          \* or a second mount)

shellVars == <<phase, file, inode, offset, lossy>>
vars == <<diskVars, memVars, shellVars>>

NoFile == "none"   \* a path that cannot be opened

TypeOK ==
  /\ DiskTypeOK
  /\ MemTypeOK
  /\ phase \in {"off", "shell", "copyin", "format", "exit"}
  /\ file \in Files \cup {NoFile}
  /\ inode \in InodesOf(InodeBlocks)
  /\ offset \in 0 .. Blocks
  /\ lossy \in BOOLEAN

Goto(from, to) == phase = from /\ phase' = to

Locals(f, i, o) == file' = f /\ inode' = i /\ offset' = o
NoLocals == Locals(NoFile, 0, 0)

Init ==
  /\ Open
  /\ mounts = 0 /\ inodeBlocks = 0 /\ dirty = {} /\ free = BlockNumbers
  /\ inodes = [i \in InodesOf(0) |-> EmptyInode]
  /\ phase = "shell"
  /\ file = NoFile /\ inode = 0 /\ offset = 0
  /\ lossy = FALSE

-----------------------------------------------------------------------------
(* The commands.                                                           *)

Mount ==
  /\ phase = "shell" /\ UNCHANGED <<phase, file, inode, offset>>
  /\ mount
  /\ lossy' = (lossy \/ isDiskMounted)

(* Format refuses a mounted disk; otherwise it clears block after block,   *)
(* from block 1.  Its SuperBlock is a local variable that goes nowhere.    *)
Format ==
  /\ ~isDiskMounted
  /\ Goto("shell", "format")
  /\ Locals(NoFile, 0, 1)
  /\ UNCHANGED <<diskVars, memVars, lossy>>

(* Mutation: format begins with the last block.                            *)
FormatBlockBackwards ==
  /\ phase = "format" /\ offset < FormatBlocks /\ ~OutOfRange(offset)
  /\ writeZeros(Blocks - offset)
  /\ Locals(NoFile, 0, offset + 1)
  /\ UNCHANGED <<memVars, phase, lossy>>

FormatBlock ==
  /\ phase = "format" /\ offset < FormatBlocks /\ ~OutOfRange(offset)
  /\ writeZeros(offset)
  /\ Locals(NoFile, 0, offset + 1)
  /\ UNCHANGED <<memVars, phase, lossy>>

FormatDone ==
  /\ offset = FormatBlocks
  /\ Goto("format", "shell")
  /\ NoLocals
  /\ UNCHANGED <<diskVars, memVars, lossy>>

Remove(i) ==
  /\ phase = "shell" /\ isDiskMounted
  /\ remove(i)
  /\ UNCHANGED shellVars

Copyout(i) ==
  /\ phase = "shell" /\ isDiskMounted
  /\ read(i)
  /\ UNCHANGED shellVars

(* do_copyin: create an inode; unless it is one that isValidInode takes    *)
(* for invalid, or the file cannot be opened, start to copy.  The inode    *)
(* stays created when the command fails.                                   *)
Copyin(f) ==
  /\ phase = "shell" /\ isDiskMounted
  /\ FreeINodes # {}
  /\ LET i == getNextFreeINode IN
     /\ create(i)
     /\ IF isValidInode(i) /\ f # NoFile
        THEN phase' = "copyin" /\ Locals(f, i, 0)
        ELSE UNCHANGED <<phase, file, inode, offset>>
  /\ UNCHANGED lossy

(* The process ends and its memory is gone.                                *)
Stop ==
  /\ phase' = "off"
  /\ Construct
  /\ NoLocals
  /\ UNCHANGED diskVars

MoreToCopy ==
  phase = "copyin" /\ offset < Length[file] /\ offset < POINTERS_PER_INODE

(* A pass of copyin's loop.                                                *)
CopyChunk ==
  /\ MoreToCopy /\ ~writeThrows
  /\ write(inode, offset, Chunk(file, offset))
  /\ offset' = offset + 1
  /\ UNCHANGED <<phase, file, inode, lossy>>

(* An exception that leaves main: no destructor runs, nothing is saved.    *)
Abort ==
  /\ \/ MoreToCopy /\ writeThrows
     \/ phase = "format" /\ offset < FormatBlocks /\ OutOfRange(offset)
  /\ Stop
  /\ lossy' = TRUE

(* The file is read to its end, or the inode has no pointer left (write    *)
(* then returns 0, which ends the loop).                                   *)
CopyEnd ==
  /\ Goto("copyin", "shell")
  /\ offset = Length[file] \/ offset = POINTERS_PER_INODE
  /\ updateSize(inode, offset)
  /\ NoLocals
  /\ UNCHANGED lossy

-----------------------------------------------------------------------------
(* The exit command or the end of the input: main returns, and the         *)
(* destructor of `fs` writes the dirty inode blocks, one after the other.  *)
Exit ==
  /\ Goto("shell", "exit")
  /\ Locals(NoFile, 0, 0)
  /\ UNCHANGED <<diskVars, memVars, lossy>>

ExitBlock ==
  /\ phase = "exit" /\ offset < inodeBlocks
  /\ flush(offset)
  /\ Locals(NoFile, 0, offset + 1)
  /\ UNCHANGED <<phase, lossy>>

Exited ==
  /\ phase = "exit" /\ offset = inodeBlocks
  /\ Stop
  /\ UNCHANGED lossy

(* The process is killed, or the machine stops.                            *)
Kill ==
  /\ phase # "off"
  /\ Stop
  /\ lossy' = TRUE

(* The next process opens the image again.                                 *)
Start ==
  /\ Goto("off", "shell")
  /\ UNCHANGED <<diskVars, memVars, file, inode, offset, lossy>>

Next ==
  \/ Mount \/ Format \/ FormatBlock \/ FormatDone
  \/ \E i \in DOMAIN inodes : Remove(i) \/ Copyout(i)
  \/ \E f \in Files \cup {NoFile} : Copyin(f)
  \/ CopyChunk \/ CopyEnd \/ Abort
  \/ Exit \/ ExitBlock \/ Exited \/ Kill \/ Start

Spec == Init /\ [][Next]_vars

-----------------------------------------------------------------------------
(***************************************************************************)
(* Properties.                                                             *)
(***************************************************************************)

(* No data block belongs to two places of an inode table.                  *)
Unshared(tab) ==
  \A i, j \in {n \in DOMAIN tab : Live(tab, n)} :
    \A k, l \in Pointers :
      /\ tab[i].Direct[k] # INVALID_DATA_BLOCK
      /\ tab[i].Direct[k] = tab[j].Direct[l]
      => i = j /\ k = l

(* No data block belongs to two files, in memory or on the disk, whatever  *)
(* sequence of commands, kills and aborts came before -- in particular     *)
(* when the destructor was stopped between two inode blocks.               *)
NoCrossLink == Unshared(inodes) /\ Unshared(table)

(* The free block list never offers a block of a live file, also after a   *)
(* second mount, which keeps the list of the first.                        *)
BitmapSound == free \cap UsedBlocks(inodes) = {}

(* A data block changes only while no live file of the mounted image has   *)
(* it: copying a file in never writes into another one.                    *)
LiveBlocksKept ==
  [][\A b \in DataBlocks : data'[b] # data[b] => b \notin UsedBlocks(inodes)]_vars

(* Mounted once, the list is exact: remove gives back what write took, and *)
(* no block is lost.  (A second mount forgets files but not their blocks.) *)
BitmapExact ==
  mounts = 1 =>
    Settable(free) = Settable(BlockNumbers) \ UsedBlocks(inodes)

(* A file has its pointers from Direct[0] on, as many as its size says, so *)
(* copyout, which stops at the first 0, copies all of it.  The one being   *)
(* copied in gets its size when the copy ends.                             *)
Compact(node, size) ==
  \A k \in Pointers : node.Direct[k] # INVALID_DATA_BLOCK <=> k < size

SizeMatchesBlocks ==
  /\ \A i \in DOMAIN inodes :
       Live(inodes, i) =>
         Compact(inodes[i],
                 IF phase = "copyin" /\ i = inode THEN offset
                                                  ELSE inodes[i].Size)
  /\ \A i \in DOMAIN table :
       Live(table, i) => Compact(table[i], table[i].Size)

(* What copyout reads from a live inode are the first blocks of one file   *)
(* (NoFile: of none, the inode has no blocks) -- as long as every process  *)
(* mounted once and ended with exit.  Without that condition it is false:  *)
(* remove does not reach the disk, so the blocks of a removed file can be  *)
(* written again while the inode on the disk still has them.               *)
FileIntact ==
  ~lossy =>
    \A i \in DOMAIN inodes :
      Live(inodes, i) =>
        \E f \in Files \cup {NoFile} :
          CopiedOut(i) = [k \in Readable(i) |-> Chunk(f, k)]

(* When the destructor is done, every live inode is on the disk as it was  *)
(* in memory, although only create marks a block dirty and write and       *)
(* updateSize do not.                                                      *)
ExitSavesFiles ==
  [][phase = "exit" /\ offset = inodeBlocks /\ Exited =>
       \A i \in DOMAIN inodes : Live(inodes, i) => table[i] = inodes[i]]_vars

(* The files of an inode table, and those the image does not have yet.     *)
FilesOf(tab) ==
  [i \in {n \in DOMAIN tab : Live(tab, n)} |-> Contents(tab, i)]
Unsaved == {i \in DOMAIN inodes : Live(inodes, i) /\ inodes[i] # table[i]}

(* One file never changes another, and a process that ends at any point    *)
(* -- between two blocks of format, of a copy or of the destructor --      *)
(* leaves the saved files it has not removed, each complete.               *)
Store == INSTANCE FileStore
           WITH files <- FilesOf(inodes), saved <- FilesOf(table),
                unsaved <- Unsaved,
                closed <- phase = "exit" /\ offset = inodeBlocks
ImplementsStore == Store!Spec

(* note2.txt:11: inode blocks "are written back to disk (if dirty) upon    *)
(* exiting the program": after exit the disk has what the user left, the   *)
(* removals too.  A removal alone is not written.                          *)
ExitSavesRemovals ==
  phase = "exit" /\ offset = inodeBlocks =>
    \A i \in DOMAIN inodes : ~Live(inodes, i) => ~Live(table, i)
=============================================================================
