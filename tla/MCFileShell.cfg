SPECIFICATION Spec
CONSTANTS
  Blocks = 5
  FormatBlocks = 5
  InodeBlocks = 2
  INODES_PER_BLOCK = 2
  POINTERS_PER_INODE = 2
  Files = {"short", "long"}
  Length <- MCLength
INVARIANTS
  TypeOK
  NoCrossLink
  BitmapSound
  BitmapExact
  SizeMatchesBlocks
  FileIntact
PROPERTIES
  LiveBlocksKept
  ExitSavesFiles
  ImplementsStore
