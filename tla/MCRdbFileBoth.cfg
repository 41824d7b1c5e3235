SPECIFICATION RdbSpec
CONSTANTS
  Saver = {"SAVE", "BGSAVE"}
  MaxVersion = 4
  MaxInode = 4
CHECK_DEADLOCK FALSE
INVARIANTS
  DumpIsWhole
