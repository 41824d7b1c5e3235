SPECIFICATION StartupSpec
CONSTANTS
  Saver = {"SAVE", "BGSAVE"}
  MaxVersion = 3
  MaxInode = 3
  Loader <- LoaderLimits
  Client <- ClientLimits
  MaxPushes = 3
  MaxCrashes = 2
CHECK_DEADLOCK FALSE
INVARIANTS
  LoneDumpIsWhole
  TornTailIsHarmless
  ChunkingInvisible
PROPERTIES
  LoneSaveNotOlder
