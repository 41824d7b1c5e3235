SPECIFICATION StartupSpec
CONSTANTS
  Saver = {"BGSAVE"}
  MaxVersion = 1
  MaxInode = 1
  Loader <- LoaderLimits
  Client <- ClientLimits
  MaxPushes = 3
  MaxCrashes = 2
CHECK_DEADLOCK FALSE
INVARIANTS
  NeverLoadsWrongState
