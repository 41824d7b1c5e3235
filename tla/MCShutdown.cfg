SPECIFICATION ShutdownFairSpec

CONSTANTS
  a = a
  b = b
  Caller = {a, b}
  QueueMax = 1
  Configs <- EveryConfig
  Uses <- EveryUse
  MaxCommands = 4

CHECK_DEADLOCK FALSE

INVARIANTS
  TypeOK
  ReplayIsHistory
  AckedInFile
  CleanMeansDurable
  LogOutlivesClients

PROPERTIES
  DurableStays
  AppendEnds
  StopEnds
  EventuallyDurable
