------------------------------ MODULE Startup ------------------------------
(***************************************************************************)
(* The files of a server and its next start.  A server without an AOF      *)
(* lives from its dump (RdbFile), one with an AOF from the log (AofFile):  *)
(* _load_persistence of RedisServer decides which of them is loaded.       *)
(***************************************************************************)
EXTENDS RdbFile, AofFile

VARIABLE aof_enabled  \* the configuration: never changes

startupVars == <<rdbVars, aofVars, aof_enabled>>

StartupInit == RdbInit /\ AofInit /\ aof_enabled \in BOOLEAN

\* Dumps are saved, the process may be killed; no log.
WithoutAof ==
  /\ ~aof_enabled
  /\ WriteCommand \/ \E s \in Saver : Saves(s)
  /\ UNCHANGED <<aofVars, aof_enabled>>

\* Commands are logged; bound of the model: no dumps are saved.
WithAof ==
  /\ aof_enabled
  /\ Push \/ Rewrite \/ \E n \in 0..Len(Record(1)) : Crash(n)
  /\ UNCHANGED <<rdbVars, aof_enabled>>

\* start: a log that is not empty, else the dump, else nothing.
load_persistence ==
  /\ IF aof_enabled /\ aof # <<>>
     THEN LoadAof /\ UNCHANGED rdbVars
     ELSE Restart /\ serving' = TRUE /\ list' = <<>>
            /\ UNCHANGED <<aof, pushes, crashes, tail, widest>>
  /\ UNCHANGED aof_enabled

StartupNext == WithoutAof \/ WithAof \/ load_persistence

StartupSpec == StartupInit /\ [][StartupNext]_startupVars

=============================================================================
