----------------------------- MODULE MCShutdown -----------------------------
(* AofLog and Shutdown on small instances: how the log is configured. *)
EXTENDS Shutdown

CONSTANTS a, b

Config(policy, locked, faults) ==
  [policy |-> policy, locked |-> locked, faults |-> faults]

\* Behind the server's write lock, with the faults it recovers from and with all;
\* and on its own, with concurrent callers.
LogConfigs ==
  {Config(policy, TRUE, {"write", "fsync", "replace"}) :
     policy \in {"always", "everysec", "no"}}
  \cup {Config("everysec", TRUE, {"write", "short", "fsync", "replace", "reopen"}),
        Config("always", FALSE, {"write", "fsync"})}

\* In a server that is stopped.
StopConfigs ==
  {Config("always", TRUE, {}), Config("everysec", TRUE, {"fsync"})}

EveryConfig == LogConfigs \cup StopConfigs

\* The log on its own with four commands, a server that is stopped with three.
EveryUse ==
  {[config |-> c, stops |-> FALSE, waits |-> FALSE, commands |-> 4] : c \in LogConfigs}
  \cup {[config |-> c, stops |-> TRUE, waits |-> w, commands |-> 3] :
          c \in StopConfigs, w \in BOOLEAN}

=============================================================================
