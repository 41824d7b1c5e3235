------------------------------ MODULE Shutdown ------------------------------
(***************************************************************************)
(* RedisServer.stop, over AofLog: the callers of append are the handlers   *)
(* of client connections.  stop waits for a running rewrite, closes the    *)
(* listening socket, then the connections, waits for their handlers and    *)
(* closes the log; clients go on sending commands until they notice.       *)
(*                                                                         *)
(* asyncio creates a connection's transport some turns of the loop before  *)
(* its handler runs and registers itself.  From Python 3.12 on, wait_closed*)
(* of a server also waits until every transport is gone.                   *)
(***************************************************************************)
EXTENDS AofLog

CONSTANT Uses  \* configurations, with: whether stop is called (else only close,
               \* by a caller that has waited for every append), whether
               \* wait_closed waits, and a bound on the commands

ASSUME ShutdownAssumption ==
  Uses \subseteq [config : Configs, stops : BOOLEAN, waits : BOOLEAN,
                  commands : 0..MaxCommands]

VARIABLES
  use,      \* one of Uses: never changes
  conn,     \* each connection: its transport is made, it is served, has ended
  stop,     \* what stop waits for
  told,     \* connections whose writers stop has closed
  awaited,  \* handlers that stop waits for
  late      \* connections whose handler had not started when stop closed them

stopVars == <<use, conn, stop, told, awaited, late>>
allVars == <<vars, stopVars>>

Served == {c \in Caller : conn[c] = "served"}

ShutdownInit ==
  /\ Init
  /\ use \in Uses /\ use.config = config
  /\ conn = [c \in Caller |-> IF use.stops THEN "made" ELSE "served"]
  /\ stop = "no"
  /\ told = {} /\ awaited = {} /\ late = {}

-----------------------------------------------------------------------------
(* Handlers.                                                               *)

\* The handler starts, and registers its task and its writer.
Start(c) ==
  /\ conn[c] = "made"
  /\ conn' = [conn EXCEPT ![c] = "served"]
  /\ UNCHANGED <<vars, use, stop, told, awaited, late>>

\* The next command of a batch or of a read: a write.
Command(c) ==
  /\ conn[c] = "served"
  /\ use.stops \/ closing = "no"
  /\ issued < use.commands
  /\ append(c) \/ AppendClosed(c)
  /\ UNCHANGED stopVars

\* The client leaves, or times out; or the read returns what stop has closed.
End(c) ==
  /\ conn[c] = "served"
  /\ caller[c] = "idle"
  /\ conn' = [conn EXCEPT ![c] = "ended"]
  /\ UNCHANGED <<vars, use, stop, told, awaited, late>>

-----------------------------------------------------------------------------
(* stop                                                                    *)

\* The replica client and BGSAVE are cancelled; a running rewrite is awaited.
StopBegin ==
  /\ use.stops
  /\ stop = "no"
  /\ stop' = IF rewriter THEN "rewrite" ELSE "tasks"
  /\ UNCHANGED <<vars, use, conn, told, awaited, late>>

\* A rewrite ends, and with it the wait for it.
RewriteEnds ==
  /\ Rewrites
  /\ stop' = IF stop = "rewrite" THEN "tasks" ELSE stop
  /\ UNCHANGED <<use, conn, told, awaited, late>>

\* Bug: the handlers are not told to end.
CloseWriters_NotClosed ==
  /\ told' = {}
  /\ late' = {c \in Caller : conn[c] = "made"}
  /\ IF Served = {}
     THEN stop' = "clients" /\ awaited' = {}
     ELSE stop' = "writers" /\ UNCHANGED awaited

\* The writers of registered handlers are closed.  Without any, stop does not
\* pause before it looks for handlers to wait for.
CloseWriters ==
  /\ told' = Served
  /\ late' = {c \in Caller : conn[c] = "made"}
  /\ IF Served = {}
     THEN stop' = "clients" /\ awaited' = {}
     ELSE stop' = "writers" /\ UNCHANGED awaited

\* The background tasks are cancelled and the listening socket is closed; an
\* asyncio that waits for transports pauses.
CloseServer ==
  /\ stop = "tasks"
  /\ IF use.waits
     THEN stop' = "server" /\ UNCHANGED <<told, awaited, late>>
     ELSE CloseWriters
  /\ UNCHANGED <<vars, use, conn>>

\* wait_closed has waited for all transports.
ServerClosed ==
  /\ stop = "server"
  /\ \A c \in Caller : conn[c] = "ended"
  /\ CloseWriters
  /\ UNCHANGED <<vars, use, conn>>

\* The writers are closed: the handlers still registered are awaited.
WritersClosed ==
  /\ stop = "writers"
  /\ stop' = "clients"
  /\ awaited' = Served
  /\ UNCHANGED <<vars, use, conn, told, late>>

\* Bug: the log is closed without waiting for handlers.
ClientsDone_NoWait ==
  /\ stop = "clients"
  /\ stop' = "log"
  /\ CloseStart
  /\ UNCHANGED <<use, conn, told, awaited, late>>

\* Every awaited handler has ended: the log is closed.
ClientsDone ==
  /\ stop = "clients"
  /\ \A c \in awaited : conn[c] = "ended"
  /\ stop' = "log"
  /\ CloseStart
  /\ UNCHANGED <<use, conn, told, awaited, late>>

Handlers(c) ==
  \/ Start(c) \/ Command(c) \/ (use.stops /\ End(c))

Stops == CloseServer \/ ServerClosed \/ WritersClosed \/ ClientsDone

Log ==
  /\ \/ \E c \in Caller : Put(c) \/ PutTimeout(c)
     \/ WriterGet \/ Writes \/ SyncStart \/ Syncs \/ RewriteStart
     \/ (~use.stops /\ Quiet /\ CloseStart)
     \/ ClosePut \/ CloseFinish
  /\ UNCHANGED stopVars

ShutdownNext ==
  \/ \E c \in Caller : Handlers(c)
  \/ StopBegin \/ Stops
  \/ Log
  \/ RewriteEnds

ShutdownSpec == ShutdownInit /\ [][ShutdownNext]_allVars

\* Weak fairness of the log's steps, of the steps of stop, of handlers that are
\* to start and of those whose connection stop has closed.
ShutdownFairSpec ==
  /\ ShutdownSpec
  /\ Fairness
  /\ WF_allVars(Stops)
  /\ \A c \in Caller : WF_allVars(Start(c)) /\ WF_allVars(c \in told /\ End(c))

-----------------------------------------------------------------------------
\* The log is closed after the clients: when close begins, no handler runs a
\* command or could start one, except one that had not begun to run when stop
\* closed the connections.
LogOutlivesClients ==
  use.stops /\ closing # "no" => \A c \in Caller \ late : conn[c] = "ended"

\* stop ends, whatever clients are doing, except: the fsync loop fails at the
\* wrong moment (_fail_pending takes the order to stop out of the queue); a
\* connection comes in at the last moment (stop may wait for it, and did not close
\* it); asyncio waits for transports, and stop has not closed those of clients
\* that stay.  (Nor if the file cannot be opened again after a rewrite.)
StopEnds ==
  "reopen" \notin config.faults =>
    (((stop # "no" \/ closing # "no")
        /\ (use.waits => \A c \in Caller : conn[c] = "ended")) ~>
       \/ closing = "done"
       \/ failure /\ config.policy = "everysec"
       \/ late # {})

=============================================================================
