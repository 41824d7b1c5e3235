----------------------------- MODULE Connection -----------------------------
(***************************************************************************)
(* Client connections: RedisServer.handle_client and authenticate.  Each   *)
(* connection has a handler: it reads, feeds the parser, runs the complete *)
(* commands one after the other, and reads again, until the client, a      *)
(* timeout, an error or too many failed AUTHs end it.                      *)
(*                                                                         *)
(* What the parser holds is abstracted to whether a frame is incomplete.   *)
(* Timers of asyncio.wait_for fire when they are due; commands take time.  *)
(***************************************************************************)
EXTENDS Integers, FiniteSets

CONSTANTS Conn,             \* connections clients open
          MaxClients,       \* max_clients
          MaxAuthFailures,  \* max_auth_failures
          IdleTimeout,      \* client_idle_timeout_sec
          PartialTimeout,   \* partial_timeout_sec
          Batch,            \* bound of the model: commands in one read
          MaxTime           \* bound of the model: seconds

ASSUME ConnectionAssumption ==
  /\ MaxClients \in Nat \ {0}
  /\ MaxAuthFailures \in Nat \ {0}
  /\ IdleTimeout \in Nat \ {0}
  /\ PartialTimeout \in Nat \ {0}
  /\ Batch \in Nat \ {0}
  /\ MaxTime \in Nat

None == -1

VARIABLES
  now,            \* time.monotonic()
  handler,        \* where the handler of each connection is
  count,          \* _client_count
  todo,           \* commands of the current batch that are still to run
  deadline,       \* when the current read times out
  partial_since,  \* partial_since; None
  frame_since,    \* when the incomplete frame began to arrive; None: none
  read_since,     \* when the current read began
  authenticated,  \* _authenticated_connections
  failures,       \* _authentication_failures
  rejected        \* failed AUTHs a client saw since its last good one

timers == <<deadline, partial_since, frame_since, read_since>>
auth == <<authenticated, failures, rejected>>
vars == <<now, handler, count, todo, timers, auth>>

Serving == {"top", "read", "run", "replica"}
Counted == Serving \cup {"finally", "wait_closed"}

TypeOK ==
  /\ now \in 0..MaxTime
  /\ handler \in [Conn -> Counted \cup {"new", "refused", "closed"}]
  /\ count \in Int
  /\ todo \in [Conn -> 0..Batch]
  /\ deadline \in [Conn -> Int]
  /\ partial_since \in [Conn -> None..MaxTime]
  /\ frame_since \in [Conn -> None..MaxTime]
  /\ read_since \in [Conn -> 0..MaxTime]
  /\ authenticated \subseteq {c \in Conn : handler[c] \in Serving \cup {"finally"}}
  /\ failures \in [Conn -> Nat]
  /\ rejected \in [Conn -> Nat]

Init ==
  /\ now = 0
  /\ handler = [c \in Conn |-> "new"]
  /\ count = 0
  /\ todo = [c \in Conn |-> 0]
  /\ deadline = [c \in Conn |-> 0]
  /\ partial_since = [c \in Conn |-> None]
  /\ frame_since = [c \in Conn |-> None]
  /\ read_since = [c \in Conn |-> 0]
  /\ authenticated = {}
  /\ failures = [c \in Conn |-> 0]
  /\ rejected = [c \in Conn |-> 0]

goto(c, place) == handler' = [handler EXCEPT ![c] = place]

\* Time passes while no handler can run: not past a timer that is due.
Tick ==
  /\ now < MaxTime
  /\ \A c \in Conn : /\ handler[c] # "top"
                     /\ handler[c] = "read" => now < deadline[c]
  /\ now' = now + 1
  /\ UNCHANGED <<handler, count, todo, timers, auth>>

\* A connection over the limit gets an error and is closed.
Refuse(c) ==
  /\ handler[c] = "new"
  /\ count >= MaxClients
  /\ goto(c, "refused")
  /\ UNCHANGED <<now, count, todo, timers, auth>>

\* Bug: the limit admits one client more.
Accept_OffByOne(c) ==
  /\ handler[c] = "new"
  /\ count <= MaxClients
  /\ goto(c, "top")
  /\ count' = count + 1
  /\ UNCHANGED <<now, todo, timers, auth>>

Accept(c) ==
  /\ handler[c] = "new"
  /\ count < MaxClients
  /\ goto(c, "top")
  /\ count' = count + 1
  /\ UNCHANGED <<now, todo, timers, auth>>

\* Bug: the partial timeout starts anew with every read.
remaining_Restarts(c) == PartialTimeout

\* What is left of the partial timeout.
remaining(c) == PartialTimeout - (now - partial_since[c])

\* The head of the loop: the timeout of the next read, or an overdue frame.
LoopTop(c) ==
  /\ handler[c] = "top"
  /\ LET partial == frame_since[c] # None /\ partial_since[c] # None
         due == now + (IF partial /\ remaining(c) < IdleTimeout
                       THEN remaining(c) ELSE IdleTimeout)
     IN  IF partial /\ remaining(c) <= 0
         THEN goto(c, "finally") /\ UNCHANGED <<deadline, read_since>>
         ELSE /\ goto(c, "read")
              /\ deadline' = [deadline EXCEPT ![c] = due]
              /\ read_since' = [read_since EXCEPT ![c] = now]
  /\ UNCHANGED <<now, count, todo, partial_since, frame_since, auth>>

\* A read returns data: n commands become complete, and the data ends within
\* a frame or not.
Receive(c, n, incomplete) ==
  /\ handler[c] = "read"
  /\ n = 0 => incomplete
  /\ todo' = [todo EXCEPT ![c] = n]
  /\ frame_since' = [frame_since EXCEPT
       ![c] = IF ~incomplete THEN None
              ELSE IF n = 0 /\ @ # None THEN @ ELSE now]
  /\ partial_since' = [partial_since EXCEPT
       ![c] = IF ~incomplete THEN None ELSE IF @ = None THEN now ELSE @]
  /\ goto(c, IF n = 0 THEN "top" ELSE "run")
  /\ UNCHANGED <<now, count, deadline, read_since, auth>>

\* The read times out; or end of file, a protocol error, a lost connection.
ReadTimeout(c) ==
  /\ handler[c] = "read"
  /\ now >= deadline[c]
  /\ goto(c, "finally")
  /\ UNCHANGED <<now, count, todo, timers, auth>>

ClientGone(c) ==
  /\ handler[c] \in {"read", "run", "replica"}
  /\ goto(c, "finally")
  /\ UNCHANGED <<now, count, todo, timers, auth>>

\* A command of the batch has run; the last one ends the batch.
Ran(c) ==
  /\ handler[c] = "run"
  /\ todo' = [todo EXCEPT ![c] = @ - 1]

NextCommand(c) == goto(c, IF todo[c] = 1 THEN "top" ELSE "run")

\* A command other than AUTH and PSYNC, or one that is refused (NOAUTH, a bad
\* argument): the reply is sent.  On a replica PSYNC is such a command, with no
\* reply: handle_psync runs full_resync, and the handler goes on serving.
Command(c) ==
  /\ Ran(c)
  /\ NextCommand(c)
  /\ UNCHANGED <<now, count, timers, auth>>

\* AUTH with the password.
AuthSucceeds(c) ==
  /\ Ran(c)
  /\ authenticated' = authenticated \cup {c}
  /\ failures' = [failures EXCEPT ![c] = 0]
  /\ rejected' = [rejected EXCEPT ![c] = 0]
  /\ NextCommand(c)
  /\ UNCHANGED <<now, count, timers>>

\* Bug: the failures are looked at when the batch is done.
AuthFails_AfterBatch(c) ==
  /\ Ran(c)
  /\ failures' = [failures EXCEPT ![c] = @ + 1]
  /\ rejected' = [rejected EXCEPT ![c] = @ + 1]
  /\ IF todo[c] = 1 /\ failures[c] + 1 >= MaxAuthFailures
     THEN goto(c, "finally")
     ELSE NextCommand(c)
  /\ UNCHANGED <<now, count, timers, authenticated>>

\* AUTH with another password; the connection ends at the limit.
AuthFails(c) ==
  /\ Ran(c)
  /\ failures' = [failures EXCEPT ![c] = @ + 1]
  /\ rejected' = [rejected EXCEPT ![c] = @ + 1]
  /\ IF failures[c] + 1 >= MaxAuthFailures
     THEN goto(c, "finally")
     ELSE NextCommand(c)
  /\ UNCHANGED <<now, count, timers, authenticated>>

\* PSYNC at a master: full_resync, then _hold_replica_connection, which has no timeout;
\* a failed full_resync ends the handler (ClientGone).
Psync(c) ==
  /\ Ran(c)
  /\ goto(c, "replica")
  /\ UNCHANGED <<now, count, timers, auth>>

\* Bug: the authentication outlives the connection.
Cleanup_KeepsAuth(c) ==
  /\ handler[c] = "finally"
  /\ goto(c, "wait_closed")
  /\ failures' = [failures EXCEPT ![c] = 0]
  /\ UNCHANGED <<now, count, todo, timers, authenticated, rejected>>

\* finally: the tables forget the connection and the transport is closed ...
Cleanup(c) ==
  /\ handler[c] = "finally"
  /\ goto(c, "wait_closed")
  /\ authenticated' = authenticated \ {c}
  /\ failures' = [failures EXCEPT ![c] = 0]
  /\ UNCHANGED <<now, count, todo, timers, rejected>>

\* ... and after wait_closed the slot is given back.
Finish(c) ==
  /\ handler[c] = "wait_closed"
  /\ goto(c, "closed")
  /\ count' = count - 1
  /\ UNCHANGED <<now, todo, timers, auth>>

Serve(c) ==
  \/ Refuse(c)
  \/ Accept(c)
  \/ LoopTop(c)
  \/ \E n \in 0..Batch, incomplete \in BOOLEAN : Receive(c, n, incomplete)
  \/ ReadTimeout(c)
  \/ ClientGone(c)
  \/ Command(c)
  \/ AuthSucceeds(c)
  \/ AuthFails(c)
  \/ Psync(c)
  \/ Cleanup(c)
  \/ Finish(c)

Next == Tick \/ \E c \in Conn : Serve(c)

Spec == Init /\ [][Next]_vars

-----------------------------------------------------------------------------

(* The server never serves more clients than max_clients, and a slot is    *)
(* held exactly by the handlers that were admitted and have not finished,  *)
(* whichever way they end.                                                 *)
SlotsAreExact ==
  /\ count = Cardinality({c \in Conn : handler[c] \in Counted})
  /\ count <= MaxClients

(* A handler never waits for the rest of a frame longer than the partial   *)
(* timeout, however slowly the bytes arrive, nor for data longer than the  *)
(* idle timeout.                                                           *)
WaitsAreBounded ==
  \A c \in Conn :
    handler[c] = "read" =>
      /\ now - read_since[c] <= IdleTimeout
      /\ frame_since[c] # None => now - frame_since[c] <= PartialTimeout

(* A client gets at most max_auth_failures wrong answers in a row before   *)
(* its connection ends, also when it sends them in one batch.              *)
GuessesAreBounded == \A c \in Conn : rejected[c] <= MaxAuthFailures

=============================================================================
