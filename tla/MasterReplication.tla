------------------------- MODULE MasterReplication -------------------------
(***************************************************************************)
(* The master side of replication: MasterReplication in                    *)
(* byo_redis/replication/master.py, driven by the write path of            *)
(* RedisServer._execute_inner and by the PSYNC branch of                   *)
(* RedisServer.handle_client in byo_redis/server.py.                       *)
(*                                                                         *)
(* One event loop runs every coroutine, so a step of the model is what     *)
(* runs between two points where a coroutine really suspends: an AOF       *)
(* append, the RDB encoding thread, a transport drain, a queue get.        *)
(*                                                                         *)
(* Effects.  A write command and the DEL of each key it evicts are the     *)
(* EFFECTS 1, 2, 3, ... in the order in which they change the store.  A    *)
(* store is the number of effects it contains, a command on a stream is    *)
(* the number of its effect, and an RDB is the number of effects in the    *)
(* snapshot.  Payload sizes are all one unit.                              *)
(***************************************************************************)
EXTENDS Naturals, Sequences

CONSTANTS Conn,        \* replica connections; a conn_id is never used twice
          BacklogMax,  \* backlog_max_bytes, in payloads
          PendingMax,  \* pending_max_commands
          MaxEffects,  \* bound of the model: effects in a behaviour
          MaxEvict     \* bound of the model: keys evicted by one write

ASSUME BoundsAssumption ==
  /\ BacklogMax \in Nat \ {0}
  /\ PendingMax \in Nat \ {0}
  /\ MaxEffects \in Nat
  /\ MaxEvict \in Nat

VARIABLES
  applied,     \* effects the store contains
  propagated,  \* the last effect handed to propagate
  locked,      \* a write holds _write_lock (the resync's snapshot_lock)
  healthy,     \* AOFLog.healthy
  offset,      \* MasterReplication.offset
  replicas,    \* keys of MasterReplication.replicas
  state,       \* ReplicaLink.state, "none" before there is a link
  alive,       \* ReplicaLink.alive
  backlog,     \* ReplicaLink.backlog
  pending,     \* _DRAIN items in ReplicaLink._pending
  linkOffset,  \* ReplicaLink.offset
  drain,       \* where _replica_writer_loop of the link is
  unregs,      \* connections with a spawned unregister task
  pc,          \* where full_resync and the handler around it are
  snap,        \* full_resync's entries
  snapOffset,  \* full_resync's snapshot_offset
  sent,        \* what was written to the transport: the RDB, then commands
  open         \* the TCP connection is up

storeVars  == <<applied, propagated, locked, healthy>>
linkVars   == <<state, alive, backlog, pending, linkOffset, drain>>
resyncVars == <<pc, snap, snapOffset>>
vars == <<storeVars, offset, replicas, linkVars, unregs, resyncVars, sent, open>>

TypeOK ==
  /\ applied \in Nat
  /\ propagated \in Nat
  /\ locked \in BOOLEAN
  /\ healthy \in BOOLEAN
  /\ offset \in Nat
  /\ replicas \in SUBSET Conn
  /\ state \in [Conn -> {"none", "syncing", "live"}]
  /\ alive \in [Conn -> BOOLEAN]
  /\ backlog \in [Conn -> Seq(Nat)]
  /\ pending \in [Conn -> Nat]
  /\ linkOffset \in [Conn -> Nat]
  /\ drain \in [Conn -> {"none", "waiting", "draining", "done"}]
  /\ unregs \in SUBSET Conn
  /\ pc \in [Conn -> {"none", "encoding", "draining", "held", "closed"}]
  /\ snap \in [Conn -> Nat]
  /\ snapOffset \in [Conn -> Nat]
  /\ sent \in [Conn -> Seq(Nat)]
  /\ open \in [Conn -> BOOLEAN]

Init ==
  /\ applied = 0 /\ propagated = 0 /\ locked = FALSE /\ healthy = TRUE
  /\ offset = 0
  /\ replicas = {}
  /\ state = [c \in Conn |-> "none"]
  /\ alive = [c \in Conn |-> FALSE]
  /\ backlog = [c \in Conn |-> <<>>]
  /\ pending = [c \in Conn |-> 0]
  /\ linkOffset = [c \in Conn |-> 0]
  /\ drain = [c \in Conn |-> "none"]
  /\ unregs = {}
  /\ pc = [c \in Conn |-> "none"]
  /\ snap = [c \in Conn |-> 0]
  /\ snapOffset = [c \in Conn |-> 0]
  /\ sent = [c \in Conn |-> <<>>]
  /\ open = [c \in Conn |-> TRUE]

-----------------------------------------------------------------------------
(* propagate and unregister                                                *)

\* Bug: the backlog bound is tested before the payload is counted.
Overflows_OffByOne(c) ==
  \/ state[c] = "syncing" /\ Len(backlog[c]) > BacklogMax
  \/ state[c] = "live" /\ pending[c] >= PendingMax

\* The bound that makes propagate give a link up.
Overflows(c) ==
  \/ state[c] = "syncing" /\ Len(backlog[c]) + 1 > BacklogMax
  \/ state[c] = "live" /\ pending[c] >= PendingMax

\* Bug: propagate does not test link.alive.
Takes_NotAlive(c, raises) == c \in replicas /\ ~Overflows(c) /\ c \notin raises

\* The link takes the payload: into its backlog while syncing, onto its
\* transport once live.  A registered link that does not is given up.
Takes(c, raises) ==
  c \in replicas /\ alive[c] /\ ~Overflows(c) /\ c \notin raises

\* propagate's loop over the registered links, for effect n, when writing to
\* the links in raises raises.
PropagateTo(n, raises) ==
  /\ offset' = IF replicas = {} THEN offset ELSE offset + 1
  /\ alive' = [c \in Conn |-> IF c \in replicas THEN Takes(c, raises) ELSE alive[c]]
  /\ backlog' = [c \in Conn |-> IF Takes(c, raises) /\ state[c] = "syncing"
                                THEN Append(backlog[c], n) ELSE backlog[c]]
  /\ sent' = [c \in Conn |-> IF Takes(c, raises) /\ state[c] = "live"
                             THEN Append(sent[c], n) ELSE sent[c]]
  /\ pending' = [c \in Conn |-> IF Takes(c, raises) /\ state[c] = "live"
                                THEN pending[c] + 1 ELSE pending[c]]
  /\ linkOffset' = [c \in Conn |-> IF Takes(c, raises) THEN offset + 1
                                                       ELSE linkOffset[c]]
  /\ unregs' = unregs \cup {c \in replicas : ~Takes(c, raises)}
  /\ UNCHANGED <<replicas, state, drain, resyncVars, open>>

\* propagate(n): a write to a lost transport may raise.
propagate(n) ==
  \E raises \in SUBSET {c \in replicas : state[c] = "live" /\ ~open[c]} :
    PropagateTo(n, raises)

\* unregister(conn_id): the link leaves the table and its drain task ends.
\* The transport is left as it is.
unregister(c) ==
  /\ replicas' = replicas \ {c}
  /\ alive' = [alive EXCEPT ![c] = @ /\ c \notin replicas]
  /\ drain' = [drain EXCEPT ![c] = IF c \in replicas /\ @ # "none"
                                   THEN "done" ELSE @]
  /\ UNCHANGED <<state, backlog, pending, linkOffset>>

-----------------------------------------------------------------------------
(* The write path: _execute_inner under _write_lock                        *)

\* A write command takes the lock, finds the AOF healthy, changes the store
\* (evicting e keys) and suspends in aof.append.
Write(e) ==
  /\ ~locked
  /\ healthy
  /\ applied + 1 + e <= MaxEffects
  /\ applied' = applied + 1 + e
  /\ locked' = TRUE
  /\ UNCHANGED <<propagated, healthy, offset, replicas, linkVars, unregs,
                 resyncVars, sent, open>>

\* aof.append of the next effect succeeds: it is propagated, and the next
\* append begins, raising at once when the AOF became unhealthy meanwhile.
Appended ==
  /\ locked
  /\ propagated' = propagated + 1
  /\ propagate(propagated + 1)
  /\ locked' = (healthy /\ propagated + 1 < applied)
  /\ UNCHANGED <<applied, healthy>>

\* Bug: the failure of the append is not remembered.
AppendFails_Forgotten ==
  /\ locked
  /\ locked' = FALSE
  /\ UNCHANGED <<applied, propagated, healthy, offset, replicas, linkVars, unregs,
                 resyncVars, sent, open>>

\* Bug: the effect is propagated although its append failed.
AppendFails_Propagated ==
  /\ locked
  /\ healthy' = FALSE
  /\ locked' = FALSE
  /\ propagate(propagated + 1)
  /\ UNCHANGED <<applied, propagated>>

\* aof.append raises: the command answers MISCONF, its effects stay in the
\* store and are not propagated, and every later write is refused.
AppendFails ==
  /\ locked
  /\ healthy' = FALSE
  /\ locked' = FALSE
  /\ UNCHANGED <<applied, propagated, offset, replicas, linkVars, unregs,
                 resyncVars, sent, open>>

\* The everysec fsync loop fails.
FsyncLoopFails ==
  /\ healthy
  /\ healthy' = FALSE
  /\ UNCHANGED <<applied, propagated, locked, offset, replicas, linkVars,
                 unregs, resyncVars, sent, open>>

-----------------------------------------------------------------------------
(* full_resync, and the connection handler around it                       *)

\* Bug: the snapshot is not taken under the write lock.
Register_NoLock(c) ==
  /\ pc[c] = "none"
  /\ open[c]
  /\ replicas' = replicas \cup {c}
  /\ state' = [state EXCEPT ![c] = "syncing"]
  /\ alive' = [alive EXCEPT ![c] = TRUE]
  /\ linkOffset' = [linkOffset EXCEPT ![c] = offset]
  /\ snap' = [snap EXCEPT ![c] = applied]
  /\ snapOffset' = [snapOffset EXCEPT ![c] = offset]
  /\ pc' = [pc EXCEPT ![c] = "encoding"]
  /\ UNCHANGED <<storeVars, offset, backlog, pending, drain, unregs, sent, open>>

\* Bug: the new ReplicaLink keeps the default offset.
Register_NoOffset(c) ==
  /\ pc[c] = "none"
  /\ open[c]
  /\ ~locked
  /\ replicas' = replicas \cup {c}
  /\ state' = [state EXCEPT ![c] = "syncing"]
  /\ alive' = [alive EXCEPT ![c] = TRUE]
  /\ snap' = [snap EXCEPT ![c] = applied]
  /\ snapOffset' = [snapOffset EXCEPT ![c] = offset]
  /\ pc' = [pc EXCEPT ![c] = "encoding"]
  /\ UNCHANGED <<storeVars, offset, backlog, pending, linkOffset, drain, unregs,
                 sent, open>>

\* PSYNC: with the write lock free, register_syncing and the snapshot are
\* one step; the RDB is then encoded on a thread.
Register(c) ==
  /\ pc[c] = "none"
  /\ open[c]
  /\ ~locked
  /\ replicas' = replicas \cup {c}
  /\ state' = [state EXCEPT ![c] = "syncing"]
  /\ alive' = [alive EXCEPT ![c] = TRUE]
  /\ linkOffset' = [linkOffset EXCEPT ![c] = offset]
  /\ snap' = [snap EXCEPT ![c] = applied]
  /\ snapOffset' = [snapOffset EXCEPT ![c] = offset]
  /\ pc' = [pc EXCEPT ![c] = "encoding"]
  /\ UNCHANGED <<storeVars, offset, backlog, pending, drain, unregs, sent, open>>

\* The RDB is encoded and written; drain.
SendSnapshot(c) ==
  /\ pc[c] = "encoding"
  /\ sent' = [sent EXCEPT ![c] = <<snap[c]>>]
  /\ pc' = [pc EXCEPT ![c] = "draining"]
  /\ UNCHANGED <<storeVars, offset, replicas, linkVars, unregs, snap,
                 snapOffset, open>>

\* The encoding raises (an expiry that struct.pack does not take): the link is
\* unregistered, and the handler answers "PSYNC failed", which is no stream,
\* and closes the connection.
EncodeFails(c) ==
  /\ pc[c] = "encoding"
  /\ unregister(c)
  /\ pc' = [pc EXCEPT ![c] = "closed"]
  /\ open' = [open EXCEPT ![c] = FALSE]
  /\ UNCHANGED <<storeVars, offset, unregs, snap, snapOffset, sent>>

\* Bug: the batch is copied and the backlog is not cleared.
FlushBatch_NotCleared(c) ==
  /\ pc[c] = "draining"
  /\ backlog[c] # <<>>
  /\ Len(sent[c]) <= MaxEffects
  /\ sent' = [sent EXCEPT ![c] = @ \o backlog[c]]
  /\ UNCHANGED <<storeVars, offset, replicas, linkVars, unregs, resyncVars, open>>

\* Flush-until-empty: the backlog is taken and written as one batch; drain.
FlushBatch(c) ==
  /\ pc[c] = "draining"
  /\ backlog[c] # <<>>
  /\ sent' = [sent EXCEPT ![c] = @ \o backlog[c]]
  /\ backlog' = [backlog EXCEPT ![c] = <<>>]
  /\ UNCHANGED <<storeVars, offset, replicas, state, alive, pending,
                 linkOffset, drain, unregs, resyncVars, open>>

\* Bug: one flush, then live, whatever arrived during the drain.
GoLive_Premature(c) ==
  /\ pc[c] = "draining"
  /\ state' = [state EXCEPT ![c] = "live"]
  /\ linkOffset' = [linkOffset EXCEPT ![c] = offset]
  /\ drain' = [drain EXCEPT ![c] = IF alive[c] THEN "waiting" ELSE "done"]
  /\ pc' = [pc EXCEPT ![c] = "held"]
  /\ UNCHANGED <<storeVars, offset, replicas, alive, backlog, pending, unregs,
                 snap, snapOffset, sent, open>>

\* Bug: a link given up during its resync never leaves the flush loop.
GoLive_OnlyAlive(c) ==
  /\ pc[c] = "draining"
  /\ backlog[c] = <<>>
  /\ alive[c]
  /\ state' = [state EXCEPT ![c] = "live"]
  /\ linkOffset' = [linkOffset EXCEPT ![c] = offset]
  /\ drain' = [drain EXCEPT ![c] = "waiting"]
  /\ pc' = [pc EXCEPT ![c] = "held"]
  /\ UNCHANGED <<storeVars, offset, replicas, alive, backlog, pending, unregs,
                 snap, snapOffset, sent, open>>

\* The backlog is empty: the link goes live, its drain task starts (and ends
\* at its first test when the link is already given up), and the handler
\* holds the connection.
GoLive(c) ==
  /\ pc[c] = "draining"
  /\ backlog[c] = <<>>
  /\ state' = [state EXCEPT ![c] = "live"]
  /\ linkOffset' = [linkOffset EXCEPT ![c] = offset]
  /\ drain' = [drain EXCEPT ![c] = IF alive[c] THEN "waiting" ELSE "done"]
  /\ pc' = [pc EXCEPT ![c] = "held"]
  /\ UNCHANGED <<storeVars, offset, replicas, alive, backlog, pending, unregs,
                 snap, snapOffset, sent, open>>

\* drain raises on a lost connection, or the held connection reaches end of
\* file: the link is unregistered and the handler returns.
HandlerExit(c) ==
  /\ pc[c] \in {"draining", "held"}
  /\ ~open[c]
  /\ unregister(c)
  /\ pc' = [pc EXCEPT ![c] = "closed"]
  /\ UNCHANGED <<storeVars, offset, unregs, snap, snapOffset, sent, open>>

-----------------------------------------------------------------------------
(* Background tasks of a link                                              *)

\* A task spawned by propagate or by the drain loop.
UnregisterTask(c) ==
  /\ c \in unregs
  /\ unregs' = unregs \ {c}
  /\ unregister(c)
  /\ UNCHANGED <<storeVars, offset, resyncVars, sent, open>>

\* _replica_writer_loop gets a _DRAIN and awaits writer.drain().
DrainGet(c) ==
  /\ drain[c] = "waiting"
  /\ pending[c] > 0
  /\ pending' = [pending EXCEPT ![c] = @ - 1]
  /\ drain' = [drain EXCEPT ![c] = "draining"]
  /\ UNCHANGED <<storeVars, offset, replicas, state, alive, backlog,
                 linkOffset, unregs, resyncVars, sent, open>>

\* writer.drain() returns, and the loop tests link.alive.
DrainDone(c) ==
  /\ drain[c] = "draining"
  /\ drain' = [drain EXCEPT ![c] = IF alive[c] THEN "waiting" ELSE "done"]
  /\ UNCHANGED <<storeVars, offset, replicas, state, alive, backlog, pending,
                 linkOffset, unregs, resyncVars, sent, open>>

\* Bug: the drain loop marks the link and spawns no unregister task.
DrainFails_NotReaped(c) ==
  /\ drain[c] = "draining"
  /\ ~open[c]
  /\ alive' = [alive EXCEPT ![c] = FALSE]
  /\ drain' = [drain EXCEPT ![c] = "done"]
  /\ UNCHANGED <<storeVars, offset, replicas, state, backlog, pending,
                 linkOffset, unregs, resyncVars, sent, open>>

\* writer.drain() raises: the link is given up.
DrainFails(c) ==
  /\ drain[c] = "draining"
  /\ ~open[c]
  /\ alive' = [alive EXCEPT ![c] = FALSE]
  /\ unregs' = unregs \cup {c}
  /\ drain' = [drain EXCEPT ![c] = "done"]
  /\ UNCHANGED <<storeVars, offset, replicas, state, backlog, pending,
                 linkOffset, resyncVars, sent, open>>

\* The peer closes the connection, or the network loses it.
ConnectionLost(c) ==
  /\ open[c]
  /\ open' = [open EXCEPT ![c] = FALSE]
  /\ UNCHANGED <<storeVars, offset, replicas, linkVars, unregs, resyncVars, sent>>

-----------------------------------------------------------------------------
Writes == (\E e \in 0..MaxEvict : Write(e)) \/ Appended \/ AppendFails
            \/ FsyncLoopFails

Resync(c) == Register(c) \/ SendSnapshot(c) \/ EncodeFails(c)
               \/ FlushBatch(c) \/ GoLive(c) \/ HandlerExit(c)

Background(c) == UnregisterTask(c) \/ DrainGet(c) \/ DrainDone(c)
                   \/ DrainFails(c)

Next == Writes \/ \E c \in Conn : Resync(c) \/ Background(c) \/ ConnectionLost(c)

Spec == Init /\ [][Next]_vars

\* An append, a drain and a spawned task finish; a coroutine that can run does.
Fairness ==
  /\ WF_vars(Appended \/ AppendFails)
  /\ \A c \in Conn :
       /\ WF_vars(SendSnapshot(c) \/ EncodeFails(c))
       /\ WF_vars(FlushBatch(c) \/ GoLive(c) \/ HandlerExit(c))
       /\ WF_vars(UnregisterTask(c))
       /\ WF_vars(DrainGet(c))
       /\ WF_vars(DrainDone(c) \/ DrainFails(c))

FairSpec == Spec /\ Fairness

-----------------------------------------------------------------------------
(* What the master promises                                                *)

\* s is first, first + 1, first + 2, ...
Consecutive(s, first) == \A i \in 1..Len(s) : s[i] = first + i - 1

\* The last effect on a link's transport (before the RDB is there: in the RDB),
\* and the last one the link holds, on its transport or in its backlog.
OnTransport(c) == IF sent[c] = <<>> THEN snap[c] ELSE snap[c] + Len(sent[c]) - 1

Reach(c) == OnTransport(c) + Len(backlog[c])

\* Every byte stream is the snapshot followed by the effects after it, one by
\* one: whatever full_resync's flush loop and propagate interleave, nothing on
\* the transport is lost, duplicated or out of order.
StreamInOrder == \A c \in Conn : Consecutive(sent[c], snap[c])

\* A registered link that was not given up holds every propagated effect: the
\* snapshot taken under the write lock and the backlog registered with it
\* leave no gap and no overlap.  (After an AOF failure a new link may start
\* from a snapshot with effects that are never propagated.)
NothingMissed ==
  \A c \in replicas :
    alive[c] => \/ Reach(c) = propagated
                \/ ~healthy /\ Reach(c) = applied

\* full_resync marks a link live only with nothing left in its backlog, and
\* propagate never adds to the backlog of a live link: no command is stranded.
NothingStranded ==
  \A c \in Conn : state[c] = "live" => backlog[c] = <<>>

\* The replication offset announced with FULLRESYNC plus the commands shipped
\* since is the link's offset, and the link's offset is the master's.
OffsetsAgree ==
  \A c \in replicas :
    alive[c] => /\ linkOffset[c] = offset
                /\ offset = snapOffset[c] + (Reach(c) - snap[c])

\* A slow replica costs the master at most BacklogMax payloads while syncing
\* and PendingMax drain requests once live.
BuffersBounded ==
  \A c \in Conn : Len(backlog[c]) <= BacklogMax /\ pending[c] <= PendingMax

\* A link that was given up never stays in the table without an unregister
\* task on its way (propagate would skip it forever).
GivenUpIsReaped ==
  \A c \in replicas : alive[c] \/ c \in unregs

\* Once given up, a held connection is never written to again: it would
\* receive commands after a gap.
GivenUpStaysSilent ==
  [][\A c \in Conn : pc[c] = "held" /\ ~alive[c] => sent'[c] = sent[c]]_vars

\* Once the writes cease, full_resync ends, live or closed, also for a link that
\* was given up meanwhile.  (While every drain finds a new write in the backlog
\* the flush loop goes on: nothing bounds its rounds.)
ResyncEnds ==
  <>[]~locked =>
    \A c \in Conn : pc[c] \in {"encoding", "draining"} ~> pc[c] \in {"held", "closed"}

\* "Replica %d backlog exceeded ...; disconnecting" (propagate's log message): a
\* connection that was given up is disconnected.
GivenUpIsDisconnected ==
  \A c \in Conn : pc[c] = "held" /\ ~alive[c] ~> ~open[c]

-----------------------------------------------------------------------------
(* The inductive invariant from which the invariants above follow           *)

\* The write path: effects not yet propagated exist only under the lock, or
\* after an AOF failure.
WriteInv ==
  /\ propagated <= applied
  /\ locked => propagated < applied
  /\ ~locked /\ healthy => propagated = applied

\* The phases of full_resync and of the link agree.
PhaseInv(c) ==
  /\ pc[c] = "none" => /\ c \notin replicas /\ state[c] = "none"
                       /\ backlog[c] = <<>> /\ pending[c] = 0
                       /\ drain[c] = "none"
  /\ pc[c] \in {"encoding", "draining"} => state[c] = "syncing"
  /\ pc[c] = "held" => state[c] = "live"
  /\ pc[c] = "closed" => c \notin replicas
  /\ state[c] = "live" => pc[c] \in {"held", "closed"} /\ backlog[c] = <<>>
  /\ drain[c] \in {"waiting", "draining"} => state[c] = "live"
  /\ pc[c] \in {"none", "encoding"} => sent[c] = <<>>
  /\ pc[c] \in {"draining", "held"} => sent[c] # <<>>
  /\ alive[c] => c \in replicas

\* The backlog continues where the transport ends.
OrderInv(c) ==
  /\ Consecutive(sent[c], snap[c])
  /\ Consecutive(backlog[c], OnTransport(c) + 1)

\* A link that is not given up keeps up with the write path.
KeepsUpInv(c) ==
  alive[c] => /\ \/ Reach(c) = propagated
                 \/ ~healthy /\ ~locked /\ Reach(c) = applied
              /\ linkOffset[c] = offset
              /\ offset = snapOffset[c] + (Reach(c) - snap[c])

LinkInv(c) ==
  /\ PhaseInv(c)
  /\ OrderInv(c)
  /\ KeepsUpInv(c)
  /\ Len(backlog[c]) <= BacklogMax
  /\ pending[c] <= PendingMax
  /\ c \in replicas => alive[c] \/ c \in unregs

\* Write path, link phases, stream order, keeping up, bounds and reaping, which
\* support each other: inductive.
IInv == TypeOK /\ WriteInv /\ \A c \in Conn : LinkInv(c)

\* What a connection carries: a snapshot of the store and, on the transport and
\* in the backlog behind it, only propagated effects.
CarriesInv(c) ==
  /\ snap[c] <= applied
  /\ \A i \in 2..Len(sent[c]) : sent[c][i] <= propagated
  /\ \A i \in 1..Len(backlog[c]) : backlog[c][i] <= propagated

-----------------------------------------------------------------------------
(* The refinement mapping to LogShipping                                   *)

\* A link's feed is what is on its transport and, behind it, its backlog.
FeedOf(c) ==
  IF pc[c] = "none" THEN <<>>
  ELSE (IF sent[c] = <<>> THEN <<snap[c]>> ELSE sent[c]) \o backlog[c]

CutOff == {c \in Conn : pc[c] # "none" /\ ~alive[c]}

Shipping == INSTANCE LogShipping
              WITH log <- applied, shipped <- propagated,
                   feed <- [c \in Conn |-> FeedOf(c)],
                   cut <- CutOff, closed <- ~healthy /\ ~locked

\* The master implements LogShipping: registration with its snapshot, backlog,
\* flushing, the live transition, overflow and disconnection together give
\* every connection a snapshot and then each later effect once, in order, until
\* it is cut off.
ImplementsLogShipping == Shipping!Spec

=============================================================================
