# A TLA+ model of BYO-Redis

BYO-Redis (`byo_redis/`) is a Redis subset on one asyncio event loop: strings,
lists and hashes with TTLs and a memory limit, RDB dumps, an append-only file
(AOF), and master/replica replication. This directory holds TLA+ modules that
model its state-changing parts, TLC configurations that check them on small
instances, and proofs that TLAPS checks for every value of the constants.
`PROJECT.json` links every definition to the source lines it models.

## The system and its hard parts

| Part | State | Operations | What is hard |
|---|---|---|---|
| keyspace (`storage/`) | entries, their dictionary order, access clock | six write commands, reads, lazy and active expiry, eviction | a refused write must leave no trace; memory at the limit |
| write path (`server.py` `_execute_inner`) | write lock, AOF health | execute, evict or roll back, append, propagate, DELs of evicted keys | reads and expiry run between a write and its append; a failure after the store has changed |
| AOF log (`persistence/aof.py`) | queue, writer and fsync tasks, file, `_dirty`, `_failure` | append, write, fsync, rewrite, close | failures of one task seen by callers that wait for another; file swapped under the writer |
| recovery (`_load_persistence`, `replay_aof`, rewrite payload) | AOF, `dump.rdb` | restart, rewrite | relative TTLs, evictions repeated at replay, an empty AOF |
| AOF reader (`read_commands`) and RESP parser (`protocol/`) | bytes of the file or of a stream | parse, load, append after a crash | a crash at any byte; a torn record that stays in the file; reads that end anywhere; limits |
| RDB files (`persistence/rdb.py`, `_bgsave_worker`) | `dump.rdb`, `dump.rdb.tmp` | SAVE, BGSAVE, kill | two savers and one temporary file |
| master replication (`replication/master.py`) | links, backlogs, pending queues, offsets | `full_resync`, `propagate`, `unregister`, drain tasks | snapshot and stream must join without gap or overlap while writes go on; overflow |
| replica's keyspace (`_apply_replicated_command`, `load_entries`) | entries, AOF | load a snapshot, apply, expire, restart | the master's evictions and TTLs, the replica's own limit |
| replica client (`replication/replica.py`) | session phase, parser buffer | handshake, RDB bulk, command stream, reconnect | chunks of the stream end anywhere |
| connections (`handle_client`) | slots, timers, AUTH failures | accept, read, run a batch, time out, clean up | several ways to end; timers that outlive what they were set for |
| shutdown (`stop`) | what it waits for | end the rewrite, close socket and connections, wait for handlers, close the log | clients go on writing meanwhile; a handler that starts late |

A task of the event loop is interrupted only where it really suspends (a queue
get, a thread, a drain, a sleep), and every model takes that as its grain: one
action is what runs between two such points, with everything it calls.

## Modules

**`MasterReplication`**: `MasterReplication` with the write path and the PSYNC
branch that drive it. Write effects (a command, and the DEL of each key it
evicted) are numbered in the order in which they change the store; a snapshot is
the number of effects in it and a stream is a sequence of numbers. `Write`,
`Appended`, `AppendFails` are `_execute_inner` under the write lock; `Register`,
`EncodeFails`, `SendSnapshot`, `FlushBatch`, `GoLive` are `full_resync` between its
awaits (the encoding of the snapshot may raise);
`DrainGet`, `DrainDone`, `DrainFails` are `_replica_writer_loop`;
`UnregisterTask` is the task that `propagate` spawns; `HandlerExit` is the
handler's `finally`. All payloads have size one.

**`LogShipping`** is the abstract specification: a log, and per connection a feed
that is a snapshot and then every later effect, until it is cut.
`MasterReplication` implements it under the mapping at its end (feed = transport
followed by backlog).

**`ReplicaClient`** reads a stream in which the FULLRESYNC line, the RDB and each
command have two units, so a read may end inside any of them. **`Replication`**
composes it with `MasterReplication` over connections that may be lost; session
k uses connection k.

**`AofLog`**: `AOFLog` with its two tasks, the rewrite and `close`. A
behaviour starts with a choice from the constant `Configs`: the fsync policy,
whether callers hold the server's write lock (`locked`), and the I/O calls that
may fail (`faults`; `short`: a write that stores a part; `replace`: a rewrite up
to its rename; `reopen`: the `open` after it). The file is a sequence of records, `durable` the number
of them known to be on disk; nothing more becomes durable after a failed fsync.
A rewritten file is written here as the history it stands for; whether its
contents are equivalent is `Keyspace`'s subject.

**`Shutdown`** composes `AofLog` with `RedisServer.stop`: the callers of `append`
are handlers of connections, which `stop` tells to end and waits for before it
closes the log. A connection's transport exists some turns of the loop before its
handler runs and registers (`conn` "made"); `wait_closed` waits for transports or
not (`waits`, Python 3.12 and earlier versions). A behaviour starts with a choice
from `Uses`: a configuration, and whether the log is closed by `stop` or by a
caller that has waited for all appends.

**`Store`** has the keyspace as operators on records (entries, dictionary order,
access order): the commands, eviction, execution with rollback, replay, RDB load
and the rewrite payload. What strings, elements, fields and their values are made
of is the constant `Blob`. A key costs one unit of memory and so does each of its
chunks, elements or fields; times are in seconds. Loops over commands, entries
and bytes are recursive functions on the number of rounds. **`Keyspace`** is the state
machine over it: a master, its AOF, its dump and its clock, with failing appends
and kills at any point. A behaviour starts with a choice from `Setups`: eviction
policy, memory limit, the clients' commands, whether dumps are saved, and the
bounds of the model. A dump is what `load_rdb_bytes` makes of what
`dump_rdb_entries` wrote: keys, types, expiry times, values, checksum and footer;
with an expiry time that `struct.pack` does not take (`MaxExpiry`) saves and `PSYNC`
fail.
**`ReplicaKeyspace`** puts a replica beside that master: `Psync` sends a snapshot,
`LoadSnapshot` loads it and drops the commands that were read with its end,
`ApplyCommand` is `_apply_replicated_command` with the replica's branch of
`_execute_inner`, under the replica's own limit and with its own AOF; it expires,
is read, is killed and loses its connection. `intact` remembers whether the session
has dropped a command.

**`RespParser`** is the parser byte by byte, with its four limits, and the encoding
of commands. **`AofFile`** uses it on the bytes of an AOF over crashes: a crash
leaves any prefix of a record, the next start reads the file as `read_commands`
does, and appends go behind what is there. The keyspace is one list there.

**`RdbFile`**: names, inodes and open handles of the two dump files. The encoding
of version v is v repeated once or twice, so a mixture of two dumps is visible,
as the CRC makes it. SAVE and BGSAVE may overlap; `clean` remembers whether dump.rdb
was made by a save that ran alone. **`Startup`** composes `RdbFile` and `AofFile` with
`_load_persistence`, which chooses between log and dump.

**`Connection`**: `handle_client`. The parser is abstracted to whether it holds an
incomplete frame; a timer fires when it is due.

`MasterReplicationProofs`, `ReplicationProofs`, `PersistenceProofs` (the log),
`StoreProofs`, `CommandProofs`, `KeyspaceProofs`, `ReplicaKeyspaceProofs` and
`ServerProofs` (connections and dumps) hold the theorems. The `MC*` modules give constants their
values for TLC. Definitions named `X_Y` after a definition `X` and marked *Bug* are
variants of `X` that `PROJECT.json` uses to show that a property can fail.

## What the runs check

All run with `tlc -config <cfg> <module>`; the longest takes about two minutes.
The models are bounded and may stop at their bounds, hence `CHECK_DEADLOCK FALSE`.

| Run (cfg) | Result |
|---|---|
| `MCMasterReplication` | 2 connections, 4 effects, backlog 2, pending 1: streams are in order, a link not given up misses and strands nothing, offsets agree, buffers are bounded, given-up links are reaped and stay silent; `LogShipping` is implemented; the inductive invariant holds. The bounds let a backlog and a pending queue overflow while another link is served. |
| `MCReplication` | 2 sessions, 2 effects: commands are applied in order, none twice; the replica holds nothing the master lacks. |
| `MCReplicationLive` | 1 session, 4 effects, with fairness: a resync ends once the writes cease; a session settles; a replica that stays up reads everything. |
| `MCShutdown` | 2 callers, a queue of 1. The log on its own, 4 commands, under each policy behind the lock, with every fault, and without the lock; and in a server that is stopped, 3 commands. The file is a prefix of the history, acknowledged records are in it (and on disk under `always`), a clean log is durable, nothing durable is un-persisted, the log is closed after the handlers; appends return, `stop` ends, records become durable under `everysec`. |
| `MCKeyspace` | Nine setups. `noeviction` without TTLs: between commands a restart gives exactly what clients see, before, during and after rewrites and dumps. `allkeys-lru` and `volatile-ttl`: memory bounded, a refused write leaves no trace, the logged effects rebuild the keyspace for a reader without a limit. With TTLs: a rewritten log is equivalent to the snapshot it was made from, expired keys are reclaimed; some cannot be packed, and saves fail. With a replica: what is on its way turns its keyspace into the master's through evictions, refusals, resyncs and restarts, and no key expires there before it does at the master, in sessions that drop no command with the snapshot. |
| `MCStartup` | SAVE and BGSAVE, 3 versions, with errors and kills: the dump of a save that ran alone is whole and not older than the one it replaces, also after saves that overlapped. 3 commands and 2 crashes: an AOF torn at any byte gives back all that was acknowledged; and for every file reached, torn and glued ones included, no cut of its bytes into two reads changes what a connection's parser returns, unless a read and what is held back exceed its buffer, and then it fails. |
| `MCConnection` | 2 clients, 1 slot: exact slots, bounded waits, bounded wrong passwords. |

Three connections, longer logs or more keys add no new kind of step: links do
not interact except through `propagate`'s loop, and the smallest interesting
eviction needs three keys and a limit of two. Two crashes suffice for a file
with a torn record in its middle and one at its end.

### Where the code and its documentation disagree

Each of these runs checks one statement of the repository and TLC finds a
counterexample; `PROJECT.json` quotes the statement.

| Run (cfg) | Shows |
|---|---|
| `MCMasterDisconnect` | a link that overflowed is "disconnecting" in the log, but its connection stays open and its replica never resyncs |
| `MCReplicationSnapshot` | commands in the read that ends the RDB are dropped by the replica |
| `MCStartupTornTail` | a torn record stays in the AOF, the next append is glued to it, and a later start loads without an error a state that lacks acknowledged commands |
| `MCKeyspaceReplayTtl` | replay starts relative TTLs anew, so an expired key is back after a restart |
| `MCRdbFileBoth` | SAVE during BGSAVE leaves a `dump.rdb` that is not whole |

### Known gaps behind the conditions of the properties

Some properties are stated under a condition. Without it the model has a
counterexample, and the code behaves the same way:

- `AckedInFile`, `ReplayIsHistory` (no short writes, no append meets `close`): the
  result of the unbuffered `write` is not looked at, so a torn record is
  acknowledged; and an `append` on a closed log returns and has written nothing.
  `LogOutlivesClients` says when that happens in the server: only for a handler
  that had not begun to run when `stop` closed the connections (`late`).
- `AppendEnds` (locked, no `reopen` fault): without the lock, a caller that gets
  its room in the queue after the writer has failed waits for ever; and when both
  attempts to open the file after a rewrite fail, the writer dies of a
  `ValueError` and the next append waits for ever.
- `StopEnds`: a failing periodic fsync takes the order to stop out of the queue
  (`_fail_pending`), and `close` waits for a writer that nobody stops; a late
  handler may be waited for although its connection was not closed; and where
  `wait_closed` waits for transports, `stop` waits for clients it closes only
  afterwards.
- `ResyncEnds` (the writes cease): while every drain finds new writes in the backlog
  the flush loop goes on, and nothing bounds its rounds.
- `LogKeepsData` (no TTLs, no eviction, no empty AOF beside a dump, no log begun
  after a dump was loaded): replay evicts by an access order without the reads, so
  other keys than the server did; an AOF of size zero is taken for a missing one,
  so after a rewrite of an empty keyspace an older dump is loaded; and the log of a
  server that started from a dump lacks the dump until it is rewritten. It is also
  stated for files that the loader's parser takes (see `TornTailIsHarmless`).
- `RewriteIsEquivalent` (no key expired since the snapshot): such a key is
  written without its EXPIRE and becomes permanent.
- `TornTailIsHarmless` (nothing appended behind a torn record, no command wider
  than the loader's limits, no longer file): the rewrite merges a list into one
  command, but the loader's parser has default limits (1024 items, 32,000,000
  bytes), which are below `persistence_max_load_bytes`; such a file is
  refused at the next start.
- `LoneDumpIsWhole`, `LoneSaveNotOlder` (a save that ran alone): of a SAVE during a
  BGSAVE, either may leave a damaged dump (`MCRdbFileBoth`), and the BGSAVE, which
  began before, may finish last and put an older dump in the place of the newer one.
- `ReplicaFollows`, `NeverExpiresEarly` (`intact`): commands that the replica reads
  together with the end of the snapshot are dropped (`MCReplicationSnapshot`), and
  nothing is promised of such a session until the next resync.
- `ReplicaFollows` (nothing expires, the replica has the room): a replica with a
  smaller limit evicts or refuses by itself, and nobody logs or reports it.
- `NeverExpiresEarly` (SET and DEL only): an EXPIRE that arrives after the old TTL
  has ended at the replica is lost there, and a list that expired at the master and
  was begun anew continues at the replica.
- `WaitsAreBounded` bounds waits from above only: `partial_since` outlives the
  frame it was set for, so a frame can be timed out before its time.
- `ChunkingInvisible` compares messages of streams that do not fail: those already
  parsed in a read that ends in a protocol error are lost, so there the cut
  matters. It matters too for the limit of the buffer, which is tested on the read
  and what is held back together, before anything is parsed.

Of the same kind, without a property: EX and EXPIRE take any number of seconds, and
once an expiry time does not fit 64 bits (`expire_at_ms`), SAVE, BGSAVE and PSYNC fail
until the key is gone; a store above its limit under `noeviction`
refuses even DEL; a read is answered while its write is still being appended, and
SAVE stores a write whose append then fails; the thread of a BGSAVE goes on after
`stop`.

### Fairness

Weak fairness only, on steps the event loop or the operating system completes:
ready tasks run, threads return (with success or failure), sleeps and timeouts
end, a transport drains or fails. `full_resync`'s drain has no timeout in the
code, so `ResyncEnds` assumes a peer that reads or a connection that is lost.
Connection losses, faults, client commands and the start of `close` or of a
rewrite are never forced. Active expiry runs for ever every 0.1 s; in
`MCKeyspace` the sample covers all keys, as it does in the code for up to 20.
In `Shutdown` the steps of `stop` are fair, handlers of accepted connections
start, and a handler whose connection `stop` has closed ends once its command is
done; clients that `stop` has not told never have to leave.

## What is proved

TLAPS checks these for every value of the constants that satisfies the `ASSUME`s.

**`MasterReplicationProofs`**, for any set of connections, any positive buffer
limits and any number of effects (`BoundsAssumption`):

- `TypeCorrect`: `Spec => []TypeOK`.
- `Inductive`: `Spec => []IInv`. `StreamInOrder` and `NothingMissed` are not
  inductive: that the next effect fits the end of a stream depends on where the
  backlog continues, on the link's phase and on the write lock. `IInv` adds
  `WriteInv` (unpropagated effects exist only under the lock or after an AOF
  failure), `PhaseInv` (resync, link and drain task agree), `OrderInv` (the
  backlog continues where the transport ends) and `KeepsUpInv` (a link not given
  up ends at the last propagated effect, with the matching offset).
- `OrderedStreams`, `NoneMissed`, `NoneStranded`, `AgreeingOffsets`,
  `BoundedBuffers`, `ReapedLinks`: the six safety invariants of the run, from `IInv`.
- `Silence`: `Spec => GivenUpStaysSilent`, the action property, from `IInv`.

The proof that a step preserves `IInv` goes action by action; lemmas about
consecutive sequences carry the arithmetic, and a frame lemma carries links that
a step does not touch. `Carries` adds what a composition needs: nothing on a
connection is newer than what was propagated, or than its snapshot (`CarriesInv`).

`Refinement` is `Spec => ImplementsLogShipping`. Under `IInv` each step of the master
is one abstract step (`Commit`, `Ship`, `Close`, `Subscribe`, `Cut`) or a stutter:
moving an effect from backlog to transport does not change the feed.

**`ReplicationProofs`**, for any number of sessions and effects and any buffer
limits: `InOrder` (`AppliesInOrder`) and `Behind` (`ReplicaBehindMaster`). Neither is
inductive. `CInv` joins the master's `IInv` with `CarriesInv` and, per session,
`AppliedInv`: what a session applied is its snapshot and a `Stretch` of its
connection's stream that ends with the last item read completely. The stretch need
not begin right behind the snapshot, because the client drops the commands it gets
together with the RDB (`MCReplicationSnapshot`); it has no gap after that. The
master's steps extend streams and leave sessions alone (lemmas `StreamStep`,
`StreamGrows`); a read moves one session on.

**`PersistenceProofs`**, for any callers, queue size, configurations and
faults:

- `CleanLog`, `AckedIsStored`, `ReplayInOrder`, `DurabilityGrows`: `AofLog`'s
  `Spec` implies `CleanMeansDurable`, `AckedInFile`, `ReplayIsHistory` and
  `DurableStays`. The invariant is `LogInv`. `AckedInFile` needs that a record
  being fsynced is in the file (`AckInv`), that nothing is fsynced after a failure
  under `always` (`TaskInv`) and that a clean log is durable. The order of the file
  needs the lock: one append at a time, whose command is the last one issued and
  sits in one place (`OneAppend`), so the file lacks at most that command
  (`InOrder`), and a rewrite, which excludes appends, never shortens it (`Room`).
- `ServerUsesLog`: every step of `Shutdown` is a step of `AofLog` or leaves it
  alone, so `StoppedLog` carries the promises over to a server being stopped.
- `LogClosedLast`: `ShutdownSpec => []LogOutlivesClients`.

**`StoreProofs`**, for any keys, blobs, stores and times: the operations on a store
keep it well-formed (its orders are those of its keys), and `RdbRoundTrip`: a dump is
accepted and gives back exactly the entries, with types, values and expiry times, that
have not expired by then. Its lemmas (how `pack_all` lays an entry out, where each read
leaves the reader, what is read back) are steps of the proof.

**`CommandProofs`**, for any stores, commands and limits: lemmas. Each command has the
effect that `Effect` and `Refused` say on the mapping of entries alone
(`DispatchStore`); eviction, roll-back and the logged DELs are described by
`ExecuteStore`; a log that explains a store explains it after a write and its effects
(`EffectsTell`); a rewritten log, executed on an empty store, gives the entries of the
store it was written from (`RewritePayload`).

**`KeyspaceProofs`**, for any keys, blobs, setups and times (`KeyspaceAssumption`):

- `TypeCorrect`, `Bounded`, `Explained`, `Recovers`: `TypeOK`, `MemoryBounded`,
  `LogExplainsStore` and `LogKeepsData`. `MemoryBounded` needs that whatever may
  become the store keeps the limit: the snapshots of a rewrite and of a BGSAVE and
  the contents of the dump (`KInv`); a replay ends within the limit by its last
  command. `LogKeepsData` needs that log and pending effects rebuild the live
  entries also between a command and its append, and that a rewrite's snapshot has
  the live entries of the store for as long as the write lock is held
  (`ExplainInv`, `RewriteInv`).
- `RefusedWrites`, `RewriteEquivalent`: the action properties
  `RefusedChangesNothing` and `RewriteIsEquivalent`.
- `MasterOfReplica`: `ReplicaSpec => Spec`, so all of these hold of a master with a
  replica.

**`ReplicaKeyspaceProofs`**, under the same assumption: `Follows` (`ReplicaFollows`).
`FollowInv` says that, in an intact session, what is on its way (`feed`, then `pending`) turns the live
entries of the replica into the master's (`Brings`). A write of the master extends
both sides by the same effects (`EffectsBring`), a step of the replica takes the
first item off and no more (`ApplyStep`, `ApplyBring`), and a snapshot starts anew, by `RdbRoundTrip`.

`ExpiresLater` (`NeverExpiresEarly`) is in the same module. What the replica will show
is not enough for an induction: `CoverInv` also says that it will show it for at
least as long as the master does (`Covers`). That survives a tick because the items
on their way overwrite (`LastingInv`), so that a run of them one second later, on a
keyspace that covers the other, ends in one that covers (`CoverRun`, `TickReaches`).

**`ServerProofs`**, for any connections, limits, timeouts and batches:
`ExactSlots`, `BoundedWaits`, `BoundedGuesses`. `WaitInv` relates the deadline of a
read to `partial_since` and that to the beginning of the frame; `GuessInv` relates
the failures the server counts to those the client saw.

The dump, in the same module, for any number of versions and files and any overlaps of
SAVE and BGSAVE: `WholeDump` (`LoneDumpIsWhole`) and `NeverOlder` (`LoneSaveNotOlder`). `RdbInv`
joins three things: what the temporary file holds at each step of a save that runs
alone (`LoneInv`), that nobody has a clean dump open, and that no file about to become
the dump holds a version that is yet to come, also while saves overlap (`NotAhead`,
`SaverInv`); so a save that begins alone cannot be older than what is there.

`PersistenceProofs` and `ServerProofs` also prove `TypeOK` (`WellTyped`).

The recursive functions of `Store` are reasoned about by induction on the number of
rounds. The library's induction theorems have an operator parameter that the provers
cannot instantiate; `Counting` in `StoreProofs` states induction for a set of
numbers instead (a set that has 0 and with n also n + 1 has all), and each lemma
names its set.

The four modules about keyspaces take ten to twenty minutes each to check from
nothing, the others between four and fifteen. The prover's time for a step grows with
the definitions in scope, so `Store` has its own copies of the few operators it needs
of the community module for sequences, and the proofs are split where one group of
theorems no longer uses the lemmas of another.

Only model-checked: liveness (`ResyncEnds`, `SessionSettles`, `ReadsEverything`,
`AppendEnds`, `EventuallyDurable`, `StopEnds`, `ExpiredIsReclaimed`: fairness is out of
the prover's reach); `TornTailIsHarmless` and `ChunkingInvisible` (`RespParser` is
recursive on nested messages, and the prover does not reason about such operators).
The inductive invariants also hold in TLC on the runs' instances; `IInv` is part of
a run.

## Not modelled

- Configuration, argument parsing, replies and their encoders, INFO, CONFIG,
  logging: no state that other parts share.
- `MasterReplication.register` and RDB version 1 files: nothing calls the one or
  writes the other.
- In `start`, the checks of the network configuration and what follows loading; in
  the replica client, the length of the back-off and `stop`.
- Replicas of replicas. A server that is itself a replica answers PSYNC through
  `handle_psync`: it sends a snapshot and registers a link, its handler goes on serving
  commands on the connection, and nothing is ever propagated to the link.
- DEL of several keys, which drops each and is logged as one command.
- Loss of a rename at a power failure; pages lost by a failed fsync of the old file
  in a rewrite, which sets no `_failure`.
- Lengths of more than one digit in `RespParser`'s encoder, and clients that mix
  inline garbage into a stream beyond what torn and glued AOF files contain.

## Plan

1. A composition of write path, log and replication with client histories:
   linearizability of reads against appends that fail.
2. Proofs: `TornTailIsHarmless` over an abstract parser of whole records, which
   `RespParser` would be checked to implement.
