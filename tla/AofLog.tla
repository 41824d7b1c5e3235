------------------------------- MODULE AofLog -------------------------------
(***************************************************************************)
(* AOFLog in byo_redis/persistence/aof.py: appends go through a bounded    *)
(* queue to a writer task, which writes (and under "always" fsyncs) on a   *)
(* worker thread and completes the caller's future; under "everysec" a     *)
(* second task fsyncs; a rewrite replaces the file; close stops the tasks. *)
(*                                                                         *)
(* A command is a number, in the order in which commands changed the       *)
(* store.  The file is the sequence of the records in it.                  *)
(***************************************************************************)
EXTENDS Integers, Sequences

CONSTANTS Caller,       \* coroutines that call append
          QueueMax,     \* queue_max_commands
          Configs,      \* how the log may be configured and used
          MaxCommands   \* bound of the model: commands in a behaviour

ASSUME AofAssumption ==
  /\ QueueMax \in Nat \ {0}
  /\ Configs \subseteq
       [policy : {"always", "everysec", "no"},  \* fsync_policy
        locked : BOOLEAN,  \* callers hold _write_lock, as in RedisServer
        faults : SUBSET {"write", "short", "fsync", "replace", "reopen"}]
  /\ MaxCommands \in Nat

VARIABLES
  config,    \* one of Configs: never changes
  issued,    \* commands that changed the store
  caller,    \* where each append is: awaiting room in the queue, or its future
  cmd,       \* the command each append is about
  queue,     \* _queue
  writer,    \* where _writer_loop is; "crashed": an exception it does not catch
  inflight,  \* the command _writer_loop works on
  syncer,    \* where _fsync_loop is
  rewriter,  \* a rewrite is running
  failure,   \* _failure is set
  dirty,     \* _dirty
  fh,        \* _fh: an open file, a closed one, or None
  file,      \* records in the file
  durable,   \* how many of them are known to be on disk
  acked,     \* commands whose append returned
  closing,   \* where close is
  overlap    \* an append was running when close began, or began later

vars == <<config, issued, caller, cmd, queue, writer, inflight, syncer,
          rewriter, failure, dirty, fh, file, durable, acked, closing,
          overlap>>

Stop == 0  \* the None that close enqueues
Torn == 0  \* a record of which only the beginning was written

TypeOK ==
  /\ config \in Configs
  /\ issued \in 0..MaxCommands
  /\ caller \in [Caller -> {"idle", "putting", "waiting"}]
  /\ cmd \in [Caller -> 0..MaxCommands]
  /\ queue \in Seq(0..MaxCommands) /\ Len(queue) <= QueueMax
  /\ writer \in {"get", "write", "fsync", "done", "crashed"}
  /\ inflight \in 0..MaxCommands
  /\ syncer \in {"sleep", "fsync", "done"}
  /\ rewriter \in BOOLEAN
  /\ failure \in BOOLEAN
  /\ dirty \in BOOLEAN
  /\ fh \in {"open", "closed", "none"}
  /\ file \in Seq(0..MaxCommands)
  /\ durable \in 0..Len(file)
  /\ acked \in SUBSET (1..MaxCommands)
  /\ closing \in {"no", "putting", "joining", "done"}
  /\ overlap \in BOOLEAN

\* After open and start_background_fsync on a new file.
Init ==
  /\ config \in Configs
  /\ issued = 0
  /\ caller = [c \in Caller |-> "idle"]
  /\ cmd = [c \in Caller |-> 0]
  /\ queue = <<>>
  /\ writer = "get" /\ inflight = 0
  /\ syncer = IF config.policy = "everysec" THEN "sleep" ELSE "done"
  /\ rewriter = FALSE
  /\ failure = FALSE /\ dirty = FALSE /\ fh = "open"
  /\ file = <<>> /\ durable = 0
  /\ acked = {}
  /\ closing = "no" /\ overlap = FALSE

Quiet == (\A c \in Caller : caller[c] = "idle") /\ ~rewriter

\* The futures of the commands in S complete.
Complete(S) ==
  caller' = [c \in Caller |-> IF caller[c] = "waiting" /\ cmd[c] \in S
                              THEN "idle" ELSE caller[c]]

Queued == {queue[i] : i \in DOMAIN queue}

\* An fsync that returns: nothing is done unless _dirty.  After one that failed
\* the pages may be lost, and nothing more becomes durable.
Fsynced ==
  /\ durable' = IF dirty /\ ~failure THEN Len(file) ELSE durable
  /\ dirty' = FALSE

-----------------------------------------------------------------------------
(* append                                                                  *)

\* append may begin.  (With a failure it raises, and nothing changes.)  In
\* RedisServer the caller holds the write lock.
MayAppend(c) ==
  /\ caller[c] = "idle"
  /\ config.locked => Quiet
  /\ ~failure
  /\ issued < MaxCommands

\* append starts to enqueue.
append(c) ==
  /\ closing # "done"
  /\ MayAppend(c)
  /\ issued' = issued + 1
  /\ cmd' = [cmd EXCEPT ![c] = issued + 1]
  /\ caller' = [caller EXCEPT ![c] = "putting"]
  /\ overlap' = (overlap \/ closing # "no")
  /\ UNCHANGED <<config, queue, writer, inflight, syncer, rewriter, failure,
                 dirty, fh, file, durable, acked, closing>>

\* append on a closed log returns and has written nothing, unless a late rewrite
\* has opened the file again: then it writes by itself.
AppendClosed(c) ==
  /\ closing = "done"
  /\ MayAppend(c)
  /\ issued' = issued + 1
  /\ acked' = acked \cup {issued + 1}
  /\ IF fh = "none" THEN UNCHANGED <<file, durable, dirty>>
     ELSE /\ file' = Append(file, issued + 1)
          /\ durable' = IF config.policy = "always" THEN Len(file') ELSE durable
          /\ dirty' = (config.policy # "always")
  /\ overlap' = TRUE
  /\ UNCHANGED <<config, caller, cmd, queue, writer, inflight, syncer,
                 rewriter, failure, fh, closing>>

\* Bug: the queue has no maximum size.
Put_Unbounded(c) ==
  /\ caller[c] = "putting"
  /\ queue' = Append(queue, cmd[c])
  /\ caller' = [caller EXCEPT ![c] = "waiting"]
  /\ UNCHANGED <<config, overlap, issued, cmd, writer, inflight, syncer,
                 rewriter, failure, dirty, fh, file, durable, acked, closing>>

\* The queue has room for the item; the append awaits its future.
Put(c) ==
  /\ caller[c] = "putting"
  /\ Len(queue) < QueueMax
  /\ queue' = Append(queue, cmd[c])
  /\ caller' = [caller EXCEPT ![c] = "waiting"]
  /\ UNCHANGED <<config, overlap, issued, cmd, writer, inflight, syncer,
                 rewriter, failure, dirty, fh, file, durable, acked, closing>>

\* No room for enqueue_timeout_sec: the append raises.
PutTimeout(c) ==
  /\ caller[c] = "putting"
  /\ Len(queue) = QueueMax
  /\ caller' = [caller EXCEPT ![c] = "idle"]
  /\ UNCHANGED <<config, overlap, issued, cmd, queue, writer, inflight,
                 syncer, rewriter, failure, dirty, fh, file, durable, acked,
                 closing>>

-----------------------------------------------------------------------------
(* _writer_loop                                                            *)

\* The next item, or the order to stop.
WriterGet ==
  /\ writer = "get"
  /\ queue # <<>>
  /\ queue' = Tail(queue)
  /\ inflight' = Head(queue)
  /\ writer' = IF Head(queue) = Stop THEN "done" ELSE "write"
  /\ UNCHANGED <<config, overlap, issued, caller, cmd, syncer, rewriter,
                 failure, dirty, fh, file, durable, acked, closing>>

\* Bug: the future completes before the fsync.
Write_AckEarly(record) ==
  /\ writer = "write"
  /\ fh = "open"
  /\ record = inflight
  /\ file' = Append(file, record)
  /\ dirty' = TRUE
  /\ writer' = IF config.policy = "always" THEN "fsync" ELSE "get"
  /\ Complete({inflight})
  /\ acked' = acked \cup {inflight}
  /\ UNCHANGED <<config, overlap, issued, cmd, queue, inflight, syncer,
                 rewriter, failure, fh, durable, closing>>

\* Bug: _dirty is not set.
Write_NotDirty(record) ==
  /\ writer = "write"
  /\ fh = "open"
  /\ record = inflight
  /\ file' = Append(file, record)
  /\ writer' = "get"
  /\ Complete({inflight})
  /\ acked' = acked \cup {inflight}
  /\ UNCHANGED <<config, overlap, issued, cmd, queue, inflight, syncer,
                 rewriter, failure, fh, dirty, durable, closing>>

\* _write_sync returns.  The unbuffered write may have written only part of the
\* record: its result is not looked at.
Write(record) ==
  /\ writer = "write"
  /\ fh = "open"
  /\ record = inflight \/ (record = Torn /\ "short" \in config.faults)
  /\ file' = Append(file, record)
  /\ dirty' = TRUE
  /\ IF config.policy = "always"
     THEN writer' = "fsync" /\ UNCHANGED <<caller, acked>>
     ELSE /\ writer' = "get"
          /\ Complete({inflight})
          /\ acked' = acked \cup {inflight}
  /\ UNCHANGED <<config, overlap, issued, cmd, queue, inflight, syncer,
                 rewriter, failure, fh, durable, closing>>

\* _fsync_sync returns, and only then the future completes.
WriterFsync ==
  /\ writer = "fsync"
  /\ Fsynced
  /\ writer' = "get"
  /\ Complete({inflight})
  /\ acked' = acked \cup {inflight}
  /\ UNCHANGED <<config, overlap, issued, cmd, queue, inflight, syncer,
                 rewriter, failure, fh, file, closing>>

\* OSError in the write or the fsync: the item and everything queued fail, and
\* the writer stops for good.
WriterFails ==
  /\ \/ writer = "write" /\ fh = "open" /\ "write" \in config.faults
     \/ writer = "fsync" /\ "fsync" \in config.faults
  /\ failure' = TRUE
  /\ writer' = "done"
  /\ queue' = <<>>
  /\ Complete({inflight} \cup Queued)
  /\ UNCHANGED <<config, overlap, issued, cmd, inflight, syncer, rewriter,
                 dirty, fh, file, durable, acked, closing>>

\* Writing to a closed file object raises ValueError, which is not caught.
WriterCrashes ==
  /\ writer = "write"
  /\ fh = "closed"
  /\ writer' = "crashed"
  /\ UNCHANGED <<config, overlap, issued, caller, cmd, queue, inflight,
                 syncer, rewriter, failure, dirty, fh, file, durable, acked,
                 closing>>

-----------------------------------------------------------------------------
(* _fsync_loop                                                             *)

\* A second has passed.
SyncStart ==
  /\ syncer = "sleep"
  /\ syncer' = "fsync"
  /\ UNCHANGED <<config, overlap, issued, caller, cmd, queue, writer,
                 inflight, rewriter, failure, dirty, fh, file, durable, acked,
                 closing>>

\* Bug: the loop ends after its first fsync.
SyncReturns_Once ==
  /\ syncer = "fsync"
  /\ fh = "open" \/ ~dirty
  /\ Fsynced
  /\ syncer' = "done"
  /\ UNCHANGED <<config, overlap, issued, caller, cmd, queue, writer,
                 inflight, rewriter, failure, fh, file, acked, closing>>

\* _fsync_sync returns; the loop goes on until _closed.
SyncReturns ==
  /\ syncer = "fsync"
  /\ fh = "open" \/ ~dirty
  /\ Fsynced
  /\ syncer' = IF closing = "no" THEN "sleep" ELSE "done"
  /\ UNCHANGED <<config, overlap, issued, caller, cmd, queue, writer,
                 inflight, rewriter, failure, fh, file, acked, closing>>

\* Bug: the queue is emptied and the futures are left alone.
SyncFails_Dropped ==
  /\ syncer = "fsync"
  /\ fh = "open" /\ dirty
  /\ "fsync" \in config.faults
  /\ failure' = TRUE
  /\ queue' = <<>>
  /\ syncer' = "done"
  /\ UNCHANGED <<config, overlap, issued, caller, cmd, writer, inflight,
                 rewriter, dirty, fh, file, durable, acked, closing>>

\* OSError: everything queued fails, and the loop ends.
SyncFails ==
  /\ syncer = "fsync"
  /\ fh = "open" /\ dirty
  /\ "fsync" \in config.faults
  /\ failure' = TRUE
  /\ queue' = <<>>
  /\ Complete(Queued)
  /\ syncer' = "done"
  /\ UNCHANGED <<config, overlap, issued, cmd, writer, inflight, rewriter,
                 dirty, fh, file, durable, acked, closing>>

\* fileno() of a closed file object raises ValueError, which is not caught.
SyncCrashes ==
  /\ syncer = "fsync"
  /\ fh = "closed" /\ dirty
  /\ syncer' = "done"
  /\ UNCHANGED <<config, overlap, issued, caller, cmd, queue, writer,
                 inflight, rewriter, failure, dirty, fh, file, durable, acked,
                 closing>>

-----------------------------------------------------------------------------
(* rewrite, under the server's write lock                                  *)

History == [i \in 1..issued |-> i]

\* Bug: the rewrite does not wait for the write lock.
RewriteStart_NoLock ==
  /\ closing = "no"
  /\ config.locked /\ ~rewriter
  /\ rewriter' = TRUE
  /\ UNCHANGED <<config, overlap, issued, caller, cmd, queue, writer,
                 inflight, syncer, failure, dirty, fh, file, durable, acked,
                 closing>>

\* The write lock is taken, and with it the snapshot.
RewriteStart ==
  /\ closing = "no"
  /\ config.locked /\ Quiet
  /\ rewriter' = TRUE
  /\ UNCHANGED <<config, overlap, issued, caller, cmd, queue, writer,
                 inflight, syncer, failure, dirty, fh, file, durable, acked,
                 closing>>

\* Bug: the new file is not fsynced before the rename.
RewriteReturns_NoFsync ==
  /\ rewriter
  /\ fh = "open"
  /\ file' = History /\ durable' = 0
  /\ dirty' = TRUE
  /\ rewriter' = FALSE
  /\ UNCHANGED <<config, overlap, issued, caller, cmd, queue, writer,
                 inflight, syncer, failure, fh, acked, closing>>

\* The snapshot is written and fsynced, the old file fsynced and closed, the new
\* one renamed over it and opened.
RewriteReturns ==
  /\ rewriter
  /\ fh = "open"
  /\ file' = History /\ durable' = issued
  /\ dirty' = FALSE
  /\ rewriter' = FALSE
  /\ UNCHANGED <<config, overlap, issued, caller, cmd, queue, writer,
                 inflight, syncer, failure, fh, acked, closing>>

\* OSError before or in the rename, or in opening the new file: the path is
\* opened again, and is the old file or the new one.
RewriteFails ==
  /\ rewriter
  /\ fh = "open"
  /\ \/ "replace" \in config.faults /\ UNCHANGED <<file, durable>>
     \/ "reopen" \in config.faults /\ file' = History /\ durable' = issued
  /\ rewriter' = FALSE
  /\ UNCHANGED <<config, overlap, issued, caller, cmd, queue, writer,
                 inflight, syncer, failure, dirty, fh, acked, closing>>

\* OSError in the rename or in opening the new file, and again in opening the
\* path: the closed file object stays in _fh.
RewriteLosesFile ==
  /\ rewriter
  /\ "reopen" \in config.faults
  /\ fh = "open"
  /\ \/ file' = file /\ durable' = IF failure THEN durable ELSE Len(file)
     \/ file' = History /\ durable' = issued
  /\ fh' = "closed"
  /\ rewriter' = FALSE
  /\ UNCHANGED <<config, overlap, issued, caller, cmd, queue, writer,
                 inflight, syncer, failure, dirty, acked, closing>>

\* fsync of the closed file object raises ValueError: the rewrite ends.
RewriteCrashes ==
  /\ rewriter
  /\ fh = "closed"
  /\ rewriter' = FALSE
  /\ UNCHANGED <<config, overlap, issued, caller, cmd, queue, writer,
                 inflight, syncer, failure, dirty, fh, file, durable, acked,
                 closing>>

\* A rewrite that is still running when the log is closed finds no file to close,
\* and opens the new one.
RewriteClosed ==
  /\ rewriter
  /\ fh = "none"
  /\ file' = History /\ durable' = issued
  /\ fh' = "open"
  /\ dirty' = FALSE
  /\ rewriter' = FALSE
  /\ UNCHANGED <<config, overlap, issued, caller, cmd, queue, writer,
                 inflight, syncer, failure, acked, closing>>

-----------------------------------------------------------------------------
(* close                                                                   *)

Overlapped == overlap' = \E c \in Caller : caller[c] # "idle"

\* The writer, unless it has ended, is to be told to stop.
CloseStart ==
  /\ closing = "no"
  /\ Overlapped
  /\ \/ /\ writer \in {"done", "crashed"}
        /\ closing' = "joining" /\ queue' = queue
     \/ /\ writer \notin {"done", "crashed"} /\ Len(queue) < QueueMax
        /\ closing' = "joining" /\ queue' = Append(queue, Stop)
     \/ /\ writer \notin {"done", "crashed"} /\ Len(queue) = QueueMax
        /\ closing' = "putting" /\ queue' = queue
  /\ UNCHANGED <<config, issued, caller, cmd, writer, inflight, syncer,
                 rewriter, failure, dirty, fh, file, durable, acked>>

\* The queue has room for the order to stop.
ClosePut ==
  /\ closing = "putting"
  /\ Len(queue) < QueueMax
  /\ closing' = "joining"
  /\ queue' = Append(queue, Stop)
  /\ UNCHANGED <<config, overlap, issued, caller, cmd, writer, inflight,
                 syncer, rewriter, failure, dirty, fh, file, durable, acked>>

\* The writer has ended; the fsync loop is cancelled; a last fsync, whose
\* failure is only logged; the file is closed.
CloseFinish ==
  /\ closing = "joining"
  /\ writer = "done"
  /\ syncer' = "done"
  /\ \/ Fsynced
     \/ "fsync" \in config.faults /\ UNCHANGED <<dirty, durable>>
  /\ fh' = "none"
  /\ queue' = <<>>
  /\ closing' = "done"
  /\ UNCHANGED <<config, overlap, issued, caller, cmd, writer, inflight,
                 rewriter, failure, file, acked>>

-----------------------------------------------------------------------------
Appends(c) == append(c) \/ AppendClosed(c) \/ Put(c) \/ PutTimeout(c)

Writes == (\E record \in {inflight, Torn} : Write(record)) \/ WriterFsync
            \/ WriterFails \/ WriterCrashes

Syncs == SyncReturns \/ SyncFails \/ SyncCrashes

Rewrites == RewriteReturns \/ RewriteFails \/ RewriteLosesFile \/ RewriteCrashes
              \/ RewriteClosed

Next ==
  \/ \E c \in Caller : Appends(c)
  \/ WriterGet \/ Writes
  \/ SyncStart \/ Syncs
  \/ RewriteStart \/ Rewrites
  \/ CloseStart \/ ClosePut \/ CloseFinish

Spec == Init /\ [][Next]_vars

\* Tasks that can run do, threads return, seconds and timeouts pass.
Fairness ==
  /\ \A c \in Caller : WF_vars(Put(c) \/ PutTimeout(c))
  /\ WF_vars(WriterGet) /\ WF_vars(Writes)
  /\ WF_vars(SyncStart) /\ WF_vars(Syncs)
  /\ WF_vars(Rewrites)
  /\ WF_vars(ClosePut) /\ WF_vars(CloseFinish)

FairSpec == Spec /\ Fairness

-----------------------------------------------------------------------------
\* Behind the write lock the file is a prefix of the command history, whatever
\* fails and whenever a rewrite replaces it, until close meets an append: a
\* replay executes commands in their order, with none missing in between.
ReplayIsHistory ==
  config.locked /\ ~overlap /\ "short" \notin config.faults
    => \A i \in DOMAIN file : file[i] = i

\* "--aof-fsync always does not acknowledge a write until the AOF record has been
\* written and fsynced; everysec acknowledges after the write queue accepts and
\* persists the record" (README): an append that returned has its record in the
\* file, and under "always" on disk, as long as no write is short and close has
\* met no append.
AckedInFile ==
  ~overlap /\ "short" \notin config.faults =>
    \A n \in acked :
      \E i \in 1..(IF config.policy = "always" THEN durable ELSE Len(file)) :
        file[i] = n

\* _dirty is never clear while the file has records that are not on disk, though
\* writer, fsync loop, rewrite and close all clear or test it: or the fsync loop
\* would skip them.
CleanMeansDurable == ~dirty /\ ~failure => durable = Len(file)

\* A durable record never stops being durable.
DurableStays == [][durable' >= durable]_vars

\* Every append of the server returns or raises: a caller left waiting would keep
\* the write lock for ever.  (Not if the file cannot be opened again after a
\* rewrite: the writer task dies of the closed file; and not if it meets close.)
AppendEnds ==
  config.locked /\ "reopen" \notin config.faults
    => \A c \in Caller : caller[c] # "idle" ~> caller[c] = "idle" \/ overlap

\* Under "everysec" every acknowledged record reaches the disk, unless the log
\* fails or is closed.
EventuallyDurable ==
  config.policy = "everysec" /\ config.faults \cap {"short", "reopen"} = {} =>
    \A n \in 1..MaxCommands :
      n \in acked ~> durable >= n \/ failure \/ closing = "done"

=============================================================================
