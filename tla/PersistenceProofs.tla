------------------------- MODULE PersistenceProofs -------------------------
(***************************************************************************)
(* Proofs about AofLog and its use in Shutdown, for any callers, queue     *)
(* size, configurations and number of commands.                            *)
(***************************************************************************)
EXTENDS Shutdown, TLAPS

\* The bounds; the configurations may be any.
LEMMA Bounds == QueueMax \in Nat \ {0} /\ MaxCommands \in Nat
BY AofAssumption

USE Bounds

-----------------------------------------------------------------------------
(* Types                                                                   *)

\* What callers, queue, writer, file and acknowledgements hold are commands that
\* were issued; the writer works on a command, not on the order to stop.
TypeInv ==
  /\ issued \in 0..MaxCommands
  /\ caller \in [Caller -> {"idle", "putting", "waiting"}]
  /\ cmd \in [Caller -> 0..issued]
  /\ queue \in Seq(0..issued) /\ Len(queue) <= QueueMax
  /\ inflight \in 0..issued
  /\ writer \in {"write", "fsync"} => inflight # Stop
  /\ file \in Seq(0..issued)
  /\ durable \in 0..Len(file)
  /\ acked \subseteq 1..issued

\* The file a rewrite leaves.
LEMMA HistoryFacts ==
  ASSUME issued \in 0..MaxCommands
  PROVE  /\ History \in Seq(0..issued)
         /\ Len(History) = issued
         /\ DOMAIN History = 1..issued
         /\ \A i \in 1..issued : History[i] = i
BY DEF History

\* A new log holds nothing.
LEMMA TypeInit == Init => TypeInv
BY DEF Init, TypeInv, Stop

\* What an fsync leaves.
LEMMA FsyncedType ==
  ASSUME TypeInv, Fsynced
  PROVE  durable' \in {durable, Len(file)}
BY DEF Fsynced

\* Futures that complete leave their callers idle.
LEMMA CompleteType ==
  ASSUME TypeInv, NEW S, Complete(S)
  PROVE  /\ caller' \in [Caller -> {"idle", "putting", "waiting"}]
         /\ \A c \in Caller : caller'[c] = IF caller[c] = "waiting" /\ cmd[c] \in S
                                           THEN "idle" ELSE caller[c]
BY DEF TypeInv, Complete

\* Every step of the log keeps the types.
LEMMA TypeStep ==
  ASSUME TypeInv, [Next]_vars
  PROVE  TypeInv'
<1> USE DEF TypeInv, Stop, Torn
<1>1. ASSUME NEW c \in Caller, Appends(c)
      PROVE  TypeInv'
  <2>1. CASE append(c)
    BY <2>1 DEF append, MayAppend
  <2>2. CASE AppendClosed(c)
    <3>1. issued' = issued + 1 /\ issued' \in 0..MaxCommands
      BY <2>2 DEF AppendClosed, MayAppend
    <3>2. file \in Seq(0..(issued + 1)) /\ queue \in Seq(0..(issued + 1))
      OBVIOUS
    <3>3. /\ file' \in {file, Append(file, issued + 1)}
          /\ durable' \in {durable, Len(file')}
      BY <2>2 DEF AppendClosed
    <3>4. file' \in Seq(0..issued') /\ durable' \in 0..Len(file')
      <4>1. Append(file, issued + 1) \in Seq(0..(issued + 1))
        BY <3>1, <3>2
      <4>2. Len(Append(file, issued + 1)) = Len(file) + 1
        BY <3>2
      <4>3. file' \in Seq(0..issued')
        BY <3>1, <3>2, <3>3, <4>1, Zenon
      <4>4. Len(file') \in Nat /\ Len(file) \in Nat /\ Len(file) <= Len(file')
        BY <3>2, <3>3, <4>2
      <4>5. QED
        BY <3>3, <4>3, <4>4
    <3>5. QED
      BY <2>2, <3>1, <3>2, <3>4 DEF AppendClosed
  <2>3. CASE Put(c)
    BY <2>3 DEF Put
  <2>4. CASE PutTimeout(c)
    BY <2>4 DEF PutTimeout
  <2>5. QED
    BY <1>1, <2>1, <2>2, <2>3, <2>4 DEF Appends
<1>2. CASE WriterGet
  <2>1. /\ Head(queue) \in 0..issued
        /\ queue' \in Seq(0..issued)
        /\ Len(queue') = Len(queue) - 1
    BY <1>2 DEF WriterGet
  <2>2. QED
    BY <1>2, <2>1 DEF WriterGet
<1>3. CASE Writes
  <2>1. ASSUME NEW record \in {inflight, Torn}, Write(record)
        PROVE  TypeInv'
    <3>1. caller' \in [Caller -> {"idle", "putting", "waiting"}]
      BY <2>1, CompleteType DEF Write
    <3>2. file' \in Seq(0..issued) /\ Len(file') = Len(file) + 1
      BY <2>1 DEF Write
    <3>3. QED
      <4>1. acked' \subseteq 1..issued /\ durable' = durable
        <5>1. acked' \in {acked, acked \cup {inflight}} /\ durable' = durable
          BY <2>1 DEF Write
        <5>2. inflight \in 1..issued
          BY <2>1 DEF Write
        <5>3. QED
          BY <5>1, <5>2
      <4>2. /\ UNCHANGED <<issued, cmd, queue, inflight>>
            /\ writer = "write"
        BY <2>1 DEF Write
      <4>3. QED
        BY <3>1, <3>2, <4>1, <4>2
  <2>2. CASE WriterFsync
    BY <2>2, CompleteType, FsyncedType DEF WriterFsync
  <2>3. CASE WriterFails
    BY <2>3, CompleteType DEF WriterFails
  <2>4. CASE WriterCrashes
    BY <2>4 DEF WriterCrashes
  <2>5. QED
    BY <1>3, <2>1, <2>2, <2>3, <2>4 DEF Writes
<1>4. CASE SyncStart \/ Syncs
  <2>1. CASE SyncStart \/ SyncCrashes
    BY <2>1, Zenon DEF SyncStart, SyncCrashes
  <2>2. CASE SyncReturns
    BY <2>2, FsyncedType DEF SyncReturns
  <2>3. CASE SyncFails
    BY <2>3, CompleteType DEF SyncFails
  <2>4. QED
    BY <1>4, <2>1, <2>2, <2>3 DEF Syncs
<1>5. CASE RewriteStart \/ Rewrites
  <2>1. CASE RewriteStart \/ RewriteCrashes
    BY <2>1, Zenon DEF RewriteStart, RewriteCrashes
  <2>2. CASE RewriteReturns \/ RewriteFails \/ RewriteLosesFile \/ RewriteClosed
    <3>1. /\ \/ file' = file /\ durable' \in {durable, Len(file)}
             \/ file' = History /\ durable' = issued
          /\ UNCHANGED <<issued, caller, cmd, queue, writer, inflight, acked>>
      BY <2>2 DEF RewriteReturns, RewriteFails, RewriteLosesFile, RewriteClosed
    <3>2. file' \in Seq(0..issued) /\ durable' \in 0..Len(file')
      BY <3>1, HistoryFacts
    <3>3. QED
      BY <3>1, <3>2
  <2>3. QED
    BY <1>5, <2>1, <2>2 DEF Rewrites
<1>6. CASE CloseStart \/ ClosePut
  <2>1. /\ \/ queue' = queue
           \/ queue' = Append(queue, Stop) /\ Len(queue) < QueueMax
        /\ UNCHANGED <<issued, caller, cmd, writer, inflight, file, durable, acked>>
    BY <1>6 DEF CloseStart, ClosePut
  <2>2. queue' \in Seq(0..issued) /\ Len(queue') <= QueueMax
    <3>1. CASE queue' = queue
      BY <3>1
    <3>2. CASE queue' = Append(queue, Stop) /\ Len(queue) < QueueMax
      BY <3>2
    <3>3. QED
      BY <2>1, <3>1, <3>2
  <2>3. QED
    BY <2>1, <2>2
<1>7. CASE CloseFinish
  BY <1>7, FsyncedType DEF CloseFinish
<1>8. CASE UNCHANGED vars
  BY <1>8 DEF vars
<1>9. QED
  BY <1>1, <1>2, <1>3, <1>4, <1>5, <1>6, <1>7, <1>8 DEF Next

\* The variables of AOFLog keep their types; its tasks hold issued commands.
THEOREM TypeCorrect == Spec => []TypeInv
BY TypeInit, TypeStep, PTL DEF Spec

\* What the tasks of the log and its flags range over.
FlagInv ==
  /\ config \in Configs
  /\ writer \in {"get", "write", "fsync", "done", "crashed"}
  /\ syncer \in {"sleep", "fsync", "done"}
  /\ rewriter \in BOOLEAN /\ failure \in BOOLEAN /\ dirty \in BOOLEAN
  /\ fh \in {"open", "closed", "none"}
  /\ closing \in {"no", "putting", "joining", "done"}
  /\ overlap \in BOOLEAN

\* A new log is idle.
LEMMA FlagInit == Init => FlagInv
<1> SUFFICES ASSUME Init
             PROVE  FlagInv
  OBVIOUS
<1>1. syncer \in {"sleep", "fsync", "done"}
  BY DEF Init
<1>2. QED
  BY <1>1, Zenon DEF Init, FlagInv

\* Every step of the log keeps its tasks and flags within their ranges.
LEMMA FlagStep ==
  ASSUME FlagInv, [Next]_vars
  PROVE  FlagInv'
<1> USE DEF FlagInv
<1>1. ASSUME NEW c \in Caller, Appends(c)
      PROVE  FlagInv'
  <2>1. CASE append(c)
    BY <2>1, Zenon DEF append
  <2>2. CASE AppendClosed(c)
    BY <2>2, Zenon DEF AppendClosed
  <2>3. CASE Put(c)
    BY <2>3, Zenon DEF Put
  <2>4. CASE PutTimeout(c)
    BY <2>4, Zenon DEF PutTimeout
  <2>5. QED
    BY <1>1, <2>1, <2>2, <2>3, <2>4, Zenon DEF Appends
<1>2. CASE WriterGet
  <2>1. writer' \in {"done", "write"}
    BY <1>2, Zenon DEF WriterGet
  <2>2. QED
    BY <1>2, <2>1, Zenon DEF WriterGet
<1>3. CASE Writes
  <2>1. ASSUME NEW record \in {inflight, Torn}, Write(record)
        PROVE  FlagInv'
    BY <2>1, Zenon DEF Write
  <2>2. CASE WriterFsync
    BY <2>2, Zenon DEF WriterFsync, Fsynced
  <2>3. CASE WriterFails \/ WriterCrashes
    BY <2>3, Zenon DEF WriterFails, WriterCrashes
  <2>4. QED
    BY <1>3, <2>1, <2>2, <2>3, Zenon DEF Writes
<1>4. CASE SyncStart \/ Syncs
  <2>1. CASE SyncReturns
    <3>1. syncer' \in {"sleep", "done"}
      BY <2>1, Zenon DEF SyncReturns
    <3>2. QED
      BY <2>1, <3>1, Zenon DEF SyncReturns, Fsynced
  <2>2. CASE SyncStart \/ SyncFails \/ SyncCrashes
    BY <2>2, ZenonT(30) DEF SyncStart, SyncFails, SyncCrashes
  <2>3. QED
    BY <1>4, <2>1, <2>2, Zenon DEF Syncs
<1>5. CASE RewriteStart \/ Rewrites
  <2>1. CASE RewriteStart \/ RewriteReturns \/ RewriteFails
    BY <2>1, ZenonT(30) DEF RewriteStart, RewriteReturns, RewriteFails
  <2>2. CASE RewriteLosesFile \/ RewriteCrashes \/ RewriteClosed
    BY <2>2, ZenonT(30) DEF RewriteLosesFile, RewriteCrashes, RewriteClosed
  <2>3. QED
    BY <1>5, <2>1, <2>2, Zenon DEF Rewrites
<1>6. CASE CloseStart \/ ClosePut \/ CloseFinish
  <2>1. CASE CloseStart
    BY <2>1, Zenon DEF CloseStart, Overlapped
  <2>2. CASE ClosePut
    BY <2>2, Zenon DEF ClosePut
  <2>3. CASE CloseFinish
    BY <2>3, Zenon DEF CloseFinish, Fsynced
  <2>4. QED
    BY <1>6, <2>1, <2>2, <2>3, Zenon
<1>7. CASE UNCHANGED vars
  BY <1>7, ZenonT(30) DEF vars
<1>8. QED
  BY <1>1, <1>2, <1>3, <1>4, <1>5, <1>6, <1>7, Zenon DEF Next

\* AOFLog's state stays within its types however its tasks, a rewrite and close
\* interleave: the queue within queue_max_commands, also when close enqueues its
\* order to stop, and no more durable than the file has.
THEOREM WellTyped == Spec => []TypeOK
<1>1. Spec => []FlagInv
  BY FlagInit, FlagStep, PTL DEF Spec
<1>2. ASSUME TypeInv, FlagInv
      PROVE  TypeOK
  <2>1. 0..issued \subseteq 0..MaxCommands /\ 1..issued \subseteq 1..MaxCommands
    BY <1>2 DEF TypeInv
  <2>2. /\ issued \in 0..MaxCommands
        /\ caller \in [Caller -> {"idle", "putting", "waiting"}]
        /\ cmd \in [Caller -> 0..MaxCommands]
        /\ queue \in Seq(0..MaxCommands) /\ Len(queue) <= QueueMax
        /\ inflight \in 0..MaxCommands
        /\ file \in Seq(0..MaxCommands)
        /\ durable \in 0..Len(file)
        /\ acked \in SUBSET (1..MaxCommands)
    BY <1>2, <2>1 DEF TypeInv
  <2>3. QED
    BY <1>2, <2>2, Zenon DEF FlagInv, TypeOK
<1>3. QED
  BY <1>1, <1>2, TypeCorrect, PTL

-----------------------------------------------------------------------------
(* Tasks                                                                   *)

\* Which task runs under which policy; only the locked log is rewritten; appends
\* overlap with close only once it has begun.
TaskInv ==
  /\ syncer # "done" => config.policy = "everysec"
  /\ writer = "fsync" => config.policy = "always"
  /\ failure /\ config.policy = "always" => writer = "done"
  /\ rewriter => config.locked
  /\ overlap => closing # "no"

\* Only the policy's own tasks are started.
LEMMA TaskInit == Init => TaskInv
BY DEF Init, TaskInv

\* A task that ended is not started again.
LEMMA TaskStep ==
  ASSUME TaskInv, [Next]_vars
  PROVE  TaskInv'
<1> USE DEF TaskInv
<1>1. ASSUME NEW c \in Caller, Appends(c)
      PROVE  TaskInv'
  <2>1. CASE append(c)
    BY <2>1, Zenon DEF append
  <2>2. CASE AppendClosed(c)
    BY <2>2 DEF AppendClosed
  <2>3. CASE Put(c) \/ PutTimeout(c)
    BY <2>3 DEF Put, PutTimeout
  <2>4. QED
    BY <1>1, <2>1, <2>2, <2>3 DEF Appends
<1>2. CASE WriterGet
  BY <1>2 DEF WriterGet
<1>3. CASE Writes
  BY <1>3 DEF Writes, Write, WriterFsync, WriterFails, WriterCrashes
<1>4. CASE SyncStart \/ Syncs
  BY <1>4 DEF SyncStart, Syncs, SyncReturns, SyncFails, SyncCrashes
<1>5. CASE RewriteStart
  BY <1>5 DEF RewriteStart
<1>6. CASE Rewrites
  BY <1>6 DEF Rewrites, RewriteReturns, RewriteFails, RewriteLosesFile,
              RewriteCrashes, RewriteClosed
<1>7. CASE CloseStart
  BY <1>7 DEF CloseStart
<1>8. CASE ClosePut \/ CloseFinish
  BY <1>8 DEF ClosePut, CloseFinish
<1>9. CASE UNCHANGED vars
  BY <1>9 DEF vars
<1>10. QED
  BY <1>1, <1>2, <1>3, <1>4, <1>5, <1>6, <1>7, <1>8, <1>9 DEF Next

-----------------------------------------------------------------------------
(* What is on disk                                                         *)

\* The file before a write or an append is a prefix of the file after it.
LEMMA AppendFacts ==
  ASSUME TypeInv, NEW n \in Nat
  PROVE  /\ Len(Append(file, n)) = Len(file) + 1
         /\ Append(file, n)[Len(file) + 1] = n
         /\ \A i \in 1..Len(file) : Append(file, n)[i] = file[i]
BY DEF TypeInv

\* Writer, fsync loop, rewrite and close clear _dirty only when the file is on
\* disk or the log has failed.
LEMMA CleanStep ==
  ASSUME TypeInv, CleanMeansDurable, [Next]_vars
  PROVE  CleanMeansDurable'
<1> USE DEF CleanMeansDurable
<1>f. ASSUME Fsynced, UNCHANGED <<failure, file>>
      PROVE  CleanMeansDurable'
  BY <1>f DEF Fsynced
<1>h. issued \in 0..MaxCommands
  BY DEF TypeInv
<1>1. ASSUME NEW c \in Caller, Appends(c)
      PROVE  CleanMeansDurable'
  BY <1>1, Zenon DEF Appends, append, AppendClosed, Put, PutTimeout
<1>2. CASE WriterGet
  BY <1>2 DEF WriterGet
<1>3. CASE Writes
  BY <1>3, <1>f DEF Writes, Write, WriterFsync, WriterFails, WriterCrashes
<1>4. CASE SyncStart \/ Syncs
  BY <1>4, <1>f DEF SyncStart, Syncs, SyncReturns, SyncFails, SyncCrashes
<1>5. CASE RewriteStart \/ RewriteCrashes
  BY <1>5 DEF RewriteStart, RewriteCrashes
<1>6. CASE RewriteReturns \/ RewriteFails \/ RewriteLosesFile \/ RewriteClosed
  BY <1>6, <1>h, HistoryFacts
     DEF RewriteReturns, RewriteFails, RewriteLosesFile, RewriteClosed
<1>7. CASE CloseStart \/ ClosePut
  BY <1>7 DEF CloseStart, ClosePut
<1>8. CASE CloseFinish
  BY <1>8, <1>f DEF CloseFinish
<1>9. CASE UNCHANGED vars
  BY <1>9 DEF vars
<1>10. QED
  BY <1>1, <1>2, <1>3, <1>4, <1>5, <1>6, <1>7, <1>8, <1>9 DEF Next, Rewrites

\* _dirty is never clear while records of a log that has not failed are missing
\* on disk, whatever its tasks do.
THEOREM CleanLog == Spec => []CleanMeansDurable
<1>1. Init => CleanMeansDurable
  BY DEF Init, CleanMeansDurable
<1>2. QED
  BY <1>1, CleanStep, TypeCorrect, PTL DEF Spec

\* A step leaves the file and what is on disk, or adds to them ...
Grows ==
  /\ Len(file') >= Len(file)
  /\ durable' >= durable
  /\ \A i \in 1..Len(file) : file'[i] = file[i]

\* ... or is a rewrite.
Rewritten ==
  /\ rewriter
  /\ file' = History /\ durable' = issued
  /\ UNCHANGED <<issued, caller, writer, inflight, acked, overlap>>

\* Only a rewrite replaces records.
LEMMA FileStep ==
  ASSUME TypeInv, [Next]_vars
  PROVE  config' = config /\ (Grows \/ Rewritten)
<1>n. /\ Len(file) \in Nat /\ durable \in 0..Len(file)
      /\ issued \in Nat /\ inflight \in Nat /\ Torn \in Nat
  BY DEF TypeInv, Torn
<1>s. ASSUME UNCHANGED file, durable' \in {durable, Len(file)}
      PROVE  Grows
  BY <1>n, <1>s DEF Grows
<1>a. ASSUME NEW n \in Nat, file' = Append(file, n),
             durable' \in {durable, Len(file')}
      PROVE  Grows
  BY <1>n, <1>a, AppendFacts DEF Grows
<1>1. ASSUME NEW c \in Caller, Appends(c)
      PROVE  config' = config /\ Grows
  <2>1. CASE AppendClosed(c)
    <3>1. /\ \/ file' = file /\ durable' = durable
             \/ file' = Append(file, issued + 1) /\ durable' \in {durable, Len(file')}
          /\ config' = config
      BY <2>1 DEF AppendClosed
    <3>2. QED
      BY <1>n, <1>s, <1>a, <3>1
  <2>2. CASE append(c) \/ Put(c) \/ PutTimeout(c)
    BY <2>2, <1>s DEF append, Put, PutTimeout
  <2>3. QED
    BY <1>1, <2>1, <2>2 DEF Appends
<1>2. CASE WriterGet
  BY <1>2, <1>s DEF WriterGet
<1>3. CASE Writes
  <2>1. ASSUME NEW record \in {inflight, Torn}, Write(record)
        PROVE  config' = config /\ Grows
    BY <1>n, <1>a, <2>1 DEF Write
  <2>2. CASE WriterFsync
    BY <1>s, <2>2, FsyncedType DEF WriterFsync
  <2>3. CASE WriterFails \/ WriterCrashes
    BY <1>s, <2>3 DEF WriterFails, WriterCrashes
  <2>4. QED
    BY <1>3, <2>1, <2>2, <2>3 DEF Writes
<1>4. CASE SyncStart \/ Syncs
  BY <1>4, <1>s, FsyncedType DEF SyncStart, Syncs, SyncReturns, SyncFails, SyncCrashes
<1>5. CASE RewriteStart \/ RewriteCrashes
  BY <1>5, <1>s DEF RewriteStart, RewriteCrashes
<1>6. CASE RewriteReturns \/ RewriteFails \/ RewriteLosesFile \/ RewriteClosed
  BY <1>6, <1>s
     DEF RewriteReturns, RewriteFails, RewriteLosesFile, RewriteClosed, Rewritten
<1>7. CASE CloseStart \/ ClosePut
  BY <1>7, <1>s DEF CloseStart, ClosePut
<1>8. CASE CloseFinish
  BY <1>8, <1>s, FsyncedType DEF CloseFinish
<1>9. CASE UNCHANGED vars
  BY <1>9, <1>s DEF vars
<1>10. QED
  BY <1>1, <1>2, <1>3, <1>4, <1>5, <1>6, <1>7, <1>8, <1>9 DEF Next, Rewrites

-----------------------------------------------------------------------------
(* What was acknowledged                                                   *)

\* n is one of the first m records.
Stored(n, m) == \E i \in 1..m : file[i] = n

\* Where an acknowledged record has to be.
Promised == IF config.policy = "always" THEN durable ELSE Len(file)

\* While the writer fsyncs, its record is in the file.
AckInv ==
  /\ "short" \notin config.faults /\ writer = "fsync" => Stored(inflight, Len(file))
  /\ ~overlap /\ "short" \notin config.faults =>
       \A n \in acked : Stored(n, Promised)

\* A stored record stays stored: rewritten files hold every issued command.
LEMMA StoredStays ==
  ASSUME TypeInv, TypeInv', [Next]_vars, NEW n \in 1..issued
  PROVE  /\ Stored(n, Len(file)) => Stored(n, Len(file))'
         /\ Stored(n, Promised) => Stored(n, Promised)'
<1>n. /\ Len(file) \in Nat /\ durable \in 0..Len(file) /\ issued \in 0..MaxCommands
      /\ Len(file') \in Nat /\ durable' \in 0..Len(file')
  BY DEF TypeInv
<1>1. CASE Grows
  BY <1>1, <1>n, FileStep, SMTT(20) DEF Grows, Stored, Promised
<1>2. CASE Rewritten
  <2>1. file'[n] = n /\ n \in 1..Len(file') /\ n \in 1..durable'
    BY <1>2, <1>n, HistoryFacts DEF Rewritten
  <2>2. QED
    BY <2>1 DEF Stored, Promised
<1>3. QED
  BY <1>1, <1>2, FileStep

\* Steps that acknowledge, and the step to the fsync of a record.
LEMMA AckSteps ==
  ASSUME TypeInv, TaskInv, [Next]_vars
  PROVE  /\ ~overlap' => ~overlap
         /\ \/ /\ acked' = acked \/ overlap'
               /\ writer' = "fsync" => writer = "fsync" /\ inflight' = inflight
            \/ Write(inflight) \/ Write(Torn) \/ WriterFsync
<1> USE DEF TaskInv
<1>1. ASSUME NEW c \in Caller, Appends(c)
      PROVE  /\ ~overlap' => ~overlap
             /\ acked' = acked \/ overlap'
             /\ writer' = writer /\ inflight' = inflight
  <2>1. CASE append(c)
    BY <2>1, Zenon DEF append
  <2>2. CASE AppendClosed(c)
    BY <2>2, Zenon DEF AppendClosed
  <2>3. CASE Put(c) \/ PutTimeout(c)
    BY <2>3 DEF Put, PutTimeout
  <2>4. QED
    BY <1>1, <2>1, <2>2, <2>3 DEF Appends
<1>2. CASE WriterGet
  BY <1>2 DEF WriterGet
<1>3. CASE Writes
  BY <1>3 DEF Writes, Write, WriterFsync, WriterFails, WriterCrashes
<1>4. CASE SyncStart \/ Syncs
  BY <1>4 DEF SyncStart, Syncs, SyncReturns, SyncFails, SyncCrashes
<1>5. CASE RewriteStart
  BY <1>5 DEF RewriteStart
<1>6. CASE Rewrites
  BY <1>6 DEF Rewrites, RewriteReturns, RewriteFails, RewriteLosesFile,
              RewriteCrashes, RewriteClosed
<1>7. CASE CloseStart
  BY <1>7 DEF CloseStart
<1>8. CASE ClosePut \/ CloseFinish
  BY <1>8 DEF ClosePut, CloseFinish
<1>9. CASE UNCHANGED vars
  BY <1>9 DEF vars
<1>10. QED
  BY <1>1, <1>2, <1>3, <1>4, <1>5, <1>6, <1>7, <1>8, <1>9 DEF Next

\* A future completes only when its record is where the policy promises it.
LEMMA AckStep ==
  ASSUME TypeInv, TypeInv', TaskInv, CleanMeansDurable, AckInv, [Next]_vars
  PROVE  AckInv'
<1>c. config' = config
  BY FileStep
<1>n. /\ Len(file) \in Nat /\ durable \in 0..Len(file)
      /\ issued \in Nat /\ inflight \in 0..issued
      /\ writer \in {"write", "fsync"} => inflight \in 1..issued
      /\ acked \subseteq 1..issued
  BY DEF TypeInv, Stop
<1>w. ASSUME Write(inflight) \/ Write(Torn), "short" \notin config.faults
      PROVE  /\ file' = Append(file, inflight)
             /\ inflight' = inflight /\ durable' = durable
             /\ \/ config.policy = "always" /\ acked' = acked
                \/ config.policy # "always" /\ acked' = acked \cup {inflight}
             /\ writer' = "fsync" => config.policy = "always"
  BY <1>w DEF Write
<1>e. ASSUME Write(inflight) \/ Write(Torn), "short" \notin config.faults
      PROVE  Stored(inflight, Len(file))'
  <2>1. inflight' = inflight /\ Len(file') = Len(file) + 1
        /\ file'[Len(file) + 1] = inflight
    BY <1>e, <1>w, <1>n, AppendFacts
  <2>2. Len(file) + 1 \in 1..Len(file')
    BY <2>1, <1>n
  <2>3. QED
    BY <2>1, <2>2 DEF Stored
<1>1. ASSUME "short" \notin config'.faults, writer' = "fsync"
      PROVE  Stored(inflight, Len(file))'
  <2>1. CASE writer = "fsync" /\ inflight' = inflight
    <3>1. Stored(inflight, Len(file)) /\ inflight \in 1..issued
      BY <1>1, <1>c, <1>n, <2>1 DEF AckInv
    <3>2. \E i \in 1..Len(file') : file'[i] = inflight
      BY <3>1, StoredStays DEF Stored
    <3>3. QED
      BY <2>1, <3>2 DEF Stored
  <2>2. CASE Write(inflight) \/ Write(Torn)
    BY <1>1, <1>c, <1>e, <2>2
  <2>3. CASE WriterFsync
    BY <1>1, <2>3 DEF WriterFsync
  <2>4. QED
    BY <1>1, <2>1, <2>2, <2>3, AckSteps
<1>2. ASSUME ~overlap', "short" \notin config'.faults, NEW n \in acked'
      PROVE  Stored(n, Promised)'
  <2>o. ~overlap
    BY <1>2, AckSteps
  <2>1. CASE n \in acked
    BY <1>2, <1>c, <1>n, <2>o, <2>1, StoredStays, Zenon DEF AckInv
  <2>2. CASE n \notin acked
    <3>1. CASE Write(inflight) \/ Write(Torn)
      <4>1. n = inflight /\ config.policy # "always" /\ inflight' = inflight
        BY <1>2, <1>c, <1>w, <2>2, <3>1
      <4>2. QED
        BY <1>2, <1>c, <1>e, <3>1, <4>1 DEF Promised, Stored
    <3>2. CASE WriterFsync
      <4>1. n = inflight /\ config.policy = "always" /\ ~failure
        BY <2>2, <3>2 DEF WriterFsync, TaskInv
      <4>2. durable' = Len(file) /\ file' = file
        BY <3>2, <4>1 DEF WriterFsync, Fsynced, CleanMeansDurable
      <4>3. Stored(inflight, Len(file))
        BY <1>2, <1>c, <3>2 DEF AckInv, WriterFsync
      <4>4. QED
        BY <1>c, <4>1, <4>2, <4>3 DEF Stored, Promised
    <3>3. QED
      BY <1>2, <2>2, <3>1, <3>2, AckSteps
  <2>3. QED
    BY <2>1, <2>2
<1>3. QED
  BY <1>1, <1>2 DEF AckInv

\* An append that returned has its record in the file, and under "always" on
\* disk, whatever other callers, the fsync loop, rewrites and faults do.
THEOREM AckedIsStored == Spec => []AckedInFile
<1>1. Init => TaskInv /\ CleanMeansDurable /\ AckInv
  BY TaskInit DEF Init, CleanMeansDurable, AckInv
<1>2. AckInv => AckedInFile
  BY DEF AckInv, AckedInFile, Stored, Promised
<1>3. QED
  BY <1>1, <1>2, TaskStep, CleanStep, AckStep, TypeCorrect, PTL DEF Spec

-----------------------------------------------------------------------------
(* Behind the write lock                                                   *)

Active == \E c \in Caller : caller[c] # "idle"

Awaited(n) == \E c \in Caller : caller[c] = "waiting" /\ cmd[c] = n

\* One caller at a time appends, and not during a rewrite; its command is the
\* last one issued, and nothing else is queued or written.
OneAppend ==
  /\ \A c, d \in Caller : caller[c] # "idle" /\ caller[d] # "idle" => c = d
  /\ rewriter => ~Active
  /\ \A c \in Caller : caller[c] # "idle" => cmd[c] = issued /\ issued # Stop
  /\ \A i \in DOMAIN queue : queue[i] # Stop =>
       Awaited(queue[i]) /\ writer \notin {"write", "fsync"}
  /\ \A i, j \in DOMAIN queue : queue[i] # Stop /\ queue[j] # Stop => i = j
  /\ writer \in {"write", "fsync"} => Awaited(inflight)
  /\ closing = "no" => \A i \in DOMAIN queue : queue[i] # Stop

LockInv == config.locked => OneAppend

\* Nothing is appended at first.
LEMMA LockInit == Init => LockInv
BY DEF Init, LockInv, OneAppend, Active

\* The lock is free when an append or a rewrite begins, and held until it ends.
LEMMA LockStep ==
  ASSUME TypeInv, LockInv, [Next]_vars
  PROVE  LockInv'
<1>c. config' = config
  BY FileStep
<1> SUFFICES ASSUME config.locked, OneAppend PROVE OneAppend'
  BY <1>c DEF LockInv
<1>t. /\ caller \in [Caller -> {"idle", "putting", "waiting"}]
      /\ cmd \in [Caller -> 0..issued]
      /\ queue \in Seq(0..issued) /\ Len(queue) \in Nat
      /\ issued \in Nat /\ inflight \in 0..issued
      /\ writer \in {"write", "fsync"} => inflight # Stop
  BY DEF TypeInv
<1>q. ASSUME NEW n \in Nat, queue' = Append(queue, n)
      PROVE  /\ DOMAIN queue = 1..Len(queue)
             /\ DOMAIN queue' = 1..(Len(queue) + 1)
             /\ queue'[Len(queue) + 1] = n
             /\ \A i \in 1..Len(queue) : queue'[i] = queue[i]
  BY <1>t, <1>q
<1>1. ASSUME NEW c \in Caller, Appends(c)
      PROVE  OneAppend'
  <2>1. CASE append(c)
    <3>1. /\ ~Active /\ ~rewriter
          /\ caller' = [caller EXCEPT ![c] = "putting"]
          /\ cmd' = [cmd EXCEPT ![c] = issued + 1] /\ issued' = issued + 1
          /\ UNCHANGED <<queue, writer, inflight, rewriter, closing>>
      BY <2>1 DEF append, MayAppend, Quiet, Active
    <3>2. /\ \A i \in DOMAIN queue : queue[i] = Stop
          /\ writer \notin {"write", "fsync"}
      BY <3>1 DEF OneAppend, Active, Awaited
    <3>3. QED
      BY <1>t, <3>1, <3>2 DEF OneAppend, Active, Awaited, Stop
  <2>2. CASE AppendClosed(c)
    <3>1. /\ ~Active
          /\ UNCHANGED <<caller, cmd, queue, writer, inflight, rewriter, closing>>
      BY <2>2 DEF AppendClosed, MayAppend, Quiet, Active
    <3>2. QED
      BY <3>1 DEF OneAppend, Active, Awaited
  <2>3. CASE Put(c)
    <3>1. /\ caller[c] = "putting"
          /\ caller' = [caller EXCEPT ![c] = "waiting"]
          /\ queue' = Append(queue, cmd[c])
          /\ UNCHANGED <<issued, cmd, writer, inflight, rewriter, closing>>
      BY <2>3 DEF Put
    <3>2. cmd[c] \in Nat /\ cmd[c] # Stop /\ cmd[c] = issued
      BY <1>t, <3>1 DEF OneAppend
    <3>3. /\ \A i \in DOMAIN queue : queue[i] = Stop
          /\ writer \notin {"write", "fsync"}
      BY <3>1 DEF OneAppend, Awaited
    <3>4. caller'[c] = "waiting" /\ \A d \in Caller \ {c} : caller'[d] = caller[d]
      BY <1>t, <3>1
    <3>5. Awaited(cmd[c])'
      BY <3>1, <3>4 DEF Awaited
    <3>6. \A i \in DOMAIN queue' : queue'[i] # Stop => i = Len(queue) + 1 /\ queue'[i] = cmd[c]
      BY <1>q, <3>1, <3>2, <3>3
    <3>7. closing' = "no" => \A i \in DOMAIN queue' : queue'[i] # Stop
      BY <1>q, <3>1, <3>2 DEF OneAppend
    <3>8. QED
      BY <3>1, <3>2, <3>3, <3>4, <3>5, <3>6, <3>7 DEF OneAppend, Active, Awaited
  <2>4. CASE PutTimeout(c)
    <3>1. /\ caller[c] = "putting"
          /\ caller' = [caller EXCEPT ![c] = "idle"]
          /\ UNCHANGED <<issued, cmd, queue, writer, inflight, rewriter, closing>>
      BY <2>4 DEF PutTimeout
    <3>2. QED
      BY <1>t, <3>1 DEF OneAppend, Active, Awaited
  <2>5. QED
    BY <1>1, <2>1, <2>2, <2>3, <2>4 DEF Appends
<1>2. CASE WriterGet
  <2>1. /\ queue # <<>> /\ writer = "get"
        /\ inflight' = queue[1]
        /\ writer' = IF queue[1] = Stop THEN "done" ELSE "write"
        /\ queue' = Tail(queue)
        /\ UNCHANGED <<issued, caller, cmd, rewriter, closing>>
    BY <1>2, <1>t DEF WriterGet
  <2>2. /\ 1 \in DOMAIN queue
        /\ \A i \in DOMAIN queue' : i + 1 \in DOMAIN queue /\ queue'[i] = queue[i + 1]
                                    /\ i + 1 # 1 /\ i \in Nat
    BY <1>t, <2>1
  <2>3. CASE queue[1] = Stop
    BY <2>1, <2>2, <2>3, SMTT(20) DEF OneAppend, Active, Awaited
  <2>4. CASE queue[1] # Stop
    <3>1. \A i \in DOMAIN queue' : queue'[i] = Stop
      BY <2>2, <2>4 DEF OneAppend
    <3>2. closing = "no" => \A i \in DOMAIN queue' : queue'[i] # Stop
      BY <2>2 DEF OneAppend
    <3>3. Awaited(inflight)'
      BY <2>1, <2>2, <2>4 DEF OneAppend, Awaited
    <3>4. QED
      BY <2>1, <3>1, <3>2, <3>3 DEF OneAppend, Active
  <2>5. QED
    BY <2>3, <2>4
<1>d. ASSUME writer \in {"write", "fsync"}, NEW S, inflight \in S, Complete(S),
             UNCHANGED <<issued, cmd, inflight, rewriter, closing>>,
             queue' \in {queue, <<>>}, writer' \in {"get", "done"}
      PROVE  OneAppend' /\ ~Active'
  <2>1. \A c \in Caller : caller'[c] = IF caller[c] = "waiting" /\ cmd[c] \in S
                                       THEN "idle" ELSE caller[c]
    BY <1>d, CompleteType
  <2>2. PICK w \in Caller : caller[w] = "waiting" /\ cmd[w] = inflight
    BY <1>d DEF OneAppend, Awaited
  <2>3. \A c \in Caller : caller'[c] = "idle"
    BY <1>d, <2>1, <2>2 DEF OneAppend
  <2>4. \A i \in DOMAIN queue' : i \in DOMAIN queue /\ queue'[i] = queue[i]
    BY <1>d, <1>t
  <2>5. \A i \in DOMAIN queue' : queue'[i] = Stop
    BY <1>d, <2>4 DEF OneAppend
  <2>6. ~Active'
    BY <2>3 DEF Active
  <2>7. QED
    BY <1>d, <2>3, <2>4, <2>5, <2>6 DEF OneAppend
<1>3. CASE Writes
  <2>1. ASSUME NEW record \in {inflight, Torn}, Write(record)
        PROVE  OneAppend'
    <3>1. CASE config.policy = "always"
      BY <2>1, <3>1, SMTT(20) DEF Write, OneAppend, Active, Awaited
    <3>2. CASE config.policy # "always"
      BY <1>d, <2>1, <3>2 DEF Write
    <3>3. QED
      BY <3>1, <3>2
  <2>2. CASE WriterFsync
    BY <1>d, <2>2 DEF WriterFsync
  <2>3. CASE WriterFails
    BY <1>d, <2>3 DEF WriterFails
  <2>4. CASE WriterCrashes
    BY <2>4, SMTT(20) DEF WriterCrashes, OneAppend, Active, Awaited
  <2>5. QED
    BY <1>3, <2>1, <2>2, <2>3, <2>4 DEF Writes
<1>4. CASE SyncStart \/ SyncReturns \/ SyncCrashes
  BY <1>4, SMTT(20) DEF SyncStart, SyncReturns, SyncCrashes, OneAppend, Active, Awaited
<1>5. CASE SyncFails
  <2>1. /\ Complete(Queued) /\ queue' = <<>>
        /\ UNCHANGED <<issued, cmd, writer, inflight, rewriter, closing>>
    BY <1>5, Zenon DEF SyncFails
  <2>2. \A c \in Caller : caller'[c] = IF caller[c] = "waiting" /\ cmd[c] \in Queued
                                       THEN "idle" ELSE caller[c]
    BY <2>1, CompleteType
  <2>3. DOMAIN queue' = {}
    BY <2>1
  <2>4. ASSUME writer \in {"write", "fsync"} PROVE Awaited(inflight)'
    <3>1. inflight \notin Queued
      BY <1>t, <2>4 DEF OneAppend, Queued
    <3>2. PICK w \in Caller : caller[w] = "waiting" /\ cmd[w] = inflight
      BY <2>4 DEF OneAppend, Awaited
    <3>3. QED
      BY <2>1, <2>2, <3>1, <3>2 DEF Awaited
  <2>5. \A c \in Caller : caller'[c] # "idle" => caller[c] # "idle"
    BY <2>2
  <2>6. QED
    BY <2>1, <2>3, <2>4, <2>5, Zenon DEF OneAppend, Active
<1>6. CASE RewriteStart
  BY <1>6, SMTT(20) DEF RewriteStart, Quiet, OneAppend, Active, Awaited
<1>7. CASE Rewrites
  BY <1>7 DEF Rewrites, RewriteReturns, RewriteFails, RewriteLosesFile,
              RewriteCrashes, RewriteClosed, OneAppend, Active, Awaited
<1>8. CASE CloseStart \/ ClosePut
  <2>1. /\ queue' = queue \/ queue' = Append(queue, Stop)
        /\ closing' # "no"
        /\ UNCHANGED <<issued, caller, cmd, writer, inflight, rewriter>>
    BY <1>8 DEF CloseStart, ClosePut
  <2>2. \A i \in DOMAIN queue' : queue'[i] # Stop =>
          i \in DOMAIN queue /\ queue'[i] = queue[i]
    BY <1>q, <2>1 DEF Stop
  <2>3. /\ \A n : Awaited(n)' <=> Awaited(n)
        /\ Active' <=> Active
    BY <2>1 DEF Awaited, Active
  <2>4. QED
    BY <2>1, <2>2, <2>3, Zenon DEF OneAppend
<1>9. CASE CloseFinish
  <2>1. /\ DOMAIN queue' = {} /\ writer = "done"
        /\ UNCHANGED <<issued, caller, cmd, writer, inflight, rewriter>>
    BY <1>9 DEF CloseFinish
  <2>2. QED
    BY <2>1 DEF OneAppend, Active
<1>10. CASE UNCHANGED vars
  BY <1>10 DEF vars, OneAppend, Active, Awaited
<1>11. QED
  BY <1>1, <1>2, <1>3, <1>4, <1>5, <1>6, <1>7, <1>8, <1>9, <1>10 DEF Next, Syncs

\* A command that is being appended is not in the file before it is written.
Room ==
  /\ Len(file) <= issued
  /\ Active /\ writer # "fsync" => Len(file) < issued

\* The file is the history, without its last command while that is appended or
\* when the log failed to write it.
InOrder ==
  /\ \A i \in 1..Len(file) : file[i] = i
  /\ Active => closing = "no"
  /\ Active /\ writer # "fsync" => Len(file) + 1 = issued
  /\ ~Active /\ ~failure => Len(file) = issued
  /\ writer = "fsync" => Len(file) = issued

HistInv ==
  config.locked => Room /\ (~overlap /\ "short" \notin config.faults => InOrder)

\* The file is empty and so is the history.
LEMMA HistInit == Init => HistInv
BY SMTT(20) DEF Init, HistInv, Room, InOrder, Active

\* The write lock keeps the order of the file: a command is issued when all
\* earlier ones are written, or not at all after a failure.
LEMMA HistStep ==
  ASSUME TypeInv, TaskInv, LockInv, HistInv, [Next]_vars
  PROVE  HistInv'
<1> DEFINE Sound == ~overlap /\ "short" \notin config.faults => InOrder
<1>c. config' = config
  BY FileStep
<1>o. ~overlap' => ~overlap
  BY AckSteps
<1>t. /\ issued \in 0..MaxCommands /\ inflight \in 0..issued
      /\ Len(file) \in Nat
      /\ caller \in [Caller -> {"idle", "putting", "waiting"}]
  BY DEF TypeInv
<1> SUFFICES ASSUME config.locked, OneAppend, OneAppend', Room, Sound
             PROVE  Room' /\ Sound'
  BY <1>c, LockStep DEF LockInv, HistInv
<1>s. ASSUME UNCHANGED <<file, issued, closing>>, Active' <=> Active,
             writer' = "fsync" <=> writer = "fsync", failure => failure'
      PROVE  Room' /\ Sound'
  BY <1>c, <1>o, <1>s DEF Room, InOrder
<1>e. ASSUME UNCHANGED <<file, issued>>, ~Active', writer' # "fsync",
             failure' \/ writer = "fsync"
      PROVE  Room' /\ Sound'
  BY <1>c, <1>o, <1>e DEF Room, InOrder
<1>x. ASSUME UNCHANGED <<file, issued, caller, writer, failure>>,
             closing # "no" \/ (~overlap' => ~Active)
      PROVE  Room' /\ Sound'
  BY <1>c, <1>o, <1>x DEF Room, InOrder, Active
<1>d. ASSUME writer \in {"write", "fsync"}
      PROVE  /\ Active /\ inflight = issued
             /\ \A c \in Caller : caller[c] # "idle" =>
                                    caller[c] = "waiting" /\ cmd[c] = inflight
  BY <1>d DEF OneAppend, Awaited, Active
<1>i. ASSUME writer \in {"write", "fsync"}, NEW S, inflight \in S, Complete(S)
      PROVE  ~Active'
  BY <1>d, <1>i, CompleteType DEF Active
<1>1. ASSUME NEW c \in Caller, Appends(c)
      PROVE  Room' /\ Sound'
  <2>1. CASE append(c)
    <3>1. /\ ~Active /\ ~failure /\ issued' = issued + 1
          /\ UNCHANGED <<file, writer, closing>>
          /\ ~overlap' => closing = "no"
      BY <2>1, Zenon DEF append, MayAppend, Quiet, Active
    <3>2. caller'[c] = "putting"
      BY <1>t, <2>1 DEF append
    <3>3. Active' /\ writer # "fsync"
      BY <1>d, <3>1, <3>2 DEF Active
    <3>4. QED
      BY <1>c, <1>o, <1>t, <3>1, <3>3 DEF Room, InOrder
  <2>2. CASE AppendClosed(c)
    <3>1. /\ ~Active /\ overlap' /\ issued' = issued + 1 /\ UNCHANGED caller
          /\ file' \in {file, Append(file, issued + 1)}
      BY <2>2 DEF AppendClosed, MayAppend, Quiet, Active
    <3>2. ~Active' /\ Len(file') <= Len(file) + 1
      BY <1>t, <3>1, AppendFacts DEF Active
    <3>3. QED
      BY <1>t, <3>1, <3>2 DEF Room
  <2>3. CASE Put(c)
    <3>1. Active /\ Active'
      BY <1>t, <2>3 DEF Put, Active
    <3>2. QED
      BY <1>s, <2>3, <3>1 DEF Put
  <2>4. CASE PutTimeout(c)
    <3>1. /\ caller[c] = "putting" /\ Len(queue) = QueueMax
          /\ UNCHANGED <<file, issued, writer, overlap, closing>>
      BY <2>4 DEF PutTimeout
    <3>2. Active /\ writer # "fsync"
      BY <1>d, <3>1 DEF Active
    <3>3. 1 \in DOMAIN queue
      BY <3>1 DEF TypeInv
    <3>4. closing # "no"
      BY <3>1, <3>3 DEF OneAppend, Awaited
    <3>5. QED
      BY <1>c, <3>1, <3>2, <3>4 DEF Room, InOrder
  <2>5. QED
    BY <1>1, <2>1, <2>2, <2>3, <2>4 DEF Appends
<1>2. CASE WriterGet
  <2>1. /\ UNCHANGED <<file, issued, closing, caller, failure>>
        /\ writer # "fsync" /\ writer' # "fsync"
    BY <1>2 DEF WriterGet
  <2>2. QED
    BY <1>s, <2>1 DEF Active
<1>3. CASE Writes
  <2>1. ASSUME NEW record \in {inflight, Torn}, Write(record)
        PROVE  Room' /\ Sound'
    <3>1. /\ writer = "write" /\ file' = Append(file, record)
          /\ record = inflight \/ "short" \in config.faults
          /\ UNCHANGED <<issued, closing>>
      BY <2>1 DEF Write
    <3>2. writer' = "fsync" \/ ~Active'
      BY <1>i, <2>1 DEF Write
    <3>3. /\ Len(file') = Len(file) + 1 /\ file'[Len(file) + 1] = record
          /\ \A i \in 1..Len(file) : file'[i] = file[i]
      BY <1>t, <3>1, AppendFacts DEF Torn
    <3>4. Active /\ inflight = issued /\ Len(file) < issued
      BY <1>d, <3>1 DEF Room
    <3>5. Room'
      BY <1>t, <3>1, <3>2, <3>3, <3>4 DEF Room
    <3>6. ASSUME ~overlap', "short" \notin config'.faults
          PROVE  InOrder'
      <4>1. InOrder /\ record = issued /\ Len(file) + 1 = issued
        BY <1>c, <1>o, <3>1, <3>4, <3>6 DEF InOrder
      <4>2. \A i \in 1..Len(file') : file'[i] = i
        BY <1>t, <3>3, <4>1 DEF InOrder
      <4>3. QED
        BY <3>1, <3>2, <3>3, <3>4, <4>1, <4>2 DEF InOrder
    <3>7. QED
      BY <3>5, <3>6
  <2>2. CASE WriterFsync
    BY <1>e, <1>i, <2>2 DEF WriterFsync
  <2>3. CASE WriterFails
    BY <1>e, <1>i, <2>3 DEF WriterFails
  <2>4. CASE WriterCrashes
    BY <1>s, <2>4 DEF WriterCrashes, Active
  <2>5. QED
    BY <1>3, <2>1, <2>2, <2>3, <2>4 DEF Writes
<1>4. CASE SyncStart \/ SyncReturns \/ SyncCrashes
  BY <1>4, <1>s DEF SyncStart, SyncReturns, SyncCrashes, Active
<1>5. CASE SyncFails
  <2>1. /\ UNCHANGED <<file, issued, closing, writer>> /\ failure'
        /\ Active' => Active
    BY <1>5, CompleteType, Zenon DEF SyncFails, Active
  <2>2. CASE Active'
    BY <1>s, <2>1, <2>2, Zenon
  <2>3. CASE ~Active'
    BY <1>e, <2>1, <2>3 DEF OneAppend, Awaited, Active
  <2>4. QED
    BY <2>2, <2>3
<1>6. CASE RewriteStart \/ RewriteCrashes
  <2>1. UNCHANGED <<file, issued, closing, caller, writer, failure>>
    BY <1>6, Zenon DEF RewriteStart, RewriteCrashes
  <2>2. QED
    BY <1>s, <2>1 DEF Active
<1>7. CASE RewriteReturns \/ RewriteFails \/ RewriteLosesFile \/ RewriteClosed
  <2>1. /\ file' = file \/ file' = History
        /\ rewriter
        /\ UNCHANGED <<issued, caller, writer, failure, closing>>
    BY <1>7, Zenon DEF RewriteReturns, RewriteFails, RewriteLosesFile, RewriteClosed
  <2>2. CASE file' = file
    BY <1>s, <2>1, <2>2, Zenon DEF Active
  <2>3. CASE file' = History
    <3>1. ~Active /\ ~Active'
      BY <2>1 DEF OneAppend, Active
    <3>2. Len(file') = issued /\ \A i \in 1..issued : file'[i] = i
      BY <1>t, <2>3, HistoryFacts, SMTT(20)
    <3>3. QED
      BY <1>t, <2>1, <3>1, <3>2, SMTT(20) DEF Room, InOrder
  <2>4. QED
    BY <2>1, <2>2, <2>3, SMTT(20)
<1>8. CASE CloseStart
  <2>1. ~overlap' => ~Active
    BY <1>8 DEF CloseStart, Overlapped, Active
  <2>2. QED
    BY <1>8, <1>x, <2>1, Zenon DEF CloseStart
<1>9. CASE ClosePut \/ CloseFinish
  BY <1>9, <1>x DEF ClosePut, CloseFinish
<1>10. CASE UNCHANGED vars
  BY <1>10, <1>s DEF vars, Active
<1>11. QED
  BY <1>1, <1>2, <1>3, <1>4, <1>5, <1>6, <1>7, <1>8, <1>9, <1>10
     DEF Next, Syncs, Rewrites

\* What the log's steps preserve.
LogInv == TypeInv /\ TaskInv /\ CleanMeansDurable /\ AckInv /\ LockInv /\ HistInv

\* The invariants of the log together.
LEMMA LogInvariant == Spec => []LogInv
<1>1. Init => LogInv
  BY TypeInit, TaskInit, LockInit, HistInit
     DEF LogInv, Init, CleanMeansDurable, AckInv
<1>2. LogInv /\ [Next]_vars => LogInv'
  BY TypeStep, TaskStep, CleanStep, AckStep, LockStep, HistStep DEF LogInv
<1>3. QED
  BY <1>1, <1>2, PTL DEF Spec

\* Behind the server's write lock the file is always a prefix of the command
\* history, through faults and rewrites, until close meets an append.
THEOREM ReplayInOrder == Spec => []ReplayIsHistory
<1>1. LogInv => ReplayIsHistory
  BY DEF LogInv, TypeInv, HistInv, InOrder, ReplayIsHistory
<1>2. QED
  BY <1>1, LogInvariant, PTL

\* A record that is on disk stays there: a rewrite leaves no fewer records than
\* it found, because nothing is issued while it runs.
THEOREM DurabilityGrows == Spec => DurableStays
<1>1. LogInv /\ [Next]_vars => [durable' >= durable]_vars
  <2> SUFFICES ASSUME LogInv, [Next]_vars PROVE durable' >= durable
    OBVIOUS
  <2>1. CASE Grows
    BY <2>1 DEF Grows
  <2>2. CASE Rewritten
    BY <2>2 DEF Rewritten, LogInv, TypeInv, TaskInv, HistInv, Room
  <2>3. QED
    BY <2>1, <2>2, FileStep DEF LogInv
<1>2. QED
  BY <1>1, LogInvariant, PTL DEF Spec, DurableStays

-----------------------------------------------------------------------------
(* The log of a server that is stopped                                     *)

\* Every step of the server is a step of its log, or leaves the log alone.
LEMMA ServerStep ==
  ASSUME [ShutdownNext]_allVars
  PROVE  [Next]_vars
<1>1. ASSUME NEW c \in Caller, Handlers(c)
      PROVE  [Next]_vars
  BY <1>1 DEF Handlers, Start, Command, End, Next, Appends
<1>2. CASE StopBegin \/ Stops
  BY <1>2 DEF StopBegin, Stops, CloseServer, ServerClosed, WritersClosed,
              ClientsDone, Next
<1>3. CASE Log
  BY <1>3 DEF Log, Next, Appends
<1>4. CASE RewriteEnds
  BY <1>4 DEF RewriteEnds, Next
<1>5. CASE UNCHANGED allVars
  BY <1>5 DEF allVars
<1>6. QED
  BY <1>1, <1>2, <1>3, <1>4, <1>5 DEF ShutdownNext

\* The log behaves as AofLog says also while stop ends clients and closes it.
THEOREM ServerUsesLog == ShutdownSpec => Spec
<1>1. ShutdownInit => Init
  BY DEF ShutdownInit
<1>2. QED
  BY <1>1, ServerStep, PTL DEF ShutdownSpec, Spec

\* In a server that is stopped every acknowledged write is where the fsync policy
\* promises it and the file is in order, for any clients; its durable part never
\* shrinks.
THEOREM StoppedLog ==
  ShutdownSpec => []AckedInFile /\ []ReplayIsHistory /\ DurableStays
BY ServerUsesLog, AckedIsStored, ReplayInOrder, DurabilityGrows, PTL

\* How far stop is, and what has become of the handlers it knew of.
StopInv ==
  /\ conn \in [Caller -> {"made", "served", "ended"}]
  /\ use.stops =>
       /\ closing # "no" => stop = "log"
       /\ stop = "writers" => \A c \in Caller \ late : conn[c] # "made"
       /\ stop = "clients" => \A c \in Caller \ late : conn[c] = "ended" \/ c \in awaited
       /\ stop = "log" => \A c \in Caller \ late : conn[c] = "ended"

\* stop has not begun, and the log is open.
LEMMA StopInit == ShutdownInit => StopInv
BY SMTT(20) DEF ShutdownInit, Init, StopInv

\* A handler that stop knew of does not start again.
LEMMA StopStep ==
  ASSUME StopInv, [ShutdownNext]_allVars
  PROVE  StopInv'
<1> USE DEF StopInv
<1>1. ASSUME NEW c \in Caller, Handlers(c)
      PROVE  StopInv'
  <2>1. CASE Start(c)
    BY <2>1 DEF Start, vars
  <2>2. CASE Command(c)
    BY <2>2 DEF Command, append, AppendClosed, stopVars
  <2>3. CASE End(c)
    BY <2>3 DEF End, vars
  <2>4. QED
    BY <1>1, <2>1, <2>2, <2>3 DEF Handlers
<1>2. CASE StopBegin
  BY <1>2 DEF StopBegin, vars
<1>3. CASE CloseServer \/ ServerClosed
  BY <1>3 DEF CloseServer, ServerClosed, CloseWriters, Served, vars
<1>4. CASE WritersClosed
  BY <1>4 DEF WritersClosed, Served, vars
<1>5. CASE ClientsDone
  BY <1>5 DEF ClientsDone
<1>6. CASE Log
  <2>1. UNCHANGED stopVars /\ (use.stops => (closing = "no" => closing' = "no"))
    BY <1>6, Zenon DEF Log, Put, PutTimeout, WriterGet, Writes, Write, WriterFsync,
                WriterFails, WriterCrashes, SyncStart, Syncs, SyncReturns, SyncFails,
                SyncCrashes, RewriteStart, ClosePut, CloseFinish
  <2>2. QED
    BY <2>1 DEF stopVars
<1>7. CASE RewriteEnds
  BY <1>7, Zenon DEF RewriteEnds, Rewrites, RewriteReturns, RewriteFails,
              RewriteLosesFile, RewriteCrashes, RewriteClosed
<1>8. CASE UNCHANGED allVars
  BY <1>8 DEF allVars, vars, stopVars
<1>9. QED
  BY <1>1, <1>2, <1>3, <1>4, <1>5, <1>6, <1>7, <1>8 DEF ShutdownNext, Stops

\* When close begins no handler is left that could append, except those whose
\* connection came too late for stop, for any number of connections.
THEOREM LogClosedLast == ShutdownSpec => []LogOutlivesClients
<1>1. StopInv => LogOutlivesClients
  BY Zenon DEF StopInv, LogOutlivesClients
<1>2. QED
  BY <1>1, StopInit, StopStep, PTL DEF ShutdownSpec

=============================================================================
