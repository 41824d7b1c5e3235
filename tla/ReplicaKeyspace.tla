-------------------------- MODULE ReplicaKeyspace --------------------------
(***************************************************************************)
(* A replica's keyspace beside its master's: the snapshot that the replica *)
(* loads (load_entries in replica.py), the commands it then applies        *)
(* (_apply_replicated_command, with the replica's branch of                *)
(* _execute_inner), its reads, expiry, AOF and restart.                    *)
(*                                                                         *)
(* Replication models how the stream is made and read; here it is a        *)
(* sequence of items, a snapshot and then commands, of which those that the*)
(* replica reads together with the end of the snapshot are lost.  Both     *)
(* servers have the same clock.                                            *)
(***************************************************************************)
EXTENDS Keyspace

ASSUME ReplicaAssumption ==
  \A u \in Setups :
    /\ u.replicated \in BOOLEAN  \* a replica may connect
    /\ u.replica.maxmemory \in Nat
    /\ u.replica.policy \in {"noeviction", "allkeys-lru", "volatile-ttl"}

VARIABLES
  linked,  \* the master has a link to the replica
  feed,    \* items sent to the replica and not yet applied
  intact,  \* history: the session has lost no command
  rstore,  \* the replica's keyspace
  rlog     \* the commands in the replica's AOF

replicaVars == <<linked, feed, intact, rstore, rlog>>
allVars == <<vars, replicaVars>>

ReplicaInit ==
  /\ Init
  /\ linked = FALSE
  /\ feed = <<>>
  /\ intact = TRUE
  /\ rstore = EmptyStore
  /\ rlog = <<>>

----------------------------------------------------------------------------
(* The master's side. *)

\* Everything but writes, propagation and restarts.  The bound of the model holds
\* for the replica's log too.
MasterServes ==
  /\ Serves \/ (Len(rlog \o feed) < setup.maxLog /\ Writes)
  /\ UNCHANGED replicaVars

\* An append returns, and the command is propagated.
MasterAppended ==
  /\ Appended
  /\ feed' = IF linked THEN Append(feed, Head(pending)) ELSE feed
  /\ UNCHANGED <<linked, intact, rstore, rlog>>

\* Bug: the snapshot does not wait for the write lock.
Psync_NoLock ==
  /\ setup.replicated /\ ~linked
  /\ store' = purge_expired(store, now)
  /\ Packable(store')
  /\ linked' = TRUE /\ intact' = TRUE
  /\ feed' = <<[name |-> "SNAPSHOT", rdb |-> dump_rdb_entries(store')]>>
  /\ UNCHANGED <<setup, now, pending, log, healthy, partial, rewrite, bgsave,
                 rdb, rstore, rlog>>

\* full_resync: the link is registered and the snapshot taken under the lock.
\* (If the snapshot cannot be packed the connection is closed and no link is
\* left: what remains of such an attempt is a step of Dbsize.)
Psync ==
  /\ setup.replicated /\ ~linked
  /\ ~Locked
  /\ store' = purge_expired(store, now)
  /\ Packable(store')
  /\ linked' = TRUE /\ intact' = TRUE
  /\ feed' = <<[name |-> "SNAPSHOT", rdb |-> dump_rdb_entries(store')]>>
  /\ UNCHANGED <<setup, now, pending, log, healthy, partial, rewrite, bgsave,
                 rdb, rstore, rlog>>

\* The connection is lost, and what was on its way.
Disconnect ==
  /\ linked
  /\ linked' = FALSE /\ feed' = <<>>
  /\ UNCHANGED <<vars, intact, rstore, rlog>>

MasterRestart ==
  /\ Restart
  /\ linked' = FALSE /\ feed' = <<>>
  /\ UNCHANGED <<intact, rstore, rlog>>

----------------------------------------------------------------------------
(* The replica's side. *)

\* The replica's keyspace after an item at time t: a snapshot replaces everything;
\* a command is executed under the replica's own limit m.
Applied(s, item, t, m) ==
  IF item.name = "SNAPSHOT" THEN load_rdb(item.rdb, t)
  ELSE execute(s, item, t, m).store

\* The replica loads the snapshot.  The first n commands behind it were complete
\* in the read that completed the RDB: the parser returns them to _read_rdb_bulk,
\* which does not use them.  (A snapshot that is not accepted would end the
\* session.)
LoadSnapshot(n) ==
  /\ Head(feed).name = "SNAPSHOT"
  /\ rdb_accepted(Head(feed).rdb)
  /\ rstore' = load_rdb(Head(feed).rdb, now)
  /\ feed' = SubSeq(feed, n + 2, Len(feed))
  /\ intact' = (intact /\ n = 0)
  /\ rlog' = rlog

\* The replica applies the next command.  One that was not refused goes to the
\* AOF, by itself: neither the keys evicted for it nor a snapshot are logged.  An
\* append that fails is an error reply that nobody reads.
ApplyCommand ==
  /\ Head(feed).name # "SNAPSHOT"
  /\ rstore' = execute(rstore, Head(feed), now, setup.replica).store
  /\ feed' = Tail(feed)
  /\ \/ rlog' = rlog
     \/ /\ execute(rstore, Head(feed), now, setup.replica).effects # <<>>
        /\ rlog' = Append(rlog, Head(feed))
  /\ intact' = intact

Apply ==
  /\ feed # <<>>
  /\ ApplyCommand \/ \E n \in 0..Len(feed) - 1 : LoadSnapshot(n)
  /\ UNCHANGED <<vars, linked>>

\* A client of the replica reads.  (Its writes are refused: READONLY.)
ReplicaGet(k) ==
  /\ setup.replicated
  /\ rstore' = touch(rstore, k, now)
  /\ UNCHANGED <<vars, linked, feed, intact, rlog>>

ReplicaExpire ==
  /\ \E K \in kSubset(Min({SampleSize, Cardinality(keys(rstore))}), keys(rstore)) :
       rstore' = drop(rstore, K \cap expired(rstore, now))
  /\ UNCHANGED <<vars, linked, feed, intact, rlog>>

\* The replica is killed and started again.
ReplicaRestart ==
  /\ setup.replicated /\ setup.restarts
  /\ rstore' = replay(rlog, now, setup.replica)
  /\ linked' = FALSE /\ feed' = <<>>
  /\ UNCHANGED <<vars, intact, rlog>>

ReplicaNext ==
  \/ MasterServes \/ MasterAppended \/ MasterRestart
  \/ Psync \/ Disconnect
  \/ Apply \/ ReplicaExpire \/ ReplicaRestart
  \/ \E k \in Key : ReplicaGet(k)

ReplicaSpec == ReplicaInit /\ [][ReplicaNext]_allVars

ReplicaFairSpec == ReplicaSpec /\ WF_vars(ActiveExpire)

----------------------------------------------------------------------------
\* The keyspace after all these items.
AppliedAll(s, items, t, m) ==
  LET after[i \in 0..Len(items)] ==
        IF i = 0 THEN s ELSE Applied(after[i - 1], items[i], t, m)
  IN  after[Len(items)]

\* What the replica will hold once everything on its way has arrived.
Arrived == AppliedAll(rstore, feed \o pending, now, setup.replica)

\* The replica's limit lets it take all that its master took.
RoomForAll ==
  \/ setup.replica.maxmemory = 0
  \/ /\ setup.policy = "noeviction" /\ setup.replica.policy = "noeviction"
     /\ setup.replica.maxmemory >= setup.maxmemory /\ setup.maxmemory > 0

(* "Evictions are recorded in AOF and replication" (README): what is on its*)
(* way turns the replica's keyspace into its master's, whatever was        *)
(* evicted, rolled back or refused there, and also after a resync that     *)
(* follows a lossy session, a restart or a lost connection: as long as     *)
(* nothing expires, the replica has the room, and this session has lost no *)
(* command that came together with the end of its snapshot.  (If it has,   *)
(* nothing is promised before the next resync.)                            *)
ReplicaFollows ==
  linked /\ intact /\ healthy /\ setup.maxTime = 0 /\ RoomForAll
    => Visible(Arrived) = Visible(store)

(* TTLs are replicated relative to now and start again at the replica: a   *)
(* key may live longer there, but what the master still shows the replica  *)
(* shows, with its value, unless this session has lost a command that came *)
(* together with the end of its snapshot.  (For commands that depend on no *)
(* earlier value: a key whose TTL was extended may have expired at the     *)
(* replica before the EXPIRE arrives; a list pushed to after it expired may*)
(* still go on there.)                                                     *)
NeverExpiresEarly ==
  /\ linked /\ intact /\ healthy /\ setup.replica.maxmemory = 0
  /\ \A c \in setup.commands : c.name \in {"SET", "DEL"}
  => LET shown == Visible(Arrived)
     IN  \A k \in DOMAIN Visible(store) :
           k \in DOMAIN shown /\ shown[k] = Visible(store)[k]

=============================================================================
