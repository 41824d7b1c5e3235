------------------------------ MODULE Keyspace ------------------------------
(***************************************************************************)
(* A master's keyspace and its files: the write path of RedisServer        *)
(* (_execute, _execute_inner), reads and expiry, SAVE and BGSAVE, the AOF  *)
(* rewrite, and a restart (_load_persistence).  Store holds the operators. *)
(*                                                                         *)
(* The event loop switches tasks only at an await.  A write holds          *)
(* _write_lock from its execution to its last append, a rewrite from its   *)
(* snapshot to the replaced file; reads, expiry and SAVE take no lock.     *)
(* AofLog models how a record gets into the file.                          *)
(***************************************************************************)
EXTENDS Store

CONSTANTS Key, Blob,   \* keys; what values are made of
          SampleSize,  \* sample_size of active_expire_cycle
          MaxExpiry,   \* the latest expiry time a dump can hold (struct.pack "<q")
          Setups       \* how the server may be configured and used

ASSUME KeyspaceAssumption ==
  /\ SampleSize \in Nat \ {0}
  /\ MaxExpiry \in Nat
  /\ \A u \in Setups :
       /\ u.maxmemory \in Nat     \* maxmemory_bytes, in units; 0: no limit
       /\ u.policy \in {"noeviction", "allkeys-lru", "volatile-ttl"}
       /\ \A c \in u.commands : IsCommand(c, Key, Blob)  \* the writes clients send
       /\ u.saves \in BOOLEAN     \* clients or rdb_save_seconds save dumps
       /\ u.restarts \in BOOLEAN  \* the server is killed and started again
       /\ u.maxTime \in Nat       \* bound of the model: seconds
       /\ u.maxLog \in Nat        \* bound: a write starts below this length

VARIABLES
  setup,     \* one of Setups: never changes
  now,       \* the clock
  store,     \* the keyspace
  pending,   \* what the write that holds the lock still has to append
  log,       \* the commands in the AOF
  healthy,   \* aof.healthy
  partial,   \* the AOF was begun on top of a dump, which it does not contain
  rewrite,   \* the snapshots a running rewrite (at most one) works on
  bgsave,    \* the snapshots a running BGSAVE (at most one) works on
  rdb        \* the contents of dump.rdb; none: no file

vars == <<setup, now, store, pending, log, healthy, partial, rewrite, bgsave,
          rdb>>

TypeOK ==
  /\ setup \in Setups
  /\ now \in 0..setup.maxTime
  /\ IsStore(store, Key, Blob)
  /\ healthy \in BOOLEAN
  /\ partial \in BOOLEAN
  /\ \A snapshots \in {rewrite, bgsave, {load_rdb(data, 0) : data \in rdb}} :
       Cardinality(snapshots) <= 1 /\ \A s \in snapshots : IsStore(s, Key, Blob)
  /\ \A c \in ToSet(log \o pending) : IsCommand(c, Key, Blob)

\* _load_persistence: a non-empty AOF first, else the RDB, else nothing.
Recovered ==
  IF log # <<>> THEN replay(log, now, setup)
  ELSE IF rdb # {} THEN load_rdb(CHOOSE data \in rdb : TRUE, now)
  ELSE EmptyStore

Init ==
  /\ setup \in Setups
  /\ now = 0
  /\ pending = <<>>
  /\ log = <<>>
  /\ healthy = TRUE
  /\ partial = FALSE
  /\ rewrite = {}
  /\ bgsave = {}
  /\ rdb = {}
  /\ store = EmptyStore

\* Bug: a rewrite does not hold the write lock.
Locked_WritesOnly == pending # <<>>

\* _write_lock is held.
Locked == pending # <<>> \/ rewrite # {}

Tick ==
  /\ now < setup.maxTime
  /\ now' = now + 1
  /\ UNCHANGED <<setup, partial, store, pending, log, healthy, rewrite,
                 bgsave, rdb>>

\* GET, HGETALL: lazy expiry, or an access.
Get(k) ==
  /\ store' = touch(store, k, now)
  /\ UNCHANGED <<setup, partial, now, pending, log, healthy, rewrite, bgsave,
                 rdb>>

\* DBSIZE, INFO.
Dbsize ==
  /\ store' = purge_expired(store, now)
  /\ UNCHANGED <<setup, partial, now, pending, log, healthy, rewrite, bgsave,
                 rdb>>

\* Bug: a key is expired only after its expiry time.
ActiveExpire_Late ==
  /\ \E K \in kSubset(Min({SampleSize, Cardinality(keys(store))}), keys(store)) :
       store' = drop(store, K \cap {k \in keys(store) :
                                      store.entry[k].expire \in 0..now - 1})
  /\ UNCHANGED <<setup, partial, now, pending, log, healthy, rewrite, bgsave,
                 rdb>>

\* _active_expire_loop: one active_expire_cycle.
ActiveExpire ==
  /\ \E K \in kSubset(Min({SampleSize, Cardinality(keys(store))}), keys(store)) :
       store' = drop(store, K \cap expired(store, now))
  /\ UNCHANGED <<setup, partial, now, pending, log, healthy, rewrite, bgsave,
                 rdb>>

\* A write command executes and starts to append its effects.
Write(c) ==
  /\ ~Locked
  /\ healthy
  /\ Len(log) < setup.maxLog
  /\ LET r == execute(store, c, now, setup)
     IN  store' = r.store /\ pending' = r.effects
  /\ UNCHANGED <<setup, partial, now, log, healthy, rewrite, bgsave, rdb>>

\* An append returns; the command is then propagated.
Appended ==
  /\ pending # <<>>
  /\ log' = Append(log, Head(pending))
  /\ pending' = Tail(pending)
  /\ UNCHANGED <<setup, partial, now, store, healthy, rewrite, bgsave, rdb>>

\* An append raises: MISCONF, and what is left to append is dropped.  If only the
\* fsync failed, the record is in the file.
AppendFails ==
  /\ pending # <<>>
  /\ log' \in {log, Append(log, Head(pending))}
  /\ pending' = <<>>
  /\ healthy' = FALSE
  /\ UNCHANGED <<setup, partial, now, store, rewrite, bgsave, rdb>>

\* dump_rdb_entries does not raise for the store.  (EX and EXPIRE take any number
\* of seconds.)
Packable(s) == \A k \in keys(s) : s.entry[k].expire <= MaxExpiry

\* What dump.rdb may hold after s is saved: an I/O error, or an entry that cannot
\* be packed, leaves the old file.
SavedAs(s) == {rdb} \cup {{dump_rdb_entries(x)} : x \in {y \in {s} : Packable(y)}}

\* SAVE: on the event loop, without the lock.
Save ==
  /\ setup.saves
  /\ store' = purge_expired(store, now)
  /\ rdb' \in SavedAs(purge_expired(store, now))
  /\ UNCHANGED <<setup, partial, now, pending, log, healthy, rewrite, bgsave>>

\* _bgsave_worker: the snapshot under the lock ...
BgsaveStart ==
  /\ setup.saves
  /\ ~Locked
  /\ bgsave = {}
  /\ store' = purge_expired(store, now)
  /\ bgsave' = {purge_expired(store, now)}
  /\ UNCHANGED <<setup, partial, now, pending, log, healthy, rewrite, rdb>>

\* ... the file without it.
BgsaveEnd ==
  /\ \E s \in bgsave : rdb' \in SavedAs(s)
  /\ bgsave' = {}
  /\ UNCHANGED <<setup, partial, now, store, pending, log, healthy, rewrite>>

\* _aof_rewrite_worker: the snapshot ...
RewriteStart ==
  /\ ~Locked
  /\ store' = purge_expired(store, now)
  /\ rewrite' = {purge_expired(store, now)}
  /\ UNCHANGED <<setup, partial, now, pending, log, healthy, bgsave, rdb>>

\* ... the payload, built on a thread, and the replaced file ...
RewriteEnd ==
  /\ rewrite # {}
  /\ \E s \in rewrite : log' = build_rewrite_payload(s, now)
  /\ rewrite' = {}
  /\ partial' = FALSE
  /\ UNCHANGED <<setup, now, store, pending, healthy, bgsave, rdb>>

\* ... or an error that leaves the old file.
RewriteFails ==
  /\ rewrite # {}
  /\ rewrite' = {}
  /\ UNCHANGED <<setup, partial, now, store, pending, log, healthy, bgsave,
                 rdb>>

\* The process is killed and started again with the same configuration.  It does
\* not start with a dump that is not accepted.
Restart ==
  /\ setup.restarts
  /\ log = <<>> => \A data \in rdb : rdb_accepted(data)
  /\ store' = Recovered
  /\ pending' = <<>>
  /\ healthy' = TRUE
  /\ partial' = (IF log = <<>> THEN rdb # {} ELSE partial)
  /\ rewrite' = {}
  /\ bgsave' = {}
  /\ UNCHANGED <<setup, now, log, rdb>>

Writes == \E c \in setup.commands : Write(c)

\* Everything but the writes, their appends and a restart.
Serves ==
  \/ Tick
  \/ \E k \in Key : Get(k)
  \/ Dbsize
  \/ ActiveExpire
  \/ AppendFails
  \/ Save
  \/ BgsaveStart
  \/ BgsaveEnd
  \/ RewriteStart
  \/ RewriteEnd
  \/ RewriteFails

Next == Serves \/ Writes \/ Appended \/ Restart

Spec == Init /\ [][Next]_vars

(***************************************************************************)
(* _active_expire_loop sleeps 0.1 s between cycles, for ever.              *)
(***************************************************************************)
FairSpec == Spec /\ WF_vars(ActiveExpire)

----------------------------------------------------------------------------

\* What a client can see of a store: the values of the keys not expired.
Visible(s) ==
  LET live == keys(s) \ expired(s, now)
  IN  [k \in live |-> <<s.entry[k].type, s.entry[k].value>>]

Unlimited == [maxmemory |-> 0, policy |-> "noeviction"]

\* What the server holds when a command is neither being logged nor failed.
Settled == ~Locked /\ healthy

(* Between commands the keyspace never takes more than maxmemory, whatever *)
(* was evicted, rolled back, expired, loaded or replayed.                  *)
MemoryBounded == Fits(purge_expired(store, now), setup)

(* "After a restart the data is recovered consistently" (ACCEPTANCE, A6.2):*)
(* a restart gives back exactly the keys that clients could read.          *)
RestartKeepsData == Settled => Visible(Recovered) = Visible(store)

(* It does as long as nothing expires and nothing is evicted, whenever the *)
(* server is killed, saves a dump or rewrites its AOF: except that an empty*)
(* AOF is taken for a missing one, and a dump, an older one perhaps, is    *)
(* loaded; the AOF then begins without it, and lacks it until a rewrite.   *)
(* (A file within the limits of the loader's parser: see AofFile.)         *)
LogKeepsData ==
  /\ setup.policy = "noeviction" /\ setup.maxTime = 0
  /\ ~partial /\ (log = <<>> => rdb = {})
  => RestartKeepsData

(* The logged effects explain the store: whoever applies them without a    *)
(* limit of its own gets the master's keyspace, the evictions included, as *)
(* long as nothing expires and the master was not restarted.               *)
LogExplainsStore ==
  healthy /\ setup.maxTime = 0 /\ ~setup.restarts
    => Visible(replay(log \o pending, now, Unlimited)) = Visible(store)

(* A write that is refused (WRONGTYPE, OOM) changes no value and no expiry *)
(* time, even when keys had been evicted for it.                           *)
RefusedChangesNothing ==
  [][\A c \in setup.commands :
       Write(c) /\ pending' = <<>> =>
         store'.entry = purge_expired(store, now).entry]_vars

(* A rewrite replaces the AOF by commands that restore what clients see, if*)
(* no key expired since its snapshot (such a key gets no EXPIRE).          *)
RewriteIsEquivalent ==
  [][RewriteEnd /\ (\A s \in rewrite : expired(s, now) = {})
       => Visible(replay(log', now, setup)) = Visible(store)]_vars

(* An expired key does not stay in memory for ever, even if no client asks *)
(* for it.                                                                 *)
ExpiredIsReclaimed ==
  \A k \in Key : [](k \in expired(store, now) => <>(k \notin expired(store, now)))

=============================================================================
