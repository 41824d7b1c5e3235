--------------------------- MODULE KeyspaceProofs ---------------------------
(***************************************************************************)
(* The keyspace and its files, and the replica's keyspace: proofs, for any *)
(* keys, values, limits, policies and commands, and any number of them.    *)
(*                                                                         *)
(* Everything that serves clients between two writes (reads, lazy and      *)
(* active expiry, SAVE, BGSAVE, the snapshot of a rewrite) leaves what is  *)
(* alive in the store as it is; a write changes it by the effects that it  *)
(* appends.  So the invariants compare live entries.                       *)
(***************************************************************************)
EXTENDS ReplicaKeyspace, CommandProofs

\* At most one.
OneOf(S) == \A x, y \in S : x = y

\* A store that was saved, or is going to be: it keeps the limit.
Snapshot(s) == IsStore(s, Key, Blob) /\ Fits(s, setup)

\* What is in the AOF, and what the write still has to append, gives back what is
\* alive, if the limit is m.
Explains(m) ==
  Live(replay(log \o pending, now, m).entry, now) = Live(store.entry, now)

SetupInv == setup \in Setups /\ now \in 0..setup.maxTime

StoreInv == IsStore(store, Key, Blob) /\ Fits(purge_expired(store, now), setup)

LogInv == IsLog(log, Key, Blob) /\ IsLog(pending, Key, Blob)

FlagInv == healthy \in BOOLEAN /\ partial \in BOOLEAN

\* A rewrite holds the lock, so its snapshot stays up to date.
RewriteInv ==
  /\ OneOf(rewrite)
  /\ \A s \in rewrite : /\ Snapshot(s)
                        /\ Live(s.entry, now) = Live(store.entry, now)
                        /\ setup.maxTime = 0 => expired(s, now) = {}
                        /\ pending = <<>>

BgsaveInv == OneOf(bgsave) /\ \A s \in bgsave : Snapshot(s)

RdbInv == OneOf(rdb) /\ \A data \in rdb : \E s : Snapshot(s) /\ data = dump_rdb_entries(s)

\* The inductive invariant, but for what the log explains ...
KInv == SetupInv /\ StoreInv /\ LogInv /\ FlagInv /\ RewriteInv /\ BgsaveInv /\ RdbInv

\* ... to whoever has no limit, and to the server itself when it restarts.
ExplainInv ==
  /\ healthy /\ setup.maxTime = 0 /\ ~setup.restarts => Explains(Unlimited)
  /\ healthy /\ ~partial /\ setup.maxTime = 0 /\ setup.policy = "noeviction"
       => Explains(setup)

-----------------------------------------------------------------------------
(* Steps of the store                                                      *)

\* What is alive in x is what is alive in s.
Same(x, s, t) == IsStore(x, Key, Blob) /\ Live(x.entry, t) = Live(s.entry, t)

\* What is a setup.
LEMMA SetupFacts ==
  ASSUME SetupInv
  PROVE  /\ IsLimit(setup)
         /\ setup.maxTime \in Nat /\ now \in Nat /\ (setup.maxTime = 0 => now = 0)
         /\ \A c \in setup.commands : IsCommand(c, Key, Blob)
<1>1. /\ setup.maxmemory \in Nat
      /\ setup.policy \in {"noeviction", "allkeys-lru", "volatile-ttl"}
      /\ \A c \in setup.commands : IsCommand(c, Key, Blob)
      /\ setup.maxTime \in Nat
  BY KeyspaceAssumption, Zenon DEF SetupInv
<1>2. now \in Nat /\ (setup.maxTime = 0 => now = 0)
  BY <1>1 DEF SetupInv
<1>3. QED
  BY <1>1, <1>2, Zenon DEF IsLimit

\* Dropping expired keys.
LEMMA DropSame ==
  ASSUME NEW s, IsStore(s, Key, Blob), NEW t, NEW K, K \subseteq expired(s, t)
  PROVE  Same(drop(s, K), s, t)
<1>1. IsStore(drop(s, K), Key, Blob) /\ drop(s, K).entry = Less(s.entry, K)
  BY DropStore
<1>2. Live(Less(s.entry, K), t) = Live(s.entry, t)
  BY DEF Live, Less, expired, keys
<1>3. QED
  BY <1>1, <1>2, Zenon DEF Same

\* purge_expired changes nothing that is alive.
LEMMA PurgeSame ==
  ASSUME NEW s, IsStore(s, Key, Blob), NEW t
  PROVE  Same(purge_expired(s, t), s, t) /\ expired(purge_expired(s, t), t) = {}
<1>1. Same(purge_expired(s, t), s, t)
  BY DropSame DEF purge_expired
<1>2. purge_expired(s, t).entry = Live(s.entry, t)
  BY PurgeLive
<1>3. expired(purge_expired(s, t), t) = {}
  BY <1>2 DEF expired, keys, Live, Less
<1>4. QED
  BY <1>1, <1>3

\* A read, with its lazy expiry, changes nothing that is alive.
LEMMA TouchSame ==
  ASSUME NEW s, IsStore(s, Key, Blob), NEW t, NEW k
  PROVE  Same(touch(s, k, t), s, t)
<1>1. CASE k \notin keys(s)
  BY <1>1 DEF touch, Same
<1>2. CASE k \in keys(s) /\ is_expired(s.entry[k], t)
  <2>1. {k} \subseteq expired(s, t) /\ touch(s, k, t) = drop(s, {k})
    BY <1>2 DEF touch, expired
  <2>2. QED
    BY <2>1, DropSame
<1>3. CASE k \in keys(s) /\ ~is_expired(s.entry[k], t)
  <2>1. touch(s, k, t) = touch_access(s, k)
    BY <1>3 DEF touch
  <2>2. IsStore(touch_access(s, k), Key, Blob) /\ touch_access(s, k).entry = s.entry
    BY <1>3, AccessStore
  <2>3. QED
    BY <2>1, <2>2, Zenon DEF Same
<1>4. QED
  BY <1>1, <1>2, <1>3

\* Stores with the same live entries keep the same limits.
LEMMA SameLimit ==
  ASSUME NEW s, IsStore(s, Key, Blob), NEW t, NEW x, Same(x, s, t), NEW m
  PROVE  Fits(purge_expired(x, t), m) = Fits(purge_expired(s, t), m)
<1>1. purge_expired(x, t).entry = Live(x.entry, t) /\ purge_expired(s, t).entry = Live(s.entry, t)
  BY PurgeLive DEF Same
<1>2. purge_expired(x, t).entry = purge_expired(s, t).entry
  BY <1>1 DEF Same
<1>3. QED
  BY <1>2, SameFits

\* Time passes.
LEMMA LiveLater ==
  ASSUME NEW f, NEW t \in Nat, \A k \in DOMAIN f : f[k].expire \in Int
  PROVE  Live(f, t + 1) = Live(Live(f, t), t + 1)
<1>1. \A k \in DOMAIN f : is_expired(f[k], t) => is_expired(f[k], t + 1)
  BY DEF is_expired
<1>2. QED
  BY <1>1 DEF Live, Less

-----------------------------------------------------------------------------
(* Steps of the server                                                     *)

\* What changes nothing that is alive: everything but time, writes and restarts.
Stays == setup' = setup /\ now' = now /\ Same(store', store, now)

\* Between two writes, time passes or what is alive in the store stays as it is.
LEMMA ServeStays ==
  ASSUME KInv, Serves \/ Appended
  PROVE  Tick \/ Stays
<1>1. IsStore(store, Key, Blob)
  BY Zenon DEF KInv, StoreInv
<1>2. Same(store, store, now)
  BY <1>1, Zenon DEF Same
<1>3. ASSUME NEW k \in Key, Get(k) PROVE Stays
  BY <1>1, <1>3, TouchSame, Zenon DEF Get, Stays
<1>4. ASSUME Dbsize \/ Save \/ BgsaveStart \/ RewriteStart PROVE Stays
  <2>1. store' = purge_expired(store, now) /\ setup' = setup /\ now' = now
    BY <1>4, Zenon DEF Dbsize, Save, BgsaveStart, RewriteStart
  <2>2. QED
    BY <1>1, <2>1, PurgeSame, Zenon DEF Stays
<1>5. ASSUME ActiveExpire PROVE Stays
  <2>1. PICK K : store' = drop(store, K \cap expired(store, now)) /\ setup' = setup /\ now' = now
    BY <1>5, Zenon DEF ActiveExpire
  <2>2. K \cap expired(store, now) \subseteq expired(store, now)
    OBVIOUS
  <2>3. QED
    BY <1>1, <2>1, <2>2, DropSame, Zenon DEF Stays
<1>6. ASSUME AppendFails \/ BgsaveEnd \/ RewriteEnd \/ RewriteFails \/ Appended PROVE Stays
  <2>1. store' = store /\ setup' = setup /\ now' = now
    BY <1>6, Zenon DEF AppendFails, BgsaveEnd, RewriteEnd, RewriteFails, Appended
  <2>2. QED
    BY <1>2, <2>1, Zenon DEF Stays
<1>7. QED
  BY <1>3, <1>4, <1>5, <1>6, Zenon DEF Serves

\* What a write does.
LEMMA WriteStep ==
  ASSUME KInv, NEW c \in setup.commands, Write(c)
  PROVE  /\ IsCommand(c, Key, Blob)
         /\ pending = <<>> /\ rewrite = {}
         /\ setup' = setup /\ now' = now /\ log' = log
         /\ store' = execute(store, c, now, setup).store
         /\ pending' = execute(store, c, now, setup).effects
BY SetupFacts, Zenon DEF KInv, Write, Locked

\* Every step keeps the setup and the range of the clock.
LEMMA NextSetup ==
  ASSUME KInv, Next
  PROVE  SetupInv'
<1>1. SetupInv /\ now \in Nat /\ setup.maxTime \in Nat
  BY SetupFacts, Zenon DEF KInv
<1>2. ASSUME Tick PROVE SetupInv'
  BY <1>1, <1>2 DEF Tick, SetupInv
<1>3. ASSUME Stays PROVE SetupInv'
  BY <1>1, <1>3, Zenon DEF Stays, SetupInv
<1>4. ASSUME Writes PROVE SetupInv'
  BY <1>1, <1>4, Zenon DEF Writes, Write, SetupInv
<1>5. ASSUME Restart PROVE SetupInv'
  BY <1>1, <1>5, Zenon DEF Restart, SetupInv
<1>6. QED
  BY <1>2, <1>3, <1>4, <1>5, ServeStays, Zenon DEF Next

\* What a restart finds.
LEMMA RecoveredStore ==
  ASSUME KInv
  PROVE  IsStore(Recovered, Key, Blob) /\ Fits(Recovered, setup)
<1>1. IsLimit(setup) /\ now \in Nat /\ IsLog(log, Key, Blob) /\ setup.maxmemory \in Nat
  BY SetupFacts, Zenon DEF KInv, LogInv, IsLimit
<1>2. CASE log # <<>>
  <2>1. Recovered = replay(log, now, setup)
    BY <1>2, Zenon DEF Recovered
  <2>2. QED
    BY <1>1, <2>1, ReplayStore
<1>3. CASE log = <<>> /\ rdb # {}
  <2>1. PICK data : data = CHOOSE d \in rdb : TRUE
    OBVIOUS
  <2>2. Recovered = load_rdb(data, now)
    BY <1>3, <2>1, Zenon DEF Recovered
  <2>3. data \in rdb
    BY <1>3, <2>1, Zenon
  <2>4. PICK s : Snapshot(s) /\ data = dump_rdb_entries(s)
    BY <2>3, Zenon DEF KInv, RdbInv
  <2>5. IsStore(s, Key, Blob) /\ Fits(s, setup)
    BY <2>4, Zenon DEF Snapshot
  <2>6. IsStore(Recovered, Key, Blob) /\ Recovered.entry = Live(s.entry, now)
    BY <1>1, <2>2, <2>4, <2>5, RdbRoundTrip
  <2>7. Fits(Recovered, setup)
    BY <1>1, <2>5, <2>6, LessFits DEF Live
  <2>8. QED
    BY <2>6, <2>7
<1>4. CASE log = <<>> /\ rdb = {}
  <2>1. Recovered = EmptyStore
    BY <1>4, Zenon DEF Recovered
  <2>2. keys(EmptyStore) = {}
    BY DEF keys, EmptyStore
  <2>3. QED
    BY <1>1, <2>1, <2>2, EmptyIsStore, EmptyFits
<1>5. QED
  BY <1>2, <1>3, <1>4

\* Every step leaves a store, and one that fits.
LEMMA NextStore ==
  ASSUME KInv, Next
  PROVE  StoreInv'
<1>1. /\ IsStore(store, Key, Blob) /\ Fits(purge_expired(store, now), setup)
      /\ IsLimit(setup) /\ now \in Nat /\ setup.maxmemory \in Nat
  BY SetupFacts, Zenon DEF KInv, StoreInv, IsLimit
<1>2. ASSUME Tick PROVE StoreInv'
  <2>1. store' = store /\ setup' = setup /\ now' = now + 1
    BY <1>2, Zenon DEF Tick
  <2> DEFINE x == purge_expired(store, now + 1)
             y == purge_expired(store, now)
  <2>2. x.entry = Live(store.entry, now + 1) /\ y.entry = Live(store.entry, now) /\ IsStore(y, Key, Blob)
    BY <1>1, PurgeLive, PurgeStore
  <2>3. \A k \in DOMAIN store.entry : store.entry[k].expire \in Int
    BY <1>1 DEF IsStore, IsEntry, None, keys
  <2> HIDE DEF x, y
  <2>4. x.entry = Live(y.entry, now + 1)
    BY <1>1, <2>2, <2>3, LiveLater
  <2>5. Fits(x, setup)
    BY <1>1, <2>2, <2>4, LessFits DEF Live, y
  <2>6. QED
    BY <1>1, <2>1, <2>5, Zenon DEF StoreInv, x
<1>3. ASSUME Stays PROVE StoreInv'
  <2>1. Same(store', store, now) /\ setup' = setup /\ now' = now
    BY <1>3, Zenon DEF Stays
  <2>2. Fits(purge_expired(store', now), setup)
    BY <1>1, <2>1, SameLimit
  <2>3. IsStore(store', Key, Blob)
    BY <2>1, Zenon DEF Same
  <2>4. QED
    BY <2>1, <2>2, <2>3, Zenon DEF StoreInv
<1>4. ASSUME NEW c \in setup.commands, Write(c) PROVE StoreInv'
  <2>1. PICK x : x = execute(store, c, now, setup).store
    OBVIOUS
  <2>2. IsCommand(c, Key, Blob) /\ store' = x /\ setup' = setup /\ now' = now
    BY <1>4, <2>1, WriteStep, Zenon
  <2>3. IsStore(x, Key, Blob)
    BY <1>1, <2>1, <2>2, ExecuteStore, SMTT(20)
  <2>4. Fits(x, setup)
    BY <1>1, <2>1, <2>2, ExecuteFits
  <2>5. Fits(purge_expired(x, now), setup)
    BY <1>1, <2>3, <2>4, PurgeFits
  <2>6. QED
    BY <2>2, <2>3, <2>5, Zenon DEF StoreInv
<1>5. ASSUME Restart PROVE StoreInv'
  <2>1. PICK x : x = Recovered
    OBVIOUS
  <2>2. store' = x /\ setup' = setup /\ now' = now
    BY <1>5, <2>1, Zenon DEF Restart
  <2>3. IsStore(x, Key, Blob) /\ Fits(x, setup)
    BY <2>1, RecoveredStore
  <2>4. Fits(purge_expired(x, now), setup)
    BY <1>1, <2>3, PurgeFits
  <2>5. QED
    BY <2>2, <2>3, <2>4, Zenon DEF StoreInv
<1>6. QED
  BY <1>2, <1>3, <1>4, <1>5, ServeStays, Zenon DEF Next, Writes

\* Every step keeps what is known of the flags.
LEMMA NextFlag ==
  ASSUME KInv, Next
  PROVE  FlagInv'
<1>1. healthy \in BOOLEAN /\ partial \in BOOLEAN
  BY Zenon DEF KInv, FlagInv
<1>2. healthy' \in {healthy, TRUE, FALSE} /\ partial' \in {partial, FALSE, rdb # {}}
  BY Zenon DEF Next, Serves, Writes, Tick, Get, Dbsize, ActiveExpire, AppendFails, Save,
       BgsaveStart, BgsaveEnd, RewriteStart, RewriteEnd, RewriteFails, Write, Appended, Restart
<1>3. QED
  BY <1>1, <1>2, Zenon DEF FlagInv

\* Appending to a log, and taking from it.
LEMMA LogAppend ==
  ASSUME NEW l, IsLog(l, Key, Blob), NEW p, IsLog(p, Key, Blob), p # <<>>
  PROVE  IsLog(Append(l, Head(p)), Key, Blob) /\ IsLog(Tail(p), Key, Blob)
<1> DEFINE C == ToSet(l) \cup ToSet(p)
<1>1. l \in Seq(C) /\ p \in Seq(C)
  BY LogIn
<1>2. AllCommands(C, Key, Blob)
  <2>1. AllCommands(ToSet(l), Key, Blob) /\ AllCommands(ToSet(p), Key, Blob)
    BY LogIn, Zenon
  <2>2. QED
    BY <2>1, Zenon DEF AllCommands
<1> HIDE DEF C
<1>3. Append(l, Head(p)) \in Seq(C) /\ Tail(p) \in Seq(C)
  BY <1>1
<1>4. QED
  BY <1>2, <1>3, LogOf, Zenon

\* A log after a log is a log.
LEMMA LogConcat ==
  ASSUME NEW l, IsLog(l, Key, Blob), NEW p, IsLog(p, Key, Blob)
  PROVE  IsLog(l \o p, Key, Blob)
<1> DEFINE C == ToSet(l) \cup ToSet(p)
<1>1. l \in Seq(C) /\ p \in Seq(C)
  BY LogIn
<1>2. AllCommands(C, Key, Blob)
  <2>1. AllCommands(ToSet(l), Key, Blob) /\ AllCommands(ToSet(p), Key, Blob)
    BY LogIn
  <2>2. QED
    BY <2>1, Zenon DEF AllCommands
<1> HIDE DEF C
<1>3. l \o p \in Seq(C)
  BY <1>1
<1>4. QED
  BY <1>2, <1>3, LogOf, Zenon

\* The empty sequence is a log.
LEMMA EmptyLog == IsLog(<<>>, Key, Blob)
<1>1. <<>> \in Seq({})
  OBVIOUS
<1>2. AllCommands({}, Key, Blob)
  BY DEF AllCommands
<1>3. QED
  BY <1>1, <1>2, LogOf, Zenon

\* The effects of a write are commands.
LEMMA EffectsLog ==
  ASSUME NEW s, IsStore(s, Key, Blob), NEW t \in Nat, NEW c, IsCommand(c, Key, Blob),
         NEW m, IsLimit(m)
  PROVE  IsLog(execute(s, c, t, m).effects, Key, Blob)
<1>1. PICK x : x = execute(s, c, t, m)
  OBVIOUS
<1>2. \/ Rejected(s, c, t, x)
      \/ \E evicted \in Seq(Key) : Accepted(s, c, t, m, x, evicted)
  BY <1>1, ExecuteStore, Zenon
<1>3. CASE Rejected(s, c, t, x)
  BY <1>1, <1>3, EmptyLog, Zenon DEF Rejected
<1>4. ASSUME NEW evicted \in Seq(Key), Accepted(s, c, t, m, x, evicted)
      PROVE  IsLog(x.effects, Key, Blob)
  <2> DEFINE C == {c} \cup {DelOf(k) : k \in Key}
  <2>1. x.effects = <<c>> \o DelsOf(evicted)
    BY <1>4, Zenon DEF Accepted
  <2>2. PICK D : D = DelsOf(evicted)
    OBVIOUS
  <2>3. D \in Seq(C)
    BY <2>2 DEF DelsOf
  <2>4. AllCommands(C, Key, Blob)
    BY DEF IsCommand, DelOf, AllCommands
  <2>5. c \in C
    OBVIOUS
  <2> HIDE DEF C
  <2>6. <<c>> \o D \in Seq(C)
    BY <2>3, <2>5
  <2>7. IsLog(<<c>> \o D, Key, Blob)
    BY <2>4, <2>6, LogOf, Zenon
  <2>8. QED
    BY <2>1, <2>2, <2>7, Zenon
<1>5. QED
  BY <1>1, <1>2, <1>3, <1>4, Zenon

\* Every step leaves a log, and effects that can be appended to it.
LEMMA NextLog ==
  ASSUME KInv, Next
  PROVE  LogInv'
<1>1. IsLog(log, Key, Blob) /\ IsLog(pending, Key, Blob) /\ IsLog(<<>>, Key, Blob)
  BY EmptyLog, Zenon DEF KInv, LogInv
<1>2. IsStore(store, Key, Blob) /\ IsLimit(setup) /\ now \in Nat
  BY SetupFacts, Zenon DEF KInv, StoreInv
<1>3. ASSUME Appended \/ AppendFails PROVE LogInv'
  <2>1. pending # <<>> /\ log' \in {log, Append(log, Head(pending))} /\ pending' \in {Tail(pending), <<>>}
    BY <1>3, Zenon DEF Appended, AppendFails
  <2>2. IsLog(Append(log, Head(pending)), Key, Blob) /\ IsLog(Tail(pending), Key, Blob)
    BY <1>1, <2>1, LogAppend
  <2>3. QED
    BY <1>1, <2>1, <2>2, Zenon DEF LogInv
<1>4. ASSUME NEW c \in setup.commands, Write(c) PROVE LogInv'
  <2>1. IsCommand(c, Key, Blob) /\ log' = log /\ pending' = execute(store, c, now, setup).effects
    BY <1>4, WriteStep, Zenon
  <2>2. IsLog(execute(store, c, now, setup).effects, Key, Blob)
    BY <1>2, <2>1, EffectsLog
  <2>3. QED
    BY <1>1, <2>1, <2>2, Zenon DEF LogInv
<1>5. ASSUME RewriteEnd PROVE LogInv'
  <2>1. PICK s \in rewrite : log' = build_rewrite_payload(s, now)
    BY <1>5, Zenon DEF RewriteEnd
  <2>2. IsStore(s, Key, Blob)
    BY <2>1, Zenon DEF KInv, RewriteInv, Snapshot
  <2>3. IsLog(build_rewrite_payload(s, now), Key, Blob)
    BY <1>2, <2>2, RewritePayload, SMTT(20)
  <2>4. pending' = pending
    BY <1>5, Zenon DEF RewriteEnd
  <2>5. QED
    BY <1>1, <2>1, <2>3, <2>4, Zenon DEF LogInv
<1>6. ASSUME Restart PROVE LogInv'
  BY <1>1, <1>6, Zenon DEF Restart, LogInv
<1>7. ASSUME UNCHANGED <<log, pending>> PROVE LogInv'
  BY <1>1, <1>7, Zenon DEF LogInv
<1>8. ASSUME Serves PROVE AppendFails \/ RewriteEnd \/ UNCHANGED <<log, pending>>
  BY <1>8, Zenon DEF Serves, Tick, Get, Dbsize, ActiveExpire, Save, BgsaveStart, BgsaveEnd,
       RewriteStart, RewriteFails
<1>9. QED
  BY <1>3, <1>4, <1>5, <1>6, <1>7, <1>8, Zenon DEF Next, Writes

\* Every step keeps what is known of the rewrite under way.
LEMMA NextRewrite ==
  ASSUME KInv, Next
  PROVE  RewriteInv'
<1>1. /\ IsStore(store, Key, Blob) /\ Fits(purge_expired(store, now), setup)
      /\ IsLimit(setup) /\ now \in Nat /\ setup.maxmemory \in Nat
  BY SetupFacts, Zenon DEF KInv, StoreInv, IsLimit
<1>2. /\ OneOf(rewrite)
      /\ \A s \in rewrite : /\ IsStore(s, Key, Blob) /\ Fits(s, setup)
                            /\ Live(s.entry, now) = Live(store.entry, now)
                            /\ setup.maxTime = 0 => expired(s, now) = {}
                            /\ pending = <<>>
  BY Zenon DEF KInv, RewriteInv, Snapshot
<1>3. ASSUME Tick PROVE RewriteInv'
  <2>1. /\ rewrite' = rewrite /\ store' = store /\ setup' = setup /\ pending' = pending
        /\ now' = now + 1 /\ now < setup.maxTime
    BY <1>3, Zenon DEF Tick
  <2>2. setup.maxTime # 0
    BY <1>1, <2>1
  <2>3. ASSUME NEW s, IsStore(s, Key, Blob) PROVE Live(s.entry, now + 1) = Live(Live(s.entry, now), now + 1)
    <3>1. PICK f : f = s.entry
      OBVIOUS
    <3>2. \A k \in DOMAIN f : f[k].expire \in Int
      BY <2>3, <3>1 DEF IsStore, IsEntry, None, keys
    <3>3. QED
      BY <1>1, <3>1, <3>2, LiveLater, SMTT(20)
  <2>4. ASSUME NEW s \in rewrite PROVE Live(s.entry, now + 1) = Live(store.entry, now + 1)
    BY <1>1, <1>2, <2>3, Zenon
  <2>5. QED
    BY <1>2, <2>1, <2>2, <2>4, Zenon DEF RewriteInv, Snapshot
<1>4. ASSUME Stays, UNCHANGED <<rewrite, pending>> PROVE RewriteInv'
  <2>1. /\ setup' = setup /\ now' = now /\ rewrite' = rewrite /\ pending' = pending
        /\ Live(store'.entry, now) = Live(store.entry, now)
    BY <1>4, Zenon DEF Stays, Same
  <2>2. QED
    BY <1>2, <2>1, Zenon DEF RewriteInv, Snapshot
<1>5. ASSUME rewrite' = {} PROVE RewriteInv'
  BY <1>5, Zenon DEF RewriteInv, OneOf
<1>6. ASSUME RewriteStart PROVE RewriteInv'
  <2>1. PICK x : x = purge_expired(store, now)
    OBVIOUS
  <2>2. /\ setup' = setup /\ now' = now /\ rewrite' = {x} /\ store' = x
        /\ pending' = pending /\ pending = <<>>
    BY <1>6, <2>1, Zenon DEF RewriteStart, Locked
  <2>3. IsStore(x, Key, Blob) /\ expired(x, now) = {}
    BY <1>1, <2>1, PurgeSame, Zenon DEF Same
  <2>4. QED
    BY <1>1, <2>1, <2>2, <2>3, Zenon DEF RewriteInv, OneOf, Snapshot
<1>7. ASSUME Appended \/ AppendFails PROVE rewrite' = {}
  <2>1. pending # <<>> /\ rewrite' = rewrite
    BY <1>7, Zenon DEF Appended, AppendFails
  <2>2. QED
    BY <1>2, <2>1, Zenon
<1>8. ASSUME NEW c \in setup.commands, Write(c) PROVE rewrite' = {}
  BY <1>8, WriteStep, Zenon DEF Write
<1>9. ASSUME Serves, ~AppendFails, ~Tick, ~RewriteStart
      PROVE  Stays /\ (rewrite' = {} \/ UNCHANGED <<rewrite, pending>>)
  <2>1. rewrite' = {} \/ UNCHANGED <<rewrite, pending>>
    BY <1>9, Zenon DEF Serves, Get, Dbsize, ActiveExpire, Save, BgsaveStart, BgsaveEnd,
         RewriteEnd, RewriteFails
  <2>2. QED
    BY <1>9, <2>1, ServeStays, Zenon
<1>10. ASSUME Restart PROVE rewrite' = {}
  BY <1>10, Zenon DEF Restart
<1>11. QED
  BY <1>3, <1>4, <1>5, <1>6, <1>7, <1>8, <1>9, <1>10, Zenon DEF Next, Writes

\* Every step keeps what is known of the dump under way and of the file.
LEMMA NextDumps ==
  ASSUME KInv, Next
  PROVE  BgsaveInv' /\ RdbInv'
<1>1. IsStore(store, Key, Blob) /\ Fits(purge_expired(store, now), setup)
  BY Zenon DEF KInv, StoreInv
<1>2. /\ OneOf(bgsave) /\ \A s \in bgsave : Snapshot(s)
      /\ OneOf(rdb) /\ \A data \in rdb : \E s : Snapshot(s) /\ data = dump_rdb_entries(s)
  BY Zenon DEF KInv, BgsaveInv, RdbInv
<1>3. PICK x : x = purge_expired(store, now)
  OBVIOUS
<1>4. Snapshot(x)
  BY <1>1, <1>3, PurgeSame, Zenon DEF Snapshot, Same
<1>5. setup' = setup
  BY Zenon DEF Next, Serves, Writes, Tick, Get, Dbsize, ActiveExpire, AppendFails, Save,
       BgsaveStart, BgsaveEnd, RewriteStart, RewriteEnd, RewriteFails, Write, Appended, Restart
<1>6. bgsave' \in {bgsave, {}, {x}}
  BY <1>3, Zenon DEF Next, Serves, Writes, Tick, Get, Dbsize, ActiveExpire, AppendFails, Save,
       BgsaveStart, BgsaveEnd, RewriteStart, RewriteEnd, RewriteFails, Write, Appended, Restart
<1>7. rdb' = rdb \/ \E s : Snapshot(s) /\ rdb' = {dump_rdb_entries(s)}
  <2>1. ASSUME NEW s, Snapshot(s), rdb' \in SavedAs(s)
        PROVE  rdb' = rdb \/ \E y : Snapshot(y) /\ rdb' = {dump_rdb_entries(y)}
    BY <2>1, Zenon DEF SavedAs
  <2>2. rdb' = rdb \/ Save \/ BgsaveEnd
    BY Zenon DEF Next, Serves, Writes, Tick, Get, Dbsize, ActiveExpire, AppendFails,
         BgsaveStart, RewriteStart, RewriteEnd, RewriteFails, Write, Appended, Restart
  <2>3. CASE Save
    BY <1>3, <1>4, <2>1, <2>3, Zenon DEF Save
  <2>4. CASE BgsaveEnd
    BY <1>2, <2>1, <2>4, Zenon DEF BgsaveEnd
  <2>5. QED
    BY <2>2, <2>3, <2>4, Zenon
<1>8. \A s : Snapshot(s) => Snapshot(s)'
  <2>1. TAKE s
  <2>2. HAVE Snapshot(s)
  <2>3. QED
    BY <1>5, <2>2, Zenon DEF Snapshot
<1>9. BgsaveInv'
  <2>1. OneOf(bgsave')
    BY <1>2, <1>6, Zenon DEF OneOf
  <2>2. \A s \in bgsave' : Snapshot(s)
    BY <1>2, <1>4, <1>6, Zenon
  <2>3. QED
    BY <1>8, <2>1, <2>2, Zenon DEF BgsaveInv
<1>10. RdbInv'
  <2>1. OneOf(rdb')
    BY <1>2, <1>7, Zenon DEF OneOf
  <2>2. \A data \in rdb' : \E s : Snapshot(s) /\ data = dump_rdb_entries(s)
    BY <1>2, <1>4, <1>7, ZenonT(30)
  <2>3. QED
    BY <1>8, <2>1, <2>2, Zenon DEF RdbInv
<1>11. QED
  BY <1>9, <1>10

\* The invariant holds when the server starts.
LEMMA InitKInv ==
  ASSUME Init
  PROVE  KInv
<1>1. /\ setup \in Setups /\ now = 0 /\ pending = <<>> /\ log = <<>> /\ store = EmptyStore
      /\ rewrite = {} /\ bgsave = {} /\ rdb = {}
  BY Zenon DEF Init
<1>2. setup.maxTime \in Nat /\ setup.maxmemory \in Nat
  BY <1>1, KeyspaceAssumption, Zenon
<1>3. SetupInv
  BY <1>1, <1>2 DEF SetupInv
<1>4. StoreInv
  <2>1. IsStore(store, Key, Blob) /\ keys(store) = {}
    BY <1>1, EmptyIsStore DEF keys, EmptyStore
  <2>2. Fits(store, setup)
    BY <1>2, <2>1, EmptyFits
  <2>3. Fits(purge_expired(store, now), setup)
    BY <1>2, <2>1, <2>2, PurgeFits
  <2>4. QED
    BY <2>1, <2>3, Zenon DEF StoreInv
<1>5. LogInv
  BY <1>1, EmptyLog, Zenon DEF LogInv
<1>6. FlagInv
  BY Zenon DEF Init, FlagInv
<1>7. RewriteInv /\ BgsaveInv /\ RdbInv
  BY <1>1, Zenon DEF RewriteInv, BgsaveInv, RdbInv, OneOf
<1>8. QED
  BY <1>3, <1>4, <1>5, <1>6, <1>7, Zenon DEF KInv

\* Every step of the server keeps the invariant.
LEMMA NextKInv ==
  ASSUME KInv, [Next]_vars
  PROVE  KInv'
<1>1. CASE Next
  BY <1>1, NextSetup, NextStore, NextLog, NextFlag, NextRewrite, NextDumps, Zenon DEF KInv
<1>2. CASE UNCHANGED vars
  BY <1>2, Zenon DEF vars, KInv, SetupInv, StoreInv, LogInv, FlagInv, RewriteInv, BgsaveInv,
       RdbInv, Snapshot
<1>3. QED
  BY <1>1, <1>2

-----------------------------------------------------------------------------
(* What the log explains                                                   *)

\* A write appends what it does.
LEMMA WriteTells ==
  ASSUME KInv, NEW c \in setup.commands, Write(c), NEW m, IsLimit(m), Room(setup, m),
         Tells(log \o pending, store, now, m)
  PROVE  Tells(log' \o pending', store', now', m)
<1>1. /\ IsCommand(c, Key, Blob) /\ pending = <<>>
      /\ now' = now /\ log' = log
      /\ store' = execute(store, c, now, setup).store
      /\ pending' = execute(store, c, now, setup).effects
  BY WriteStep, Zenon
<1>2. PICK l, s, t, u, x : /\ l = log /\ s = store /\ t = now /\ u = setup
                           /\ x = execute(s, c, t, u)
  OBVIOUS
<1>3. IsLog(l, Key, Blob) /\ IsStore(s, Key, Blob) /\ t \in Nat /\ IsLimit(u) /\ Room(u, m)
  BY <1>2, SetupFacts, Zenon DEF KInv, LogInv, StoreInv
<1>4. l \o <<>> = l
  <2>1. l \in Seq(ToSet(l))
    BY <1>3, Zenon DEF IsLog
  <2>2. QED
    BY <2>1
<1>5. Tells(l, s, t, m)
  BY <1>1, <1>2, <1>4, Zenon
<1>6. Tells(l \o x.effects, x.store, t, m)
  BY <1>1, <1>2, <1>3, <1>5, EffectsTell, SMTT(20)
<1>7. log' = l /\ pending' = x.effects /\ now' = t /\ store' = x.store
  BY <1>1, <1>2, Zenon
<1>8. QED
  BY <1>6, <1>7, Zenon

\* What keeps the log, or moves it on, and what is alive.
LEMMA StayTells ==
  ASSUME Stays, log' \o pending' = log \o pending, NEW m, Tells(log \o pending, store, now, m)
  PROVE  Tells(log' \o pending', store', now', m)
BY Zenon DEF Tells, Stays, Same

\* Appending an effect moves it from pending to the log.
LEMMA AppendedMoves ==
  ASSUME KInv, Appended
  PROVE  log' \o pending' = log \o pending
<1>1. IsLog(log, Key, Blob) /\ IsLog(pending, Key, Blob)
  BY Zenon DEF KInv, LogInv
<1>2. PICK l, p : l = log /\ p = pending
  OBVIOUS
<1>3. p # <<>> /\ log' = Append(l, Head(p)) /\ pending' = Tail(p)
  BY <1>2, Zenon DEF Appended
<1>4. PICK C : l \in Seq(C) /\ p \in Seq(C)
  <2>1. ToSet(l) \subseteq ToSet(l) \cup ToSet(p) /\ ToSet(p) \subseteq ToSet(l) \cup ToSet(p)
    OBVIOUS
  <2>2. l \in Seq(ToSet(l) \cup ToSet(p)) /\ p \in Seq(ToSet(l) \cup ToSet(p))
    BY <1>1, <1>2, <2>1, LogIn
  <2>3. QED
    BY <2>2, Zenon
<1>5. Append(l, Head(p)) \o Tail(p) = l \o p
  <2>1. Head(p) \in C /\ Tail(p) \in Seq(C) /\ <<Head(p)>> \in Seq(C) /\ p = <<Head(p)>> \o Tail(p)
    BY <1>3, <1>4
  <2>2. Append(l, Head(p)) = l \o <<Head(p)>>
    BY <1>4, <2>1
  <2>3. (l \o <<Head(p)>>) \o Tail(p) = l \o (<<Head(p)>> \o Tail(p))
    BY ONLY <1>4, <2>1, ConcatAssociative
  <2>4. QED
    BY <2>1, <2>2, <2>3, Zenon
<1>6. QED
  BY <1>2, <1>3, <1>5, Zenon

\* A rewritten log tells what is alive, if nothing has expired since the snapshot.
LEMMA RewriteTells ==
  ASSUME KInv, RewriteEnd, \A s \in rewrite : expired(s, now) = {},
         NEW m, IsLimit(m), \A s \in rewrite : Fits(s, m)
  PROVE  Tells(log', store, now, m) /\ pending = <<>>
<1>1. PICK s \in rewrite : log' = build_rewrite_payload(s, now)
  BY Zenon DEF RewriteEnd
<1>2. /\ IsStore(s, Key, Blob) /\ now \in Nat
      /\ Live(s.entry, now) = Live(store.entry, now) /\ pending = <<>>
  BY SetupFacts, Zenon DEF KInv, RewriteInv, Snapshot
<1>3. expired(s, now) = {} /\ Fits(s, m)
  BY Zenon
<1>4. replay(build_rewrite_payload(s, now), now, m).entry = s.entry
  BY <1>2, <1>3, RewritePayload
<1>5. QED
  BY <1>1, <1>2, <1>4, Zenon DEF Tells

\* No limit: there is room for everything.
LEMMA UnlimitedLimit == IsLimit(Unlimited) /\ Room(setup, Unlimited) /\ \A s : Fits(s, Unlimited)
BY DEF IsLimit, Unlimited, Room, Fits

\* One step, for a limit that takes what the server takes.
LEMMA NextTells ==
  ASSUME KInv, Serves \/ Writes \/ Appended, setup.maxTime = 0, healthy',
         NEW m, IsLimit(m), Room(setup, m),
         RewriteEnd \/ Tells(log \o pending, store, now, m),
         \A s \in rewrite : Fits(s, m)
  PROVE  Tells(log' \o pending', store', now', m)
<1>1. ~Tick /\ \A s \in rewrite : expired(s, now) = {}
  <2>1. now \in Nat /\ now = 0
    BY SetupFacts, Zenon DEF KInv
  <2>2. ~Tick
    BY <2>1 DEF Tick
  <2>3. QED
    BY <2>2, Zenon DEF KInv, RewriteInv
<1>2. ASSUME RewriteEnd PROVE Tells(log' \o pending', store', now', m)
  <2>1. Tells(log', store, now, m) /\ pending = <<>>
    BY <1>1, <1>2, RewriteTells
  <2>2. pending' = pending /\ store' = store /\ now' = now
    BY <1>2, Zenon DEF RewriteEnd
  <2>3. IsLog(log', Key, Blob)
    BY <1>2, NextLog, Zenon DEF Next, Serves, LogInv
  <2>4. PICK l : l = log'
    OBVIOUS
  <2>5. l \in Seq(ToSet(l))
    BY <2>3, <2>4, Zenon DEF IsLog
  <2>6. l \o <<>> = l
    BY <2>5
  <2>7. QED
    BY <2>1, <2>2, <2>4, <2>6, Zenon
<1>3. ASSUME ~RewriteEnd, Serves PROVE Tells(log' \o pending', store', now', m)
  <2>1. ~AppendFails
    BY Zenon DEF AppendFails
  <2>2. log' = log /\ pending' = pending
    BY <1>1, <1>3, <2>1, Zenon DEF Serves, Get, Dbsize, ActiveExpire, Save, BgsaveStart,
         BgsaveEnd, RewriteStart, RewriteFails
  <2>3. Stays
    BY <1>1, <1>3, ServeStays, Zenon
  <2>4. QED
    BY <1>3, <2>2, <2>3, StayTells, Zenon
<1>4. ASSUME ~RewriteEnd, Appended PROVE Tells(log' \o pending', store', now', m)
  <2>1. Stays
    BY <1>1, <1>4, ServeStays, Zenon
  <2>2. QED
    BY <1>4, <2>1, AppendedMoves, StayTells, Zenon
<1>5. ASSUME ~RewriteEnd, Writes PROVE Tells(log' \o pending', store', now', m)
  <2>1. PICK c \in setup.commands : Write(c)
    BY <1>5, Zenon DEF Writes
  <2>2. QED
    BY <1>5, <2>1, WriteTells
<1>6. QED
  BY <1>2, <1>3, <1>4, <1>5, Zenon

\* Every step keeps that the log explains the store.
LEMMA NextExplain ==
  ASSUME KInv, ExplainInv, Next
  PROVE  ExplainInv'
<1>1. setup' = setup
  BY Zenon DEF Next, Serves, Writes, Tick, Get, Dbsize, ActiveExpire, AppendFails, Save,
       BgsaveStart, BgsaveEnd, RewriteStart, RewriteEnd, RewriteFails, Write, Appended, Restart
<1>2. ASSUME healthy', ~Restart PROVE healthy
  BY <1>2, Zenon DEF Next, Serves, Writes, Tick, Get, Dbsize, ActiveExpire, AppendFails, Save,
       BgsaveStart, BgsaveEnd, RewriteStart, RewriteEnd, RewriteFails, Write, Appended
<1>3. ASSUME ~partial', ~Restart PROVE RewriteEnd \/ ~partial
  BY <1>3, Zenon DEF Next, Serves, Writes, Tick, Get, Dbsize, ActiveExpire, AppendFails, Save,
       BgsaveStart, BgsaveEnd, RewriteStart, RewriteFails, Write, Appended
<1>4. ASSUME healthy', setup.maxTime = 0, ~setup.restarts
      PROVE  Tells(log' \o pending', store', now', Unlimited)
  <2>1. ~Restart
    BY <1>4, Zenon DEF Restart
  <2>2. Tells(log \o pending, store, now, Unlimited)
    BY <1>2, <1>4, <2>1, Zenon DEF ExplainInv, Explains, Tells
  <2>3. QED
    BY <1>4, <2>1, <2>2, NextTells, UnlimitedLimit, Zenon DEF Next
<1>5. ASSUME healthy', ~partial', setup.maxTime = 0, setup.policy = "noeviction"
      PROVE  Tells(log' \o pending', store', now', setup)
  <2>1. IsLimit(setup) /\ Room(setup, setup) /\ now \in Nat
    <3>1. IsLimit(setup) /\ setup.maxmemory \in Nat /\ now \in Nat
      BY SetupFacts, Zenon DEF KInv, IsLimit
    <3>2. QED
      BY <1>5, <3>1 DEF Room
  <2>2. PICK m : m = setup
    OBVIOUS
  <2>3. CASE ~Restart
    <3>1. RewriteEnd \/ Tells(log \o pending, store, now, m)
      BY <1>2, <1>3, <1>5, <2>2, <2>3, Zenon DEF ExplainInv, Explains, Tells
    <3>2. \A s \in rewrite : Fits(s, m)
      BY <2>2, Zenon DEF KInv, RewriteInv, Snapshot
    <3>3. Serves \/ Writes \/ Appended
      BY <2>3, Zenon DEF Next
    <3>4. Tells(log' \o pending', store', now', m)
      BY <1>5, <2>1, <2>2, <3>1, <3>2, <3>3, NextTells, Zenon
    <3>5. QED
      BY <2>2, <3>4, Zenon
  <2>4. CASE Restart
    <3>1. log' = log /\ pending' = <<>> /\ now' = now /\ store' = Recovered
      BY <2>4, Zenon DEF Restart
    <3>2. log = <<>> => rdb = {}
      BY <1>5, <2>4, Zenon DEF Restart
    <3>3. Recovered = replay(log, now, setup)
      BY <3>2, ReplayEmpty, Zenon DEF Recovered
    <3>4. log \in Seq(ToSet(log))
      BY Zenon DEF KInv, LogInv, IsLog
    <3>5. log \o <<>> = log
      BY <3>4
    <3>6. QED
      BY <3>1, <3>3, <3>5, Zenon DEF Tells
  <2>5. QED
    BY <2>3, <2>4
<1>6. QED
  BY <1>1, <1>4, <1>5, Zenon DEF ExplainInv, Explains, Tells

\* When the server starts, the log explains the store.
LEMMA InitExplain ==
  ASSUME Init
  PROVE  ExplainInv
<1>1. now = 0 /\ pending = <<>> /\ log = <<>> /\ store = EmptyStore
  BY Zenon DEF Init
<1>2. <<>> \o <<>> = <<>>
  OBVIOUS
<1>3. \A m : replay(log \o pending, now, m) = store
  BY <1>1, <1>2, ReplayEmpty, Zenon
<1>4. QED
  BY <1>3, Zenon DEF ExplainInv, Explains

-----------------------------------------------------------------------------
(* The theorems about the master                                           *)

\* A client sees what is alive.
LEMMA SameVisible ==
  ASSUME NEW x, NEW y, Live(x.entry, now) = Live(y.entry, now)
  PROVE  Visible(x) = Visible(y)
<1> DEFINE Seen(f) == [k \in DOMAIN f |-> <<f[k].type, f[k].value>>]
<1>1. ASSUME NEW s PROVE Visible(s) = Seen(Live(s.entry, now))
  <2>1. DOMAIN Live(s.entry, now) = keys(s) \ expired(s, now)
    BY DEF Live, Less, keys, expired
  <2>2. \A k \in keys(s) \ expired(s, now) : Live(s.entry, now)[k] = s.entry[k]
    BY DEF Live, Less, keys, expired
  <2>3. QED
    BY <2>1, <2>2 DEF Visible
<1> HIDE DEF Seen
<1>2. QED
  BY <1>1, Zenon

(* The keyspace, the log, the snapshots and the dump stay well-formed,     *)
(* every snapshot and dump is of a store that kept the limit, and the log  *)
(* with what is still to be appended explains the keyspace: the inductive  *)
(* invariant of the write path, expiry, SAVE, BGSAVE, rewrite and restart. *)
THEOREM Inductive == Spec => [](KInv /\ ExplainInv)
<1>1. Init => KInv /\ ExplainInv
  BY InitKInv, InitExplain
<1>2. KInv /\ ExplainInv /\ [Next]_vars => (KInv /\ ExplainInv)'
  <2> SUFFICES ASSUME KInv, ExplainInv, [Next]_vars PROVE (KInv /\ ExplainInv)'
    OBVIOUS
  <2>1. KInv'
    BY NextKInv
  <2>2. ExplainInv'
    <3>1. CASE Next
      BY <3>1, NextExplain
    <3>2. CASE UNCHANGED vars
      BY <3>2, Zenon DEF vars, ExplainInv, Explains
    <3>3. QED
      BY <3>1, <3>2
  <2>3. QED
    BY <2>1, <2>2
<1>3. QED
  BY <1>1, <1>2, PTL DEF Spec

\* At most one.
LEMMA OneCardinal ==
  ASSUME NEW S, OneOf(S)
  PROVE  Cardinality(S) <= 1
<1>1. CASE S = {}
  BY <1>1, FS_EmptySet
<1>2. CASE S # {}
  <2>1. PICK x : x \in S
    BY <1>2
  <2>2. S = {x}
    BY <2>1 DEF OneOf
  <2>3. Cardinality({x}) = 1
    BY FS_Singleton, Zenon
  <2>4. QED
    BY <2>2, <2>3
<1>3. QED
  BY <1>1, <1>2

\* The invariant gives the types.
LEMMA KInvType ==
  ASSUME KInv
  PROVE  TypeOK
<1>1. /\ setup \in Setups /\ now \in 0..setup.maxTime
      /\ IsStore(store, Key, Blob)
      /\ healthy \in BOOLEAN /\ partial \in BOOLEAN
  BY Zenon DEF KInv, SetupInv, StoreInv, FlagInv
<1>2. OneOf(rewrite) /\ \A s \in rewrite : IsStore(s, Key, Blob)
  BY Zenon DEF KInv, RewriteInv, Snapshot
<1>3. OneOf(bgsave) /\ \A s \in bgsave : IsStore(s, Key, Blob)
  BY Zenon DEF KInv, BgsaveInv, Snapshot
<1> DEFINE L == {load_rdb(data, 0) : data \in rdb}
<1>4. OneOf(L) /\ \A x \in L : IsStore(x, Key, Blob)
  <2>1. OneOf(L)
    BY Zenon DEF KInv, RdbInv, OneOf
  <2>2. ASSUME NEW data \in rdb PROVE IsStore(load_rdb(data, 0), Key, Blob)
    <3>1. PICK s : IsStore(s, Key, Blob) /\ data = dump_rdb_entries(s)
      BY Zenon DEF KInv, RdbInv, Snapshot
    <3>2. 0 \in Nat
      OBVIOUS
    <3>3. QED
      BY <3>1, <3>2, RdbRoundTrip
  <2>3. QED
    BY <2>1, <2>2, Zenon
<1>5. \A c \in ToSet(log \o pending) : IsCommand(c, Key, Blob)
  <2>1. IsLog(log \o pending, Key, Blob)
    BY LogConcat, Zenon DEF KInv, LogInv
  <2>2. PICK l : l = log \o pending
    BY Zenon
  <2>3. ToSet(l) \subseteq ToSet(l)
    OBVIOUS
  <2>4. AllCommands(ToSet(l), Key, Blob)
    BY <2>1, <2>2, <2>3, LogIn, SMTT(20)
  <2>5. QED
    BY <2>2, <2>4, Zenon DEF AllCommands
<1>6. \A S \in {rewrite, bgsave, L} : Cardinality(S) <= 1 /\ \A s \in S : IsStore(s, Key, Blob)
  <2> HIDE DEF L
  <2>1. Cardinality(rewrite) <= 1 /\ Cardinality(bgsave) <= 1 /\ Cardinality(L) <= 1
    BY <1>2, <1>3, <1>4, OneCardinal
  <2>2. QED
    BY <1>2, <1>3, <1>4, <2>1, Zenon
<1>7. QED
  BY <1>1, <1>5, <1>6, Zenon DEF TypeOK

(* Type correctness of the keyspace: in every state each key has an entry  *)
(* of its type, a place in the dictionary and an access time, and what is  *)
(* in the AOF, in the snapshots and in dump.rdb can be executed or loaded. *)
THEOREM TypeCorrect == Spec => []TypeOK
<1>1. KInv => TypeOK
  BY KInvType
<1>2. QED
  BY <1>1, Inductive, PTL

(* The keyspace keeps maxmemory between commands, under every policy and   *)
(* whatever was evicted, rolled back, expired, loaded or replayed: what    *)
(* enforce_memory_limit promises.                                          *)
THEOREM Bounded == Spec => []MemoryBounded
<1>1. KInv => MemoryBounded
  BY Zenon DEF KInv, StoreInv, MemoryBounded
<1>2. QED
  BY <1>1, Inductive, PTL

(* The effects that _execute_inner appends, the command and a DEL for every*)
(* evicted key, explain the master's keyspace to whoever has no limit.     *)
THEOREM Explained == Spec => []LogExplainsStore
<1>1. ExplainInv => LogExplainsStore
  <2> SUFFICES ASSUME ExplainInv PROVE LogExplainsStore
    OBVIOUS
  <2>1. ASSUME Explains(Unlimited)
        PROVE  Visible(replay(log \o pending, now, Unlimited)) = Visible(store)
    BY <2>1, SameVisible, Zenon DEF Explains
  <2>2. QED
    BY <2>1, Zenon DEF ExplainInv, LogExplainsStore
<1>2. QED
  BY <1>1, Inductive, PTL

(* A restart (_load_persistence) gives back what clients could read, when  *)
(* nothing expires and nothing is evicted, at whatever moment the server is*)
(* killed, saves a dump or rewrites its AOF, unless an empty AOF makes it  *)
(* load a dump.                                                            *)
THEOREM Recovers == Spec => []LogKeepsData
<1>1. KInv /\ ExplainInv => LogKeepsData
  <2> SUFFICES ASSUME KInv, ExplainInv,
                      setup.policy = "noeviction", setup.maxTime = 0, ~partial,
                      log = <<>> => rdb = {}, Settled
               PROVE  Visible(Recovered) = Visible(store)
    BY Zenon DEF LogKeepsData, RestartKeepsData
  <2>1. pending = <<>> /\ healthy
    BY Zenon DEF Settled, Locked
  <2>2. Recovered = replay(log, now, setup)
    BY ReplayEmpty, Zenon DEF Recovered
  <2>3. log \in Seq(ToSet(log))
    BY Zenon DEF KInv, LogInv, IsLog
  <2>4. log \o <<>> = log
    BY <2>3
  <2>5. Live(Recovered.entry, now) = Live(store.entry, now)
    BY <2>1, <2>2, <2>4, Zenon DEF ExplainInv, Explains
  <2>6. QED
    BY <2>5, SameVisible
<1>2. QED
  BY <1>1, Inductive, PTL

(* A write that is refused (WRONGTYPE), or finds no room even after        *)
(* evictions (OOM, rolled back), changes no value and no expiry time.      *)
THEOREM RefusedWrites == Spec => RefusedChangesNothing
<1> DEFINE Refusal ==
             \A c \in setup.commands :
               Write(c) /\ pending' = <<>> => store'.entry = purge_expired(store, now).entry
<1>1. KInv => Refusal
  <2> SUFFICES ASSUME KInv, NEW c \in setup.commands, Write(c), pending' = <<>>
               PROVE  store'.entry = purge_expired(store, now).entry
    BY Zenon
  <2>1. PICK s, t, m, x : s = store /\ t = now /\ m = setup /\ x = execute(s, c, t, m)
    OBVIOUS
  <2>2. IsCommand(c, Key, Blob) /\ store' = x.store /\ x.effects = <<>>
    BY <2>1, WriteStep, Zenon
  <2>3. IsStore(s, Key, Blob) /\ t \in Nat /\ IsLimit(m)
    BY <2>1, SetupFacts, Zenon DEF KInv, StoreInv
  <2>4. \/ Rejected(s, c, t, x)
        \/ \E evicted \in Seq(Key) : Accepted(s, c, t, m, x, evicted)
    BY <2>1, <2>2, <2>3, ExecuteStore
  <2>5. ASSUME NEW evicted \in Seq(Key), Accepted(s, c, t, m, x, evicted) PROVE FALSE
    <3>1. x.effects = <<c>> \o DelsOf(evicted)
      BY <2>5, Zenon DEF Accepted
    <3>2. PICK D : D = DelsOf(evicted)
      OBVIOUS
    <3>3. D \in Seq({DelOf(k) : k \in Key})
      BY <3>2 DEF DelsOf
    <3>4. <<c>> \o D # <<>>
      BY <3>3
    <3>5. QED
      BY <2>2, <3>1, <3>2, <3>4, Zenon
  <2>6. QED
    BY <2>1, <2>2, <2>4, <2>5, Zenon DEF Rejected
<1> HIDE DEF Refusal
<1>2. Spec => []KInv
  BY Inductive, PTL
<1>3. Spec => [][Refusal]_vars
  BY <1>1, <1>2, PTL
<1>4. QED
  BY <1>3 DEF Refusal, RefusedChangesNothing

(* The commands that _build_rewrite_payload writes restore what clients see*)
(* under the server's own limit, if no key expired since the snapshot; the *)
(* lock keeps that snapshot up to date.                                    *)
THEOREM RewriteEquivalent == Spec => RewriteIsEquivalent
<1> DEFINE Restores ==
             RewriteEnd /\ (\A s \in rewrite : expired(s, now) = {})
               => Visible(replay(log', now, setup)) = Visible(store)
<1>1. KInv => Restores
  <2> SUFFICES ASSUME KInv, RewriteEnd, \A s \in rewrite : expired(s, now) = {}
               PROVE  Visible(replay(log', now, setup)) = Visible(store)
    BY Zenon
  <2>1. PICK m : m = setup
    OBVIOUS
  <2>2. IsLimit(m) /\ \A s \in rewrite : Fits(s, m)
    BY <2>1, SetupFacts, Zenon DEF KInv, RewriteInv, Snapshot
  <2>3. Tells(log', store, now, m)
    BY <2>2, RewriteTells
  <2>4. PICK x : x = replay(log', now, setup)
    OBVIOUS
  <2>5. Live(x.entry, now) = Live(store.entry, now)
    BY <2>1, <2>3, <2>4, Zenon DEF Tells
  <2>6. QED
    BY <2>4, <2>5, SameVisible, Zenon
<1> HIDE DEF Restores
<1>2. Spec => []KInv
  BY Inductive, PTL
<1>3. Spec => [][Restores]_vars
  BY <1>1, <1>2, PTL
<1>4. QED
  BY <1>3 DEF Restores, RewriteIsEquivalent

(* With a replica the master does what it does without one: a full resync  *)
(* purges expired keys as DBSIZE does, and the rest is the replica's.  So  *)
(* all of the above holds of a master that has a replica.                  *)
THEOREM MasterOfReplica == ReplicaSpec => Spec
<1>1. ReplicaInit => Init
  BY DEF ReplicaInit
<1>2. [ReplicaNext]_allVars => [Next]_vars
  <2> SUFFICES ASSUME [ReplicaNext]_allVars PROVE [Next]_vars
    OBVIOUS
  <2>1. ASSUME MasterServes \/ MasterAppended \/ MasterRestart PROVE Next
    BY <2>1, Zenon DEF MasterServes, MasterAppended, MasterRestart, Next
  <2>2. ASSUME Psync PROVE Dbsize
    BY <2>2, Zenon DEF Psync, Dbsize
  <2>3. ASSUME NEW k \in Key, ReplicaGet(k) PROVE UNCHANGED vars
    BY <2>3, Zenon DEF ReplicaGet
  <2>4. ASSUME Disconnect \/ Apply \/ ReplicaExpire \/ ReplicaRestart \/ UNCHANGED allVars
        PROVE  UNCHANGED vars
    BY <2>4, Zenon DEF Disconnect, Apply, ReplicaExpire, ReplicaRestart, allVars
  <2>5. QED
    BY <2>1, <2>2, <2>3, <2>4, Zenon DEF ReplicaNext, Next, Serves
<1>3. QED
  BY <1>1, <1>2, PTL DEF ReplicaSpec, Spec

-----------------------------------------------------------------------------
(* What arrives at the replica                                             *)

\* after has the replica's keyspace after the first i items.
AllBy(after, s, items, n, t, m) ==
  after = [i \in 0..n |-> IF i = 0 THEN s ELSE Applied(after[i - 1], items[i], t, m)]

\* What AppliedAll computes, item by item.
LEMMA AllSteps ==
  ASSUME NEW s, NEW items, NEW n \in Nat, n = Len(items), NEW t, NEW m
  PROVE  \E after : AllBy(after, s, items, n, t, m) /\ AppliedAll(s, items, t, m) = after[n]
<1> DEFINE Step(x, i) == Applied(x, items[i], t, m)
           Good(g, k) == g = [i \in 0..k |-> IF i = 0 THEN s ELSE Step(g[i - 1], i)]
           T == {k \in Nat : \E g : Good(g, k)}
<1>1. 0 \in T
  <2>1. Good([i \in 0..0 |-> s], 0)
    OBVIOUS
  <2>2. QED
    BY <2>1, Zenon
<1>2. ASSUME NEW k \in T PROVE k + 1 \in T
  <2>1. PICK g : Good(g, k)
    OBVIOUS
  <2> DEFINE h == [i \in 0..k + 1 |-> IF i = k + 1 THEN Step(g[k], i) ELSE g[i]]
  <2> HIDE DEF Step
  <2>2. \A i \in 0..k : h[i] = g[i]
    OBVIOUS
  <2>3. ASSUME NEW i \in 0..k + 1
        PROVE  h[i] = IF i = 0 THEN s ELSE Step(h[i - 1], i)
    <3>1. CASE i = k + 1
      BY <2>2, <3>1
    <3>2. CASE i \in 0..k
      BY <2>1, <2>2, <3>2, SMTT(20)
    <3>3. QED
      BY <3>1, <3>2
  <2>4. Good(h, k + 1)
    BY <2>3
  <2>5. QED
    <3> HIDE DEF Good, h
    <3>1. \E f : Good(f, k + 1)
      BY <2>4, Zenon
    <3>2. QED
      BY <3>1
<1>3. n \in T
  <2> HIDE DEF T
  <2>1. \A i \in 0..n : i \in T
    BY <1>1, <1>2, Counting, Zenon
  <2>2. QED
    BY <2>1
<1>4. \E g : Good(g, n)
  BY <1>3
<1> DEFINE after == CHOOSE g : Good(g, n)
<1>5. Good(after, n)
  BY <1>4, SMTT(20)
<1>6. AppliedAll(s, items, t, m) = after[n]
  BY DEF AppliedAll
<1> HIDE DEF after
<1>7. QED
  BY <1>5, <1>6, Zenon DEF AllBy

\* f has the keyspaces that applying the items goes through.
RunBy(f, s, items, n, t, m) ==
  f[0] = s /\ \A i \in 1..n : f[i] = Applied(f[i - 1], items[i], t, m)

\* The same, as a run of the replica.
LEMMA AllRun ==
  ASSUME NEW s, NEW items, NEW n \in Nat, n = Len(items), NEW t, NEW m
  PROVE  \E f : RunBy(f, s, items, n, t, m) /\ AppliedAll(s, items, t, m) = f[n]
<1>1. PICK f : AllBy(f, s, items, n, t, m) /\ AppliedAll(s, items, t, m) = f[n]
  BY AllSteps, SMTT(20)
<1>2. 0 \in 0..n /\ \A i \in 1..n : i \in 0..n /\ i # 0
  OBVIOUS
<1>3. RunBy(f, s, items, n, t, m)
  BY <1>1, <1>2, Zenon DEF AllBy, RunBy
<1>4. QED
  BY <1>1, <1>3, Zenon

\* ... and whatever goes through them ends there.
LEMMA RunAll ==
  ASSUME NEW s, NEW items, NEW n \in Nat, n = Len(items), NEW t, NEW m,
         NEW f, RunBy(f, s, items, n, t, m)
  PROVE  AppliedAll(s, items, t, m) = f[n]
<1>1. PICK g : RunBy(g, s, items, n, t, m) /\ AppliedAll(s, items, t, m) = g[n]
  BY AllRun
<1> DEFINE T == {i \in 0..n : f[i] = g[i]}
<1>2. 0 \in T
  BY <1>1 DEF RunBy
<1>3. ASSUME NEW i \in 0..n - 1, i \in T PROVE i + 1 \in T
  <2>1. i + 1 \in 0..n /\ (i + 1) - 1 = i /\ i + 1 \in 1..n
    OBVIOUS
  <2>2. f[i + 1] = Applied(f[i], items[i + 1], t, m) /\ g[i + 1] = Applied(g[i], items[i + 1], t, m)
    BY <1>1, <2>1, Zenon DEF RunBy
  <2>3. QED
    BY <1>3, <2>1, <2>2
<1>4. f[n] = g[n]
  <2>1. \A i \in 0..n : i \in T
    <3> HIDE DEF T
    <3>1. QED
      BY <1>2, <1>3, Counting, Zenon
  <2>2. QED
    BY <2>1
<1>5. QED
  BY <1>1, <1>4

\* Applying nothing changes nothing.
LEMMA AllEmpty ==
  ASSUME NEW s, NEW t, NEW m
  PROVE  AppliedAll(s, <<>>, t, m) = s
<1>1. 0 \in Nat /\ 0 = Len(<<>>)
  OBVIOUS
<1>2. PICK f : RunBy(f, s, <<>>, 0, t, m) /\ AppliedAll(s, <<>>, t, m) = f[0]
  BY <1>1, AllRun
<1>3. QED
  BY <1>2, Zenon DEF RunBy

\* One feed after the other.
LEMMA AllConcat ==
  ASSUME NEW S, NEW u \in Seq(S), NEW v \in Seq(S), NEW s, NEW t, NEW m
  PROVE  AppliedAll(s, u \o v, t, m) = AppliedAll(AppliedAll(s, u, t, m), v, t, m)
<1>1. PICK a, b, w : a = Len(u) /\ b = Len(v) /\ w = u \o v /\ a \in Nat /\ b \in Nat
  <2>1. Len(u) \in Nat /\ Len(v) \in Nat
    OBVIOUS
  <2>2. QED
    BY <2>1, Zenon
<1>2. /\ a + b \in Nat /\ a + b = Len(w)
      /\ \A i \in 1..a : w[i] = u[i]
      /\ \A i \in 1..b : w[a + i] = v[i]
  BY <1>1
<1>3. PICK f : RunBy(f, s, w, a + b, t, m) /\ AppliedAll(s, w, t, m) = f[a + b]
  BY <1>2, AllRun
<1>4. RunBy(f, s, u, a, t, m)
  <2>1. \A i \in 1..a : i \in 1..a + b
    BY <1>1
  <2>2. QED
    BY <1>2, <1>3, <2>1, Zenon DEF RunBy
<1>5. AppliedAll(s, u, t, m) = f[a]
  BY <1>1, <1>4, RunAll
<1> DEFINE g == [i \in 0..b |-> f[a + i]]
<1>6. RunBy(g, f[a], v, b, t, m)
  <2>1. g[0] = f[a]
    BY <1>1
  <2>2. ASSUME NEW i \in 1..b PROVE g[i] = Applied(g[i - 1], v[i], t, m)
    <3>1. a + i \in 1..a + b /\ (a + i) - 1 = a + (i - 1) /\ i \in 0..b /\ i - 1 \in 0..b
      BY <1>1
    <3>2. f[a + i] = Applied(f[a + (i - 1)], w[a + i], t, m)
      BY <1>3, <3>1, Zenon DEF RunBy
    <3>3. g[i] = f[a + i] /\ g[i - 1] = f[a + (i - 1)]
      BY <3>1
    <3>4. QED
      BY <1>2, <3>2, <3>3, Zenon
  <2>3. QED
    BY <2>1, <2>2, Zenon DEF RunBy
<1>7. g[b] = f[a + b]
  BY <1>1
<1> HIDE DEF g
<1>8. AppliedAll(f[a], v, t, m) = g[b]
  <2>1. PICK y : y = f[a]
    OBVIOUS
  <2>2. QED
    BY <1>1, <1>6, <2>1, RunAll, SMTT(20)
<1>9. QED
  BY <1>1, <1>3, <1>5, <1>7, <1>8, Zenon

\* The first item first.
LEMMA AllOne ==
  ASSUME NEW s, NEW item, NEW t, NEW m
  PROVE  AppliedAll(s, <<item>>, t, m) = Applied(s, item, t, m)
<1>1. PICK w : w = <<item>>
  BY Zenon
<1>2. 1 \in Nat /\ 1 = Len(w) /\ w[1] = item
  BY <1>1
<1>3. PICK f : RunBy(f, s, w, 1, t, m) /\ AppliedAll(s, w, t, m) = f[1]
  BY <1>2, AllRun
<1>4. f[0] = s /\ f[1] = Applied(f[0], w[1], t, m)
  <2>1. 1 \in 1..1 /\ 1 - 1 = 0
    OBVIOUS
  <2>2. QED
    BY <1>3, <2>1, Zenon DEF RunBy
<1>5. QED
  BY <1>1, <1>2, <1>3, <1>4, Zenon

\* The first item is applied first.
LEMMA AllHead ==
  ASSUME NEW S, NEW w \in Seq(S), w # <<>>, NEW s, NEW t, NEW m
  PROVE  AppliedAll(s, w, t, m) = AppliedAll(Applied(s, Head(w), t, m), Tail(w), t, m)
<1>1. Head(w) \in S /\ Tail(w) \in Seq(S) /\ <<Head(w)>> \in Seq(S) /\ w = <<Head(w)>> \o Tail(w)
  OBVIOUS
<1>2. PICK u \in Seq(S), v \in Seq(S) : u = <<Head(w)>> /\ v = Tail(w)
  BY <1>1, Zenon
<1>3. AppliedAll(s, u \o v, t, m) = AppliedAll(AppliedAll(s, u, t, m), v, t, m)
  BY AllConcat
<1>4. QED
  BY <1>1, <1>2, <1>3, AllOne, Zenon

\* What is sent to a replica: commands, and dumps of well-formed stores.
IsDump(data) == \E s : IsStore(s, Key, Blob) /\ data = dump_rdb_entries(s)

IsItem(item) ==
  IsCommand(item, Key, Blob) \/ (item.name = "SNAPSHOT" /\ IsDump(item.rdb))

IsFeed(items) ==
  items \in Seq(ToSet(items)) /\ \A i \in 1..Len(items) : IsItem(items[i])

\* A replica executes the commands it is sent.
LEMMA CommandApplied ==
  ASSUME NEW c, IsCommand(c, Key, Blob), NEW s, NEW t, NEW m
  PROVE  Applied(s, c, t, m) = execute(s, c, t, m).store
<1>1. c.name # "SNAPSHOT"
  BY DEF IsCommand
<1>2. QED
  BY <1>1, Zenon DEF Applied

\* What a snapshot makes of any store.
LEMMA SnapshotApplied ==
  ASSUME NEW item, item.name = "SNAPSHOT", IsDump(item.rdb), NEW t \in Nat, NEW m, NEW s, NEW r
  PROVE  /\ Applied(s, item, t, m) = Applied(r, item, t, m)
         /\ IsStore(Applied(s, item, t, m), Key, Blob)
<1>1. Applied(s, item, t, m) = load_rdb(item.rdb, t) /\ Applied(r, item, t, m) = load_rdb(item.rdb, t)
  BY Zenon DEF Applied
<1>2. PICK x : IsStore(x, Key, Blob) /\ item.rdb = dump_rdb_entries(x)
  BY Zenon DEF IsDump
<1>3. IsStore(load_rdb(dump_rdb_entries(x), t), Key, Blob)
  BY <1>2, RdbRoundTrip
<1>4. QED
  BY <1>1, <1>2, <1>3, Zenon

\* Applying an item leaves a store.
LEMMA AppliedStore ==
  ASSUME NEW s, IsStore(s, Key, Blob), NEW item, IsItem(item), NEW t \in Nat, NEW m, IsLimit(m)
  PROVE  IsStore(Applied(s, item, t, m), Key, Blob)
<1>1. CASE IsCommand(item, Key, Blob)
  <2>1. IsStore(execute(s, item, t, m).store, Key, Blob)
    BY <1>1, ExecuteStore
  <2>2. QED
    BY <1>1, <2>1, CommandApplied, SMTT(20)
<1>2. CASE item.name = "SNAPSHOT" /\ IsDump(item.rdb)
  BY <1>2, SnapshotApplied, SMTT(20)
<1>3. QED
  BY <1>1, <1>2, Zenon DEF IsItem

\* A limit under which nothing is evicted.
Steady(m) == m.maxmemory = 0 \/ m.policy = "noeviction"

\* Then what becomes of the live entries depends on nothing else.
LEMMA SteadyExecute ==
  ASSUME NEW s, IsStore(s, Key, Blob), NEW r, IsStore(r, Key, Blob), NEW t \in Nat,
         Live(r.entry, t) = Live(s.entry, t), NEW c, IsCommand(c, Key, Blob),
         NEW m, IsLimit(m), Steady(m)
  PROVE  Live(execute(r, c, t, m).store.entry, t) = Live(execute(s, c, t, m).store.entry, t)
<1>1. PICK f, x, z : f = Live(s.entry, t) /\ x = execute(s, c, t, m) /\ z = execute(r, c, t, m)
  OBVIOUS
<1>2. purge_expired(s, t).entry = f /\ purge_expired(r, t).entry = f
  BY <1>1, PurgeLive, SMTT(20)
<1> DEFINE Open == ~Refused(f, c) /\ \E y : y.entry = Effect(f, c, t) /\ Fits(y, m)
           Way(w, q) == Rejected(q, c, t, w) \/ \E evicted \in Seq(Key) : /\ Accepted(q, c, t, m, w, evicted)
                                                                          /\ m.policy = "noeviction" => evicted = <<>>
<1>3. Way(x, s) /\ (Open => Accepted(s, c, t, m, x, <<>>))
  BY <1>1, <1>2, ExecuteStore, SMTT(20)
<1>4. Way(z, r) /\ (Open => Accepted(r, c, t, m, z, <<>>))
  BY <1>1, <1>2, ExecuteStore
<1>5. CASE Open
  <2>1. x.store.entry = Less(Effect(f, c, t), ToSet(<<>>)) /\ z.store.entry = Less(Effect(f, c, t), ToSet(<<>>))
    BY <1>2, <1>3, <1>4, <1>5, Zenon DEF Accepted
  <2>2. QED
    BY <1>1, <2>1, Zenon
<1>6. ASSUME NEW q, NEW w, Way(w, q), ~Open, purge_expired(q, t).entry = f PROVE w.store.entry = f
  <2>1. CASE Rejected(q, c, t, w)
    BY <1>6, <2>1, Zenon DEF Rejected
  <2>2. CASE ~Rejected(q, c, t, w)
    <3>0. PICK evicted \in Seq(Key) : /\ Accepted(q, c, t, m, w, evicted)
                                      /\ m.policy = "noeviction" => evicted = <<>>
      BY <1>6, <2>2, Zenon
    <3>1. ~Refused(f, c) /\ w.store.entry = Less(Effect(f, c, t), ToSet(evicted)) /\ Fits(w.store, m)
      BY <1>6, <3>0, Zenon DEF Accepted
    <3>2. CASE m.maxmemory = 0
      <4>1. PICK e : e = Effect(f, c, t)
        OBVIOUS
      <4>2. [entry |-> e].entry = e /\ Fits([entry |-> e], m)
        BY <3>2 DEF Fits
      <4>3. QED
        BY <1>6, <3>1, <4>1, <4>2, Zenon
    <3>3. CASE m.policy = "noeviction"
      <4>1. PICK e : e = Effect(f, c, t)
        OBVIOUS
      <4>2. evicted = <<>> /\ ToSet(<<>>) = {}
        BY <3>0, <3>3 DEF ToSet
      <4>3. PICK y : y.entry = Less(e, {}) /\ Fits(y, m)
        BY <3>1, <4>1, <4>2, Zenon
      <4>4. keys(y) = DOMAIN e /\ \A k \in DOMAIN e : y.entry[k] = e[k]
        BY <4>3 DEF keys, Less
      <4>5. Fits([entry |-> e], m)
        <5>1. [entry |-> e].entry = e
          OBVIOUS
        <5>2. keys([entry |-> e]) = keys(y) /\ Units([entry |-> e]) = Units(y)
          BY <4>4, <5>1 DEF keys, Units
        <5>3. QED
          BY <4>3, <5>2, Zenon DEF Fits, memory_usage
      <4>6. [entry |-> e].entry = e
        OBVIOUS
      <4>7. QED
        BY <1>6, <3>1, <4>1, <4>5, <4>6, Zenon
    <3>4. QED
      BY <3>2, <3>3, Zenon DEF Steady
  <2>3. QED
    BY <2>1, <2>2, Zenon
<1>7. CASE ~Open
  <2> HIDE DEF Open, Way
  <2>1. x.store.entry = f /\ z.store.entry = f
    BY <1>2, <1>3, <1>4, <1>6, <1>7, Zenon
  <2>2. QED
    BY <1>1, <2>1, Zenon
<1>8. QED
  BY <1>5, <1>7

\* Two replicas with the same live entries have the same after the same item, where
\* nothing is evicted.
LEMMA SteadyApplied ==
  ASSUME NEW s, IsStore(s, Key, Blob), NEW r, IsStore(r, Key, Blob), NEW t \in Nat,
         Live(r.entry, t) = Live(s.entry, t), NEW item, IsItem(item),
         NEW m, IsLimit(m), Steady(m)
  PROVE  Same(Applied(r, item, t, m), Applied(s, item, t, m), t)
<1>1. IsStore(Applied(r, item, t, m), Key, Blob)
  BY AppliedStore
<1>2. CASE IsCommand(item, Key, Blob)
  <2>1. Live(execute(r, item, t, m).store.entry, t) = Live(execute(s, item, t, m).store.entry, t)
    BY <1>2, SteadyExecute
  <2>2. /\ Applied(r, item, t, m) = execute(r, item, t, m).store
        /\ Applied(s, item, t, m) = execute(s, item, t, m).store
    BY <1>2, CommandApplied
  <2>3. QED
    BY <1>1, <2>1, <2>2, ZenonT(30) DEF Same
<1>3. CASE item.name = "SNAPSHOT" /\ IsDump(item.rdb)
  <2>1. Applied(r, item, t, m) = Applied(s, item, t, m)
    BY <1>3, SnapshotApplied
  <2>2. QED
    BY <1>1, <2>1, Zenon DEF Same
<1>4. QED
  BY <1>2, <1>3, Zenon DEF IsItem

\* A feed turns well-formed stores into well-formed ones ...
LEMMA RunStore ==
  ASSUME NEW s, IsStore(s, Key, Blob), NEW w, IsFeed(w), NEW t \in Nat, NEW m, IsLimit(m)
  PROVE  IsStore(AppliedAll(s, w, t, m), Key, Blob)
<1>1. PICK n : n = Len(w) /\ n \in Nat /\ \A i \in 1..n : IsItem(w[i])
  <2>1. Len(w) \in Nat /\ \A i \in 1..Len(w) : IsItem(w[i])
    BY DEF IsFeed
  <2>2. QED
    BY <2>1, Zenon
<1>2. PICK f : RunBy(f, s, w, n, t, m) /\ AppliedAll(s, w, t, m) = f[n]
  BY <1>1, AllRun
<1> DEFINE T == {i \in 0..n : IsStore(f[i], Key, Blob)}
<1>3. 0 \in T
  BY <1>1, <1>2 DEF RunBy
<1>4. ASSUME NEW i \in 0..n - 1, i \in T PROVE i + 1 \in T
  <2>1. i + 1 \in 0..n /\ (i + 1) - 1 = i /\ i + 1 \in 1..n
    BY <1>1
  <2>2. PICK x, item : x = f[i] /\ item = w[i + 1]
    OBVIOUS
  <2>3. IsStore(x, Key, Blob) /\ IsItem(item) /\ f[i + 1] = Applied(x, item, t, m)
    BY <1>1, <1>2, <1>4, <2>1, <2>2, Zenon DEF RunBy
  <2>4. IsStore(Applied(x, item, t, m), Key, Blob)
    BY <2>3, AppliedStore
  <2>5. QED
    BY <2>1, <2>3, <2>4, Zenon
<1>5. n \in T
  <2> HIDE DEF T
  <2>1. \A i \in 0..n : i \in T
    BY <1>1, <1>3, <1>4, Counting, Zenon
  <2>2. QED
    BY <1>1, <2>1
<1>6. QED
  BY <1>2, <1>5, Zenon

\* ... and, where nothing is evicted, the same live entries into the same ones.
LEMMA SteadyRun ==
  ASSUME NEW s, IsStore(s, Key, Blob), NEW r, IsStore(r, Key, Blob), NEW t \in Nat,
         Live(r.entry, t) = Live(s.entry, t), NEW w, IsFeed(w), NEW m, IsLimit(m), Steady(m)
  PROVE  Live(AppliedAll(r, w, t, m).entry, t) = Live(AppliedAll(s, w, t, m).entry, t)
<1>1. PICK n : n = Len(w) /\ n \in Nat /\ \A i \in 1..n : IsItem(w[i])
  <2>1. Len(w) \in Nat /\ \A i \in 1..Len(w) : IsItem(w[i])
    BY DEF IsFeed
  <2>2. QED
    BY <2>1, Zenon
<1>2. PICK f : RunBy(f, s, w, n, t, m) /\ AppliedAll(s, w, t, m) = f[n]
  BY <1>1, AllRun
<1>3. PICK g : RunBy(g, r, w, n, t, m) /\ AppliedAll(r, w, t, m) = g[n]
  BY <1>1, AllRun
<1> DEFINE Alike(y, x) == IsStore(x, Key, Blob) /\ Same(y, x, t)
           T == {i \in 0..n : Alike(g[i], f[i])}
<1>4. 0 \in T
  <2>1. 0 \in 0..n
    BY <1>1
  <2>2. Alike(g[0], f[0])
    BY <1>2, <1>3, Zenon DEF RunBy, Same
  <2>3. QED
    BY <2>1, <2>2, Zenon
<1>5. ASSUME NEW i \in 0..n - 1, i \in T PROVE i + 1 \in T
  <2>1. i + 1 \in 0..n /\ (i + 1) - 1 = i /\ i + 1 \in 1..n
    BY <1>1
  <2>2. PICK x, y, item : x = f[i] /\ y = g[i] /\ item = w[i + 1]
    OBVIOUS
  <2>3. IsItem(item) /\ f[i + 1] = Applied(x, item, t, m) /\ g[i + 1] = Applied(y, item, t, m)
    BY <1>1, <1>2, <1>3, <2>1, <2>2, Zenon DEF RunBy
  <2>4. IsStore(x, Key, Blob) /\ IsStore(y, Key, Blob) /\ Live(y.entry, t) = Live(x.entry, t)
    BY <1>5, <2>2, ZenonT(30) DEF Same
  <2>5. Same(Applied(y, item, t, m), Applied(x, item, t, m), t)
    BY <2>3, <2>4, SteadyApplied, SMTT(20)
  <2>6. IsStore(Applied(x, item, t, m), Key, Blob)
    BY <2>3, <2>4, AppliedStore, SMTT(20)
  <2>7. QED
    BY <2>1, <2>3, <2>5, <2>6, Zenon
<1>6. n \in T
  <2> HIDE DEF T
  <2>1. \A i \in 0..n : i \in T
    BY <1>1, <1>4, <1>5, Counting, Zenon
  <2>2. QED
    BY <1>1, <2>1
<1>7. QED
  BY <1>2, <1>3, <1>6, Zenon DEF Same

\* The effects of a write, applied: what comes after the write is lost.
LEMMA EffectsApplied ==
  ASSUME NEW y, IsStore(y, Key, Blob), NEW c, IsCommand(c, Key, Blob), NEW evicted \in Seq(Key),
         NEW t \in Nat, NEW m, IsLimit(m), NEW z, z = execute(y, c, t, m).store,
         Fits(purge_expired(z, t), m)
  PROVE  Lost(z, ToSet(evicted), t, m, AppliedAll(y, <<c>> \o DelsOf(evicted), t, m), Key, Blob)
<1>1. PICK n, D : n = Len(evicted) /\ D = DelsOf(evicted) /\ n \in Nat
  <2>1. Len(evicted) \in Nat
    OBVIOUS
  <2>2. QED
    BY <2>1, Zenon
<1>2. D \in Seq({DelOf(k) : k \in Key}) /\ Len(D) = n /\ \A i \in 1..n : D[i] = DelOf(evicted[i])
  BY <1>1 DEF DelsOf
<1>3. AppliedAll(y, <<c>> \o D, t, m) = AppliedAll(z, D, t, m)
  <2> DEFINE C == {c} \cup {DelOf(k) : k \in Key}
  <2>1. D \in Seq(C) /\ <<c>> \in Seq(C)
    BY <1>2
  <2> HIDE DEF C
  <2>2. PICK u \in Seq(C) : u = <<c>>
    BY <2>1, Zenon
  <2>3. AppliedAll(y, u \o D, t, m) = AppliedAll(AppliedAll(y, u, t, m), D, t, m)
    BY <2>1, AllConcat
  <2>4. AppliedAll(y, <<c>>, t, m) = Applied(y, c, t, m)
    BY AllOne
  <2>5. Applied(y, c, t, m) = z
    BY CommandApplied, Zenon
  <2>6. QED
    BY <2>2, <2>3, <2>4, <2>5, Zenon
<1>4. PICK g : RunBy(g, z, D, n, t, m) /\ AppliedAll(z, D, t, m) = g[n]
  BY <1>1, <1>2, AllRun
<1>5. g[0] = z /\ DeletedBy(g, evicted, n, t, m)
  <2>1. g[0] = z
    BY <1>4, Zenon DEF RunBy
  <2>2. ASSUME NEW i \in 0..n - 1 PROVE g[i + 1] = execute(g[i], DelOf(evicted[i + 1]), t, m).store
    <3>1. i + 1 \in 1..n /\ (i + 1) - 1 = i
      BY <1>1
    <3>2. g[i + 1] = Applied(g[i], D[i + 1], t, m)
      BY <1>4, <3>1, Zenon DEF RunBy
    <3>3. D[i + 1] = DelOf(evicted[i + 1])
      BY <1>2, <3>1
    <3>4. DelOf(evicted[i + 1]).name # "SNAPSHOT"
      BY DEF DelOf
    <3>5. QED
      BY <3>2, <3>3, <3>4, Zenon DEF Applied
  <2>3. QED
    BY <2>1, <2>2, Zenon DEF DeletedBy
<1>6. IsStore(g[0], Key, Blob) /\ Fits(purge_expired(g[0], t), m)
  <2>1. IsStore(z, Key, Blob)
    BY ExecuteStore
  <2>2. QED
    BY <1>5, <2>1, ZenonT(30)
<1>7. Lost(g[0], ToSet(evicted), t, m, g[n], Key, Blob)
  BY <1>1, <1>5, <1>6, DelsRun, Zenon
<1>8. QED
  BY <1>1, <1>3, <1>4, <1>5, <1>7, Zenon

-----------------------------------------------------------------------------
(* What the replica is sent                                                *)

AllItems(C) == \A c \in C : IsItem(c)

\* A sequence of items is a feed.
LEMMA FeedOf ==
  ASSUME NEW C, AllItems(C), NEW w \in Seq(C)
  PROVE  IsFeed(w)
<1>1. w \in Seq(ToSet(w))
  BY DEF ToSet
<1>2. \A i \in 1..Len(w) : w[i] \in C
  OBVIOUS
<1>3. QED
  BY <1>1, <1>2 DEF IsFeed, AllItems

\* A feed is a sequence of its items.
LEMMA FeedIn ==
  ASSUME NEW w, IsFeed(w), NEW C, ToSet(w) \subseteq C
  PROVE  w \in Seq(C) /\ AllItems(ToSet(w))
<1>1. w \in Seq(ToSet(w)) /\ \A i \in 1..Len(w) : IsItem(w[i])
  BY DEF IsFeed
<1>2. PICK D : D = ToSet(w)
  OBVIOUS
<1>3. w \in Seq(C)
  BY <1>1, <1>2
<1>4. QED
  BY <1>1, <1>3 DEF AllItems, ToSet

\* A log can be sent.
LEMMA LogFeed ==
  ASSUME NEW l, IsLog(l, Key, Blob)
  PROVE  IsFeed(l)
BY Zenon DEF IsLog, IsFeed, IsItem

\* Two feeds are sequences of the items of both.
Items(u, v) == ToSet(u) \cup ToSet(v)

\* Both are such sequences.
LEMMA FeedsIn ==
  ASSUME NEW u, IsFeed(u), NEW v, IsFeed(v)
  PROVE  u \in Seq(Items(u, v)) /\ v \in Seq(Items(u, v)) /\ AllItems(Items(u, v))
<1>1. ToSet(u) \subseteq Items(u, v) /\ ToSet(v) \subseteq Items(u, v)
  BY DEF Items
<1>2. u \in Seq(Items(u, v)) /\ v \in Seq(Items(u, v)) /\ AllItems(ToSet(u)) /\ AllItems(ToSet(v))
  BY <1>1, FeedIn
<1>3. AllItems(Items(u, v))
  BY <1>2, Zenon DEF AllItems, Items
<1>4. QED
  BY <1>2, <1>3, Zenon

\* A feed after a feed is a feed.
LEMMA FeedConcat ==
  ASSUME NEW u, IsFeed(u), NEW v, IsFeed(v)
  PROVE  IsFeed(u \o v)
<1>1. PICK C : u \in Seq(C) /\ v \in Seq(C) /\ AllItems(C)
  BY FeedsIn, Zenon
<1>2. u \o v \in Seq(C)
  BY <1>1
<1>3. QED
  BY <1>1, <1>2, FeedOf, Zenon

\* The first item of a feed is an item, and the rest is a feed.
LEMMA FeedTail ==
  ASSUME NEW w, IsFeed(w), w # <<>>
  PROVE  IsItem(Head(w)) /\ IsFeed(Tail(w)) /\ IsFeed(<<Head(w)>>)
<1>1. PICK C : w \in Seq(C) /\ AllItems(C)
  BY FeedsIn, Zenon
<1>2. Head(w) \in C /\ Tail(w) \in Seq(C) /\ <<Head(w)>> \in Seq(C)
  BY <1>1
<1>3. QED
  BY <1>1, <1>2, FeedOf, Zenon DEF AllItems

\* One item is a feed.
LEMMA FeedOne ==
  ASSUME NEW item, IsItem(item)
  PROVE  IsFeed(<<item>>)
<1>1. AllItems({item}) /\ <<item>> \in Seq({item})
  BY DEF AllItems
<1>2. QED
  BY <1>1, FeedOf, Zenon

\* Nothing is a feed.
LEMMA EmptyFeed == IsFeed(<<>>)
BY EmptyLog, LogFeed

\* The items w turn r into a store with the live entries of s.
Brings(r, w, s, t, m) == Live(AppliedAll(r, w, t, m).entry, t) = Live(s.entry, t)

\* A write at the master: its effects bring the replica there too.
LEMMA EffectsBring ==
  ASSUME NEW r, IsStore(r, Key, Blob), NEW w, IsFeed(w), NEW t \in Nat,
         NEW s, IsStore(s, Key, Blob), NEW m, IsLimit(m), NEW m2, IsLimit(m2), Room(m, m2),
         Brings(r, w, s, t, m2), NEW c, IsCommand(c, Key, Blob), NEW x, x = execute(s, c, t, m)
  PROVE  Brings(r, w \o x.effects, x.store, t, m2)
<1>1. PICK y, z : y = AppliedAll(r, w, t, m2) /\ z = execute(y, c, t, m2)
  OBVIOUS
<1>2. IsStore(y, Key, Blob)
  BY <1>1, RunStore
<1>3. Live(y.entry, t) = Live(s.entry, t)
  BY <1>1, Zenon DEF Brings
<1>4. IsFeed(x.effects)
  BY EffectsLog, LogFeed
<1>5. AppliedAll(r, w \o x.effects, t, m2) = AppliedAll(y, x.effects, t, m2)
  <2>1. PICK e : e = x.effects
    OBVIOUS
  <2>2. PICK C : w \in Seq(C) /\ e \in Seq(C)
    BY <1>4, <2>1, FeedsIn, Zenon
  <2>3. AppliedAll(r, w \o e, t, m2) = AppliedAll(AppliedAll(r, w, t, m2), e, t, m2)
    BY <2>2, AllConcat, SMTT(20)
  <2>4. QED
    BY <1>1, <2>1, <2>3, Zenon
<1>6. Followed(s, c, x, z, t, m2, Key)
  BY <1>1, <1>2, <1>3, FollowWrite, SMTT(20)
<1>7. CASE x.effects = <<>> /\ Live(x.store.entry, t) = Live(s.entry, t)
  <2>1. AppliedAll(y, x.effects, t, m2) = y
    BY <1>7, AllEmpty
  <2>2. QED
    BY <1>3, <1>5, <1>7, <2>1, Zenon DEF Brings
<1>8. ASSUME NEW evicted \in Seq(Key), x.effects = <<c>> \o DelsOf(evicted), Fits(z.store, m2),
             Live(x.store.entry, t) = Less(Live(z.store.entry, t), ToSet(evicted))
      PROVE  Brings(r, w \o x.effects, x.store, t, m2)
  <2>1. PICK q : q = z.store
    OBVIOUS
  <2>2. IsStore(q, Key, Blob) /\ q = execute(y, c, t, m2).store
    BY <1>1, <1>2, <2>1, ExecuteStore, Zenon
  <2>3. Fits(q, m2) /\ m2.maxmemory \in Nat
    BY <1>8, <2>1, Zenon DEF IsLimit
  <2>4. Fits(purge_expired(q, t), m2)
    BY <2>2, <2>3, PurgeFits, SMTT(20)
  <2>5. Lost(q, ToSet(evicted), t, m2, AppliedAll(y, <<c>> \o DelsOf(evicted), t, m2), Key, Blob)
    BY <1>2, <2>2, <2>4, EffectsApplied
  <2>6. QED
    BY <1>5, <1>8, <2>1, <2>5, Zenon DEF Brings, Lost
<1>9. QED
  BY <1>6, <1>7, <1>8, Zenon DEF Followed

\* A store that is the same for clients receives the same.
LEMMA SameBring ==
  ASSUME NEW r, IsStore(r, Key, Blob), NEW t \in Nat, NEW x, Same(x, r, t), NEW w, IsFeed(w),
         NEW s, NEW m, IsLimit(m), Steady(m), Brings(r, w, s, t, m)
  PROVE  Brings(x, w, s, t, m)
<1>1. IsStore(x, Key, Blob) /\ Live(x.entry, t) = Live(r.entry, t)
  BY Zenon DEF Same
<1>2. Live(AppliedAll(x, w, t, m).entry, t) = Live(AppliedAll(r, w, t, m).entry, t)
  BY <1>1, SteadyRun
<1>3. QED
  BY <1>2, Zenon DEF Brings

\* Applying the first item leaves the rest to bring the replica to the same place.
LEMMA ApplyBring ==
  ASSUME NEW r, NEW f, IsFeed(f), f # <<>>, NEW p, IsFeed(p), NEW t, NEW s, NEW m
  PROVE  Brings(r, f \o p, s, t, m) = Brings(Applied(r, Head(f), t, m), Tail(f) \o p, s, t, m)
<1>1. PICK C : f \in Seq(C) /\ p \in Seq(C)
  BY FeedsIn, Zenon
<1>2. PICK w \in Seq(C) : w = f \o p
  <2>1. f \o p \in Seq(C)
    BY <1>1
  <2>2. QED
    BY <2>1, Zenon
<1>3. w # <<>> /\ Head(w) = Head(f) /\ Tail(w) = Tail(f) \o p
  BY <1>1, <1>2
<1>4. AppliedAll(r, w, t, m) = AppliedAll(Applied(r, Head(w), t, m), Tail(w), t, m)
  BY <1>3, AllHead
<1>5. QED
  BY <1>2, <1>3, <1>4, Zenon DEF Brings

\* The replica has a keyspace, and is sent commands and dumps ...
FeedInv == IsStore(rstore, Key, Blob) /\ IsFeed(feed) /\ IsLog(rlog, Key, Blob)

\* ... that bring it where the master is.
FollowInv ==
  linked /\ intact /\ healthy /\ setup.maxTime = 0 /\ RoomForAll
    => Brings(rstore, feed \o pending, store, now, setup.replica)

\* What is assumed of the replica's limit.
LEMMA ReplicaLimit ==
  ASSUME SetupInv
  PROVE  /\ IsLimit(setup.replica)
         /\ RoomForAll => Room(setup, setup.replica) /\ Steady(setup.replica)
<1>1. /\ setup.replica.maxmemory \in Nat
      /\ setup.replica.policy \in {"noeviction", "allkeys-lru", "volatile-ttl"}
  BY ReplicaAssumption, Zenon DEF SetupInv
<1>2. QED
  BY <1>1, Zenon DEF IsLimit, RoomForAll, Room, Steady

\* The snapshot that a full resync sends.
LEMMA PsyncItem ==
  ASSUME KInv, NEW item, item = [name |-> "SNAPSHOT", rdb |-> dump_rdb_entries(purge_expired(store, now))]
  PROVE  /\ IsItem(item)
         /\ \A r, m : Brings(r, <<item>>, store, now, m)
<1>1. IsStore(store, Key, Blob) /\ now \in Nat
  BY SetupFacts, Zenon DEF KInv, StoreInv
<1>2. PICK s, t, d : s = purge_expired(store, now) /\ t = now /\ d = dump_rdb_entries(s)
  OBVIOUS
<1>3. IsStore(s, Key, Blob) /\ Live(s.entry, t) = Live(store.entry, t)
  BY <1>1, <1>2, PurgeSame, Zenon DEF Same
<1>4. item.name = "SNAPSHOT" /\ item.rdb = d
  BY <1>2
<1>5. load_rdb(d, t).entry = Live(s.entry, t)
  BY <1>1, <1>2, <1>3, RdbRoundTrip
<1>6. ASSUME NEW r, NEW m PROVE Brings(r, <<item>>, store, now, m)
  <2>1. AppliedAll(r, <<item>>, t, m) = load_rdb(d, t)
    BY <1>4, AllOne, Zenon DEF Applied
  <2>2. Live(Live(s.entry, t), t) = Live(s.entry, t)
    BY LiveLive
  <2>3. QED
    BY <1>2, <1>3, <1>5, <2>1, <2>2, Zenon DEF Brings
<1>7. IsItem(item)
  BY <1>2, <1>3, <1>4, Zenon DEF IsItem, IsDump
<1>8. QED
  BY <1>6, <1>7

\* The next effect is a command, and can be sent.
LEMMA PendingFeed ==
  ASSUME KInv, pending # <<>>
  PROVE  IsFeed(<<Head(pending)>>) /\ IsCommand(Head(pending), Key, Blob)
<1>1. IsLog(pending, Key, Blob)
  BY Zenon DEF KInv, LogInv
<1>2. PICK p : p = pending
  OBVIOUS
<1>3. p \in Seq(ToSet(p)) /\ AllCommands(ToSet(p), Key, Blob)
  BY <1>1, <1>2, LogIn
<1>4. Head(p) \in ToSet(p)
  BY <1>2, <1>3
<1>5. IsCommand(Head(p), Key, Blob)
  BY <1>3, <1>4, Zenon DEF AllCommands
<1>6. QED
  BY <1>2, <1>5, FeedOne, Zenon DEF IsItem

\* A feed with one more item is a feed.
LEMMA FeedAppend ==
  ASSUME NEW f, IsFeed(f), NEW item, IsItem(item)
  PROVE  IsFeed(Append(f, item)) /\ Append(f, item) = f \o <<item>>
<1>1. PICK v : v = <<item>> /\ IsFeed(v)
  BY FeedOne, Zenon
<1>2. PICK C : f \in Seq(C) /\ v \in Seq(C) /\ AllItems(C)
  BY <1>1, FeedsIn, Zenon
<1>3. item \in C
  BY <1>1, <1>2
<1>4. Append(f, item) \in Seq(C) /\ Append(f, item) = f \o <<item>>
  BY <1>2, <1>3
<1>5. QED
  BY <1>2, <1>4, FeedOf, Zenon

\* The replica serves a read, or expires keys.
LEMMA ReplicaStays ==
  ASSUME FeedInv, ReplicaExpire \/ \E k \in Key : ReplicaGet(k)
  PROVE  Same(rstore', rstore, now)
<1>1. IsStore(rstore, Key, Blob)
  BY Zenon DEF FeedInv
<1>2. ASSUME NEW k \in Key, ReplicaGet(k) PROVE Same(rstore', rstore, now)
  <2>1. rstore' = touch(rstore, k, now)
    BY <1>2, Zenon DEF ReplicaGet
  <2>2. QED
    BY <1>1, <2>1, TouchSame
<1>3. ASSUME ReplicaExpire PROVE Same(rstore', rstore, now)
  <2>1. PICK K : rstore' = drop(rstore, K \cap expired(rstore, now))
    BY <1>3, Zenon DEF ReplicaExpire
  <2>2. K \cap expired(rstore, now) \subseteq expired(rstore, now)
    OBVIOUS
  <2>3. QED
    BY <1>1, <2>1, <2>2, DropSame
<1>4. QED
  BY <1>2, <1>3, Zenon

=============================================================================
