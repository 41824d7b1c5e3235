----------------------- MODULE ReplicaKeyspaceProofs ------------------------
(***************************************************************************)
(* The keyspace of a replica follows its master, and does not expire keys  *)
(* before the master does: proofs, for any keys, values, times to live,    *)
(* limits, policies and commands, any number of them, and any delays.      *)
(***************************************************************************)
EXTENDS KeyspaceProofs

-----------------------------------------------------------------------------
(* A replica that follows its master                                       *)

\* What is left of a feed without its first items.
LEMMA FeedRest ==
  ASSUME NEW w, IsFeed(w), w # <<>>, NEW n \in 0..Len(w) - 1
  PROVE  /\ IsFeed(SubSeq(w, n + 2, Len(w)))
         /\ n = 0 => SubSeq(w, n + 2, Len(w)) = Tail(w)
         /\ \A i \in 1..Len(SubSeq(w, n + 2, Len(w))) :
              \E j \in 1..Len(w) : SubSeq(w, n + 2, Len(w))[i] = w[j]
<1>1. PICK C : w \in Seq(C) /\ AllItems(C)
  BY FeedsIn, Zenon
<1>2. PICK v : v = SubSeq(w, n + 2, Len(w))
  OBVIOUS
<1>3. /\ v \in Seq(C) /\ Len(w) \in Nat /\ n \in Nat /\ n < Len(w) /\ Len(v) = Len(w) - n - 1
      /\ \A i \in 1..Len(w) - n - 1 : v[i] = w[i + n + 1]
  BY <1>1, <1>2
<1>4. IsFeed(v)
  BY <1>1, <1>3, FeedOf, Zenon
<1>5. ASSUME n = 0 PROVE v = Tail(w)
  BY <1>1, <1>2, <1>5
<1>6. ASSUME NEW i \in 1..Len(v) PROVE \E j \in 1..Len(w) : v[i] = w[j]
  <2>1. i + n + 1 \in 1..Len(w) /\ v[i] = w[i + n + 1]
    BY <1>3
  <2>2. QED
    BY <2>1, Zenon
<1>7. QED
  BY <1>2, <1>4, <1>5, <1>6, Zenon

\* The replica takes the next item; if nothing is lost with it, that is all it takes.
LEMMA ApplyStep ==
  ASSUME IsFeed(feed), Apply
  PROVE  /\ feed # <<>> /\ linked' = linked /\ UNCHANGED vars
         /\ rstore' = Applied(rstore, Head(feed), now, setup.replica)
         /\ \/ rlog' = rlog
            \/ Head(feed).name # "SNAPSHOT" /\ rlog' = Append(rlog, Head(feed))
         /\ feed' = Tail(feed) \/ \E n \in 0..Len(feed) - 1 : feed' = SubSeq(feed, n + 2, Len(feed))
         /\ intact' => intact /\ feed' = Tail(feed)
<1>1. feed # <<>> /\ linked' = linked /\ UNCHANGED vars
  BY Zenon DEF Apply
<1>2. CASE ApplyCommand
  BY <1>1, <1>2, Zenon DEF ApplyCommand, Applied
<1>3. ASSUME NEW n \in 0..Len(feed) - 1, LoadSnapshot(n)
      PROVE  /\ rstore' = Applied(rstore, Head(feed), now, setup.replica) /\ rlog' = rlog
             /\ feed' = SubSeq(feed, n + 2, Len(feed))
             /\ intact' => intact /\ feed' = Tail(feed)
  <2>1. /\ rstore' = Applied(rstore, Head(feed), now, setup.replica) /\ rlog' = rlog
        /\ feed' = SubSeq(feed, n + 2, Len(feed)) /\ intact' = (intact /\ n = 0)
    BY <1>3, Zenon DEF LoadSnapshot, Applied
  <2>2. n = 0 => SubSeq(feed, n + 2, Len(feed)) = Tail(feed)
    BY <1>1, FeedRest, Zenon
  <2>3. QED
    BY <2>1, <2>2, Zenon
<1>4. QED
  BY <1>1, <1>2, <1>3, Zenon DEF Apply

\* Every step leaves the replica a store, a feed and a log.
LEMMA NextFeed ==
  ASSUME KInv, FeedInv, ReplicaNext
  PROVE  FeedInv'
<1>1. /\ IsStore(rstore, Key, Blob) /\ IsFeed(feed) /\ IsLog(rlog, Key, Blob)
      /\ now \in Nat /\ IsLimit(setup.replica)
  BY SetupFacts, ReplicaLimit, Zenon DEF KInv, FeedInv
<1>2. ASSUME MasterServes PROVE FeedInv'
  BY <1>1, <1>2, Zenon DEF MasterServes, replicaVars, FeedInv
<1>3. ASSUME MasterAppended PROVE FeedInv'
  <2>1. IsItem(Head(pending))
    BY <1>3, PendingFeed, Zenon DEF MasterAppended, Appended, IsItem
  <2>2. IsFeed(Append(feed, Head(pending)))
    BY <1>1, <2>1, FeedAppend, Zenon
  <2>3. QED
    BY <1>1, <1>3, <2>2, Zenon DEF MasterAppended, FeedInv
<1>4. ASSUME Psync PROVE FeedInv'
  <2>1. PICK item : item = [name |-> "SNAPSHOT", rdb |-> dump_rdb_entries(purge_expired(store, now))]
    BY Zenon
  <2>2. feed' = <<item>> /\ rstore' = rstore /\ rlog' = rlog
    BY <1>4, <2>1, Zenon DEF Psync
  <2>3. IsFeed(<<item>>)
    BY <2>1, PsyncItem, FeedOne
  <2>4. QED
    BY <1>1, <2>2, <2>3, Zenon DEF FeedInv
<1>5. ASSUME Disconnect \/ MasterRestart PROVE FeedInv'
  BY <1>1, <1>5, EmptyFeed, Zenon DEF Disconnect, MasterRestart, FeedInv
<1>6. ASSUME Apply PROVE FeedInv'
  <2>1. PICK r, f, m, t, item : /\ r = rstore /\ f = feed /\ m = setup.replica /\ t = now
                                /\ item = Head(f)
    OBVIOUS
  <2>2. /\ f # <<>> /\ rstore' = Applied(r, item, t, m)
        /\ rlog' = rlog \/ (item.name # "SNAPSHOT" /\ rlog' = Append(rlog, item))
        /\ feed' = Tail(f) \/ \E n \in 0..Len(f) - 1 : feed' = SubSeq(f, n + 2, Len(f))
    BY <1>1, <1>6, <2>1, ApplyStep, Zenon
  <2>3. IsItem(item) /\ IsFeed(feed')
    BY <1>1, <2>1, <2>2, FeedTail, FeedRest, Zenon
  <2>4. IsStore(Applied(r, item, t, m), Key, Blob)
    BY <1>1, <2>1, <2>3, AppliedStore
  <2>5. IsLog(rlog', Key, Blob)
    <3>1. CASE rlog' = rlog
      BY <1>1, <3>1, Zenon
    <3>2. CASE item.name # "SNAPSHOT" /\ rlog' = Append(rlog, item)
      <4>1. AllCommands({item}, Key, Blob)
        BY <2>3, <3>2, Zenon DEF IsItem, AllCommands
      <4>2. <<item>> \in Seq({item}) /\ <<item>> # <<>> /\ Head(<<item>>) = item
        OBVIOUS
      <4>3. IsLog(<<item>>, Key, Blob)
        BY <4>1, <4>2, LogOf, Zenon
      <4>4. IsLog(Append(rlog, Head(<<item>>)), Key, Blob)
        BY <1>1, <4>2, <4>3, LogAppend
      <4>5. QED
        BY <3>2, <4>2, <4>4, Zenon
    <3>3. QED
      BY <2>2, <3>1, <3>2, Zenon
  <2>6. QED
    BY <2>2, <2>3, <2>4, <2>5, Zenon DEF FeedInv
<1>7. ASSUME ReplicaExpire \/ \E k \in Key : ReplicaGet(k) PROVE FeedInv'
  <2>1. Same(rstore', rstore, now)
    BY <1>7, ReplicaStays
  <2>2. feed' = feed /\ rlog' = rlog
    BY <1>7, Zenon DEF ReplicaExpire, ReplicaGet
  <2>3. QED
    BY <1>1, <2>1, <2>2, Zenon DEF FeedInv, Same
<1>8. ASSUME ReplicaRestart PROVE FeedInv'
  <2>1. IsStore(replay(rlog, now, setup.replica), Key, Blob)
    BY <1>1, ReplayStore
  <2>2. QED
    BY <1>1, <1>8, <2>1, EmptyFeed, Zenon DEF ReplicaRestart, FeedInv
<1>9. QED
  BY <1>2, <1>3, <1>4, <1>5, <1>6, <1>7, <1>8, Zenon DEF ReplicaNext

\* Sending an effect moves it from pending to the feed.
LEMMA FeedMoves ==
  ASSUME KInv, FeedInv, MasterAppended, linked
  PROVE  feed' \o pending' = feed \o pending
<1>1. IsFeed(feed) /\ IsFeed(pending)
  BY LogFeed, Zenon DEF KInv, LogInv, FeedInv
<1>2. PICK f, p : f = feed /\ p = pending
  OBVIOUS
<1>3. p # <<>> /\ feed' = Append(f, Head(p)) /\ pending' = Tail(p)
  BY <1>2, Zenon DEF MasterAppended, Appended
<1>4. PICK C : f \in Seq(C) /\ p \in Seq(C)
  BY <1>1, <1>2, FeedsIn, Zenon
<1>5. Head(p) \in C /\ Tail(p) \in Seq(C) /\ <<Head(p)>> \in Seq(C) /\ p = <<Head(p)>> \o Tail(p)
  BY <1>3, <1>4
<1>6. Append(f, Head(p)) = f \o <<Head(p)>>
  BY <1>4, <1>5
<1>7. (f \o <<Head(p)>>) \o Tail(p) = f \o (<<Head(p)>> \o Tail(p))
  BY ONLY <1>4, <1>5, ConcatAssociative
<1>8. QED
  BY <1>2, <1>3, <1>5, <1>6, <1>7, Zenon

\* A write at the master, with its effects on their way.
LEMMA WriteBrings ==
  ASSUME KInv, FeedInv, NEW c \in setup.commands, Write(c), NEW m, IsLimit(m), Room(setup, m),
         Brings(rstore, feed \o pending, store, now, m)
  PROVE  Brings(rstore, feed \o pending', store', now', m)
<1>1. /\ IsCommand(c, Key, Blob) /\ pending = <<>> /\ now' = now
      /\ store' = execute(store, c, now, setup).store
      /\ pending' = execute(store, c, now, setup).effects
  BY WriteStep, Zenon
<1>2. PICK r, f, s, t, u, x : /\ r = rstore /\ f = feed /\ s = store /\ t = now /\ u = setup
                              /\ x = execute(s, c, t, u)
  OBVIOUS
<1>3. /\ IsStore(r, Key, Blob) /\ IsFeed(f) /\ IsStore(s, Key, Blob) /\ t \in Nat
      /\ IsLimit(u) /\ Room(u, m)
  BY <1>2, SetupFacts, Zenon DEF KInv, FeedInv, StoreInv
<1>4. f \o <<>> = f
  <2>1. f \in Seq(ToSet(f))
    BY <1>3, Zenon DEF IsFeed
  <2>2. QED
    BY <2>1
<1>5. Brings(r, f, s, t, m)
  BY <1>1, <1>2, <1>4, Zenon
<1>6. Brings(r, f \o x.effects, x.store, t, m)
  BY <1>1, <1>2, <1>3, <1>5, EffectsBring
<1>7. QED
  BY <1>1, <1>2, <1>6, Zenon

\* Every step keeps that what is under way brings the replica to the master.
LEMMA NextFollow ==
  ASSUME KInv, FeedInv, FollowInv, ReplicaNext
  PROVE  FollowInv'
<1>1. SUFFICES ASSUME linked', intact', healthy', setup'.maxTime = 0, RoomForAll'
               PROVE  Brings(rstore', feed' \o pending', store', now', setup'.replica)
  BY Zenon DEF FollowInv
<1>2. setup' = setup
  BY Zenon DEF ReplicaNext, MasterServes, MasterAppended, MasterRestart, Psync, Disconnect, Apply,
       ReplicaGet, ReplicaExpire, ReplicaRestart, vars, Serves, Writes, Tick, Get, Dbsize,
       ActiveExpire, AppendFails, Save, BgsaveStart, BgsaveEnd, RewriteStart, RewriteEnd,
       RewriteFails, Write, Appended, Restart
<1>3. setup.maxTime = 0 /\ RoomForAll
  BY <1>1, <1>2, Zenon DEF RoomForAll
<1>4. PICK m : m = setup.replica
  OBVIOUS
<1>5. /\ IsLimit(m) /\ Room(setup, m) /\ Steady(m) /\ now \in Nat /\ now = 0
      /\ IsStore(rstore, Key, Blob) /\ IsFeed(feed) /\ IsFeed(pending)
  BY <1>3, <1>4, SetupFacts, ReplicaLimit, LogFeed, Zenon DEF KInv, FeedInv, LogInv
<1>6. ~MasterRestart /\ ~Disconnect /\ ~ReplicaRestart
  BY <1>1, Zenon DEF MasterRestart, Disconnect, ReplicaRestart
<1>7. ASSUME linked, intact, healthy PROVE Brings(rstore, feed \o pending, store, now, m)
  BY <1>3, <1>4, <1>7, Zenon DEF FollowInv
<1>8. ASSUME MasterServes PROVE Brings(rstore', feed' \o pending', store', now', m)
  <2>1. linked /\ intact /\ rstore' = rstore /\ feed' = feed
    BY <1>1, <1>8, Zenon DEF MasterServes, replicaVars
  <2>2. ASSUME NEW c \in setup.commands, Write(c) PROVE Brings(rstore', feed' \o pending', store', now', m)
    <3>1. healthy
      BY <2>2, Zenon DEF Write
    <3>2. QED
      BY <1>5, <1>7, <2>1, <2>2, <3>1, WriteBrings, Zenon
  <2>3. ASSUME Serves PROVE Brings(rstore', feed' \o pending', store', now', m)
    <3>1. ~Tick
      BY <1>3, <1>5 DEF Tick
    <3>2. ~AppendFails
      BY <1>1, Zenon DEF AppendFails
    <3>3. pending' = pending /\ healthy' = healthy
      BY <2>3, <3>1, <3>2, Zenon DEF Serves, Get, Dbsize, ActiveExpire, Save, BgsaveStart,
           BgsaveEnd, RewriteStart, RewriteEnd, RewriteFails
    <3>4. Stays
      BY <2>3, <3>1, ServeStays, Zenon
    <3>5. Brings(rstore, feed \o pending, store, now, m)
      BY <1>1, <1>7, <2>1, <3>3, Zenon
    <3>6. QED
      BY <2>1, <3>3, <3>4, <3>5, Zenon DEF Brings, Stays, Same
  <2>4. QED
    BY <1>8, <2>2, <2>3, Zenon DEF MasterServes, Writes
<1>9. ASSUME MasterAppended PROVE Brings(rstore', feed' \o pending', store', now', m)
  <2>1. /\ linked /\ intact /\ healthy /\ rstore' = rstore /\ store' = store /\ now' = now
    BY <1>1, <1>9, Zenon DEF MasterAppended, Appended
  <2>2. feed' \o pending' = feed \o pending
    BY <1>9, <2>1, FeedMoves, SMTT(20)
  <2>3. QED
    BY <1>7, <2>1, <2>2, Zenon
<1>10. ASSUME Psync PROVE Brings(rstore', feed' \o pending', store', now', m)
  <2>1. PICK item : item = [name |-> "SNAPSHOT", rdb |-> dump_rdb_entries(purge_expired(store, now))]
    BY Zenon
  <2>2. /\ feed' = <<item>> /\ rstore' = rstore /\ pending' = <<>> /\ now' = now
        /\ store' = purge_expired(store, now)
    BY <1>10, <2>1, Zenon DEF Psync, Locked
  <2>3. Brings(rstore, <<item>>, store, now, m)
    BY <2>1, PsyncItem
  <2>4. Live(store'.entry, now) = Live(store.entry, now)
    BY <2>2, PurgeSame, Zenon DEF KInv, StoreInv, Same
  <2>5. <<item>> \o <<>> = <<item>>
    OBVIOUS
  <2>6. QED
    BY <2>2, <2>3, <2>4, <2>5, Zenon DEF Brings
<1>11. ASSUME Apply PROVE Brings(rstore', feed' \o pending', store', now', m)
  <2>1. /\ linked /\ intact /\ healthy /\ pending' = pending /\ store' = store /\ now' = now
        /\ feed # <<>> /\ feed' = Tail(feed)
        /\ rstore' = Applied(rstore, Head(feed), now, m)
    BY <1>1, <1>4, <1>5, <1>11, ApplyStep, Zenon DEF vars
  <2>2. PICK r, f, p, t, s : r = rstore /\ f = feed /\ p = pending /\ t = now /\ s = store
    OBVIOUS
  <2>3. Brings(r, f \o p, s, t, m) = Brings(Applied(r, Head(f), t, m), Tail(f) \o p, s, t, m)
    BY <1>5, <2>1, <2>2, ApplyBring
  <2>4. QED
    BY <1>7, <2>1, <2>2, <2>3, Zenon
<1>12. ASSUME ReplicaExpire \/ \E k \in Key : ReplicaGet(k)
       PROVE  Brings(rstore', feed' \o pending', store', now', m)
  <2>1. /\ linked /\ intact /\ healthy /\ pending' = pending /\ store' = store /\ now' = now
        /\ feed' = feed
    BY <1>1, <1>12, Zenon DEF ReplicaExpire, ReplicaGet, vars
  <2>2. Same(rstore', rstore, now)
    BY <1>12, ReplicaStays
  <2>3. PICK r, x, w, t, s : r = rstore /\ x = rstore' /\ w = feed \o pending /\ t = now /\ s = store
    BY Zenon
  <2>4. IsFeed(w)
    BY <1>5, <2>3, FeedConcat
  <2>5. Brings(r, w, s, t, m)
    BY <1>7, <2>1, <2>3, Zenon
  <2>6. Brings(x, w, s, t, m)
    BY <1>5, <2>2, <2>3, <2>4, <2>5, SameBring
  <2>7. QED
    BY <2>1, <2>3, <2>6, Zenon
<1>13. QED
  BY <1>2, <1>4, <1>6, <1>8, <1>9, <1>10, <1>11, <1>12, Zenon DEF ReplicaNext

(* What is on its way turns the replica's keyspace into its master's, for  *)
(* any limits, policies and commands, and any number of resyncs, lost      *)
(* connections and restarts of either: as long as nothing expires, the     *)
(* replica has the room, and _read_rdb_bulk has lost no command of this    *)
(* session with the end of the snapshot (RDB snapshot of full_resync, then *)
(* the effects that _execute_inner propagates).                            *)
THEOREM Follows == ReplicaSpec => []ReplicaFollows
<1>1. ReplicaInit => FeedInv /\ FollowInv
  <2> SUFFICES ASSUME ReplicaInit PROVE FeedInv /\ FollowInv
    OBVIOUS
  <2>1. FeedInv
    BY EmptyIsStore, EmptyFeed, EmptyLog, Zenon DEF ReplicaInit, FeedInv
  <2>2. FollowInv
    BY Zenon DEF ReplicaInit, FollowInv
  <2>3. QED
    BY <2>1, <2>2
<1>2. KInv /\ FeedInv /\ FollowInv /\ [ReplicaNext]_allVars => FeedInv' /\ FollowInv'
  <2> SUFFICES ASSUME KInv, FeedInv, FollowInv, [ReplicaNext]_allVars PROVE FeedInv' /\ FollowInv'
    OBVIOUS
  <2>1. CASE ReplicaNext
    BY <2>1, NextFeed, NextFollow, SMTT(20)
  <2>2. CASE UNCHANGED allVars
    BY <2>2, Zenon DEF allVars, vars, replicaVars, FeedInv, FollowInv, RoomForAll
  <2>3. QED
    BY <2>1, <2>2
<1>3. FollowInv => ReplicaFollows
  <2> SUFFICES ASSUME FollowInv, linked /\ intact /\ healthy /\ setup.maxTime = 0 /\ RoomForAll
               PROVE  Visible(Arrived) = Visible(store)
    BY Zenon DEF ReplicaFollows
  <2>1. Live(Arrived.entry, now) = Live(store.entry, now)
    BY Zenon DEF FollowInv, Brings, Arrived
  <2>2. QED
    BY <2>1, SameVisible
<1>4. QED
  BY <1>1, <1>2, <1>3, MasterOfReplica, Inductive, PTL DEF ReplicaSpec

-----------------------------------------------------------------------------
(* A replica that is behind in time                                        *)

\* An entry with this value that expires no earlier.
Shows(e, d) ==
  /\ e.type = d.type /\ e.value = d.value
  /\ e.expire = None \/ (d.expire # None /\ e.expire >= d.expire)

\* What is alive in g at time t is in f, and lives there as long.
Covers(f, g, t) ==
  \A k \in DOMAIN g : is_expired(g[k], t) \/ (k \in DOMAIN f /\ Shows(f[k], g[k]))

Dated(f) == \A k \in DOMAIN f : f[k].expire \in Int

\* The expiry times of a store are numbers.
LEMMA StoreDated ==
  ASSUME NEW s, IsStore(s, Key, Blob)
  PROVE  Dated(s.entry)
BY DEF IsStore, IsEntry, None, keys, Dated

\* Entries cover themselves.
LEMMA CoversSelf ==
  ASSUME NEW f, Dated(f), NEW t
  PROVE  Covers(f, f, t)
BY DEF Covers, Shows, Dated

\* Only what is alive matters.
LEMMA CoversLive ==
  ASSUME NEW f, Dated(f), NEW g, Dated(g), NEW t \in Nat
  PROVE  Covers(f, g, t) <=> Covers(Live(f, t), Live(g, t), t)
<1>1. ASSUME NEW h PROVE /\ \A k : k \in DOMAIN Live(h, t) <=> k \in DOMAIN h /\ ~is_expired(h[k], t)
                         /\ \A k \in DOMAIN Live(h, t) : Live(h, t)[k] = h[k]
  BY DEF Live, Less
<1>2. ASSUME NEW k \in DOMAIN f, NEW j \in DOMAIN g, Shows(f[k], g[j]), ~is_expired(g[j], t)
      PROVE  ~is_expired(f[k], t)
  BY <1>2 DEF Shows, is_expired, Dated, None
<1>3. ASSUME Covers(f, g, t) PROVE Covers(Live(f, t), Live(g, t), t)
  BY <1>1, <1>2, <1>3, Zenon DEF Covers
<1>4. ASSUME Covers(Live(f, t), Live(g, t), t) PROVE Covers(f, g, t)
  BY <1>1, <1>4, Zenon DEF Covers
<1>5. QED
  BY <1>3, <1>4

\* Only what is alive matters.
LEMMA CoversSame ==
  ASSUME NEW f, Dated(f), NEW g, Dated(g), NEW t \in Nat, Covers(f, g, t),
         NEW x, Dated(x), NEW y, Dated(y), Live(x, t) = Live(f, t), Live(y, t) = Live(g, t)
  PROVE  Covers(x, y, t)
<1>1. Covers(Live(f, t), Live(g, t), t)
  BY CoversLive
<1>2. Covers(Live(x, t), Live(y, t), t)
  BY <1>1, Zenon
<1>3. QED
  BY <1>2, CoversLive

\* Covering is transitive.
LEMMA CoversTrans ==
  ASSUME NEW f, Dated(f), NEW g, Dated(g), NEW h, Dated(h), NEW t \in Nat,
         Covers(f, g, t), Covers(g, h, t)
  PROVE  Covers(f, h, t)
<1>1. ASSUME NEW i \in DOMAIN f, NEW j \in DOMAIN g, NEW k \in DOMAIN h,
             Shows(f[i], g[j]), Shows(g[j], h[k])
      PROVE  Shows(f[i], h[k])
  BY <1>1 DEF Shows, Dated, None
<1>2. ASSUME NEW j \in DOMAIN g, NEW k \in DOMAIN h, Shows(g[j], h[k]), ~is_expired(h[k], t)
      PROVE  ~is_expired(g[j], t)
  BY <1>2 DEF Shows, is_expired, Dated, None
<1>3. QED
  BY <1>1, <1>2, Zenon DEF Covers

\* What covers now covers later.
LEMMA CoversLater ==
  ASSUME NEW f, NEW g, Dated(g), NEW t \in Nat, Covers(f, g, t)
  PROVE  Covers(f, g, t + 1)
<1>1. \A k \in DOMAIN g : is_expired(g[k], t) => is_expired(g[k], t + 1)
  BY DEF is_expired, Dated
<1>2. QED
  BY <1>1, Zenon DEF Covers

\* Commands that depend on no earlier value.
Overwrites(c) == c.name \in {"SET", "DEL"}

\* Done at a later time they cover what they did.
LEMMA CoverEffect ==
  ASSUME NEW f, Dated(f), NEW g, Dated(g), NEW t \in Nat, NEW u \in Nat, t <= u, Covers(f, g, u),
         NEW c, IsCommand(c, Key, Blob), Overwrites(c)
  PROVE  Covers(Effect(Live(f, u), c, u), Effect(Live(g, t), c, t), u)
<1>1. PICK F, G, k : F = Live(f, u) /\ G = Live(g, t) /\ k = c.key
  OBVIOUS
<1>2. \A i \in DOMAIN G : is_expired(G[i], u) \/ (i \in DOMAIN F /\ Shows(F[i], G[i]))
  <2>1. \A i \in DOMAIN G : i \in DOMAIN g /\ G[i] = g[i]
    BY <1>1 DEF Live, Less
  <2>2. \A i \in DOMAIN f : ~is_expired(f[i], u) => i \in DOMAIN F /\ F[i] = f[i]
    BY <1>1 DEF Live, Less
  <2>3. ASSUME NEW i \in DOMAIN f, NEW j \in DOMAIN g, Shows(f[i], g[j]), ~is_expired(g[j], u)
        PROVE  ~is_expired(f[i], u)
    BY <2>3 DEF Shows, is_expired, Dated, None
  <2>4. QED
    BY <2>1, <2>2, <2>3, Zenon DEF Covers
<1>3. CASE c.name = "DEL"
  <2>1. Effect(F, c, u) = Less(F, {k}) /\ Effect(G, c, t) = Less(G, {k})
    BY <1>1, <1>3 DEF Effect
  <2>2. Covers(Less(F, {k}), Less(G, {k}), u)
    <3>1. ASSUME NEW h PROVE DOMAIN Less(h, {k}) = DOMAIN h \ {k} /\ \A i \in DOMAIN h \ {k} : Less(h, {k})[i] = h[i]
      BY DEF Less
    <3>2. ASSUME NEW i \in DOMAIN G \ {k}
          PROVE  is_expired(Less(G, {k})[i], u) \/ (i \in DOMAIN F \ {k} /\ Shows(Less(F, {k})[i], Less(G, {k})[i]))
      BY <1>2, <3>1, Zenon
    <3>3. QED
      BY <3>1, <3>2, Zenon DEF Covers
  <2>3. QED
    BY <1>1, <2>1, <2>2, Zenon
<1>4. CASE c.name = "SET"
  <2> DEFINE e(v) == [type |-> "STRING", value |-> c.value, expire |-> IF c.ex = None THEN None ELSE v + c.ex]
  <2>1. Effect(F, c, u) = With(F, k, e(u)) /\ Effect(G, c, t) = With(G, k, e(t))
    BY <1>1, <1>4 DEF Effect
  <2>2. Shows(e(u), e(t))
    <3>1. c.ex \in {None} \cup (Nat \ {0})
      BY <1>4 DEF IsCommand
    <3>2. QED
      BY <3>1 DEF Shows, None
  <2>3. PICK eu, et : eu = e(u) /\ et = e(t)
    BY Zenon
  <2> HIDE DEF e
  <2>4. Covers(With(F, k, eu), With(G, k, et), u)
    <3>2. PICK X, Y : X = With(F, k, eu) /\ Y = With(G, k, et)
      OBVIOUS
    <3>3. /\ DOMAIN X = DOMAIN F \cup {k} /\ X[k] = eu /\ \A i \in DOMAIN F \ {k} : X[i] = F[i]
          /\ DOMAIN Y = DOMAIN G \cup {k} /\ Y[k] = et /\ \A i \in DOMAIN G \ {k} : Y[i] = G[i]
      BY <3>2 DEF With
    <3>4. Shows(X[k], Y[k])
      BY <2>2, <2>3, <3>3, Zenon
    <3>5. ASSUME NEW i \in DOMAIN Y PROVE is_expired(Y[i], u) \/ (i \in DOMAIN X /\ Shows(X[i], Y[i]))
      <4>1. CASE i = k
        BY <3>3, <3>4, <4>1
      <4>2. CASE i # k
        <5>1. i \in DOMAIN G /\ Y[i] = G[i]
          BY <3>3, <4>2
        <5>2. i \in DOMAIN F => i \in DOMAIN X /\ X[i] = F[i]
          BY <3>3, <4>2
        <5>3. QED
          BY <1>2, <5>1, <5>2, Zenon
      <4>3. QED
        BY <4>1, <4>2
    <3>6. QED
      BY <3>2, <3>5, Zenon DEF Covers
  <2>5. QED
    BY <1>1, <2>1, <2>3, <2>4, Zenon
<1>5. QED
  BY <1>3, <1>4 DEF Overwrites

\* Without a limit a command that overwrites is done as it is.
LEMMA OverwriteDone ==
  ASSUME NEW s, IsStore(s, Key, Blob), NEW t \in Nat, NEW c, IsCommand(c, Key, Blob), Overwrites(c),
         NEW m, IsLimit(m), m.maxmemory = 0
  PROVE  execute(s, c, t, m).store.entry = Effect(Live(s.entry, t), c, t)
<1>1. PICK f, x, e : /\ f = Live(s.entry, t) /\ x = execute(s, c, t, m) /\ e = Effect(f, c, t)
  OBVIOUS
<1>2. purge_expired(s, t).entry = f
  BY <1>1, PurgeLive
<1>3. ~Refused(f, c)
  BY DEF Refused, Overwrites
<1>4. [entry |-> e].entry = e /\ Fits([entry |-> e], m)
  BY DEF Fits
<1>5. ~Refused(f, c) /\ (\E y : y.entry = Effect(f, c, t) /\ Fits(y, m)) => Accepted(s, c, t, m, x, <<>>)
  BY <1>1, <1>2, ExecuteStore
<1>6. Accepted(s, c, t, m, x, <<>>)
  BY <1>1, <1>3, <1>4, <1>5, Zenon
<1>7. x.store.entry = Less(e, ToSet(<<>>))
  BY <1>1, <1>2, <1>6, Zenon DEF Accepted
<1>8. ToSet(<<>>) = {}
  BY DEF ToSet
<1>9. Less(e, {}) = e
  <2>1. e = [l \in DOMAIN e |-> e[l]]
    BY <1>1, Zenon DEF Effect, With, Less, Overwrites
  <2>2. QED
    BY <2>1 DEF Less
<1>10. QED
  BY <1>1, <1>7, <1>8, <1>9, Zenon

\* An item that overwrites, or a snapshot.
Lasting(item) == item.name \in {"SET", "DEL", "SNAPSHOT"}

LastingFeed(w) == \A i \in 1..Len(w) : Lasting(w[i])

\* A step that is made later, in a store that covers the other.
CoverStep(y, x, u) == IsStore(y, Key, Blob) /\ IsStore(x, Key, Blob) /\ Covers(y.entry, x.entry, u)

\* An item applied later, in a store that covers, leaves one that covers.
LEMMA CoverApplied ==
  ASSUME NEW t \in Nat, NEW u \in Nat, t <= u, NEW m, IsLimit(m), m.maxmemory = 0,
         NEW r, NEW s, CoverStep(r, s, u), NEW item, IsItem(item), Lasting(item)
  PROVE  CoverStep(Applied(r, item, u, m), Applied(s, item, t, m), u)
<1>1. IsStore(r, Key, Blob) /\ IsStore(s, Key, Blob) /\ Covers(r.entry, s.entry, u)
  BY Zenon DEF CoverStep
<1>2. IsStore(Applied(r, item, u, m), Key, Blob) /\ IsStore(Applied(s, item, t, m), Key, Blob)
  BY <1>1, AppliedStore
<1>3. CASE IsCommand(item, Key, Blob)
  <2>1. Overwrites(item)
    BY <1>3 DEF Lasting, Overwrites, IsCommand
  <2>2. /\ Applied(r, item, u, m).entry = Effect(Live(r.entry, u), item, u)
        /\ Applied(s, item, t, m).entry = Effect(Live(s.entry, t), item, t)
    <3>1. Applied(r, item, u, m) = execute(r, item, u, m).store /\ Applied(s, item, t, m) = execute(s, item, t, m).store
      BY <1>3, CommandApplied
    <3>2. /\ execute(r, item, u, m).store.entry = Effect(Live(r.entry, u), item, u)
          /\ execute(s, item, t, m).store.entry = Effect(Live(s.entry, t), item, t)
      BY <1>1, <1>3, <2>1, OverwriteDone, SMTT(20)
    <3>3. QED
      BY <3>1, <3>2, Zenon
  <2>3. PICK f, g : f = r.entry /\ g = s.entry
    OBVIOUS
  <2>4. Dated(f) /\ Dated(g) /\ Covers(f, g, u)
    BY <1>1, <2>3, StoreDated, Zenon
  <2>5. Covers(Effect(Live(f, u), item, u), Effect(Live(g, t), item, t), u)
    BY <1>3, <2>1, <2>4, CoverEffect, SMTT(20)
  <2>6. QED
    BY <1>2, <2>2, <2>3, <2>5, Zenon DEF CoverStep
<1>4. CASE item.name = "SNAPSHOT" /\ IsDump(item.rdb)
  <2>1. PICK x : IsStore(x, Key, Blob) /\ item.rdb = dump_rdb_entries(x)
    BY <1>4, Zenon DEF IsDump
  <2>2. /\ Applied(r, item, u, m) = load_rdb(dump_rdb_entries(x), u)
        /\ Applied(s, item, t, m) = load_rdb(dump_rdb_entries(x), t)
    BY <1>4, <2>1, Zenon DEF Applied
  <2>3. /\ load_rdb(dump_rdb_entries(x), u).entry = Live(x.entry, u)
        /\ load_rdb(dump_rdb_entries(x), t).entry = Live(x.entry, t)
    BY <2>1, RdbRoundTrip
  <2>4. PICK f : f = x.entry /\ Dated(f)
    BY <2>1, StoreDated, ZenonT(30)
  <2>5. Covers(Live(f, u), Live(f, t), u)
    <3>1. \A k \in DOMAIN f : f[k].expire \in Int
      BY <2>4 DEF Dated
    <3>2. QED
      BY <3>1, SMTT(20) DEF Covers, Live, Less, Shows
  <2>6. QED
    BY <1>2, <2>2, <2>3, <2>4, <2>5, Zenon DEF CoverStep
<1>5. QED
  BY <1>3, <1>4, Zenon DEF IsItem

\* So does a feed.
LEMMA CoverRun ==
  ASSUME NEW t \in Nat, NEW u \in Nat, t <= u, NEW m, IsLimit(m), m.maxmemory = 0,
         NEW r, NEW s, CoverStep(r, s, u), NEW w, IsFeed(w), LastingFeed(w)
  PROVE  CoverStep(AppliedAll(r, w, u, m), AppliedAll(s, w, t, m), u)
<1>1. PICK n : n = Len(w) /\ n \in Nat /\ \A i \in 1..n : IsItem(w[i]) /\ Lasting(w[i])
  <2>1. Len(w) \in Nat /\ \A i \in 1..Len(w) : IsItem(w[i])
    BY DEF IsFeed
  <2>2. QED
    BY <2>1, Zenon DEF LastingFeed
<1>2. PICK f : RunBy(f, s, w, n, t, m) /\ AppliedAll(s, w, t, m) = f[n]
  BY <1>1, AllRun
<1>3. PICK g : RunBy(g, r, w, n, u, m) /\ AppliedAll(r, w, u, m) = g[n]
  BY <1>1, AllRun
<1> DEFINE T == {i \in 0..n : CoverStep(g[i], f[i], u)}
<1>4. 0 \in T
  <2>1. 0 \in 0..n
    BY <1>1
  <2>2. CoverStep(g[0], f[0], u)
    BY <1>2, <1>3, Zenon DEF RunBy
  <2>3. QED
    BY <2>1, <2>2, Zenon
<1>5. ASSUME NEW i \in 0..n - 1, i \in T PROVE i + 1 \in T
  <2>1. i + 1 \in 0..n /\ (i + 1) - 1 = i /\ i + 1 \in 1..n
    BY <1>1
  <2>2. PICK x, y, item : x = f[i] /\ y = g[i] /\ item = w[i + 1]
    OBVIOUS
  <2>3. /\ IsItem(item) /\ Lasting(item)
        /\ f[i + 1] = Applied(x, item, t, m) /\ g[i + 1] = Applied(y, item, u, m)
    BY <1>1, <1>2, <1>3, <2>1, <2>2, Zenon DEF RunBy
  <2>4. CoverStep(y, x, u)
    BY <1>5, <2>2, Zenon
  <2>5. CoverStep(Applied(y, item, u, m), Applied(x, item, t, m), u)
    BY <2>3, <2>4, CoverApplied, SMTT(20)
  <2>6. QED
    BY <2>1, <2>3, <2>5, Zenon
<1>6. n \in T
  <2> HIDE DEF T
  <2>1. \A i \in 0..n : i \in T
    BY <1>1, <1>4, <1>5, Counting, Zenon
  <2>2. QED
    BY <1>1, <2>1
<1>7. QED
  BY <1>2, <1>3, <1>6, Zenon

\* The items w turn r into a store that covers s.
Reaches(r, w, s, t, m) == Covers(AppliedAll(r, w, t, m).entry, s.entry, t)

\* Losing the same keys keeps the cover.
LEMMA CoversLess ==
  ASSUME NEW f, NEW g, NEW t, Covers(f, g, t), NEW K
  PROVE  Covers(Less(f, K), Less(g, K), t)
<1>1. PICK x, y : x = Less(f, K) /\ y = Less(g, K)
  OBVIOUS
<1>2. /\ DOMAIN x = DOMAIN f \ K /\ \A k \in DOMAIN f \ K : x[k] = f[k]
      /\ DOMAIN y = DOMAIN g \ K /\ \A k \in DOMAIN g \ K : y[k] = g[k]
  BY <1>1 DEF Less
<1>3. Covers(x, y, t)
  BY <1>2 DEF Covers
<1>4. QED
  BY <1>1, <1>3, Zenon

\* A write at the master: its effects reach what it did.
LEMMA EffectsReach ==
  ASSUME NEW r, IsStore(r, Key, Blob), NEW w, IsFeed(w), NEW t \in Nat,
         NEW s, IsStore(s, Key, Blob), NEW m, IsLimit(m), NEW m2, IsLimit(m2), m2.maxmemory = 0,
         Reaches(r, w, s, t, m2), NEW c, IsCommand(c, Key, Blob), Overwrites(c),
         NEW x, x = execute(s, c, t, m)
  PROVE  Reaches(r, w \o x.effects, x.store, t, m2)
<1>1. PICK y : y = AppliedAll(r, w, t, m2)
  OBVIOUS
<1>2. IsStore(y, Key, Blob)
  BY <1>1, RunStore
<1>3. Covers(y.entry, s.entry, t)
  BY <1>1, ZenonT(30) DEF Reaches
<1>4. IsFeed(x.effects) /\ IsStore(x.store, Key, Blob)
  BY EffectsLog, LogFeed, ExecuteStore, SMTT(20)
<1>5. AppliedAll(r, w \o x.effects, t, m2) = AppliedAll(y, x.effects, t, m2)
  <2>1. PICK e : e = x.effects
    OBVIOUS
  <2>2. PICK C : w \in Seq(C) /\ e \in Seq(C)
    BY <1>4, <2>1, FeedsIn, Zenon
  <2>3. AppliedAll(r, w \o e, t, m2) = AppliedAll(AppliedAll(r, w, t, m2), e, t, m2)
    BY <2>2, AllConcat
  <2>4. QED
    BY <1>1, <2>1, <2>3, Zenon
<1>6. purge_expired(s, t).entry = Live(s.entry, t)
  BY PurgeLive, SMTT(20)
<1>7. Rejected(s, c, t, x) \/ \E evicted \in Seq(Key) : Accepted(s, c, t, m, x, evicted)
  BY ExecuteStore
<1>8. Dated(y.entry) /\ Dated(s.entry) /\ Dated(x.store.entry)
  BY <1>2, <1>4, StoreDated, SMTT(20)
<1>9. CASE Rejected(s, c, t, x)
  <2>1. AppliedAll(y, x.effects, t, m2) = y
    BY <1>9, AllEmpty, Zenon DEF Rejected
  <2>2. Live(x.store.entry, t) = Live(s.entry, t)
    BY <1>6, <1>9, LiveLive, ZenonT(30) DEF Rejected
  <2>3. Covers(y.entry, x.store.entry, t)
    BY <1>3, <1>8, <2>2, CoversSame
  <2>4. QED
    BY <1>5, <2>1, <2>3, Zenon DEF Reaches
<1>10. ASSUME NEW evicted \in Seq(Key), Accepted(s, c, t, m, x, evicted)
       PROVE  Reaches(r, w \o x.effects, x.store, t, m2)
  <2>1. PICK z, q, E : /\ z = execute(y, c, t, m2).store /\ E = ToSet(evicted)
                       /\ q = AppliedAll(y, <<c>> \o DelsOf(evicted), t, m2)
    BY SMTT(20)
  <2>2. IsStore(z, Key, Blob)
    BY <1>2, <2>1, ExecuteStore, Zenon
  <2>3. Fits(purge_expired(z, t), m2)
    BY DEF Fits
  <2>4. Lost(z, E, t, m2, q, Key, Blob)
    BY <1>2, <2>1, <2>3, EffectsApplied, SMTT(20)
  <2>5. PICK f, g, h : f = z.entry /\ g = Effect(Live(s.entry, t), c, t) /\ h = q.entry
    OBVIOUS
  <2>6. f = Effect(Live(y.entry, t), c, t)
    BY <1>2, <2>1, <2>5, OverwriteDone, SMTT(20)
  <2>7. Covers(f, g, t)
    <3>1. PICK a, b : a = y.entry /\ b = s.entry
      BY SMTT(20)
    <3>2. Covers(Effect(Live(a, t), c, t), Effect(Live(b, t), c, t), t)
      BY <1>3, <1>8, <3>1, CoverEffect, SMTT(20)
    <3>3. QED
      BY <2>5, <2>6, <3>1, <3>2, Zenon
  <2>8. Covers(Less(f, E), Less(g, E), t)
    BY <2>7, CoversLess
  <2>9. x.store.entry = Less(g, E) /\ x.effects = <<c>> \o DelsOf(evicted)
    BY <1>6, <1>10, <2>1, <2>5, Zenon DEF Accepted
  <2>10. Live(h, t) = Live(Less(f, E), t)
    <3>1. Live(h, t) = Less(Live(f, t), E)
      BY <2>4, <2>5, Zenon DEF Lost
    <3>2. Less(Live(f, t), E) = Live(Less(f, E), t)
      BY DEF Live, Less
    <3>3. QED
      BY <3>1, <3>2
  <2>11. Dated(Less(f, E)) /\ Dated(h)
    <3>1. Dated(f)
      BY <2>2, <2>5, StoreDated, SMTT(20)
    <3>2. Dated(h)
      BY <2>4, <2>5, StoreDated, Zenon DEF Lost
    <3>3. QED
      BY <3>1, <3>2, SMTT(20) DEF Dated, Less
  <2>12. PICK a, b : a = Less(f, E) /\ b = Less(g, E)
    OBVIOUS
  <2>13. Dated(a) /\ Dated(b) /\ Covers(a, b, t) /\ Live(h, t) = Live(a, t)
    BY <1>8, <2>8, <2>9, <2>10, <2>11, <2>12, Zenon
  <2>14. Covers(h, b, t)
    BY <2>11, <2>13, CoversSame, SMTT(20)
  <2>15. QED
    BY <1>5, <2>1, <2>5, <2>9, <2>12, <2>14, Zenon DEF Reaches
<1>11. QED
  BY <1>7, <1>9, <1>10, Zenon

\* Where only such commands are sent, only such items arrive ...
LastingInv ==
  (\A c \in setup.commands : Overwrites(c)) => LastingFeed(feed) /\ LastingFeed(pending)

\* ... and what arrives covers what the master has.
CoverInv ==
  /\ linked /\ intact /\ healthy /\ setup.replica.maxmemory = 0
  /\ \A c \in setup.commands : Overwrites(c)
  => Reaches(rstore, feed \o pending, store, now, setup.replica)

\* Lasting feeds, put together and taken apart.
LEMMA LastingTail ==
  ASSUME NEW w, IsFeed(w), w # <<>>, LastingFeed(w)
  PROVE  LastingFeed(Tail(w)) /\ Lasting(Head(w))
<1>1. w \in Seq(ToSet(w)) /\ \A i \in 1..Len(w) : Lasting(w[i])
  BY Zenon DEF IsFeed, LastingFeed
<1>2. /\ Len(Tail(w)) = Len(w) - 1 /\ Len(w) \in Nat \ {0} /\ Head(w) = w[1]
      /\ \A i \in 1..Len(w) - 1 : Tail(w)[i] = w[i + 1]
  BY <1>1
<1>3. QED
  BY <1>1, <1>2 DEF LastingFeed

\* What is left of such a feed without its first items.
LEMMA LastingRest ==
  ASSUME NEW w, IsFeed(w), w # <<>>, LastingFeed(w), NEW n \in 0..Len(w) - 1
  PROVE  LastingFeed(SubSeq(w, n + 2, Len(w)))
BY FeedRest, Zenon DEF LastingFeed

\* Two such feeds in a row.
LEMMA LastingConcat ==
  ASSUME NEW u, IsFeed(u), LastingFeed(u), NEW v, IsFeed(v), LastingFeed(v)
  PROVE  LastingFeed(u \o v)
<1>1. PICK C : u \in Seq(C) /\ v \in Seq(C)
  BY FeedsIn, Zenon
<1>2. /\ Len(u \o v) = Len(u) + Len(v) /\ Len(u) \in Nat /\ Len(v) \in Nat
      /\ \A i \in 1..Len(u) + Len(v) : (u \o v)[i] = IF i <= Len(u) THEN u[i] ELSE v[i - Len(u)]
  BY <1>1
<1>3. QED
  BY <1>2 DEF LastingFeed

\* A feed of one such item.
LEMMA LastingOne ==
  ASSUME NEW item, Lasting(item)
  PROVE  LastingFeed(<<item>>)
BY DEF LastingFeed

\* The effects of a command that overwrites.
LEMMA LastingEffects ==
  ASSUME NEW s, IsStore(s, Key, Blob), NEW t \in Nat, NEW c, IsCommand(c, Key, Blob), Overwrites(c),
         NEW m, IsLimit(m)
  PROVE  LastingFeed(execute(s, c, t, m).effects)
<1>1. PICK x : x = execute(s, c, t, m)
  BY SMTT(20)
<1>2. Rejected(s, c, t, x) \/ \E evicted \in Seq(Key) : Accepted(s, c, t, m, x, evicted)
  BY <1>1, ExecuteStore, SMTT(20)
<1>3. CASE Rejected(s, c, t, x)
  <2>1. x.effects = <<>>
    BY <1>3, Zenon DEF Rejected
  <2>2. LastingFeed(<<>>)
    BY DEF LastingFeed
  <2>3. QED
    BY <1>1, <2>1, <2>2, Zenon
<1>4. ASSUME NEW evicted \in Seq(Key), Accepted(s, c, t, m, x, evicted)
      PROVE  LastingFeed(x.effects)
  <2>1. PICK D, u : D = DelsOf(evicted) /\ u = <<c>>
    BY Zenon
  <2>2. x.effects = u \o D
    BY <1>4, <2>1, Zenon DEF Accepted
  <2>3. Lasting(c) /\ IsItem(c)
    BY DEF Overwrites, Lasting, IsItem
  <2>4. LastingFeed(u) /\ IsFeed(u)
    BY <2>1, <2>3, LastingOne, FeedOne, SMTT(20)
  <2>5. D \in Seq({DelOf(k) : k \in Key}) /\ \A i \in 1..Len(D) : D[i].name = "DEL"
    BY <2>1, SMTT(20) DEF DelsOf, DelOf
  <2>6. AllItems({DelOf(k) : k \in Key})
    BY DEF AllItems, IsItem, IsCommand, DelOf
  <2>7. LastingFeed(D) /\ IsFeed(D)
    BY <2>5, <2>6, FeedOf, Zenon DEF LastingFeed, Lasting
  <2>8. QED
    BY <2>2, <2>4, <2>7, LastingConcat, SMTT(20)
<1>5. QED
  BY <1>1, <1>2, <1>3, <1>4, Zenon

\* Every step keeps that only such items are under way.
LEMMA NextLasting ==
  ASSUME KInv, FeedInv, LastingInv, ReplicaNext
  PROVE  LastingInv'
<1>1. SUFFICES ASSUME \A c \in setup'.commands : Overwrites(c)
               PROVE  LastingFeed(feed') /\ LastingFeed(pending')
  BY Zenon DEF LastingInv
<1>2. setup' = setup
  BY Zenon DEF ReplicaNext, MasterServes, MasterAppended, MasterRestart, Psync, Disconnect, Apply,
       ReplicaGet, ReplicaExpire, ReplicaRestart, vars, Serves, Writes, Tick, Get, Dbsize,
       ActiveExpire, AppendFails, Save, BgsaveStart, BgsaveEnd, RewriteStart, RewriteEnd,
       RewriteFails, Write, Appended, Restart
<1>3. /\ LastingFeed(feed) /\ LastingFeed(pending) /\ IsFeed(feed) /\ IsFeed(pending)
      /\ IsStore(store, Key, Blob) /\ now \in Nat /\ IsLimit(setup)
  BY <1>1, <1>2, LogFeed, SetupFacts, Zenon DEF LastingInv, KInv, LogInv, FeedInv, StoreInv
<1>4. LastingFeed(<<>>)
  BY DEF LastingFeed
<1>5. ASSUME MasterServes PROVE LastingFeed(feed') /\ LastingFeed(pending')
  <2>1. feed' = feed
    BY <1>5, Zenon DEF MasterServes, replicaVars
  <2>2. ASSUME NEW c \in setup.commands, Write(c) PROVE LastingFeed(pending')
    <3>1. IsCommand(c, Key, Blob) /\ pending' = execute(store, c, now, setup).effects
      BY <2>2, WriteStep, Zenon
    <3>2. Overwrites(c)
      BY <1>1, <1>2, ZenonT(30)
    <3>3. LastingFeed(execute(store, c, now, setup).effects)
      BY <1>3, <3>1, <3>2, LastingEffects, SMTT(20)
    <3>4. QED
      BY <3>1, <3>3, Zenon
  <2>3. ASSUME Serves PROVE pending' \in {pending, <<>>}
    BY <2>3, Zenon DEF Serves, Tick, Get, Dbsize, ActiveExpire, AppendFails, Save, BgsaveStart,
         BgsaveEnd, RewriteStart, RewriteEnd, RewriteFails
  <2>4. QED
    BY <1>3, <1>4, <1>5, <2>1, <2>2, <2>3, Zenon DEF MasterServes, Writes
<1>6. ASSUME MasterAppended PROVE LastingFeed(feed') /\ LastingFeed(pending')
  <2>1. PICK f, p : f = feed /\ p = pending
    OBVIOUS
  <2>2. p # <<>> /\ pending' = Tail(p) /\ feed' \in {f, Append(f, Head(p))}
    BY <1>6, <2>1, Zenon DEF MasterAppended, Appended
  <2>3. LastingFeed(Tail(p)) /\ Lasting(Head(p))
    BY <1>3, <2>1, <2>2, LastingTail, SMTT(20)
  <2>4. PICK v : v = <<Head(p)>> /\ LastingFeed(v)
    BY <2>3, LastingOne, Zenon
  <2>5. IsFeed(v) /\ IsItem(Head(p))
    BY <1>3, <2>1, <2>2, <2>4, FeedTail
  <2>6. LastingFeed(f \o v)
    BY <1>3, <2>1, <2>4, <2>5, LastingConcat, SMTT(20)
  <2>7. Append(f, Head(p)) = f \o v
    BY <1>3, <2>1, <2>4, <2>5, FeedAppend, Zenon
  <2>8. QED
    BY <1>3, <2>1, <2>2, <2>3, <2>6, <2>7, Zenon
<1>7. ASSUME Psync PROVE LastingFeed(feed') /\ LastingFeed(pending')
  <2>1. PICK item : item = [name |-> "SNAPSHOT", rdb |-> dump_rdb_entries(store')]
    BY Zenon
  <2>2. feed' = <<item>> /\ pending' = pending
    BY <1>7, <2>1, Zenon DEF Psync
  <2>3. Lasting(item)
    BY <2>1 DEF Lasting
  <2>4. QED
    BY <1>3, <2>2, <2>3, LastingOne, Zenon
<1>8. ASSUME Apply PROVE LastingFeed(feed') /\ LastingFeed(pending')
  <2>1. /\ feed # <<>> /\ pending' = pending
        /\ feed' = Tail(feed) \/ \E n \in 0..Len(feed) - 1 : feed' = SubSeq(feed, n + 2, Len(feed))
    BY <1>3, <1>8, ApplyStep, Zenon DEF vars
  <2>2. LastingFeed(feed')
    BY <1>3, <2>1, LastingTail, LastingRest, Zenon
  <2>3. QED
    BY <1>3, <2>1, <2>2, Zenon
<1>9. ASSUME \/ MasterRestart \/ Disconnect \/ ReplicaExpire \/ ReplicaRestart
             \/ \E k \in Key : ReplicaGet(k)
      PROVE  LastingFeed(feed') /\ LastingFeed(pending')
  <2>1. feed' \in {feed, <<>>} /\ pending' \in {pending, <<>>}
    BY <1>9, Zenon DEF MasterRestart, Restart, Disconnect, ReplicaExpire, ReplicaRestart, ReplicaGet, vars
  <2>2. QED
    BY <1>3, <1>4, <2>1, Zenon
<1>10. QED
  BY <1>5, <1>6, <1>7, <1>8, <1>9, Zenon DEF ReplicaNext

\* A write at the master: with its effects, what is under way still leads to a cover.
LEMMA WriteReaches ==
  ASSUME KInv, FeedInv, NEW c \in setup.commands, Overwrites(c), Write(c),
         NEW m, IsLimit(m), m.maxmemory = 0, Reaches(rstore, feed \o pending, store, now, m)
  PROVE  Reaches(rstore, feed \o pending', store', now', m)
<1>1. /\ IsCommand(c, Key, Blob) /\ pending = <<>> /\ now' = now
      /\ store' = execute(store, c, now, setup).store
      /\ pending' = execute(store, c, now, setup).effects
  BY WriteStep, Zenon
<1>2. PICK r, f, s, t, u, x : /\ r = rstore /\ f = feed /\ s = store /\ t = now /\ u = setup
                              /\ x = execute(s, c, t, u)
  OBVIOUS
<1>3. /\ IsStore(r, Key, Blob) /\ IsFeed(f) /\ IsStore(s, Key, Blob) /\ t \in Nat /\ IsLimit(u)
  BY <1>2, SetupFacts, Zenon DEF KInv, FeedInv, StoreInv
<1>4. f \o <<>> = f
  <2>1. f \in Seq(ToSet(f))
    BY <1>3, Zenon DEF IsFeed
  <2>2. QED
    BY <2>1
<1>5. Reaches(r, f, s, t, m)
  BY <1>1, <1>2, <1>4, Zenon
<1>6. Reaches(r, f \o x.effects, x.store, t, m)
  BY <1>1, <1>2, <1>3, <1>5, EffectsReach
<1>7. QED
  BY <1>1, <1>2, <1>6, Zenon

\* A second passes: what arrives starts later, and so do its TTLs.
LEMMA TickReaches ==
  ASSUME NEW r, IsStore(r, Key, Blob), NEW w, IsFeed(w), LastingFeed(w), NEW t \in Nat,
         NEW s, IsStore(s, Key, Blob), NEW m, IsLimit(m), m.maxmemory = 0, Reaches(r, w, s, t, m)
  PROVE  Reaches(r, w, s, t + 1, m)
<1>1. PICK u, y, z : /\ u = t + 1 /\ y = AppliedAll(r, w, t, m) /\ z = AppliedAll(r, w, u, m)
  OBVIOUS
<1>2. u \in Nat /\ t <= u
  BY <1>1
<1>3. CoverStep(r, r, u)
  BY StoreDated, CoversSelf, Zenon DEF CoverStep
<1>4. CoverStep(z, y, u)
  BY <1>1, <1>2, <1>3, CoverRun
<1>5. Covers(y.entry, s.entry, u)
  <2>1. Covers(y.entry, s.entry, t)
    BY <1>1, Zenon DEF Reaches
  <2>2. Dated(s.entry)
    BY StoreDated
  <2>3. QED
    BY <1>1, <2>1, <2>2, CoversLater
<1>6. PICK f, g, h : f = z.entry /\ g = y.entry /\ h = s.entry
  OBVIOUS
<1>7. Dated(f) /\ Dated(g) /\ Dated(h) /\ Covers(f, g, u) /\ Covers(g, h, u)
  BY <1>4, <1>5, <1>6, StoreDated, Zenon DEF CoverStep
<1>8. Covers(f, h, u)
  BY <1>2, <1>7, CoversTrans
<1>9. QED
  BY <1>1, <1>6, <1>8, Zenon DEF Reaches

\* Stores that are the same for clients.
LEMMA SameReaches ==
  ASSUME NEW r, IsStore(r, Key, Blob), NEW w, IsFeed(w), NEW t \in Nat,
         NEW s, IsStore(s, Key, Blob), NEW m, IsLimit(m), m.maxmemory = 0, Reaches(r, w, s, t, m),
         NEW x, Same(x, r, t), NEW z, Same(z, s, t)
  PROVE  Reaches(x, w, z, t, m)
<1>1. /\ IsStore(x, Key, Blob) /\ Live(x.entry, t) = Live(r.entry, t)
      /\ IsStore(z, Key, Blob) /\ Live(z.entry, t) = Live(s.entry, t)
  BY Zenon DEF Same
<1>2. PICK a, b : a = AppliedAll(r, w, t, m) /\ b = AppliedAll(x, w, t, m)
  OBVIOUS
<1>3. Steady(m)
  BY ZenonT(30) DEF Steady
<1>4. Live(b.entry, t) = Live(a.entry, t)
  BY <1>1, <1>2, <1>3, SteadyRun, SMTT(20)
<1>5. IsStore(a, Key, Blob) /\ IsStore(b, Key, Blob)
  BY <1>1, <1>2, RunStore, SMTT(20)
<1>6. PICK f, g, p, q : f = a.entry /\ g = s.entry /\ p = b.entry /\ q = z.entry
  OBVIOUS
<1>7. /\ Dated(f) /\ Dated(g) /\ Dated(p) /\ Dated(q) /\ Covers(f, g, t)
      /\ Live(p, t) = Live(f, t) /\ Live(q, t) = Live(g, t)
  BY <1>1, <1>2, <1>4, <1>5, <1>6, StoreDated, Zenon DEF Reaches
<1>8. Covers(p, q, t)
  BY <1>7, CoversSame
<1>9. QED
  BY <1>2, <1>6, <1>8, Zenon DEF Reaches

\* Every step keeps that what is under way leads to a cover.
LEMMA NextCover ==
  ASSUME KInv, FeedInv, LastingInv, CoverInv, ReplicaNext
  PROVE  CoverInv'
<1>1. SUFFICES ASSUME linked', intact', healthy', setup'.replica.maxmemory = 0,
                      \A c \in setup'.commands : Overwrites(c)
               PROVE  Reaches(rstore', feed' \o pending', store', now', setup'.replica)
  BY Zenon DEF CoverInv
<1>2. setup' = setup
  BY Zenon DEF ReplicaNext, MasterServes, MasterAppended, MasterRestart, Psync, Disconnect, Apply,
       ReplicaGet, ReplicaExpire, ReplicaRestart, vars, Serves, Writes, Tick, Get, Dbsize,
       ActiveExpire, AppendFails, Save, BgsaveStart, BgsaveEnd, RewriteStart, RewriteEnd,
       RewriteFails, Write, Appended, Restart
<1>3. PICK m : m = setup.replica
  OBVIOUS
<1>4. m.maxmemory = 0 /\ \A c \in setup.commands : Overwrites(c)
  BY <1>1, <1>2, <1>3, Zenon
<1>5. /\ IsLimit(m) /\ now \in Nat /\ IsStore(rstore, Key, Blob) /\ IsStore(store, Key, Blob)
      /\ IsFeed(feed) /\ IsFeed(pending) /\ LastingFeed(feed) /\ LastingFeed(pending)
  BY <1>3, <1>4, SetupFacts, ReplicaLimit, LogFeed, Zenon DEF KInv, StoreInv, FeedInv, LogInv, LastingInv
<1>6. ~MasterRestart /\ ~Disconnect /\ ~ReplicaRestart
  BY <1>1, Zenon DEF MasterRestart, Disconnect, ReplicaRestart
<1>7. ASSUME linked, intact, healthy PROVE Reaches(rstore, feed \o pending, store, now, m)
  BY <1>3, <1>4, <1>7, Zenon DEF CoverInv
<1>8. PICK w : w = feed \o pending
  BY Zenon
<1>9. IsFeed(w) /\ LastingFeed(w)
  BY <1>5, <1>8, FeedConcat, LastingConcat, SMTT(20)
<1>10. Same(rstore, rstore, now) /\ Same(store, store, now)
  BY <1>5, Zenon DEF Same
<1>11. ASSUME NEW x, NEW z, Same(x, rstore, now), Same(z, store, now), linked, intact, healthy
       PROVE  Reaches(x, w, z, now, m)
  <2>1. PICK r, s, t : r = rstore /\ s = store /\ t = now
    OBVIOUS
  <2>2. Reaches(r, w, s, t, m) /\ Same(x, r, t) /\ Same(z, s, t)
    BY <1>7, <1>8, <1>11, <2>1, Zenon
  <2>3. Reaches(x, w, z, t, m)
    BY <1>4, <1>5, <1>9, <2>1, <2>2, SameReaches, SMTT(20)
  <2>4. QED
    BY <2>1, <2>3, Zenon
<1>12. ASSUME MasterServes PROVE Reaches(rstore', feed' \o pending', store', now', m)
  <2>1. linked /\ intact /\ rstore' = rstore /\ feed' = feed
    BY <1>1, <1>12, Zenon DEF MasterServes, replicaVars
  <2>2. ASSUME NEW c \in setup.commands, Write(c) PROVE Reaches(rstore', feed' \o pending', store', now', m)
    <3>1. healthy
      BY <2>2, Zenon DEF Write
    <3>2. Overwrites(c) /\ Reaches(rstore, feed \o pending, store, now, m)
      BY <1>4, <1>7, <2>1, <3>1, Zenon
    <3>3. Reaches(rstore, feed \o pending', store', now', m)
      BY <1>4, <1>5, <2>2, <3>2, WriteReaches, SMTT(20)
    <3>4. QED
      BY <2>1, <3>3, Zenon
  <2>3. ASSUME Tick PROVE Reaches(rstore', feed' \o pending', store', now', m)
    <3>1. PICK r, s, t : r = rstore /\ s = store /\ t = now
      OBVIOUS
    <3>2. healthy /\ pending' = pending /\ store' = store /\ now' = t + 1
      BY <1>1, <2>3, <3>1, Zenon DEF Tick
    <3>3. Reaches(r, w, s, t, m)
      BY <1>7, <1>8, <2>1, <3>1, <3>2, Zenon
    <3>4. Reaches(r, w, s, t + 1, m)
      BY <1>4, <1>5, <1>9, <3>1, <3>3, TickReaches, SMTT(20)
    <3>5. QED
      BY <1>8, <2>1, <3>1, <3>2, <3>4, Zenon
  <2>4. ASSUME Serves, ~Tick PROVE Reaches(rstore', feed' \o pending', store', now', m)
    <3>1. ~AppendFails
      BY <1>1, Zenon DEF AppendFails
    <3>2. pending' = pending /\ healthy
      BY <1>1, <2>4, <3>1, Zenon DEF Serves, Get, Dbsize, ActiveExpire, Save, BgsaveStart,
           BgsaveEnd, RewriteStart, RewriteEnd, RewriteFails
    <3>3. now' = now /\ Same(store', store, now)
      BY <2>4, ServeStays, Zenon DEF Stays
    <3>4. QED
      BY <1>8, <1>10, <1>11, <2>1, <3>2, <3>3, Zenon
  <2>5. QED
    BY <1>12, <2>2, <2>3, <2>4, Zenon DEF MasterServes, Writes
<1>13. ASSUME MasterAppended PROVE Reaches(rstore', feed' \o pending', store', now', m)
  <2>1. /\ linked /\ intact /\ healthy /\ rstore' = rstore /\ store' = store /\ now' = now
    BY <1>1, <1>13, Zenon DEF MasterAppended, Appended
  <2>2. feed' \o pending' = feed \o pending
    BY <1>13, <2>1, FeedMoves, SMTT(20)
  <2>3. QED
    BY <1>7, <2>1, <2>2, Zenon
<1>14. ASSUME Psync PROVE Reaches(rstore', feed' \o pending', store', now', m)
  <2>1. PICK item : item = [name |-> "SNAPSHOT", rdb |-> dump_rdb_entries(purge_expired(store, now))]
    BY Zenon
  <2>2. /\ feed' = <<item>> /\ rstore' = rstore /\ pending' = <<>> /\ now' = now
        /\ store' = purge_expired(store, now)
    BY <1>14, <2>1, Zenon DEF Psync, Locked
  <2>3. PICK a, z : a = AppliedAll(rstore, <<item>>, now, m) /\ z = store'
    OBVIOUS
  <2>4. Live(z.entry, now) = Live(store.entry, now) /\ IsStore(z, Key, Blob)
    BY <1>5, <2>2, <2>3, PurgeSame, Zenon DEF Same
  <2>5. Live(a.entry, now) = Live(store.entry, now)
    BY <2>1, <2>3, PsyncItem, Zenon DEF Brings
  <2>6. IsStore(a, Key, Blob)
    <3>1. IsFeed(<<item>>)
      BY <2>1, PsyncItem, FeedOne, SMTT(20)
    <3>2. QED
      BY <1>5, <2>3, <3>1, RunStore, SMTT(20)
  <2>7. PICK f, g : f = a.entry /\ g = z.entry
    OBVIOUS
  <2>8. Dated(f) /\ Dated(g) /\ Live(f, now) = Live(g, now)
    BY <2>4, <2>5, <2>6, <2>7, StoreDated, Zenon
  <2>9. Covers(g, g, now)
    BY <2>8, CoversSelf, SMTT(20)
  <2>10. Covers(f, g, now)
    BY <1>5, <2>8, <2>9, CoversSame, SMTT(20)
  <2>11. <<item>> \o <<>> = <<item>>
    OBVIOUS
  <2>12. QED
    BY <2>2, <2>3, <2>7, <2>10, <2>11, Zenon DEF Reaches
<1>15. ASSUME Apply PROVE Reaches(rstore', feed' \o pending', store', now', m)
  <2>1. /\ linked /\ intact /\ healthy /\ pending' = pending /\ store' = store /\ now' = now
        /\ feed # <<>> /\ feed' = Tail(feed)
        /\ rstore' = Applied(rstore, Head(feed), now, m)
    BY <1>1, <1>3, <1>5, <1>15, ApplyStep, Zenon DEF vars
  <2>2. PICK C : feed \in Seq(C) /\ pending \in Seq(C)
    BY <1>5, FeedsIn, Zenon
  <2>3. w \in Seq(C) /\ w # <<>> /\ Head(w) = Head(feed) /\ Tail(w) = Tail(feed) \o pending
    BY <1>8, <2>1, <2>2, SMTT(20)
  <2>4. AppliedAll(rstore, w, now, m) = AppliedAll(Applied(rstore, Head(w), now, m), Tail(w), now, m)
    BY <2>3, AllHead
  <2>5. QED
    BY <1>7, <1>8, <2>1, <2>3, <2>4, Zenon DEF Reaches
<1>16. ASSUME ReplicaExpire \/ \E k \in Key : ReplicaGet(k)
       PROVE  Reaches(rstore', feed' \o pending', store', now', m)
  <2>1. /\ linked /\ intact /\ healthy /\ pending' = pending /\ store' = store /\ now' = now
        /\ feed' = feed
    BY <1>1, <1>16, Zenon DEF ReplicaExpire, ReplicaGet, vars
  <2>2. Same(rstore', rstore, now)
    BY <1>16, ReplicaStays
  <2>3. QED
    BY <1>8, <1>10, <1>11, <2>1, <2>2, Zenon
<1>17. QED
  BY <1>2, <1>3, <1>6, <1>12, <1>13, <1>14, <1>15, <1>16, Zenon DEF ReplicaNext

(* TTLs are replicated relative to now (string_cmds.py, the SET that       *)
(* _execute_inner propagates) and start again when the replica applies it. *)
(* For any delay, any limit of the master, and any resyncs and restarts: a *)
(* key that the master still shows, the replica will show with its value,  *)
(* unless _read_rdb_bulk has lost a command of this session.               *)
THEOREM ExpiresLater == ReplicaSpec => []NeverExpiresEarly
<1>1. ReplicaInit => FeedInv /\ LastingInv /\ CoverInv
  <2> SUFFICES ASSUME ReplicaInit PROVE FeedInv /\ LastingInv /\ CoverInv
    BY SMTT(20)
  <2>1. FeedInv
    BY EmptyIsStore, EmptyFeed, EmptyLog, Zenon DEF ReplicaInit, FeedInv
  <2>2. LastingFeed(<<>>)
    BY DEF LastingFeed
  <2>3. LastingInv
    BY <2>2, Zenon DEF ReplicaInit, Init, LastingInv
  <2>4. CoverInv
    BY Zenon DEF ReplicaInit, CoverInv
  <2>5. QED
    BY <2>1, <2>3, <2>4, SMTT(20)
<1>2. KInv /\ FeedInv /\ LastingInv /\ CoverInv /\ [ReplicaNext]_allVars
        => FeedInv' /\ LastingInv' /\ CoverInv'
  <2> SUFFICES ASSUME KInv, FeedInv, LastingInv, CoverInv, [ReplicaNext]_allVars
               PROVE  FeedInv' /\ LastingInv' /\ CoverInv'
    OBVIOUS
  <2>1. CASE ReplicaNext
    BY <2>1, NextFeed, NextLasting, NextCover, SMTT(20)
  <2>2. CASE UNCHANGED allVars
    BY <2>2, Zenon DEF allVars, vars, replicaVars, FeedInv, LastingInv, CoverInv
  <2>3. QED
    BY <2>1, <2>2, SMTT(20)
<1>3. KInv /\ FeedInv /\ CoverInv => NeverExpiresEarly
  <2> SUFFICES ASSUME KInv, FeedInv, CoverInv, linked, intact, healthy, setup.replica.maxmemory = 0,
                      \A c \in setup.commands : c.name \in {"SET", "DEL"}
               PROVE  \A k \in DOMAIN Visible(store) :
                        k \in DOMAIN Visible(Arrived) /\ Visible(Arrived)[k] = Visible(store)[k]
    BY Zenon DEF NeverExpiresEarly
  <2>1. Reaches(rstore, feed \o pending, store, now, setup.replica)
    BY Zenon DEF CoverInv, Overwrites
  <2>2. PICK f, g, t : f = Arrived.entry /\ g = store.entry /\ t = now
    OBVIOUS
  <2>3. Covers(f, g, t)
    BY <2>1, <2>2, Zenon DEF Reaches, Arrived
  <2>4. IsStore(rstore, Key, Blob) /\ IsFeed(feed) /\ IsFeed(pending) /\ t \in Nat /\ IsLimit(setup.replica)
    BY <2>2, SetupFacts, ReplicaLimit, LogFeed, Zenon DEF KInv, FeedInv, LogInv
  <2>5. IsStore(Arrived, Key, Blob) /\ IsStore(store, Key, Blob)
    BY <2>2, <2>4, FeedConcat, RunStore, Zenon DEF Arrived, KInv, StoreInv
  <2>6. Dated(f) /\ Dated(g)
    BY <2>2, <2>5, StoreDated, Zenon
  <2>7. /\ Visible(Arrived) = [k \in {i \in DOMAIN f : ~is_expired(f[i], t)} |-> <<f[k].type, f[k].value>>]
        /\ Visible(store) = [k \in {i \in DOMAIN g : ~is_expired(g[i], t)} |-> <<g[k].type, g[k].value>>]
    BY <2>2 DEF Visible, keys, expired
  <2>8. ASSUME NEW k \in DOMAIN g, ~is_expired(g[k], t)
        PROVE  k \in DOMAIN f /\ ~is_expired(f[k], t) /\ f[k].type = g[k].type /\ f[k].value = g[k].value
    <3>1. k \in DOMAIN f /\ Shows(f[k], g[k])
      BY <2>3, <2>8, Zenon DEF Covers
    <3>2. ~is_expired(f[k], t)
      BY <2>4, <2>6, <2>8, <3>1, SMTT(20) DEF Shows, is_expired, Dated, None
    <3>3. QED
      BY <3>1, <3>2, Zenon DEF Shows
  <2>9. QED
    BY <2>7, <2>8
<1>4. QED
  BY <1>1, <1>2, <1>3, MasterOfReplica, Inductive, PTL DEF ReplicaSpec

=============================================================================
