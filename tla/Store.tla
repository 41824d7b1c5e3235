------------------------------- MODULE Store -------------------------------
(***************************************************************************)
(* The keyspace: Store in byo_redis/storage/store.py, the write commands   *)
(* over it, and what persistence makes of it, as operators.                *)
(*                                                                         *)
(* A store is a record of the entries, of the keys in dictionary order and *)
(* of the keys from the least to the most recently used (_last_access: its *)
(* clock values are distinct, so only their order matters).  A list is a   *)
(* sequence, a hash a function on fields, a string a sequence of one chunk.*)
(* A command is a record; times and TTLs are in seconds.                   *)
(***************************************************************************)
EXTENDS Integers, Sequences, FiniteSetsExt, Functions

(* Operators of SequencesExt, as there.  They are all that is needed of it,*)
(* and every definition in scope burdens every step of a proof.            *)
ToSet(s) == {s[i] : i \in DOMAIN s}

Front(s) == SubSeq(s, 1, Len(s) - 1)

Reverse(s) == [i \in 1..Len(s) |-> s[(Len(s) - i) + 1]]

SetToSeqs(S) ==
  LET D == 1..Cardinality(S)
  IN  {f \in [D -> S] : \A i, j \in D : i # j => f[i] # f[j]}

SetToSeq(S) == CHOOSE f \in [1..Cardinality(S) -> S] : IsInjective(f)

FlattenSeq(seqs) ==
  LET flatten[i \in 1..Len(seqs)] ==
        IF i = 1 THEN seqs[i] ELSE flatten[i - 1] \o seqs[i]
  IN  IF Len(seqs) = 0 THEN seqs ELSE flatten[Len(seqs)]

None == -1   \* no expiry

EmptyStore == [entry |-> <<>>, dict |-> <<>>, lru |-> <<>>]

keys(s) == DOMAIN s.entry

\* What a key may hold: blobs are what elements, fields and values are made of.
Lists(Blob) == Seq(Blob) \ {<<>>}

Hashes(Blob) ==
  UNION {[F -> Blob] : F \in {G \in SUBSET Blob : G # {} /\ IsFiniteSet(G)}}

IsEntry(e, Blob) ==
  /\ e = [type |-> e.type, value |-> e.value, expire |-> e.expire]
  /\ \/ e.type = "STRING" /\ e.value \in Seq(Blob)
     \/ e.type = "LIST" /\ e.value \in Lists(Blob)
     \/ e.type = "HASH" /\ e.value \in Hashes(Blob)
  /\ e.expire \in Nat \cup {None}

\* The sequence has every member of K, once.
IsOrder(order, K) ==
  order \in Seq(K) /\ ToSet(order) = K /\ IsInjective(order)

\* Every key has an entry, a place in the dictionary and an access time.
IsStore(s, Key, Blob) ==
  /\ s = [entry |-> s.entry, dict |-> s.dict, lru |-> s.lru]
  /\ keys(s) \subseteq Key
  /\ s.entry = [k \in keys(s) |-> s.entry[k]]
  /\ \A k \in keys(s) : IsEntry(s.entry[k], Blob)
  /\ IsOrder(s.dict, keys(s))
  /\ IsOrder(s.lru, keys(s))

\* A write command, as its handler accepts it.
IsCommand(c, Key, Blob) ==
  /\ c.key \in Key
  /\ \/ c.name = "SET" /\ c.value \in Seq(Blob) /\ c.ex \in {None} \cup (Nat \ {0})
     \/ c.name \in {"DEL", "RPOP"}
     \/ c.name = "EXPIRE" /\ c.ex \in Int
     \/ c.name = "LPUSH" /\ c.value \in Lists(Blob)
     \/ c.name = "HSET" /\ c.value \in Hashes(Blob)

is_expired(e, t) == e.expire # None /\ t >= e.expire

\* The keys of an order that are not in K, in this order.
Without(order, K) ==
  LET left[i \in 0..Len(order)] ==
        IF i = 0 THEN <<>>
        ELSE IF order[i] \in K THEN left[i - 1] ELSE Append(left[i - 1], order[i])
  IN  left[Len(order)]

touch_access(s, k) == [s EXCEPT !.lru = Append(Without(@, {k}), k)]

\* The mapping g updated with f.
Updated(g, f) ==
  [x \in DOMAIN f \cup DOMAIN g |-> IF x \in DOMAIN f THEN f[x] ELSE g[x]]

set_entry(s, k, e) ==
  touch_access([s EXCEPT !.entry = Updated(@, [x \in {k} |-> e]),
                         !.dict = IF k \in keys(s) THEN @ ELSE Append(@, k)], k)

\* Bug: a removed key keeps its access time.
drop_KeepsAccess(s, K) ==
  [s EXCEPT !.entry = Restrict(@, keys(s) \ K),
            !.dict = Without(@, K)]

drop(s, K) ==
  [entry |-> Restrict(s.entry, keys(s) \ K),
   dict |-> Without(s.dict, K),
   lru |-> Without(s.lru, K)]

expired(s, t) == {k \in keys(s) : is_expired(s.entry[k], t)}

purge_expired(s, t) == drop(s, expired(s, t))

\* _touch: lazy expiry of one key, or an access to it.
touch(s, k, t) ==
  IF k \notin keys(s) THEN s
  ELSE IF is_expired(s.entry[k], t) THEN drop(s, {k})
  ELSE touch_access(s, k)

load_entries(s) == [s EXCEPT !.lru = s.dict]

----------------------------------------------------------------------------
(* The write commands: a store s with no expired key becomes the store, or *)
(* the command is refused with WRONGTYPE after the access was recorded.    *)

Done(s) == [ok |-> TRUE, store |-> s]

cmd_set(s, c, t) ==
  Done(set_entry(s, c.key, [type |-> "STRING", value |-> c.value,
                            expire |-> IF c.ex = None THEN None ELSE t + c.ex]))

\* Of one key.  (The handler takes any number of them, and drops each.)
cmd_del(s, c, t) == Done(drop(s, {c.key}))

cmd_expire(s, c, t) ==
  Done(IF c.key \notin keys(s) THEN s
       ELSE IF c.ex <= 0 THEN drop(s, {c.key})
       ELSE [touch_access(s, c.key) EXCEPT !.entry[c.key].expire = t + c.ex])

\* The value of a key, an empty one if there is none.
value_of(s, k) == IF k \in keys(s) THEN s.entry[k].value ELSE <<>>

\* The key's value of this type becomes value; an empty list is deleted.
update(s, c, type, value) ==
  IF c.key \in keys(s) /\ s.entry[c.key].type # type
  THEN [ok |-> FALSE, store |-> touch_access(s, c.key)]
  ELSE Done(IF value = <<>> THEN drop(s, {c.key})
            ELSE IF c.key \in keys(s)
            THEN [touch_access(s, c.key) EXCEPT !.entry[c.key].value = value]
            ELSE set_entry(s, c.key, [type |-> type, value |-> value,
                                      expire |-> None]))

cmd_lpush(s, c, t) ==
  update(s, c, "LIST", Reverse(c.value) \o value_of(s, c.key))

cmd_rpop(s, c, t) ==
  update(s, c, "LIST", IF value_of(s, c.key) = <<>> THEN <<>>
                       ELSE Front(value_of(s, c.key)))

cmd_hset(s, c, t) == update(s, c, "HASH", Updated(value_of(s, c.key), c.value))

dispatch(s, c, t) ==
  CASE c.name = "SET"    -> cmd_set(s, c, t)
    [] c.name = "DEL"    -> cmd_del(s, c, t)
    [] c.name = "EXPIRE" -> cmd_expire(s, c, t)
    [] c.name = "LPUSH"  -> cmd_lpush(s, c, t)
    [] c.name = "RPOP"   -> cmd_rpop(s, c, t)
    [] c.name = "HSET"   -> cmd_hset(s, c, t)

----------------------------------------------------------------------------
(* The memory limit: m.maxmemory (0: none) and m.policy.                   *)

\* A key costs one unit, and so does each chunk, element or field.
Units(s) == UNION {{k} \X DOMAIN s.entry[k].value : k \in keys(s)}

memory_usage(s) == Cardinality(keys(s)) + Cardinality(Units(s))

\* The keys the policy may evict, in the order in which it evicts them.
candidates(s, policy) ==
  CASE policy = "noeviction" -> <<>>
    [] policy = "allkeys-lru" -> s.lru
    [] policy = "volatile-ttl" ->
         LET Place(k) == CHOOSE i \in DOMAIN s.dict : s.dict[i] = k
             Sooner(k, l) ==
               \/ s.entry[k].expire < s.entry[l].expire
               \/ s.entry[k].expire = s.entry[l].expire /\ Place(k) < Place(l)
         IN  CHOOSE order \in SetToSeqs({k \in keys(s) : s.entry[k].expire # None}) :
               \A i, j \in DOMAIN order : i < j => Sooner(order[i], order[j])

Fits(s, m) == m.maxmemory = 0 \/ memory_usage(s) <= m.maxmemory

\* Bug: the loop stops one key too early.
Enough_OffByOne(s, m) ==
  {n \in 0..Len(candidates(s, m.policy)) - 1 :
     Fits(drop(s, ToSet(SubSeq(candidates(s, m.policy), 1, n + 1))), m)}

\* How many candidates enforce_memory_limit evicts; none of these numbers is
\* enough when it raises MemoryLimitError.
Enough(s, m) ==
  {n \in 0..Len(candidates(s, m.policy)) :
     Fits(drop(s, ToSet(SubSeq(candidates(s, m.policy), 1, n))), m)}

DelOf(k) == [name |-> "DEL", key |-> k]

\* Bug: a refused write is not rolled back.
execute_NoRollback(s, c, t, m) ==
  LET r == dispatch(purge_expired(s, t), c, t)
      out == candidates(r.store, m.policy)
      enough == Enough(r.store, m)
      n == IF enough = {} THEN Len(out) ELSE Min(enough)
      evicted == SubSeq(out, 1, n)
      left == drop(r.store, ToSet(evicted))
  IN  IF ~r.ok THEN [store |-> r.store, effects |-> <<>>]
      ELSE IF enough = {} THEN [store |-> left, effects |-> <<>>]
      ELSE [store |-> left,
            effects |-> <<c>> \o [i \in 1..n |-> DelOf(evicted[i])]]

\* Bug: evictions are not recorded.
execute_EvictionsNotLogged(s, c, t, m) ==
  LET r == dispatch(purge_expired(s, t), c, t)
      enough == Enough(r.store, m)
      evicted == SubSeq(candidates(r.store, m.policy), 1, Min(enough))
  IN  IF ~r.ok THEN [store |-> r.store, effects |-> <<>>]
      ELSE IF enough = {}
      THEN [store |-> load_entries(purge_expired(s, t)), effects |-> <<>>]
      ELSE [store |-> drop(r.store, ToSet(evicted)), effects |-> <<c>>]

\* _execute_inner up to its first await: the store after the command and what
\* is to be appended to the AOF, the command and a DEL for every evicted key.
execute(s, c, t, m) ==
  LET before == purge_expired(s, t)
      r == dispatch(before, c, t)
      enough == Enough(r.store, m)
      evicted == SubSeq(candidates(r.store, m.policy), 1, Min(enough))
  IN  IF ~r.ok THEN [store |-> r.store, effects |-> <<>>]
      ELSE IF enough = {} THEN [store |-> load_entries(before), effects |-> <<>>]
      ELSE [store |-> drop(r.store, ToSet(evicted)),
            effects |-> <<c>> \o [i \in 1..Len(evicted) |-> DelOf(evicted[i])]]

----------------------------------------------------------------------------
(* Persistence formats. *)

\* replay_aof at time t, of a file that the loader's parser takes: AofFile models
\* its limits (1024 arguments of a command, 32,000,000 bytes).
replay(log, t, m) ==
  LET after[i \in 0..Len(log)] ==
        IF i = 0 THEN EmptyStore ELSE execute(after[i - 1], log[i], t, m).store
  IN  after[Len(log)]

\* A dump is a sequence of numbers and bytes; keys, elements, fields and their
\* values are blobs of one byte.
pack_bytes(b) == <<Len(b)>> \o b

pack_all(blobs) == FlattenSeq([i \in DOMAIN blobs |-> pack_bytes(<<blobs[i]>>)])

TypeIds == <<"STRING", "LIST", "HASH">>

PackValue(e) ==
  CASE e.type = "STRING" -> pack_bytes(e.value)
    [] e.type = "LIST" -> <<Len(e.value)>> \o pack_all(e.value)
    [] e.type = "HASH" ->
         LET fields == SetToSeq(DOMAIN e.value)
         IN  <<Len(fields)>> \o FlattenSeq([i \in DOMAIN fields |->
                                pack_all(<<fields[i], e.value[fields[i]]>>)])

\* Bug: no expiry is written as 0.
PackEntry_ZeroExpiry(k, e) ==
  pack_bytes(<<k>>) \o <<CHOOSE i \in 1..3 : TypeIds[i] = e.type,
                        IF e.expire = None THEN 0 ELSE e.expire>> \o PackValue(e)

\* One key: no expiry is written as -1.  (Packable of Keyspace says for which
\* expiry times struct.pack does not raise.)
PackEntry(k, e) ==
  pack_bytes(<<k>>) \o <<CHOOSE i \in 1..3 : TypeIds[i] = e.type,
                        IF e.expire = None THEN -1 ELSE e.expire>> \o PackValue(e)

\* The CRC stands for what it is computed from.
Crc(body) == [crc |-> body]

dump_rdb_entries(s) ==
  LET body == <<"BYOR", 2, Len(s.dict)>>
                \o FlattenSeq([i \in DOMAIN s.dict |->
                                 PackEntry(s.dict[i], s.entry[s.dict[i]])])
  IN  body \o <<Crc(body), "EOF">>

read_blob(data, at) ==
  [got |-> SubSeq(data, at + 1, at + data[at]), at |-> at + 1 + data[at]]

\* n blobs of one byte: the bytes, and the offset after them.
read_blobs(data, n, at) ==
  LET read[i \in 0..n] ==
        IF i = 0 THEN [got |-> <<>>, at |-> at]
        ELSE LET blob == read_blob(data, read[i - 1].at)
             IN  [got |-> Append(read[i - 1].got, blob.got[1]), at |-> blob.at]
  IN  read[n]

\* A key, its type, expiry time and value.
read_entry(data, at) ==
  LET key == read_blob(data, at)
      type == TypeIds[data[key.at]]
      expire == data[key.at + 1]
      start == key.at + 2
      n == IF type = "HASH" THEN 2 * data[start] ELSE data[start]
      items == read_blobs(data, n, start + 1)
      odd == {i \in 1..n : i % 2 = 1}
      value == CASE type = "STRING" -> read_blob(data, start).got
                 [] type = "LIST" -> items.got
                 [] type = "HASH" ->
                      [f \in {items.got[i] : i \in odd} |->
                         items.got[1 + CHOOSE i \in odd : items.got[i] = f]]
  IN  [got |-> [key |-> key.got[1],
                entry |-> [type |-> type, value |-> value,
                           expire |-> IF expire < 0 THEN None ELSE expire]],
       at |-> IF type = "STRING" THEN read_blob(data, start).at ELSE items.at]

read_entries(data) ==
  LET read[i \in 0..data[3]] ==
        IF i = 0 THEN [got |-> <<>>, at |-> 4]
        ELSE LET next == read_entry(data, read[i - 1].at)
             IN  [got |-> Append(read[i - 1].got, next.got), at |-> next.at]
  IN  read[data[3]]

\* load_rdb_bytes accepts the data: version, checksum, footer and length are right.
rdb_accepted(data) ==
  LET end == read_entries(data).at
  IN  /\ SubSeq(data, 1, 2) = <<"BYOR", 2>>
      /\ SubSeq(data, end, Len(data)) = <<Crc(SubSeq(data, 1, end - 1)), "EOF">>

\* The keyspace made of these rows at time t: expired keys are left out.
load_rows(rows, t) ==
  LET after[i \in 0..Len(rows)] ==
        IF i = 0 THEN EmptyStore
        ELSE IF is_expired(rows[i].entry, t) THEN after[i - 1]
        ELSE set_entry(after[i - 1], rows[i].key, rows[i].entry)
  IN  after[Len(rows)]

\* load_rdb_bytes at time t, and load_entries.
load_rdb(data, t) == load_rows(read_entries(data).got, t)

\* Bug: a list is written head first; TTLs are left out.
RewriteEntry_NotReversed(k, e, t) ==
  <<[name |-> CASE e.type = "STRING" -> "SET" [] e.type = "LIST" -> "LPUSH"
                [] e.type = "HASH" -> "HSET",
     key |-> k, value |-> e.value, ex |-> None]>>

\* The commands _build_rewrite_payload writes at time t for one entry.
RewriteEntry(k, e, t) ==
  LET body ==
        CASE e.type = "STRING" ->
               [name |-> "SET", key |-> k, value |-> e.value, ex |-> None]
          [] e.type = "LIST" ->
               [name |-> "LPUSH", key |-> k, value |-> Reverse(e.value)]
          [] e.type = "HASH" ->
               [name |-> "HSET", key |-> k, value |-> e.value]
      ttl == [name |-> "EXPIRE", key |-> k, ex |-> e.expire - t]
  IN  IF e.expire # None /\ e.expire - t > 0 THEN <<body, ttl>> ELSE <<body>>

build_rewrite_payload(s, t) ==
  FlattenSeq([i \in 1..Len(s.dict) |->
                RewriteEntry(s.dict[i], s.entry[s.dict[i]], t)])

=============================================================================
