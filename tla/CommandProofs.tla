--------------------------- MODULE CommandProofs ----------------------------
(***************************************************************************)
(* What the commands do to a store and to the log that records them, for   *)
(* every store, command, time and limit.                                   *)
(***************************************************************************)
EXTENDS StoreProofs

-----------------------------------------------------------------------------
(* The write commands                                                      *)

\* Reversing a list gives a list as long.
LEMMA ReversedList ==
  ASSUME NEW Blob, NEW v \in Lists(Blob)
  PROVE  Reverse(v) \in Lists(Blob) /\ Len(Reverse(v)) = Len(v)
<1>1. v \in Seq(Blob) /\ v # <<>>
  BY DEF Lists
<1>2. PICK n \in Nat : n = Len(v) /\ n > 0
  BY <1>1
<1>3. Reverse(v) = [i \in 1..n |-> v[(n - i) + 1]]
  BY <1>2 DEF Reverse
<1>4. \A i \in 1..n : v[(n - i) + 1] \in Blob
  BY <1>1, <1>2
<1>5. Reverse(v) \in Seq(Blob) /\ Len(Reverse(v)) = n
  BY <1>3, <1>4
<1>6. QED
  BY <1>2, <1>5 DEF Lists

\* When a key already exists in entry map f, its expiry time there.
ExpiryIn(f, k) == IF k \in DOMAIN f THEN f[k].expire ELSE None

\* What a write command does, told by the entries f alone: whether it is refused ...
ValueIn(f, k) == IF k \in DOMAIN f THEN f[k].value ELSE <<>>

TypeFor(c) == IF c.name = "HSET" THEN "HASH" ELSE "LIST"

Refused(f, c) ==
  /\ c.name \in {"LPUSH", "RPOP", "HSET"}
  /\ c.key \in DOMAIN f /\ f[c.key].type # TypeFor(c)

\* ... the value it leaves ...
NewValue(f, c) ==
  CASE c.name = "LPUSH" -> Reverse(c.value) \o ValueIn(f, c.key)
    [] c.name = "RPOP"  -> IF ValueIn(f, c.key) = <<>> THEN <<>>
                           ELSE Front(ValueIn(f, c.key))
    [] c.name = "HSET"  -> Updated(ValueIn(f, c.key), c.value)

\* ... and the entries it leaves.
Effect(f, c, t) ==
  LET k == c.key
  IN  CASE c.name = "SET" ->
             With(f, k, [type |-> "STRING", value |-> c.value,
                         expire |-> IF c.ex = None THEN None ELSE t + c.ex])
        [] c.name = "DEL" -> Less(f, {k})
        [] c.name = "EXPIRE" ->
             IF k \notin DOMAIN f THEN f
             ELSE IF c.ex <= 0 THEN Less(f, {k})
             ELSE With(f, k, [f[k] EXCEPT !.expire = t + c.ex])
        [] c.name \in {"LPUSH", "RPOP", "HSET"} ->
             IF NewValue(f, c) = <<>> THEN Less(f, {k})
             ELSE With(f, k, [type |-> TypeFor(c), value |-> NewValue(f, c),
                              expire |-> ExpiryIn(f, k)])

\* Dispatching c to s gave r: what Refused and Effect say.
Dispatched(s, c, t, r, Key, Blob) ==
  /\ IsStore(r.store, Key, Blob)
  /\ r.ok = ~Refused(s.entry, c)
  /\ r.store.entry = IF Refused(s.entry, c) THEN s.entry ELSE Effect(s.entry, c, t)

\* Every command does to the entries what Refused and Effect say, and leaves a
\* store.
LEMMA DispatchStore ==
  \A Key, Blob, s : IsStore(s, Key, Blob) =>
    \A t \in Nat : \A c : IsCommand(c, Key, Blob) =>
      Dispatched(s, c, t, dispatch(s, c, t), Key, Blob)
\* LPUSH, RPOP and HSET: a wrong type is refused; an empty value removes the key.
<1>UpdateStore.
    ASSUME NEW Key, NEW Blob, NEW s, IsStore(s, Key, Blob), NEW c, c.key \in Key,
           NEW type, NEW value,
           (c.key \in keys(s) => s.entry[c.key].type = type) /\ value # <<>> =>
             \A x \in Nat \cup {None} :
               IsEntry([type |-> type, value |-> value, expire |-> x], Blob)
    PROVE  LET r == update(s, c, type, value)
               f == s.entry
           IN  /\ IsStore(r.store, Key, Blob)
               /\ r.ok = ~(c.key \in DOMAIN f /\ f[c.key].type # type)
               /\ ~r.ok => r.store.entry = f
               /\ r.ok /\ value = <<>> => r.store.entry = Less(f, {c.key})
               /\ r.ok /\ value # <<>> =>
                    r.store.entry = With(f, c.key, [type |-> type, value |-> value,
                                                    expire |-> ExpiryIn(f, c.key)])
  <2> USE <1>UpdateStore
  <2> DEFINE r == update(s, c, type, value)
             k == c.key
             e == [type |-> type, value |-> value, expire |-> ExpiryIn(s.entry, k)]
  <2>1. keys(s) = DOMAIN s.entry
    BY DEF keys
  <2>2. CASE k \in keys(s) /\ s.entry[k].type # type
    <3>1. r = [ok |-> FALSE, store |-> touch_access(s, k)]
      BY <2>2 DEF update
    <3>2. r.ok = FALSE /\ r.store = touch_access(s, k)
      BY <3>1
    <3> HIDE DEF r
    <3>3. IsStore(r.store, Key, Blob) /\ r.store.entry = s.entry
      BY <2>2, <3>2, AccessStore
    <3>4. QED
      BY <2>1, <2>2, <3>2, <3>3, Zenon DEF r
  <2>3. CASE ~(k \in keys(s) /\ s.entry[k].type # type) /\ value = <<>>
    <3>1. r = [ok |-> TRUE, store |-> drop(s, {k})]
      BY <2>3 DEF update, Done
    <3>2. r.ok = TRUE /\ r.store = drop(s, {k})
      BY <3>1
    <3> HIDE DEF r
    <3>3. IsStore(r.store, Key, Blob) /\ r.store.entry = Less(s.entry, {k})
      BY <3>2, DropStore
    <3>4. QED
      BY <2>1, <2>3, <3>2, <3>3, Zenon DEF r
  <2>4. CASE ~(k \in keys(s) /\ s.entry[k].type # type) /\ value # <<>> /\ k \in keys(s)
    <3> DEFINE x == [touch_access(s, k) EXCEPT !.entry[k].value = value]
    <3>1. r = [ok |-> TRUE, store |-> x]
      BY <2>4 DEF update, Done
    <3>2. /\ s.entry[k].expire \in Nat \cup {None} /\ s.entry[k].type = type
          /\ s.entry[k] = [type |-> s.entry[k].type, value |-> s.entry[k].value,
                           expire |-> s.entry[k].expire]
      BY <2>4 DEF IsStore, IsEntry
    <3>3. IsEntry(e, Blob)
      BY <2>1, <2>4, <3>2 DEF ExpiryIn
    <3>4. touch_access(s, k).entry = s.entry
      BY <2>4, AccessStore
    <3>5. [s.entry[k] EXCEPT !.value = value] = e
      BY <2>1, <2>4, <3>2 DEF ExpiryIn
    <3>6. x = Entered(touch_access(s, k), k, e)
      BY <3>4, <3>5 DEF Entered
    <3> HIDE DEF x, e
    <3>7. IsStore(x, Key, Blob) /\ x.entry = With(s.entry, k, e)
      <4>1. k \in keys(touch_access(s, k)) /\ IsStore(touch_access(s, k), Key, Blob)
        BY <2>4, <3>4, AccessStore DEF keys
      <4> DEFINE a == touch_access(s, k)
      <4> HIDE DEF a, k
      <4>2. IsStore(Entered(a, k, e), Key, Blob) /\ Entered(a, k, e).entry = With(a.entry, k, e)
        BY <3>3, <4>1, EnteredStore DEF a
      <4>3. QED
        BY <3>4, <3>6, <4>2 DEF a
    <3>8. r.ok = TRUE /\ r.store = x
      BY <3>1
    <3> HIDE DEF r
    <3>9. QED
      BY <2>1, <2>4, <3>7, <3>8, Zenon DEF r, e
  <2>5. CASE value # <<>> /\ k \notin keys(s)
    <3>1. r = [ok |-> TRUE, store |-> set_entry(s, k, e)]
      BY <2>1, <2>5 DEF update, Done, ExpiryIn
    <3>2. IsEntry(e, Blob)
      BY <2>1, <2>5 DEF ExpiryIn
    <3> HIDE DEF e
    <3>3. /\ IsStore(set_entry(s, k, e), Key, Blob)
          /\ set_entry(s, k, e).entry = With(s.entry, k, e)
      BY <3>2, SetStore
    <3>4. r.ok = TRUE /\ r.store = set_entry(s, k, e)
      BY <3>1
    <3> HIDE DEF r
    <3>5. QED
      BY <2>1, <2>5, <3>3, <3>4, Zenon DEF r, e
  <2>6. QED
    BY <2>2, <2>3, <2>4, <2>5
<1>SetCommand.
    ASSUME NEW Key, NEW Blob, NEW s, IsStore(s, Key, Blob), NEW t \in Nat,
           NEW c, IsCommand(c, Key, Blob), c.name = "SET"
    PROVE  Dispatched(s, c, t, dispatch(s, c, t), Key, Blob)
  <2> USE <1>SetCommand
  <2> DEFINE x == IF c.ex = None THEN None ELSE t + c.ex
             e == [type |-> "STRING", value |-> c.value, expire |-> x]
             r == dispatch(s, c, t)
  <2>1. c.key \in Key /\ c.value \in Seq(Blob) /\ x \in Nat \cup {None}
    BY DEF IsCommand, None
  <2>2. IsEntry(e, Blob)
    BY <2>1 DEF IsEntry
  <2>3. r = [ok |-> TRUE, store |-> set_entry(s, c.key, e)]
    BY DEF dispatch, cmd_set, Done
  <2>4. ~Refused(s.entry, c) /\ Effect(s.entry, c, t) = With(s.entry, c.key, e)
    BY DEF Refused, Effect
  <2> HIDE DEF e
  <2>5. r.ok = TRUE /\ r.store = set_entry(s, c.key, e)
    BY <2>3
  <2> HIDE DEF r
  <2>6. IsStore(r.store, Key, Blob) /\ r.store.entry = With(s.entry, c.key, e)
    BY <2>1, <2>2, <2>5, SetStore
  <2>7. QED
    BY <2>4, <2>5, <2>6, Zenon DEF Dispatched, r
<1>DelCommand.
    ASSUME NEW Key, NEW Blob, NEW s, IsStore(s, Key, Blob), NEW t \in Nat,
           NEW c, c.name = "DEL"
    PROVE  Dispatched(s, c, t, dispatch(s, c, t), Key, Blob)
  <2> USE <1>DelCommand
  <2> DEFINE r == dispatch(s, c, t)
  <2>1. r = [ok |-> TRUE, store |-> drop(s, {c.key})]
    BY DEF dispatch, cmd_del, Done
  <2>2. ~Refused(s.entry, c) /\ Effect(s.entry, c, t) = Less(s.entry, {c.key})
    BY DEF Refused, Effect
  <2>3. r.ok = TRUE /\ r.store = drop(s, {c.key})
    BY <2>1
  <2> HIDE DEF r
  <2>4. IsStore(r.store, Key, Blob) /\ r.store.entry = Less(s.entry, {c.key})
    BY <2>3, DropStore
  <2>5. QED
    BY <2>2, <2>3, <2>4, Zenon DEF Dispatched, r
<1>ExpireCommand.
    ASSUME NEW Key, NEW Blob, NEW s, IsStore(s, Key, Blob), NEW t \in Nat,
           NEW c, IsCommand(c, Key, Blob), c.name = "EXPIRE"
    PROVE  Dispatched(s, c, t, dispatch(s, c, t), Key, Blob)
  <2> USE <1>ExpireCommand
  <2> DEFINE r == dispatch(s, c, t)
             k == c.key
  <2>1. c.ex \in Int /\ keys(s) = DOMAIN s.entry /\ ~Refused(s.entry, c)
    BY DEF IsCommand, keys, Refused
  <2>2. CASE k \notin keys(s)
    <3>1. r = [ok |-> TRUE, store |-> s]
      BY <2>2 DEF dispatch, cmd_expire, Done
    <3>2. Effect(s.entry, c, t) = s.entry
      BY <2>1, <2>2 DEF Effect
    <3>3. r.ok = TRUE /\ r.store = s
      BY <3>1
    <3> HIDE DEF r
    <3>4. QED
      BY <2>1, <3>2, <3>3, Zenon DEF Dispatched, r
  <2>3. CASE k \in keys(s) /\ c.ex <= 0
    <3>1. r = [ok |-> TRUE, store |-> drop(s, {k})]
      BY <2>3, Zenon DEF dispatch, cmd_expire, Done
    <3>2. Effect(s.entry, c, t) = Less(s.entry, {k})
      BY <2>1, <2>3 DEF Effect
    <3>3. r.ok = TRUE /\ r.store = drop(s, {k})
      BY <3>1
    <3> HIDE DEF r
    <3>4. IsStore(r.store, Key, Blob) /\ r.store.entry = Less(s.entry, {k})
      BY <3>3, DropStore
    <3>5. QED
      BY <2>1, <3>2, <3>3, <3>4, Zenon DEF Dispatched, r
  <2>4. CASE k \in keys(s) /\ ~(c.ex <= 0)
    <3> DEFINE a == touch_access(s, k)
               e == [s.entry[k] EXCEPT !.expire = t + c.ex]
               x == [a EXCEPT !.entry[k].expire = t + c.ex]
    <3>1. r = [ok |-> TRUE, store |-> x]
      BY <2>4, Zenon DEF dispatch, cmd_expire, Done
    <3>2. Effect(s.entry, c, t) = With(s.entry, k, e)
      BY <2>1, <2>4 DEF Effect
    <3>3. r.ok = TRUE /\ r.store = x
      BY <3>1
    <3>4. IsStore(a, Key, Blob) /\ a.entry = s.entry
      BY <2>4, AccessStore
    <3>5. IsEntry(e, Blob)
      <4>1. IsEntry(s.entry[k], Blob) /\ t + c.ex \in Nat
        BY <2>1, <2>4 DEF IsStore
      <4>2. e = [type |-> s.entry[k].type, value |-> s.entry[k].value, expire |-> t + c.ex]
        BY <4>1 DEF IsEntry
      <4> HIDE DEF e
      <4>3. QED
        BY <4>1, <4>2 DEF IsEntry
    <3>6. x = Entered(a, k, e)
      BY <3>4 DEF Entered
    <3>7. k \in keys(a)
      BY <2>4, <3>4 DEF keys
    <3> HIDE DEF x, a, e, k, r
    <3>8. IsStore(x, Key, Blob) /\ x.entry = With(s.entry, k, e)
      BY <3>4, <3>5, <3>6, <3>7, EnteredStore
    <3>9. QED
      BY <2>1, <3>2, <3>3, <3>8, Zenon DEF Dispatched, r
  <2>5. QED
    BY <2>2, <2>3, <2>4
\* A command that updates the value of its key, once the value is known to be one.
<1>UpdateCommand.
    ASSUME NEW Key, NEW Blob, NEW s, IsStore(s, Key, Blob), NEW t \in Nat,
           NEW c, c.key \in Key, c.name \in {"LPUSH", "RPOP", "HSET"},
           dispatch(s, c, t) = update(s, c, TypeFor(c), NewValue(s.entry, c)),
           ~Refused(s.entry, c) /\ NewValue(s.entry, c) # <<>> =>
             IF c.name = "HSET" THEN NewValue(s.entry, c) \in Hashes(Blob)
                                ELSE NewValue(s.entry, c) \in Lists(Blob)
    PROVE  Dispatched(s, c, t, dispatch(s, c, t), Key, Blob)
  <2> USE <1>UpdateCommand
  <2> DEFINE f == s.entry
             v == NewValue(f, c)
             r == update(s, c, TypeFor(c), v)
  <2>1. keys(s) = DOMAIN f
    BY DEF keys
  <2>2. (c.key \in keys(s) => f[c.key].type = TypeFor(c)) <=> ~Refused(f, c)
    BY <2>1 DEF Refused
  <2>3. ASSUME ~Refused(f, c), v # <<>>, NEW x \in Nat \cup {None}
        PROVE  IsEntry([type |-> TypeFor(c), value |-> v, expire |-> x], Blob)
    <3> HIDE DEF v
    <3>1. CASE c.name = "HSET"
      BY <2>3, <3>1 DEF IsEntry, TypeFor, v
    <3>2. CASE c.name # "HSET"
      BY <2>3, <3>2 DEF IsEntry, TypeFor, v
    <3>3. QED
      BY <3>1, <3>2
  <2> HIDE DEF v
  <2>4. (c.key \in keys(s) => s.entry[c.key].type = TypeFor(c)) /\ v # <<>> =>
          \A x \in Nat \cup {None} :
            IsEntry([type |-> TypeFor(c), value |-> v, expire |-> x], Blob)
    BY <2>2, <2>3, Zenon
  <2>5. /\ IsStore(r.store, Key, Blob)
        /\ r.ok = ~(c.key \in DOMAIN f /\ f[c.key].type # TypeFor(c))
        /\ ~r.ok => r.store.entry = f
        /\ r.ok /\ v = <<>> => r.store.entry = Less(f, {c.key})
        /\ r.ok /\ v # <<>> =>
             r.store.entry = With(f, c.key, [type |-> TypeFor(c), value |-> v,
                                             expire |-> ExpiryIn(f, c.key)])
    BY <2>4, <1>UpdateStore, Zenon
  <2>6. r.ok = ~Refused(f, c)
    BY <2>5, Zenon DEF Refused
  <2>7. Effect(f, c, t) = IF v = <<>> THEN Less(f, {c.key})
                          ELSE With(f, c.key, [type |-> TypeFor(c), value |-> v,
                                               expire |-> ExpiryIn(f, c.key)])
    BY DEF Effect, v
  <2> HIDE DEF r
  <2>8. r.store.entry = IF Refused(f, c) THEN f ELSE Effect(f, c, t)
    <3>1. CASE Refused(f, c)
      BY <2>5, <2>6, <3>1, Zenon
    <3>2. CASE ~Refused(f, c) /\ v = <<>>
      BY <2>5, <2>6, <2>7, <3>2, Zenon
    <3>3. CASE ~Refused(f, c) /\ v # <<>>
      BY <2>5, <2>6, <2>7, <3>3, Zenon
    <3>4. QED
      BY <3>1, <3>2, <3>3
  <2>9. QED
    BY <2>5, <2>6, <2>8, Zenon DEF Dispatched, r, v
<1>LpushCommand.
    ASSUME NEW Key, NEW Blob, NEW s, IsStore(s, Key, Blob), NEW t \in Nat,
           NEW c, IsCommand(c, Key, Blob), c.name = "LPUSH"
    PROVE  Dispatched(s, c, t, dispatch(s, c, t), Key, Blob)
  <2> USE <1>LpushCommand
  <2> DEFINE old == ValueIn(s.entry, c.key)
             new == Reverse(c.value) \o old
  <2>1. c.key \in Key /\ c.value \in Lists(Blob)
    BY DEF IsCommand
  <2>2. NewValue(s.entry, c) = new /\ TypeFor(c) = "LIST"
    BY DEF NewValue, TypeFor
  <2>3. dispatch(s, c, t) = update(s, c, "LIST", new)
    BY DEF dispatch, cmd_lpush, value_of, ValueIn, keys
  <2>4. ASSUME ~Refused(s.entry, c) PROVE new \in Lists(Blob)
    <3>1. old \in Seq(Blob)
      <4>1. CASE c.key \in DOMAIN s.entry
        <5>1. s.entry[c.key].type = "LIST" /\ IsEntry(s.entry[c.key], Blob)
          BY <2>4, <4>1 DEF Refused, TypeFor, IsStore, keys
        <5>2. QED
          BY <4>1, <5>1, TypedValue DEF ValueIn, Lists
      <4>2. CASE c.key \notin DOMAIN s.entry
        BY <4>2 DEF ValueIn
      <4>3. QED
        BY <4>1, <4>2
    <3> HIDE DEF old
    <3>2. PICK p \in Lists(Blob) : p = Reverse(c.value)
      BY <2>1, ReversedList
    <3>3. QED
      BY <3>1, <3>2 DEF Lists
  <2> HIDE DEF new
  <2>5. QED
    BY <2>1, <2>2, <2>3, <2>4, <1>UpdateCommand
<1>RpopCommand.
    ASSUME NEW Key, NEW Blob, NEW s, IsStore(s, Key, Blob), NEW t \in Nat,
           NEW c, c.key \in Key, c.name = "RPOP"
    PROVE  Dispatched(s, c, t, dispatch(s, c, t), Key, Blob)
  <2> USE <1>RpopCommand
  <2> DEFINE old == ValueIn(s.entry, c.key)
             new == IF old = <<>> THEN <<>> ELSE Front(old)
  <2>1. NewValue(s.entry, c) = new /\ TypeFor(c) = "LIST"
    BY DEF NewValue, TypeFor
  <2>2. dispatch(s, c, t) = update(s, c, "LIST", new)
    BY DEF dispatch, cmd_rpop, value_of, ValueIn, keys
  <2>3. ASSUME ~Refused(s.entry, c), new # <<>> PROVE new \in Lists(Blob)
    <3>1. old \in Seq(Blob)
      <4>1. CASE c.key \in DOMAIN s.entry
        <5>1. s.entry[c.key].type = "LIST" /\ IsEntry(s.entry[c.key], Blob)
          BY <2>3, <4>1 DEF Refused, TypeFor, IsStore, keys
        <5>2. QED
          BY <4>1, <5>1, TypedValue DEF ValueIn, Lists
      <4>2. CASE c.key \notin DOMAIN s.entry
        BY <4>2 DEF ValueIn
      <4>3. QED
        BY <4>1, <4>2
    <3> HIDE DEF old
    <3>2. QED
      BY <2>3, <3>1 DEF Lists, Front
  <2> HIDE DEF new
  <2>4. QED
    BY <2>1, <2>2, <2>3, <1>UpdateCommand
<1>HsetCommand.
    ASSUME NEW Key, NEW Blob, NEW s, IsStore(s, Key, Blob), NEW t \in Nat,
           NEW c, IsCommand(c, Key, Blob), c.name = "HSET"
    PROVE  Dispatched(s, c, t, dispatch(s, c, t), Key, Blob)
  <2> USE <1>HsetCommand
  <2> DEFINE old == ValueIn(s.entry, c.key)
             new == Updated(old, c.value)
  <2>1. c.key \in Key /\ c.value \in Hashes(Blob)
    BY DEF IsCommand
  <2>2. NewValue(s.entry, c) = new /\ TypeFor(c) = "HASH"
    BY DEF NewValue, TypeFor
  <2>3. dispatch(s, c, t) = update(s, c, "HASH", new)
    BY DEF dispatch, cmd_hset, value_of, ValueIn, keys
  <2>4. ASSUME ~Refused(s.entry, c) PROVE new \in Hashes(Blob)
    <3>1. old \in Hashes(Blob) \/ old = <<>>
      <4>1. CASE c.key \in DOMAIN s.entry
        <5>1. s.entry[c.key].type = "HASH" /\ IsEntry(s.entry[c.key], Blob)
          BY <2>4, <4>1 DEF Refused, TypeFor, IsStore, keys
        <5>2. QED
          BY <4>1, <5>1, TypedValue DEF ValueIn
      <4>2. CASE c.key \notin DOMAIN s.entry
        BY <4>2 DEF ValueIn
      <4>3. QED
        BY <4>1, <4>2
    <3> HIDE DEF old
    <3>2. PICK F \in SUBSET Blob : F # {} /\ IsFiniteSet(F) /\ c.value \in [F -> Blob]
      BY <2>1 DEF Hashes
    <3>3. PICK G \in SUBSET Blob : IsFiniteSet(G) /\ DOMAIN old = G /\ \A x \in G : old[x] \in Blob
      <4>1. CASE old \in Hashes(Blob)
        BY <4>1 DEF Hashes
      <4>2. CASE old = <<>>
        BY <4>2, FS_EmptySet
      <4>3. QED
        BY <3>1, <4>1, <4>2
    <3>4. new \in [F \cup G -> Blob]
      BY <3>2, <3>3 DEF Updated
    <3>5. F \cup G \in SUBSET Blob /\ F \cup G # {} /\ IsFiniteSet(F \cup G)
      BY <3>2, <3>3, FS_Union, Zenon
    <3> HIDE DEF new
    <3>6. QED
      BY <3>4, <3>5 DEF Hashes
  <2> HIDE DEF new
  <2>5. QED
    BY <2>1, <2>2, <2>3, <2>4, <1>UpdateCommand
<1>1.
    ASSUME NEW Key, NEW Blob, NEW s, IsStore(s, Key, Blob), NEW t \in Nat,
           NEW c, IsCommand(c, Key, Blob)
    PROVE  Dispatched(s, c, t, dispatch(s, c, t), Key, Blob)
  <2> USE <1>1
  <2>1. c.key \in Key /\ c.name \in {"SET", "DEL", "RPOP", "EXPIRE", "LPUSH", "HSET"}
    BY DEF IsCommand
  <2>2. QED
    BY <2>1, <1>SetCommand, <1>DelCommand, <1>ExpireCommand, <1>LpushCommand, <1>RpopCommand, <1>HsetCommand
<1>2. QED
  BY <1>1, Zenon

-----------------------------------------------------------------------------
(* The memory limit                                                        *)

\* A value has finitely many elements or fields.
LEMMA ValueFinite ==
  ASSUME NEW Blob, NEW e, IsEntry(e, Blob)
  PROVE  IsFiniteSet(DOMAIN e.value)
<1>1. CASE e.value \in Seq(Blob)
  <2>1. PICK n \in Nat : DOMAIN e.value = 1..n
    BY <1>1
  <2>2. IsFiniteSet(1..n)
    BY FS_Interval
  <2>3. QED
    BY <2>1, <2>2
<1>2. CASE e.value \in Hashes(Blob)
  BY <1>2 DEF Hashes
<1>3. QED
  BY <1>1, <1>2 DEF IsEntry, Lists

\* What a store costs is a number.
LEMMA UsageFinite ==
  ASSUME NEW Key, NEW Blob, NEW s, IsStore(s, Key, Blob)
  PROVE  /\ IsFiniteSet(keys(s)) /\ IsFiniteSet(Units(s))
         /\ Cardinality(keys(s)) \in Nat /\ Cardinality(Units(s)) \in Nat
<1> DEFINE Cost(k) == {k} \X DOMAIN s.entry[k].value
           C == {Cost(k) : k \in keys(s)}
           f == [k \in keys(s) |-> Cost(k)]
<1>1. IsFiniteSet(keys(s))
  BY OrderFinite DEF IsStore
<1>2. ASSUME NEW k \in keys(s) PROVE IsFiniteSet(Cost(k))
  <2>1. IsFiniteSet(DOMAIN s.entry[k].value)
    BY ValueFinite DEF IsStore
  <2>2. IsFiniteSet({k})
    BY FS_Singleton, Zenon
  <2>3. QED
    BY <2>1, <2>2, FS_Product
<1>3. IsFiniteSet(C)
  <2> HIDE DEF Cost
  <2>1. f \in Surjection(keys(s), C)
    BY DEF Surjection
  <2> HIDE DEF f, C
  <2>2. QED
    BY <1>1, <2>1, FS_Surjection
<1>4. \A X \in C : IsFiniteSet(X)
  <2> HIDE DEF Cost
  <2>1. QED
    BY <1>2
<1>5. Units(s) = UNION C
  BY DEF Units
<1> HIDE DEF C
<1>6. IsFiniteSet(Units(s))
  BY <1>3, <1>4, <1>5, FS_UNION
<1>7. QED
  BY <1>1, <1>6, FS_CardinalityType

\* Fewer entries, or entries of the same size, cost no more.
LEMMA CheaperFits ==
  ASSUME NEW Key, NEW Blob, NEW s, IsStore(s, Key, Blob), NEW m, m.maxmemory \in Nat,
         Fits(s, m), NEW x, keys(x) \subseteq keys(s),
         \A k \in keys(x) : DOMAIN x.entry[k].value = DOMAIN s.entry[k].value
  PROVE  Fits(x, m)
<1>1. keys(x) \in SUBSET keys(s)
  OBVIOUS
<1>2. Units(x) \in SUBSET Units(s)
  BY DEF Units
<1>3. /\ IsFiniteSet(keys(s)) /\ IsFiniteSet(Units(s))
      /\ Cardinality(keys(s)) \in Nat /\ Cardinality(Units(s)) \in Nat
  BY UsageFinite
<1>4. Cardinality(keys(x)) <= Cardinality(keys(s)) /\ Cardinality(keys(x)) \in Nat
  BY <1>1, <1>3, FS_Subset, FS_CardinalityType
<1>5. Cardinality(Units(x)) <= Cardinality(Units(s)) /\ Cardinality(Units(x)) \in Nat
  BY <1>2, <1>3, FS_Subset, FS_CardinalityType
<1>6. memory_usage(x) <= memory_usage(s) /\ memory_usage(x) \in Nat /\ memory_usage(s) \in Nat
  BY <1>3, <1>4, <1>5 DEF memory_usage
<1>7. QED
  BY <1>6 DEF Fits

\* A store that fits still fits when it loses keys.
LEMMA LessFits ==
  ASSUME NEW Key, NEW Blob, NEW s, IsStore(s, Key, Blob), NEW m, m.maxmemory \in Nat,
         Fits(s, m), NEW x, NEW K, x.entry = Less(s.entry, K)
  PROVE  Fits(x, m)
<1>1. keys(x) \subseteq keys(s) /\ \A k \in keys(x) : x.entry[k] = s.entry[k]
  BY DEF keys, Less
<1>2. QED
  BY <1>1, CheaperFits

\* Only the entries are counted.
LEMMA SameFits ==
  ASSUME NEW s, NEW x, x.entry = s.entry, NEW m
  PROVE  Fits(x, m) = Fits(s, m)
<1>1. keys(x) = keys(s) /\ Units(x) = Units(s)
  BY DEF keys, Units
<1>2. memory_usage(x) = memory_usage(s)
  BY <1>1 DEF memory_usage
<1>3. QED
  BY <1>2 DEF Fits

\* A store without keys fits.
LEMMA EmptyFits ==
  ASSUME NEW s, keys(s) = {}, NEW m, m.maxmemory \in Nat
  PROVE  Fits(s, m)
<1>1. Units(s) = {}
  BY DEF Units
<1>2. memory_usage(s) = 0
  BY <1>1, FS_EmptySet DEF memory_usage
<1>3. QED
  BY <1>2 DEF Fits

\* R orders S: two members are in R one way or the other, and R is transitive.
Orders(R, S) ==
  /\ \A x, y \in S : x # y => <<x, y>> \in R \/ <<y, x>> \in R
  /\ \A x, y, z \in S : <<x, y>> \in R /\ <<y, z>> \in R => <<x, z>> \in R

\* A finite set that an order relates has a last element.
LEMMA LastElement ==
  ASSUME NEW S, IsFiniteSet(S), S # {}, NEW R, Orders(R, S)
  PROVE  \E l \in S : \A y \in S \ {l} : <<y, l>> \in R
<1> DEFINE Last1(X) == \E l \in X : \A y \in X \ {l} : <<y, l>> \in R
           T == {n \in Nat : \A X \in SUBSET S : Cardinality(X) = n + 1 => Last1(X)}
<1>1. \A X \in SUBSET S : IsFiniteSet(X) /\ Cardinality(X) \in Nat
  BY FS_Subset, FS_CardinalityType
<1>2. 0 \in T
  <2>1. ASSUME NEW X \in SUBSET S, Cardinality(X) = 0 + 1 PROVE Last1(X)
    <3>1. Cardinality(X) = 1 /\ IsFiniteSet(X)
      BY <1>1, <2>1
    <3>2. PICK x : X = {x}
      BY <3>1, FS_Singleton, Zenon
    <3>3. QED
      BY <3>2
  <2>2. QED
    BY <2>1
<1>3. ASSUME NEW n \in T PROVE n + 1 \in T
  <2>1. ASSUME NEW X \in SUBSET S, Cardinality(X) = (n + 1) + 1 PROVE Last1(X)
    <3>1. X # {}
      BY <2>1, FS_EmptySet
    <3>2. PICK x \in X : TRUE
      BY <3>1
    <3>3. Cardinality(X \ {x}) = Cardinality(X) - 1
      BY <1>1, FS_RemoveElement
    <3>4. Cardinality(X \ {x}) = n + 1
      BY <2>1, <3>3
    <3>5. PICK l \in X \ {x} : \A y \in (X \ {x}) \ {l} : <<y, l>> \in R
      BY <1>3, <3>4
    <3>6. CASE <<x, l>> \in R
      <4>1. \A y \in X \ {l} : <<y, l>> \in R
        BY <3>5, <3>6
      <4>2. QED
        BY <4>1
    <3>7. CASE <<l, x>> \in R
      <4>1. ASSUME NEW y \in X \ {x} PROVE <<y, x>> \in R
        BY <3>5, <3>7, Zenon DEF Orders
      <4>2. QED
        BY <4>1
    <3>8. QED
      BY <3>6, <3>7 DEF Orders
  <2>2. QED
    BY <2>1
<1>4. PICK n \in Nat : Cardinality(S) = n + 1
  <2>1. Cardinality(S) \in Nat /\ Cardinality(S) # 0
    BY FS_CardinalityType, FS_EmptySet
  <2>2. Cardinality(S) - 1 \in Nat /\ (Cardinality(S) - 1) + 1 = Cardinality(S)
    BY <2>1
  <2>3. QED
    BY <2>2
<1>5. n \in T
  <2> HIDE DEF T
  <2>1. \A i \in 0..n : i \in T
    BY <1>2, <1>3, Counting, Zenon
  <2>2. QED
    BY <2>1
<1>6. QED
  BY <1>4, <1>5

\* A finite set that is ordered can be listed in this order.
LEMMA Listed ==
  ASSUME NEW S, IsFiniteSet(S), NEW R, Orders(R, S)
  PROVE  \E o \in SetToSeqs(S) : \A i, j \in DOMAIN o : i < j => <<o[i], o[j]>> \in R
<1> DEFINE Sorted(o) == \A i, j \in DOMAIN o : i < j => <<o[i], o[j]>> \in R
           Ordering(X) == \E o \in SetToSeqs(X) : Sorted(o)
           T == {n \in Nat : \A X \in SUBSET S : Cardinality(X) = n => Ordering(X)}
<1>1. \A X \in SUBSET S : IsFiniteSet(X) /\ Cardinality(X) \in Nat
  BY FS_Subset, FS_CardinalityType
<1>2. 0 \in T
  <2>1. ASSUME NEW X \in SUBSET S, Cardinality(X) = 0 PROVE Ordering(X)
    <3>1. <<>> \in SetToSeqs(X)
      BY <2>1 DEF SetToSeqs
    <3>2. QED
      BY <3>1
  <2>2. QED
    BY <2>1
<1>3. ASSUME NEW n \in T PROVE n + 1 \in T
  <2>1. ASSUME NEW X \in SUBSET S, Cardinality(X) = n + 1 PROVE Ordering(X)
    <3>1. X # {} /\ IsFiniteSet(X) /\ Orders(R, X)
      BY <1>1, <2>1, FS_EmptySet DEF Orders
    <3>2. PICK l \in X : \A y \in X \ {l} : <<y, l>> \in R
      BY <3>1, LastElement
    <3>3. Cardinality(X \ {l}) = n
      <4>1. Cardinality(X \ {l}) = Cardinality(X) - 1
        BY <1>1, FS_RemoveElement
      <4>2. QED
        BY <2>1, <4>1
    <3>4. PICK o \in SetToSeqs(X \ {l}) : Sorted(o)
      BY <1>3, <3>3
    <3>5. /\ o \in [1..n -> X \ {l}]
          /\ \A i, j \in 1..n : i # j => o[i] # o[j]
          /\ \A i, j \in 1..n : i < j => <<o[i], o[j]>> \in R
      BY <3>3, <3>4, Zenon DEF SetToSeqs
    <3> DEFINE p == [i \in 1..n + 1 |-> IF i = n + 1 THEN l ELSE o[i]]
    <3>6. p \in [1..n + 1 -> X] /\ \A i, j \in 1..n + 1 : i # j => p[i] # p[j]
      BY <3>5
    <3>7. p \in SetToSeqs(X)
      BY <2>1, <3>6, Zenon DEF SetToSeqs
    <3>8. Sorted(p)
      BY <3>2, <3>5
    <3>9. QED
      BY <3>7, <3>8
  <2>2. QED
    BY <2>1
<1>4. Cardinality(S) \in T
  <2>1. PICK n \in Nat : n = Cardinality(S)
    BY FS_CardinalityType
  <2> HIDE DEF T
  <2>2. \A i \in 0..n : i \in T
    BY <1>2, <1>3, Counting, Zenon
  <2>3. QED
    BY <2>1, <2>2
<1>5. QED
  BY <1>4

\* What a policy may evict are keys of the store.
LEMMA CandidatesSeq ==
  ASSUME NEW Key, NEW Blob, NEW s, IsStore(s, Key, Blob),
         NEW policy \in {"noeviction", "allkeys-lru", "volatile-ttl"}
  PROVE  candidates(s, policy) \in Seq(keys(s))
<1>1. CASE policy = "noeviction"
  BY <1>1 DEF candidates
<1>2. CASE policy = "allkeys-lru"
  BY <1>2 DEF candidates, IsStore, IsOrder
<1>3. CASE policy = "volatile-ttl"
  <2> DEFINE Place(k) == CHOOSE i \in DOMAIN s.dict : s.dict[i] = k
             Sooner(k, l) ==
               \/ s.entry[k].expire < s.entry[l].expire
               \/ s.entry[k].expire = s.entry[l].expire /\ Place(k) < Place(l)
             V == {k \in keys(s) : s.entry[k].expire # None}
             R == {p \in V \X V : Sooner(p[1], p[2])}
             Sorted(o) == \A i, j \in DOMAIN o : i < j => Sooner(o[i], o[j])
  <2>1. candidates(s, policy) = CHOOSE o \in SetToSeqs(V) : Sorted(o)
    BY <1>3, Zenon DEF candidates
  <2>2. \A k \in V : Place(k) \in Nat /\ s.dict[Place(k)] = k
    <3>1. s.dict \in Seq(keys(s)) /\ ToSet(s.dict) = keys(s)
      BY DEF IsStore, IsOrder
    <3>2. PICK n \in Nat : DOMAIN s.dict = 1..n
      BY <3>1
    <3>3. ASSUME NEW k \in V PROVE Place(k) \in DOMAIN s.dict /\ s.dict[Place(k)] = k
      <4>1. \E i \in DOMAIN s.dict : s.dict[i] = k
        BY <3>1 DEF ToSet
      <4>2. QED
        BY <4>1
    <3> HIDE DEF Place
    <3>4. QED
      BY <3>2, <3>3
  <2>3. ASSUME NEW k \in V PROVE s.entry[k].expire \in Int
    <3>1. IsEntry(s.entry[k], Blob)
      BY DEF IsStore
    <3>2. QED
      BY <3>1 DEF IsEntry, None
  <2>4. Orders(R, V)
    <3> HIDE DEF Place
    <3>1. ASSUME NEW x \in V, NEW y \in V, x # y PROVE Sooner(x, y) \/ Sooner(y, x)
      <4>1. Place(x) # Place(y)
        BY <2>2, <3>1
      <4>2. QED
        BY <2>2, <2>3, <4>1
    <3>2. ASSUME NEW x \in V, NEW y \in V, NEW z \in V, Sooner(x, y), Sooner(y, z)
          PROVE  Sooner(x, z)
      BY <2>2, <2>3, <3>2
    <3> HIDE DEF Sooner, V
    <3>3. \A x, y \in V : <<x, y>> \in R <=> Sooner(x, y)
      OBVIOUS
    <3> HIDE DEF R
    <3>4. QED
      BY <3>1, <3>2, <3>3 DEF Orders
  <2>5. IsFiniteSet(V)
    <3>1. IsFiniteSet(keys(s)) /\ V \in SUBSET keys(s)
      BY UsageFinite
    <3>2. QED
      BY <3>1, FS_Subset
  <2>6. PICK o \in SetToSeqs(V) : \A i, j \in DOMAIN o : i < j => <<o[i], o[j]>> \in R
    <3> HIDE DEF R, V
    <3>1. QED
      BY <2>4, <2>5, Listed
  <2>7. Sorted(o)
    <3> HIDE DEF Sooner, V
    <3>1. QED
      BY <2>6, Zenon
  <2>8. candidates(s, policy) \in SetToSeqs(V)
    <3> HIDE DEF Sorted, V
    <3>1. QED
      BY <2>1, <2>6, <2>7
  <2>9. Cardinality(V) \in Nat
    BY <2>5, FS_CardinalityType
  <2>10. PICK n \in Nat : candidates(s, policy) \in [1..n -> V]
    <3> HIDE DEF V
    <3>1. QED
      BY <2>8, <2>9 DEF SetToSeqs
  <2>11. QED
    BY <2>10
<1>4. QED
  BY <1>1, <1>2, <1>3

-----------------------------------------------------------------------------
(* Executing a write                                                       *)

IsLimit(m) ==
  m.maxmemory \in Nat /\ m.policy \in {"noeviction", "allkeys-lru", "volatile-ttl"}

DelsOf(evicted) == [i \in 1..Len(evicted) |-> DelOf(evicted[i])]

\* purge_expired drops the expired keys, and leaves a store.
LEMMA PurgeStore ==
  ASSUME NEW Key, NEW Blob, NEW s, IsStore(s, Key, Blob), NEW t
  PROVE  /\ IsStore(purge_expired(s, t), Key, Blob)
         /\ purge_expired(s, t).entry = Less(s.entry, expired(s, t))
BY DropStore, SMTT(20) DEF purge_expired

\* A write that was refused, or found no room, left the entries alone.
Rejected(s, c, t, x) ==
  x.effects = <<>> /\ x.store.entry = purge_expired(s, t).entry

\* A write that was done, and the keys that were evicted for it: what is left fits,
\* and the effects say how it came about.
Accepted(s, c, t, m, x, evicted) ==
  LET f == purge_expired(s, t).entry
  IN  /\ ~Refused(f, c)
      /\ x.store.entry = Less(Effect(f, c, t), ToSet(evicted))
      /\ x.effects = <<c>> \o DelsOf(evicted)
      /\ Fits(x.store, m)

\* A write leaves a store.  Either it is rejected or it is accepted, with the keys
\* that it evicted (none where the policy is noeviction); where its effect fits and
\* its type is right it is accepted and evicts nothing.
LEMMA ExecuteStore ==
  ASSUME NEW Key, NEW Blob, NEW s, IsStore(s, Key, Blob), NEW t \in Nat,
         NEW c, IsCommand(c, Key, Blob), NEW m, IsLimit(m)
  PROVE  LET x == execute(s, c, t, m)
             f == purge_expired(s, t).entry
         IN  /\ IsStore(x.store, Key, Blob)
             /\ \/ Rejected(s, c, t, x)
                \/ \E evicted \in Seq(Key) :
                     /\ Accepted(s, c, t, m, x, evicted)
                     /\ m.policy = "noeviction" => evicted = <<>>
             /\ ~Refused(f, c) /\ (\E y : y.entry = Effect(f, c, t) /\ Fits(y, m))
                  => Accepted(s, c, t, m, x, <<>>)
<1> DEFINE b == purge_expired(s, t)
           f == b.entry
           r == dispatch(b, c, t)
           cand == candidates(r.store, m.policy)
           enough == Enough(r.store, m)
           n == Min(enough)
           evicted == SubSeq(cand, 1, n)
           x == execute(s, c, t, m)
<1>1. IsStore(b, Key, Blob)
  BY PurgeStore
<1>2. Dispatched(b, c, t, r, Key, Blob)
  <2> HIDE DEF b
  <2>1. QED
    BY <1>1, DispatchStore
<1>3. x = IF ~r.ok THEN [store |-> r.store, effects |-> <<>>]
          ELSE IF enough = {} THEN [store |-> load_entries(b), effects |-> <<>>]
          ELSE [store |-> drop(r.store, ToSet(evicted)), effects |-> <<c>> \o DelsOf(evicted)]
  BY Zenon DEF execute, DelsOf
<1> HIDE DEF b, r, x
<1>4. IsStore(r.store, Key, Blob)
  BY <1>2 DEF Dispatched
<1>5. cand \in Seq(keys(r.store))
  BY <1>4, CandidatesSeq DEF IsLimit
<1>6. PICK l \in Nat : l = Len(cand)
  BY <1>5
<1>7. enough = {i \in 0..l : Fits(drop(r.store, ToSet(SubSeq(cand, 1, i))), m)}
  BY <1>6 DEF Enough
<1> HIDE DEF cand
<1>8. CASE Refused(f, c)
  <2>1. ~r.ok
    BY <1>2, <1>8, Zenon DEF Dispatched
  <2>2. x = [store |-> r.store, effects |-> <<>>]
    BY <1>3, <2>1, Zenon
  <2>3. x.store = r.store /\ x.effects = <<>>
    BY <2>2
  <2>4. r.store.entry = f
    BY <1>2, <1>8, Zenon DEF Dispatched
  <2>5. Rejected(s, c, t, x)
    BY <2>3, <2>4, Zenon DEF Rejected, b
  <2>6. QED
    BY <1>4, <1>8, <2>3, <2>5, Zenon DEF x, b
<1>9. CASE ~Refused(f, c) /\ enough = {}
  <2>1. r.ok /\ r.store.entry = Effect(f, c, t)
    BY <1>2, <1>9, Zenon DEF Dispatched
  <2>2. x = [store |-> load_entries(b), effects |-> <<>>]
    BY <1>3, <1>9, <2>1, Zenon
  <2>3. x.store = load_entries(b) /\ x.effects = <<>>
    BY <2>2
  <2>4. IsStore(x.store, Key, Blob) /\ Rejected(s, c, t, x)
    BY <1>1, <2>3, LoadedStore DEF Rejected, b
  <2>5. ASSUME NEW y, y.entry = Effect(f, c, t), Fits(y, m) PROVE FALSE
    <3>1. 0 \in 0..l /\ SubSeq(cand, 1, 0) = <<>> /\ ToSet(<<>>) = {}
      BY <1>5 DEF ToSet
    <3>2. drop(r.store, {}).entry = Less(r.store.entry, {})
      BY <1>4, DropStore
    <3>3. Less(r.store.entry, {}) = y.entry
      BY <1>4, <2>1, <2>5 DEF Less, IsStore, keys
    <3>4. Fits(drop(r.store, {}), m)
      BY <2>5, <3>2, <3>3, SameFits, Zenon
    <3>5. QED
      BY <1>7, <1>9, <3>1, <3>4, Zenon
  <2>6. QED
    BY <2>4, <2>5, Zenon DEF x, b
<1>10. CASE ~Refused(f, c) /\ enough # {}
  <2>1. r.ok /\ r.store.entry = Effect(f, c, t)
    BY <1>2, <1>10, Zenon DEF Dispatched
  <2>2. x = [store |-> drop(r.store, ToSet(evicted)), effects |-> <<c>> \o DelsOf(evicted)]
    BY <1>3, <1>10, <2>1, Zenon
  <2>3. x.store = drop(r.store, ToSet(evicted)) /\ x.effects = <<c>> \o DelsOf(evicted)
    BY <2>2
  <2>4. n \in enough /\ \A i \in enough : n <= i
    <3>1. enough \in SUBSET Nat
      BY <1>7
    <3> HIDE DEF enough
    <3>2. QED
      BY <1>10, <3>1, LeastElement
  <2>5. n \in 0..l /\ Fits(drop(r.store, ToSet(evicted)), m)
    BY <1>7, <2>4
  <2>6. evicted \in Seq(Key)
    <3>1. keys(r.store) \subseteq Key
      BY <1>4 DEF IsStore
    <3>2. cand \in Seq(Key)
      BY <1>5, <3>1
    <3> HIDE DEF n
    <3>3. QED
      BY <1>6, <2>5, <3>2
  <2>7. /\ IsStore(x.store, Key, Blob)
        /\ x.store.entry = Less(Effect(f, c, t), ToSet(evicted))
    BY <1>4, <2>1, <2>3, DropStore
  <2>8. Accepted(s, c, t, m, x, evicted)
    BY <1>10, <2>3, <2>5, <2>7, Zenon DEF Accepted, b
  <2>9. ASSUME NEW y, y.entry = Effect(f, c, t), Fits(y, m) PROVE evicted = <<>>
    <3>1. 0 \in 0..l /\ SubSeq(cand, 1, 0) = <<>> /\ ToSet(<<>>) = {}
      BY <1>5 DEF ToSet
    <3>2. drop(r.store, {}).entry = Less(r.store.entry, {})
      BY <1>4, DropStore
    <3>3. Less(r.store.entry, {}) = y.entry
      BY <1>4, <2>1, <2>9 DEF Less, IsStore, keys
    <3>4. Fits(drop(r.store, {}), m)
      BY <2>9, <3>2, <3>3, SameFits, Zenon
    <3>5. 0 \in enough
      BY <1>7, <3>1, <3>4, Zenon
    <3>6. n = 0
      <4> HIDE DEF n
      <4>1. QED
        BY <2>4, <2>5, <3>5
    <3>7. QED
      BY <3>1, <3>6
  <2>10. (\E y : y.entry = Effect(f, c, t) /\ Fits(y, m)) => Accepted(s, c, t, m, x, <<>>)
    <3> HIDE DEF evicted
    <3>1. QED
      BY <2>8, <2>9, Zenon
  <2>11. m.policy = "noeviction" => evicted = <<>>
    <3>1. ASSUME m.policy = "noeviction" PROVE cand = <<>>
      BY <3>1 DEF cand, candidates
    <3> HIDE DEF n
    <3>2. QED
      BY <1>6, <2>5, <3>1
  <2> HIDE DEF evicted
  <2>12. QED
    BY <2>6, <2>7, <2>8, <2>10, <2>11, Zenon DEF x, b
<1>11. QED
  BY <1>8, <1>9, <1>10

-----------------------------------------------------------------------------
(* Replaying a log                                                         *)

\* after has the stores in which the replay of the log has executed i commands.
ReplayedBy(after, log, n, t, m) ==
  after = [i \in 0..n |-> IF i = 0 THEN EmptyStore
                          ELSE execute(after[i - 1], log[i], t, m).store]

\* What replay computes, command by command.
LEMMA ReplaySteps ==
  ASSUME NEW log, NEW n \in Nat, n = Len(log), NEW t, NEW m
  PROVE  \E after : ReplayedBy(after, log, n, t, m) /\ replay(log, t, m) = after[n]
<1> DEFINE Step(x, i) == execute(x, log[i], t, m).store
           Good(g, k) == g = [i \in 0..k |-> IF i = 0 THEN EmptyStore ELSE Step(g[i - 1], i)]
           T == {k \in Nat : \E g : Good(g, k)}
<1>1. 0 \in T
  <2>1. Good([i \in 0..0 |-> EmptyStore], 0)
    OBVIOUS
  <2>2. QED
    BY <2>1, Zenon
<1>2. ASSUME NEW k \in T PROVE k + 1 \in T
  <2>1. PICK g : Good(g, k)
    OBVIOUS
  <2> DEFINE h == [i \in 0..k + 1 |-> IF i = k + 1 THEN Step(g[k], i) ELSE g[i]]
  <2> HIDE DEF Step
  <2>2. \A i \in 0..k : h[i] = g[i]
    OBVIOUS
  <2>3. ASSUME NEW i \in 0..k + 1
        PROVE  h[i] = IF i = 0 THEN EmptyStore ELSE Step(h[i - 1], i)
    <3>1. CASE i = k + 1
      BY <2>2, <3>1
    <3>2. CASE i \in 0..k
      BY <2>1, <2>2, <3>2
    <3>3. QED
      BY <3>1, <3>2
  <2>4. Good(h, k + 1)
    BY <2>3
  <2>5. QED
    <3> HIDE DEF Good, h
    <3>1. \E f : Good(f, k + 1)
      BY <2>4, Zenon
    <3>2. QED
      BY <3>1
<1>3. n \in T
  <2> HIDE DEF T
  <2>1. \A i \in 0..n : i \in T
    BY <1>1, <1>2, Counting, Zenon
  <2>2. QED
    BY <2>1
<1>4. \E g : Good(g, n)
  BY <1>3
<1> DEFINE after == CHOOSE g : Good(g, n)
<1>5. Good(after, n)
  BY <1>4, Zenon
<1>6. replay(log, t, m) = after[n]
  BY DEF replay
<1> HIDE DEF after
<1>7. QED
  BY <1>5, <1>6, Zenon DEF ReplayedBy

\* An empty log replays to the empty store.
LEMMA ReplayEmpty ==
  ASSUME NEW t, NEW m PROVE replay(<<>>, t, m) = EmptyStore
<1>1. PICK after : ReplayedBy(after, <<>>, 0, t, m) /\ replay(<<>>, t, m) = after[0]
  <2>1. 0 \in Nat /\ 0 = Len(<<>>)
    OBVIOUS
  <2>2. QED
    BY <2>1, ReplaySteps, SMTT(20)
<1>2. QED
  BY <1>1 DEF ReplayedBy

\* A longer log is replayed by replaying the shorter one first.
LEMMA ReplayAppend ==
  ASSUME NEW S, NEW log \in Seq(S), NEW c, NEW t, NEW m
  PROVE  replay(Append(log, c), t, m) = execute(replay(log, t, m), c, t, m).store
<1>1. PICK n \in Nat : n = Len(log)
  OBVIOUS
<1> DEFINE long == Append(log, c)
<1>2. n + 1 \in Nat /\ n + 1 = Len(long) /\ long[n + 1] = c /\ \A i \in 1..n : long[i] = log[i]
  BY <1>1
<1>3. PICK f : ReplayedBy(f, log, n, t, m) /\ replay(log, t, m) = f[n]
  BY <1>1, ReplaySteps, SMTT(20)
<1> HIDE DEF long
<1>4. PICK g : ReplayedBy(g, long, n + 1, t, m) /\ replay(long, t, m) = g[n + 1]
  BY <1>2, ReplaySteps, SMTT(20)
<1> DEFINE T == {i \in 0..n : f[i] = g[i]}
<1>5. 0 \in T
  BY <1>3, <1>4 DEF ReplayedBy
<1>6. ASSUME NEW i \in 0..n - 1, i \in T PROVE i + 1 \in T
  <2>1. i + 1 \in 0..n /\ i + 1 \in 0..n + 1 /\ i + 1 # 0 /\ (i + 1) - 1 = i /\ i + 1 \in 1..n
    OBVIOUS
  <2>2. f[i + 1] = execute(f[i], log[i + 1], t, m).store
    BY <1>3, <2>1 DEF ReplayedBy
  <2>3. g[i + 1] = execute(g[i], long[i + 1], t, m).store
    BY <1>4, <2>1 DEF ReplayedBy
  <2>4. QED
    BY <1>2, <1>6, <2>1, <2>2, <2>3
<1>7. f[n] = g[n]
  <2>1. \A i \in 0..n : i \in T
    <3> HIDE DEF T
    <3>1. QED
      BY <1>5, <1>6, Counting, Zenon
  <2>2. QED
    BY <2>1
<1>8. g[n + 1] = execute(g[n], c, t, m).store
  BY <1>2, <1>4 DEF ReplayedBy
<1>9. QED
  BY <1>3, <1>4, <1>7, <1>8 DEF long

\* A write keeps the limit: it is done only if there is room.
LEMMA ExecuteFits ==
  ASSUME NEW Key, NEW Blob, NEW s, IsStore(s, Key, Blob), NEW t \in Nat,
         NEW c, IsCommand(c, Key, Blob), NEW m, IsLimit(m), Fits(purge_expired(s, t), m)
  PROVE  Fits(execute(s, c, t, m).store, m)
<1> DEFINE x == execute(s, c, t, m)
<1>1. \/ Rejected(s, c, t, x)
      \/ \E evicted \in Seq(Key) : Accepted(s, c, t, m, x, evicted)
  BY ExecuteStore
<1> HIDE DEF x
<1>2. CASE Rejected(s, c, t, x)
  BY <1>2, SameFits, Zenon DEF Rejected, x
<1>3. CASE \E evicted \in Seq(Key) : Accepted(s, c, t, m, x, evicted)
  BY <1>3, Zenon DEF Accepted, x
<1>4. QED
  BY <1>1, <1>2, <1>3, SMTT(20)

\* Expiry keeps the limit.
LEMMA PurgeFits ==
  ASSUME NEW Key, NEW Blob, NEW s, IsStore(s, Key, Blob), NEW t, NEW m,
         m.maxmemory \in Nat, Fits(s, m)
  PROVE  Fits(purge_expired(s, t), m)
BY PurgeStore, LessFits

\* A log is a sequence of commands.
IsLog(log, Key, Blob) ==
  log \in Seq(ToSet(log)) /\ \A i \in 1..Len(log) : IsCommand(log[i], Key, Blob)

AllCommands(C, Key, Blob) == \A c \in C : IsCommand(c, Key, Blob)

\* A sequence of commands is a log.
LEMMA LogOf ==
  ASSUME NEW Key, NEW Blob, NEW C, AllCommands(C, Key, Blob), NEW log \in Seq(C)
  PROVE  IsLog(log, Key, Blob)
<1>1. log \in Seq(ToSet(log))
  BY DEF ToSet
<1>2. \A i \in 1..Len(log) : log[i] \in C
  OBVIOUS
<1>3. QED
  BY <1>1, <1>2 DEF IsLog, AllCommands

\* A log is a sequence of its commands.
LEMMA LogIn ==
  ASSUME NEW Key, NEW Blob, NEW log, IsLog(log, Key, Blob), NEW C, ToSet(log) \subseteq C
  PROVE  log \in Seq(C) /\ AllCommands(ToSet(log), Key, Blob)
<1>1. log \in Seq(ToSet(log)) /\ \A i \in 1..Len(log) : IsCommand(log[i], Key, Blob)
  BY DEF IsLog
<1>2. PICK D : D = ToSet(log)
  OBVIOUS
<1>3. log \in Seq(C)
  BY <1>1, <1>2
<1>4. QED
  BY <1>1, <1>3 DEF AllCommands, ToSet

\* Whatever a log holds, replaying it leaves a store that fits.
LEMMA ReplayStore ==
  ASSUME NEW Key, NEW Blob, NEW log, IsLog(log, Key, Blob),
         NEW t \in Nat, NEW m, IsLimit(m)
  PROVE  IsStore(replay(log, t, m), Key, Blob) /\ Fits(replay(log, t, m), m)
<1> PICK S : log \in Seq(S) /\ \A i \in 1..Len(log) : IsCommand(log[i], Key, Blob)
  BY DEF IsLog
<1>1. PICK n \in Nat : n = Len(log)
  OBVIOUS
<1>2. PICK f : ReplayedBy(f, log, n, t, m) /\ replay(log, t, m) = f[n]
  BY <1>1, ReplaySteps, SMTT(20)
<1> DEFINE T == {i \in 0..n : IsStore(f[i], Key, Blob) /\ Fits(f[i], m)}
<1>3. 0 \in T
  <2>1. f[0] = EmptyStore
    BY <1>2 DEF ReplayedBy
  <2>2. IsStore(EmptyStore, Key, Blob) /\ Fits(EmptyStore, m)
    BY EmptyIsStore, EmptyFits, Zenon DEF IsLimit
  <2>3. QED
    BY <2>1, <2>2
<1>4. ASSUME NEW i \in 0..n - 1, i \in T PROVE i + 1 \in T
  <2>1. i + 1 \in 0..n /\ i + 1 # 0 /\ (i + 1) - 1 = i /\ i + 1 \in 1..n
    OBVIOUS
  <2>2. f[i + 1] = execute(f[i], log[i + 1], t, m).store
    BY <1>2, <2>1 DEF ReplayedBy
  <2>3. IsStore(f[i], Key, Blob) /\ Fits(f[i], m) /\ IsCommand(log[i + 1], Key, Blob)
    BY <1>1, <1>4, <2>1
  <2>4. Fits(purge_expired(f[i], t), m)
    BY <2>3, PurgeFits, SMTT(20) DEF IsLimit
  <2>5. IsStore(f[i + 1], Key, Blob)
    BY <2>2, <2>3, ExecuteStore
  <2>6. Fits(f[i + 1], m)
    BY <2>2, <2>3, <2>4, ExecuteFits
  <2>7. QED
    BY <2>1, <2>5, <2>6
<1>5. n \in T
  <2> HIDE DEF T
  <2>1. \A i \in 0..n : i \in T
    BY <1>3, <1>4, Counting, Zenon
  <2>2. QED
    BY <2>1
<1>6. QED
  BY <1>2, <1>5

-----------------------------------------------------------------------------
(* What is alive                                                           *)

\* What purge_expired leaves is what is alive.
LEMMA PurgeLive ==
  ASSUME NEW Key, NEW Blob, NEW s, IsStore(s, Key, Blob), NEW t
  PROVE  purge_expired(s, t).entry = Live(s.entry, t)
BY PurgeStore DEF Live, expired, keys

\* Losing keys twice is losing them all at once.
LEMMA LessLess ==
  ASSUME NEW f, NEW K, NEW L
  PROVE  Less(Less(f, K), L) = Less(f, K \cup L)
BY DEF Less

\* It does not matter whether keys expire before or after others are lost.
LEMMA LiveLess ==
  ASSUME NEW f, NEW K, NEW t
  PROVE  Live(Less(f, K), t) = Less(Live(f, t), K)
BY DEF Live, Less

\* What is alive stays so at that time.
LEMMA LiveLive ==
  ASSUME NEW f, NEW t
  PROVE  Live(Live(f, t), t) = Live(f, t)
BY DEF Live, Less

\* The store s lost the keys in K, and perhaps expired ones, and is now y.
Lost(s, K, t, m, y, Key, Blob) ==
  /\ IsStore(y, Key, Blob)
  /\ Fits(purge_expired(y, t), m)
  /\ Live(y.entry, t) = Less(Live(s.entry, t), K)

\* A DEL is never refused.
LEMMA DelStep ==
  ASSUME NEW Key, NEW Blob, NEW s, IsStore(s, Key, Blob), NEW k \in Key,
         NEW t \in Nat, NEW m, IsLimit(m), Fits(purge_expired(s, t), m),
         NEW y, y = execute(s, DelOf(k), t, m).store
  PROVE  Lost(s, {k}, t, m, y, Key, Blob)
<1> DEFINE c == DelOf(k)
           b == purge_expired(s, t)
           f == b.entry
           d == drop(b, {k})
           x == execute(s, c, t, m)
<1>1. IsCommand(c, Key, Blob) /\ c.name = "DEL" /\ c.key = k
  BY DEF IsCommand, DelOf
<1>2. IsStore(b, Key, Blob) /\ f = Live(s.entry, t)
  BY PurgeStore, PurgeLive
<1> HIDE DEF c
<1>3. ~Refused(f, c)
  BY <1>1 DEF Refused
<1>4. Effect(f, c, t) = Less(f, {k})
  BY <1>1 DEF Effect
<1> HIDE DEF b
<1>5. d.entry = Less(f, {k})
  BY <1>2, DropStore
<1>6. Fits(d, m)
  <2> HIDE DEF d
  <2>1. QED
    BY <1>2, <1>5, LessFits, SMTT(20) DEF IsLimit, b
<1> HIDE DEF d
<1>7. IsStore(x.store, Key, Blob) /\ Accepted(s, c, t, m, x, <<>>)
  BY <1>1, <1>3, <1>4, <1>5, <1>6, ExecuteStore DEF b
<1> HIDE DEF x
<1>8. Fits(x.store, m) /\ x.store.entry = Less(Less(f, {k}), {})
  <2>1. ToSet(<<>>) = {}
    BY DEF ToSet
  <2>2. QED
    BY <1>4, <1>7, <2>1, Zenon DEF Accepted, b
<1>9. Live(x.store.entry, t) = Less(f, {k})
  BY <1>2, <1>8, LessLess, LiveLess, LiveLive
<1>10. Fits(purge_expired(x.store, t), m)
  BY <1>7, <1>8, PurgeFits DEF IsLimit
<1>11. QED
  BY <1>2, <1>7, <1>9, <1>10, Zenon DEF x, c, Lost

\* A store with limit m2 takes whatever one with limit m takes.
Room(m, m2) ==
  \/ m2.maxmemory = 0
  \/ m.policy = "noeviction" /\ m.maxmemory > 0 /\ m2.maxmemory >= m.maxmemory

\* x came of executing c in s, and z of executing it elsewhere.
Followed(s, c, x, z, t, m2, Key) ==
  \/ x.effects = <<>> /\ Live(x.store.entry, t) = Live(s.entry, t)
  \/ \E evicted \in Seq(Key) :
       /\ x.effects = <<c>> \o DelsOf(evicted)
       /\ z.effects # <<>>
       /\ Fits(z.store, m2)
       /\ Live(x.store.entry, t) = Less(Live(z.store.entry, t), ToSet(evicted))

\* Two stores with the same live entries: when the first has done a write, the
\* second does it too, and has then only to lose what the first has evicted.
LEMMA FollowWrite ==
  ASSUME NEW Key, NEW Blob, NEW t \in Nat,
         NEW s, IsStore(s, Key, Blob), NEW r, IsStore(r, Key, Blob),
         Live(r.entry, t) = Live(s.entry, t),
         NEW c, IsCommand(c, Key, Blob),
         NEW m, IsLimit(m), NEW m2, IsLimit(m2), Room(m, m2),
         NEW x, x = execute(s, c, t, m)
  PROVE  Followed(s, c, x, execute(r, c, t, m2), t, m2, Key)
<1> DEFINE f == Live(s.entry, t)
           E == Effect(f, c, t)
           y == [entry |-> E]
           z == execute(r, c, t, m2)
<1>1. purge_expired(s, t).entry = f /\ purge_expired(r, t).entry = f
  BY PurgeLive
<1>2. \/ Rejected(s, c, t, x)
      \/ \E evicted \in Seq(Key) :
           /\ Accepted(s, c, t, m, x, evicted)
           /\ m.policy = "noeviction" => evicted = <<>>
  BY ExecuteStore
<1> HIDE DEF f
<1>3. CASE Rejected(s, c, t, x)
  <2>1. x.effects = <<>> /\ x.store.entry = f
    BY <1>1, <1>3, Zenon DEF Rejected
  <2>2. QED
    BY <2>1, LiveLive DEF f, Followed
<1>4. ASSUME NEW evicted \in Seq(Key), Accepted(s, c, t, m, x, evicted),
             m.policy = "noeviction" => evicted = <<>>
      PROVE  /\ x.effects = <<c>> \o DelsOf(evicted)
             /\ z.effects # <<>>
             /\ Fits(z.store, m2)
             /\ Live(x.store.entry, t) = Less(Live(z.store.entry, t), ToSet(evicted))
  <2>1. ~Refused(f, c) /\ x.effects = <<c>> \o DelsOf(evicted) /\ Fits(x.store, m)
    BY <1>1, <1>4, Zenon DEF Accepted
  <2>2. x.store.entry = Less(E, ToSet(evicted))
    BY <1>1, <1>4, Zenon DEF Accepted
  <2>3. ToSet(<<>>) = {}
    BY DEF ToSet
  <2> HIDE DEF E
  <2>4. y.entry = E
    OBVIOUS
  <2>5. Fits(y, m2)
    <3>1. CASE m2.maxmemory = 0
      BY <3>1 DEF Fits
    <3>2. CASE m.policy = "noeviction" /\ m.maxmemory > 0 /\ m2.maxmemory >= m.maxmemory
      <4>1. x.store.entry = Less(E, {})
        BY <1>4, <2>2, <2>3, <3>2, Zenon
      <4>2. keys(y) = keys(x.store) /\ Units(y) = Units(x.store)
        BY <4>1 DEF keys, Units, Less
      <4>3. memory_usage(y) = memory_usage(x.store)
        BY <4>2, Zenon DEF memory_usage
      <4>4. memory_usage(x.store) <= m.maxmemory
        BY <2>1, <3>2 DEF Fits, IsLimit
      <4>5. memory_usage(x.store) \in Nat
        <5>1. IsStore(x.store, Key, Blob)
          BY ExecuteStore
        <5>2. QED
          BY <5>1, UsageFinite, SMTT(20) DEF memory_usage
      <4>6. QED
        BY <3>2, <4>3, <4>4, <4>5 DEF Fits, IsLimit
    <3>3. QED
      BY <3>1, <3>2 DEF Room
  <2> HIDE DEF y
  <2>6. Accepted(r, c, t, m2, z, <<>>)
    BY <1>1, <2>1, <2>4, <2>5, ExecuteStore, Zenon DEF E
  <2> HIDE DEF z
  <2>7. /\ z.store.entry = Less(E, {})
        /\ z.effects = <<c>> \o DelsOf(<<>>)
        /\ Fits(z.store, m2)
    BY <1>1, <2>3, <2>6, Zenon DEF Accepted, E
  <2>8. DelsOf(<<>>) = <<>>
    BY DEF DelsOf
  <2>9. z.effects # <<>>
    BY <2>7, <2>8
  <2>10. Live(z.store.entry, t) = Less(Live(E, t), {})
    BY <2>7, LiveLess
  <2>11. Less(Live(z.store.entry, t), ToSet(evicted)) = Less(Live(E, t), {} \cup ToSet(evicted))
    BY <2>10, LessLess
  <2>12. {} \cup ToSet(evicted) = ToSet(evicted)
    OBVIOUS
  <2>13. Live(x.store.entry, t) = Less(Live(E, t), ToSet(evicted))
    BY <2>2, LiveLess
  <2>14. QED
    BY <2>1, <2>7, <2>9, <2>11, <2>12, <2>13, Zenon DEF z
<1> HIDE DEF z
<1>5. QED
  BY <1>2, <1>3, <1>4, Zenon DEF z, Followed

\* The DELs of the evicted keys, executed one after the other.
DeletedBy(g, evicted, n, t, m) ==
  \A i \in 0..n - 1 : g[i + 1] = execute(g[i], DelOf(evicted[i + 1]), t, m).store

\* The DELs of the evicted keys take those keys, and no others, from what is alive.
LEMMA DelsRun ==
  ASSUME NEW Key, NEW Blob, NEW t \in Nat, NEW m, IsLimit(m),
         NEW evicted \in Seq(Key), NEW n \in Nat, n = Len(evicted), NEW g,
         IsStore(g[0], Key, Blob), Fits(purge_expired(g[0], t), m),
         DeletedBy(g, evicted, n, t, m)
  PROVE  Lost(g[0], ToSet(evicted), t, m, g[n], Key, Blob)
<1> DEFINE Gone(i) == {evicted[j] : j \in 1..i}
           Good(i) == Lost(g[0], Gone(i), t, m, g[i], Key, Blob)
           T == {i \in 0..n : Good(i)}
<1>1. 0 \in T
  <2>1. Gone(0) = {}
    OBVIOUS
  <2>2. Less(Live(g[0].entry, t), {}) = Live(g[0].entry, t)
    BY LessLess DEF Live
  <2>3. Good(0)
    BY <2>1, <2>2, Zenon DEF Lost
  <2>4. QED
    BY <2>3
<1>2. ASSUME NEW i \in 0..n - 1, i \in T PROVE i + 1 \in T
  <2>1. Good(i)
    BY <1>2
  <2>2. i + 1 \in 0..n /\ i + 1 \in 1..n /\ evicted[i + 1] \in Key
    OBVIOUS
  <2>3. Gone(i + 1) = Gone(i) \cup {evicted[i + 1]}
    <3>1. 1..i + 1 = 1..i \cup {i + 1}
      OBVIOUS
    <3>2. QED
      BY <3>1
  <2>4. g[i + 1] = execute(g[i], DelOf(evicted[i + 1]), t, m).store
    BY DEF DeletedBy
  <2> HIDE DEF Gone
  <2>5. Lost(g[i], {evicted[i + 1]}, t, m, g[i + 1], Key, Blob)
    <3> DEFINE u == g[i]
               v == g[i + 1]
               k == evicted[i + 1]
    <3>1. /\ IsStore(u, Key, Blob) /\ Fits(purge_expired(u, t), m) /\ k \in Key
          /\ v = execute(u, DelOf(k), t, m).store
      BY <2>1, <2>2, <2>4, Zenon DEF Lost
    <3> HIDE DEF u, v, k
    <3>2. Lost(u, {k}, t, m, v, Key, Blob)
      BY <3>1, DelStep, Zenon
    <3>3. QED
      BY <3>2, Zenon DEF u, v, k
  <2>6. Live(g[i + 1].entry, t) = Less(Live(g[0].entry, t), Gone(i + 1))
    BY <2>1, <2>3, <2>5, LessLess DEF Lost
  <2>7. Good(i + 1)
    BY <2>5, <2>6, Zenon DEF Lost
  <2> HIDE DEF Good
  <2>8. QED
    BY <2>2, <2>7
<1>3. \A i \in 0..n : i \in T
  <2> HIDE DEF T
  <2>1. QED
    BY <1>1, <1>2, Counting, Zenon
<1>4. Good(n)
  <2> HIDE DEF Good
  <2>1. QED
    BY <1>3
<1>5. Gone(n) = ToSet(evicted)
  BY DEF ToSet
<1>6. QED
  BY <1>4, <1>5, Zenon

\* Appending the evictions to a log.
LEMMA ReplayDels ==
  ASSUME NEW Key, NEW Blob, NEW log, IsLog(log, Key, Blob),
         NEW t \in Nat, NEW m, IsLimit(m), NEW evicted \in Seq(Key)
  PROVE  Lost(replay(log, t, m), ToSet(evicted), t, m,
              replay(log \o DelsOf(evicted), t, m), Key, Blob)
<1> PICK S : log \in Seq(S) /\ \A i \in 1..Len(log) : IsCommand(log[i], Key, Blob)
  BY DEF IsLog
<1>1. PICK n \in Nat : n = Len(evicted)
  OBVIOUS
<1> DEFINE D == DelsOf(evicted)
           C == S \cup {DelOf(k) : k \in Key}
           longer(i) == log \o SubSeq(D, 1, i)
           g == [i \in 0..n |-> replay(longer(i), t, m)]
<1>2. D \in Seq(C) /\ Len(D) = n /\ log \in Seq(C) /\ \A i \in 1..n : D[i] = DelOf(evicted[i])
  BY <1>1 DEF DelsOf
<1> HIDE DEF D, C
<1>3. longer(0) = log /\ longer(n) = log \o D
  <2>1. SubSeq(D, 1, 0) = <<>> /\ SubSeq(D, 1, n) = D /\ log \o <<>> = log
    BY <1>2
  <2>2. QED
    BY <2>1, Zenon
<1>4. ASSUME NEW i \in 0..n - 1
      PROVE  longer(i) \in Seq(C) /\ longer(i + 1) = Append(longer(i), DelOf(evicted[i + 1]))
  <2>1. i + 1 \in 1..n /\ D[i + 1] = DelOf(evicted[i + 1])
    BY <1>2
  <2>2. SubSeq(D, 1, i) \in Seq(C) /\ SubSeq(D, 1, i + 1) = Append(SubSeq(D, 1, i), D[i + 1])
    BY <1>2
  <2>3. QED
    BY <1>2, <2>1, <2>2
<1>5. DeletedBy(g, evicted, n, t, m)
  <2> HIDE DEF longer
  <2>1. SUFFICES ASSUME NEW i \in 0..n - 1
                 PROVE  g[i + 1] = execute(g[i], DelOf(evicted[i + 1]), t, m).store
    BY DEF DeletedBy
  <2>2. i \in 0..n /\ i + 1 \in 0..n
    OBVIOUS
  <2>3. g[i] = replay(longer(i), t, m) /\ g[i + 1] = replay(longer(i + 1), t, m)
    BY <2>2
  <2> HIDE DEF g
  <2>4. longer(i) \in Seq(C) /\ longer(i + 1) = Append(longer(i), DelOf(evicted[i + 1]))
    BY <1>4, Zenon
  <2>5. QED
    <3> DEFINE short == longer(i)
               d == DelOf(evicted[i + 1])
    <3>1. short \in Seq(C) /\ g[i] = replay(short, t, m) /\ g[i + 1] = replay(Append(short, d), t, m)
      BY <2>3, <2>4, Zenon
    <3> HIDE DEF short, d
    <3>2. g[i + 1] = execute(g[i], d, t, m).store
      BY <3>1, ReplayAppend
    <3>3. QED
      BY <3>2, Zenon DEF d
<1>6. g[0] = replay(log, t, m) /\ g[n] = replay(log \o D, t, m)
  <2>1. 0 \in 0..n /\ n \in 0..n
    OBVIOUS
  <2> HIDE DEF longer
  <2>2. QED
    BY <1>3, <2>1, Zenon
<1> HIDE DEF g
<1>7. IsStore(g[0], Key, Blob) /\ Fits(purge_expired(g[0], t), m)
  <2>1. IsStore(g[0], Key, Blob) /\ Fits(g[0], m)
    BY <1>6, ReplayStore
  <2>2. QED
    BY <2>1, PurgeFits DEF IsLimit
<1>8. Lost(g[0], ToSet(evicted), t, m, g[n], Key, Blob)
  BY <1>1, <1>5, <1>7, DelsRun, Zenon
<1>9. QED
  BY <1>6, <1>8 DEF D

\* Replaying the log l gives back what is alive in s.
Tells(l, s, t, m) == Live(replay(l, t, m).entry, t) = Live(s.entry, t)

\* A write and its effects: the log explains the store after it as it did before.
LEMMA EffectsTell ==
  ASSUME NEW Key, NEW Blob, NEW log, IsLog(log, Key, Blob), NEW t \in Nat,
         NEW s, IsStore(s, Key, Blob), NEW m, IsLimit(m), NEW m2, IsLimit(m2), Room(m, m2),
         Tells(log, s, t, m2), NEW c, IsCommand(c, Key, Blob), NEW x, x = execute(s, c, t, m)
  PROVE  Tells(log \o x.effects, x.store, t, m2)
<1> PICK S : log \in Seq(S) /\ \A i \in 1..Len(log) : IsCommand(log[i], Key, Blob)
  BY DEF IsLog
<1> DEFINE r == replay(log, t, m2)
           z == execute(r, c, t, m2)
           long == Append(log, c)
<1>1. IsStore(r, Key, Blob)
  BY ReplayStore
<1>2. CASE x.effects = <<>> /\ Live(x.store.entry, t) = Live(s.entry, t)
  <2>1. log \o <<>> = log
    OBVIOUS
  <2>2. QED
    BY <1>2, <2>1, Zenon DEF Tells
<1> HIDE DEF r
<1>3. ASSUME NEW evicted \in Seq(Key),
             x.effects = <<c>> \o DelsOf(evicted),
             Live(x.store.entry, t) = Less(Live(z.store.entry, t), ToSet(evicted))
      PROVE  Tells(log \o x.effects, x.store, t, m2)
  <2>1. z.store = replay(long, t, m2)
    BY ReplayAppend DEF r
  <2> DEFINE D == DelsOf(evicted)
  <2>2. D \in Seq({DelOf(k) : k \in Key})
    BY DEF DelsOf
  <2>3. long \in Seq(S \cup {c}) /\ \A i \in 1..Len(long) : IsCommand(long[i], Key, Blob)
    OBVIOUS
  <2>4. x.effects \in Seq({c} \cup {DelOf(k) : k \in Key})
    <3> HIDE DEF D
    <3>1. QED
      BY <1>3, <2>2 DEF D
  <2>5. log \o x.effects = long \o D
    <3> DEFINE C == S \cup {c} \cup {DelOf(k) : k \in Key}
    <3>1. log \in Seq(C) /\ <<c>> \in Seq(C) /\ D \in Seq(C)
      BY <2>2
    <3>2. long = log \o <<c>>
      OBVIOUS
    <3> HIDE DEF C, D
    <3>3. log \o (<<c>> \o D) = (log \o <<c>>) \o D
      BY <3>1, ConcatAssociative, SMTT(20)
    <3>4. QED
      BY <1>3, <3>2, <3>3, SMTT(20) DEF D
  <2> HIDE DEF z, long, D
  <2>6. Live(replay(long \o D, t, m2).entry, t) = Less(Live(replay(long, t, m2).entry, t), ToSet(evicted))
    <3>1. IsLog(long, Key, Blob)
      BY <2>3 DEF IsLog, ToSet
    <3>2. Lost(replay(long, t, m2), ToSet(evicted), t, m2, replay(long \o D, t, m2), Key, Blob)
      BY <3>1, ReplayDels DEF D
    <3>3. QED
      BY <3>2, Zenon DEF Lost
  <2>7. QED
    BY <1>3, <2>1, <2>5, <2>6, Zenon DEF Tells
<1>4. \/ x.effects = <<>> /\ Live(x.store.entry, t) = Live(s.entry, t)
      \/ \E evicted \in Seq(Key) :
           /\ x.effects = <<c>> \o DelsOf(evicted)
           /\ Live(x.store.entry, t) = Less(Live(z.store.entry, t), ToSet(evicted))
  <2>1. Live(r.entry, t) = Live(s.entry, t)
    BY DEF r, Tells
  <2>2. Followed(s, c, x, z, t, m2, Key)
    BY <1>1, <2>1, FollowWrite
  <2> HIDE DEF z
  <2>3. QED
    BY <2>2, Zenon DEF Followed
<1>5. QED
  BY <1>2, <1>3, <1>4, Zenon

-----------------------------------------------------------------------------
(* The payload of a rewrite                                                *)

Plain(e) == [type |-> e.type, value |-> e.value, expire |-> None]

\* The command that makes an entry, but for its expiry ...
BodyOf(k, e) ==
  CASE e.type = "STRING" -> [name |-> "SET", key |-> k, value |-> e.value, ex |-> None]
    [] e.type = "LIST" -> [name |-> "LPUSH", key |-> k, value |-> Reverse(e.value)]
    [] e.type = "HASH" -> [name |-> "HSET", key |-> k, value |-> e.value]

\* ... and the one that makes it expire.
TtlOf(k, e, t) == [name |-> "EXPIRE", key |-> k, ex |-> e.expire - t]

\* The command c is for the expiry of e, of which q has the rest.
ForTtl(c, e, k, t, f, q, Blob) ==
  /\ IsEntry(e, Blob) /\ t \in Nat
  /\ e.expire # None /\ e.expire - t > 0 /\ c = TtlOf(k, e, t)
  /\ q.entry = With(f, k, Plain(e))

\* The key of e is not there.
ForBody(e, k, t, f, Blob) == IsEntry(e, Blob) /\ t \in Nat /\ k \notin DOMAIN f

\* The command c can be done on r and leads to the entries of y.
Leads(r, c, t, m, y, Key, Blob) ==
  /\ IsStore(r, Key, Blob) /\ t \in Nat /\ IsLimit(m) /\ IsCommand(c, Key, Blob)
  /\ Live(r.entry, t) = r.entry /\ ~Refused(r.entry, c)
  /\ y.entry = Effect(r.entry, c, t) /\ Less(y.entry, {}) = y.entry /\ Fits(y, m)

\* What a rewrite writes, entry by entry.
WrittenBy(flat, C, s, n, t, Key, Blob) ==
  /\ \A c \in C : IsCommand(c, Key, Blob)
  /\ \A i \in 0..n : flat[i] \in Seq(C)
  /\ flat[0] = <<>>
  /\ \A i \in 1..n : flat[i] = flat[i - 1] \o RewriteEntry(s.dict[i], s.entry[s.dict[i]], t)
  /\ build_rewrite_payload(s, t) = flat[n]

\* What a rewrite writes is a log, and gives back the entries of a store that fits
\* and has no expired key.
LEMMA RewritePayload ==
  \A Key, Blob, s : IsStore(s, Key, Blob) =>
    \A t \in Nat :
      /\ IsLog(build_rewrite_payload(s, t), Key, Blob)
      /\ \A m : IsLimit(m) /\ Fits(s, m) /\ expired(s, t) = {}
                => replay(build_rewrite_payload(s, t), t, m).entry = s.entry
<1>BodyCommand.
    ASSUME NEW Key, NEW Blob, NEW k \in Key, NEW e, IsEntry(e, Blob)
    PROVE  IsCommand(BodyOf(k, e), Key, Blob)
  <2> USE <1>BodyCommand
  <2>1. CASE e.type = "STRING"
    BY <2>1, TypedValue DEF IsCommand, BodyOf
  <2>2. CASE e.type = "LIST"
    <3>1. e.value \in Lists(Blob)
      BY <2>2, TypedValue
    <3>2. Reverse(e.value) \in Lists(Blob)
      BY <3>1, ReversedList
    <3>3. QED
      BY <2>2, <3>2 DEF IsCommand, BodyOf
  <2>3. CASE e.type = "HASH"
    BY <2>3, TypedValue DEF IsCommand, BodyOf
  <2>4. QED
    BY <2>1, <2>2, <2>3 DEF IsEntry
<1>TtlCommand.
    ASSUME NEW Key, NEW Blob, NEW k \in Key, NEW e, IsEntry(e, Blob), NEW t \in Nat
    PROVE  IsCommand(TtlOf(k, e, t), Key, Blob)
  BY <1>TtlCommand DEF IsCommand, TtlOf, IsEntry, None
<1>ReverseTwice.
    ASSUME NEW Blob, NEW v \in Lists(Blob)
    PROVE  Reverse(Reverse(v)) = v
  <2> USE <1>ReverseTwice
  <2>1. v \in Seq(Blob)
    BY DEF Lists
  <2>2. PICK n \in Nat : n = Len(v)
    BY <2>1
  <2> DEFINE w == Reverse(v)
  <2>3. w = [i \in 1..n |-> v[(n - i) + 1]] /\ Len(w) = n
    BY <2>2, ReversedList DEF Reverse
  <2>4. Reverse(w) = [i \in 1..n |-> w[(n - i) + 1]]
    <3> HIDE DEF w
    <3>1. QED
      BY <2>3 DEF Reverse
  <2> HIDE DEF w
  <2>5. \A i \in 1..n : w[(n - i) + 1] = v[i]
    <3>1. TAKE i \in 1..n
    <3>2. (n - i) + 1 \in 1..n /\ (n - ((n - i) + 1)) + 1 = i
      OBVIOUS
    <3>3. QED
      BY <2>3, <3>2
  <2>6. v = [i \in 1..n |-> v[i]]
    BY <2>1, <2>2
  <2>7. QED
    BY <2>4, <2>5, <2>6 DEF w
\* On a key that is not there the body makes the entry.
<1>BodyEffect.
    ASSUME NEW Blob, NEW f, NEW k, NEW e, NEW t, ForBody(e, k, t, f, Blob)
    PROVE  /\ ~Refused(f, BodyOf(k, e))
           /\ Effect(f, BodyOf(k, e), t) = With(f, k, Plain(e))
  <2> k \notin DOMAIN f /\ IsEntry(e, Blob)
    BY <1>BodyEffect, Zenon DEF ForBody
  <2> DEFINE c == BodyOf(k, e)
  <2>1. c.key = k
    BY DEF BodyOf, IsEntry
  <2>2. ValueIn(f, k) = <<>> /\ ExpiryIn(f, k) = None
    BY DEF ValueIn, ExpiryIn
  <2>3. CASE e.type = "STRING"
    <3>1. c = [name |-> "SET", key |-> k, value |-> e.value, ex |-> None]
      BY <2>3 DEF BodyOf
    <3>2. Plain(e) = [type |-> "STRING", value |-> e.value, expire |-> None]
      BY <2>3 DEF Plain
    <3> HIDE DEF c
    <3>3. c.name = "SET" /\ c.value = e.value /\ c.ex = None
      BY <3>1
    <3>4. QED
      BY <2>1, <3>2, <3>3 DEF Effect, Refused, c
  <2>4. CASE e.type = "LIST"
    <3>1. c = [name |-> "LPUSH", key |-> k, value |-> Reverse(e.value)]
      BY <2>4 DEF BodyOf
    <3>2. Plain(e) = [type |-> "LIST", value |-> e.value, expire |-> None]
      BY <2>4 DEF Plain
    <3> HIDE DEF c
    <3>3. c.name = "LPUSH" /\ c.value = Reverse(e.value)
      BY <3>1
    <3>4. e.value \in Lists(Blob)
      BY <2>4, TypedValue
    <3>5. e.value \in Seq(Blob) /\ e.value # <<>>
      BY <3>4 DEF Lists
    <3>6. Reverse(c.value) = e.value
      BY <3>3, <3>4, <1>ReverseTwice
    <3>7. NewValue(f, c) = e.value
      <4>1. NewValue(f, c) = Reverse(c.value) \o ValueIn(f, c.key)
        BY <3>3 DEF NewValue
      <4>2. e.value \o <<>> = e.value
        BY <3>5
      <4>3. QED
        BY <2>1, <2>2, <3>6, <4>1, <4>2, Zenon
    <3>8. TypeFor(c) = "LIST"
      BY <3>3 DEF TypeFor
    <3>9. Effect(f, c, t) = With(f, k, [type |-> TypeFor(c), value |-> NewValue(f, c),
                                       expire |-> ExpiryIn(f, k)])
      BY <2>1, <3>3, <3>5, <3>7 DEF Effect
    <3>10. ~Refused(f, c)
      BY <2>1 DEF Refused
    <3>11. QED
      BY <2>2, <3>2, <3>7, <3>8, <3>9, <3>10, Zenon DEF c
  <2>5. CASE e.type = "HASH"
    <3>1. c = [name |-> "HSET", key |-> k, value |-> e.value]
      BY <2>5 DEF BodyOf
    <3>2. Plain(e) = [type |-> "HASH", value |-> e.value, expire |-> None]
      BY <2>5 DEF Plain
    <3> HIDE DEF c
    <3>3. c.name = "HSET" /\ c.value = e.value
      BY <3>1
    <3>4. e.value \in Hashes(Blob)
      BY <2>5, TypedValue
    <3>5. e.value = [x \in DOMAIN e.value |-> e.value[x]] /\ DOMAIN e.value # {}
      BY <3>4 DEF Hashes
    <3>6. e.value # <<>>
      BY <3>5
    <3>7. NewValue(f, c) = e.value
      <4>1. NewValue(f, c) = Updated(ValueIn(f, c.key), c.value)
        BY <3>3 DEF NewValue
      <4>2. Updated(<<>>, e.value) = e.value
        BY <3>5 DEF Updated
      <4>3. QED
        BY <2>1, <2>2, <3>3, <4>1, <4>2, Zenon
    <3>8. TypeFor(c) = "HASH"
      BY <3>3 DEF TypeFor
    <3>9. Effect(f, c, t) = With(f, k, [type |-> TypeFor(c), value |-> NewValue(f, c),
                                       expire |-> ExpiryIn(f, k)])
      BY <2>1, <3>3, <3>6, <3>7 DEF Effect
    <3>10. ~Refused(f, c)
      BY <2>1 DEF Refused
    <3>11. QED
      BY <2>2, <3>2, <3>7, <3>8, <3>9, <3>10, Zenon DEF c
  <2>6. QED
    BY <2>3, <2>4, <2>5 DEF IsEntry
\* With its expiry the entry is as it was.
<1>TtlEffect.
    ASSUME NEW Blob, NEW f, NEW k, NEW e, NEW t, NEW c, NEW q, ForTtl(c, e, k, t, f, q, Blob)
    PROVE  ~Refused(q.entry, c) /\ Effect(q.entry, c, t) = With(f, k, e)
  <2> PICK g : g = q.entry
    BY Zenon
  <2> /\ IsEntry(e, Blob) /\ t \in Nat /\ e.expire # None /\ e.expire - t > 0
      /\ c = TtlOf(k, e, t) /\ g = With(f, k, Plain(e))
    BY <1>TtlEffect, Zenon DEF ForTtl
  <2>1. c.name = "EXPIRE" /\ c.key = k /\ c.ex = e.expire - t
    BY DEF TtlOf
  <2>2. k \in DOMAIN g /\ g[k] = Plain(e)
    BY DEF With
  <2>3. e.expire \in Nat /\ t + (e.expire - t) = e.expire
    BY DEF IsEntry
  <2>4. [Plain(e) EXCEPT !.expire = t + c.ex] = e
    <3>1. e = [type |-> e.type, value |-> e.value, expire |-> e.expire]
      BY DEF IsEntry
    <3>2. t + c.ex = e.expire
      BY <2>1, <2>3
    <3>3. QED
      BY <3>1, <3>2 DEF Plain
  <2>5. ~Refused(g, c)
    BY <2>1 DEF Refused
  <2>6. ~(c.ex <= 0)
    BY <2>1, <2>3
  <2>7. Effect(g, c, t) = With(g, k, [g[k] EXCEPT !.expire = t + c.ex])
    BY <2>1, <2>2, <2>6 DEF Effect
  <2>8. With(g, k, e) = With(f, k, e)
    BY DEF With
  <2>9. QED
    BY <2>2, <2>4, <2>5, <2>7, <2>8, Zenon
\* A command that is not refused and leaves room is done.
<1>DoneStep.
    ASSUME NEW Key, NEW Blob, NEW r, NEW c, NEW t, NEW m, NEW y, Leads(r, c, t, m, y, Key, Blob)
    PROVE  execute(r, c, t, m).store.entry = y.entry
  <2> /\ IsStore(r, Key, Blob) /\ t \in Nat /\ IsLimit(m) /\ IsCommand(c, Key, Blob)
      /\ Live(r.entry, t) = r.entry /\ ~Refused(r.entry, c)
      /\ y.entry = Effect(r.entry, c, t) /\ Less(y.entry, {}) = y.entry /\ Fits(y, m)
    BY <1>DoneStep, Zenon DEF Leads
  <2>1. PICK f, g, x : f = r.entry /\ g = y.entry /\ x = execute(r, c, t, m)
    OBVIOUS
  <2>2. purge_expired(r, t).entry = f
    BY <2>1, PurgeLive
  <2>3. ~Refused(f, c) /\ y.entry = Effect(f, c, t) /\ Less(Effect(f, c, t), {}) = g
    BY <2>1, Zenon
  <2>4. Accepted(r, c, t, m, x, <<>>)
    BY <2>1, <2>2, <2>3, ExecuteStore, Zenon
  <2>5. ToSet(<<>>) = {}
    BY DEF ToSet
  <2>6. x.store.entry = Less(Effect(f, c, t), ToSet(<<>>))
    BY <2>2, <2>4, Zenon DEF Accepted
  <2>7. QED
    BY <2>1, <2>3, <2>5, <2>6, Zenon
\* The commands of one entry.
<1>EntryCommands.
    ASSUME NEW k, NEW e, NEW t
    PROVE  RewriteEntry(k, e, t) = IF e.expire # None /\ e.expire - t > 0
                                   THEN <<BodyOf(k, e), TtlOf(k, e, t)>> ELSE <<BodyOf(k, e)>>
  BY Zenon DEF RewriteEntry, BodyOf, TtlOf
\* When K has been written, the commands of k add k.
<1>RewriteStep.
    ASSUME NEW Key, NEW Blob, NEW s, IsStore(s, Key, Blob), NEW t \in Nat, expired(s, t) = {},
           NEW m, IsLimit(m), Fits(s, m), NEW K \in SUBSET keys(s), NEW k \in keys(s), k \notin K,
           NEW log, IsLog(log, Key, Blob),
           replay(log, t, m).entry = Part(s.entry, K)
    PROVE  replay(log \o RewriteEntry(k, s.entry[k], t), t, m).entry = Part(s.entry, K \cup {k})
  <2> USE <1>RewriteStep
  <2> PICK S : log \in Seq(S) /\ \A i \in 1..Len(log) : IsCommand(log[i], Key, Blob)
    BY DEF IsLog
  <2>a. PICK e, f : e = s.entry[k] /\ f = Part(s.entry, K)
    OBVIOUS
  <2>b. PICK p, h : p = Plain(e) /\ h = With(f, k, e)
    OBVIOUS
  <2>c. PICK g : g = With(f, k, p)
    OBVIOUS
  <2>d. PICK r, body, ttl : r = replay(log, t, m) /\ body = BodyOf(k, e) /\ ttl = TtlOf(k, e, t)
    OBVIOUS
  <2>1. k \in Key /\ IsEntry(e, Blob) /\ ~is_expired(e, t) /\ \A l \in K : ~is_expired(s.entry[l], t)
    BY <2>a, Zenon DEF IsStore, expired
  <2>2. IsStore(r, Key, Blob) /\ r.entry = f
    BY <2>a, <2>d, ReplayStore
  <2>3. IsCommand(body, Key, Blob) /\ IsCommand(ttl, Key, Blob)
    BY <2>1, <2>d, <1>BodyCommand, <1>TtlCommand
  <2>4. p.value = e.value /\ p.expire = None
    BY <2>b DEF Plain
  <2>5. Live(f, t) = f /\ DOMAIN f = K
    BY <2>1, <2>a DEF Live, Less, Part
  <2>6. ~is_expired(p, t)
    BY <2>4 DEF is_expired
  <2>7. Live(g, t) = g /\ Less(g, {}) = g /\ Less(h, {}) = h /\ h = Part(s.entry, K \cup {k})
    <3>1. DOMAIN g = K \cup {k} /\ g[k] = p /\ \A l \in K : g[l] = s.entry[l]
      BY <2>5, <2>a, <2>c, Zenon DEF With, Part
    <3>2. {l \in DOMAIN g : is_expired(g[l], t)} = {}
      BY <2>1, <2>6, <3>1, Zenon
    <3>3. Less(g, {}) = g
      BY <2>c, Zenon DEF Less, With
    <3>4. Live(g, t) = g
      BY <3>2, <3>3, Zenon DEF Live
    <3>5. Less(h, {}) = h
      BY <2>b, Zenon DEF Less, With
    <3>6. h = Part(s.entry, K \cup {k})
      BY <2>a, <2>b, Zenon DEF With, Part
    <3>7. QED
      BY <3>3, <3>4, <3>5, <3>6
  <2>8. PICK y, z : y.entry = g /\ z.entry = h /\ Fits(y, m) /\ Fits(z, m)
    <3>1. PICK y, z : y = [entry |-> g] /\ z = [entry |-> h]
      BY Zenon
    <3>2. y.entry = g /\ z.entry = h
      BY <3>1
    <3>3. DOMAIN g = K \cup {k} /\ g[k] = p /\ \A l \in K : g[l] = s.entry[l]
      BY <2>5, <2>a, <2>c, Zenon DEF With, Part
    <3>4. DOMAIN h = K \cup {k} /\ \A l \in K \cup {k} : h[l] = s.entry[l]
      BY <2>5, <2>a, <2>b, Zenon DEF With, Part
    <3>5. /\ keys(y) = K \cup {k} /\ keys(z) = K \cup {k}
          /\ \A l \in K \cup {k} : /\ y.entry[l].value = s.entry[l].value
                                   /\ z.entry[l].value = s.entry[l].value
      BY <2>4, <2>a, <3>2, <3>3, <3>4 DEF keys
    <3>6. m.maxmemory \in Nat /\ K \cup {k} \subseteq keys(s)
      BY DEF IsLimit
    <3>7. Fits(y, m)
      BY <3>5, <3>6, CheaperFits, SMTT(20)
    <3>8. Fits(z, m)
      BY <3>5, <3>6, CheaperFits
    <3>9. QED
      BY <3>2, <3>7, <3>8, Zenon
  <2>9. ~Refused(f, body) /\ Effect(f, body, t) = g
    <3>1. k \notin DOMAIN f
      BY <2>5
    <3>2. ForBody(e, k, t, f, Blob)
      BY <2>1, <3>1, Zenon DEF ForBody
    <3>4. ~Refused(f, BodyOf(k, e)) /\ Effect(f, BodyOf(k, e), t) = With(f, k, Plain(e))
      BY <3>2, <1>BodyEffect
    <3>3. QED
      BY <2>b, <2>c, <2>d, <3>4, Zenon
  <2>11. execute(r, body, t, m).store.entry = g
    <3>1. /\ Live(r.entry, t) = r.entry /\ ~Refused(r.entry, body)
          /\ y.entry = Effect(r.entry, body, t) /\ Less(y.entry, {}) = y.entry
      BY <2>2, <2>5, <2>7, <2>8, <2>9, Zenon
    <3>2. Leads(r, body, t, m, y, Key, Blob)
      BY <2>2, <2>3, <2>8, <3>1, Zenon DEF Leads
    <3>3. execute(r, body, t, m).store.entry = y.entry
      BY <3>2, <1>DoneStep
    <3>4. QED
      BY <2>8, <3>3, Zenon
  <2>e. PICK long : long = Append(log, body)
    BY Zenon
  <2>12. replay(long, t, m).entry = g
    BY <2>11, <2>d, <2>e, ReplayAppend
  <2>13. CASE e.expire # None /\ e.expire - t > 0
    <3>1. long \in Seq(S \cup {body}) /\ \A i \in 1..Len(long) : IsCommand(long[i], Key, Blob)
      BY <2>3, <2>e
    <3>2. RewriteEntry(k, e, t) = <<body, ttl>>
      BY <2>13, <2>d, <1>EntryCommands, Zenon
    <3>3. log \o <<body, ttl>> = Append(long, ttl)
      BY <2>e
    <3>5. PICK q : q = replay(long, t, m)
      OBVIOUS
    <3>6. IsStore(q, Key, Blob) /\ q.entry = g
      <4>1. IsLog(long, Key, Blob)
        BY <3>1 DEF IsLog, ToSet
      <4>2. QED
        BY <2>12, <3>5, <4>1, ReplayStore
    <3>7. execute(q, ttl, t, m).store.entry = h
      <4>1. ForTtl(ttl, e, k, t, f, q, Blob)
        BY <2>1, <2>13, <2>b, <2>c, <2>d, <3>6, Zenon DEF ForTtl
      <4>2. ~Refused(q.entry, ttl) /\ Effect(q.entry, ttl, t) = With(f, k, e)
        BY <4>1, <1>TtlEffect
      <4>3. Live(q.entry, t) = q.entry /\ z.entry = Effect(q.entry, ttl, t)
        BY <2>7, <2>8, <2>b, <3>6, <4>2, Zenon
      <4>4. Leads(q, ttl, t, m, z, Key, Blob)
        BY <2>3, <2>7, <2>8, <3>6, <4>2, <4>3, Zenon DEF Leads
      <4>5. execute(q, ttl, t, m).store.entry = z.entry
        BY <4>4, <1>DoneStep
      <4>6. QED
        BY <2>8, <4>5, Zenon
    <3>8. replay(Append(long, ttl), t, m) = execute(q, ttl, t, m).store
      BY <3>1, <3>5, ReplayAppend
    <3>9. QED
      BY <2>7, <2>a, <3>2, <3>3, <3>7, <3>8, ZenonT(30)
  <2>14. CASE ~(e.expire # None /\ e.expire - t > 0)
    <3>1. e.expire = None
      <4>1. e.expire \in Nat \cup {None} /\ ~(e.expire # None /\ t >= e.expire)
        BY <2>1, Zenon DEF is_expired, IsEntry
      <4>2. QED
        BY <2>14, <4>1 DEF None
    <3>2. g = h
      <4>1. p = e
        BY <2>1, <2>b, <3>1, Zenon DEF Plain, IsEntry
      <4>2. QED
        BY <2>b, <2>c, <4>1
    <3>3. RewriteEntry(k, e, t) = <<body>>
      BY <2>14, <2>d, <1>EntryCommands, Zenon
    <3>4. log \o <<body>> = long
      BY <2>e
    <3>5. QED
      BY <2>7, <2>12, <2>a, <3>2, <3>3, <3>4, Zenon
  <2>15. QED
    BY <2>13, <2>14
<1>PayloadSteps.
    ASSUME NEW Key, NEW Blob, NEW s, IsStore(s, Key, Blob), NEW t \in Nat,
           NEW n \in Nat, n = Len(s.dict)
    PROVE  \E C, flat : WrittenBy(flat, C, s, n, t, Key, Blob)
  <2> USE <1>PayloadSteps
  <2> DEFINE C == {BodyOf(k, s.entry[k]) : k \in keys(s)} \cup {TtlOf(k, s.entry[k], t) : k \in keys(s)}
             rewritten(i) == RewriteEntry(s.dict[i], s.entry[s.dict[i]], t)
             seqs == [i \in 1..n |-> rewritten(i)]
  <2>1. \A k \in keys(s) : k \in Key /\ IsEntry(s.entry[k], Blob)
    BY DEF IsStore
  <2>2. \A c \in C : IsCommand(c, Key, Blob)
    <3>1. \A k \in keys(s) : /\ IsCommand(BodyOf(k, s.entry[k]), Key, Blob)
                             /\ IsCommand(TtlOf(k, s.entry[k], t), Key, Blob)
      BY <2>1, <1>BodyCommand, <1>TtlCommand
    <3>2. QED
      BY <3>1
  <2>3. ASSUME NEW i \in 1..n PROVE rewritten(i) \in Seq(C)
    <3> DEFINE k == s.dict[i]
               body == BodyOf(k, s.entry[k])
               ttl == TtlOf(k, s.entry[k], t)
    <3>1. k \in keys(s)
      BY DEF IsStore, IsOrder
    <3>2. body \in C /\ ttl \in C
      BY <3>1
    <3>3. rewritten(i) = <<body, ttl>> \/ rewritten(i) = <<body>>
      BY <1>EntryCommands, Zenon
    <3> HIDE DEF rewritten, body, ttl, C
    <3>4. <<body, ttl>> \in Seq(C) /\ <<body>> \in Seq(C)
      BY <3>2
    <3>5. QED
      BY <3>3, <3>4, Zenon
  <2> HIDE DEF C
  <2>4. seqs \in Seq(Seq(C)) /\ Len(seqs) = n
    BY <2>3
  <2>5. build_rewrite_payload(s, t) = FlattenSeq(seqs)
    BY DEF build_rewrite_payload
  <2>6. \A i \in 1..n : seqs[i] = rewritten(i)
    OBVIOUS
  <2> HIDE DEF seqs
  <2>7. PICK flat : /\ FlattenedBy(flat, seqs, n)
                    /\ FlattenSeq(seqs) = flat[n]
                    /\ \A i \in 0..n : flat[i] \in Seq(C)
    BY <2>4, FlattenSteps
  <2>8. flat[0] = <<>> /\ \A i \in 1..n : flat[i] = flat[i - 1] \o rewritten(i)
    <3> HIDE DEF rewritten
    <3>1. 0 \in 0..n /\ \A i \in 1..n : i \in 0..n /\ i # 0
      OBVIOUS
    <3>2. flat[0] = <<>> /\ \A i \in 1..n : flat[i] = flat[i - 1] \o seqs[i]
      BY <2>7, <3>1, Zenon DEF FlattenedBy
    <3>3. QED
      BY <2>6, <3>2, Zenon
  <2>9. QED
    BY <2>2, <2>5, <2>7, <2>8, Zenon DEF WrittenBy
<1>PayloadLog.
    ASSUME NEW Key, NEW Blob, NEW s, IsStore(s, Key, Blob), NEW t \in Nat
    PROVE  IsLog(build_rewrite_payload(s, t), Key, Blob)
  <2> USE <1>PayloadLog
  <2>1. PICK n \in Nat : n = Len(s.dict)
    BY DEF IsStore, IsOrder
  <2>2. PICK C, flat : WrittenBy(flat, C, s, n, t, Key, Blob)
    BY <2>1, <1>PayloadSteps, SMTT(20)
  <2>3. AllCommands(C, Key, Blob)
    BY <2>2, Zenon DEF WrittenBy, AllCommands
  <2>4. build_rewrite_payload(s, t) \in Seq(C)
    BY <2>2 DEF WrittenBy
  <2>5. QED
    BY <2>3, <2>4, LogOf
\* A rewritten log gives back the entries of a store that fits and has no expired key.
<1>PayloadReplay.
    ASSUME NEW Key, NEW Blob, NEW s, IsStore(s, Key, Blob), NEW t \in Nat, expired(s, t) = {},
           NEW m, IsLimit(m), Fits(s, m)
    PROVE  replay(build_rewrite_payload(s, t), t, m).entry = s.entry
  <2> USE <1>PayloadReplay
  <2>1. PICK n \in Nat : n = Len(s.dict)
    BY DEF IsStore, IsOrder
  <2>2. PICK C, flat : WrittenBy(flat, C, s, n, t, Key, Blob)
    BY <2>1, <1>PayloadSteps, SMTT(20)
  <2>3. s.dict \in Seq(keys(s)) /\ ToSet(s.dict) = keys(s) /\ IsInjective(s.dict)
    BY DEF IsStore, IsOrder
  <2> DEFINE Written(i) == {s.dict[j] : j \in 1..i}
             T == {i \in 0..n : replay(flat[i], t, m).entry = Part(s.entry, Written(i))}
  <2>4. 0 \in T
    <3>1. replay(flat[0], t, m).entry = <<>>
      BY <2>2, ReplayEmpty DEF EmptyStore, WrittenBy
    <3>2. Part(s.entry, Written(0)) = <<>>
      BY DEF Part
    <3>3. QED
      BY <3>1, <3>2, SMTT(20)
  <2>5. ASSUME NEW i \in 0..n - 1, i \in T PROVE i + 1 \in T
    <3> DEFINE k == s.dict[i + 1]
               K == Written(i)
    <3>1. i + 1 \in 1..n /\ (i + 1) - 1 = i /\ i + 1 \in 0..n /\ i \in 0..n
      OBVIOUS
    <3>2. k \in keys(s) /\ K \in SUBSET keys(s)
      BY <2>1, <2>3, <3>1
    <3>3. k \notin K
      <4>1. ASSUME NEW j \in 1..i, s.dict[j] = s.dict[i + 1] PROVE FALSE
        BY <2>1, <2>3, <3>1, <4>1 DEF IsInjective
      <4>2. QED
        BY <4>1
    <3>4. Written(i + 1) = K \cup {k}
      <4>1. 1..i + 1 = 1..i \cup {i + 1}
        OBVIOUS
      <4>2. QED
        BY <4>1
    <3>5. flat[i + 1] = flat[i] \o RewriteEntry(k, s.entry[k], t) /\ flat[i] \in Seq(C)
      BY <2>2, <3>1, Zenon DEF WrittenBy
    <3>6. replay(flat[i], t, m).entry = Part(s.entry, K)
      BY <2>5
    <3>7. IsLog(flat[i], Key, Blob)
      <4>1. AllCommands(C, Key, Blob)
        BY <2>2, Zenon DEF WrittenBy, AllCommands
      <4>2. QED
        BY <3>5, <4>1, LogOf
    <3> HIDE DEF k, K, Written
    <3>8. replay(flat[i] \o RewriteEntry(k, s.entry[k], t), t, m).entry = Part(s.entry, K \cup {k})
      BY <3>2, <3>3, <3>6, <3>7, <1>RewriteStep
    <3>9. QED
      BY <3>1, <3>4, <3>5, <3>8, Zenon
  <2>6. n \in T
    <3> HIDE DEF T
    <3>1. \A i \in 0..n : i \in T
      BY <2>4, <2>5, Counting, Zenon
    <3>2. QED
      BY <3>1
  <2>7. Written(n) = keys(s)
    BY <2>1, <2>3 DEF ToSet
  <2>8. Part(s.entry, keys(s)) = s.entry
    BY DEF Part, IsStore
  <2>9. QED
    BY <2>2, <2>6, <2>7, <2>8, Zenon DEF WrittenBy
<1>1. QED
  BY <1>PayloadLog, <1>PayloadReplay, Zenon

=============================================================================
