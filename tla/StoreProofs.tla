---------------------------- MODULE StoreProofs ----------------------------
(***************************************************************************)
(* The store and its dump: what the operators of Store that change an      *)
(* entry keep, and what a dump gives back, for every store and time.       *)
(***************************************************************************)
EXTENDS Store, FiniteSetTheorems, SequenceTheorems, WellFoundedInduction, TLAPS

-----------------------------------------------------------------------------
(* Induction over an interval, and least elements                          *)

\* What holds of 0 and is passed on to the next number holds up to n.
LEMMA Counting ==
  ASSUME NEW n \in Nat, NEW T, 0 \in T, \A i \in 0..n - 1 : i \in T => i + 1 \in T
  PROVE  \A i \in 0..n : i \in T
<1> DEFINE F == {i \in Nat : i <= n /\ i \notin T}
           R == OpToRel(<, Nat)
<1> SUFFICES ASSUME F # {} PROVE FALSE
  OBVIOUS
<1>1. IsWellFoundedOn(R, Nat)
  BY NatLessThanWellFounded, Zenon
<1>2. PICK x \in F : \A y \in F : <<y, x>> \notin R
  <2>1. F \subseteq Nat
    OBVIOUS
  <2> HIDE DEF F, R
  <2>2. QED
    BY <1>1, <2>1, WFMin, Zenon
<1>3. x - 1 \in 0..n - 1 /\ (x - 1) + 1 = x /\ x \in Nat /\ x - 1 \in Nat /\ x - 1 < x
  BY ONLY 0 \in T, n \in Nat, x \in F
<1>4. <<x - 1, x>> \in R
  BY <1>3, Zenon DEF OpToRel
<1> HIDE DEF R
<1>5. QED
  BY <1>2, <1>3, <1>4

\* A set of numbers that is not empty has a least element: Min.
LEMMA LeastElement ==
  ASSUME NEW S \in SUBSET Nat, S # {}
  PROVE  Min(S) \in S /\ \A y \in S : Min(S) <= y
<1> DEFINE R == OpToRel(<, Nat)
<1>1. IsWellFoundedOn(R, Nat)
  BY NatLessThanWellFounded, Zenon
<1>2. PICK x \in S : \A y \in S : <<y, x>> \notin R
  <2> HIDE DEF R
  <2>1. QED
    BY <1>1, WFMin, Zenon
<1>3. ASSUME NEW y \in S PROVE x <= y
  <2>1. <<y, x>> \in R \/ ~(y < x)
    BY Zenon DEF OpToRel
  <2> HIDE DEF R
  <2>2. QED
    BY <1>2, <2>1
<1>4. QED
  BY <1>3, Zenon DEF Min

-----------------------------------------------------------------------------
(* Orders: the dictionary and the access times                             *)

\* Without computes, index by index, what its definition says.
LeftBy(left, order, K, n) ==
  left = [i \in 0..n |-> IF i = 0 THEN <<>>
                         ELSE IF order[i] \in K THEN left[i - 1]
                         ELSE Append(left[i - 1], order[i])]

\* What Without computes, key by key.
LEMMA WithoutSteps ==
  ASSUME NEW order, NEW n \in Nat, n = Len(order), NEW K
  PROVE  \E left : LeftBy(left, order, K, n) /\ Without(order, K) = left[n]
<1> DEFINE Step(x, i) == IF order[i] \in K THEN x ELSE Append(x, order[i])
           Good(g, m) == g = [i \in 0..m |-> IF i = 0 THEN <<>> ELSE Step(g[i - 1], i)]
           T == {m \in Nat : \E g : Good(g, m)}
<1>1. 0 \in T
  <2>1. Good([i \in 0..0 |-> <<>>], 0)
    OBVIOUS
  <2>2. QED
    BY <2>1, Zenon
<1>2. ASSUME NEW m \in T PROVE m + 1 \in T
  <2>1. PICK g : Good(g, m)
    OBVIOUS
  <2> DEFINE h == [i \in 0..m + 1 |-> IF i = m + 1 THEN Step(g[m], i) ELSE g[i]]
  <2> HIDE DEF Step
  <2>2. \A i \in 0..m : h[i] = g[i]
    OBVIOUS
  <2>3. ASSUME NEW i \in 0..m + 1
        PROVE  h[i] = IF i = 0 THEN <<>> ELSE Step(h[i - 1], i)
    <3>1. CASE i = m + 1
      BY <2>2, <3>1
    <3>2. CASE i \in 0..m
      BY <2>1, <2>2, <3>2
    <3>3. QED
      BY <3>1, <3>2
  <2>4. Good(h, m + 1)
    BY <2>3
  <2>5. QED
    <3> HIDE DEF Good, h
    <3>1. \E f : Good(f, m + 1)
      BY <2>4, Zenon
    <3>2. QED
      BY <3>1
<1>3. n \in T
  <2> HIDE DEF T
  <2>1. \A i \in 0..n : i \in T
    BY <1>1, <1>2, Counting, Zenon
  <2>2. QED
    BY <2>1
<1>4. \E g : Good(g, n)
  BY <1>3
<1> DEFINE left == CHOOSE g : Good(g, n)
<1>5. Good(left, n)
  BY <1>4, Zenon
<1>6. Without(order, K) = left[n]
  BY DEF Without
<1> HIDE DEF left
<1>7. LeftBy(left, order, K, n)
  BY <1>5, Zenon DEF LeftBy
<1>8. QED
  BY <1>6, <1>7, Zenon

\* The empty sequence orders the empty set.
LEMMA OrderEmpty == IsOrder(<<>>, {})
BY DEF IsOrder, ToSet, IsInjective

\* A new key comes last in an order.
LEMMA OrderAppend ==
  ASSUME NEW K, NEW order, IsOrder(order, K), NEW x, x \notin K
  PROVE  IsOrder(Append(order, x), K \cup {x})
<1>1. order \in Seq(K) /\ Append(order, x) \in Seq(K \cup {x})
  BY DEF IsOrder
<1>2. PICK n \in Nat : n = Len(order)
  BY <1>1
<1>3. DOMAIN order = 1..n /\ DOMAIN Append(order, x) = 1..n + 1
  BY <1>1, <1>2
<1>4. Append(order, x)[n + 1] = x /\ \A i \in 1..n : Append(order, x)[i] = order[i]
  BY <1>1, <1>2
<1>5. ToSet(Append(order, x)) = K \cup {x}
  <2>1. \A k \in K : \E i \in 1..n : order[i] = k
    BY <1>3 DEF IsOrder, ToSet
  <2>2. \A i \in 1..n + 1 : Append(order, x)[i] \in K \cup {x}
    BY <1>1, <1>2
  <2>3. n + 1 \in 1..n + 1 /\ 1..n \subseteq 1..n + 1
    OBVIOUS
  <2>4. ASSUME NEW k \in K \cup {x} PROVE \E i \in 1..n + 1 : Append(order, x)[i] = k
    BY <1>4, <2>1, <2>3, Zenon
  <2>5. QED
    BY <1>3, <2>2, <2>4 DEF ToSet
<1>6. IsInjective(Append(order, x))
  <2> SUFFICES ASSUME NEW i \in 1..n + 1, NEW j \in 1..n + 1,
                      Append(order, x)[i] = Append(order, x)[j]
               PROVE  i = j
    BY <1>3 DEF IsInjective
  <2>1. \A l \in 1..n : order[l] # x
    BY <1>1, <1>2
  <2>2. \A l, m \in 1..n : order[l] = order[m] => l = m
    BY <1>3 DEF IsOrder, IsInjective
  <2>3. QED
    BY <1>4, <2>1, <2>2
<1>7. QED
  BY <1>1, <1>5, <1>6 DEF IsOrder

\* Removing keys from an order leaves an order of the others.
LEMMA OrderWithout ==
  ASSUME NEW K, NEW order, IsOrder(order, K), NEW D
  PROVE  IsOrder(Without(order, D), K \ D)
<1>1. order \in Seq(K)
  BY DEF IsOrder
<1>2. PICK n \in Nat : n = Len(order)
  BY <1>1
<1>3. PICK left : LeftBy(left, order, D, n) /\ Without(order, D) = left[n]
  BY <1>2, WithoutSteps, ZenonT(30)
<1> DEFINE Seen(i) == {order[j] : j \in 1..i} \ D
           T == {i \in 0..n : IsOrder(left[i], Seen(i))}
<1>4. 0 \in T
  <2>1. left[0] = <<>> /\ Seen(0) = {}
    BY <1>3 DEF LeftBy
  <2>2. QED
    BY <2>1, OrderEmpty
<1>5. ASSUME NEW i \in 0..n - 1, i \in T PROVE i + 1 \in T
  <2>1. /\ i + 1 \in 0..n /\ i + 1 # 0 /\ (i + 1) - 1 = i
        /\ 1..i + 1 = (1..i) \cup {i + 1} /\ i + 1 \in 1..n
    OBVIOUS
  <2>2. left[i + 1] = IF order[i + 1] \in D THEN left[i] ELSE Append(left[i], order[i + 1])
    BY <1>3, <2>1, Zenon DEF LeftBy
  <2>3. IsOrder(left[i], Seen(i))
    BY <1>5
  <2>4. CASE order[i + 1] \in D
    <3>1. Seen(i + 1) = Seen(i)
      BY <2>1, <2>4
    <3>2. QED
      BY <2>1, <2>2, <2>3, <2>4, <3>1, Zenon
  <2>5. CASE order[i + 1] \notin D
    <3>1. Seen(i + 1) = Seen(i) \cup {order[i + 1]}
      BY <2>1, <2>5
    <3>2. order[i + 1] \notin Seen(i)
      BY <1>1, <1>2, <2>1 DEF IsOrder, IsInjective
    <3> HIDE DEF Seen
    <3>3. IsOrder(Append(left[i], order[i + 1]), Seen(i + 1))
      BY <2>3, <3>1, <3>2, OrderAppend
    <3>4. QED
      BY <2>1, <2>2, <2>5, <3>3, Zenon
  <2>6. QED
    BY <2>4, <2>5
<1>6. n \in T
  <2> HIDE DEF T
  <2>1. \A i \in 0..n : i \in T
    BY <1>4, <1>5, Counting, Zenon
  <2>2. QED
    BY <2>1
<1>7. Seen(n) = K \ D
  BY <1>1, <1>2 DEF IsOrder, ToSet
<1>8. QED
  BY <1>3, <1>6, <1>7, Zenon

\* What has an order is finite.
LEMMA OrderFinite ==
  ASSUME NEW K, NEW order, IsOrder(order, K)
  PROVE  IsFiniteSet(K)
<1>1. order \in Seq(K) /\ ToSet(order) = K
  BY DEF IsOrder
<1>2. PICK n \in Nat : n = Len(order)
  BY <1>1
<1>3. order \in Surjection(1..n, K)
  BY <1>1, <1>2 DEF Surjection, ToSet
<1>4. IsFiniteSet(1..n)
  BY FS_Interval
<1>5. QED
  BY <1>3, <1>4, FS_Surjection

-----------------------------------------------------------------------------
(* The operations on a store keep it a store                               *)

\* The entries f, with the entry e for the key k.
With(f, k, e) == [l \in DOMAIN f \cup {k} |-> IF l = k THEN e ELSE f[l]]

\* The entries f without the keys in K.
Less(f, K) == [l \in DOMAIN f \ K |-> f[l]]

\* The entries that are not expired.
Live(f, t) == Less(f, {k \in DOMAIN f : is_expired(f[k], t)})

\* The entries of the keys in K.
Part(f, K) == [l \in K |-> f[l]]

\* The store s with another entry under a key that it has.
Entered(s, k, e) == [s EXCEPT !.entry[k] = e]

\* The empty store is a store, without keys.
LEMMA EmptyIsStore ==
  ASSUME NEW Key, NEW Blob
  PROVE  IsStore(EmptyStore, Key, Blob) /\ keys(EmptyStore) = {}
<1>1. DOMAIN <<>> = {} /\ <<>> = [k \in {} |-> <<>>[k]]
  OBVIOUS
<1>2. QED
  BY <1>1, OrderEmpty DEF IsStore, EmptyStore, keys

\* Dropping keys leaves a store with the other entries.
LEMMA DropStore ==
  ASSUME NEW Key, NEW Blob, NEW s, IsStore(s, Key, Blob), NEW K
  PROVE  /\ IsStore(drop(s, K), Key, Blob)
         /\ keys(drop(s, K)) = keys(s) \ K
         /\ drop(s, K).entry = Less(s.entry, K)
<1> DEFINE d == drop(s, K)
<1>1. /\ d.entry = [k \in keys(s) \ K |-> s.entry[k]]
      /\ d = [entry |-> d.entry, dict |-> d.dict, lru |-> d.lru]
      /\ d.dict = Without(s.dict, K) /\ d.lru = Without(s.lru, K)
  BY DEF drop, Restrict
<1> HIDE DEF d
<1>2. keys(d) = keys(s) \ K /\ d.entry = [k \in keys(d) |-> d.entry[k]]
  BY <1>1 DEF keys
<1>3. IsOrder(d.dict, keys(d)) /\ IsOrder(d.lru, keys(d))
  BY <1>1, <1>2, OrderWithout DEF IsStore
<1>4. keys(d) \subseteq Key /\ \A k \in keys(d) : IsEntry(d.entry[k], Blob)
  BY <1>1, <1>2 DEF IsStore
<1>5. IsStore(d, Key, Blob)
  BY <1>1, <1>2, <1>3, <1>4 DEF IsStore
<1>6. d.entry = Less(s.entry, K)
  BY <1>1 DEF Less, keys
<1>7. QED
  BY <1>2, <1>5, <1>6 DEF d

\* touch_access leaves a store with the same entries, in the same order.
LEMMA AccessStore ==
  ASSUME NEW Key, NEW Blob, NEW s, IsStore(s, Key, Blob), NEW k \in keys(s)
  PROVE  /\ IsStore(touch_access(s, k), Key, Blob)
         /\ touch_access(s, k).entry = s.entry
         /\ touch_access(s, k).dict = s.dict
<1> DEFINE l == Append(Without(s.lru, {k}), k)
<1>1. touch_access(s, k) = [entry |-> s.entry, dict |-> s.dict, lru |-> l]
  <2>1. s = [entry |-> s.entry, dict |-> s.dict, lru |-> s.lru]
    BY Zenon DEF IsStore
  <2>2. touch_access(s, k) = [s EXCEPT !.lru = l]
    BY Zenon DEF touch_access
  <2> HIDE DEF l
  <2>3. QED
    BY <2>1, <2>2
<1>2. IsOrder(l, keys(s))
  <2>1. IsOrder(Without(s.lru, {k}), keys(s) \ {k})
    BY OrderWithout DEF IsStore
  <2>2. IsOrder(l, (keys(s) \ {k}) \cup {k})
    BY <2>1, OrderAppend
  <2>3. (keys(s) \ {k}) \cup {k} = keys(s)
    OBVIOUS
  <2>4. QED
    BY <2>2, <2>3
<1> HIDE DEF l
<1>3. IsStore(touch_access(s, k), Key, Blob)
  BY <1>1, <1>2 DEF IsStore, keys
<1>4. QED
  BY <1>1, <1>3

\* load_entries leaves a store with the same entries.
LEMMA LoadedStore ==
  ASSUME NEW Key, NEW Blob, NEW s, IsStore(s, Key, Blob)
  PROVE  IsStore(load_entries(s), Key, Blob) /\ load_entries(s).entry = s.entry
<1>1. s = [entry |-> s.entry, dict |-> s.dict, lru |-> s.lru]
  BY Zenon DEF IsStore
<1>2. load_entries(s) = [entry |-> s.entry, dict |-> s.dict, lru |-> s.dict]
  BY <1>1 DEF load_entries
<1>3. QED
  BY <1>2 DEF IsStore, keys

\* Another entry under a key that is there leaves a store.
LEMMA EnteredStore ==
  ASSUME NEW Key, NEW Blob, NEW s, IsStore(s, Key, Blob), NEW k \in keys(s),
         NEW e, IsEntry(e, Blob)
  PROVE  /\ IsStore(Entered(s, k, e), Key, Blob)
         /\ Entered(s, k, e).entry = With(s.entry, k, e)
<1>1. s = [entry |-> s.entry, dict |-> s.dict, lru |-> s.lru]
  BY Zenon DEF IsStore
<1> DEFINE f == With(s.entry, k, e)
           x == Entered(s, k, e)
<1>2. x = [entry |-> f, dict |-> s.dict, lru |-> s.lru]
  <2>1. x = [s EXCEPT !.entry = [s.entry EXCEPT ![k] = e]]
    BY DEF Entered
  <2>2. [s.entry EXCEPT ![k] = e] = f
    <3>1. keys(s) \cup {k} = keys(s) /\ s.entry = [l \in keys(s) |-> s.entry[l]]
      BY DEF IsStore
    <3>2. QED
      BY <3>1 DEF With, keys
  <2> HIDE DEF f, x
  <2>3. QED
    BY <1>1, <2>1, <2>2
<1>3. DOMAIN f = keys(s) /\ f = [l \in keys(s) |-> f[l]]
  BY DEF With, keys
<1>4. \A l \in keys(s) : IsEntry(f[l], Blob)
  BY DEF IsStore, With, keys
<1> HIDE DEF f, x
<1>5. keys(x) = keys(s)
  BY <1>2, <1>3 DEF keys
<1>6. IsStore(x, Key, Blob)
  BY <1>2, <1>3, <1>4, <1>5 DEF IsStore
<1>7. QED
  BY <1>2, <1>6 DEF f, x

\* set_entry leaves a store with that entry.
LEMMA SetStore ==
  ASSUME NEW Key, NEW Blob, NEW s, IsStore(s, Key, Blob), NEW k \in Key,
         NEW e, IsEntry(e, Blob)
  PROVE  /\ IsStore(set_entry(s, k, e), Key, Blob)
         /\ set_entry(s, k, e).entry = With(s.entry, k, e)
<1>1. s = [entry |-> s.entry, dict |-> s.dict, lru |-> s.lru]
  BY Zenon DEF IsStore
<1> DEFINE f == [l \in keys(s) \cup {k} |-> IF l = k THEN e ELSE s.entry[l]]
           d == IF k \in keys(s) THEN s.dict ELSE Append(s.dict, k)
           l == Append(Without(s.lru, {k}), k)
           x == [entry |-> f, dict |-> d, lru |-> l]
<1>2. set_entry(s, k, e) = x
  <2>1. Updated(s.entry, [y \in {k} |-> e]) = f
    BY DEF Updated, keys
  <2> DEFINE y == [s EXCEPT !.entry = f, !.dict = d]
  <2>2. y = [entry |-> f, dict |-> d, lru |-> s.lru]
    <3> DEFINE z == [s EXCEPT !.entry = f]
    <3> HIDE DEF f, d
    <3>1. z = [entry |-> f, dict |-> s.dict, lru |-> s.lru]
      BY <1>1
    <3>2. y = [z EXCEPT !.dict = d]
      OBVIOUS
    <3> HIDE DEF y, z
    <3>3. QED
      BY <3>1, <3>2
  <2>3. set_entry(s, k, e) = [y EXCEPT !.lru = Append(Without(y.lru, {k}), k)]
    BY <2>1, Zenon DEF set_entry, touch_access
  <2>4. y.lru = s.lru
    BY <2>2
  <2>5. set_entry(s, k, e) = [y EXCEPT !.lru = l]
    BY <2>3, <2>4, Zenon
  <2> HIDE DEF f, d, l, y
  <2>6. QED
    BY <2>2, <2>5
<1>3. keys(x) = keys(s) \cup {k} /\ keys(x) \subseteq Key
  BY DEF keys, IsStore
<1>4. IsOrder(d, keys(x))
  <2>1. CASE k \in keys(s)
    <3>1. keys(s) \cup {k} = keys(s)
      BY <2>1
    <3>2. QED
      BY <1>3, <2>1, <3>1, Zenon DEF IsStore
  <2>2. CASE k \notin keys(s)
    <3>1. IsOrder(Append(s.dict, k), keys(s) \cup {k})
      BY <2>2, OrderAppend DEF IsStore
    <3>2. QED
      BY <1>3, <2>2, <3>1, Zenon
  <2>3. QED
    BY <2>1, <2>2
<1>5. IsOrder(l, keys(x))
  <2>1. IsOrder(Without(s.lru, {k}), keys(s) \ {k})
    BY OrderWithout DEF IsStore
  <2>2. IsOrder(l, (keys(s) \ {k}) \cup {k})
    BY <2>1, OrderAppend
  <2>3. (keys(s) \ {k}) \cup {k} = keys(s) \cup {k}
    OBVIOUS
  <2>4. QED
    BY <1>3, <2>2, <2>3, Zenon
<1>6. \A y \in keys(x) : IsEntry(x.entry[y], Blob)
  BY <1>3, Zenon DEF IsStore
<1>7. x.entry = [y \in keys(x) |-> x.entry[y]]
  BY <1>3, Zenon
<1> HIDE DEF d, l
<1>8. x = [entry |-> x.entry, dict |-> x.dict, lru |-> x.lru]
      /\ x.dict = d /\ x.lru = l /\ x.entry = f
  OBVIOUS
<1> HIDE DEF x
<1>9. IsStore(x, Key, Blob)
  BY <1>3, <1>4, <1>5, <1>6, <1>7, <1>8 DEF IsStore
<1>10. f = With(s.entry, k, e)
  BY DEF With, keys
<1>11. QED
  BY <1>2, <1>8, <1>9, <1>10

\* The value of an entry is what its type says.
LEMMA TypedValue ==
  ASSUME NEW Blob, NEW e, IsEntry(e, Blob)
  PROVE  /\ e.type = "STRING" => e.value \in Seq(Blob)
         /\ e.type = "LIST" => e.value \in Lists(Blob)
         /\ e.type = "HASH" => e.value \in Hashes(Blob)
BY DEF IsEntry

-----------------------------------------------------------------------------
(* Flattening a sequence of sequences                                      *)

\* flat has what the first i sequences make.
FlattenedBy(flat, seqs, n) ==
  flat = [i \in 0..n |-> IF i = 0 THEN <<>> ELSE flat[i - 1] \o seqs[i]]

\* What FlattenSeq computes, sequence by sequence.
LEMMA FlattenSteps ==
  ASSUME NEW S, NEW seqs \in Seq(Seq(S)), NEW n \in Nat, n = Len(seqs)
  PROVE  \E flat : /\ FlattenedBy(flat, seqs, n)
                   /\ FlattenSeq(seqs) = flat[n]
                   /\ \A i \in 0..n : flat[i] \in Seq(S)
<1> DEFINE T == {k \in Nat : \E g : FlattenedBy(g, seqs, k)}
<1>1. 0 \in T
  <2>1. FlattenedBy([i \in 0..0 |-> <<>>], seqs, 0)
    BY DEF FlattenedBy
  <2>2. QED
    BY <2>1
<1>2. ASSUME NEW k \in T PROVE k + 1 \in T
  <2>1. PICK g : FlattenedBy(g, seqs, k)
    OBVIOUS
  <2> DEFINE h == [i \in 0..k + 1 |-> IF i = k + 1 THEN g[k] \o seqs[i] ELSE g[i]]
  <2>2. \A i \in 0..k : h[i] = g[i]
    OBVIOUS
  <2>3. ASSUME NEW i \in 0..k + 1
        PROVE  h[i] = IF i = 0 THEN <<>> ELSE h[i - 1] \o seqs[i]
    <3>1. CASE i = k + 1
      <4>1. h[i] = g[k] \o seqs[i] /\ i # 0 /\ i - 1 = k /\ h[k] = g[k]
        BY <2>2, <3>1
      <4> HIDE DEF h
      <4>2. QED
        BY <4>1, Zenon
    <3>2. CASE i \in 0..k
      BY <2>1, <2>2, <3>2 DEF FlattenedBy
    <3>3. QED
      BY <3>1, <3>2
  <2>4. FlattenedBy(h, seqs, k + 1)
    BY <2>3, Zenon DEF FlattenedBy
  <2>5. QED
    <3> HIDE DEF h
    <3>1. QED
      BY <2>4
<1>3. n \in T
  <2> HIDE DEF T
  <2>1. \A i \in 0..n : i \in T
    BY <1>1, <1>2, Counting, Zenon
  <2>2. QED
    BY <2>1
<1>4. PICK flat : FlattenedBy(flat, seqs, n)
  BY <1>3
<1>5. \A i \in 0..n : flat[i] \in Seq(S)
  <2> DEFINE V == {i \in 0..n : flat[i] \in Seq(S)}
  <2>1. 0 \in V
    BY <1>4 DEF FlattenedBy
  <2>2. ASSUME NEW i \in 0..n - 1, i \in V PROVE i + 1 \in V
    <3>1. i + 1 \in 0..n /\ i + 1 # 0 /\ (i + 1) - 1 = i /\ seqs[i + 1] \in Seq(S)
      OBVIOUS
    <3>2. flat[i + 1] = flat[i] \o seqs[i + 1]
      BY <1>4, <3>1 DEF FlattenedBy
    <3>3. flat[i] \in Seq(S)
      BY <2>2
    <3>4. flat[i] \o seqs[i + 1] \in Seq(S)
      BY <3>1, <3>3, ConcatProperties
    <3>5. QED
      BY <3>1, <3>2, <3>4, Zenon
  <2> HIDE DEF V
  <2>3. \A i \in 0..n : i \in V
    BY <2>1, <2>2, Counting, Zenon
  <2>4. QED
    BY <2>3 DEF V
<1>6. FlattenSeq(seqs) = flat[n]
  <2>1. CASE n = 0
    <3>1. FlattenSeq(seqs) = seqs /\ seqs = <<>>
      <4>1. Len(seqs) = 0 /\ seqs = <<>>
        BY <2>1, EmptySeq, Zenon
      <4>2. QED
        BY <4>1, Zenon DEF FlattenSeq
    <3>2. flat[0] = <<>>
      BY <1>4 DEF FlattenedBy
    <3>3. QED
      BY <2>1, <3>1, <3>2
  <2>2. CASE n # 0
    <3> DEFINE Good(g) == g = [i \in 1..n |-> IF i = 1 THEN seqs[i] ELSE g[i - 1] \o seqs[i]]
               h == [i \in 1..n |-> flat[i]]
               f == CHOOSE g : Good(g)
    <3>1. \A i \in 1..n : flat[i] = IF i = 1 THEN seqs[i] ELSE flat[i - 1] \o seqs[i]
      <4>1. TAKE i \in 1..n
      <4>2. flat[i] = flat[i - 1] \o seqs[i] /\ flat[0] = <<>> /\ seqs[i] \in Seq(S)
        <5>1. i \in 0..n /\ i # 0 /\ 0 \in 0..n /\ seqs[i] \in Seq(S)
          OBVIOUS
        <5>2. QED
          BY <1>4, <5>1, Zenon DEF FlattenedBy
      <4>3. <<>> \o seqs[i] = seqs[i]
        BY <4>2, ConcatEmptySeq
      <4>4. i = 1 => i - 1 = 0
        OBVIOUS
      <4>5. QED
        BY <4>2, <4>3, <4>4, Zenon
    <3>2. Good(h)
      BY <3>1
    <3>3. Good(f)
      BY <3>2, Zenon
    <3>4. FlattenSeq(seqs) = f[n]
      BY <2>2 DEF FlattenSeq
    <3> HIDE DEF f
    <3> DEFINE V == {i \in 0..n : i # 0 => f[i] = flat[i]}
    <3>5. 0 \in V
      OBVIOUS
    <3>6. ASSUME NEW i \in 0..n - 1, i \in V PROVE i + 1 \in V
      <4>1. i + 1 \in 1..n /\ (i + 1) - 1 = i /\ i + 1 \in 0..n
        OBVIOUS
      <4>2. f[i + 1] = IF i + 1 = 1 THEN seqs[i + 1] ELSE f[i] \o seqs[i + 1]
        BY <3>3, <4>1, Zenon
      <4>3. flat[i + 1] = IF i + 1 = 1 THEN seqs[i + 1] ELSE flat[i] \o seqs[i + 1]
        BY <3>1, <4>1
      <4>4. QED
        BY <3>6, <4>1, <4>2, <4>3
    <3> HIDE DEF V
    <3>7. \A i \in 0..n : i \in V
      BY <3>5, <3>6, Counting, Zenon
    <3>8. QED
      BY <2>2, <3>4, <3>7 DEF V
  <2>3. QED
    BY <2>1, <2>2
<1>7. QED
  BY <1>4, <1>5, <1>6

-----------------------------------------------------------------------------
(* The dump: reading back what was packed.  The facts that only this needs *)
(* are steps of the proof.                                                 *)

\* The data has the sequence w from position at on.
At(data, at, w) == \A j \in 1..Len(w) : data[at + j - 1] = w[j]

\* The data has the blobs bs, of one byte each, from position at on.
BlobsAt(data, at, bs) ==
  \A j \in 1..Len(bs) : data[at + 2 * (j - 1)] = 1 /\ data[at + 2 * (j - 1) + 1] = bs[j]

NextBlob(data, x) ==
  LET blob == read_blob(data, x.at)
  IN  [got |-> Append(x.got, blob.got[1]), at |-> blob.at]

\* read has what the first i blobs gave.
BlobsReadBy(read, data, n, at) ==
  read = [i \in 0..n |-> IF i = 0 THEN [got |-> <<>>, at |-> at] ELSE NextBlob(data, read[i - 1])]

\* The sequence w, of length m, packs the blobs bs.
PackedAs(w, m, bs, V) ==
  /\ w \in Seq(V) /\ Len(w) = m
  /\ \A data : \A at \in Nat : At(data, at, w) => BlobsAt(data, at, bs)

\* A list of the members of a finite set.
Listing(fields, n, D) ==
  /\ fields \in [1..n -> D]
  /\ IsInjective(fields)
  /\ \A x \in D : \E i \in 1..n : fields[i] = x

\* The fields of a hash and their values, in turn.
Interleaved(fields, h, n) ==
  [j \in 1..2 * n |-> IF j % 2 = 1 THEN fields[(j + 1) \div 2] ELSE h[fields[j \div 2]]]

InTurn(w, fields, h, n) ==
  \A i \in 1..n : /\ 2 * i - 1 \in 1..2 * n /\ w[2 * i - 1] = fields[i]
                   /\ 2 * i \in 1..2 * n /\ w[2 * i] = h[fields[i]]

\* ... and a hash.
HashOf(items, n) ==
  LET odd == {i \in 1..n : i % 2 = 1}
  IN  [f \in {items[i] : i \in odd} |-> items[1 + CHOOSE i \in odd : items[i] = f]]

\* Reading an entry gives back the key and the entry, and ends after it.
EntryRead(data, at, k, e) ==
  /\ read_entry(data, at).got = [key |-> k, entry |-> e]
  /\ read_entry(data, at).at = at + Len(PackEntry(k, e))

\* Where the parts of an entry are.
PartsAt(data, at, k, e) ==
  /\ At(data, at, pack_bytes(<<k>>))
  /\ TypeIds[data[at + 2]] = e.type
  /\ data[at + 3] = e.expire
  /\ At(data, at + 4, PackValue(e))

\* What read_entry takes for the value of this type that starts there, and where it ends.
CountAt(data, type, start) == IF type = "HASH" THEN 2 * data[start] ELSE data[start]

ItemsAt(data, type, start) == read_blobs(data, CountAt(data, type, start), start + 1)

ValueAt(data, type, start) ==
  CASE type = "STRING" -> read_blob(data, start).got
    [] type = "LIST" -> ItemsAt(data, type, start).got
    [] type = "HASH" -> HashOf(ItemsAt(data, type, start).got, CountAt(data, type, start))

EndAt(data, type, start) ==
  IF type = "STRING" THEN read_blob(data, start).at ELSE ItemsAt(data, type, start).at

NextEntry(data, x) ==
  LET next == read_entry(data, x.at)
  IN  [got |-> Append(x.got, next.got), at |-> next.at]

\* read has what the first i entries gave.
EntriesReadBy(read, data, n) ==
  read = [i \in 0..n |-> IF i = 0 THEN [got |-> <<>>, at |-> 4] ELSE NextEntry(data, read[i - 1])]

\* What the body of a dump is made of, and its entries, packed and as they are read.
Bytes(Key, Blob) == Key \cup Blob \cup Int \cup {"BYOR"}

Packed(s) == [i \in 1..Len(s.dict) |-> PackEntry(s.dict[i], s.entry[s.dict[i]])]

Rows(s) == [i \in 1..Len(s.dict) |-> [key |-> s.dict[i], entry |-> s.entry[s.dict[i]]]]

PackedBy(flat, s, n, S) ==
  /\ Packed(s) \in Seq(Seq(S)) /\ Len(Packed(s)) = n
  /\ FlattenedBy(flat, Packed(s), n)
  /\ FlattenSeq(Packed(s)) = flat[n]
  /\ \A i \in 0..n : flat[i] \in Seq(S)

\* The entries were read in dictionary order, and the data ends after them.
RowsRead(data, s) ==
  /\ read_entries(data).got = Rows(s)
  /\ read_entries(data).at = 4 + Len(FlattenSeq(Packed(s)))

\* The two halves of a concatenation.
JoinOf(x, u, v) ==
  /\ \A j \in 1..Len(u) : x[j] = u[j]
  /\ \A j \in 1..Len(v) : x[Len(u) + j] = v[j]
  /\ SubSeq(x, Len(u) + 1, Len(x)) = v

\* The data is the body of a dump of s, its checksum and the footer.
DumpOf(data, body, s) ==
  /\ data = body \o <<Crc(body), "EOF">>
  /\ Len(body) = 3 + Len(FlattenSeq(Packed(s)))
  /\ data[1] = "BYOR" /\ data[2] = 2 /\ data[3] = Len(s.dict)
  /\ At(data, 4, FlattenSeq(Packed(s)))

NextLoaded(x, row, t) == IF is_expired(row.entry, t) THEN x ELSE set_entry(x, row.key, row.entry)

\* after has the store after the first i entries.
LoadedBy(after, rows, n, t) ==
  after = [i \in 0..n |-> IF i = 0 THEN EmptyStore ELSE NextLoaded(after[i - 1], rows[i], t)]

(* What a dump gives back: load_rdb_bytes accepts every dump that          *)
(* dump_rdb_entries writes, and loading it gives a well-formed store with  *)
(* exactly the entries, types, values and expiry times included, of the    *)
(* keys that have not expired by then.  (Of expiry times that struct.pack  *)
(* does not take no dump is written: Packable in Keyspace.)                *)
THEOREM RdbRoundTrip ==
  \A Key, Blob, s : IsStore(s, Key, Blob) =>
    \A t \in Nat : /\ rdb_accepted(dump_rdb_entries(s))
                   /\ IsStore(load_rdb(dump_rdb_entries(s), t), Key, Blob)
                   /\ load_rdb(dump_rdb_entries(s), t).entry = Live(s.entry, t)
<1>AtConcat.
    ASSUME NEW S, NEW u \in Seq(S), NEW v \in Seq(S), NEW data, NEW at \in Nat,
           At(data, at, u \o v)
    PROVE  At(data, at, u) /\ At(data, at + Len(u), v)
  <2> USE <1>AtConcat
  <2>1. PICK m \in Nat, n \in Nat : m = Len(u) /\ n = Len(v)
    OBVIOUS
  <2>2. /\ Len(u \o v) = m + n
        /\ \A j \in 1..m : (u \o v)[j] = u[j]
        /\ \A j \in 1..n : (u \o v)[m + j] = v[j]
    BY <2>1
  <2>3. \A j \in 1..m + n : data[at + j - 1] = (u \o v)[j]
    BY <2>2 DEF At
  <2>4. \A j \in 1..m : data[at + j - 1] = u[j]
    <3>1. \A j \in 1..m : j \in 1..m + n
      OBVIOUS
    <3>2. QED
      BY <2>2, <2>3, <3>1, Zenon
  <2>5. ASSUME NEW j \in 1..n PROVE data[(at + m) + j - 1] = v[j]
    <3>1. m + j \in 1..m + n /\ at + (m + j) - 1 = (at + m) + j - 1
      OBVIOUS
    <3>2. QED
      BY <2>2, <2>3, <3>1, Zenon
  <2>6. QED
    BY <2>1, <2>4, <2>5 DEF At
<1>ReadBlob.
    ASSUME NEW S, NEW b \in Seq(S), NEW data, NEW at \in Nat, At(data, at, pack_bytes(b))
    PROVE  read_blob(data, at).got = b /\ read_blob(data, at).at = at + 1 + Len(b)
  <2> USE <1>ReadBlob
  <2>1. PICK n \in Nat : n = Len(b)
    OBVIOUS
  <2>2. /\ Len(pack_bytes(b)) = n + 1
        /\ pack_bytes(b)[1] = n
        /\ \A j \in 1..n : pack_bytes(b)[j + 1] = b[j]
    BY <2>1 DEF pack_bytes
  <2>3. \A j \in 1..n + 1 : data[at + j - 1] = pack_bytes(b)[j]
    BY <2>2, Zenon DEF At
  <2>4. data[at] = n
    <3>1. 1 \in 1..n + 1 /\ at + 1 - 1 = at
      OBVIOUS
    <3>2. QED
      BY <2>2, <2>3, <3>1, Zenon
  <2>5. \A j \in 1..n : data[at + j] = b[j]
    <3>1. \A j \in 1..n : j + 1 \in 1..n + 1 /\ at + (j + 1) - 1 = at + j
      OBVIOUS
    <3>2. QED
      BY <2>2, <2>3, <3>1, Zenon
  <2>6. SubSeq(data, at + 1, at + n) = [j \in 1..n |-> data[at + j]]
    OBVIOUS
  <2>7. [j \in 1..n |-> data[at + j]] = b
    <3>1. b = [j \in 1..n |-> b[j]]
      BY <2>1
    <3>2. QED
      BY <2>5, <3>1, Zenon
  <2>8. QED
    BY <2>1, <2>4, <2>6, <2>7, Zenon DEF read_blob
\* The prefixes of what was flattened are where their lengths say.
<1>AtFlatten.
    ASSUME NEW S, NEW seqs \in Seq(Seq(S)), NEW n \in Nat, n = Len(seqs),
           NEW flat, FlattenedBy(flat, seqs, n), \A i \in 0..n : flat[i] \in Seq(S),
           NEW data, NEW at \in Nat, At(data, at, flat[n])
    PROVE  \A i \in 1..n : At(data, at + Len(flat[i - 1]), seqs[i])
  <2> USE <1>AtFlatten
  <2>1. ASSUME NEW i \in 1..n
        PROVE  /\ flat[i] = flat[i - 1] \o seqs[i]
               /\ flat[i - 1] \in Seq(S) /\ seqs[i] \in Seq(S)
    <3>1. i \in 0..n /\ i # 0 /\ i - 1 \in 0..n
      OBVIOUS
    <3>2. flat[i] = flat[i - 1] \o seqs[i]
      BY <3>1, Zenon DEF FlattenedBy
    <3>3. QED
      BY <3>1, <3>2
  <2> DEFINE T == {i \in 0..n : At(data, at, flat[n - i])}
  <2>2. 0 \in T
    OBVIOUS
  <2>3. ASSUME NEW i \in 0..n - 1, i \in T PROVE i + 1 \in T
    <3>1. n - i \in 1..n /\ (n - i) - 1 = n - (i + 1) /\ i + 1 \in 0..n
      OBVIOUS
    <3>2. At(data, at, flat[n - i])
      BY <2>3
    <3>3. PICK k \in 1..n : k = n - i
      BY <3>1, Zenon
    <3>4. At(data, at, flat[k - 1] \o seqs[k]) /\ flat[k - 1] \in Seq(S) /\ seqs[k] \in Seq(S)
      BY <2>1, <3>2, <3>3, Zenon
    <3>5. At(data, at, flat[k - 1])
      BY <3>4, <1>AtConcat
    <3>6. QED
      BY <3>1, <3>3, <3>5
  <2>4. \A i \in 0..n : i \in T
    <3> HIDE DEF T
    <3>1. QED
      BY <2>2, <2>3, Counting, Zenon
  <2>5. TAKE i \in 1..n
  <2>6. n - i \in 0..n /\ n - (n - i) = i
    OBVIOUS
  <2>7. At(data, at, flat[i])
    BY <2>4, <2>6
  <2>8. QED
    BY <2>1, <2>7, <1>AtConcat, Zenon
<1>ReadBlobsSteps.
    ASSUME NEW data, NEW n \in Nat, NEW at
    PROVE  \E read : BlobsReadBy(read, data, n, at) /\ read_blobs(data, n, at) = read[n]
  <2> USE <1>ReadBlobsSteps
  <2> DEFINE Step(x, i) == NextBlob(data, x)
             Good(g, k) == g = [i \in 0..k |-> IF i = 0 THEN [got |-> <<>>, at |-> at] ELSE Step(g[i - 1], i)]
             T == {k \in Nat : \E g : Good(g, k)}
  <2>1. 0 \in T
    <3>1. Good([i \in 0..0 |-> [got |-> <<>>, at |-> at]], 0)
      OBVIOUS
    <3>2. QED
      BY <3>1, Zenon
  <2>2. ASSUME NEW k \in T PROVE k + 1 \in T
    <3>1. PICK g : Good(g, k)
      OBVIOUS
    <3> DEFINE h == [i \in 0..k + 1 |-> IF i = k + 1 THEN Step(g[k], i) ELSE g[i]]
    <3> HIDE DEF Step
    <3>2. \A i \in 0..k : h[i] = g[i]
      OBVIOUS
    <3>3. ASSUME NEW i \in 0..k + 1
          PROVE  h[i] = IF i = 0 THEN [got |-> <<>>, at |-> at] ELSE Step(h[i - 1], i)
      <4>1. CASE i = k + 1
        BY <3>2, <4>1
      <4>2. CASE i \in 0..k
        BY <3>1, <3>2, <4>2
      <4>3. QED
        BY <4>1, <4>2
    <3>4. Good(h, k + 1)
      BY <3>3
    <3>5. QED
      <4> HIDE DEF Good, h
      <4>1. \E f : Good(f, k + 1)
        BY <3>4, Zenon
      <4>2. QED
        BY <4>1
  <2>3. n \in T
    <3> HIDE DEF T
    <3>1. \A i \in 0..n : i \in T
      BY <2>1, <2>2, Counting, Zenon
    <3>2. QED
      BY <3>1
  <2>4. \E g : Good(g, n)
    BY <2>3
  <2> DEFINE read == CHOOSE g : Good(g, n)
  <2>5. Good(read, n)
    BY <2>4, Zenon
  <2>6. read_blobs(data, n, at) = read[n]
    BY DEF read_blobs, NextBlob
  <2> HIDE DEF read
  <2>7. QED
    BY <2>5, <2>6, Zenon DEF BlobsReadBy
<1>ReadBlobs.
    ASSUME NEW S, NEW bs \in Seq(S), NEW n \in Nat, n = Len(bs), NEW data, NEW at \in Nat,
           BlobsAt(data, at, bs)
    PROVE  read_blobs(data, n, at).got = bs /\ read_blobs(data, n, at).at = at + 2 * n
  <2> USE <1>ReadBlobs
  <2>1. PICK read : BlobsReadBy(read, data, n, at) /\ read_blobs(data, n, at) = read[n]
    BY <1>ReadBlobsSteps, SMTT(20)
  <2> DEFINE T == {i \in 0..n : read[i].got = SubSeq(bs, 1, i) /\ read[i].at = at + 2 * i}
  <2>2. 0 \in T
    <3>1. 0 \in 0..n /\ SubSeq(bs, 1, 0) = <<>> /\ at + 2 * 0 = at
      OBVIOUS
    <3>2. read[0] = [got |-> <<>>, at |-> at]
      BY <2>1, <3>1, Zenon DEF BlobsReadBy
    <3>3. read[0].got = <<>> /\ read[0].at = at
      BY <3>2
    <3>4. QED
      BY <3>1, <3>3, Zenon
  <2>3. ASSUME NEW i \in 0..n - 1, i \in T PROVE i + 1 \in T
    <3>1. i + 1 \in 0..n /\ i + 1 # 0 /\ (i + 1) - 1 = i /\ i + 1 \in 1..n
      OBVIOUS
    <3>2. read[i + 1] = NextBlob(data, read[i])
      BY <2>1, <3>1, Zenon DEF BlobsReadBy
    <3>3. read[i].got = SubSeq(bs, 1, i) /\ read[i].at = at + 2 * i
      BY <2>3
    <3>4. data[at + 2 * i] = 1 /\ data[at + 2 * i + 1] = bs[i + 1]
      BY <3>1 DEF BlobsAt
    <3> DEFINE blob == read_blob(data, at + 2 * i)
    <3>5. blob.got = SubSeq(data, at + 2 * i + 1, at + 2 * i + 1) /\ blob.at = at + 2 * i + 1 + 1
      BY <3>4 DEF read_blob
    <3>6. PICK p \in Nat : p = at + 2 * i + 1
      OBVIOUS
    <3>7. SubSeq(data, p, p)[1] = data[p]
      OBVIOUS
    <3> HIDE DEF blob
    <3>8. blob.got[1] = bs[i + 1] /\ blob.at = at + 2 * (i + 1)
      BY <3>4, <3>5, <3>6, <3>7
    <3>9. read[i + 1].got = Append(SubSeq(bs, 1, i), bs[i + 1]) /\ read[i + 1].at = at + 2 * (i + 1)
      BY <3>2, <3>3, <3>8 DEF NextBlob, blob
    <3>10. Append(SubSeq(bs, 1, i), bs[i + 1]) = SubSeq(bs, 1, i + 1)
      BY <3>1
    <3>11. QED
      BY <3>1, <3>9, <3>10
  <2>4. n \in T
    <3> HIDE DEF T
    <3>1. \A i \in 0..n : i \in T
      BY <2>2, <2>3, Counting, Zenon
    <3>2. QED
      BY <3>1
  <2>5. SubSeq(bs, 1, n) = bs
    OBVIOUS
  <2>6. QED
    BY <2>1, <2>4, <2>5
<1>PackOne.
    ASSUME NEW b
    PROVE  pack_bytes(<<b>>) = <<1, b>>
  <2> USE <1>PackOne
  <2>1. Len(<<b>>) = 1
    OBVIOUS
  <2>2. <<1>> \o <<b>> = <<1, b>>
    <3>1. PICK U : 1 \in U /\ b \in U
      <4>1. 1 \in {1, b} /\ b \in {1, b}
        OBVIOUS
      <4>2. QED
        BY <4>1, Zenon
    <3>2. <<1>> \in Seq(U) /\ <<b>> \in Seq(U) /\ Len(<<1>>) = 1 /\ Len(<<b>>) = 1
      BY <3>1
    <3>3. <<1>> \o <<b>> = Append(<<1>>, b)
      BY <3>1, <3>2, AppendIsConcat
    <3>4. Append(<<1>>, b) = <<1, b>>
      <4> DEFINE u == Append(<<1>>, b)
                 v == <<1, b>>
      <4>1. u \in Seq(U) /\ Len(u) = 2 /\ u[1] = 1 /\ u[2] = b
        BY <3>1, <3>2
      <4>2. v \in Seq(U) /\ Len(v) = 2 /\ v[1] = 1 /\ v[2] = b
        BY <3>1
      <4> HIDE DEF u, v
      <4>3. u = v
        BY <4>1, <4>2
      <4>4. QED
        BY <4>3 DEF u, v
    <3>5. QED
      BY <3>3, <3>4, Zenon
  <2>3. QED
    BY <2>1, <2>2, Zenon DEF pack_bytes
\* What pack_all packs.
<1>PackedBlobs.
    ASSUME NEW S, NEW bs \in Seq(S), NEW n \in Nat, n = Len(bs)
    PROVE  PackedAs(pack_all(bs), 2 * n, bs, S \cup Nat)
  <2> USE <1>PackedBlobs
  <2> DEFINE V == S \cup Nat
             seqs == [i \in 1..n |-> pack_bytes(<<bs[i]>>)]
  <2>1. \A i \in 1..n : pack_bytes(<<bs[i]>>) = <<1, bs[i]>>
    BY <1>PackOne, Zenon
  <2>2. \A i \in 1..n : <<1, bs[i]>> \in Seq(V)
    OBVIOUS
  <2>3. seqs \in Seq(Seq(V)) /\ Len(seqs) = n /\ \A i \in 1..n : seqs[i] = <<1, bs[i]>>
    <3> DEFINE pair(i) == pack_bytes(<<bs[i]>>)
    <3>1. \A i \in 1..n : pair(i) \in Seq(V)
      BY <2>1, <2>2, Zenon
    <3>2. seqs = [i \in 1..n |-> pair(i)]
      OBVIOUS
    <3> HIDE DEF seqs, pair, V
    <3>3. seqs \in Seq(Seq(V)) /\ Len(seqs) = n /\ \A i \in 1..n : seqs[i] = pair(i)
      BY <3>1, <3>2
    <3>4. QED
      BY <2>1, <3>3, Zenon DEF pair
  <2>4. pack_all(bs) = FlattenSeq(seqs)
    <3>1. DOMAIN bs = 1..n
      OBVIOUS
    <3>2. QED
      BY <3>1, Zenon DEF pack_all
  <2> HIDE DEF V, seqs
  <2>5. PICK flat : /\ FlattenedBy(flat, seqs, n)
                    /\ FlattenSeq(seqs) = flat[n]
                    /\ \A i \in 0..n : flat[i] \in Seq(V)
    BY <2>3, FlattenSteps
  <2> DEFINE T == {i \in 0..n : Len(flat[i]) = 2 * i}
  <2>6. 0 \in T
    <3>1. 0 \in 0..n /\ Len(<<>>) = 2 * 0
      OBVIOUS
    <3>2. flat[0] = <<>>
      BY <2>5, <3>1, Zenon DEF FlattenedBy
    <3>3. QED
      BY <3>1, <3>2
  <2>7. ASSUME NEW i \in 0..n - 1, i \in T PROVE i + 1 \in T
    <3>1. i + 1 \in 0..n /\ i + 1 # 0 /\ (i + 1) - 1 = i /\ i + 1 \in 1..n /\ i \in 0..n
      OBVIOUS
    <3>2. flat[i + 1] = flat[i] \o seqs[i + 1]
      BY <2>5, <3>1, Zenon DEF FlattenedBy
    <3>3. flat[i] \in Seq(V) /\ Len(flat[i]) = 2 * i /\ seqs[i + 1] = <<1, bs[i + 1]>>
      BY <2>3, <2>5, <2>7, <3>1, Zenon
    <3>4. Len(flat[i] \o <<1, bs[i + 1]>>) = 2 * i + 2
      <4>1. <<1, bs[i + 1]>> \in Seq(V) /\ Len(<<1, bs[i + 1]>>) = 2
        BY <2>2, <3>1
      <4>2. Len(flat[i] \o <<1, bs[i + 1]>>) = Len(flat[i]) + Len(<<1, bs[i + 1]>>)
        BY <3>3, <4>1, ConcatProperties, Zenon
      <4>3. QED
        BY <3>3, <4>1, <4>2, i \in 0..n - 1
    <3>5. QED
      BY <3>1, <3>2, <3>3, <3>4
  <2>8. \A i \in 0..n : Len(flat[i]) = 2 * i
    <3> HIDE DEF T
    <3>1. \A i \in 0..n : i \in T
      BY <2>6, <2>7, Counting, Zenon
    <3>2. QED
      BY <3>1 DEF T
  <2>9. ASSUME NEW data, NEW at \in Nat, At(data, at, pack_all(bs))
        PROVE  \A i \in 1..n : At(data, at + Len(flat[i - 1]), seqs[i])
    BY <2>3, <2>4, <2>5, <2>9, <1>AtFlatten, Zenon
  <2>10. ASSUME NEW data, NEW at \in Nat, At(data, at, pack_all(bs))
         PROVE  BlobsAt(data, at, bs)
    <3>1. SUFFICES ASSUME NEW j \in 1..n
                   PROVE  data[at + 2 * (j - 1)] = 1 /\ data[at + 2 * (j - 1) + 1] = bs[j]
      BY DEF BlobsAt
    <3>2. j - 1 \in 0..n
      OBVIOUS
    <3>3. At(data, at + 2 * (j - 1), <<1, bs[j]>>)
      <4>1. \A i \in 1..n : At(data, at + Len(flat[i - 1]), seqs[i])
        BY <2>9, <2>10
      <4>2. QED
        BY <2>3, <2>8, <3>2, <4>1, Zenon
    <3>4. PICK p \in Nat : p = at + 2 * (j - 1)
      <4>1. j - 1 \in Nat
        OBVIOUS
      <4>2. QED
        BY <4>1
    <3>5. At(data, p, <<1, bs[j]>>)
      BY <3>3, <3>4
    <3>6. data[p] = 1 /\ data[p + 1] = bs[j]
      BY <3>5 DEF At
    <3>7. QED
      BY <3>4, <3>6
  <2>11. QED
    BY <2>4, <2>5, <2>8, <2>10 DEF V, PackedAs
<1>ListOfSet.
    ASSUME NEW D, IsFiniteSet(D), NEW n, n = Cardinality(D)
    PROVE  n \in Nat /\ Listing(SetToSeq(D), n, D)
  <2> USE <1>ListOfSet
  <2>1. n \in Nat /\ ExistsBijection(1..n, D)
    BY FS_CardinalityType
  <2>2. \E f \in [1..n -> D] : IsInjective(f)
    BY <2>1 DEF ExistsBijection, Bijection, Injection
  <2> DEFINE fields == SetToSeq(D)
  <2>3. fields \in [1..n -> D] /\ IsInjective(fields)
    BY <2>2, Zenon DEF SetToSeq
  <2> HIDE DEF fields
  <2>4. fields \in Injection(1..n, D)
    BY <2>3, Zenon DEF Injection
  <2>5. Cardinality(1..n) = n
    BY <2>1, FS_Interval
  <2>6. fields \in Surjection(1..n, D)
    BY <2>4, <2>5, FS_Injection
  <2>7. \A x \in D : \E i \in 1..n : fields[i] = x
    BY <2>6, Zenon DEF Surjection
  <2>8. QED
    BY <2>1, <2>3, <2>7 DEF fields, Listing
<1>InterleavedAt.
    ASSUME NEW fields, NEW h, NEW n \in Nat
    PROVE  InTurn(Interleaved(fields, h, n), fields, h, n)
  <2> USE <1>InterleavedAt
  <2> SUFFICES ASSUME NEW i \in 1..n
               PROVE  /\ 2 * i - 1 \in 1..2 * n /\ Interleaved(fields, h, n)[2 * i - 1] = fields[i]
                      /\ 2 * i \in 1..2 * n /\ Interleaved(fields, h, n)[2 * i] = h[fields[i]]
    BY DEF InTurn
  <2>1. 2 * i - 1 \in 1..2 * n /\ 2 * i \in 1..2 * n
    OBVIOUS
  <2>2. (2 * i - 1) % 2 = 1 /\ ((2 * i - 1) + 1) \div 2 = i /\ (2 * i) % 2 = 0 /\ (2 * i) \div 2 = i
    OBVIOUS
  <2>3. QED
    BY <2>1, <2>2 DEF Interleaved
<1>Halves.
    ASSUME NEW n \in Nat, NEW j \in 1..2 * n
    PROVE  \E i \in 1..n : j = 2 * i - 1 \/ j = 2 * i
  <2> USE <1>Halves
  <2>1. CASE j % 2 = 1
    <3>1. (j + 1) \div 2 \in 1..n /\ j = 2 * ((j + 1) \div 2) - 1
      BY <2>1
    <3>2. QED
      BY <3>1
  <2>2. CASE j % 2 = 0
    <3>1. j \div 2 \in 1..n /\ j = 2 * (j \div 2)
      BY <2>2
    <3>2. QED
      BY <3>1
  <2>3. QED
    BY <2>1, <2>2
\* What PackValue packs for a hash.
<1>PackedPairs.
    ASSUME NEW Blob, NEW n \in Nat, NEW D, NEW fields, Listing(fields, n, D),
           D \subseteq Blob, NEW h \in [D -> Blob],
           NEW seqs, seqs = [i \in 1..n |-> pack_all(<<fields[i], h[fields[i]]>>)]
    PROVE  PackedAs(FlattenSeq(seqs), 4 * n, Interleaved(fields, h, n), Blob \cup Nat)
  <2> USE <1>PackedPairs
  <2> DEFINE V == Blob \cup Nat
             pair(i) == <<fields[i], h[fields[i]]>>
             w == Interleaved(fields, h, n)
  <2>1. \A i \in 1..n : /\ pack_all(pair(i)) \in Seq(V) /\ Len(pack_all(pair(i))) = 4
                        /\ \A data : \A at \in Nat :
                             At(data, at, pack_all(pair(i))) => BlobsAt(data, at, pair(i))
    <3>1. TAKE i \in 1..n
    <3>2. fields[i] \in Blob /\ h[fields[i]] \in Blob
      BY DEF Listing
    <3>3. pair(i) \in Seq(Blob) /\ 2 \in Nat /\ 2 = Len(pair(i)) /\ 2 * 2 = 4
      BY <3>2
    <3> HIDE DEF pair, V
    <3>4. PackedAs(pack_all(pair(i)), 2 * 2, pair(i), V)
      BY <3>3, <1>PackedBlobs, Zenon DEF V
    <3>5. QED
      BY <3>3, <3>4, Zenon DEF PackedAs
  <2> HIDE DEF V
  <2>2. seqs \in Seq(Seq(V)) /\ n = Len(seqs) /\ \A i \in 1..n : seqs[i] = pack_all(pair(i))
    <3> DEFINE packed(i) == pack_all(pair(i))
    <3>1. \A i \in 1..n : packed(i) \in Seq(V)
      BY <2>1, Zenon
    <3>2. seqs = [i \in 1..n |-> packed(i)]
      OBVIOUS
    <3> HIDE DEF packed
    <3>3. seqs \in Seq(Seq(V)) /\ n = Len(seqs) /\ \A i \in 1..n : seqs[i] = packed(i)
      BY <3>1, <3>2
    <3>4. QED
      BY <3>3, Zenon DEF packed
  <2>3. PICK flat : /\ FlattenedBy(flat, seqs, n)
                    /\ FlattenSeq(seqs) = flat[n]
                    /\ \A i \in 0..n : flat[i] \in Seq(V)
    BY <2>2, FlattenSteps, Zenon
  <2> DEFINE T == {i \in 0..n : Len(flat[i]) = 4 * i}
  <2>4. 0 \in T
    <3>1. 0 \in 0..n /\ Len(<<>>) = 4 * 0
      OBVIOUS
    <3>2. flat[0] = <<>>
      BY <2>3, <3>1, Zenon DEF FlattenedBy
    <3>3. QED
      BY <3>1, <3>2
  <2>5. ASSUME NEW i \in 0..n - 1, i \in T PROVE i + 1 \in T
    <3>1. i + 1 \in 0..n /\ i + 1 # 0 /\ (i + 1) - 1 = i /\ i + 1 \in 1..n /\ i \in 0..n
      OBVIOUS
    <3>2. flat[i + 1] = flat[i] \o seqs[i + 1]
      BY <2>3, <3>1, Zenon DEF FlattenedBy
    <3>3. flat[i] \in Seq(V) /\ Len(flat[i]) = 4 * i
      BY <2>3, <2>5, <3>1
    <3>4. seqs[i + 1] \in Seq(V) /\ Len(seqs[i + 1]) = 4
      <4> HIDE DEF pair
      <4>1. QED
        BY <2>1, <2>2, <3>1, Zenon
    <3>5. Len(flat[i] \o seqs[i + 1]) = Len(flat[i]) + Len(seqs[i + 1])
      BY ONLY <3>3, <3>4, ConcatProperties, Zenon
    <3>6. Len(flat[i + 1]) = 4 * (i + 1)
      BY ONLY i \in 0..n - 1, n \in Nat, <3>2, <3>3, <3>4, <3>5
    <3>7. QED
      BY <3>1, <3>6
  <2>6. \A i \in 0..n : Len(flat[i]) = 4 * i
    <3> HIDE DEF T
    <3>1. \A i \in 0..n : i \in T
      BY <2>4, <2>5, Counting, Zenon
    <3>2. QED
      BY <3>1 DEF T
  <2>7. ASSUME NEW data, NEW at \in Nat, At(data, at, FlattenSeq(seqs)), NEW i \in 1..n
        PROVE  /\ data[at + 4 * (i - 1)] = 1 /\ data[at + 4 * (i - 1) + 1] = fields[i]
               /\ data[at + 4 * (i - 1) + 2] = 1 /\ data[at + 4 * (i - 1) + 3] = h[fields[i]]
    <3>1. \A k \in 1..n : At(data, at + Len(flat[k - 1]), seqs[k])
      BY <2>2, <2>3, <2>7, <1>AtFlatten, Zenon
    <3>2. PICK p \in Nat : p = at + 4 * (i - 1)
      <4>1. i - 1 \in Nat
        OBVIOUS
      <4>2. QED
        BY <4>1
    <3>3. i - 1 \in 0..n
      OBVIOUS
    <3>4. At(data, p, seqs[i])
      BY <2>6, <3>1, <3>2, <3>3, Zenon
    <3>5. BlobsAt(data, p, pair(i))
      <4> HIDE DEF pair
      <4>1. QED
        BY <2>1, <2>2, <3>4, Zenon
    <3>6. Len(pair(i)) = 2 /\ pair(i)[1] = fields[i] /\ pair(i)[2] = h[fields[i]]
      OBVIOUS
    <3> HIDE DEF pair
    <3>7. /\ data[p + 2 * (1 - 1)] = 1 /\ data[p + 2 * (1 - 1) + 1] = pair(i)[1]
          /\ data[p + 2 * (2 - 1)] = 1 /\ data[p + 2 * (2 - 1) + 1] = pair(i)[2]
      <4>1. 1 \in 1..2 /\ 2 \in 1..2
        OBVIOUS
      <4>2. QED
        BY <3>5, <3>6, <4>1, Zenon DEF BlobsAt
    <3>8. data[p] = 1 /\ data[p + 1] = pair(i)[1] /\ data[p + 2] = 1 /\ data[p + 3] = pair(i)[2]
      BY <3>7
    <3>9. QED
      BY <3>2, <3>6, <3>8
  <2>8. ASSUME NEW data, NEW at \in Nat, At(data, at, FlattenSeq(seqs))
        PROVE  BlobsAt(data, at, w)
    <3>1. Len(w) = 2 * n
      BY DEF Interleaved
    <3> HIDE DEF w
    <3>2. SUFFICES ASSUME NEW j \in 1..2 * n
                   PROVE  data[at + 2 * (j - 1)] = 1 /\ data[at + 2 * (j - 1) + 1] = w[j]
      BY <3>1 DEF BlobsAt
    <3>3. PICK i \in 1..n : j = 2 * i - 1 \/ j = 2 * i
      BY <1>Halves, Zenon
    <3>4. /\ data[at + 4 * (i - 1)] = 1 /\ data[at + 4 * (i - 1) + 1] = fields[i]
          /\ data[at + 4 * (i - 1) + 2] = 1 /\ data[at + 4 * (i - 1) + 3] = h[fields[i]]
      BY <2>7, <2>8
    <3>5. w[2 * i - 1] = fields[i] /\ w[2 * i] = h[fields[i]]
      <4>1. InTurn(w, fields, h, n)
        BY <1>InterleavedAt DEF w
      <4>2. QED
        BY <4>1 DEF InTurn
    <3>6. CASE j = 2 * i - 1
      <4>1. at + 2 * (j - 1) = at + 4 * (i - 1)
        BY <3>6
      <4>2. QED
        BY <3>4, <3>5, <3>6, <4>1
    <3>7. CASE j = 2 * i
      <4>1. at + 2 * (j - 1) = at + 4 * (i - 1) + 2 /\ at + 2 * (j - 1) + 1 = at + 4 * (i - 1) + 3
        BY <3>7
      <4>2. QED
        BY <3>4, <3>5, <3>7, <4>1
    <3>8. QED
      BY <3>3, <3>6, <3>7
  <2>9. FlattenSeq(seqs) \in Seq(V) /\ Len(FlattenSeq(seqs)) = 4 * n
    BY <2>3, <2>6
  <2>10. QED
    BY <2>8, <2>9, Zenon DEF V, PackedAs
\* Reading a value: a string ...
<1>ReadString.
    ASSUME NEW Blob, NEW e, IsEntry(e, Blob), e.type = "STRING", NEW data, NEW at \in Nat
    PROVE  /\ PackValue(e) \in Seq(Blob \cup Nat)
           /\ At(data, at, PackValue(e)) => /\ read_blob(data, at).got = e.value
                                            /\ read_blob(data, at).at = at + Len(PackValue(e))
  <2> USE <1>ReadString
  <2>1. e.value \in Seq(Blob)
    BY TypedValue
  <2>2. PackValue(e) = pack_bytes(e.value)
    BY DEF PackValue
  <2>3. PICK n \in Nat : n = Len(e.value)
    BY <2>1
  <2>4. pack_bytes(e.value) \in Seq(Blob \cup Nat) /\ Len(pack_bytes(e.value)) = n + 1
    BY <2>1, <2>3 DEF pack_bytes
  <2>5. ASSUME At(data, at, PackValue(e))
        PROVE  /\ read_blob(data, at).got = e.value
               /\ read_blob(data, at).at = at + Len(PackValue(e))
    <3>1. read_blob(data, at).got = e.value /\ read_blob(data, at).at = at + 1 + n
      <4>1. PICK v : v = e.value
        OBVIOUS
      <4>2. v \in Seq(Blob) /\ Len(v) = n /\ At(data, at, pack_bytes(v))
        BY <2>1, <2>2, <2>3, <2>5, <4>1
      <4>3. read_blob(data, at).got = v /\ read_blob(data, at).at = at + 1 + Len(v)
        BY <4>2, <1>ReadBlob
      <4>4. QED
        BY <4>1, <4>2, <4>3
    <3>2. QED
      BY <2>2, <2>4, <3>1
  <2>6. QED
    BY <2>2, <2>4, <2>5
\* ... a list ...
<1>ReadList.
    ASSUME NEW Blob, NEW e, IsEntry(e, Blob), e.type = "LIST", NEW data, NEW at \in Nat
    PROVE  /\ PackValue(e) \in Seq(Blob \cup Nat)
           /\ At(data, at, PackValue(e)) =>
                LET items == read_blobs(data, data[at], at + 1)
                IN  items.got = e.value /\ items.at = at + Len(PackValue(e))
  <2> USE <1>ReadList
  <2> DEFINE w == pack_all(e.value)
             V == Blob \cup Nat
  <2>1. e.value \in Seq(Blob)
    BY TypedValue DEF Lists
  <2>2. PICK n \in Nat : n = Len(e.value)
    BY <2>1
  <2>3. PackValue(e) = <<n>> \o w
    BY <2>2 DEF PackValue
  <2>4. /\ w \in Seq(V) /\ Len(w) = 2 * n
        /\ \A d : \A p \in Nat : At(d, p, w) => BlobsAt(d, p, e.value)
    <3>1. PackedAs(w, 2 * n, e.value, V)
      BY <2>1, <2>2, <1>PackedBlobs
    <3> HIDE DEF w, V
    <3>2. QED
      BY <3>1, Zenon DEF PackedAs
  <2>5. n \in V
    OBVIOUS
  <2> HIDE DEF w, V
  <2>6. <<n>> \in Seq(V) /\ Len(<<n>>) = 1 /\ <<n>>[1] = n
    BY <2>5
  <2>7. PackValue(e) \in Seq(V) /\ Len(PackValue(e)) = 1 + 2 * n
    <3>1. <<n>> \o w \in Seq(V) /\ Len(<<n>> \o w) = Len(<<n>>) + Len(w)
      BY <2>4, <2>6, ConcatProperties
    <3>2. QED
      BY <2>3, <2>4, <2>6, <3>1
  <2>8. ASSUME At(data, at, PackValue(e))
        PROVE  LET items == read_blobs(data, data[at], at + 1)
               IN  items.got = e.value /\ items.at = at + Len(PackValue(e))
    <3>1. At(data, at, <<n>>) /\ At(data, at + 1, w)
      <4>1. At(data, at, <<n>>) /\ At(data, at + Len(<<n>>), w)
        BY <2>3, <2>4, <2>6, <2>8, <1>AtConcat, ZenonT(30)
      <4>2. QED
        BY <2>6, <4>1
    <3>2. data[at] = n
      BY <2>6, <3>1 DEF At
    <3>3. at + 1 \in Nat
      OBVIOUS
    <3>4. BlobsAt(data, at + 1, e.value)
      BY <2>4, <3>1, <3>3, Zenon
    <3>5. /\ read_blobs(data, n, at + 1).got = e.value
          /\ read_blobs(data, n, at + 1).at = (at + 1) + 2 * n
      <4>1. PICK v : v = e.value
        OBVIOUS
      <4>2. PICK p \in Nat : p = at + 1
        BY <3>3
      <4>3. v \in Seq(Blob) /\ n = Len(v) /\ BlobsAt(data, p, v)
        BY <2>1, <2>2, <3>4, <4>1, <4>2
      <4>4. read_blobs(data, n, p).got = v /\ read_blobs(data, n, p).at = p + 2 * n
        BY <4>3, <1>ReadBlobs
      <4>5. QED
        BY <4>1, <4>2, <4>4
    <3>6. (at + 1) + 2 * n = at + Len(PackValue(e))
      BY <2>7
    <3>7. QED
      BY <3>2, <3>5, <3>6, Zenon
  <2>9. QED
    BY <2>7, <2>8, Zenon DEF V
<1>HashOfInterleaved.
    ASSUME NEW D, NEW n \in Nat, NEW fields, Listing(fields, n, D), NEW h, h = [x \in D |-> h[x]]
    PROVE  HashOf(Interleaved(fields, h, n), 2 * n) = h
  <2> USE <1>HashOfInterleaved
  <2> DEFINE w == Interleaved(fields, h, n)
             odd == {j \in 1..2 * n : j % 2 = 1}
  <2>1. \A i \in 1..n : /\ 2 * i - 1 \in odd /\ w[2 * i - 1] = fields[i]
                        /\ w[1 + (2 * i - 1)] = h[fields[i]]
    <3>1. TAKE i \in 1..n
    <3>2. /\ 2 * i - 1 \in 1..2 * n /\ w[2 * i - 1] = fields[i]
          /\ 2 * i \in 1..2 * n /\ w[2 * i] = h[fields[i]]
      <4>1. InTurn(w, fields, h, n)
        BY <1>InterleavedAt
      <4> HIDE DEF w
      <4>2. QED
        BY <4>1 DEF InTurn
    <3> HIDE DEF w
    <3>3. (2 * i - 1) % 2 = 1 /\ 1 + (2 * i - 1) = 2 * i
      OBVIOUS
    <3>4. QED
      BY <3>2, <3>3
  <2>2. \A j \in odd : \E i \in 1..n : j = 2 * i - 1
    <3>1. TAKE j \in odd
    <3>2. j \in 1..2 * n /\ j % 2 = 1
      OBVIOUS
    <3> HIDE DEF odd
    <3>3. (j + 1) \div 2 \in 1..n /\ j = 2 * ((j + 1) \div 2) - 1
      BY ONLY <3>2, n \in Nat
    <3>4. QED
      BY <3>3
  <2> HIDE DEF w, odd
  <2>3. {w[j] : j \in odd} = D
    <3>1. ASSUME NEW j \in odd PROVE w[j] \in D
      <4>1. PICK i \in 1..n : j = 2 * i - 1
        BY <2>2
      <4>2. QED
        BY <2>1, <4>1, Zenon DEF Listing
    <3>2. ASSUME NEW x \in D PROVE \E j \in odd : w[j] = x
      <4>1. PICK i \in 1..n : fields[i] = x
        BY DEF Listing
      <4>2. QED
        BY <2>1, <4>1
    <3>3. QED
      BY <3>1, <3>2
  <2>4. ASSUME NEW x \in D
        PROVE  w[1 + CHOOSE j \in odd : w[j] = x] = h[x]
    <3> DEFINE c == CHOOSE j \in odd : w[j] = x
    <3>1. \E j \in odd : w[j] = x
      BY <2>3, Zenon
    <3>2. c \in odd /\ w[c] = x
      BY <3>1, Zenon
    <3> HIDE DEF c
    <3>3. PICK i \in 1..n : c = 2 * i - 1
      BY <2>2, <3>2
    <3>4. fields[i] = x
      BY <2>1, <3>2, <3>3
    <3>5. QED
      BY <2>1, <3>3, <3>4, Zenon DEF c
  <2>5. [x \in {w[j] : j \in odd} |-> w[1 + CHOOSE j \in odd : w[j] = x]] = [x \in D |-> h[x]]
    <3> DEFINE value(x) == w[1 + CHOOSE j \in odd : w[j] = x]
    <3>1. \A x \in D : value(x) = h[x]
      BY <2>4
    <3> HIDE DEF value
    <3>2. [x \in D |-> value(x)] = [x \in D |-> h[x]]
      BY <3>1
    <3>3. QED
      BY <2>3, <3>2, Zenon DEF value
  <2>6. QED
    BY <2>5, Zenon DEF HashOf, w, odd
<1>ReadHash.
    ASSUME NEW Blob, NEW e, IsEntry(e, Blob), e.type = "HASH", NEW data, NEW at \in Nat
    PROVE  /\ PackValue(e) \in Seq(Blob \cup Nat)
           /\ At(data, at, PackValue(e)) =>
                LET items == read_blobs(data, 2 * data[at], at + 1)
                IN  /\ HashOf(items.got, 2 * data[at]) = e.value
                    /\ items.at = at + Len(PackValue(e))
  <2> USE <1>ReadHash
  <2> DEFINE h == e.value
             D == DOMAIN h
             fields == SetToSeq(D)
             V == Blob \cup Nat
  <2>1. h \in Hashes(Blob)
    BY TypedValue
  <2>2. D \subseteq Blob /\ IsFiniteSet(D) /\ h = [x \in D |-> h[x]] /\ \A x \in D : h[x] \in Blob
    BY <2>1 DEF Hashes
  <2>3. PICK n : n = Cardinality(D)
    OBVIOUS
  <2>4. n \in Nat /\ Listing(fields, n, D)
    BY <2>2, <2>3, <1>ListOfSet
  <2> DEFINE seqs == [i \in 1..n |-> pack_all(<<fields[i], h[fields[i]]>>)]
             w == FlattenSeq(seqs)
             bs == Interleaved(fields, h, n)
  <2>5. Len(fields) = n /\ DOMAIN fields = 1..n /\ \A i \in 1..n : fields[i] \in D
    BY <2>4 DEF Listing
  <2>6. PackValue(e) = <<n>> \o w
    <3>1. PackValue(e) = <<Len(fields)>> \o FlattenSeq([i \in DOMAIN fields |->
                                              pack_all(<<fields[i], h[fields[i]]>>)])
      BY DEF PackValue
    <3> HIDE DEF fields, h
    <3>2. QED
      BY <2>5, <3>1, Zenon
  <2> HIDE DEF h, D, fields
  <2>7. /\ w \in Seq(V) /\ Len(w) = 4 * n
        /\ \A d : \A p \in Nat : At(d, p, w) => BlobsAt(d, p, bs)
    <3>1. h \in [D -> Blob]
      BY <2>2
    <3>2. PICK q : q = seqs
      BY Zenon
    <3>3. PackedAs(FlattenSeq(q), 4 * n, bs, V)
      BY <2>2, <2>4, <3>1, <3>2, <1>PackedPairs, Zenon
    <3> HIDE DEF seqs, bs, V
    <3>4. QED
      BY <3>2, <3>3, Zenon DEF PackedAs
  <2>8. bs \in Seq(Blob) /\ Len(bs) = 2 * n
    <3>1. ASSUME NEW j \in 1..2 * n
          PROVE  (IF j % 2 = 1 THEN fields[(j + 1) \div 2] ELSE h[fields[j \div 2]]) \in Blob
      <4>1. CASE j % 2 = 1
        <5>1. (j + 1) \div 2 \in 1..n
          BY ONLY <2>4, <4>1, j \in 1..2 * n
        <5>2. QED
          BY <2>2, <2>5, <4>1, <5>1
      <4>2. CASE j % 2 = 0
        <5>1. j \div 2 \in 1..n
          BY ONLY <2>4, <4>2, j \in 1..2 * n
        <5>2. QED
          BY <2>2, <2>5, <4>2, <5>1
      <4>3. j % 2 = 0 \/ j % 2 = 1
        OBVIOUS
      <4>4. QED
        BY <4>1, <4>2, <4>3
    <3>2. 2 * n \in Nat
      BY <2>4
    <3>3. QED
      BY <3>1, <3>2 DEF Interleaved
  <2>9. n \in V
    BY <2>4
  <2> HIDE DEF w, V, bs, seqs
  <2>10. <<n>> \in Seq(V) /\ Len(<<n>>) = 1 /\ <<n>>[1] = n
    BY <2>9
  <2>11. PackValue(e) \in Seq(V) /\ Len(PackValue(e)) = 1 + 4 * n
    <3>1. <<n>> \o w \in Seq(V) /\ Len(<<n>> \o w) = Len(<<n>>) + Len(w)
      BY ONLY <2>7, <2>10, ConcatProperties
    <3>2. QED
      BY ONLY <2>6, <2>7, <2>10, <3>1
  <2>12. ASSUME At(data, at, PackValue(e))
         PROVE  LET items == read_blobs(data, 2 * data[at], at + 1)
                IN  /\ HashOf(items.got, 2 * data[at]) = h
                    /\ items.at = at + Len(PackValue(e))
    <3>1. At(data, at, <<n>>) /\ At(data, at + 1, w)
      <4>1. At(data, at, <<n>>) /\ At(data, at + Len(<<n>>), w)
        BY <2>6, <2>7, <2>10, <2>12, <1>AtConcat, Zenon
      <4>2. QED
        BY <2>10, <4>1
    <3>2. data[at] = n
      BY <2>10, <3>1 DEF At
    <3>3. PICK p \in Nat, m \in Nat : p = at + 1 /\ m = 2 * n
      BY <2>4
    <3>4. BlobsAt(data, p, bs)
      BY <2>7, <3>1, <3>3, Zenon
    <3>5. read_blobs(data, m, p).got = bs /\ read_blobs(data, m, p).at = p + 2 * m
      BY <2>8, <3>3, <3>4, <1>ReadBlobs
    <3>6. p + 2 * m = at + Len(PackValue(e))
      BY <2>4, <2>11, <3>3
    <3>7. HashOf(bs, m) = h
      <4>1. HashOf(Interleaved(fields, h, n), 2 * n) = h
        BY <2>2, <2>4, <1>HashOfInterleaved
      <4>2. QED
        BY <3>3, <4>1, Zenon DEF bs
    <3>8. QED
      BY <3>2, <3>3, <3>5, <3>6, <3>7, Zenon
  <2>13. QED
    BY <2>11, <2>12, Zenon DEF V, h
<1>PackedValue.
    ASSUME NEW Blob, NEW e, IsEntry(e, Blob)
    PROVE  PackValue(e) \in Seq(Blob \cup Nat)
  <2> USE <1>PackedValue
  <2>1. 0 \in Nat /\ e.type \in {"STRING", "LIST", "HASH"}
    BY DEF IsEntry
  <2>2. QED
    BY <2>1, <1>ReadString, <1>ReadList, <1>ReadHash, Zenon
<1>PackedEntry.
    ASSUME NEW Blob, NEW k, NEW e, IsEntry(e, Blob)
    PROVE  /\ PackEntry(k, e) \in Seq({k} \cup Blob \cup Int)
           /\ Len(PackEntry(k, e)) = 4 + Len(PackValue(e))
           /\ \A data : \A at \in Nat : At(data, at, PackEntry(k, e)) => PartsAt(data, at, k, e)
  <2> USE <1>PackedEntry
  <2> DEFINE V == {k} \cup Blob \cup Int
             ty == CHOOSE i \in 1..3 : TypeIds[i] = e.type
             head == <<1, k>>
             mid == <<ty, e.expire>>
             v == PackValue(e)
  <2>1. \E i \in 1..3 : TypeIds[i] = e.type
    BY DEF IsEntry, TypeIds
  <2>2. ty \in 1..3 /\ TypeIds[ty] = e.type
    BY <2>1, Zenon
  <2> HIDE DEF ty
  <2>3. e.expire \in Int /\ (IF e.expire = None THEN -1 ELSE e.expire) = e.expire
    BY DEF IsEntry, None
  <2>4. v \in Seq(V)
    <3>1. v \in Seq(Blob \cup Nat)
      BY <1>PackedValue
    <3>2. PICK A : A = Blob \cup Nat
      BY Zenon
    <3>3. A \subseteq V /\ v \in Seq(A)
      BY <3>1, <3>2
    <3> HIDE DEF v, V
    <3>4. QED
      BY <3>3
  <2> HIDE DEF v
  <2>5. head \in Seq(V) /\ Len(head) = 2 /\ mid \in Seq(V) /\ Len(mid) = 2 /\ mid[1] = ty /\ mid[2] = e.expire
    BY <2>2, <2>3
  <2>6. PackEntry(k, e) = (head \o mid) \o v
    <3>1. pack_bytes(<<k>>) = head
      BY <1>PackOne
    <3> HIDE DEF head
    <3>2. QED
      BY <2>3, <3>1, Zenon DEF PackEntry, ty, v
  <2> HIDE DEF V, head, mid
  <2>7. head \o mid \in Seq(V) /\ Len(head \o mid) = 4
    <3>1. head \o mid \in Seq(V) /\ Len(head \o mid) = Len(head) + Len(mid)
      BY ONLY <2>5, ConcatProperties, Zenon
    <3>2. QED
      BY ONLY <2>5, <3>1
  <2>8. (head \o mid) \o v \in Seq(V) /\ Len((head \o mid) \o v) = 4 + Len(v)
    <3>1. (head \o mid) \o v \in Seq(V) /\ Len((head \o mid) \o v) = Len(head \o mid) + Len(v)
      BY ONLY <2>4, <2>7, ConcatProperties
    <3>2. QED
      BY ONLY <2>7, <3>1
  <2>9. ASSUME NEW data, NEW at \in Nat, At(data, at, PackEntry(k, e))
        PROVE  /\ At(data, at, pack_bytes(<<k>>))
               /\ TypeIds[data[at + 2]] = e.type
               /\ data[at + 3] = e.expire
               /\ At(data, at + 4, v)
    <3>1. At(data, at, head \o mid) /\ At(data, at + Len(head \o mid), v)
      BY <2>4, <2>6, <2>7, <2>9, <1>AtConcat, Zenon
    <3>2. At(data, at, head) /\ At(data, at + Len(head), mid)
      BY <2>5, <3>1, <1>AtConcat, Zenon
    <3>3. PICK p \in Nat : p = at + 2
      OBVIOUS
    <3>4. At(data, p, mid)
      BY <2>5, <3>2, <3>3
    <3>5. data[p] = ty /\ data[p + 1] = e.expire
      BY <2>5, <3>4 DEF At
    <3>6. data[at + 2] = ty /\ data[at + 3] = e.expire
      BY <3>3, <3>5
    <3>7. head = pack_bytes(<<k>>)
      BY <1>PackOne DEF head
    <3>8. QED
      BY <2>2, <2>7, <3>1, <3>2, <3>6, <3>7, Zenon
  <2>10. QED
    BY <2>6, <2>8, <2>9, Zenon DEF V, v, PartsAt
<1>ReadValue.
    ASSUME NEW Blob, NEW e, IsEntry(e, Blob), NEW data, NEW at \in Nat, At(data, at, PackValue(e))
    PROVE  ValueAt(data, e.type, at) = e.value /\ EndAt(data, e.type, at) = at + Len(PackValue(e))
  <2> USE <1>ReadValue
  <2>1. CASE e.type = "STRING"
    <3>1. /\ ValueAt(data, e.type, at) = read_blob(data, at).got
          /\ EndAt(data, e.type, at) = read_blob(data, at).at
      BY <2>1 DEF ValueAt, EndAt
    <3>2. QED
      BY <2>1, <3>1, <1>ReadString, Zenon
  <2>2. CASE e.type = "LIST"
    <3>1. /\ ValueAt(data, e.type, at) = read_blobs(data, data[at], at + 1).got
          /\ EndAt(data, e.type, at) = read_blobs(data, data[at], at + 1).at
      BY <2>2 DEF ValueAt, EndAt, ItemsAt, CountAt
    <3>2. QED
      BY <2>2, <3>1, <1>ReadList, Zenon
  <2>3. CASE e.type = "HASH"
    <3> DEFINE items == read_blobs(data, 2 * data[at], at + 1)
    <3>1. /\ ValueAt(data, e.type, at) = HashOf(items.got, 2 * data[at])
          /\ EndAt(data, e.type, at) = items.at
      <4> DEFINE m == CountAt(data, e.type, at)
                 its == ItemsAt(data, e.type, at)
                 v == HashOf(its.got, m)
      <4>1. m = 2 * data[at]
        BY <2>3 DEF CountAt
      <4>2. its = items
        BY <4>1, Zenon DEF ItemsAt
      <4> HIDE DEF v, its
      <4>3. ValueAt(data, e.type, at) = v /\ EndAt(data, e.type, at) = its.at
        BY <2>3 DEF ValueAt, EndAt, v, its
      <4>4. QED
        BY <4>1, <4>2, <4>3, Zenon DEF v
    <3>2. HashOf(items.got, 2 * data[at]) = e.value /\ items.at = at + Len(PackValue(e))
      BY <2>3, <1>ReadHash, Zenon
    <3>3. QED
      BY <3>1, <3>2, Zenon
  <2>4. QED
    BY <2>1, <2>2, <2>3 DEF IsEntry
<1>ReadEntry.
    ASSUME NEW Blob, NEW k, NEW e, IsEntry(e, Blob), NEW data, NEW at \in Nat,
           At(data, at, PackEntry(k, e))
    PROVE  EntryRead(data, at, k, e)
  <2> USE <1>ReadEntry
  <2>1. /\ Len(PackEntry(k, e)) = 4 + Len(PackValue(e))
        /\ At(data, at, pack_bytes(<<k>>))
        /\ TypeIds[data[at + 2]] = e.type
        /\ data[at + 3] = e.expire
        /\ At(data, at + 4, PackValue(e))
    <3>1. Len(PackEntry(k, e)) = 4 + Len(PackValue(e)) /\ PartsAt(data, at, k, e)
      BY <1>PackedEntry, Zenon
    <3>2. QED
      BY <3>1, Zenon DEF PartsAt
  <2>2. PICK key : key = read_blob(data, at)
    OBVIOUS
  <2>3. key.got[1] = k /\ key.at = at + 2
    <3>1. PICK b : b = <<k>>
      BY Zenon
    <3>2. b \in Seq({k}) /\ Len(b) = 1 /\ b[1] = k
      BY <3>1
    <3>3. key.got = b /\ key.at = at + 1 + Len(b)
      BY <2>1, <2>2, <3>1, <3>2, <1>ReadBlob, Zenon
    <3>4. QED
      BY <3>2, <3>3
  <2>4. PICK p \in Nat : p = at + 4
    OBVIOUS
  <2>5. TypeIds[data[key.at]] = e.type /\ data[key.at + 1] = e.expire /\ key.at + 2 = p
    <3>1. key.at + 1 = at + 3 /\ key.at + 2 = p
      BY <2>3, <2>4
    <3>2. QED
      BY <2>1, <2>3, <3>1, Zenon
  <2>6. /\ ValueAt(data, e.type, p) = e.value
        /\ EndAt(data, e.type, p) = p + Len(PackValue(e))
    BY <2>1, <2>4, <1>ReadValue
  <2> DEFINE ex == IF e.expire < 0 THEN None ELSE e.expire
  <2>7. read_entry(data, at) =
          [got |-> [key |-> k,
                    entry |-> [type |-> e.type, value |-> ValueAt(data, e.type, p), expire |-> ex]],
           at |-> EndAt(data, e.type, p)]
    <3> DEFINE Got(x, type, expire, start) ==
                 [got |-> [key |-> x,
                           entry |-> [type |-> type, value |-> ValueAt(data, type, start),
                                      expire |-> IF expire < 0 THEN None ELSE expire]],
                  at |-> EndAt(data, type, start)]
    <3>1. read_entry(data, at) = Got(key.got[1], TypeIds[data[key.at]], data[key.at + 1], key.at + 2)
      <4> DEFINE y == read_blob(data, at)
      <4>1. read_entry(data, at) = Got(y.got[1], TypeIds[data[y.at]], data[y.at + 1], y.at + 2)
        BY Zenon DEF read_entry, ValueAt, EndAt, ItemsAt, CountAt, HashOf
      <4> HIDE DEF Got
      <4>2. QED
        BY <2>2, <4>1, Zenon
    <3>2. Got(key.got[1], TypeIds[data[key.at]], data[key.at + 1], key.at + 2) =
            Got(k, e.type, e.expire, p)
      <4> HIDE DEF Got
      <4>1. QED
        BY <2>3, <2>5, Zenon
    <3>3. QED
      BY <3>1, <3>2, Zenon
  <2>8. ex = e.expire
    BY DEF IsEntry, None
  <2> HIDE DEF ex
  <2>9. [type |-> e.type, value |-> ValueAt(data, e.type, p), expire |-> ex] = e
    BY <2>6, <2>8, Zenon DEF IsEntry
  <2>10. read_entry(data, at).got = [key |-> k, entry |-> e] /\ read_entry(data, at).at = EndAt(data, e.type, p)
    <3>1. PICK g, q : g = [key |-> k, entry |-> e] /\ q = EndAt(data, e.type, p)
      BY Zenon
    <3>2. read_entry(data, at) = [got |-> g, at |-> q]
      BY <2>7, <2>9, <3>1, Zenon
    <3>3. read_entry(data, at).got = g /\ read_entry(data, at).at = q
      BY <3>2
    <3>4. QED
      BY <3>1, <3>3, Zenon
  <2>11. p + Len(PackValue(e)) = at + Len(PackEntry(k, e))
    <3>1. PICK m \in Nat : m = Len(PackValue(e))
      BY <1>PackedValue
    <3>2. QED
      BY <2>1, <2>4, <3>1, SMTT(20)
  <2>12. QED
    BY <2>6, <2>10, <2>11, Zenon DEF EntryRead
<1>ReadEntriesSteps.
    ASSUME NEW data, data[3] \in Nat
    PROVE  \E read : EntriesReadBy(read, data, data[3]) /\ read_entries(data) = read[data[3]]
  <2> USE <1>ReadEntriesSteps
  <2> DEFINE Step(x, i) == NextEntry(data, x)
             Good(g, k) == g = [i \in 0..k |-> IF i = 0 THEN [got |-> <<>>, at |-> 4] ELSE Step(g[i - 1], i)]
             T == {k \in Nat : \E g : Good(g, k)}
  <2>1. 0 \in T
    <3>1. Good([i \in 0..0 |-> [got |-> <<>>, at |-> 4]], 0)
      OBVIOUS
    <3>2. QED
      BY <3>1, Zenon
  <2>2. ASSUME NEW k \in T PROVE k + 1 \in T
    <3>1. PICK g : Good(g, k)
      OBVIOUS
    <3> DEFINE h == [i \in 0..k + 1 |-> IF i = k + 1 THEN Step(g[k], i) ELSE g[i]]
    <3> HIDE DEF Step
    <3>2. \A i \in 0..k : h[i] = g[i]
      OBVIOUS
    <3>3. ASSUME NEW i \in 0..k + 1
          PROVE  h[i] = IF i = 0 THEN [got |-> <<>>, at |-> 4] ELSE Step(h[i - 1], i)
      <4>1. CASE i = k + 1
        BY <3>2, <4>1
      <4>2. CASE i \in 0..k
        BY <3>1, <3>2, <4>2
      <4>3. QED
        BY <4>1, <4>2
    <3>4. Good(h, k + 1)
      BY <3>3
    <3>5. QED
      <4> HIDE DEF Good, h
      <4>1. \E f : Good(f, k + 1)
        BY <3>4, Zenon
      <4>2. QED
        BY <4>1
  <2>3. data[3] \in T
    <3> HIDE DEF T
    <3>1. \A i \in 0..data[3] : i \in T
      BY <2>1, <2>2, Counting, Zenon
    <3>2. QED
      BY <3>1
  <2>4. \E g : Good(g, data[3])
    BY <2>3
  <2> DEFINE read == CHOOSE g : Good(g, data[3])
  <2>5. Good(read, data[3])
    BY <2>4, Zenon
  <2>6. read_entries(data) = read[data[3]]
    BY DEF read_entries, NextEntry
  <2> HIDE DEF read
  <2>7. QED
    BY <2>5, <2>6, Zenon DEF EntriesReadBy
<1>PackedSteps.
    ASSUME NEW Key, NEW Blob, NEW s, IsStore(s, Key, Blob), NEW n \in Nat, n = Len(s.dict)
    PROVE  \E flat : PackedBy(flat, s, n, Bytes(Key, Blob))
  <2> USE <1>PackedSteps
  <2> DEFINE S == Bytes(Key, Blob)
             packed(i) == PackEntry(s.dict[i], s.entry[s.dict[i]])
             seqs == [i \in 1..n |-> packed(i)]
  <2>1. ASSUME NEW i \in 1..n PROVE packed(i) \in Seq(S)
    <3>1. PICK k, e, p : k = s.dict[i] /\ e = s.entry[k] /\ p = PackEntry(k, e)
      OBVIOUS
    <3>2. k \in keys(s)
      BY <3>1 DEF IsStore, IsOrder
    <3>3. k \in Key /\ IsEntry(e, Blob)
      BY <3>1, <3>2 DEF IsStore
    <3>4. PICK A : A = {k} \cup Blob \cup Int
      BY Zenon
    <3>5. p \in Seq(A)
      BY <3>1, <3>3, <3>4, <1>PackedEntry, Zenon
    <3>6. A \subseteq S
      BY <3>3, <3>4 DEF Bytes
    <3> HIDE DEF S
    <3>7. p \in Seq(S)
      BY <3>5, <3>6
    <3>8. QED
      BY <3>1, <3>7, Zenon
  <2> HIDE DEF packed, S
  <2>2. seqs \in Seq(Seq(S)) /\ Len(seqs) = n
    BY <2>1
  <2>3. seqs = Packed(s)
    BY Zenon DEF Packed, packed
  <2> HIDE DEF seqs
  <2>4. PICK flat : /\ FlattenedBy(flat, seqs, n)
                    /\ FlattenSeq(seqs) = flat[n]
                    /\ \A i \in 0..n : flat[i] \in Seq(S)
    BY <2>2, FlattenSteps
  <2>5. QED
    BY <2>2, <2>3, <2>4, Zenon DEF PackedBy, S
<1>ReadEntries.
    ASSUME NEW Key, NEW Blob, NEW s, IsStore(s, Key, Blob), NEW n \in Nat, n = Len(s.dict),
           NEW data, data[3] = n, At(data, 4, FlattenSeq(Packed(s)))
    PROVE  RowsRead(data, s)
  <2> USE <1>ReadEntries
  <2>1. PICK S : S = Bytes(Key, Blob)
    OBVIOUS
  <2>2. PICK flat : PackedBy(flat, s, n, S)
    BY <2>1, <1>PackedSteps
  <2>3. PICK seqs : seqs = Packed(s)
    OBVIOUS
  <2>4. /\ seqs \in Seq(Seq(S)) /\ Len(seqs) = n /\ FlattenedBy(flat, seqs, n)
        /\ FlattenSeq(seqs) = flat[n] /\ \A i \in 0..n : flat[i] \in Seq(S)
    BY <2>2, <2>3, Zenon DEF PackedBy
  <2>5. PICK read : EntriesReadBy(read, data, n) /\ read_entries(data) = read[n]
    <3>1. \E read : EntriesReadBy(read, data, data[3]) /\ read_entries(data) = read[data[3]]
      BY <1>ReadEntriesSteps
    <3>2. QED
      BY <3>1, Zenon
  <2>6. \A i \in 1..n : At(data, 4 + Len(flat[i - 1]), seqs[i])
    <3>1. 4 \in Nat /\ At(data, 4, flat[n])
      BY <2>3, <2>4
    <3>2. PICK at \in Nat : at = 4
      OBVIOUS
    <3>3. \A i \in 1..n : At(data, at + Len(flat[i - 1]), seqs[i])
      BY <2>4, <3>1, <3>2, <1>AtFlatten, Zenon
    <3>4. QED
      BY <3>2, <3>3
  <2> DEFINE row(i) == [key |-> s.dict[i], entry |-> s.entry[s.dict[i]]]
             rows == [i \in 1..n |-> row(i)]
             T == {i \in 0..n : read[i].got = SubSeq(rows, 1, i) /\ read[i].at = 4 + Len(flat[i])}
  <2>7. rows = Rows(s)
    BY Zenon DEF Rows
  <2> HIDE DEF row
  <2>8. rows \in Seq({row(i) : i \in 1..n}) /\ Len(rows) = n /\ \A i \in 1..n : rows[i] = row(i)
    OBVIOUS
  <2> HIDE DEF rows
  <2>9. 0 \in T
    <3>1. 0 \in 0..n /\ SubSeq(rows, 1, 0) = <<>>
      BY <2>8
    <3>2. read[0] = [got |-> <<>>, at |-> 4] /\ flat[0] = <<>>
      BY <2>4, <2>5, <3>1, Zenon DEF EntriesReadBy, FlattenedBy
    <3>3. read[0].got = <<>> /\ read[0].at = 4
      BY <3>2
    <3>4. 4 = 4 + Len(flat[0])
      BY <3>2
    <3>5. QED
      BY <3>1, <3>3, <3>4, Zenon
  <2>10. ASSUME NEW i \in 0..n - 1, i \in T PROVE i + 1 \in T
    <3>1. i + 1 \in 0..n /\ i + 1 # 0 /\ (i + 1) - 1 = i /\ i + 1 \in 1..n /\ i \in 0..n
      OBVIOUS
    <3>2. PICK x, k, e, w : x = read[i] /\ k = s.dict[i + 1] /\ e = s.entry[k] /\ w = flat[i]
      OBVIOUS
    <3>3. read[i + 1] = NextEntry(data, x) /\ flat[i + 1] = w \o seqs[i + 1]
      BY <2>4, <2>5, <3>1, <3>2, Zenon DEF EntriesReadBy, FlattenedBy
    <3>4. k \in keys(s)
      BY <3>1, <3>2 DEF IsStore, IsOrder
    <3>5. IsEntry(e, Blob)
      BY <3>2, <3>4 DEF IsStore
    <3>6. seqs[i + 1] = PackEntry(k, e) /\ row(i + 1) = [key |-> k, entry |-> e]
      BY <2>3, <3>1, <3>2 DEF Packed, row
    <3>7. w \in Seq(S) /\ PackEntry(k, e) \in Seq(S)
      <4>1. flat[i] \in Seq(S)
        BY <2>4, <3>1, Zenon
      <4>2. seqs \in Seq(Seq(S)) /\ Len(seqs) = n
        BY <2>4, Zenon
      <4>3. seqs[i + 1] \in Seq(S)
        BY <3>1, <4>2
      <4>4. QED
        BY <3>2, <3>6, <4>1, <4>3, Zenon
    <3>8. PICK at \in Nat : at = 4 + Len(w)
      BY <3>7
    <3>9. x.got = SubSeq(rows, 1, i) /\ x.at = at
      BY <2>10, <3>2, <3>8, Zenon
    <3>10. EntryRead(data, at, k, e)
      <4>1. At(data, 4 + Len(flat[i]), seqs[i + 1])
        BY <2>6, <3>1
      <4>2. At(data, at, PackEntry(k, e))
        BY <3>2, <3>6, <3>8, <4>1
      <4>3. QED
        BY <3>5, <4>2, <1>ReadEntry
    <3>11. /\ read[i + 1].got = Append(SubSeq(rows, 1, i), row(i + 1))
           /\ read[i + 1].at = at + Len(PackEntry(k, e))
      <4>1. /\ read_entry(data, at).got = row(i + 1)
            /\ read_entry(data, at).at = at + Len(PackEntry(k, e))
        BY <3>6, <3>10, Zenon DEF EntryRead
      <4>2. QED
        BY <3>3, <3>9, <4>1 DEF NextEntry
    <3>12. Append(SubSeq(rows, 1, i), row(i + 1)) = SubSeq(rows, 1, i + 1)
      BY <2>8, <3>1
    <3>13. at + Len(PackEntry(k, e)) = 4 + Len(flat[i + 1])
      <4>1. Len(w \o PackEntry(k, e)) = Len(w) + Len(PackEntry(k, e))
        BY ONLY <3>7, ConcatProperties
      <4>2. PICK a \in Nat, b \in Nat : a = Len(w) /\ b = Len(PackEntry(k, e))
        BY <3>7
      <4>3. QED
        BY <3>3, <3>6, <3>8, <4>1, <4>2
    <3>14. QED
      BY <3>1, <3>11, <3>12, <3>13
  <2>11. n \in T
    <3> HIDE DEF T
    <3>1. \A i \in 0..n : i \in T
      BY <2>9, <2>10, Counting, Zenon
    <3>2. QED
      BY <3>1
  <2>12. SubSeq(rows, 1, n) = rows
    BY <2>8
  <2>13. QED
    BY <2>3, <2>4, <2>5, <2>7, <2>11, <2>12, Zenon DEF RowsRead
<1>ConcatHalves.
    ASSUME NEW S, NEW u \in Seq(S), NEW v \in Seq(S)
    PROVE  JoinOf(u \o v, u, v)
  <2> USE <1>ConcatHalves
  <2>1. PICK m \in Nat, n \in Nat : m = Len(u) /\ n = Len(v)
    OBVIOUS
  <2>2. /\ Len(u \o v) = m + n /\ u \o v \in Seq(S)
        /\ \A j \in 1..m : (u \o v)[j] = u[j]
        /\ \A j \in 1..n : (u \o v)[m + j] = v[j]
    BY <2>1
  <2>3. PICK x \in Seq(S) : x = u \o v
    BY <2>2, Zenon
  <2>4. PICK z : z = SubSeq(x, m + 1, m + n)
    BY Zenon
  <2>5. z \in Seq(S) /\ Len(z) = n /\ \A j \in 1..n : z[j] = x[m + j]
    <3>1. z = [j \in 1..n |-> x[m + j]]
      <4>1. z = [j \in 1..(1 + (m + n) - (m + 1)) |-> x[j + (m + 1) - 1]]
        BY <2>4
      <4>2. 1 + (m + n) - (m + 1) = n /\ \A j \in 1..n : j + (m + 1) - 1 = m + j
        OBVIOUS
      <4>3. QED
        BY <4>1, <4>2
    <3>2. \A j \in 1..n : m + j \in 1..Len(x)
      BY <2>2, <2>3
    <3>3. QED
      BY <3>1, <3>2
  <2>6. z = v
    <3>1. \A j \in 1..n : z[j] = v[j]
      BY <2>2, <2>3, <2>5, Zenon
    <3>2. z = [j \in 1..n |-> z[j]] /\ v = [j \in 1..n |-> v[j]]
      BY <2>1, <2>5
    <3>3. [j \in 1..n |-> z[j]] = [j \in 1..n |-> v[j]]
      BY <3>1
    <3>4. QED
      BY <3>2, <3>3, Zenon
  <2>7. QED
    BY <2>1, <2>2, <2>3, <2>4, <2>6, Zenon DEF JoinOf
<1>Dumped.
    ASSUME NEW Key, NEW Blob, NEW s, IsStore(s, Key, Blob)
    PROVE  \E body \in Seq(Bytes(Key, Blob)) : DumpOf(dump_rdb_entries(s), body, s)
  <2> USE <1>Dumped
  <2>1. PICK n \in Nat : n = Len(s.dict)
    BY DEF IsStore, IsOrder
  <2>2. PICK S : S = Bytes(Key, Blob)
    OBVIOUS
  <2>3. PICK flat : PackedBy(flat, s, n, S)
    BY <2>1, <2>2, <1>PackedSteps
  <2>4. PICK w : w = FlattenSeq(Packed(s))
    OBVIOUS
  <2>5. w \in Seq(S)
    <3>1. w = flat[n] /\ n \in 0..n
      BY <2>3, <2>4 DEF PackedBy
    <3>2. QED
      BY <2>3, <3>1, Zenon DEF PackedBy
  <2> DEFINE head == <<"BYOR", 2, n>>
             body == head \o w
             tail == <<Crc(body), "EOF">>
             W == S \cup {Crc(body), "EOF"}
  <2>6. dump_rdb_entries(s) = body \o tail
    <3>1. DOMAIN s.dict = 1..n
      BY <2>1 DEF IsStore, IsOrder
    <3>2. dump_rdb_entries(s) =
            LET b == <<"BYOR", 2, n>> \o FlattenSeq([i \in 1..n |-> PackEntry(s.dict[i], s.entry[s.dict[i]])])
            IN  b \o <<Crc(b), "EOF">>
      BY <2>1, <3>1, Zenon DEF dump_rdb_entries
    <3>3. QED
      BY <2>1, <2>4, <3>2, Zenon DEF Packed
  <2>7. /\ head \in Seq(S) /\ Len(head) = 3
        /\ head[1] = "BYOR" /\ head[2] = 2 /\ head[3] = n
    BY <2>2 DEF Bytes
  <2> HIDE DEF head
  <2>8. body \in Seq(S) /\ Len(body) = 3 + Len(w)
    <3>1. head \o w \in Seq(S) /\ Len(head \o w) = Len(head) + Len(w)
      BY ONLY <2>5, <2>7, ConcatProperties, Zenon
    <3>2. QED
      BY ONLY <2>7, <3>1
  <2>9. \A j \in 1..3 : body[j] = head[j]
    <3>1. \A j \in 1..Len(head) : (head \o w)[j] = head[j]
      <4>1. JoinOf(head \o w, head, w)
        BY ONLY <2>5, <2>7, <1>ConcatHalves
      <4>2. QED
        BY ONLY <4>1, Zenon DEF JoinOf
    <3>2. QED
      BY <2>7, <3>1, Zenon
  <2>10. \A j \in 1..Len(w) : body[3 + j] = w[j]
    <3>1. \A j \in 1..Len(w) : (head \o w)[Len(head) + j] = w[j]
      <4>1. JoinOf(head \o w, head, w)
        BY ONLY <2>5, <2>7, <1>ConcatHalves
      <4>2. QED
        BY ONLY <4>1, Zenon DEF JoinOf
    <3>2. QED
      BY <2>7, <3>1, Zenon
  <2> HIDE DEF body
  <2>11. body \in Seq(W) /\ tail \in Seq(W)
    BY <2>8
  <2> HIDE DEF tail, W
  <2>12. PICK data : data = body \o tail
    BY Zenon
  <2>13. \A j \in 1..Len(body) : data[j] = body[j]
    BY <2>11, <2>12
  <2>14. PICK L \in Nat : L = Len(w)
    BY <2>5
  <2>15. data[1] = "BYOR" /\ data[2] = 2 /\ data[3] = n
    <3>1. 1 \in 1..Len(body) /\ 2 \in 1..Len(body) /\ 3 \in 1..Len(body)
      BY <2>8, <2>14
    <3>2. QED
      BY <2>7, <2>9, <2>13, <3>1
  <2>16. At(data, 4, w)
    <3>1. ASSUME NEW j \in 1..L PROVE data[4 + j - 1] = w[j]
      <4>1. 4 + j - 1 = 3 + j /\ 3 + j \in 1..Len(body)
        BY <2>8, <2>14
      <4>2. QED
        BY <2>10, <2>13, <2>14, <4>1
    <3>2. QED
      BY <2>14, <3>1 DEF At
  <2>17. DumpOf(dump_rdb_entries(s), body, s)
    BY <2>1, <2>4, <2>6, <2>8, <2>12, <2>15, <2>16, Zenon DEF DumpOf, tail
  <2>18. QED
    BY <2>2, <2>8, <2>17
\* Every dump is accepted.
<1>DumpRead.
    ASSUME NEW Key, NEW Blob, NEW s, IsStore(s, Key, Blob)
    PROVE  /\ rdb_accepted(dump_rdb_entries(s))
           /\ read_entries(dump_rdb_entries(s)).got = Rows(s)
  <2> USE <1>DumpRead
  <2>1. PICK S, data, n : S = Bytes(Key, Blob) /\ data = dump_rdb_entries(s) /\ n = Len(s.dict) /\ n \in Nat
    <3>1. Len(s.dict) \in Nat
      BY DEF IsStore, IsOrder
    <3>2. QED
      BY <3>1, Zenon
  <2>2. PICK body \in Seq(S) : DumpOf(data, body, s)
    BY <2>1, <1>Dumped
  <2>3. PICK w, L : w = FlattenSeq(Packed(s)) /\ L = Len(w)
    OBVIOUS
  <2>4. RowsRead(data, s)
    <3>1. data[3] = n /\ At(data, 4, FlattenSeq(Packed(s)))
      BY <2>1, <2>2, Zenon DEF DumpOf
    <3>2. QED
      BY <2>1, <3>1, <1>ReadEntries
  <2>5. PICK end : end = read_entries(data).at
    OBVIOUS
  <2>6. end = 4 + L /\ Len(body) = 3 + L
    BY <2>2, <2>3, <2>4, <2>5, Zenon DEF RowsRead, DumpOf
  <2>7. L \in Nat
    <3>1. PICK flat : PackedBy(flat, s, n, S)
      BY <2>1, <1>PackedSteps
    <3>2. w = flat[n] /\ n \in 0..n
      BY <2>3, <3>1 DEF PackedBy
    <3>3. w \in Seq(S)
      BY <3>1, <3>2, Zenon DEF PackedBy
    <3>4. QED
      BY <2>3, <3>3
  <2> DEFINE tail == <<Crc(body), "EOF">>
             W == S \cup {Crc(body), "EOF"}
  <2>8. body \in Seq(W) /\ tail \in Seq(W) /\ data = body \o tail
    <3>1. body \in Seq(W) /\ tail \in Seq(W)
      OBVIOUS
    <3>2. data = body \o tail
      BY <2>2, Zenon DEF DumpOf
    <3>3. QED
      BY <3>1, <3>2, Zenon
  <2>9. SubSeq(data, 1, 2) = <<"BYOR", 2>>
    <3>1. data[1] = "BYOR" /\ data[2] = 2
      BY <2>2, Zenon DEF DumpOf
    <3>2. data \in Seq(W) /\ Len(data) >= 2
      <4> HIDE DEF tail, W
      <4>1. body \o tail \in Seq(W) /\ Len(body \o tail) = Len(body) + Len(tail)
        BY ONLY <2>8, ConcatProperties
      <4>2. Len(tail) \in Nat
        BY ONLY <2>8, tail \in Seq(W)
      <4>3. QED
        BY <2>6, <2>7, <2>8, <4>1, <4>2
    <3> HIDE DEF W, tail
    <3>3. PICK x : x = SubSeq(data, 1, 2)
      BY Zenon
    <3>4. x \in Seq(W) /\ Len(x) = 2 /\ x[1] = data[1] /\ x[2] = data[2]
      BY ONLY <3>2, <3>3
    <3>5. x = <<x[1], x[2]>>
      BY ONLY <3>4
    <3>6. QED
      BY <3>1, <3>3, <3>4, <3>5, Zenon
  <2> HIDE DEF W
  <2>10. SubSeq(data, 1, end - 1) = body
    <3> HIDE DEF tail
    <3>1. end - 1 = Len(body)
      BY <2>6, <2>7
    <3>2. SubSeq(body \o tail, 1, Len(body)) = body
      BY <2>8
    <3>3. QED
      BY <2>8, <3>1, <3>2, Zenon
  <2>11. SubSeq(data, end, Len(data)) = tail
    <3> HIDE DEF tail
    <3>1. end = Len(body) + 1
      BY <2>6, <2>7
    <3>2. SubSeq(body \o tail, Len(body) + 1, Len(body \o tail)) = tail
      BY ONLY <2>8, <1>ConcatHalves DEF JoinOf
    <3>3. QED
      BY <2>8, <3>1, <3>2, Zenon
  <2>12. rdb_accepted(data)
    BY <2>5, <2>9, <2>10, <2>11, Zenon DEF rdb_accepted
  <2>13. QED
    BY <2>1, <2>4, <2>12, Zenon DEF RowsRead
<1>LoadSteps.
    ASSUME NEW data, NEW t, Len(read_entries(data).got) \in Nat
    PROVE  \E after : LoadedBy(after, read_entries(data).got, Len(read_entries(data).got), t) /\ load_rdb(data, t) = after[Len(read_entries(data).got)]
  <2> USE <1>LoadSteps
  <2> DEFINE Step(x, i) == NextLoaded(x, read_entries(data).got[i], t)
             Good(g, k) == g = [i \in 0..k |-> IF i = 0 THEN EmptyStore ELSE Step(g[i - 1], i)]
             T == {k \in Nat : \E g : Good(g, k)}
  <2>1. 0 \in T
    <3>1. Good([i \in 0..0 |-> EmptyStore], 0)
      OBVIOUS
    <3>2. QED
      BY <3>1, Zenon
  <2>2. ASSUME NEW k \in T PROVE k + 1 \in T
    <3>1. PICK g : Good(g, k)
      OBVIOUS
    <3> DEFINE h == [i \in 0..k + 1 |-> IF i = k + 1 THEN Step(g[k], i) ELSE g[i]]
    <3> HIDE DEF Step
    <3>2. \A i \in 0..k : h[i] = g[i]
      OBVIOUS
    <3>3. ASSUME NEW i \in 0..k + 1
          PROVE  h[i] = IF i = 0 THEN EmptyStore ELSE Step(h[i - 1], i)
      <4>1. CASE i = k + 1
        BY <3>2, <4>1
      <4>2. CASE i \in 0..k
        BY <3>1, <3>2, <4>2
      <4>3. QED
        BY <4>1, <4>2
    <3>4. Good(h, k + 1)
      BY <3>3
    <3>5. QED
      <4> HIDE DEF Good, h
      <4>1. \E f : Good(f, k + 1)
        BY <3>4, Zenon
      <4>2. QED
        BY <4>1
  <2>3. Len(read_entries(data).got) \in T
    <3> HIDE DEF T
    <3>1. \A i \in 0..Len(read_entries(data).got) : i \in T
      BY <2>1, <2>2, Counting, Zenon
    <3>2. QED
      BY <3>1
  <2>4. \E g : Good(g, Len(read_entries(data).got))
    BY <2>3
  <2> DEFINE after == CHOOSE g : Good(g, Len(read_entries(data).got))
  <2>5. Good(after, Len(read_entries(data).got))
    BY <2>4, Zenon
  <2>6. load_rdb(data, t) = after[Len(read_entries(data).got)]
    BY DEF load_rdb, load_rows, NextLoaded
  <2> HIDE DEF after
  <2>7. QED
    BY <2>5, <2>6, Zenon DEF LoadedBy
\* All together.
<1>1.
    ASSUME NEW Key, NEW Blob, NEW s, IsStore(s, Key, Blob), NEW t \in Nat
    PROVE  /\ rdb_accepted(dump_rdb_entries(s))
           /\ IsStore(load_rdb(dump_rdb_entries(s), t), Key, Blob)
           /\ load_rdb(dump_rdb_entries(s), t).entry = Live(s.entry, t)
  <2> USE <1>1
  <2>1. PICK data, rows, n : /\ data = dump_rdb_entries(s) /\ rows = Rows(s)
                             /\ n = Len(s.dict) /\ n \in Nat
    <3>1. Len(s.dict) \in Nat
      BY DEF IsStore, IsOrder
    <3>2. QED
      BY <3>1, Zenon
  <2>2. rdb_accepted(data) /\ read_entries(data).got = rows
    BY <2>1, <1>DumpRead
  <2>3. rows = [i \in 1..n |-> [key |-> s.dict[i], entry |-> s.entry[s.dict[i]]]]
    BY <2>1, Zenon DEF Rows
  <2>4. Len(rows) = n /\ \A i \in 1..n : rows[i].key = s.dict[i] /\ rows[i].entry = s.entry[s.dict[i]]
    BY <2>1, <2>3
  <2>5. PICK after : LoadedBy(after, rows, n, t) /\ load_rdb(data, t) = after[n]
    <3>1. Len(read_entries(data).got) \in Nat
      BY <2>1, <2>2, <2>4
    <3>2. \E after : /\ LoadedBy(after, read_entries(data).got, Len(read_entries(data).got), t)
                     /\ load_rdb(data, t) = after[Len(read_entries(data).got)]
      BY <3>1, <1>LoadSteps
    <3>3. QED
      BY <2>2, <2>4, <3>2, Zenon
  <2> DEFINE Kept(i) == {k \in keys(s) : ~is_expired(s.entry[k], t) /\ \E j \in 1..i : s.dict[j] = k}
             Good(x, i) == IsStore(x, Key, Blob) /\ x.entry = Part(s.entry, Kept(i))
             T == {i \in 0..n : Good(after[i], i)}
  <2>6. s.dict \in Seq(keys(s)) /\ ToSet(s.dict) = keys(s)
    BY DEF IsStore, IsOrder
  <2>7. 0 \in T
    <3>1. 0 \in 0..n /\ Kept(0) = {}
      BY <2>1
    <3>2. after[0] = EmptyStore
      BY <2>5, <3>1, Zenon DEF LoadedBy
    <3>3. IsStore(EmptyStore, Key, Blob)
      BY EmptyIsStore
    <3>4. EmptyStore.entry = Part(s.entry, {})
      BY DEF EmptyStore, Part
    <3> HIDE DEF Kept
    <3>5. Good(after[0], 0)
      BY <3>1, <3>2, <3>3, <3>4, Zenon
    <3>6. QED
      BY <3>1, <3>5, Zenon
  <2>8. ASSUME NEW i \in 0..n - 1, i \in T PROVE i + 1 \in T
    <3>1. i + 1 \in 0..n /\ i + 1 # 0 /\ (i + 1) - 1 = i /\ i + 1 \in 1..n
      BY <2>1
    <3>2. PICK x, k, e : x = after[i] /\ k = s.dict[i + 1] /\ e = s.entry[k]
      OBVIOUS
    <3>3. after[i + 1] = IF is_expired(e, t) THEN x ELSE set_entry(x, k, e)
      <4>1. after[i + 1] = NextLoaded(x, rows[i + 1], t)
        BY <2>5, <3>1, <3>2, Zenon DEF LoadedBy
      <4>2. QED
        BY <2>4, <3>1, <3>2, <4>1, Zenon DEF NextLoaded
    <3>4. k \in keys(s)
      BY <2>1, <2>6, <3>1, <3>2
    <3>5. k \in Key /\ IsEntry(e, Blob)
      BY <3>2, <3>4 DEF IsStore
    <3>6. IsStore(x, Key, Blob) /\ x.entry = Part(s.entry, Kept(i))
      BY <2>8, <3>2, Zenon
    <3>7. \A j : j \in 1..i + 1 <=> j \in 1..i \/ j = i + 1
      OBVIOUS
    <3>8. CASE is_expired(e, t)
      <4>1. Kept(i + 1) = Kept(i)
        BY <3>2, <3>7, <3>8, Zenon
      <4> HIDE DEF Kept
      <4>2. QED
        BY <3>1, <3>3, <3>6, <3>8, <4>1, Zenon
    <3>9. CASE ~is_expired(e, t)
      <4>1. Kept(i + 1) = Kept(i) \cup {k}
        BY <3>2, <3>4, <3>7, <3>9, Zenon
      <4> HIDE DEF Kept
      <4>2. IsStore(set_entry(x, k, e), Key, Blob) /\ set_entry(x, k, e).entry = With(x.entry, k, e)
        BY <3>5, <3>6, SetStore
      <4>3. With(Part(s.entry, Kept(i)), k, e) = Part(s.entry, Kept(i) \cup {k})
        BY <3>2 DEF With, Part
      <4>4. QED
        BY <3>1, <3>3, <3>6, <3>9, <4>1, <4>2, <4>3, Zenon
    <3>10. QED
      BY <3>8, <3>9
  <2>9. n \in T
    <3> HIDE DEF T
    <3>1. \A i \in 0..n : i \in T
      BY <2>1, <2>7, <2>8, Counting, Zenon
    <3>2. QED
      BY <2>1, <3>1
  <2>10. Part(s.entry, Kept(n)) = Live(s.entry, t)
    <3>1. \A k \in keys(s) : \E j \in 1..n : s.dict[j] = k
      BY <2>1, <2>6 DEF ToSet
    <3>2. Kept(n) = keys(s) \ {k \in keys(s) : is_expired(s.entry[k], t)}
      BY <3>1, Zenon
    <3> HIDE DEF Kept
    <3>3. QED
      BY <3>2, Zenon DEF Part, Live, Less, keys
  <2>11. QED
    BY <2>1, <2>2, <2>5, <2>9, <2>10, Zenon
<1>2. QED
  BY <1>1, Zenon

=============================================================================
