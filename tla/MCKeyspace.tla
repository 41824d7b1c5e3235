----------------------------- MODULE MCKeyspace -----------------------------
(* Keyspace on small instances: how it is set up. *)
EXTENDS ReplicaKeyspace, TLC

CONSTANTS a, b, c3

SetTo(k, v) == [name |-> "SET", key |-> k, value |-> <<v>>, ex |-> None]
SetEx(k, ttl) == [name |-> "SET", key |-> k, value |-> <<1>>, ex |-> ttl]
Expire(k, ttl) == [name |-> "EXPIRE", key |-> k, ex |-> ttl]
Lpush(k, v) == [name |-> "LPUSH", key |-> k, value |-> <<v>>]
Large(k) == [name |-> "LPUSH", key |-> k, value |-> <<1, 1, 1>>]
Rpop(k) == [name |-> "RPOP", key |-> k]
Hset(k, f, v) == [name |-> "HSET", key |-> k, value |-> (f :> v)]

\* All three types on two keys.
TypedCommands ==
  {SetTo(a, 1), Lpush(a, 1), Lpush(a, 2), Rpop(a), DelOf(a),
   Hset(b, 1, 1), Hset(b, 2, 1), DelOf(b)}

\* Strings on three keys.
StringCommands == {SetTo(k, v) : k \in {a, b, c3}, v \in {1}} \cup {DelOf(a)}

\* A string, and a list that takes its room.
GrowingCommands == {SetTo(a, 1), Lpush(b, 1)}

\* Keys that expire and keys that do not, and a value larger than the rest.
TtlCommands ==
  {SetEx(a, 1), SetTo(b, 1), Expire(b, 1), Expire(b, 0), SetEx(c3, 2), Large(c3)}

\* Keys that expire and keys that do not, by commands that overwrite them.
PlainTtlCommands == {SetEx(a, 1), SetTo(a, 2), SetTo(b, 1)}

Setup(policy, maxmemory, commands, saves, restarts, maxTime, maxLog) ==
  [policy |-> policy, maxmemory |-> maxmemory, commands |-> commands,
   saves |-> saves, restarts |-> restarts, maxTime |-> maxTime, maxLog |-> maxLog,
   replicated |-> FALSE, replica |-> Unlimited]

\* With a replica that has this limit.
Replicated(u, limit) == [u EXCEPT !.replicated = TRUE, !.replica = limit]

Recovery == Setup("noeviction", 4, TypedCommands, FALSE, TRUE, 0, 4)
Fallback == Setup("noeviction", 3, GrowingCommands \cup {DelOf(a)}, TRUE, TRUE, 0, 2)
Eviction == Setup("allkeys-lru", 4, StringCommands, FALSE, FALSE, 0, 4)
Dumps    == Setup("allkeys-lru", 3, GrowingCommands, TRUE, TRUE, 0, 2)
Expiry   == Setup("volatile-ttl", 4, TtlCommands, FALSE, TRUE, 2, 3)

LateExpiry == Setup("noeviction", 0, {SetEx(a, 1)}, TRUE, TRUE, 2, 2)

EvictingMaster ==
  Replicated(Setup("allkeys-lru", 3, GrowingCommands, FALSE, TRUE, 0, 2), Unlimited)
FullMaster ==
  Replicated(Setup("noeviction", 3, {Lpush(b, 1), Hset(c3, 1, 2), Hset(c3, 2, 1)},
                   FALSE, TRUE, 0, 3),
             [maxmemory |-> 3, policy |-> "noeviction"])
ExpiringMaster ==
  Replicated(Setup("volatile-ttl", 2, PlainTtlCommands, FALSE, FALSE, 2, 2), Unlimited)

EverySetup == {Recovery, Fallback, Eviction, Dumps, Expiry, LateExpiry,
               EvictingMaster, FullMaster, ExpiringMaster}

TtlSetup == {Setup("noeviction", 0, TtlCommands, FALSE, FALSE, 2, 3)}

=============================================================================
