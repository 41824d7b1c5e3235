---------------------------- MODULE LogShipping ----------------------------
(***************************************************************************)
(* What master-side replication promises, without links, locks, backlogs   *)
(* or transports: a log of effects, and for each replica connection a feed *)
(* that is a snapshot followed by every later effect in order, until the   *)
(* connection is cut off.  MasterReplication implements this module.       *)
(***************************************************************************)
EXTENDS Naturals, Sequences

CONSTANT Conn

VARIABLES log,      \* effects in the master's store
          shipped,  \* effects shipped so far
          feed,     \* what each connection was given: a snapshot, then effects
          cut,      \* connections that will be given nothing more
          closed    \* the master takes no more writes

vars == <<log, shipped, feed, cut, closed>>

Init ==
  /\ log = 0
  /\ shipped = 0
  /\ feed = [c \in Conn |-> <<>>]
  /\ cut = {}
  /\ closed = FALSE

\* A write: the command and the evictions it causes.
Commit ==
  /\ ~closed
  /\ log = shipped
  /\ log' \in Nat /\ log' > log
  /\ UNCHANGED <<shipped, feed, cut, closed>>

\* The next effect goes to every feed that is not cut, or gets cut right now.
Ship ==
  /\ ~closed
  /\ shipped < log
  /\ shipped' = shipped + 1
  /\ cut \subseteq cut'
  /\ feed' = [c \in Conn |-> IF feed[c] # <<>> /\ c \notin cut'
                             THEN Append(feed[c], shipped + 1) ELSE feed[c]]
  /\ closed' \in BOOLEAN
  /\ UNCHANGED log

\* A connection starts from a snapshot of the store, never between a write
\* and its shipping.
Subscribe(c) ==
  /\ feed[c] = <<>>
  /\ log = shipped \/ closed
  /\ feed' = [feed EXCEPT ![c] = <<log>>]
  /\ UNCHANGED <<log, shipped, cut, closed>>

Cut(c) ==
  /\ feed[c] # <<>>
  /\ cut' = cut \cup {c}
  /\ UNCHANGED <<log, shipped, feed, closed>>

\* The master stops taking writes; what it did not ship stays unshipped.
Close ==
  /\ closed' = TRUE
  /\ UNCHANGED <<log, shipped, feed, cut>>

Next == Commit \/ Ship \/ Close \/ \E c \in Conn : Subscribe(c) \/ Cut(c)

Spec == Init /\ [][Next]_vars

=============================================================================
