---------------------------- MODULE Replication ----------------------------
(***************************************************************************)
(* A master and one replica that reconnects: MasterReplication and         *)
(* ReplicaClient over shared connections.  The k-th session of the replica *)
(* uses connection k.                                                      *)
(***************************************************************************)
EXTENDS Naturals, Sequences

CONSTANTS Sessions,    \* bound of the model: sessions of the replica
          BacklogMax, PendingMax, MaxEffects, MaxEvict

ASSUME SessionsAssumption ==
  /\ Sessions \in Nat \ {0}
  /\ BacklogMax \in Nat \ {0}
  /\ PendingMax \in Nat \ {0}
  /\ MaxEffects \in Nat
  /\ MaxEvict \in Nat

Conn == 1..Sessions

VARIABLES applied, propagated, locked, healthy, offset, replicas, state, alive,
          backlog, pending, linkOffset, drain, unregs, pc, snap, snapOffset,
          sent, open, phase, got, have

masterVars == <<applied, propagated, locked, healthy, offset, replicas, state,
                alive, backlog, pending, linkOffset, drain, unregs, pc, snap,
                snapOffset>>
vars == <<masterVars, sent, open, phase, got, have>>

Master  == INSTANCE MasterReplication
Replica == INSTANCE ReplicaClient

Init == Master!Init /\ Replica!ReplicaInit

\* _run: a new session begins when the ones before it have failed.
Current(c) == \A k \in 1 .. c - 1 : phase[k] = "down"

Connect(c) ==
  /\ Current(c)
  /\ Replica!Handshake(c)
  /\ UNCHANGED masterVars

\* The master runs full_resync when it reads the PSYNC of the handshake.
Psync(c) ==
  /\ phase[c] = "handshake"
  /\ Master!Register(c)
  /\ UNCHANGED <<phase, got, have>>

MasterStep(c) ==
  /\ \/ Master!SendSnapshot(c) \/ Master!EncodeFails(c) \/ Master!FlushBatch(c)
     \/ Master!GoLive(c) \/ Master!HandlerExit(c) \/ Master!Background(c)
  /\ UNCHANGED <<phase, got, have>>

ReplicaReads(c) == Replica!Read(c) /\ UNCHANGED masterVars

\* A session ends; a session that never connects also counts.
ReplicaEnds(c) ==
  /\ Current(c)
  /\ Replica!SessionEnds(c)
  /\ UNCHANGED masterVars

ConnectionLost(c) ==
  /\ phase[c] \in {"handshake", "rdb", "stream"}
  /\ Master!ConnectionLost(c)
  /\ UNCHANGED <<phase, got, have>>

Next ==
  \/ Master!Writes /\ UNCHANGED <<phase, got, have>>
  \/ \E c \in Conn : Connect(c) \/ Psync(c) \/ MasterStep(c) \/ ReplicaReads(c)
                       \/ ReplicaEnds(c) \/ ConnectionLost(c)

Spec == Init /\ [][Next]_vars

\* The master's coroutines run, appends and drains finish, the replica reads what
\* is there to read, notices a lost connection, and reconnects after its backoff.
Fairness ==
  /\ WF_vars((Master!Appended \/ Master!AppendFails) /\ UNCHANGED <<phase, got, have>>)
  /\ \A c \in Conn :
       /\ WF_vars(Connect(c))
       /\ WF_vars(Psync(c))
       /\ WF_vars(MasterStep(c))
       /\ WF_vars(ReplicaReads(c))
       /\ WF_vars(ReplicaEnds(c) /\ phase[c] # "idle")

FairSpec == Spec /\ Fairness

-----------------------------------------------------------------------------
\* One type invariant for both sides: the replica never reads past what the
\* master wrote.
TypeOK == Master!TypeOK /\ Replica!ReplicaTypeOK

\* Whatever the chunks of the stream, the master's flushes and the replica's
\* reads, the replica applies commands in the master's order and never twice,
\* never a command that its snapshot already contains, and with no gap between
\* two commands it applies.
AppliesInOrder ==
  \A c \in Conn :
    \A i \in 2..Len(have[c]) : IF i = 2 THEN have[c][2] > have[c][1]
                                        ELSE have[c][i] = have[c][i - 1] + 1

\* "Apply any complete commands already buffered after RDB" (_read_loop): a
\* replica whose link is up has its snapshot and every command it read since.
NothingLostAfterSnapshot ==
  \A c \in Conn : phase[c] = "stream" => Len(have[c]) = got[c] \div 2 - 1

\* A replica that is up holds no effect that the master's store lacks, and no
\* command (as opposed to snapshot) that the master's AOF has not accepted.
ReplicaBehindMaster ==
  \A c \in Conn :
    \A i \in 1..Len(have[c]) : have[c][i] <= (IF i = 1 THEN applied ELSE propagated)

\* Once the writes cease, full_resync ends, live or closed, also for a link that
\* was given up meanwhile and whatever the replica does with its connection.
ResyncEnds == Master!ResyncEnds

\* A link is up or goes down: every session that sends PSYNC reaches the command
\* stream or fails and lets the client reconnect.
SessionSettles ==
  \A c \in Conn : phase[c] = "handshake" ~> phase[c] \in {"stream", "down"}

\* Once the master takes no more writes, a replica that stays up on a link that
\* was not given up has read every effect of the master's store.
ReadsEverything ==
  \A c \in Conn :
    <>[](phase[c] = "stream" /\ open[c] /\ alive[c] /\ healthy)
      => <>[](/\ got[c] = Replica!Written(c)
              /\ sent[c] # <<>> /\ sent[c][Len(sent[c])] = applied)

-----------------------------------------------------------------------------
(* The inductive invariant of the composition                              *)

\* The items of the stream (the snapshot, then commands) read completely.
ItemsRead(c) == got[c] \div 2 - 1

\* h is the snapshot f and then some of the effects after it, without a gap and
\* up to the n-th item of the stream.
Stretch(h, f, n) ==
  /\ Len(h) <= n
  /\ h[1] = f
  /\ \A i \in 2..Len(h) : h[i] = f + (n - Len(h)) + i - 1

\* What a session applied: the snapshot and, behind the commands that came with
\* it, a stretch of the stream that ends with the last item read.
AppliedInv(c) ==
  /\ phase[c] \in {"idle", "handshake", "rdb"} => have[c] = <<>>
  /\ phase[c] = "stream" => have[c] # <<>>
  /\ have[c] # <<>> => Stretch(have[c], snap[c], ItemsRead(c))

CInv ==
  /\ Master!IInv
  /\ Replica!ReplicaTypeOK
  /\ \A c \in Conn : Master!CarriesInv(c) /\ AppliedInv(c)

=============================================================================
